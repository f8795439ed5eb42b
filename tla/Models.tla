------------------------------- MODULE Models -------------------------------
(***************************************************************************)
(* The listing of models: what ListModels makes of a 2xx body              *)
(* (src/models.go, decodeListModels of src/response.go).                   *)
(*                                                                         *)
(* A model on the wire says of each of its fields whether it is good,      *)
(* absent (null reads the same) or of the wrong type.  encoding/json       *)
(* reports the first wrong type it meets, by a path without the index, and *)
(* goes on.                                                                *)
(***************************************************************************)
EXTENDS Integers, Sequences

MetadataFields == <<"name", "description", "release_date">>
MetadataStates == {"good", "absent", "mistyped"}
Metadata == [{"name", "description", "release_date"} -> MetadataStates]

(* A body: no JSON, models absent or of the wrong type, or a list. *)
Unusable        == [form |-> "unusable"]
Unlisted(state) == [form |-> "unlisted", state |-> state]
Listing(models) == [form |-> "listing", models |-> models]

Listed(models)             == [ok |-> TRUE, models |-> models]
Invalid(index, field)      == [ok |-> FALSE, index |-> index, field |-> field]
NoIndex == 0   \* the code counts from 0, these lists from 1

(* The places of a list in a state, in the order they are looked at. *)
In(models, state) ==
  {place \in (DOMAIN models) \X (1..3) : models[place[1]][MetadataFields[place[2]]] = state}

First(places) ==
  CHOOSE place \in places : \A other \in places :
    \/ place[1] < other[1]
    \/ place[1] = other[1] /\ place[2] <= other[2]

(* Mutant of DecodeListModels: the error of encoding/json is dropped. *)
DecodeListModels_Lenient(body) ==
  CASE body.form = "unusable" -> Invalid(NoIndex, "")
    [] body.form = "unlisted" -> Invalid(NoIndex, "models")
    [] body.form = "listing"  ->
         LET missing == In(body.models, "absent")
         IN  IF missing # {} THEN Invalid(First(missing)[1], MetadataFields[First(missing)[2]])
             ELSE Listed(body.models)

DecodeListModels(body) ==
  CASE body.form = "unusable" -> Invalid(NoIndex, "")
    [] body.form = "unlisted" -> Invalid(NoIndex, "models")
    [] body.form = "listing"  ->
         LET wrong   == In(body.models, "mistyped")
             missing == In(body.models, "absent")
         IN  IF wrong # {} THEN Invalid(NoIndex, MetadataFields[First(wrong)[2]])
             ELSE IF missing # {}
             THEN Invalid(First(missing)[1], MetadataFields[First(missing)[2]])
             ELSE Listed(body.models)

(* ListModels: the options of the call, the exchange (Send.tla), the body. *)
ListModels(optionsOK, answered, body) ==
  IF ~optionsOK \/ ~answered THEN Invalid(NoIndex, "call") ELSE DecodeListModels(body)
=============================================================================
