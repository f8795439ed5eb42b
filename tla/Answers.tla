------------------------------ MODULE Answers ------------------------------
(***************************************************************************)
(* One answer of a response body: how it is taken off the wire             *)
(* (src/answer.go) and read back as what its question offered              *)
(* (src/typed.go).                                                         *)
(*                                                                         *)
(* encoding/json, which is not under src/, does four things the code has   *)
(* to live with: it reports only the first field of the wrong JSON type;   *)
(* it goes on and leaves a zero in such a field, which then no longer      *)
(* looks absent; it matches a key to a field whatever the key's case; and  *)
(* it stores a zero, with no error, for a null among a map's numbers.      *)
(***************************************************************************)
EXTENDS Questions

CONSTANT Junk   \* the keys of a map that strconv.Atoi refuses

Fields == {"noul", "choice", "score", "confidence", "legend", "probabilities"}
Maps   == {"legend", "probabilities"}
NoField == "none"

(* absent (a field that is null reads the same), of the right type, of the *)
(* wrong type, of the wrong type under a key that differs from the field's *)
(* in case, or, of probabilities, with a null among its values.  Of the    *)
(* wrong type means, for probabilities, itself or one of its values.       *)
FieldStates == {"absent", "good", "mistyped", "folded", "nulled"}

Wrong(wire) == {field \in Fields : wire.fields[field] \in {"mistyped", "folded"}}

(* An answer on the wire.  first is the wrong field that comes first in    *)
(* the body; choice is the label chosen; keys are the keys of each of its  *)
(* maps, labels of a choice or levels of a score.                          *)
Wire == [type   : ModeledKinds \cup OtherKinds \cup {""},
         fields : [Fields -> FieldStates], first : Fields \cup {NoField},
         choice : Labels, keys : [Maps -> SUBSET Int]]

IsWire(wire) ==
  /\ wire \in Wire
  /\ \A field \in Fields : wire.fields[field] = "nulled" => field = "probabilities"
  /\ IF Wrong(wire) = {} THEN wire.first = NoField ELSE wire.first \in Wrong(wire)

(* The fields an answer of a kind uses, in the order they are looked at. *)
Used(kind) ==
  CASE kind = "noul"   -> <<"noul">>
    [] kind = "choice" -> <<"choice", "confidence", "probabilities">>
    [] kind = "score"  -> <<"score", "confidence", "legend", "probabilities">>

Uses(kind, field) == \E i \in DOMAIN Used(kind) : Used(kind)[i] = field

(* The first field in use among some fields, or NoField. *)
FirstUsed(kind, fields) ==
  LET hits == {i \in DOMAIN Used(kind) : Used(kind)[i] \in fields}
  IN  IF hits = {} THEN NoField ELSE Used(kind)[Lowest(hits)]

(* typed: the answer carries a string type. *)
TypedAnswer(wire) == wire.type # ""

(* Mutant of Recheck: the error encoding/json reported stands. *)
Recheck_First(wire) == wire.first

(* recheck: each field in use decoded on its own, by its exact key. *)
Recheck(wire) ==
  FirstUsed(wire.type, {field \in Fields : wire.fields[field] = "mistyped"})

(* Mutant of FieldError: a first error in an unused field ends the check. *)
FieldError_FirstOnly(wire) ==
  IF Wrong(wire) = {} \/ ~Uses(wire.type, wire.first) THEN NoField ELSE wire.first

(* Mutant of FieldError: any error refuses the answer. *)
FieldError_Strict(wire) == wire.first

FieldError(wire) ==
  IF Wrong(wire) = {} THEN NoField
  ELSE IF Uses(wire.type, wire.first) THEN wire.first
  ELSE Recheck(wire)

(* A scalar of the wrong type leaves a zero, a legend leaves nothing, and  *)
(* probabilities are there whatever their values.                          *)
Nil(wire, field) ==
  \/ wire.fields[field] = "absent"
  \/ field = "legend" /\ field \in Wrong(wire)

Missing(wire) == FirstUsed(wire.type, {field \in Fields : Nil(wire, field)})

(* levelKeys: a map of a score with a key that is no integer. *)
Unnumbered(wire) ==
  IF wire.type # "score" THEN NoField
  ELSE FirstUsed(wire.type, {field \in Maps : wire.keys[field] \cap Junk # {}})

(* decode.  The field that is wrong, or NoField; an answer of another kind *)
(* is kept as it came.                                                     *)
Broken(wire) ==
  IF wire.type \notin ModeledKinds THEN NoField
  ELSE IF FieldError(wire) # NoField THEN FieldError(wire)
  ELSE IF Missing(wire) # NoField THEN Missing(wire)
  ELSE Unnumbered(wire)

(***************************************************************************)
(* decodeAnswer of each typed question, on an answer that decoded: the     *)
(* field in which it disagrees with the question, or NoField.              *)
(***************************************************************************)
Rubric(question) == 0..(Len(question.criteria) - 1)

Disagreement(question, wire) ==
  IF Kind(question) # wire.type THEN "type"
  ELSE CASE wire.type = "noul" -> NoField
         [] wire.type = "choice" ->
              IF wire.choice \notin question.criteria THEN "choice"
              ELSE IF ~(wire.keys["probabilities"] \subseteq question.criteria)
                   THEN "probabilities"
              ELSE NoField
         [] wire.type = "score" ->
              FirstUsed("score", {field \in Maps : ~(wire.keys[field] \subseteq Rubric(question))})

(***************************************************************************)
(* Level of a score answer.  A score may lie between two levels: it is     *)
(* counted in halves, and a half is rounded away from zero.                *)
(***************************************************************************)
Reported(wire) ==
  IF wire.keys["legend"] # {} THEN wire.keys["legend"] ELSE wire.keys["probabilities"]

Rounded(halves) == IF halves < 0 THEN -((1 - halves) \div 2) ELSE (halves + 1) \div 2

(* Mutant of Level: kept from falling below the known levels only. *)
Level_FromBelow(halves, levels) ==
  IF levels # {} /\ Rounded(halves) <= Lowest(levels) THEN Lowest(levels)
  ELSE IF Rounded(halves) < 0 THEN 0
  ELSE Rounded(halves)

(* clampLevel: within the known levels; with none known, not below zero. *)
Level(halves, levels) ==
  LET top == CHOOSE level \in levels : \A other \in levels : level >= other
  IN  IF levels = {} THEN (IF Rounded(halves) < 0 THEN 0 ELSE Rounded(halves))
      ELSE IF Rounded(halves) <= Lowest(levels) THEN Lowest(levels)
      ELSE IF Rounded(halves) > top THEN top
      ELSE Rounded(halves)
=============================================================================
