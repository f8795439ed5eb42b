---------------------------- MODULE MCFunctions ----------------------------
(***************************************************************************)
(* The pure functions of the package over bounded inputs, each against     *)
(* what it is for.  A state is one input; only the backoff has a next      *)
(* state, the attempt after, the others are asked once.                    *)
(***************************************************************************)
EXTENDS RetryPolicy, Errors, Models, Moderation, FiniteSets

CONSTANTS
  MaxAttempt,   \* bound: attempts looked at
  MaxRunes,     \* bound: runes of a text that is cut
  Limit         \* stands for maxErrorBodyLength

ASSUME BoundsAssumption == MaxAttempt \in Nat /\ MaxRunes \in Nat /\ Limit \in Nat

VARIABLE input

Policy == [backoffInitial : 0..MaxInt, backoffMax : 0..MaxInt, backoffJitter : 0..FloatScale]

(* What a place of an error body can hold; each place has a text of its own. *)
Holding(text) ==
  {NoValue, OtherValue, Text(text), Text(""), Object(NoValue), Object(Text(text)),
   Object(Text("")), Object(OtherValue)}

Entries ==
  {OtherValue, Entry(NoValue, "p"), Entry(Text("one"), "p"), Entry(Text("two"), ""),
   Entry(Text(""), "")}

Lists == {List(entries) : entries \in UNION {[1..n -> Entries] : n \in 0..3}}

TextBodies ==
  LET texts == Holding("e") \X Holding("m") \X Holding("d")
  IN  {Said(held[1], held[2], held[3]) : held \in texts}

ListBodies ==
  LET lists == {NoValue, Text("")} \X {NoValue, Text("m")} \X Lists
  IN  {Said(held[1], held[2], held[3]) : held \in lists}

OtherBodies ==
  {NoBytes, Blank, Plain, Json(Text("whole")), Json(Text("")), Json(OtherValue)}

Bodies == OtherBodies \cup TextBodies \cup ListBodies

Listings ==
  {Unusable, Unlisted("absent"), Unlisted("mistyped")}
    \cup {Listing(models) : models \in UNION {[1..n -> Metadata] : n \in 0..2}}

Thresholds == {0, 29, 30, 40, 60, 79, 80, 85, 89, 90, 100}

Init ==
  \/ input \in [of : {"backoff"}, policy : Policy, attempt : {1}]
  \/ input \in [of : {"body"}, body : Bodies]
  \/ input \in [of : {"text"}, widths : UNION {[1..n -> 1..4] : n \in 0..MaxRunes}]
  \/ input \in [of : {"listing"}, optionsOK : BOOLEAN, answered : BOOLEAN, body : Listings]
  \/ input \in [of : {"post"}, probabilities : [DOMAIN Policies -> Thresholds]]

Fail ==
  /\ input.of = "backoff"
  /\ input.attempt < MaxAttempt
  /\ input' = [input EXCEPT !.attempt = @ + 1]

Spec == Init /\ [][Fail]_input

Enabled(policy) == policy.backoffInitial > 0 /\ policy.backoffMax > 0

(* The delay before jitter is the initial one doubled once per earlier     *)
(* attempt and capped; where the cap lies past the middle of the width it  *)
(* may stop one doubling short, never lower (backoff's loop).              *)
FullIsDoubled ==
  input.of = "backoff" /\ Enabled(input.policy) =>
    LET ideal == AtMost(input.policy.backoffInitial * 2 ^ (input.attempt - 1),
                        input.policy.backoffMax)
        full  == FullBackoff(input.policy, input.attempt)
    IN  \/ full = ideal
        \/ full > MaxInt \div 2 /\ full <= ideal

(* Jitter never turns a backoff that is on into no delay, even at full     *)
(* jitter and where the delay is too long for a float64 to hold exactly;   *)
(* below that it takes no more than its fraction, for all the rounding on  *)
(* the way (backoff).                                                      *)
JitterLeavesDelay ==
  input.of = "backoff" /\ Enabled(input.policy) =>
    LET full == FullBackoff(input.policy, input.attempt)
    IN  \A delay \in Backoff(input.policy, input.attempt) :
          /\ delay \in 1..full
          /\ full < FloatScale =>
               delay * FloatScale >= full * (FloatScale - input.policy.backoffJitter)

Texts(body) ==
  {rank \in 1..3 :
     CASE rank = 1 -> IsNested(body.error)
       [] rank = 2 -> body.message.json = "string"
       [] rank = 3 -> IsNested(body.detail)}

MessageInMessage(body) == body.message.json = "object" /\ IsNested(body.message)

(* An error is never shown without an explanation unless its body is blank:*)
(* of error, message and detail the first that is a text decides, and when *)
(* that is empty, or none is, the body itself is quoted (extractMessage,   *)
(* messageFromObject).  An object in message, whose own message the code   *)
(* passes over and the doc of messageFromObject does not, is left out.     *)
Explained ==
  input.of = "body" =>
    LET body  == input.body
        quote == ExtractMessage(body)
        values == <<body.error, body.message, body.detail>>
        first  == CHOOSE rank \in Texts(body) : \A other \in Texts(body) : rank <= other
    IN  /\ Silent(quote) => body = Blank
        /\ body.form = "object" /\ Texts(body) # {} /\ ~MessageInMessage(body) =>
             quote = IF Nested(values[first]) = "" THEN WholeBody ELSE Quote(Nested(values[first]))

(* Every validation failure that has a message is listed, in order, the    *)
(* ones after a malformed entry too, unless an error or a message outranks *)
(* the list (validationMessage).                                           *)
FailuresListed ==
  input.of = "body" /\ input.body.form = "object" =>
    LET body    == input.body
        entries == body.detail.entries
        kept    == {i \in DOMAIN entries : entries[i].json = "entry" /\ entries[i].msg.json = "string"}
        parts   == ExtractMessage(body).parts
    IN  body.detail.json = "list" /\ Texts(body) = {} /\ ~Silent(Parts(ValidationMessage(entries)))
        => /\ ExtractMessage(body).from = "entries"
           /\ Len(parts) = Cardinality(kept)
           /\ \A i \in kept : parts[Cardinality({j \in kept : j <= i})] = entries[i]

(* A body quoted is cut between two runes, within the limit, and loses     *)
(* less than one rune of what would fit (truncate).                        *)
CutAtRune ==
  input.of = "text" =>
    LET text == Bytes(input.widths)
        kept == Truncate(text, Limit)
    IN  /\ kept = Len(text) \/ text[kept + 1] = "start"
        /\ kept <= Limit
        /\ kept < Len(text) => kept > Limit - 4

AllGood(model) == \A field \in DOMAIN model : model[field] = "good"

(* A listing is delivered exactly if every field of every model came       *)
(* across, and then it is what the server sent; an error that gives an     *)
(* index names a field that is absent, and all fields before it are not    *)
(* (decodeListModels).                                                     *)
ListingJudged ==
  input.of = "listing" =>
    LET body   == input.body
        result == ListModels(input.optionsOK, input.answered, body)
        whole  == /\ body.form = "listing"
                  /\ \A i \in DOMAIN body.models : AllGood(body.models[i])
    IN  /\ result.ok <=> input.optionsOK /\ input.answered /\ whole
        /\ result.ok => result.models = body.models
        /\ ~result.ok /\ result.index # NoIndex =>
             /\ body.models[result.index][result.field] = "absent"
             /\ \A i \in 1..(result.index - 1) : AllGood(body.models[i])

(* The verdict is the gravest action any policy calls for, whatever the    *)
(* order of their names: no later review takes a removal back (run of      *)
(* examples/moderation).                                                   *)
GravestActionWins ==
  input.of = "post" =>
    LET actions == {Action(Policies[i], input.probabilities[i]) : i \in DOMAIN Policies}
    IN  Verdict(input.probabilities) =
          IF "remove" \in actions THEN "remove"
          ELSE IF "review" \in actions THEN "review" ELSE "allow"
=============================================================================
