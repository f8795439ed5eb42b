----------------------------- MODULE Questions -----------------------------
(***************************************************************************)
(* The questions of a request and the local checks on them                 *)
(* (src/question.go).  A question is a record whose "form" is the Go type; *)
(* a value that encodes to JSON null is "null", one that encodes to "", {} *)
(* or [] is "empty", any other is "some".                                  *)
(***************************************************************************)
EXTENDS Integers, Sequences, FiniteSets

CONSTANTS
  Labels,          \* what a choice can offer
  OtherKinds,      \* wire kinds this version does not model
  MaxOptions,      \* maxChoiceOptions
  MaxLevels        \* maxScoreLevels

ModeledKinds == {"noul", "choice", "score"}
Value        == {"null", "empty", "some"}

NoulQuestion   == [form : {"noul"}, instructions : Value, true : Value, false : Value]
ChoiceQuestion == [form : {"choice"}, criteria : SUBSET Labels]
ScoreQuestion  == [form : {"score"}, criteria : UNION {[1..n -> Value] : n \in 0..(MaxLevels + 1)}]
RawQuestion    == [form : {"raw"}, type : ModeledKinds \cup OtherKinds \cup {""},
                   criteria : {"absent", "no levels", "some"}]
NilQuestion    == [form |-> "nil"]
Question       == NoulQuestion \cup ChoiceQuestion \cup ScoreQuestion
                    \cup RawQuestion \cup {NilQuestion}

(* kind; a nil question has none. *)
Kind(question) ==
  CASE question.form = "nil" -> ""
    [] question.form = "raw" -> question.type
    [] OTHER -> question.form

(* The validate method of each form. *)
ValidNoul(question) ==
  \/ question.true # "null" \/ question.false # "null"
  \/ question.instructions = "some"

ValidChoice(question) == Cardinality(question.criteria) \in 1..MaxOptions

ValidScore(question) ==
  /\ Len(question.criteria) \in 1..MaxLevels
  /\ \A level \in DOMAIN question.criteria : question.criteria[level] # "null"

ValidRaw(question) ==
  /\ question.type # ""
  /\ question.type \in {"choice", "score"} => question.criteria # "absent"
  /\ question.type = "score" => question.criteria # "no levels"

ValidQuestion(question) ==
  CASE question.form = "noul"   -> ValidNoul(question)
    [] question.form = "choice" -> ValidChoice(question)
    [] question.form = "score"  -> ValidScore(question)
    [] question.form = "raw"    -> ValidRaw(question)
    [] question.form = "nil"    -> FALSE

(***************************************************************************)
(* A question map is a function from the names in use to questions; a name *)
(* is its rank among names, the empty name being 0.  The report names the  *)
(* lowest name that fails (LowestFailure.tla is the loop itself).          *)
(***************************************************************************)
Lowest(names) == CHOOSE name \in names : \A other \in names : name <= other

Refused(questions) ==
  {name \in DOMAIN questions : name = 0 \/ ~ValidQuestion(questions[name])}
=============================================================================
