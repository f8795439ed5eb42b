----------------------------- MODULE SystemOne -----------------------------
(***************************************************************************)
(* A program that uses one SystemOneRequest for several calls: it          *)
(* registers questions with Ask or by writing the map, submits the         *)
(* request, and reads the response through the keys Ask gave it            *)
(* (src/systemone.go, src/response.go, src/typed.go).                      *)
(*                                                                         *)
(* The request is passed by value but its question map is shared: what was *)
(* sent and what the response is checked against are the same map, read    *)
(* before and after the exchange.  The program may write it in between,    *)
(* from a Retry predicate or an http middleware.                           *)
(***************************************************************************)
EXTENDS Answers

CONSTANTS
  Names,          \* the names in use, by rank; 0 is the empty name
  Pool,           \* the questions the program asks
  Wires,          \* the answers a server can send
  TopLevels,      \* what it can make of the fields model and usage
  Extras,         \* the questions Extra can put in place of the request's
  MaxCalls        \* bound: calls made with the request

Unanswered == [type |-> "unanswered"]

ASSUME SystemOneAssumption ==
  /\ Names \subseteq Nat
  /\ Pool \subseteq Question
  /\ \A wire \in Wires : IsWire(wire)
  /\ \A map \in Extras : \A name \in DOMAIN map : map[name] \in Question
  /\ \A top \in TopLevels : {top.model, top.usage} # {"mistyped"}
  /\ MaxCalls \in Nat

VARIABLES
  questions,  \* SystemOneRequest.Questions
  keys,       \* the keys handed out by Ask: a name and its question
  place,      \* "editing", "waiting" for the exchange, or "returned"
  sent,       \* the questions of the request body
  body,       \* the response body: its answers and top-level fields
  report,     \* what SystemOne returned
  calls       \* calls made so far

vars == <<questions, keys, place, sent, body, report, calls>>

(* A report: "answers", or the class of the error and the place it names.  *)
Report(class, name, field) == [class |-> class, name |-> name, field |-> field]
NoReport  == Report("none", 0, NoField)
Answered  == Report("answers", 0, NoField)
NoBody    == [answers |-> <<>>, model |-> "good", usage |-> "good"]

Init ==
  /\ questions = <<>>
  /\ keys = {}
  /\ place = "editing"
  /\ sent = <<>>
  /\ body = NoBody
  /\ report = NoReport
  /\ calls = 0

With(map, name, value) ==
  [other \in DOMAIN map \cup {name} |-> IF other = name THEN value ELSE map[other]]

(* Between calls the program goes back to preparing the request; it stops  *)
(* after the last one (bound).                                             *)
Edit ==
  /\ place = "waiting" \/ calls < MaxCalls
  /\ place' = IF place = "waiting" THEN place ELSE "editing"
  /\ UNCHANGED <<sent, body, report, calls>>

(* Mutant of Ask: a question of any form gets a key. *)
Ask_AnyForm(name, question) ==
  /\ Edit
  /\ questions' = With(questions, name, question)
  /\ keys' = keys \cup {[name |-> name, question |-> question]}

(* Ask: a name already registered is replaced. *)
Ask(name, question) ==
  /\ Edit
  /\ question.form \in ModeledKinds
  /\ questions' = With(questions, name, question)
  /\ keys' = keys \cup {[name |-> name, question |-> question]}

(* The program writes req.Questions itself; any question will do. *)
Assign(name, question) ==
  /\ Edit
  /\ questions' = With(questions, name, question)
  /\ UNCHANGED keys

(* What else is refused before anything is sent: a call option, a state    *)
(* that is no string, object or array, a value JSON cannot encode.         *)
Flaws == {"invalid option", "invalid state", "unencodable"}

Local(flaw) ==
  IF DOMAIN questions = {} THEN Report("no questions", 0, NoField)
  ELSE IF Refused(questions) # {}
  THEN Report("invalid question", Lowest(Refused(questions)), NoField)
  ELSE IF flaw \in Flaws THEN Report(flaw, 0, NoField)
  ELSE NoReport

(* systemOne: the local checks, then the body is encoded from the same     *)
(* map, unless Extra has questions of its own: they replace it unchecked.  *)
Submit ==
  /\ place # "waiting"
  /\ calls < MaxCalls
  /\ calls' = calls + 1
  /\ \E flaw \in Flaws \cup {"none"} : report' = Local(flaw)
  /\ IF report' = NoReport
     THEN place' = "waiting" /\ sent' \in {questions} \cup Extras
     ELSE place' = "returned" /\ UNCHANGED sent
  /\ body' = NoBody
  /\ UNCHANGED <<questions, keys>>

(* The exchange ends without a usable 2xx body (Send.tla). *)
ExchangeFails ==
  /\ place = "waiting"
  /\ place' = "returned"
  /\ report' = Report("call", 0, NoField)
  /\ UNCHANGED <<questions, keys, sent, body, calls>>

(* firstUntyped and checkAnswered, as the names each of them collects. *)
Untyped(answers) == {name \in DOMAIN answers : ~TypedAnswer(answers[name])}

(* Mutant of OutOfKind: an answer of any kind will do. *)
OutOfKind_Never(asked, answers) == {}

OutOfKind(asked, answers) ==
  {name \in DOMAIN asked \cap DOMAIN answers : answers[name].type # Kind(asked[name])}

LeftOut(asked, answers) == DOMAIN asked \ DOMAIN answers

BrokenAnswers(answers) == {name \in DOMAIN answers : Broken(answers[name]) # NoField}

(* decodeSystemOne: the fixed precedence.  A top-level field of the wrong  *)
(* type is what encoding/json reports first of all.                        *)
Decoded(asked, reply) ==
  LET answers == reply.answers
      faulty  == LeftOut(asked, answers) \cup OutOfKind(asked, answers)
  IN  IF "mistyped" \in {reply.model, reply.usage}
        THEN Report("body", 0, IF reply.model = "mistyped" THEN "model" ELSE "usage")
      ELSE IF Untyped(answers) # {}
        THEN Report("missing", Lowest(Untyped(answers)), "type")
      ELSE IF reply.model = "absent" THEN Report("missing", 0, "model")
      ELSE IF reply.usage = "absent" THEN Report("missing", 0, "usage")
      ELSE IF faulty # {}
        THEN IF Lowest(faulty) \in LeftOut(asked, answers)
             THEN Report("unanswered", Lowest(faulty), NoField)
             ELSE Report("kind", Lowest(faulty), "type")
      ELSE IF BrokenAnswers(answers) # {}
        THEN Report("field", Lowest(BrokenAnswers(answers)),
                    Broken(answers[Lowest(BrokenAnswers(answers))]))
      ELSE Answered

(* A 2xx body arrives and is decoded against the map as it now is. *)
Receive(reply) ==
  /\ place = "waiting"
  /\ place' = "returned"
  /\ body' = reply
  /\ report' = Decoded(questions, reply)
  /\ UNCHANGED <<questions, keys, sent, calls>>

(* Key.Answer on the last response: the class of its error, or "answers".  *)
Read(key) ==
  IF key.name \notin DOMAIN body.answers THEN Report("missing", key.name, NoField)
  ELSE LET field == Disagreement(key.question, body.answers[key.name])
       IN  IF field = NoField THEN Answered
           ELSE IF field = "type" THEN Report("kind", key.name, field)
           ELSE Report("disagreement", key.name, field)

Replies ==
  {[answers |-> [name \in {n \in Names : choice[n] # Unanswered} |-> choice[name]],
    model |-> top.model, usage |-> top.usage] :
     choice \in [Names -> Wires \cup {Unanswered}], top \in TopLevels}

Next ==
  \/ \E name \in Names, question \in Pool : Ask(name, question) \/ Assign(name, question)
  \/ Submit
  \/ ExchangeFails
  \/ \E reply \in Replies : Receive(reply)

Spec == Init /\ [][Next]_vars

IsQuestions(map) ==
  DOMAIN map \subseteq Names /\ \A name \in DOMAIN map : map[name] \in Pool

TypeOK ==
  /\ IsQuestions(questions)
  /\ IsQuestions(sent) \/ sent \in Extras
  /\ keys \subseteq [name : Names, question : {q \in Pool : q.form \in ModeledKinds}]
  /\ place \in {"editing", "waiting", "returned"}
  /\ DOMAIN body.answers \subseteq Names
  /\ \A name \in DOMAIN body.answers : IsWire(body.answers[name])
  /\ report.name \in Names \cup {0}
  /\ calls \in 0..MaxCalls

(* An answer in which every field its kind uses came across as sent. *)
Whole(wire) ==
  wire.type \in ModeledKinds =>
    /\ \A field \in Fields : Uses(wire.type, field) => wire.fields[field] = "good"
    /\ wire.type = "score" => \A map \in Maps : wire.keys[map] \cap Junk = {}

Delivered == place = "returned" /\ report = Answered

(* A response that is delivered answers every question of the request in   *)
(* kind, and no zero in it stands for a number the server left out or sent *)
(* wrong, also when encoding/json reported another field (decodeSystemOne, *)
(* fieldError).  It is true of servers that write keys in their own case   *)
(* and no null among probabilities: `folded` and `nulled` are the others.  *)
AnsweredInFull ==
  Delivered =>
    /\ \A name \in DOMAIN questions :
         name \in DOMAIN body.answers /\ body.answers[name].type = Kind(questions[name])
    /\ \A name \in DOMAIN body.answers : Whole(body.answers[name])

(* What is not an error of the server is not reported as one: a response   *)
(* that answers everything that was sent, in kind and whole, is delivered, *)
(* whatever it holds in fields its answers do not use, unless the program  *)
(* rewrote the questions during the call or sent others in Extra.          *)
Honest ==
  /\ questions = sent
  /\ body.model = "good" /\ body.usage = "good"
  /\ \A name \in DOMAIN sent :
       name \in DOMAIN body.answers /\ body.answers[name].type = Kind(sent[name])
  /\ \A name \in DOMAIN body.answers :
       TypedAnswer(body.answers[name]) /\ Whole(body.answers[name])

HonestAnswerDelivered ==
  place = "returned" /\ body # NoBody /\ Honest => report = Answered

(* The key of a question that is still registered reads a delivered        *)
(* response, or finds the answer outside what the question offered: it     *)
(* never finds it missing or of another kind (Ask, Key.Answer).            *)
FreshKeysRead ==
  Delivered => \A key \in keys :
    key.name \in DOMAIN questions /\ questions[key.name] = key.question
      => Read(key).class \in {"answers", "disagreement"}

(* What can be wrong at a place of the last response. *)
Fault(class, name, field) ==
  LET answers == body.answers
  IN  \/ class = "body" /\ body[field] = "mistyped"
      \/ class = "missing" /\ name = 0 /\ body[field] = "absent"
      \/ class = "missing" /\ name \in DOMAIN answers /\ ~TypedAnswer(answers[name])
      \/ class = "unanswered" /\ name \in DOMAIN questions \ DOMAIN answers
      \/ class = "kind" /\ name \in DOMAIN questions \cap DOMAIN answers
                         /\ answers[name].type # Kind(questions[name])
      \/ /\ class = "field" /\ Uses(answers[name].type, field)
         /\ \/ answers[name].fields[field] # "good"
            \/ field \in Maps /\ answers[name].keys[field] \cap Junk # {}

(* What an error blames is really wrong: of several errors, and with only  *)
(* the first of them reported by encoding/json, the program is never sent  *)
(* after a sound field or one the answer does not use (decodeSystemOne,    *)
(* fieldError, recheck).                                                   *)
FaultNamed ==
  place = "returned" /\ body # NoBody /\ report # Answered
    => Fault(report.class, report.name, report.field)

(* The level read off an answer that its key accepted is one its question  *)
(* offered, whatever the score, as long as the answer reports any level    *)
(* (Level, rekeyLevels).                                                   *)
LevelOffered ==
  Delivered => \A key \in keys :
    /\ key.question.form = "score" /\ Read(key) = Answered
    /\ Reported(body.answers[key.name]) # {}
    => \A halves \in -2..(2 * MaxLevels + 2) :
         Level(halves, Reported(body.answers[key.name])) \in Rubric(key.question)
=============================================================================
