--------------------------- MODULE SystemOneProof ---------------------------
(***************************************************************************)
(* Theorems about SystemOne, for any questions, names, answers and number  *)
(* of calls.                                                               *)
(***************************************************************************)
EXTENDS SystemOne, TLAPS, WellFoundedInduction

(***************************************************************************)
(* The operators of Questions and Answers.                                 *)
(***************************************************************************)
(* The name an error blames, of those that fail, exists and is the lowest  *)
(* (the minimum every check computes).                                     *)
LEMMA LowestIs ==
  ASSUME NEW S, S \subseteq Nat, S # {}
  PROVE  Lowest(S) \in S /\ \A n \in S : Lowest(S) <= n
<1> DEFINE R == OpToRel(<, Nat)
<1>1. \A x, y \in Nat : x < y => <<x, y>> \in R
  BY DEF OpToRel
<1>2. IsWellFoundedOn(R, Nat)
  BY NatLessThanWellFounded
<1> HIDE DEF R
<1>3. PICK x \in S : \A y \in S : ~(<<y, x>> \in R)
  BY <1>2, WFMin
<1>4. ASSUME NEW y \in S PROVE x <= y
  <2>1. x \in Nat /\ y \in Nat /\ ~(y < x)
    BY <1>1, <1>3
  <2>2. QED
    BY <2>1
<1>5. QED
  BY <1>4 DEF Lowest

(* The fields of a kind are fields, and none of them is NoField. *)
LEMMA UsedFields ==
  ASSUME NEW kind \in ModeledKinds
  PROVE  /\ DOMAIN Used(kind) \subseteq Nat
         /\ \A i \in DOMAIN Used(kind) : Used(kind)[i] \in Fields
         /\ NoField \notin Fields
BY DEF ModeledKinds, Used, Fields, NoField

(* FirstUsed finds a field in use among the given ones, if there is one. *)
LEMMA FirstUsedIs ==
  ASSUME NEW kind \in ModeledKinds, NEW fields
  PROVE  /\ FirstUsed(kind, fields) = NoField =>
              \A field \in fields : ~Uses(kind, field)
         /\ FirstUsed(kind, fields) # NoField =>
              /\ FirstUsed(kind, fields) \in fields \cap Fields
              /\ Uses(kind, FirstUsed(kind, fields))
         /\ (\A field \in fields : ~Uses(kind, field)) => FirstUsed(kind, fields) = NoField
<1> DEFINE hits == {i \in DOMAIN Used(kind) : Used(kind)[i] \in fields}
<1>1. CASE hits = {}
  <2>1. FirstUsed(kind, fields) = NoField
    BY <1>1 DEF FirstUsed
  <2>2. QED
    BY <1>1, <2>1 DEF Uses
<1>2. CASE hits # {}
  <2>1. Lowest(hits) \in hits
    BY <1>2, UsedFields, LowestIs
  <2>2. FirstUsed(kind, fields) = Used(kind)[Lowest(hits)]
    BY <1>2 DEF FirstUsed
  <2> HIDE DEF hits
  <2>3. Lowest(hits) \in DOMAIN Used(kind) /\ Used(kind)[Lowest(hits)] \in fields
    BY <2>1 DEF hits
  <2>4. QED
    BY <2>2, <2>3, UsedFields DEF Uses
<1>3. QED
  BY <1>1, <1>2

LEMMA ScoreUsesMaps == \A map \in Maps : Uses("score", map)
<1>1. /\ Used("score")[3] = "legend" /\ Used("score")[4] = "probabilities"
      /\ 3 \in DOMAIN Used("score") /\ 4 \in DOMAIN Used("score")
  BY DEF Used
<1>2. QED
  BY <1>1 DEF Uses, Maps

(***************************************************************************)
(* What decode makes of one answer, against what it came as.               *)
(***************************************************************************)
(* The servers that write each key in its own case (encoding/json reads    *)
(* another case too, recheck does not) and no null among probabilities.    *)
PlainWires ==
  \A wire \in Wires, field \in Fields : wire.fields[field] \notin {"folded", "nulled"}

(* What decode can let through besides what came whole: a null among the   *)
(* probabilities, and a field under a folded key when encoding/json met a  *)
(* wrong field before it that the kind does not use.                       *)
Leaks(wire, field) ==
  \/ wire.fields[field] = "nulled" /\ field = "probabilities"
  \/ wire.fields[field] = "folded" /\ ~Uses(wire.type, wire.first)

LEMMA WireType ==
  ASSUME NEW wire \in Wires
  PROVE  /\ IsWire(wire)
         /\ wire.type \in ModeledKinds \cup OtherKinds \cup {""}
         /\ \A field \in Fields : wire.fields[field] \in FieldStates
         /\ \A map \in Maps : wire.keys[map] \subseteq Int
         /\ wire.first \in Fields \cup {NoField}
BY SystemOneAssumption DEF IsWire, Wire

(* A field that decode blames is in use and wrong, absent or badly keyed.  *)
LEMMA BlamedField ==
  ASSUME NEW wire \in Wires, Broken(wire) # NoField
  PROVE  /\ wire.type \in ModeledKinds
         /\ Uses(wire.type, Broken(wire))
         /\ \/ wire.fields[Broken(wire)] # "good"
            \/ Broken(wire) \in Maps /\ wire.keys[Broken(wire)] \cap Junk # {}
<1>1. wire.type \in ModeledKinds
  BY DEF Broken
<1>2. CASE FieldError(wire) # NoField
  <2>1. Broken(wire) = FieldError(wire) /\ Wrong(wire) # {}
    BY <1>1, <1>2 DEF Broken, FieldError
  <2>2. CASE Uses(wire.type, wire.first)
    <3>1. FieldError(wire) = wire.first /\ wire.first \in Wrong(wire)
      BY <2>1, <2>2, WireType DEF FieldError, IsWire
    <3>2. QED
      BY <1>1, <2>1, <2>2, <3>1 DEF Wrong
  <2>3. CASE ~Uses(wire.type, wire.first)
    <3>1. FieldError(wire) = Recheck(wire)
      BY <2>1, <2>3 DEF FieldError
    <3>2. /\ Uses(wire.type, Recheck(wire))
          /\ Recheck(wire) \in {field \in Fields : wire.fields[field] = "mistyped"}
      BY <1>1, <1>2, <3>1, FirstUsedIs DEF Recheck
    <3>3. QED
      BY <1>1, <2>1, <3>1, <3>2
  <2>4. QED
    BY <2>2, <2>3
<1>3. CASE FieldError(wire) = NoField /\ Missing(wire) # NoField
  <2>1. Broken(wire) = Missing(wire)
    BY <1>1, <1>3 DEF Broken
  <2>2. /\ Uses(wire.type, Missing(wire))
        /\ Missing(wire) \in {field \in Fields : Nil(wire, field)}
    BY <1>1, <1>3, FirstUsedIs DEF Missing
  <2>3. wire.fields[Missing(wire)] # "good"
    BY <2>2 DEF Nil, Wrong
  <2>4. QED
    BY <1>1, <2>1, <2>2, <2>3
<1>4. CASE FieldError(wire) = NoField /\ Missing(wire) = NoField
  <2>1. Broken(wire) = Unnumbered(wire) /\ wire.type = "score"
    BY <1>1, <1>4 DEF Broken, Unnumbered
  <2>2. /\ Uses(wire.type, Unnumbered(wire))
        /\ Unnumbered(wire) \in {field \in Maps : wire.keys[field] \cap Junk # {}}
    BY <1>1, <2>1, FirstUsedIs DEF Unnumbered
  <2>3. QED
    BY <1>1, <2>1, <2>2
<1>5. QED
  BY <1>2, <1>3, <1>4

(* An answer that came whole is accepted, whatever it holds besides. *)
LEMMA WholeAccepted ==
  ASSUME NEW wire \in Wires, Whole(wire)
  PROVE  Broken(wire) = NoField
<1> SUFFICES ASSUME Broken(wire) # NoField PROVE FALSE
  OBVIOUS
<1>1. /\ wire.type \in ModeledKinds /\ Uses(wire.type, Broken(wire))
      /\ \/ wire.fields[Broken(wire)] # "good"
         \/ Broken(wire) \in Maps /\ wire.keys[Broken(wire)] \cap Junk # {}
  BY BlamedField
<1>2. Broken(wire) \in Fields
  BY <1>1, UsedFields DEF Uses
<1>3. wire.fields[Broken(wire)] = "good"
  BY <1>1, <1>2 DEF Whole
<1>4. wire.type # "score"
  BY <1>1, <1>3 DEF Whole
<1>5. FieldError(wire) = NoField
  <2>1. ~Uses(wire.type, wire.first) \/ Wrong(wire) = {}
    BY <1>1, WireType DEF IsWire, Wrong, Whole
  <2>2. \A field \in {f \in Fields : wire.fields[f] = "mistyped"} : ~Uses(wire.type, field)
    BY <1>1 DEF Whole
  <2>3. Recheck(wire) = NoField
    BY <1>1, <2>2, FirstUsedIs DEF Recheck
  <2>4. QED
    BY <2>1, <2>3 DEF FieldError
<1>6. Missing(wire) = NoField
  <2>1. \A field \in {f \in Fields : Nil(wire, f)} : ~Uses(wire.type, field)
    BY <1>1 DEF Whole, Nil, Wrong
  <2>2. QED
    BY <1>1, <2>1, FirstUsedIs DEF Missing
<1>7. QED
  BY <1>4, <1>5, <1>6 DEF Broken, Unnumbered

(* Conversely what is accepted came whole, but for the two leaks. *)
LEMMA AcceptedMeans ==
  ASSUME NEW wire \in Wires, Broken(wire) = NoField, wire.type \in ModeledKinds
  PROVE  /\ \A field \in Fields :
              Uses(wire.type, field) => wire.fields[field] = "good" \/ Leaks(wire, field)
         /\ wire.type = "score" => \A map \in Maps : wire.keys[map] \cap Junk = {}
<1>1. /\ FieldError(wire) = NoField /\ Missing(wire) = NoField
      /\ Unnumbered(wire) = NoField
  BY DEF Broken
<1>2. ASSUME NEW field \in Fields, Uses(wire.type, field)
      PROVE  wire.fields[field] = "good" \/ Leaks(wire, field)
  <2>1. wire.fields[field] # "mistyped"
    <3>1. CASE Wrong(wire) = {}
      BY <3>1 DEF Wrong
    <3>2. CASE Wrong(wire) # {}
      <4>1. wire.first \in Wrong(wire) /\ wire.first # NoField
        BY <3>2, WireType, UsedFields DEF IsWire, Wrong
      <4>2. Recheck(wire) = NoField
        BY <1>1, <3>2, <4>1 DEF FieldError
      <4>3. QED
        BY <1>2, <4>2, FirstUsedIs DEF Recheck
    <3>3. QED
      BY <3>1, <3>2
  <2>2. wire.fields[field] # "absent"
    BY <1>1, <1>2, FirstUsedIs DEF Missing, Nil
  <2>3. ASSUME wire.fields[field] = "folded" PROVE ~Uses(wire.type, wire.first)
    <3>1. field \in Wrong(wire)
      BY <2>3 DEF Wrong
    <3>2. wire.first \in Wrong(wire) /\ wire.first # NoField
      BY <3>1, WireType, UsedFields DEF IsWire, Wrong
    <3>3. QED
      BY <1>1, <3>1, <3>2 DEF FieldError
  <2>4. wire.fields[field] = "nulled" => field = "probabilities"
    BY WireType DEF IsWire
  <2>5. wire.fields[field] \in FieldStates
    BY WireType
  <2>6. QED
    BY <2>1, <2>2, <2>3, <2>4, <2>5 DEF FieldStates, Leaks
<1>3. ASSUME wire.type = "score", NEW map \in Maps
      PROVE  wire.keys[map] \cap Junk = {}
  <2>1. \A field \in {f \in Maps : wire.keys[f] \cap Junk # {}} : ~Uses("score", field)
    BY <1>1, <1>3, FirstUsedIs DEF Unnumbered
  <2>2. QED
    BY <2>1, ScoreUsesMaps
<1>4. QED
  BY <1>2, <1>3

(***************************************************************************)
(* What decodeSystemOne makes of a body.                                   *)
(***************************************************************************)
FromWires(answers) ==
  DOMAIN answers \subseteq Names /\ \A name \in DOMAIN answers : answers[name] \in Wires

(* A body is delivered only when none of the checks found anything. *)
LEMMA DeliveredMeans ==
  ASSUME NEW asked, NEW reply, Decoded(asked, reply) = Answered
  PROVE  /\ reply.model \notin {"mistyped", "absent"}
         /\ reply.usage \notin {"mistyped", "absent"}
         /\ Untyped(reply.answers) = {}
         /\ LeftOut(asked, reply.answers) = {}
         /\ OutOfKind(asked, reply.answers) = {}
         /\ BrokenAnswers(reply.answers) = {}
BY DEF Decoded, Answered, Report, NoField

(* And it is delivered when none of them does. *)
LEMMA DeliveredWhen ==
  ASSUME NEW asked, NEW reply,
         reply.model \notin {"mistyped", "absent"},
         reply.usage \notin {"mistyped", "absent"},
         Untyped(reply.answers) = {},
         LeftOut(asked, reply.answers) = {},
         OutOfKind(asked, reply.answers) = {},
         BrokenAnswers(reply.answers) = {}
  PROVE  Decoded(asked, reply) = Answered
BY DEF Decoded

(* A body that is refused is refused for one of seven reasons. *)
LEMMA RefusedMeans ==
  ASSUME NEW asked, NEW reply, Decoded(asked, reply) # Answered
  PROVE  \/ reply.model = "mistyped" /\ Decoded(asked, reply) = Report("body", 0, "model")
         \/ reply.usage = "mistyped" /\ Decoded(asked, reply) = Report("body", 0, "usage")
         \/ /\ Untyped(reply.answers) # {}
            /\ Decoded(asked, reply) = Report("missing", Lowest(Untyped(reply.answers)), "type")
         \/ reply.model = "absent" /\ Decoded(asked, reply) = Report("missing", 0, "model")
         \/ reply.usage = "absent" /\ Decoded(asked, reply) = Report("missing", 0, "usage")
         \/ LET faulty == LeftOut(asked, reply.answers) \cup OutOfKind(asked, reply.answers)
            IN  /\ faulty # {}
                /\ \/ /\ Lowest(faulty) \in LeftOut(asked, reply.answers)
                      /\ Decoded(asked, reply) = Report("unanswered", Lowest(faulty), NoField)
                   \/ /\ Lowest(faulty) \notin LeftOut(asked, reply.answers)
                      /\ Decoded(asked, reply) = Report("kind", Lowest(faulty), "type")
         \/ LET broken == BrokenAnswers(reply.answers)
            IN  /\ broken # {}
                /\ Decoded(asked, reply) =
                     Report("field", Lowest(broken), Broken(reply.answers[Lowest(broken)]))
BY DEF Decoded

(* The name it blames is one of the names at hand. *)
LEMMA BlamedName ==
  ASSUME NEW asked, DOMAIN asked \subseteq Names,
         NEW reply, DOMAIN reply.answers \subseteq Names
  PROVE  Decoded(asked, reply).name \in Names \cup {0}
<1> DEFINE answers == reply.answers
           faulty  == LeftOut(asked, answers) \cup OutOfKind(asked, answers)
<1>1. /\ Untyped(answers) \subseteq Names /\ faulty \subseteq Names
      /\ BrokenAnswers(answers) \subseteq Names
  BY DEF Untyped, LeftOut, OutOfKind, BrokenAnswers
<1>2. /\ Untyped(answers) # {} => Lowest(Untyped(answers)) \in Names
      /\ faulty # {} => Lowest(faulty) \in Names
      /\ BrokenAnswers(answers) # {} => Lowest(BrokenAnswers(answers)) \in Names
  <2>1. \A S : S \subseteq Names /\ S # {} => Lowest(S) \in Names
    <3> SUFFICES ASSUME NEW S, S \subseteq Names, S # {} PROVE Lowest(S) \in Names
      OBVIOUS
    <3>1. S \subseteq Nat
      BY SystemOneAssumption
    <3>2. QED
      BY <3>1, LowestIs
  <2>2. QED
    BY <1>1, <2>1
<1>3. CASE Decoded(asked, reply) = Answered
  BY <1>3 DEF Answered, Report
<1>4. CASE Decoded(asked, reply) # Answered
  BY <1>2, <1>4, RefusedMeans DEF Report
<1>5. QED
  BY <1>3, <1>4

(***************************************************************************)
(* Decided.  After a call either a body was decoded against the questions  *)
(* as they still are, or there is none and the report says why.            *)
(***************************************************************************)
LocalClasses == {"no questions", "invalid question", "call"} \cup Flaws

Decided ==
  /\ FromWires(body.answers)
  /\ place = "waiting" => body = NoBody
  /\ place = "returned" =>
       \/ report = Decoded(questions, body)
       \/ body = NoBody /\ report.class \in LocalClasses

Inv == TypeOK /\ Decided

LEMMA InvInit == Init => Inv
<1> SUFFICES ASSUME Init PROVE Inv
  OBVIOUS
<1>1. TypeOK
  BY SystemOneAssumption
     DEF Init, TypeOK, IsQuestions, NoBody, NoReport, Report
<1>2. Decided
  BY DEF Init, Decided, FromWires, NoBody
<1>3. QED
  BY <1>1, <1>2 DEF Inv

LEMMA WithType ==
  ASSUME NEW map, IsQuestions(map), NEW name \in Names, NEW question \in Pool
  PROVE  IsQuestions(With(map, name, question))
BY DEF IsQuestions, With

LEMMA LocalType ==
  ASSUME IsQuestions(questions), NEW flaw \in Flaws \cup {"none"}
  PROVE  /\ Local(flaw).name \in Names \cup {0}
         /\ Local(flaw) # NoReport => Local(flaw).class \in LocalClasses
<1>1. Refused(questions) \subseteq Names /\ Refused(questions) \subseteq Nat
  BY SystemOneAssumption DEF Refused, IsQuestions
<1>2. Refused(questions) # {} => Lowest(Refused(questions)) \in Names
  BY <1>1, LowestIs
<1>3. QED
  BY <1>2 DEF Local, Report, NoReport, LocalClasses

LEMMA RepliesType ==
  ASSUME NEW reply \in Replies
  PROVE  FromWires(reply.answers)
<1>1. PICK choice \in [Names -> Wires \cup {Unanswered}], top \in TopLevels :
        reply = [answers |-> [name \in {n \in Names : choice[n] # Unanswered} |-> choice[name]],
                 model |-> top.model, usage |-> top.usage]
  BY DEF Replies
<1>2. QED
  BY <1>1 DEF FromWires

LEMMA InvStep == Inv /\ [Next]_vars => Inv'
<1> SUFFICES ASSUME Inv, [Next]_vars PROVE Inv'
  OBVIOUS
<1> USE DEF Inv
<1>1. ASSUME NEW name \in Names, NEW question \in Pool, Ask(name, question) \/ Assign(name, question)
      PROVE  Inv'
  <2>1. IsQuestions(questions')
    BY <1>1, WithType DEF Ask, Assign, TypeOK
  <2>2. keys' \subseteq [name : Names, question : {q \in Pool : q.form \in ModeledKinds}]
    BY <1>1 DEF Ask, Assign, TypeOK
  <2>3. /\ place' \in {"editing", "waiting"}
        /\ place' = "waiting" => place = "waiting"
        /\ UNCHANGED <<sent, body, report, calls>>
    BY <1>1 DEF Ask, Assign, Edit
  <2>4. QED
    BY <2>1, <2>2, <2>3 DEF TypeOK, Decided, IsQuestions, FromWires
<1>2. CASE Submit
  <2>1. /\ calls < MaxCalls /\ calls' = calls + 1 /\ body' = NoBody
        /\ UNCHANGED <<questions, keys>>
        /\ IF report' = NoReport
           THEN place' = "waiting" /\ sent' \in {questions} \cup Extras
           ELSE place' = "returned" /\ sent' = sent
    BY <1>2 DEF Submit
  <2>2. /\ report'.name \in Names \cup {0}
        /\ report' # NoReport => report'.class \in LocalClasses
    BY <1>2, LocalType DEF Submit, TypeOK
  <2>3. calls' \in 0..MaxCalls
    BY <2>1, SystemOneAssumption DEF TypeOK
  <2>4. TypeOK'
    BY <2>1, <2>2, <2>3 DEF TypeOK, IsQuestions, NoBody
  <2>5. Decided'
    BY <2>1, <2>2 DEF Decided, FromWires, NoBody
  <2>6. QED
    BY <2>4, <2>5
<1>3. CASE ExchangeFails
  <2>1. TypeOK'
    BY <1>3 DEF ExchangeFails, TypeOK, IsQuestions, Report
  <2>2. Decided'
    BY <1>3 DEF ExchangeFails, Decided, Report, LocalClasses
  <2>3. QED
    BY <2>1, <2>2
<1>4. ASSUME NEW reply \in Replies, Receive(reply) PROVE Inv'
  <2>1. /\ place' = "returned" /\ body' = reply /\ report' = Decoded(questions, reply)
        /\ UNCHANGED <<questions, keys, sent, calls>>
    BY <1>4 DEF Receive
  <2>2. FromWires(reply.answers)
    BY RepliesType
  <2>3. report'.name \in Names \cup {0}
    BY <2>1, <2>2, BlamedName DEF TypeOK, IsQuestions, FromWires
  <2>4. TypeOK'
    BY <2>1, <2>2, <2>3, WireType DEF TypeOK, IsQuestions, FromWires
  <2>5. Decided'
    BY <2>1, <2>2 DEF Decided, FromWires
  <2>6. QED
    BY <2>4, <2>5
<1>5. CASE UNCHANGED vars
  BY <1>5 DEF vars, TypeOK, Decided, IsQuestions, FromWires
<1>6. QED
  BY <1>1, <1>2, <1>3, <1>4, <1>5 DEF Next

(* The model's variables keep their types, for any number of calls and     *)
(* anything the server sends (SystemOneRequest, decodeSystemOne).          *)
THEOREM SystemOneTypeCorrect == Spec => []TypeOK
<1>1. Inv => TypeOK
  BY DEF Inv
<1>2. QED
  BY <1>1, InvInit, InvStep, PTL DEF Spec

(* A delivered response answers every question of the request in kind.     *)
LEMMA DeliveredInKind ==
  ASSUME Inv, Delivered
  PROVE  /\ \A name \in DOMAIN questions :
              name \in DOMAIN body.answers /\ body.answers[name].type = Kind(questions[name])
         /\ \A name \in DOMAIN body.answers :
              body.answers[name] \in Wires /\ Broken(body.answers[name]) = NoField
<1>1. Decoded(questions, body) = Answered
  BY DEF Delivered, Inv, Decided, LocalClasses, Flaws, Answered, Report
<1>2. /\ LeftOut(questions, body.answers) = {} /\ OutOfKind(questions, body.answers) = {}
      /\ BrokenAnswers(body.answers) = {}
  BY <1>1, DeliveredMeans
<1>3. QED
  BY <1>2 DEF LeftOut, OutOfKind, BrokenAnswers, Inv, Decided, FromWires

(* What holds of a delivered response, whatever the server sent.           *)
AnsweredButForLeaks ==
  Delivered =>
    /\ \A name \in DOMAIN questions :
         name \in DOMAIN body.answers /\ body.answers[name].type = Kind(questions[name])
    /\ \A name \in DOMAIN body.answers :
         LET wire == body.answers[name]
         IN  wire.type \in ModeledKinds =>
               /\ \A field \in Fields :
                    Uses(wire.type, field) => wire.fields[field] = "good" \/ Leaks(wire, field)
               /\ wire.type = "score" => \A map \in Maps : wire.keys[map] \cap Junk = {}

(* A response that is delivered answers every question in kind, and the    *)
(* only zeros in it that stand for what the server left out or sent wrong  *)
(* are those of a null among probabilities and of a folded key that an     *)
(* unused field masked, for any answers at all (decodeSystemOne,           *)
(* fieldError, recheck).                                                   *)
THEOREM TwoLeaks == Spec => []AnsweredButForLeaks
<1>1. Inv => AnsweredButForLeaks
  <2> SUFFICES ASSUME Inv, Delivered, NEW name \in DOMAIN body.answers,
                      body.answers[name].type \in ModeledKinds
               PROVE  LET wire == body.answers[name]
                      IN  /\ \A field \in Fields : Uses(wire.type, field) =>
                               wire.fields[field] = "good" \/ Leaks(wire, field)
                          /\ wire.type = "score" =>
                               \A map \in Maps : wire.keys[map] \cap Junk = {}
    BY DeliveredInKind DEF AnsweredButForLeaks
  <2>1. body.answers[name] \in Wires /\ Broken(body.answers[name]) = NoField
    BY DeliveredInKind
  <2>2. QED
    BY <2>1, AcceptedMeans
<1>2. QED
  BY <1>1, InvInit, InvStep, PTL DEF Spec

(* So no zero in it stands for anything the server left out or sent wrong, *)
(* if the server writes keys in their own case and no null among           *)
(* probabilities; with either, the runs folded and nulled violate it       *)
(* (decodeSystemOne, fieldError, recheck).                                 *)
THEOREM AnswersInFull ==
  ASSUME PlainWires
  PROVE  Spec => []AnsweredInFull
<1>1. Inv => AnsweredInFull
  <2> SUFFICES ASSUME Inv, Delivered, NEW name \in DOMAIN body.answers
               PROVE  Whole(body.answers[name])
    BY DeliveredInKind DEF AnsweredInFull
  <2> DEFINE wire == body.answers[name]
  <2>1. wire \in Wires /\ Broken(wire) = NoField
    BY DeliveredInKind
  <2>2. \A field \in Fields : ~Leaks(wire, field)
    BY <2>1 DEF PlainWires, Leaks
  <2> HIDE DEF wire
  <2>3. QED
    BY <2>1, <2>2, AcceptedMeans DEF Whole, wire
<1>2. QED
  BY <1>1, InvInit, InvStep, PTL DEF Spec

(* A response that answers everything that was sent, in kind and whole, is *)
(* delivered, whatever it holds besides: no sound answer is taken for an   *)
(* error of the server (decodeSystemOne, fieldError).                      *)
THEOREM DeliversHonestAnswers == Spec => []HonestAnswerDelivered
<1>1. Inv => HonestAnswerDelivered
  <2> SUFFICES ASSUME Inv, place = "returned", body # NoBody, Honest
               PROVE  report = Answered
    BY DEF HonestAnswerDelivered
  <2>1. report = Decoded(questions, body) /\ FromWires(body.answers)
    BY DEF Inv, Decided
  <2>2. /\ Untyped(body.answers) = {}
        /\ LeftOut(questions, body.answers) = {} /\ OutOfKind(questions, body.answers) = {}
    BY DEF Honest, Untyped, LeftOut, OutOfKind
  <2>3. BrokenAnswers(body.answers) = {}
    BY <2>1, WholeAccepted DEF Honest, BrokenAnswers, FromWires
  <2>4. body.model = "good" /\ body.usage = "good"
    BY DEF Honest
  <2>5. QED
    BY <2>1, <2>2, <2>3, <2>4, DeliveredWhen
<1>2. QED
  BY <1>1, InvInit, InvStep, PTL DEF Spec

(* The key of a question that is still registered never finds its answer   *)
(* missing or of another kind in a delivered response, for any questions   *)
(* registered, replaced or written in between (Ask, Key.Answer).           *)
THEOREM KeysRead == Spec => []FreshKeysRead
<1>1. Inv => FreshKeysRead
  <2> SUFFICES ASSUME Inv, Delivered, NEW key \in keys,
                      key.name \in DOMAIN questions, questions[key.name] = key.question
               PROVE  Read(key).class \in {"answers", "disagreement"}
    BY DEF FreshKeysRead
  <2> DEFINE wire == body.answers[key.name]
             field == Disagreement(key.question, wire)
  <2>1. key.name \in DOMAIN body.answers /\ wire.type = Kind(key.question)
    BY DeliveredInKind
  <2>2. wire.type \in ModeledKinds
    BY <2>1 DEF Inv, TypeOK, Kind, ModeledKinds
  <2>3. field # "type"
    <3>1. CASE wire.type = "noul"
      BY <2>1, <3>1 DEF Disagreement, NoField
    <3>2. CASE wire.type = "choice"
      BY <2>1, <3>2 DEF Disagreement, NoField
    <3>3. CASE wire.type = "score"
      <4>1. field = FirstUsed("score",
                {f \in Maps : ~(wire.keys[f] \subseteq Rubric(key.question))})
        BY <2>1, <3>3 DEF Disagreement
      <4>2. field \in Fields \cup {NoField}
        BY <4>1, FirstUsedIs DEF ModeledKinds
      <4>3. QED
        BY <4>2 DEF Fields, NoField
    <3>4. QED
      BY <2>2, <3>1, <3>2, <3>3 DEF ModeledKinds
  <2>4. QED
    BY <2>1, <2>3 DEF Read, Answered, Report
<1>2. QED
  BY <1>1, InvInit, InvStep, PTL DEF Spec

(* What an error blames is really wrong, whatever else is wrong with the   *)
(* body and whichever field encoding/json met first (decodeSystemOne,      *)
(* fieldError, recheck).                                                   *)
THEOREM NamesFault == Spec => []FaultNamed
<1>1. Inv => FaultNamed
  <2> SUFFICES ASSUME Inv, place = "returned", body # NoBody, report # Answered
               PROVE  Fault(report.class, report.name, report.field)
    BY DEF FaultNamed
  <2> DEFINE answers == body.answers
             faulty  == LeftOut(questions, answers) \cup OutOfKind(questions, answers)
             broken  == BrokenAnswers(answers)
  <2>1. report = Decoded(questions, body) /\ FromWires(answers)
    BY DEF Inv, Decided
  <2>2. /\ Untyped(answers) # {} => Lowest(Untyped(answers)) \in Untyped(answers)
        /\ faulty # {} => Lowest(faulty) \in faulty
        /\ broken # {} => Lowest(broken) \in broken
    <3>1. /\ Untyped(answers) \subseteq Nat /\ broken \subseteq Nat
      BY <2>1, SystemOneAssumption DEF Untyped, BrokenAnswers, FromWires
    <3>2. faulty \subseteq Nat
      BY <2>1, SystemOneAssumption
         DEF LeftOut, OutOfKind, FromWires, Inv, TypeOK, IsQuestions
    <3>3. QED
      BY <3>1, <3>2, LowestIs
  <2>3. CASE body.model = "mistyped" /\ report = Report("body", 0, "model")
    BY <2>3 DEF Fault, Report
  <2>4. CASE body.usage = "mistyped" /\ report = Report("body", 0, "usage")
    BY <2>4 DEF Fault, Report
  <2>5. CASE Untyped(answers) # {} /\ report = Report("missing", Lowest(Untyped(answers)), "type")
    BY <2>2, <2>5 DEF Fault, Report, Untyped
  <2>6. CASE body.model = "absent" /\ report = Report("missing", 0, "model")
    BY <2>6 DEF Fault, Report
  <2>7. CASE body.usage = "absent" /\ report = Report("missing", 0, "usage")
    BY <2>7 DEF Fault, Report
  <2>8. CASE /\ faulty # {} /\ Lowest(faulty) \in LeftOut(questions, answers)
             /\ report = Report("unanswered", Lowest(faulty), NoField)
    BY <2>8 DEF Fault, Report, LeftOut
  <2>9. CASE /\ faulty # {} /\ Lowest(faulty) \notin LeftOut(questions, answers)
             /\ report = Report("kind", Lowest(faulty), "type")
    <3>1. Lowest(faulty) \in OutOfKind(questions, answers)
      BY <2>2, <2>9
    <3>2. QED
      BY <2>9, <3>1 DEF Fault, Report, OutOfKind
  <2>10. CASE /\ broken # {}
              /\ report = Report("field", Lowest(broken), Broken(answers[Lowest(broken)]))
    <3> DEFINE wire == answers[Lowest(broken)]
    <3>1. wire \in Wires /\ Broken(wire) # NoField
      BY <2>1, <2>2, <2>10 DEF BrokenAnswers, FromWires
    <3>2. /\ Uses(wire.type, Broken(wire))
          /\ \/ wire.fields[Broken(wire)] # "good"
             \/ Broken(wire) \in Maps /\ wire.keys[Broken(wire)] \cap Junk # {}
      BY <3>1, BlamedField
    <3>3. QED
      BY <2>10, <3>2 DEF Fault, Report
  <2>11. QED
    BY <2>1, <2>3, <2>4, <2>5, <2>6, <2>7, <2>8, <2>9, <2>10, RefusedMeans
<1>2. QED
  BY <1>1, InvInit, InvStep, PTL DEF Spec

(* A level within the known ones, wherever the score lies (clampLevel).    *)
LEMMA LevelWithin ==
  ASSUME NEW n \in Int, NEW levels, levels \subseteq 0..n, levels # {}, NEW halves \in Int
  PROVE  Level(halves, levels) \in 0..n
<1> DEFINE top   == CHOOSE level \in levels : \A other \in levels : level >= other
           below == {m \in 0..n : n - m \in levels}
<1>1. Lowest(levels) \in levels /\ Lowest(levels) \in 0..n
  <2>1. levels \subseteq Nat
    OBVIOUS
  <2>2. QED
    BY <2>1, LowestIs
<1>2. top \in levels
  <2>1. below \subseteq Nat /\ below # {}
    <3>1. PICK level \in levels : TRUE
      OBVIOUS
    <3>2. level \in 0..n
      BY <3>1
    <3>3. n - level \in 0..n /\ n - (n - level) = level
      BY <3>2
    <3>4. n - level \in below
      BY <3>1, <3>3
    <3>5. below \subseteq Nat
      OBVIOUS
    <3>6. QED
      BY <3>4, <3>5
  <2>2. Lowest(below) \in below /\ \A m \in below : Lowest(below) <= m
    BY <2>1, LowestIs
  <2>3. n - Lowest(below) \in levels
    BY <2>2
  <2>4. ASSUME NEW other \in levels PROVE n - Lowest(below) >= other
    <3>1. other \in 0..n /\ n - other \in 0..n /\ n - (n - other) = other
      OBVIOUS
    <3>2. n - other \in below
      BY <3>1
    <3>3. Lowest(below) <= n - other /\ Lowest(below) \in 0..n
      BY <2>2, <3>2
    <3>4. QED
      BY <3>1, <3>3
  <2>5. QED
    BY <2>3, <2>4
<1>3. Rounded(halves) \in Int
  BY DEF Rounded
<1>4. Level(halves, levels) = IF Rounded(halves) <= Lowest(levels) THEN Lowest(levels)
                              ELSE IF Rounded(halves) > top THEN top ELSE Rounded(halves)
  BY DEF Level
<1> HIDE DEF top
<1>5. QED
  BY <1>1, <1>2, <1>3, <1>4

(* What LevelOffered says, of every score.                                 *)
AnyLevelOffered ==
  Delivered => \A key \in keys :
    /\ key.question.form = "score" /\ Read(key) = Answered
    /\ Reported(body.answers[key.name]) # {}
    => \A halves \in Int :
         Level(halves, Reported(body.answers[key.name])) \in Rubric(key.question)

(* The level read off an answer its key accepted is one the question       *)
(* offered, for any rubric, any score and any levels reported (Level,      *)
(* clampLevel).                                                            *)
THEOREM OffersAnyLevel == Spec => []AnyLevelOffered
<1>1. Inv => AnyLevelOffered
  <2> SUFFICES ASSUME Inv, Delivered, NEW key \in keys,
                      key.question.form = "score", Read(key) = Answered,
                      Reported(body.answers[key.name]) # {},
                      NEW halves \in Int
               PROVE  Level(halves, Reported(body.answers[key.name])) \in Rubric(key.question)
    BY DEF AnyLevelOffered
  <2> DEFINE wire == body.answers[key.name]
  <2>1. key.question \in ScoreQuestion
    <3>1. key.question \in Question
      BY SystemOneAssumption DEF Inv, TypeOK
    <3>2. /\ \A question \in NoulQuestion : question.form = "noul"
          /\ \A question \in ChoiceQuestion : question.form = "choice"
          /\ \A question \in RawQuestion : question.form = "raw"
          /\ NilQuestion.form = "nil"
      BY DEF NoulQuestion, ChoiceQuestion, RawQuestion, NilQuestion
    <3>3. QED
      BY <3>1, <3>2 DEF Question
  <2>2. Len(key.question.criteria) \in Nat
    BY <2>1 DEF ScoreQuestion
  <2>3. Disagreement(key.question, wire) = NoField
    BY DEF Read, Answered, Report, NoField
  <2>4. Kind(key.question) = "score" /\ wire.type = "score"
    BY <2>3 DEF Kind, Disagreement, NoField
  <2>5. FirstUsed("score", {f \in Maps : ~(wire.keys[f] \subseteq Rubric(key.question))})
          = NoField
    BY <2>3, <2>4 DEF Disagreement
  <2>6. \A f \in Maps : wire.keys[f] \subseteq Rubric(key.question)
    BY <2>5, FirstUsedIs, ScoreUsesMaps DEF ModeledKinds
  <2>7. Reported(wire) \subseteq 0..(Len(key.question.criteria) - 1)
    BY <2>6 DEF Reported, Maps, Rubric
  <2> DEFINE n == Len(key.question.criteria) - 1
  <2>8. n \in Int /\ Reported(wire) \subseteq 0..n /\ Reported(wire) # {}
    BY <2>2, <2>7
  <2> HIDE DEF n, wire
  <2>9. Level(halves, Reported(wire)) \in 0..n
    BY <2>8, LevelWithin
  <2>10. QED
    BY <2>9 DEF Rubric, n, wire
<1>2. QED
  BY <1>1, InvInit, InvStep, PTL DEF Spec

(* The same of the scores the run looks at, halves up to two past the      *)
(* rubric (Level).                                                         *)
THEOREM OffersLevel == Spec => []LevelOffered
<1>1. AnyLevelOffered => LevelOffered
  <2>1. \A halves \in -2..(2 * MaxLevels + 2) : halves \in Int
    OBVIOUS
  <2>2. QED
    BY <2>1, Zenon DEF AnyLevelOffered, LevelOffered
<1>2. QED
  BY <1>1, OffersAnyLevel, PTL
=============================================================================
