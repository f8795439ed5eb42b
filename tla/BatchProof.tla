----------------------------- MODULE BatchProof -----------------------------
(***************************************************************************)
(* Theorems about Batch and the server under it, for any number of         *)
(* messages and slots, any plan of failures and any retry policy.          *)
(***************************************************************************)
EXTENDS Batch, TLAPS, FiniteSetTheorems

USE BatchAssumption, FakeAPIAssumption DEF OK, Places, InCall

(* A success is not retried, whatever statuses the policy names            *)
(* (Client.policy).                                                        *)
LEMMA NoSuccessRetried == OK \notin Retried /\ Retried \subseteq RetryStatuses
BY DEF Retried

(***************************************************************************)
(* Type correctness.  TypeOK is not inductive by itself: the ordinal sent  *)
(* is one below the attempt, so a call has to be past its first.           *)
(***************************************************************************)
Typed ==
  /\ TypeOK
  /\ \A m \in Message : /\ pc[m] = "ready" => attempt[m] = 0
                        /\ pc[m] # "ready" => attempt[m] >= 1

LEMMA FailedType ==
  ASSUME NEW S \in SUBSET Message
  PROVE  Cardinality(S) \in -1..Cardinality(Message)
<1>1. /\ IsFiniteSet(S) /\ Cardinality(S) <= Cardinality(Message)
  BY FS_Subset
<1>2. Cardinality(S) \in Nat /\ Cardinality(Message) \in Nat
  BY <1>1, FS_CardinalityType
<1>3. QED
  BY <1>1, <1>2

LEMMA TypedInit == Init => Typed
<1> SUFFICES ASSUME Init PROVE Typed
  OBVIOUS
<1>1. ServerTypeOK
  BY DEF Init, ServerInit, ServerTypeOK
<1>2. failed \in -1..Cardinality(Message)
  BY FS_CardinalityType DEF Init
<1>3. /\ resp \in [Message -> [status : Statuses \cup {0}, id : Nat]]
      /\ results \in [Message -> ResultType]
  BY DEF Init, NoAnswer, NoResult, ResultType, Ends
<1>4. wire \in [Message -> Seq(Nat)] /\ received \in [Message -> Seq(AnswerType)]
  <2>1. <<>> \in Seq(Nat) /\ <<>> \in Seq(AnswerType)
    OBVIOUS
  <2>2. QED
    BY <2>1 DEF Init
<1>5. /\ capacity \in Capacities /\ slots \in 0..capacity
      /\ attempt \in [Message -> 0..(MaxRetries + 1)]
  BY DEF Init
<1>6. pc \in [Message -> Places] /\ deadline \in BOOLEAN
  BY DEF Init
<1>7. \A m \in Message : pc[m] = "ready" /\ attempt[m] = 0
  BY DEF Init
<1>8. QED
  BY <1>1, <1>2, <1>3, <1>4, <1>5, <1>6, <1>7 DEF Typed, TypeOK

LEMMA OutcomeType ==
  ASSUME NEW m \in Message, NEW answer \in [status : Statuses \cup {0}, id : Nat]
  PROVE  Outcome(m, answer) \in ResultType
BY DEF Outcome, ResultType, Ends

LEMMA FinishType ==
  ASSUME TypeOK, NEW m \in Message, NEW answer \in [status : Statuses \cup {0}, id : Nat],
         Finish(m, answer)
  PROVE  pc' \in [Message -> Places] /\ results' \in [Message -> ResultType]
BY OutcomeType DEF Finish, Goto, TypeOK

LEMMA NoAnswerType == NoAnswer \in [status : Statuses \cup {0}, id : Nat]
BY DEF NoAnswer

LEMMA HeadTail ==
  ASSUME NEW S, NEW seq \in Seq(S), seq # <<>>
  PROVE  Head(seq) \in S /\ Tail(seq) \in Seq(S) /\ Len(Tail(seq)) = Len(seq) - 1
OBVIOUS

(* What a handler does keeps the types of the server. *)
LEMMA ServeType == ServerTypeOK /\ Serve => ServerTypeOK'
<1> SUFFICES ASSUME ServerTypeOK, Serve PROVE ServerTypeOK'
  OBVIOUS
<1> USE DEF ServerTypeOK, HandlerType, Handler, Statuses
<1>1. ASSUME NEW request \in sent, Lock(request) PROVE ServerTypeOK'
  BY <1>1 DEF Lock
<1>2. ASSUME NEW h \in handling, Take(h) PROVE ServerTypeOK'
  <2> DEFINE injected == IF failures = <<>> THEN OK ELSE Head(failures)
  <2>1. h \in HandlerType
    OBVIOUS
  <2>2. injected \in Statuses /\ failures' \in Seq(400..599)
    <3>1. CASE failures = <<>>
      BY <1>2, <3>1 DEF Take
    <3>2. CASE failures # <<>>
      <4>1. Head(failures) \in 400..599 /\ Tail(failures) \in Seq(400..599)
        BY <3>2, HeadTail
      <4>2. QED
        BY <1>2, <3>2, <4>1 DEF Take
    <3>3. QED
      BY <3>1, <3>2
  <2>3. handling' = (handling \ {h}) \cup {Handler(h.request, "answering", h.sequence, injected)}
    BY <1>2 DEF Take
  <2>4. Handler(h.request, "answering", h.sequence, injected) \in HandlerType
    BY <2>1, <2>2
  <2>5. handling' \subseteq HandlerType
    <3> HIDE DEF HandlerType, Handler, injected
    <3> QED
      BY <2>3, <2>4
  <2>6. QED
    BY <1>2, <2>2, <2>5 DEF Take
<1>3. ASSUME NEW h \in handling, Respond(h) PROVE ServerTypeOK'
  <2>1. h \in HandlerType
    OBVIOUS
  <2> DEFINE answer == Answer(h.request, h.injected, Id(h))
  <2>2. answer \in AnswerType
    BY <2>1 DEF AnswerType, Id, Answer
  <2>3. written' = written \cup {answer} /\ handling' = handling \ {h}
    BY <1>3 DEF Respond
  <2> HIDE DEF answer, HandlerType, AnswerType
  <2>4. QED
    BY <1>3, <2>2, <2>3 DEF Respond
<1>4. QED
  BY <1>1, <1>2, <1>3 DEF Serve

LEMMA TypedStep == Typed /\ [Next]_vars => Typed'
<1> SUFFICES ASSUME Typed, [Next]_vars PROVE Typed'
  OBVIOUS
<1> USE DEF Typed, TypeOK, Goto
<1>s. ASSUME UNCHANGED server, UNCHANGED sent PROVE ServerTypeOK'
  BY <1>s DEF ServerTypeOK, server
<1>1. ASSUME NEW m \in Message, Acquire(m) PROVE Typed'
  BY <1>1, <1>s, NoAnswerType DEF Acquire, Begin, history
<1>2. ASSUME NEW m \in Message, Transmit(m) PROVE Typed'
  <2>1. [message |-> m, attempt |-> attempt[m]] \in Request
    BY DEF Request
  <2>2. ServerTypeOK'
    BY <1>2, <2>1 DEF Transmit, ServerTypeOK, server
  <2>3. attempt[m] - 1 \in Nat
    <3>1. attempt[m] \in 0..(MaxRetries + 1) /\ pc[m] = "dialing"
      BY <1>2 DEF Transmit
    <3>2. attempt[m] >= 1
      BY <3>1
    <3>3. QED
      BY <3>1, <3>2
  <2>4. wire' \in [Message -> Seq(Nat)]
    <3>1. Append(wire[m], attempt[m] - 1) \in Seq(Nat)
      BY <2>3
    <3>2. QED
      BY <1>2, <3>1 DEF Transmit
  <2>5. QED
    BY <1>2, <2>2, <2>4 DEF Transmit, room
<1>3. ASSUME NEW m \in Message, NEW answer \in written, Receive(m, answer) PROVE Typed'
  <2>1. answer \in AnswerType
    BY DEF ServerTypeOK
  <2>2. [status |-> answer.status, id |-> answer.id] \in [status : Statuses \cup {0}, id : Nat]
    BY <2>1 DEF AnswerType
  <2>3. received' \in [Message -> Seq(AnswerType)]
    <3>1. Append(received[m], answer) \in Seq(AnswerType)
      BY <2>1
    <3>2. QED
      BY <1>3, <3>1 DEF Receive
  <2>4. resp' \in [Message -> [status : Statuses \cup {0}, id : Nat]]
    BY <1>3, <2>2 DEF Receive
  <2>5. QED
    BY <1>3, <1>s, <2>3, <2>4 DEF Receive, room
<1>4. ASSUME NEW m \in Message, AttemptFails(m) PROVE Typed'
  BY <1>4, <1>s DEF AttemptFails, room, history
<1>5. ASSUME NEW m \in Message, Retry(m) PROVE Typed'
  <2>1. attempt[m] + 1 \in 0..(MaxRetries + 1)
    BY <1>5 DEF Retry, MayRetry
  <2>2. attempt' = [attempt EXCEPT ![m] = attempt[m] + 1]
    BY <1>5 DEF Retry, Begin
  <2>3. attempt' \in [Message -> 0..(MaxRetries + 1)]
    BY <2>1, <2>2
  <2>4. resp' \in [Message -> [status : Statuses \cup {0}, id : Nat]]
    BY <1>5, NoAnswerType DEF Retry, Begin
  <2>5. pc' = [pc EXCEPT ![m] = "dialing"] /\ pc[m] = "returned"
    BY <1>5 DEF Retry, Begin
  <2>6. TypeOK'
    BY <1>5, <1>s, <2>3, <2>4, <2>5 DEF Retry, room, history
  <2>7. \A k \in Message : pc'[k] # "ready" => attempt'[k] >= 1
    <3>1. attempt[m] \in Nat /\ attempt[m] >= 1
      BY <2>5
    <3>2. QED
      BY <2>2, <2>5, <3>1
  <2>8. \A k \in Message : pc'[k] = "ready" => attempt'[k] = 0
    BY <2>2, <2>5
  <2>9. QED
    BY <2>6, <2>7, <2>8
<1>6. ASSUME NEW m \in Message, Interrupted(m) PROVE Typed'
  <2>1. pc' \in [Message -> Places] /\ results' \in [Message -> ResultType]
    BY <1>6, NoAnswerType, FinishType DEF Interrupted
  <2>2. QED
    BY <1>6, <1>s, <2>1 DEF Interrupted, Finish, room, history
<1>7. ASSUME NEW m \in Message, Stop(m) PROVE Typed'
  <2>1. resp[m] \in [status : Statuses \cup {0}, id : Nat]
    OBVIOUS
  <2>2. pc' \in [Message -> Places] /\ results' \in [Message -> ResultType]
    BY <1>7, <2>1, FinishType DEF Stop
  <2>3. QED
    BY <1>7, <1>s, <2>2 DEF Stop, Finish, room, history
<1>8. ASSUME NEW m \in Message, Release(m) PROVE Typed'
  BY <1>8, <1>s DEF Release, history
<1>9. CASE Report
  BY <1>9, <1>s, FailedType DEF Report, room, history
<1>10. CASE Deadline
  BY <1>10, <1>s DEF Deadline, room, history
<1>11. CASE Serve /\ UNCHANGED batch
  BY <1>11, ServeType DEF batch
<1>12. CASE UNCHANGED vars
  BY <1>12, <1>s DEF vars, batch
<1>13. QED
  <2> HIDE DEF Typed, TypeOK
  <2> QED
  BY <1>1, <1>2, <1>3, <1>4, <1>5, <1>6, <1>7, <1>8, <1>9, <1>10, <1>11, <1>12 DEF Next, Step

(* A batch keeps the types of its variables: in particular no more calls   *)
(* run than there are slots and none exceeds its retries (run of batch).   *)
THEOREM TypeCorrect == Spec => []TypeOK
<1>1. Typed => TypeOK
  BY DEF Typed
<1>2. QED
  BY <1>1, TypedInit, TypedStep, PTL DEF Spec

(***************************************************************************)
(* The inductive invariant.  A request is sent once and logged once, and   *)
(* none is sent under an attempt still to come.                            *)
(***************************************************************************)
Begun(request) ==
  /\ request.message \in Message
  /\ request.attempt >= 1 /\ request.attempt <= attempt[request.message]
  /\ pc[request.message] \in {"ready", "dialing"} => request.attempt < attempt[request.message]

Issued ==
  /\ \A request \in sent : Begun(request)
  /\ \A i \in DOMAIN requests : Begun(requests[i])
  /\ \A i \in DOMAIN requests : requests[i] \notin sent
  /\ \A i, j \in DOMAIN requests : requests[i] = requests[j] => i = j

(* A handler knows its place in the log; the one that holds the mutex has  *)
(* the last place, so no other can log or take a failure before it.        *)
Exclusive ==
  \A h \in handling :
    /\ h.sequence \in DOMAIN requests /\ requests[h.sequence] = h.request
    /\ h.place = "locked" =>
         h.request = mu /\ h.sequence = Len(requests) /\ h.injected = OK

(* What is left of the queue is what the log has not used up. *)
Taken == IF mu = Nobody THEN Len(requests) ELSE Len(requests) - 1

Queue ==
  /\ Len(failures) = IF Taken <= Len(planned) THEN Len(planned) - Taken ELSE 0
  /\ \A i \in 1..Len(failures) : failures[i] = planned[Len(planned) - Len(failures) + i]

(* So an answer has the status its place in the log is due. *)
Due(i) == IF i <= Len(planned) THEN planned[i] ELSE OK

AnswerTo(answer, i) ==
  requests[i] = answer.request /\ answer.status = Due(i) /\ answer.id \in {0, i}

Served ==
  /\ \A h \in handling : h.place = "answering" => h.injected = Due(h.sequence)
  /\ \A answer \in written : \E i \in DOMAIN requests : AnswerTo(answer, i)

(* Typed and Issued speak of the goroutines too; the rest is the server's. *)
Inv == Typed /\ Issued /\ Exclusive /\ Queue /\ Served

LEMMA InvInit == Init => Inv
<1> SUFFICES ASSUME Init PROVE Inv
  OBVIOUS
<1>1. Typed
  BY TypedInit
<1>2. Issued
  BY DEF Init, ServerInit, Issued
<1>3. Exclusive
  BY DEF Init, ServerInit, Exclusive
<1>4. Queue
  BY DEF Init, ServerInit, Queue, Taken
<1>5. Served
  BY DEF Init, ServerInit, Served
<1>6. QED
  BY <1>1, <1>2, <1>3, <1>4, <1>5 DEF Inv

(* Only a handler changes the server, and it changes no goroutine. *)
LEMMA Apart == [Next]_vars => (Serve /\ UNCHANGED batch) \/ UNCHANGED server
BY DEF Next, Step, vars, Acquire, Transmit, AttemptFails, Receive, Retry, Interrupted,
  Stop, Release, Report, Deadline

LEMMA IssuedStep == Typed /\ Issued /\ [Next]_vars => Issued'
<1> SUFFICES ASSUME Typed, Issued, [Next]_vars PROVE Issued'
  OBVIOUS
<1> USE DEF Issued
<1>t. /\ sent \subseteq Request /\ requests \in Seq(Request)
      /\ pc \in [Message -> Places]
      /\ attempt \in [Message -> 0..(MaxRetries + 1)]
      /\ \A m \in Message : /\ pc[m] = "ready" => attempt[m] = 0
                            /\ pc[m] # "ready" => attempt[m] >= 1
  BY DEF Typed, TypeOK, ServerTypeOK
<1>b. \A request : Begun(request) => request.message \in Message
  BY DEF Begun
<1>k. ASSUME sent' = sent, requests' = requests,
             \A request \in Request : Begun(request) => Begun(request)'
      PROVE  Issued'
  BY <1>k, <1>t
<1>g. ASSUME NEW m \in Message, NEW place \in {"waiting", "returned", "leaving", "done"},
             pc' = [pc EXCEPT ![m] = place], attempt' = attempt,
             NEW request \in Request, Begun(request)
      PROVE  Begun(request)'
  BY <1>g, <1>t DEF Begun
<1>1. ASSUME NEW m \in Message, Acquire(m) PROVE Issued'
  <2>1. ASSUME NEW request \in Request, Begun(request) PROVE Begun(request)'
    BY <1>1, <2>1, <1>t DEF Acquire, Begin, Goto, Begun, Request
  <2>2. QED
    BY <1>1, <2>1, <1>k DEF Acquire, server
<1>2. ASSUME NEW m \in Message, Transmit(m) PROVE Issued'
  <2> DEFINE new == [message |-> m, attempt |-> attempt[m]]
  <2>1. \A request \in Request : Begun(request) => Begun(request)'
    BY <1>2, <1>g DEF Transmit, Goto
  <2>3. ~Begun(new)
    BY <1>2, <1>t DEF Transmit, Begun
  <2>4. sent' = sent \cup {new} /\ requests' = requests
    BY <1>2 DEF Transmit, server
  <2>5. \A i \in DOMAIN requests : requests[i] \in Request /\ requests[i] # new
    BY <2>3, <1>t
  <2>6. /\ (\A request \in sent : Begun(request))'
        /\ (\A i \in DOMAIN requests : Begun(requests[i]))'
    <3>1. pc' = [pc EXCEPT ![m] = "waiting"] /\ attempt' = attempt
      BY <1>2 DEF Transmit, Goto
    <3>2. (\A request \in sent : Begun(request))'
      <4>1. \A request \in sent : request \in Request /\ Begun(request)
        BY <1>t
      <4>2. new \in Request /\ new.message = m /\ new.attempt = attempt[m]
        BY <1>t DEF Request
      <4>3. attempt[m] >= 1 /\ attempt[m] \in Nat
        BY <1>2, <1>t DEF Transmit
      <4>4. QED
        <5> HIDE DEF new
        <5> QED
          BY <2>4, <3>1, <4>1, <4>2, <4>3, <1>t DEF Begun
    <3>3. (\A i \in DOMAIN requests : Begun(requests[i]))'
      BY <2>4, <2>5, <3>1, <1>t DEF Begun
    <3>4. QED
      BY <3>2, <3>3
  <2>7. /\ (\A i \in DOMAIN requests : requests[i] \notin sent)'
        /\ (\A i, j \in DOMAIN requests : requests[i] = requests[j] => i = j)'
    BY <2>4, <2>5
  <2>8. QED
    BY <2>6, <2>7
<1>3. ASSUME NEW m \in Message, NEW answer \in written, Receive(m, answer) PROVE Issued'
  BY <1>3, <1>g, <1>k DEF Receive, Goto, server
<1>4. ASSUME NEW m \in Message, AttemptFails(m) PROVE Issued'
  BY <1>4, <1>g, <1>k DEF AttemptFails, Goto, server
<1>5. ASSUME NEW m \in Message, Retry(m) PROVE Issued'
  <2>1. ASSUME NEW request \in Request, Begun(request) PROVE Begun(request)'
    BY <1>5, <2>1, <1>t DEF Retry, Begin, Goto, Begun, Request
  <2>2. QED
    BY <1>5, <2>1, <1>k DEF Retry, server
<1>6. ASSUME NEW m \in Message, Interrupted(m) PROVE Issued'
  BY <1>6, <1>g, <1>k DEF Interrupted, Finish, Goto, server
<1>7. ASSUME NEW m \in Message, Stop(m) PROVE Issued'
  BY <1>7, <1>g, <1>k DEF Stop, Finish, Goto, server
<1>8. ASSUME NEW m \in Message, Release(m) PROVE Issued'
  BY <1>8, <1>g, <1>k DEF Release, Goto, server
<1>9. CASE Report
  BY <1>9, <1>k DEF Report, server, Begun
<1>10. CASE Deadline
  BY <1>10, <1>k DEF Deadline, server, Begun
<1>11. CASE Serve /\ UNCHANGED batch
  <2>1. \A request \in Request : Begun(request) => Begun(request)'
    BY <1>11 DEF batch, Begun
  <2>2. ASSUME NEW request \in sent, Lock(request) PROVE Issued'
    <3>1. /\ sent' = sent \ {request} /\ requests' = Append(requests, request)
          /\ request \in Request
      BY <2>2, <1>t DEF Lock
    <3>2. DOMAIN requests' = 1..(Len(requests) + 1) /\ Len(requests) \in Nat
      BY <3>1, <1>t
    <3>3. \A i \in DOMAIN requests' :
            requests'[i] = IF i = Len(requests) + 1 THEN request ELSE requests[i]
      BY <3>1, <1>t
    <3>4. DOMAIN requests = 1..Len(requests) /\ \A i \in DOMAIN requests : requests[i] \in Request
      BY <1>t
    <3>5. \A i \in DOMAIN requests' : requests'[i] \in Request /\ Begun(requests'[i])
      BY <3>1, <3>2, <3>3, <3>4, <2>2
    <3>6. (\A i \in DOMAIN requests : Begun(requests[i]))'
      BY <3>5, <1>11 DEF batch, Begun
    <3>7. (\A i \in DOMAIN requests : requests[i] \notin sent)'
      BY <3>1, <3>2, <3>3, <3>4, <2>2
    <3>8. (\A i, j \in DOMAIN requests : requests[i] = requests[j] => i = j)'
      BY <3>2, <3>3, <3>4, <2>2
    <3>9. (\A r \in sent : Begun(r))'
      BY <3>1, <1>t, <1>11 DEF batch, Begun
    <3>10. QED
      BY <3>6, <3>7, <3>8, <3>9
  <2>3. ASSUME NEW h \in handling, Take(h) \/ Respond(h) PROVE Issued'
    BY <2>1, <2>3, <1>k DEF Take, Respond
  <2>4. QED
    BY <1>11, <2>2, <2>3 DEF Serve
<1>12. CASE UNCHANGED vars
  BY <1>12, <1>k DEF vars, server, batch, Begun
<1>13. QED
  <2> HIDE DEF Issued
  <2> QED
    BY <1>1, <1>2, <1>3, <1>4, <1>5, <1>6, <1>7, <1>8, <1>9, <1>10, <1>11, <1>12 DEF Next, Step

(* What the server remembers between two of its steps. *)
LEMMA ServerStep ==
  Typed /\ Issued /\ Exclusive /\ Queue /\ Served /\ [Next]_vars
    => Exclusive' /\ Queue' /\ Served'
<1> SUFFICES ASSUME Typed, Issued, Exclusive, Queue, Served, [Next]_vars
             PROVE  Exclusive' /\ Queue' /\ Served'
  OBVIOUS
<1>t. /\ sent \subseteq Request /\ requests \in Seq(Request) /\ mu \in Request \cup {Nobody}
      /\ failures \in Seq(400..599) /\ planned \in Seq(400..599)
      /\ handling \subseteq HandlerType
  BY DEF Typed, TypeOK, ServerTypeOK
<1>l. /\ Len(requests) \in Nat /\ Len(failures) \in Nat /\ Len(planned) \in Nat
      /\ DOMAIN requests = 1..Len(requests)
  BY <1>t
<1>1. ASSUME NEW request \in sent, Lock(request) PROVE Exclusive' /\ Queue' /\ Served'
  <2> DEFINE new == Handler(request, "locked", Len(requests) + 1, OK)
  <2>1. /\ requests' = Append(requests, request) /\ mu = Nobody /\ mu' = request
        /\ handling' = handling \cup {new} /\ failures' = failures /\ planned' = planned
        /\ written' = written /\ request \in Request
    BY <1>1, <1>t DEF Lock
  <2>2. /\ Len(requests') = Len(requests) + 1
        /\ DOMAIN requests' = 1..(Len(requests) + 1)
        /\ \A i \in DOMAIN requests : requests'[i] = requests[i]
        /\ requests'[Len(requests) + 1] = request
    BY <2>1, <1>t
  <2>3. \A h \in handling : h.place # "locked"
    BY <2>1, <1>t DEF Exclusive, HandlerType
  <2>4. Exclusive'
    BY <2>1, <2>2, <2>3, <1>l DEF Exclusive, Handler
  <2>5. Queue'
    <3>1. Taken = Len(requests) /\ Taken' = Len(requests)
      <4>1. request # Nobody
        BY <2>1
      <4>2. QED
        BY <4>1, <2>1, <2>2, <1>l DEF Taken
    <3>2. QED
      BY <2>1, <3>1 DEF Queue
  <2>6. Served'
    <3>1. \A h \in handling' : h.place = "answering" => h \in handling
      BY <2>1 DEF Handler
    <3>2. \A i \in DOMAIN requests : i \in DOMAIN requests' /\ requests'[i] = requests[i]
      BY <2>2, <1>l
    <3>3. QED
      BY <2>1, <3>1, <3>2 DEF Served, AnswerTo, Due
  <2>7. QED
    BY <2>4, <2>5, <2>6
<1>2. ASSUME NEW h \in handling, Take(h) PROVE Exclusive' /\ Queue' /\ Served'
  <2> DEFINE injected == IF failures = <<>> THEN OK ELSE Head(failures)
             next == Handler(h.request, "answering", h.sequence, injected)
  <2>1. /\ h.place = "locked" /\ handling' = (handling \ {h}) \cup {next}
        /\ failures' = IF failures = <<>> THEN failures ELSE Tail(failures)
        /\ mu' = Nobody /\ requests' = requests /\ planned' = planned /\ written' = written
    BY <1>2 DEF Take
  <2>2. h.request = mu /\ h.sequence = Len(requests) /\ Len(requests) \in DOMAIN requests
        /\ requests[h.sequence] = h.request
    BY <2>1 DEF Exclusive
  <2>3. mu # Nobody /\ Len(requests) >= 1
    BY <2>2, <1>t, <1>l DEF HandlerType
  <2>4. \A k \in handling : k.place = "locked" => k = h
    BY <2>1, <2>2, <1>t DEF Exclusive, HandlerType
  <2>5. next.place = "answering" /\ next.request = h.request
        /\ next.sequence = h.sequence /\ next.injected = injected
    BY DEF Handler
  <2>6. Exclusive'
    <3> HIDE DEF next
    <3> QED
      BY <2>1, <2>2, <2>4, <2>5 DEF Exclusive
  <2>7. Taken = Len(requests) - 1 /\ Taken' = Len(requests)
    BY <2>1, <2>3 DEF Taken
  <2>8. Queue' /\ injected = Due(Len(requests))
    <3>1. CASE failures = <<>>
      BY <2>1, <2>7, <3>1, <1>l DEF Queue, Due
    <3>2. CASE failures # <<>>
      <4>1. /\ Len(failures) >= 1 /\ Len(failures) = Len(planned) - (Len(requests) - 1)
            /\ Len(requests) <= Len(planned)
        BY <2>7, <3>2, <1>t, <1>l DEF Queue
      <4>2. /\ Head(failures) = failures[1] /\ Len(Tail(failures)) = Len(failures) - 1
            /\ \A i \in 1..(Len(failures) - 1) : Tail(failures)[i] = failures[i + 1]
        BY <3>2, <1>t
      <4>3. failures[1] = planned[Len(requests)]
        BY <4>1, <1>l DEF Queue
      <4>4. \A i \in 1..(Len(failures) - 1) :
              failures[i + 1] = planned[Len(planned) - (Len(failures) - 1) + i]
        <5> SUFFICES ASSUME NEW i \in 1..(Len(failures) - 1)
                     PROVE  failures[i + 1] = planned[Len(planned) - (Len(failures) - 1) + i]
          OBVIOUS
        <5>1. /\ i + 1 \in 1..Len(failures)
              /\ Len(planned) - (Len(failures) - 1) + i = Len(planned) - Len(failures) + (i + 1)
          BY <1>l
        <5>2. QED
          BY <5>1 DEF Queue
      <4>5. injected = Due(Len(requests))
        BY <3>2, <4>1, <4>2, <4>3 DEF Due
      <4>6. Queue'
        <5>1. failures' = Tail(failures) /\ planned' = planned
          BY <2>1, <3>2
        <5>2. Len(failures') = IF Taken' <= Len(planned') THEN Len(planned') - Taken' ELSE 0
          BY <5>1, <2>7, <4>1, <4>2, <1>l
        <5>3. \A i \in 1..Len(failures') :
                failures'[i] = planned'[Len(planned') - Len(failures') + i]
          BY <5>1, <4>2, <4>4
        <5>4. QED
          BY <5>2, <5>3 DEF Queue
      <4>7. QED
        BY <4>5, <4>6
    <3>3. QED
      BY <3>1, <3>2
  <2>9. Served'
    <3> HIDE DEF next, injected
    <3>1. \A k \in handling' : k.place = "answering" => k.injected = Due(k.sequence)
      BY <2>1, <2>2, <2>5, <2>8 DEF Served
    <3>2. QED
      BY <2>1, <3>1 DEF Served, AnswerTo, Due
  <2>10. QED
    BY <2>6, <2>8, <2>9
<1>3. ASSUME NEW h \in handling, Respond(h) PROVE Exclusive' /\ Queue' /\ Served'
  <2> DEFINE new == Answer(h.request, h.injected, Id(h))
  <2>1. /\ h.place = "answering" /\ handling' = handling \ {h}
        /\ written' = written \cup {new}
        /\ mu' = mu /\ requests' = requests /\ failures' = failures /\ planned' = planned
    BY <1>3 DEF Respond
  <2>2. h.sequence \in DOMAIN requests /\ AnswerTo(new, h.sequence)
    BY <2>1 DEF Exclusive, Served, AnswerTo, Answer, Id
  <2>3. Exclusive' /\ Queue'
    <3>1. Exclusive'
      BY <2>1 DEF Exclusive
    <3>2. Taken' = Taken
      BY <2>1 DEF Taken
    <3>3. Queue'
      BY <2>1, <3>2 DEF Queue
    <3>4. QED
      BY <3>1, <3>3
  <2>4. Served'
    <3> HIDE DEF new
    <3>1. \A answer \in written' : \E i \in DOMAIN requests : AnswerTo(answer, i)
      BY <2>1, <2>2 DEF Served
    <3>2. QED
      BY <2>1, <3>1 DEF Served, AnswerTo, Due
  <2>5. QED
    BY <2>3, <2>4
<1>4. CASE UNCHANGED server
  <2>1. Exclusive'
    BY <1>4 DEF server, Exclusive
  <2>2. Taken' = Taken
    BY <1>4 DEF server, Taken
  <2>3. Queue'
    BY <1>4, <2>2 DEF server, Queue
  <2>4. Served'
    BY <1>4 DEF server, Served, AnswerTo, Due
  <2>5. QED
    BY <2>1, <2>3, <2>4
<1>5. QED
  <2> HIDE DEF Exclusive, Queue, Served
  <2> QED
    BY <1>1, <1>2, <1>3, <1>4, Apart DEF Serve

LEMMA InvStep == Inv /\ [Next]_vars => Inv'
BY TypedStep, IssuedStep, ServerStep DEF Inv

LEMMA InvAlways == Spec => []Inv
BY InvInit, InvStep, PTL DEF Spec

(* Injected failures go to the first requests of the log and to no other,  *)
(* for any plan and any number of handlers at work (fakeapi.go, handle).   *)
THEOREM FailuresInOrder == Spec => []FirstFail
<1>1. Inv => FirstFail
  <2> SUFFICES ASSUME Inv, NEW answer \in written
               PROVE  answer.status = IF LoggedAt(answer) <= Len(planned)
                                      THEN planned[LoggedAt(answer)] ELSE OK
    BY DEF FirstFail
  <2>1. PICK i \in DOMAIN requests : AnswerTo(answer, i)
    BY DEF Inv, Served
  <2>2. LoggedAt(answer) = i
    BY <2>1 DEF LoggedAt, AnswerTo, Inv, Issued
  <2>3. QED
    BY <2>1, <2>2 DEF AnswerTo, Due
<1>2. QED
  BY <1>1, InvAlways, PTL

(***************************************************************************)
(* What a goroutine holds.  An ID held by a call or its result is that of  *)
(* a request of its own; a call that heard a success holds it, and is past *)
(* its last attempt because no policy retries a success.                   *)
(***************************************************************************)
OwnId(m, id) == id # 0 => id \in DOMAIN requests /\ requests[id].message = m

Own(m) ==
  /\ OwnId(m, resp[m].id)
  /\ OwnId(m, results[m].id)
  /\ results[m].kind # "none" => results[m].message = m
  /\ pc[m] \in {"leaving", "done"} <=> results[m].kind # "none"

Heard(m) ==
  \A i \in DOMAIN received[m] : received[m][i].status = OK =>
    /\ i = Len(received[m])
    /\ received[m][i].request.attempt = attempt[m]
    /\ pc[m] \in {"returned", "leaving", "done"}
    /\ resp[m] = [status |-> OK, id |-> received[m][i].id]
    /\ results[m].kind # "none" =>
         results[m].kind = "ok" /\ results[m].id = received[m][i].id

Holds == \A m \in Message : Own(m) /\ Heard(m)

LEMMA HoldsInit == Init => Holds
BY DEF Init, ServerInit, Holds, Own, OwnId, Heard, NoAnswer, NoResult

(* The log only grows, so an ID stays one's own. *)
LEMMA OwnIdStep ==
  ASSUME Typed, [Next]_vars, NEW m, NEW id, OwnId(m, id)
  PROVE  id # 0 => id \in DOMAIN requests' /\ requests'[id].message = m
<1>1. requests \in Seq(Request)
  BY DEF Typed, TypeOK, ServerTypeOK
<1>2. CASE requests' = requests
  BY <1>2 DEF OwnId
<1>3. ASSUME NEW request \in sent, requests' = Append(requests, request)
      PROVE  id # 0 => id \in DOMAIN requests' /\ requests'[id].message = m
  BY <1>1, <1>3 DEF OwnId
<1>4. requests' = requests \/ \E request \in sent : requests' = Append(requests, request)
  BY Apart DEF Serve, Lock, Take, Respond, server
<1>5. QED
  BY <1>2, <1>3, <1>4

LEMMA OwnStep ==
  ASSUME Inv, [Next]_vars, NEW m \in Message, Own(m)
  PROVE  Own(m)'
<1>t. /\ pc \in [Message -> Places] /\ written \subseteq AnswerType
      /\ resp \in [Message -> [status : Statuses \cup {0}, id : Nat]]
      /\ results \in [Message -> ResultType]
  BY DEF Inv, Typed, TypeOK, ServerTypeOK
<1>i. \A id : OwnId(m, id) => (id # 0 => id \in DOMAIN requests' /\ requests'[id].message = m)
  BY OwnIdStep DEF Inv
<1>k. ASSUME resp'[m] = resp[m] \/ resp'[m] = NoAnswer, results'[m] = results[m],
             pc'[m] \in {"leaving", "done"} <=> pc[m] \in {"leaving", "done"}
      PROVE  Own(m)'
  <2>1. OwnId(m, results[m].id)' /\ OwnId(m, resp[m].id)'
    BY <1>k, <1>i DEF Own, OwnId, NoAnswer
  <2>2. QED
    BY <1>k, <2>1 DEF Own
<1>1. ASSUME NEW n \in Message, Acquire(n) PROVE Own(m)'
  BY <1>1, <1>k, <1>t DEF Acquire, Begin, Goto
<1>2. ASSUME NEW n \in Message, Transmit(n) PROVE Own(m)'
  BY <1>2, <1>k, <1>t DEF Transmit, Goto
<1>3. ASSUME NEW n \in Message, NEW answer \in written, Receive(n, answer) PROVE Own(m)'
  <2>1. CASE n # m
    BY <1>3, <2>1, <1>k, <1>t DEF Receive, Goto
  <2>2. CASE n = m
    <3>1. PICK i \in DOMAIN requests : AnswerTo(answer, i)
      BY DEF Inv, Served
    <3>2. OwnId(m, answer.id)
      BY <1>3, <2>2, <3>1 DEF OwnId, AnswerTo, Receive
    <3>3. /\ resp'[m].id = answer.id /\ results' = results
          /\ pc'[m] = "returned" /\ pc[m] = "waiting"
      BY <1>3, <2>2, <1>t DEF Receive, Goto
    <3>4. OwnId(m, resp[m].id)' /\ OwnId(m, results[m].id)'
      BY <3>2, <3>3, <1>i DEF OwnId, Own
    <3>5. QED
      BY <3>3, <3>4 DEF Own
  <2>3. QED
    BY <2>1, <2>2
<1>4. ASSUME NEW n \in Message, AttemptFails(n) PROVE Own(m)'
  BY <1>4, <1>k, <1>t DEF AttemptFails, Goto
<1>5. ASSUME NEW n \in Message, Retry(n) PROVE Own(m)'
  BY <1>5, <1>k, <1>t DEF Retry, Begin, Goto
<1>f. ASSUME NEW answer, OwnId(m, answer.id), Finish(m, answer), resp' = resp
      PROVE  Own(m)'
  <2>1. /\ results'[m] = Outcome(m, answer) /\ pc'[m] = "leaving"
    BY <1>f, <1>t DEF Finish, Goto
  <2>2. results'[m].kind # "none" /\ results'[m].message = m /\ results'[m].id = answer.id
    BY <2>1 DEF Outcome
  <2>3. OwnId(m, resp[m].id)' /\ OwnId(m, results[m].id)'
    BY <1>f, <2>2, <1>i DEF OwnId, Own
  <2>4. QED
    BY <2>1, <2>2, <2>3 DEF Own
<1>6. ASSUME NEW n \in Message, Interrupted(n) PROVE Own(m)'
  <2>1. CASE n # m
    BY <1>6, <2>1, <1>k, <1>t DEF Interrupted, Finish, Goto
  <2>2. CASE n = m
    <3>1. OwnId(m, NoAnswer.id)
      BY DEF OwnId, NoAnswer
    <3>2. QED
      BY <1>6, <2>2, <3>1, <1>f DEF Interrupted
  <2>3. QED
    BY <2>1, <2>2
<1>7. ASSUME NEW n \in Message, Stop(n) PROVE Own(m)'
  <2>1. CASE n # m
    BY <1>7, <2>1, <1>k, <1>t DEF Stop, Finish, Goto
  <2>2. CASE n = m
    BY <1>7, <2>2, <1>f DEF Stop, Own
  <2>3. QED
    BY <2>1, <2>2
<1>8. ASSUME NEW n \in Message, Release(n) PROVE Own(m)'
  BY <1>8, <1>k, <1>t DEF Release, Goto
<1>9. CASE Report \/ Deadline \/ UNCHANGED batch
  BY <1>9, <1>k DEF Report, Deadline, batch
<1>10. QED
  BY <1>1, <1>2, <1>3, <1>4, <1>5, <1>6, <1>7, <1>8, <1>9 DEF Next, Step, vars

LEMMA HeardStep ==
  ASSUME Inv, [Next]_vars, NEW m \in Message, Own(m), Heard(m)
  PROVE  Heard(m)'
<1>t. /\ pc \in [Message -> Places] /\ written \subseteq AnswerType
      /\ attempt \in [Message -> 0..(MaxRetries + 1)]
      /\ resp \in [Message -> [status : Statuses \cup {0}, id : Nat]]
      /\ results \in [Message -> ResultType]
      /\ received \in [Message -> Seq(AnswerType)]
  BY DEF Inv, Typed, TypeOK, ServerTypeOK
<1>k. ASSUME received'[m] = received[m], attempt'[m] = attempt[m], resp'[m] = resp[m],
             results'[m] = results[m],
             pc[m] \in {"returned", "leaving", "done"} => pc'[m] \in {"returned", "leaving", "done"}
      PROVE  Heard(m)'
  BY <1>k DEF Heard
(* A call that is not over when it goes on has heard no success. *)
<1>n. ASSUME received'[m] = received[m],
             \A i \in DOMAIN received[m] : received[m][i].status # OK
      PROVE  Heard(m)'
  BY <1>n DEF Heard
<1>o. ASSUME pc[m] \in {"ready", "dialing", "waiting"}
      PROVE  \A i \in DOMAIN received[m] : received[m][i].status # OK
  BY <1>o DEF Heard
<1>r. ASSUME MayRetry(m) PROVE \A i \in DOMAIN received[m] : received[m][i].status # OK
  <2>1. resp[m].status # OK
    BY <1>r, NoSuccessRetried DEF MayRetry, NoAnswer
  <2>2. ASSUME NEW i \in DOMAIN received[m], received[m][i].status = OK PROVE FALSE
    <3>1. resp[m] = [status |-> OK, id |-> received[m][i].id]
      BY <2>2 DEF Heard
    <3>2. QED
      BY <2>1, <3>1
  <2>3. QED
    BY <2>2
<1>1. ASSUME NEW n \in Message, Acquire(n) PROVE Heard(m)'
  <2>1. CASE n # m
    BY <1>1, <2>1, <1>k, <1>t DEF Acquire, Begin, Goto, history
  <2>2. CASE n = m
    BY <1>1, <2>2, <1>n, <1>o DEF Acquire, history
  <2>3. QED
    BY <2>1, <2>2
<1>2. ASSUME NEW n \in Message, Transmit(n) PROVE Heard(m)'
  BY <1>2, <1>k, <1>t DEF Transmit, Goto
<1>3. ASSUME NEW n \in Message, NEW answer \in written, Receive(n, answer) PROVE Heard(m)'
  <2>1. CASE n # m
    BY <1>3, <2>1, <1>k, <1>t DEF Receive, Goto
  <2>2. CASE n = m
    <3>1. \A i \in DOMAIN received[m] : received[m][i].status # OK
      BY <1>3, <2>2, <1>o DEF Receive
    <3>2. /\ received'[m] = Append(received[m], answer) /\ pc'[m] = "returned"
          /\ resp'[m] = [status |-> answer.status, id |-> answer.id]
          /\ attempt' = attempt /\ results'[m] = results[m]
          /\ answer.request.attempt = attempt[m]
      BY <1>3, <2>2, <1>t DEF Receive, Goto
    <3>3. results[m].kind = "none"
      BY <1>3, <2>2 DEF Receive, Own
    <3>4. received[m] \in Seq(AnswerType) /\ answer \in AnswerType
      BY <1>t
    <3>5. /\ DOMAIN received'[m] = 1..(Len(received[m]) + 1)
          /\ Len(received'[m]) = Len(received[m]) + 1
          /\ \A i \in DOMAIN received[m] : received'[m][i] = received[m][i]
          /\ received'[m][Len(received[m]) + 1] = answer
          /\ DOMAIN received[m] = 1..Len(received[m]) /\ Len(received[m]) \in Nat
      BY <3>2, <3>4
    <3>6. \A i \in DOMAIN received'[m] : received'[m][i].status = OK =>
            i = Len(received'[m]) /\ received'[m][i] = answer
      BY <3>1, <3>5
    <3>7. QED
      BY <3>2, <3>3, <3>6 DEF Heard
  <2>3. QED
    BY <2>1, <2>2
<1>4. ASSUME NEW n \in Message, AttemptFails(n) PROVE Heard(m)'
  BY <1>4, <1>k, <1>t DEF AttemptFails, Goto, history
<1>5. ASSUME NEW n \in Message, Retry(n) PROVE Heard(m)'
  <2>1. CASE n # m
    BY <1>5, <2>1, <1>k, <1>t DEF Retry, Begin, Goto, history
  <2>2. CASE n = m
    BY <1>5, <2>2, <1>n, <1>r DEF Retry, history
  <2>3. QED
    BY <2>1, <2>2
<1>6. ASSUME NEW n \in Message, Interrupted(n) PROVE Heard(m)'
  <2>1. CASE n # m
    BY <1>6, <2>1, <1>k, <1>t DEF Interrupted, Finish, Goto, history
  <2>2. CASE n = m
    BY <1>6, <2>2, <1>n, <1>r DEF Interrupted, history
  <2>3. QED
    BY <2>1, <2>2
<1>7. ASSUME NEW n \in Message, Stop(n) PROVE Heard(m)'
  <2>1. CASE n # m
    BY <1>7, <2>1, <1>k, <1>t DEF Stop, Finish, Goto, history
  <2>2. CASE n = m
    <3>1. /\ received' = received /\ attempt' = attempt /\ resp' = resp
          /\ pc'[m] = "leaving" /\ results'[m] = Outcome(m, resp[m])
      BY <1>7, <2>2, <1>t DEF Stop, Finish, Goto, history
    <3>2. ASSUME resp[m].status = OK
          PROVE  results'[m].kind = "ok" /\ results'[m].id = resp[m].id
      BY <3>1, <3>2 DEF Outcome, NoAnswer
    <3>3. QED
      BY <3>1, <3>2 DEF Heard
  <2>3. QED
    BY <2>1, <2>2
<1>8. ASSUME NEW n \in Message, Release(n) PROVE Heard(m)'
  BY <1>8, <1>k, <1>t DEF Release, Goto, history
<1>9. CASE Report \/ Deadline \/ UNCHANGED batch
  BY <1>9, <1>k DEF Report, Deadline, batch, history
<1>10. QED
  BY <1>1, <1>2, <1>3, <1>4, <1>5, <1>6, <1>7, <1>8, <1>9 DEF Next, Step, vars

LEMMA HoldsAlways == Spec => []Holds
<1>1. Inv /\ Holds /\ [Next]_vars => Holds'
  BY OwnStep, HeardStep DEF Holds
<1>2. QED
  BY <1>1, HoldsInit, InvAlways, PTL DEF Spec

(* A result belongs to its message and is quoted with the ID of a request  *)
(* logged for that message, however many calls share the server and however *)
(* late their requests are handled (examples/batch/main.go, results[i]).   *)
THEOREM ResultsAreOwn == Spec => []OwnResult
<1>1. Holds => OwnResult
  BY DEF Holds, Own, OwnId, OwnResult
<1>2. QED
  BY <1>1, HoldsAlways, PTL

(* A success that was heard is the result, and ends the call: for any      *)
(* number of retries and any statuses the policy retries (Send's loop).    *)
THEOREM SuccessIsLast == Spec => []HeardOnce
<1>1. Holds => HeardOnce
  <2> SUFFICES ASSUME Holds, NEW m \in Message, NEW i \in DOMAIN received[m],
                      received[m][i].status = OK
               PROVE  /\ i = Len(received[m])
                      /\ received[m][i].request.attempt = attempt[m]
                      /\ results[m].kind # "none" =>
                           results[m].kind = "ok" /\ results[m].id = received[m][i].id
    BY DEF HeardOnce
  <2>1. Heard(m)
    BY DEF Holds
  <2>2. QED
    BY <2>1 DEF Heard
<1>2. QED
  BY <1>1, HoldsAlways, PTL

(***************************************************************************)
(* Each call is one of Call.tla's.  Its ordinals are below the attempt it  *)
(* is at, it has no more answers than requests, and holds one only if it   *)
(* received one.                                                           *)
(***************************************************************************)
Numbered(m) ==
  /\ \A i \in 1..Len(wire[m]) : /\ wire[m][i] < attempt[m]
                                /\ pc[m] = "dialing" => wire[m][i] < attempt[m] - 1
  /\ Len(received[m]) <= Len(wire[m])
  /\ pc[m] = "waiting" => Len(received[m]) < Len(wire[m])
  /\ pc[m] = "ready" => wire[m] = <<>>
  /\ resp[m] # NoAnswer => Len(received[m]) > 0

LEMMA NumberedInit == Init => \A m \in Message : Numbered(m)
BY DEF Init, Numbered

LEMMA NumberedStep ==
  ASSUME Typed, [Next]_vars, NEW m \in Message, Numbered(m)
  PROVE  Numbered(m)'
<1>t. /\ pc \in [Message -> Places]
      /\ attempt \in [Message -> 0..(MaxRetries + 1)]
      /\ pc[m] # "ready" => attempt[m] >= 1
      /\ resp \in [Message -> [status : Statuses \cup {0}, id : Nat]]
      /\ wire \in [Message -> Seq(Nat)]
      /\ received \in [Message -> Seq(AnswerType)]
      /\ written \subseteq AnswerType
  BY DEF Typed, TypeOK, ServerTypeOK
<1>l. /\ wire[m] \in Seq(Nat) /\ received[m] \in Seq(AnswerType) /\ attempt[m] \in Nat
      /\ Len(wire[m]) \in Nat /\ Len(received[m]) \in Nat
      /\ \A i \in 1..Len(wire[m]) : wire[m][i] \in Nat
  BY <1>t
<1>k. ASSUME wire'[m] = wire[m], received'[m] = received[m], attempt'[m] = attempt[m],
             resp'[m] = resp[m],
             pc'[m] = pc[m] \/ pc'[m] \in {"returned", "leaving", "done"}
      PROVE  Numbered(m)'
  BY <1>k DEF Numbered
<1>1. ASSUME NEW n \in Message, Acquire(n) \/ Retry(n) PROVE Numbered(m)'
  <2>1. CASE n # m
    BY <1>1, <2>1, <1>k, <1>t DEF Acquire, Retry, Begin, Goto, history
  <2>2. CASE n = m
    <3>1. /\ wire' = wire /\ received' = received
          /\ pc'[m] = "dialing" /\ resp'[m] = NoAnswer
      BY <1>1, <2>2, <1>t DEF Acquire, Retry, Begin, Goto, history
    <3>2. \/ wire[m] = <<>>
          \/ attempt'[m] = attempt[m] + 1
      BY <1>1, <2>2, <1>t DEF Acquire, Retry, Begin, Numbered
    <3>3. \A i \in 1..Len(wire[m]) : /\ wire[m][i] < attempt'[m]
                                     /\ wire[m][i] < attempt'[m] - 1
      <4>1. CASE wire[m] = <<>>
        BY <4>1
      <4>2. CASE attempt'[m] = attempt[m] + 1 /\ wire[m] # <<>>
        <5>1. \A i \in 1..Len(wire[m]) : wire[m][i] < attempt[m]
          BY DEF Numbered
        <5>2. attempt'[m] \in Nat
          BY <4>2, <1>l
        <5>3. QED
          BY <4>2, <5>1, <5>2, <1>l
      <4>3. QED
        BY <3>2, <4>1, <4>2
    <3>4. QED
      BY <3>1, <3>3 DEF Numbered
  <2>3. QED
    BY <2>1, <2>2
<1>2. ASSUME NEW n \in Message, Transmit(n) PROVE Numbered(m)'
  <2>1. CASE n # m
    BY <1>2, <2>1, <1>k, <1>t DEF Transmit, Goto
  <2>2. CASE n = m
    <3>1. /\ wire'[m] = Append(wire[m], attempt[m] - 1) /\ received' = received
          /\ pc[m] = "dialing" /\ pc'[m] = "waiting" /\ resp' = resp /\ attempt' = attempt
      BY <1>2, <2>2, <1>t DEF Transmit, Goto
    <3>2. /\ Len(wire'[m]) = Len(wire[m]) + 1
          /\ \A i \in 1..Len(wire[m]) : wire'[m][i] = wire[m][i]
          /\ wire'[m][Len(wire[m]) + 1] = attempt[m] - 1
      BY <3>1, <1>l
    <3>3. \A i \in 1..Len(wire'[m]) : wire'[m][i] < attempt[m]
      BY <3>1, <3>2, <1>l DEF Numbered
    <3>4. QED
      BY <3>1, <3>2, <3>3, <1>l DEF Numbered
  <2>3. QED
    BY <2>1, <2>2
<1>3. ASSUME NEW n \in Message, NEW answer \in written, Receive(n, answer) PROVE Numbered(m)'
  <2>1. CASE n # m
    BY <1>3, <2>1, <1>k, <1>t DEF Receive, Goto
  <2>2. CASE n = m
    <3>1. /\ received'[m] = Append(received[m], answer) /\ wire' = wire
          /\ attempt' = attempt /\ pc[m] = "waiting" /\ pc'[m] = "returned"
      BY <1>3, <2>2, <1>t DEF Receive, Goto
    <3>2. Len(received'[m]) = Len(received[m]) + 1
      BY <3>1, <1>l
    <3>3. QED
      BY <3>1, <3>2, <1>l DEF Numbered
  <2>3. QED
    BY <2>1, <2>2
<1>4. ASSUME NEW n \in Message, AttemptFails(n) \/ Release(n) PROVE Numbered(m)'
  BY <1>4, <1>k, <1>t DEF AttemptFails, Release, Goto, history
<1>5. ASSUME NEW n \in Message, Interrupted(n) \/ Stop(n) PROVE Numbered(m)'
  BY <1>5, <1>k, <1>t DEF Interrupted, Stop, Finish, Goto, history
<1>6. CASE Report \/ Deadline \/ UNCHANGED batch
  BY <1>6, <1>k DEF Report, Deadline, batch, history
<1>7. QED
  BY <1>1, <1>2, <1>3, <1>4, <1>5, <1>6 DEF Next, Step, vars

(* What Call.tla sees of a message's call. *)
Standing(m) == CASE pc[m] = "ready" -> "none"
                 [] pc[m] \in InCall -> "open"
                 [] OTHER -> results[m].kind

LEMMA CallStep ==
  ASSUME Inv, [Next]_vars, NEW m \in Message, Own(m), Numbered(m)
  PROVE  OneCall(m)!Next \/ UNCHANGED OneCall(m)!vars
<1>t. /\ pc \in [Message -> Places]
      /\ attempt \in [Message -> 0..(MaxRetries + 1)]
      /\ pc[m] # "ready" => attempt[m] >= 1
      /\ resp \in [Message -> [status : Statuses \cup {0}, id : Nat]]
      /\ results \in [Message -> ResultType]
      /\ wire \in [Message -> Seq(Nat)]
      /\ received \in [Message -> Seq(AnswerType)]
      /\ written \subseteq AnswerType
  BY DEF Inv, Typed, TypeOK, ServerTypeOK
<1>k. ASSUME wire'[m] = wire[m], received'[m] = received[m], Standing(m)' = Standing(m)
      PROVE  UNCHANGED OneCall(m)!vars
  BY <1>k DEF Standing, OneCall!vars
<1>o. ASSUME NEW n \in Message, n # m, pc'[m] = pc[m],
             wire'[m] = wire[m], received'[m] = received[m], results'[m] = results[m]
      PROVE  UNCHANGED OneCall(m)!vars
  BY <1>o, <1>k DEF Standing
<1>1. ASSUME NEW n \in Message, Acquire(n)
      PROVE  OneCall(m)!Next \/ UNCHANGED OneCall(m)!vars
  <2>1. CASE n # m
    BY <1>1, <2>1, <1>o, <1>t DEF Acquire, Begin, Goto, history
  <2>2. CASE n = m
    <3>1. OneCall(m)!Open
      BY <1>1, <2>2, <1>t DEF Acquire, Begin, Goto, history, OneCall!Open
    <3>2. QED
      BY <3>1 DEF OneCall!Next
  <2>3. QED
    BY <2>1, <2>2
<1>2. ASSUME NEW n \in Message, Transmit(n)
      PROVE  OneCall(m)!Next \/ UNCHANGED OneCall(m)!vars
  <2>1. CASE n # m
    BY <1>2, <2>1, <1>o, <1>t DEF Transmit, Goto
  <2>2. CASE n = m
    <3>1. /\ wire'[m] = Append(wire[m], attempt[m] - 1) /\ received' = received
          /\ pc[m] = "dialing" /\ pc'[m] = "waiting"
      BY <1>2, <2>2, <1>t DEF Transmit, Goto
    <3>2. attempt[m] - 1 \in 0..MaxRetries
      <4>1. attempt[m] \in 0..(MaxRetries + 1) /\ attempt[m] >= 1
        BY <3>1, <1>t
      <4>2. QED
        BY <4>1
    <3>3. OneCall(m)!Request(attempt[m] - 1)
      BY <3>1 DEF Numbered, OneCall!Request
    <3>4. QED
      BY <3>2, <3>3 DEF OneCall!Next
  <2>3. QED
    BY <2>1, <2>2
<1>3. ASSUME NEW n \in Message, NEW answer \in written, Receive(n, answer)
      PROVE  OneCall(m)!Next \/ UNCHANGED OneCall(m)!vars
  <2>1. CASE n # m
    BY <1>3, <2>1, <1>o, <1>t DEF Receive, Goto
  <2>2. CASE n = m
    <3>1. /\ received'[m] = Append(received[m], answer) /\ wire' = wire
          /\ pc[m] = "waiting" /\ pc'[m] = "returned"
      BY <1>3, <2>2, <1>t DEF Receive, Goto
    <3>2. Len(received'[m]) = Len(received[m]) + 1 /\ Len(received[m]) < Len(wire[m])
      BY <3>1, <1>t DEF Numbered
    <3>3. OneCall(m)!Answer
      BY <3>1, <3>2 DEF OneCall!Answer
    <3>4. QED
      BY <3>3 DEF OneCall!Next
  <2>3. QED
    BY <2>1, <2>2
<1>4. ASSUME NEW n \in Message, AttemptFails(n) \/ Retry(n)
      PROVE  UNCHANGED OneCall(m)!vars
  <2>1. CASE n # m
    BY <1>4, <2>1, <1>o, <1>t DEF AttemptFails, Retry, Begin, Goto, history
  <2>2. CASE n = m
    <3>1. /\ pc[m] \in InCall /\ pc'[m] \in InCall /\ wire' = wire /\ received' = received
      BY <1>4, <2>2, <1>t DEF AttemptFails, Retry, Begin, Goto, history
    <3>2. Standing(m)' = Standing(m)
      BY <3>1 DEF Standing
    <3>3. QED
      BY <3>1, <3>2, <1>k
  <2>3. QED
    BY <2>1, <2>2
(* The result of a call that received nothing is a transport failure. *)
<1>c. ASSUME NEW answer, answer = NoAnswer \/ answer = resp[m], pc[m] = "returned",
             Finish(m, answer), wire' = wire, received' = received
      PROVE  OneCall(m)!Next
  <2>1. results'[m].kind = Outcome(m, answer).kind /\ pc'[m] = "leaving"
    BY <1>c, <1>t DEF Finish, Goto
  <2>2. \/ Outcome(m, answer).kind = "transport"
        \/ Len(received[m]) > 0 /\ Outcome(m, answer).kind \in {"ok", "api"}
    BY <1>c DEF Outcome, Numbered
  <2>3. OneCall(m)!Close
    BY <1>c, <2>1, <2>2 DEF OneCall!Close
  <2>4. QED
    BY <2>3 DEF OneCall!Next
<1>5. ASSUME NEW n \in Message, Interrupted(n) \/ Stop(n)
      PROVE  OneCall(m)!Next \/ UNCHANGED OneCall(m)!vars
  <2>1. CASE n # m
    BY <1>5, <2>1, <1>o, <1>t DEF Interrupted, Stop, Finish, Goto, history
  <2>2. CASE n = m
    BY <1>5, <2>2, <1>c DEF Interrupted, Stop, history
  <2>3. QED
    BY <2>1, <2>2
<1>6. ASSUME NEW n \in Message, Release(n) PROVE UNCHANGED OneCall(m)!vars
  <2>1. CASE n # m
    BY <1>6, <2>1, <1>o, <1>t DEF Release, Goto, history
  <2>2. CASE n = m
    <3>1. /\ pc[m] = "leaving" /\ pc'[m] = "done" /\ results' = results
          /\ wire' = wire /\ received' = received
      BY <1>6, <2>2, <1>t DEF Release, Goto, history
    <3>2. Standing(m)' = Standing(m)
      BY <3>1 DEF Standing
    <3>3. QED
      BY <3>1, <3>2, <1>k
  <2>3. QED
    BY <2>1, <2>2
<1>7. ASSUME Report \/ Deadline \/ UNCHANGED batch PROVE UNCHANGED OneCall(m)!vars
  BY <1>7, <1>k DEF Report, Deadline, batch, history, Standing
<1>8. QED
  BY <1>1, <1>2, <1>3, <1>4, <1>5, <1>6, <1>7 DEF Next, Step, vars

(* The call of each message is one that Call.tla describes, for any number *)
(* of them at once: Call is what a single Send implements.                 *)
THEOREM EachImplementsCall == Spec => EachIsACall
<1> DEFINE Steps == \A m \in Message : OneCall(m)!Next \/ UNCHANGED OneCall(m)!vars
           Starts == \A m \in Message : OneCall(m)!Init
<1>1. Init => Starts
  BY DEF Init, OneCall!Init
<1>2. Inv /\ Holds /\ (\A m \in Message : Numbered(m)) /\ [Next]_vars
        => (\A m \in Message : Numbered(m))'
  BY NumberedStep DEF Inv
<1>3. Inv /\ Holds /\ (\A m \in Message : Numbered(m)) /\ [Next]_vars => [Steps]_vars
  BY CallStep DEF Holds
<1>4. EachIsACall <=> Starts /\ [][Steps]_vars
  BY DEF EachIsACall
<1>5. QED
  BY <1>1, <1>2, <1>3, <1>4, NumberedInit, InvAlways, HoldsAlways, PTL DEF Spec

(***************************************************************************)
(* A message is executed once per attempt, and an execution that was       *)
(* answered was the last: the answer was a success.                        *)
(***************************************************************************)
Sourced(m) == \A i \in DOMAIN received[m] :
                received[m][i] \in written /\ received[m][i].request.message = m

LEMMA SourcedInit == Init => \A m \in Message : Sourced(m)
BY DEF Init, Sourced

LEMMA SourcedStep ==
  ASSUME Typed, [Next]_vars, NEW m \in Message, Sourced(m)
  PROVE  Sourced(m)'
<1>t. received[m] \in Seq(AnswerType)
  BY DEF Typed, TypeOK
<1>1. written \subseteq written'
  BY Apart DEF Serve, Lock, Take, Respond, server
<1>2. CASE received'[m] = received[m]
  BY <1>1, <1>2 DEF Sourced
<1>3. ASSUME NEW answer \in written, Receive(m, answer) PROVE Sourced(m)'
  <2>1. /\ received'[m] = Append(received[m], answer) /\ answer.request.message = m
    BY <1>3 DEF Receive, Typed, TypeOK
  <2>2. /\ DOMAIN received'[m] = 1..(Len(received[m]) + 1)
        /\ \A i \in DOMAIN received[m] : received'[m][i] = received[m][i]
        /\ received'[m][Len(received[m]) + 1] = answer
        /\ DOMAIN received[m] = 1..Len(received[m]) /\ Len(received[m]) \in Nat
    BY <2>1, <1>t
  <2>3. QED
    BY <1>1, <2>1, <2>2 DEF Sourced
<1>4. received'[m] = received[m] \/ \E answer \in written : Receive(m, answer)
  <2>1. received' = received \/ \E n \in Message : \E answer \in written : Receive(n, answer)
    BY DEF Next, Step, Acquire, Transmit, AttemptFails, Retry, Interrupted, Stop, Release,
           Report, Deadline, vars, batch, history
  <2>2. ASSUME NEW n \in Message, n # m, NEW answer \in written, Receive(n, answer)
        PROVE  received'[m] = received[m]
    BY <2>2 DEF Receive, Typed, TypeOK
  <2>3. QED
    BY <2>1, <2>2
<1>5. QED
  BY <1>2, <1>3, <1>4

(* Two executions of a message are two attempts. *)
LEMMA ExecutionsApart ==
  ASSUME Inv, NEW m \in Message
  PROVE  /\ \A i \in Executions(m) : requests[i].attempt \in 1..attempt[m]
         /\ \A i, j \in Executions(m) : requests[i].attempt = requests[j].attempt => i = j
<1>1. /\ requests \in Seq(Request) /\ attempt[m] \in Nat
      /\ \A i, j \in DOMAIN requests : requests[i] = requests[j] => i = j
      /\ \A i \in DOMAIN requests : Begun(requests[i])
  BY DEF Inv, Typed, TypeOK, ServerTypeOK, Issued
<1>2. \A i \in DOMAIN requests : requests[i] \in Request
  BY <1>1
<1>3. \A i \in Executions(m) : i \in DOMAIN requests /\ requests[i].message = m
  BY DEF Executions
<1>4. \A i \in Executions(m) : requests[i].attempt \in 1..attempt[m]
  BY <1>1, <1>2, <1>3 DEF Begun, Request
<1>5. \A i, j \in Executions(m) : requests[i].attempt = requests[j].attempt => i = j
  BY <1>1, <1>2, <1>3 DEF Request
<1>6. QED
  BY <1>4, <1>5

LEMMA Bounded ==
  ASSUME Inv, NEW m \in Message
  PROVE  IsFiniteSet(Executions(m)) /\ Cardinality(Executions(m)) <= MaxRetries + 1
<1> DEFINE f == [i \in Executions(m) |-> requests[i].attempt]
<1>1. attempt[m] \in 0..(MaxRetries + 1)
  BY DEF Inv, Typed, TypeOK
<1>2. f \in Injection(Executions(m), 1..(MaxRetries + 1))
  BY <1>1, ExecutionsApart DEF Injection, IsInjective
<1>3. IsFiniteSet(1..(MaxRetries + 1)) /\ Cardinality(1..(MaxRetries + 1)) = MaxRetries + 1
  <2>1. /\ IsFiniteSet(1..(MaxRetries + 1))
        /\ Cardinality(1..(MaxRetries + 1)) =
             IF 1 > MaxRetries + 1 THEN 0 ELSE (MaxRetries + 1) - 1 + 1
    <3>1. 1 \in Int /\ MaxRetries + 1 \in Int
      OBVIOUS
    <3>2. QED
      BY <3>1, FS_Interval, Zenon
  <2>2. QED
    BY <2>1
<1>4. QED
  BY <1>2, <1>3, FS_Injection

(* Of two executions the earlier attempt was not answered: an answer to it *)
(* would have been a success, and the call would have stopped there.       *)
LEMMA AnsweredIsLast ==
  ASSUME Inv, NEW m \in Message, Heard(m), Sourced(m), NEW i \in Executions(m),
         requests[i].attempt # attempt[m]
  PROVE  requests[i].attempt \in Unanswered(m)
<1>1. SUFFICES ASSUME NEW k \in DOMAIN received[m],
                      received[m][k].request.attempt = requests[i].attempt
               PROVE  FALSE
  BY ExecutionsApart DEF Unanswered
<1>2. PICK j \in DOMAIN requests : AnswerTo(received[m][k], j)
  BY DEF Sourced, Inv, Served
<1>3. requests[j] = requests[i]
  <2>1. requests \in Seq(Request) /\ i \in DOMAIN requests /\ requests[i].message = m
    BY DEF Executions, Inv, Typed, TypeOK, ServerTypeOK
  <2>2. requests[j].message = m /\ requests[j].attempt = requests[i].attempt
    BY <1>1, <1>2 DEF Sourced, AnswerTo
  <2>3. requests[i] \in Request /\ requests[j] \in Request
    BY <2>1
  <2>4. QED
    BY <2>1, <2>2, <2>3 DEF Request
<1>4. j = i
  BY <1>3 DEF Inv, Issued, Executions
<1>5. received[m][k].status = OK
  <2>1. ~(i <= Len(planned))
    <3>1. i > Len(planned) /\ planned \in Seq(400..599) /\ requests \in Seq(Request)
          /\ i \in DOMAIN requests
      BY DEF Executions, Inv, Typed, TypeOK, ServerTypeOK
    <3>2. QED
      BY <3>1
  <2>2. QED
    BY <1>2, <1>4, <2>1 DEF AnswerTo, Due
<1>6. QED
  BY <1>1, <1>5 DEF Heard

(* However long requests linger, a message is executed at most once per    *)
(* attempt, and again only after an attempt whose answer was lost (Send).  *)
THEOREM ExecutionsAlwaysBounded == Spec => []ExecutionsBounded
<1>1. Inv /\ Holds /\ (\A m \in Message : Sourced(m)) /\ [Next]_vars
        => (\A m \in Message : Sourced(m))'
  BY SourcedStep DEF Inv
<1>2. Inv /\ Holds /\ (\A m \in Message : Sourced(m)) => ExecutionsBounded
  <2> SUFFICES ASSUME Inv, Holds, NEW m \in Message, Sourced(m)
               PROVE  /\ Cardinality(Executions(m)) <= MaxRetries + 1
                      /\ Cardinality(Executions(m)) > 1 =>
                           Unanswered(m) \ {attempt[m]} # {}
    BY DEF ExecutionsBounded
  <2>1. ASSUME Cardinality(Executions(m)) > 1
        PROVE  \E i, j \in Executions(m) : i # j
    <3>1. SUFFICES ASSUME \A i, j \in Executions(m) : i = j PROVE FALSE
      OBVIOUS
    <3>2. Executions(m) # {}
      <4>1. Cardinality({}) = 0
        BY FS_EmptySet, Zenon
      <4>2. ASSUME Executions(m) = {} PROVE Cardinality(Executions(m)) = 0
        BY <4>1, <4>2, Zenon
      <4>3. QED
        BY <2>1, <4>2
    <3>3. PICK i : Executions(m) = {i}
      <4>1. PICK j \in Executions(m) : TRUE
        BY <3>2, Zenon
      <4>2. Executions(m) = {j}
        BY <3>1, <4>1, Zenon
      <4>3. QED
        BY <4>2, Zenon
    <3>4. Cardinality({i}) = 1
      BY FS_Singleton, Zenon
    <3>5. QED
      BY <2>1, <3>3, <3>4
  <2>2. ASSUME Cardinality(Executions(m)) > 1
        PROVE  Unanswered(m) \ {attempt[m]} # {}
    <3>1. PICK i, j \in Executions(m) : i # j
      BY <2>1, <2>2
    <3>2. requests[i].attempt # attempt[m] \/ requests[j].attempt # attempt[m]
      BY <3>1, ExecutionsApart
    <3>3. QED
      BY <3>2, AnsweredIsLast DEF Holds
  <2>3. QED
    BY <2>2, Bounded
<1>3. QED
  BY <1>1, <1>2, SourcedInit, InvAlways, HoldsAlways, PTL DEF Spec

(***************************************************************************)
(* Counting the failures.  An answered attempt that was followed by        *)
(* another had a status to retry; one that was not, and has none, is what  *)
(* its message ended with.                                                 *)
(***************************************************************************)
EndOf(status) == IF status = OK THEN "ok" ELSE "api"

Followed(m) ==
  \A i \in DOMAIN received[m] :
    LET status == received[m][i].status
        n      == received[m][i].request.attempt
    IN  /\ n <= attempt[m]
        /\ n < attempt[m] => status \in Retried
        /\ n = attempt[m] =>
             /\ pc[m] \in {"returned", "leaving", "done"}
             /\ pc[m] = "returned" => resp[m].status = status
             /\ pc[m] \in {"leaving", "done"} /\ status \notin Retried
                  => results[m].kind = EndOf(status)

(* What run counts is what there is: a result that is counted stays.       *)
FailedMessages == {m \in Message : results[m].kind \in {"api", "transport"}}

Counted ==
  failed # -1 => /\ \A m \in Message : pc[m] = "done"
                 /\ failed = Cardinality(FailedMessages)

Ledger == Counted /\ \A m \in Message : Followed(m)

LEMMA LedgerInit == Init => Ledger
BY DEF Init, Ledger, Counted, Followed

LEMMA NoStatus == 0 \notin Statuses
BY DEF Statuses

LEMMA FollowedStep ==
  ASSUME Typed, [Next]_vars, NEW m \in Message, Sourced(m), Followed(m)
  PROVE  Followed(m)'
<1>t. /\ pc \in [Message -> Places]
      /\ attempt \in [Message -> 0..(MaxRetries + 1)]
      /\ resp \in [Message -> [status : Statuses \cup {0}, id : Nat]]
      /\ results \in [Message -> ResultType]
      /\ received \in [Message -> Seq(AnswerType)]
      /\ written \subseteq AnswerType
  BY DEF Typed, TypeOK, ServerTypeOK
<1>r. /\ DOMAIN received[m] = 1..Len(received[m]) /\ Len(received[m]) \in Nat
      /\ \A i \in DOMAIN received[m] : /\ received[m][i].status \in Statuses
                                       /\ received[m][i].request.attempt \in Nat
  <2>1. \A answer \in AnswerType : answer.status \in Statuses /\ answer.request.attempt \in Nat
    BY DEF AnswerType, Request
  <2>2. received[m] \in Seq(AnswerType)
    BY <1>t
  <2>3. QED
    BY <2>1, <2>2
(* Nothing of the call changes but where it is: it may go on to its end.   *)
<1>k. ASSUME received'[m] = received[m], attempt'[m] = attempt[m], resp'[m] = resp[m],
             results'[m] = results[m],
             pc'[m] = pc[m] \/ (pc[m] = "leaving" /\ pc'[m] = "done")
                            \/ pc[m] \in {"ready", "dialing", "waiting"}
      PROVE  Followed(m)'
  BY <1>k DEF Followed
(* A new attempt begins: the last one, if it was answered, is retried. *)
<1>b. ASSUME received'[m] = received[m], attempt'[m] > attempt[m], attempt'[m] \in Nat,
             \A i \in DOMAIN received[m] :
               received[m][i].request.attempt = attempt[m]
                 => received[m][i].status \in Retried
      PROVE  Followed(m)'
  <2>1. attempt[m] \in Nat
    BY <1>t
  <2>2. ASSUME NEW i \in DOMAIN received[m]
        PROVE  /\ received[m][i].request.attempt < attempt'[m]
               /\ received[m][i].status \in Retried
    BY <1>b, <1>r, <2>1, <2>2 DEF Followed
  <2>3. QED
    BY <1>b, <1>r, <2>2 DEF Followed
(* Only a status to retry, or none, lets MayRetry through. *)
<1>m. ASSUME pc[m] = "returned", MayRetry(m), NEW i \in DOMAIN received[m],
             received[m][i].request.attempt = attempt[m]
      PROVE  received[m][i].status \in Retried
  <2>1. resp[m].status = received[m][i].status
    BY <1>m DEF Followed
  <2>2. received[m][i].status # 0
    BY <1>r, NoStatus
  <2>3. QED
    BY <1>m, <2>1, <2>2 DEF MayRetry, NoAnswer
<1>1. ASSUME NEW n \in Message, Acquire(n) PROVE Followed(m)'
  <2>1. CASE n # m
    BY <1>1, <2>1, <1>k, <1>t DEF Acquire, Begin, Goto, history
  <2>2. CASE n = m
    <3>1. /\ pc[m] = "ready" /\ attempt'[m] = 1 /\ received' = received
      BY <1>1, <2>2, <1>t DEF Acquire, Begin, history
    <3>2. attempt[m] = 0
      BY <3>1 DEF Typed
    <3>3. QED
      BY <3>1, <3>2, <1>b DEF Followed
  <2>3. QED
    BY <2>1, <2>2
<1>2. ASSUME NEW n \in Message, Transmit(n) PROVE Followed(m)'
  BY <1>2, <1>k, <1>t DEF Transmit, Goto
<1>3. ASSUME NEW n \in Message, NEW answer \in written, Receive(n, answer) PROVE Followed(m)'
  <2>1. CASE n # m
    BY <1>3, <2>1, <1>k, <1>t DEF Receive, Goto
  <2>2. CASE n = m
    <3>1. /\ received'[m] = Append(received[m], answer) /\ attempt' = attempt
          /\ pc[m] = "waiting" /\ pc'[m] = "returned"
          /\ resp'[m].status = answer.status /\ answer.request.attempt = attempt[m]
      BY <1>3, <2>2, <1>t DEF Receive, Goto
    <3>2. /\ DOMAIN received'[m] = 1..(Len(received[m]) + 1)
          /\ \A i \in DOMAIN received[m] : received'[m][i] = received[m][i]
          /\ received'[m][Len(received[m]) + 1] = answer
      BY <3>1, <1>r, <1>t
    <3>3. ASSUME NEW i \in DOMAIN received[m]
          PROVE  received[m][i].request.attempt < attempt[m]
      BY <3>1, <1>r, <1>t DEF Followed
    <3>4. ASSUME NEW i \in DOMAIN received'[m], i \in DOMAIN received[m]
          PROVE  /\ received'[m][i].request.attempt < attempt[m]
                 /\ received'[m][i].status \in Retried
      BY <3>2, <3>3, <3>4 DEF Followed
    <3>5. attempt[m] \in Nat
      BY <1>t
    <3>6. ASSUME NEW i \in DOMAIN received'[m]
          PROVE  \/ received'[m][i] = answer
                 \/ /\ received'[m][i].request.attempt < attempt[m]
                    /\ received'[m][i].status \in Retried
      BY <3>2, <3>4, <1>r
    <3>7. \A i \in DOMAIN received[m] : received[m][i].request.attempt \in Nat
      BY <1>r
    <3>8. QED
      BY <3>1, <3>2, <3>5, <3>6, <3>7 DEF Followed
  <2>3. QED
    BY <2>1, <2>2
<1>4. ASSUME NEW n \in Message, AttemptFails(n) PROVE Followed(m)'
  BY <1>4, <1>k, <1>t DEF AttemptFails, Goto, history
<1>5. ASSUME NEW n \in Message, Retry(n) PROVE Followed(m)'
  <2>1. CASE n # m
    BY <1>5, <2>1, <1>k, <1>t DEF Retry, Begin, Goto, history
  <2>2. CASE n = m
    <3>1. /\ pc[m] = "returned" /\ attempt'[m] = attempt[m] + 1 /\ received' = received
          /\ attempt[m] \in Nat /\ MayRetry(m)
      BY <1>5, <2>2, <1>t DEF Retry, Begin, history
    <3>2. QED
      BY <3>1, <1>m, <1>b
  <2>3. QED
    BY <2>1, <2>2
<1>6. ASSUME NEW n \in Message, Interrupted(n) PROVE Followed(m)'
  <2>1. CASE n # m
    BY <1>6, <2>1, <1>k, <1>t DEF Interrupted, Finish, Goto, history
  <2>2. CASE n = m
    <3>1. /\ pc[m] = "returned" /\ pc'[m] = "leaving" /\ attempt' = attempt
          /\ received' = received /\ MayRetry(m)
      BY <1>6, <2>2, <1>t DEF Interrupted, Finish, Goto, history
    <3>2. QED
      BY <3>1, <1>m DEF Followed
  <2>3. QED
    BY <2>1, <2>2
<1>7. ASSUME NEW n \in Message, Stop(n) PROVE Followed(m)'
  <2>1. CASE n # m
    BY <1>7, <2>1, <1>k, <1>t DEF Stop, Finish, Goto, history
  <2>2. CASE n = m
    <3>1. /\ pc[m] = "returned" /\ pc'[m] = "leaving" /\ attempt' = attempt
          /\ received' = received /\ results'[m].kind = Outcome(m, resp[m]).kind
      BY <1>7, <2>2, <1>t DEF Stop, Finish, Goto, history
    <3>2. ASSUME NEW i \in DOMAIN received[m], received[m][i].request.attempt = attempt[m]
          PROVE  Outcome(m, resp[m]).kind = EndOf(received[m][i].status)
      <4>1. resp[m].status = received[m][i].status
        BY <3>1, <3>2 DEF Followed
      <4>2. received[m][i].status # 0
        BY <1>r, NoStatus
      <4>3. QED
        BY <4>1, <4>2 DEF Outcome, NoAnswer, EndOf
    <3>3. QED
      BY <3>1, <3>2 DEF Followed
  <2>3. QED
    BY <2>1, <2>2
<1>8. ASSUME NEW n \in Message, Release(n) PROVE Followed(m)'
  BY <1>8, <1>k, <1>t DEF Release, Goto, history
<1>9. CASE Report \/ Deadline \/ UNCHANGED batch
  BY <1>9, <1>k DEF Report, Deadline, batch, history
<1>10. QED
  BY <1>1, <1>2, <1>3, <1>4, <1>5, <1>6, <1>7, <1>8, <1>9 DEF Next, Step, vars

(* Once run has counted, no goroutine is left that could change a result.  *)
LEMMA CountedStep == Typed /\ Counted /\ [Next]_vars => Counted'
<1> SUFFICES ASSUME Typed, Counted, [Next]_vars, failed' # -1
             PROVE  /\ \A m \in Message : pc'[m] = "done"
                    /\ failed' = Cardinality(FailedMessages')
  BY DEF Counted
<1>1. CASE Report
  BY <1>1 DEF Report, FailedMessages
<1>2. CASE failed' = failed /\ pc' = pc /\ results' = results
  BY <1>2 DEF Counted, FailedMessages
<1>3. ASSUME NEW m \in Message, Step(m) PROVE FALSE
  <2>1. failed' = failed /\ pc[m] # "done"
    BY <1>3 DEF Step, Acquire, Transmit, AttemptFails, Receive, Retry, Interrupted, Stop, Release
  <2>2. QED
    BY <2>1 DEF Counted
<1>4. CASE Deadline \/ UNCHANGED batch
  BY <1>2, <1>4 DEF Deadline, batch
<1>5. QED
  BY <1>1, <1>3, <1>4 DEF Next, vars

LEMMA IntervalSize ==
  ASSUME NEW n \in Nat
  PROVE  IsFiniteSet(1..n) /\ Cardinality(1..n) = n
<1>1. /\ IsFiniteSet(1..n)
      /\ Cardinality(1..n) = IF 1 > n THEN 0 ELSE n - 1 + 1
  <2>1. 1 \in Int /\ n \in Int
    OBVIOUS
  <2>2. QED
    BY <2>1, FS_Interval, Zenon
<1>2. QED
  BY <1>1

(* A message all of whose attempts were answered, with no status to retry  *)
(* among those there are, was sent once, and ended as that was answered.   *)
LEMMA SentOnce ==
  ASSUME Inv, NEW m \in Message, Sourced(m), Followed(m), pc[m] = "done",
         Unanswered(m) = {}, \A i \in DOMAIN planned : planned[i] \notin Retried
  PROVE  /\ attempt[m] = 1
         /\ \E i \in DOMAIN requests :
              /\ requests[i] = [message |-> m, attempt |-> 1]
              /\ results[m].kind = EndOf(Due(i))
<1>t. /\ attempt[m] \in Nat /\ attempt[m] >= 1
      /\ requests \in Seq(Request) /\ planned \in Seq(400..599)
      /\ DOMAIN requests = 1..Len(requests)
      /\ received[m] \in Seq(AnswerType)
  BY DEF Inv, Typed, TypeOK, ServerTypeOK
<1>1. PICK k \in DOMAIN received[m] : received[m][k].request.attempt = 1
  BY <1>t DEF Unanswered
<1>2. PICK i \in DOMAIN requests : AnswerTo(received[m][k], i)
  BY DEF Sourced, Inv, Served
<1>3. Due(i) \notin Retried
  <2>1. i \in Nat /\ i >= 1
    BY <1>t
  <2>2. i <= Len(planned) => i \in DOMAIN planned
    BY <1>t, <2>1
  <2>3. QED
    BY <2>2, NoSuccessRetried DEF Due
<1>4. received[m][k].status = Due(i)
  BY <1>2 DEF AnswerTo
<1>5. attempt[m] = 1
  <2>1. ~(1 < attempt[m])
    BY <1>1, <1>3, <1>4 DEF Followed
  <2>2. QED
    BY <1>t, <2>1
<1>6. results[m].kind = EndOf(Due(i))
  BY <1>1, <1>3, <1>4, <1>5 DEF Followed
<1>7. requests[i] = [message |-> m, attempt |-> 1]
  <2>1. requests[i] \in Request
    BY <1>t
  <2>2. requests[i].message = m /\ requests[i].attempt = 1
    BY <1>1, <1>2 DEF AnswerTo, Sourced
  <2>3. QED
    BY <2>1, <2>2 DEF Request
<1>8. QED
  BY <1>5, <1>6, <1>7

LEMMA Element ==
  ASSUME NEW S, NEW seq \in Seq(S), NEW i \in DOMAIN seq
  PROVE  seq[i] \in S
OBVIOUS

LEMMA FailureElement ==
  ASSUME NEW seq \in Seq(400..599), NEW i \in DOMAIN seq
  PROVE  seq[i] # OK
<1>1. \A status \in 400..599 : status # OK
  OBVIOUS
<1> DEFINE Failing == 400..599
<1> HIDE DEF Failing
<1>2. seq[i] \in Failing
  <2>1. seq \in Seq(Failing)
    BY DEF Failing
  <2>2. QED
    BY <2>1, Element
<1>3. QED
  BY <1>1, <1>2, Zenon DEF Failing

LEMMA DueFailure ==
  ASSUME Typed, NEW i \in Nat, i >= 1
  PROVE  Due(i) = OK <=> ~(i <= Len(planned))
<1>1. planned \in Seq(400..599)
  BY DEF Typed, TypeOK, ServerTypeOK
<1>2. CASE i <= Len(planned)
  <2>1. i \in DOMAIN planned
    BY <1>1, <1>2
  <2>2. planned[i] # OK
    BY <1>1, <2>1, FailureElement
  <2>3. QED
    BY <1>2, <2>2 DEF Due
<1>3. CASE ~(i <= Len(planned))
  BY <1>3 DEF Due
<1>4. QED
  BY <1>2, <1>3

(* Then the log is the messages in some order, each once: the first places *)
(* of it are due a failure, and those messages are the ones that failed.   *)
LEMMA CountIs ==
  ASSUME Inv, \A m \in Message : Sourced(m), Ledger, failed # -1,
         \A m \in Message : Unanswered(m) = {},
         \A i \in DOMAIN planned : planned[i] \notin Retried
  PROVE  failed = IF Len(planned) < Cardinality(Message)
                  THEN Len(planned) ELSE Cardinality(Message)
<1> DEFINE Log  == 1..Len(requests)
           Sender(i) == requests[i].message
           From(places) == {Sender(i) : i \in places}
<1>t. /\ requests \in Seq(Request) /\ planned \in Seq(400..599)
      /\ Len(requests) \in Nat /\ Len(planned) \in Nat
      /\ DOMAIN requests = Log
  BY DEF Inv, Typed, TypeOK, ServerTypeOK
<1>1. ASSUME NEW m \in Message
      PROVE  /\ attempt[m] = 1
             /\ \E i \in Log : /\ requests[i] = [message |-> m, attempt |-> 1]
                               /\ results[m].kind = EndOf(Due(i))
  BY <1>t, SentOnce DEF Ledger, Counted
<1>2. ASSUME NEW i \in Log
      PROVE  /\ Sender(i) \in Message
             /\ requests[i] = [message |-> Sender(i), attempt |-> 1]
  <2>1. requests[i] \in Request /\ Begun(requests[i])
    BY <1>t DEF Inv, Issued
  <2>2. requests[i].attempt = 1
    <3>1. /\ requests[i].attempt \in Nat /\ requests[i].attempt >= 1
          /\ requests[i].attempt <= attempt[requests[i].message]
          /\ requests[i].message \in Message
      BY <2>1 DEF Begun, Request
    <3>2. attempt[requests[i].message] = 1
      BY <3>1, <1>1
    <3>3. QED
      BY <3>1, <3>2
  <2>3. QED
    BY <2>1, <2>2 DEF Request
<1>3. ASSUME NEW i \in Log, NEW j \in Log, Sender(i) = Sender(j) PROVE i = j
  BY <1>t, <1>2, <1>3 DEF Inv, Issued
<1>4. ASSUME NEW i \in Log PROVE results[Sender(i)].kind = EndOf(Due(i))
  <2>1. PICK j \in Log : /\ requests[j] = [message |-> Sender(i), attempt |-> 1]
                         /\ results[Sender(i)].kind = EndOf(Due(j))
    BY <1>1, <1>2
  <2>2. j = i
    BY <2>1, <1>3
  <2>3. QED
    BY <2>1, <2>2
<1> HIDE DEF Sender
(* As many messages as places they were sent from. *)
<1>5. ASSUME NEW n \in Nat, n <= Len(requests)
      PROVE  Cardinality(From(1..n)) = n
  <2> DEFINE f == [i \in 1..n |-> Sender(i)]
  <2>1. \A i \in 1..n : i \in Log
    BY <1>t, <1>5
  <2>2. f \in Bijection(1..n, From(1..n))
    BY <2>1, <1>3 DEF Bijection, Injection, Surjection, IsInjective
  <2>3. ExistsBijection(1..n, From(1..n))
    BY <2>2 DEF ExistsBijection
  <2>4. QED
    <3> HIDE DEF From
    <3> QED
      BY <2>3, IntervalSize, FS_Bijection
<1>6. From(Log) = Message
  <2>1. ASSUME NEW m \in Message PROVE m \in From(Log)
    <3>1. PICK i \in Log : requests[i] = [message |-> m, attempt |-> 1]
      BY <1>1
    <3>2. Sender(i) = m
      BY <3>1 DEF Sender
    <3>3. QED
      BY <3>1, <3>2
  <2>2. \A i \in Log : Sender(i) \in Message
    BY <1>2
  <2>3. QED
    <3>1. From(Log) \subseteq Message
      BY <2>2
    <3>2. QED
      <4> HIDE DEF Log, From
      <4> QED
        BY <2>1, <3>1
<1>7. Cardinality(Message) = Len(requests)
  BY <1>t, <1>5, <1>6
<1>8. ASSUME NEW i \in Log
      PROVE  results[Sender(i)].kind \in {"api", "transport"} <=> i <= Len(planned)
  <2>1. i \in Nat /\ i >= 1
    BY <1>t
  <2>2. Due(i) = OK <=> ~(i <= Len(planned))
    BY <2>1, DueFailure DEF Inv
  <2>3. QED
    BY <2>2, <1>4 DEF EndOf
<1>9. CASE Len(planned) < Len(requests)
  <2>1. FailedMessages = From(1..Len(planned))
    <3>1. ASSUME NEW m \in FailedMessages PROVE m \in From(1..Len(planned))
      <4>1. PICK i \in Log : m = Sender(i)
        BY <1>6 DEF FailedMessages
      <4>2. i \in 1..Len(planned)
        BY <4>1, <1>8, <1>t DEF FailedMessages
      <4>3. QED
        BY <4>1, <4>2
    <3>2. ASSUME NEW i \in 1..Len(planned) PROVE Sender(i) \in FailedMessages
      <4>1. i \in Log /\ i <= Len(planned)
        BY <1>9, <1>t
      <4>2. QED
        BY <4>1, <1>2, <1>8 DEF FailedMessages
    <3>3. QED
      BY <3>1, <3>2
  <2>2. QED
    BY <2>1, <1>5, <1>7, <1>9, <1>t DEF Ledger, Counted
<1>10. CASE ~(Len(planned) < Len(requests))
  <2>1. ASSUME NEW m \in Message PROVE m \in FailedMessages
    <3>1. PICK i \in Log : m = Sender(i)
      BY <1>6
    <3>2. i <= Len(planned)
      BY <1>10, <1>t
    <3>3. QED
      BY <3>1, <3>2, <1>8 DEF FailedMessages
  <2>2. FailedMessages = Message
    BY <2>1 DEF FailedMessages
  <2>3. QED
    BY <2>2, <1>7, <1>10 DEF Ledger, Counted
<1>11. QED
  BY <1>9, <1>10

(* When every attempt is answered and no injected failure is one to retry, *)
(* as many messages fail as failures were injected (run of batch).         *)
THEOREM FailsAsInjected == Spec => []FailedAsInjected
<1> DEFINE AllSourced == \A m \in Message : Sourced(m)
<1>1. Init => AllSourced /\ Ledger
  BY SourcedInit, LedgerInit
<1>2. Inv /\ AllSourced /\ Ledger /\ [Next]_vars => AllSourced' /\ Ledger'
  BY SourcedStep, FollowedStep, CountedStep DEF Inv, Ledger
<1>3. Inv /\ AllSourced /\ Ledger => FailedAsInjected
  <2>1. \A i \in DOMAIN planned : planned[i] \notin RetryStatuses => planned[i] \notin Retried
    BY NoSuccessRetried
  <2>2. QED
    BY <2>1, CountIs, Zenon DEF FailedAsInjected
<1>4. QED
  BY <1>1, <1>2, <1>3, InvAlways, PTL DEF Spec
=============================================================================
