------------------------------- MODULE Batch -------------------------------
(***************************************************************************)
(* A batch of calls through one shared client (src/examples/batch/main.go) *)
(* against the fake server.  A goroutine per message waits for a slot,     *)
(* makes its call, stores its result and gives the slot back.              *)
(*                                                                         *)
(* A call is what Send.tla makes of it, without the clock: which attempts  *)
(* fail, when the deadline of the batch passes and which retries the       *)
(* budget or the server's wish stops is left open.  An attempt that fails  *)
(* after its request was sent does not take it back: the server may still  *)
(* execute it, before or after the next one.                               *)
(***************************************************************************)
EXTENDS FakeAPI

CONSTANTS
  Capacities,      \* what the number of slots, concurrency, can be
  MaxRetries,      \* of the client's RetryPolicy
  RetryStatuses    \* of the client's RetryPolicy

ASSUME BatchAssumption ==
  /\ Message \subseteq Nat /\ IsFiniteSet(Message)
  /\ Capacities \subseteq Nat \ {0}
  /\ MaxRetries \in Nat

NoAnswer == [status |-> 0, id |-> 0]
NoResult == [kind |-> "none", message |-> 0, id |-> 0]

VARIABLES
  deadline,   \* has the deadline of the batch passed?
  capacity,   \* how many values the channel of slots has room for
  slots,      \* how many it holds
  pc,         \* where the goroutine of each message is
  attempt,    \* the attempt of each call
  resp,       \* what the attempt ended with
  results,    \* results, in the order of the messages
  failed,     \* what run counts in the end; -1 before
  (* history, read only by properties *)
  wire,       \* the retry ordinals each call sent
  received    \* the answers each call received

batch   == <<deadline, capacity, slots, pc, attempt, resp, results, failed, wire, received>>
vars    == <<sent, server, batch>>
room    == <<capacity, slots>>
history == <<wire, received>>

InCall == {"dialing", "waiting", "returned"}
Places == {"ready", "leaving", "done"} \cup InCall

Init ==
  /\ ServerInit
  /\ deadline = FALSE
  /\ capacity \in Capacities
  /\ slots = 0
  /\ pc = [m \in Message |-> "ready"]
  /\ attempt = [m \in Message |-> 0]
  /\ resp = [m \in Message |-> NoAnswer]
  /\ results = [m \in Message |-> NoResult]
  /\ failed = -1
  /\ wire = [m \in Message |-> <<>>]
  /\ received = [m \in Message |-> <<>>]

Goto(m, place) == pc' = [pc EXCEPT ![m] = place]

Begin(m, n) ==
  /\ Goto(m, "dialing")
  /\ attempt' = [attempt EXCEPT ![m] = n]
  /\ resp' = [resp EXCEPT ![m] = NoAnswer]

(* slots <- struct{}{}: waits for room in the channel, whatever the context. *)
Acquire(m) ==
  /\ pc[m] = "ready"
  /\ slots < capacity
  /\ slots' = slots + 1
  /\ Begin(m, 1)
  /\ UNCHANGED <<sent, server, deadline, capacity, results, failed, history>>

(* An attempt: nothing is sent once the context is done. *)
Transmit(m) ==
  /\ pc[m] = "dialing"
  /\ ~deadline
  /\ Goto(m, "waiting")
  /\ sent' = sent \cup {[message |-> m, attempt |-> attempt[m]]}
  /\ wire' = [wire EXCEPT ![m] = Append(@, attempt[m] - 1)]
  /\ UNCHANGED <<server, deadline, room, attempt, resp, results, failed, received>>

Receive(m, answer) ==
  /\ pc[m] = "waiting"
  /\ answer.request = [message |-> m, attempt |-> attempt[m]]
  /\ Goto(m, "returned")
  /\ resp' = [resp EXCEPT ![m] = [status |-> answer.status, id |-> answer.id]]
  /\ received' = [received EXCEPT ![m] = Append(@, answer)]
  /\ UNCHANGED <<sent, server, deadline, room, attempt, results, failed, wire>>

(* The connection fails, the attempt's own deadline passes or the batch's. *)
AttemptFails(m) ==
  /\ pc[m] \in {"dialing", "waiting"}
  /\ Goto(m, "returned")
  /\ UNCHANGED <<sent, server, deadline, room, attempt, resp, results, failed, history>>

(* The statuses that are retried: no success, whatever the policy names.   *)
Retried == RetryStatuses \ (200..299)

(* Mutants of MayRetry: the policy alone decides, also of a success; and   *)
(* the limit is one too high.                                              *)
MayRetry_Success(m) ==
  /\ attempt[m] <= MaxRetries
  /\ resp[m] = NoAnswer \/ resp[m].status \in RetryStatuses
MayRetry_OneMore(m) ==
  /\ attempt[m] <= MaxRetries + 1
  /\ resp[m] = NoAnswer \/ resp[m].status \in Retried

MayRetry(m) ==
  /\ attempt[m] <= MaxRetries
  /\ resp[m] = NoAnswer \/ resp[m].status \in Retried

GivenUp(m) == resp[m] = NoAnswer /\ deadline

Outcome(m, answer) ==
  [kind    |-> IF answer = NoAnswer THEN "transport"
               ELSE IF answer.status = OK THEN "ok" ELSE "api",
   message |-> m, id |-> answer.id]

(* Mutant of Finish: every goroutine writes at one index, left at the last.*)
Finish_SharedIndex(m, answer) ==
  /\ Goto(m, "leaving")
  /\ results' = [results EXCEPT ![Cardinality(Message)] = Outcome(m, answer)]

(* classify returns, and its result is stored at the message's own index. *)
Finish(m, answer) ==
  /\ Goto(m, "leaving")
  /\ results' = [results EXCEPT ![m] = Outcome(m, answer)]

(* The delay is slept out and the next attempt begins. *)
Retry(m) ==
  /\ pc[m] = "returned"
  /\ ~GivenUp(m)
  /\ MayRetry(m)
  /\ Begin(m, attempt[m] + 1)
  /\ UNCHANGED <<sent, server, deadline, room, results, failed, history>>

(* The deadline passes during the delay: the answer held is dropped. *)
Interrupted(m) ==
  /\ pc[m] = "returned"
  /\ MayRetry(m)
  /\ deadline
  /\ Finish(m, NoAnswer)
  /\ UNCHANGED <<sent, server, deadline, room, attempt, resp, failed, history>>

(* No retry: there is none left, the policy has none for this end, the     *)
(* context is done, or the budget or the server's wish forbids it.         *)
Stop(m) ==
  /\ pc[m] = "returned"
  /\ Finish(m, resp[m])
  /\ UNCHANGED <<sent, server, deadline, room, attempt, resp, failed, history>>

(* Mutant of Release: the slot is not given back. *)
Release_Not(m) ==
  /\ pc[m] = "leaving"
  /\ Goto(m, "done")
  /\ UNCHANGED <<sent, server, deadline, room, attempt, resp, results, failed, history>>

(* The deferred <-slots, then wg.Done. *)
Release(m) ==
  /\ pc[m] = "leaving"
  /\ slots > 0
  /\ slots' = slots - 1
  /\ Goto(m, "done")
  /\ UNCHANGED <<sent, server, deadline, capacity, attempt, resp, results, failed, history>>

(* wg.Wait returns, and run counts the results with an error. *)
Report ==
  /\ failed = -1
  /\ \A m \in Message : pc[m] = "done"
  /\ failed' = Cardinality({m \in Message : results[m].kind \in {"api", "transport"}})
  /\ UNCHANGED <<sent, server, deadline, room, pc, attempt, resp, results, history>>

(* context.WithTimeout: two minutes, or the caller's own context. *)
Deadline ==
  /\ ~deadline
  /\ failed = -1
  /\ deadline' = TRUE
  /\ UNCHANGED <<sent, server, room, pc, attempt, resp, results, failed, history>>

Step(m) ==
  \/ Acquire(m)
  \/ Transmit(m) \/ AttemptFails(m)
  \/ \E answer \in written : Receive(m, answer)
  \/ Retry(m) \/ Interrupted(m) \/ Stop(m)
  \/ Release(m)

Next ==
  \/ \E m \in Message : Step(m)
  \/ Report \/ Deadline
  \/ Serve /\ UNCHANGED batch

(***************************************************************************)
(* Fairness.  Goroutines are scheduled and the deadline of the batch       *)
(* passes; from then on an attempt ends.  Nothing is asked of the server   *)
(* or the network.                                                         *)
(***************************************************************************)
AttemptEnds(m) == deadline /\ AttemptFails(m)

Fairness ==
  /\ \A m \in Message :
       /\ WF_vars(Acquire(m)) /\ WF_vars(AttemptEnds(m))
       /\ WF_vars(Retry(m) \/ Interrupted(m) \/ Stop(m))
       /\ WF_vars(Release(m))
  /\ WF_vars(Report) /\ WF_vars(Deadline)

Spec     == Init /\ [][Next]_vars
FairSpec == Spec /\ Fairness

Ends       == {"none", "ok", "api", "transport"}
ResultType == [kind : Ends, message : Message \cup {0}, id : Nat]

(* The type invariant of a batch and its server: no more slots are taken   *)
(* than there are, no call begins an attempt beyond its retries.           *)
TypeOK ==
  /\ ServerTypeOK
  /\ deadline \in BOOLEAN
  /\ capacity \in Capacities /\ slots \in 0..capacity
  /\ pc \in [Message -> Places]
  /\ attempt \in [Message -> 0..(MaxRetries + 1)]
  /\ resp \in [Message -> [status : Statuses \cup {0}, id : Nat]]
  /\ results \in [Message -> ResultType]
  /\ failed \in -1..Cardinality(Message)
  /\ wire \in [Message -> Seq(Nat)]
  /\ received \in [Message -> Seq(AnswerType)]

(* A result is quoted with the ID of a request the server logged for that  *)
(* message, however late the requests of other attempts and of other       *)
(* messages were handled (handle, classify, run's results[i]).             *)
OwnResult ==
  \A m \in Message :
    /\ pc[m] \in {"leaving", "done"} => results[m].kind # "none"
    /\ results[m].kind # "none" => results[m].message = m
    /\ results[m].id # 0 => requests[results[m].id].message = m

(* A message the server was heard to classify is not sent again, although  *)
(* one it classified unheard may be: an answer that arrived is the result. *)
HeardOnce ==
  \A m \in Message :
    \A i \in DOMAIN received[m] : received[m][i].status = OK =>
      /\ i = Len(received[m])
      /\ received[m][i].request.attempt = attempt[m]
      /\ results[m].kind # "none" =>
           results[m].kind = "ok" /\ results[m].id = received[m][i].id

Executions(m) == {i \in DOMAIN requests : requests[i].message = m /\ i > Len(planned)}
Unanswered(m) ==
  {n \in 1..attempt[m] : \A i \in DOMAIN received[m] : received[m][i].request.attempt # n}

(* The server executes a message at most MaxRetries + 1 times, and a       *)
(* second time only if an attempt before the last one was not answered     *)
(* (Send repeats a POST that timed out).                                   *)
ExecutionsBounded ==
  \A m \in Message :
    /\ Cardinality(Executions(m)) <= MaxRetries + 1
    /\ Cardinality(Executions(m)) > 1 => Unanswered(m) \ {attempt[m]} # {}

(* Failures that are not retried cost one message each: when every attempt *)
(* is answered, as many messages fail as failures were injected, whichever *)
(* messages they are (batch/main_test.go, FailFirst).                      *)
FailedAsInjected ==
  /\ failed # -1 /\ (\A m \in Message : Unanswered(m) = {})
  /\ \A i \in DOMAIN planned : planned[i] \notin RetryStatuses
  => failed = IF Len(planned) < Cardinality(Message)
              THEN Len(planned) ELSE Cardinality(Message)

(* The batch ends although the server may be silent: no goroutine waits    *)
(* for a slot for ever.                                                    *)
Finishes == <>(failed # -1)

OneCall(m) ==
  INSTANCE Call WITH
    Allowances <- {MaxRetries},
    allowed    <- MaxRetries,
    requests   <- wire[m],
    answers    <- Len(received[m]),
    result     <- CASE pc[m] = "ready" -> "none"
                    [] pc[m] \in InCall -> "open"
                    [] OTHER -> results[m].kind

(* Each message is one call as Call.tla describes it: its requests carry   *)
(* growing retry ordinals, and it closes once, with its own result.        *)
EachIsACall ==
  /\ \A m \in Message : OneCall(m)!Init
  /\ [][\A m \in Message : OneCall(m)!Next \/ UNCHANGED OneCall(m)!vars]_vars
=============================================================================
