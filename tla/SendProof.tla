----------------------------- MODULE SendProof -----------------------------
(***************************************************************************)
(* Theorems about Send, for every policy, reply, timeout and clock bound   *)
(* its constants allow.                                                    *)
(***************************************************************************)
EXTENDS Send, RetryProof

USE DEF InAttempt, Computing, Places

(***************************************************************************)
(* The operators of RetryPolicy stay within the integers.                  *)
(***************************************************************************)
(* The delay a server asks for is an integer, whichever header gave it     *)
(* (parseRetryAfter).                                                      *)
LEMMA RequestedType ==
  ASSUME NEW ms \in HeaderValue, NEW seconds \in HeaderValue, NEW now \in Nat
  PROVE  /\ Requested(ms, seconds, now).ok \in BOOLEAN
         /\ Requested(ms, seconds, now).delay \in Int
<1>1. FloatToInt(ms.value) \in Int /\ FloatToInt(seconds.value) \in Int
  BY RetryAssumption DEF FloatToInt, HeaderValue, MinInt
<1>2. AtLeast(Saturated(seconds.value - now), 0) \in Int
  BY RetryAssumption DEF AtLeast, Saturated, HeaderValue, MinInt
<1>3. QED
  BY <1>1, <1>2 DEF Requested, Given, NotGiven

(* So is every delay the loop can sleep (delay, backoff). *)
LEMMA DelaysType ==
  ASSUME NEW p \in PolicyType, NEW n \in Nat \ {0}, NEW now \in Nat,
         NEW ms \in HeaderValue, NEW seconds \in HeaderValue, Valid(p)
  PROVE  Delays(p, n, ms, seconds, now) \subseteq Int
<1>1. Requested(ms, seconds, now).delay \in Int
  BY RequestedType
<1>2. Backoff(p, n) \subseteq Int
  <2>1. p.backoffMax \in Int
    BY RetryAssumption DEF PolicyType, Int64, MinInt
  <2>2. QED
    BY <2>1, BackoffBounds
<1>3. QED
  BY <1>1, <1>2 DEF Delays

LEMMA NoReplyType ==
  /\ Absent \in HeaderValue
  /\ \A reply \in ReplyType \cup {NoReply} :
       reply.ms \in HeaderValue /\ reply.seconds \in HeaderValue
  /\ \A reply \in ReplyType \cup {NoReply} : reply.size \in Nat
BY DEF NoReply, ReplyType, Absent, HeaderValue

LEMMA ReadType ==
  ASSUME NEW reply \in ReplyType, NEW n \in Nat
  PROVE  [reply EXCEPT !.read = n] \in ReplyType
BY DEF ReplyType

(***************************************************************************)
(* Type correctness.  TypeOK is not inductive by itself: a transmitted     *)
(* ordinal is attempt - 1, a body can be read only off a response, and the *)
(* backoff of a policy that was not accepted need not be a number.         *)
(***************************************************************************)
Typed ==
  /\ TypeOK
  /\ pc \notin {"idle", "done"} => attempt >= 1 /\ Valid(policy)
  /\ pc = "reading" => resp \in ReplyType

LEMMA TypedInit == Init => Typed
BY SendAssumption
   DEF Init, Typed, TypeOK, Pending, Kinds

LEMMA TypedStep == Typed /\ [Next]_vars => Typed'
<1> SUFFICES ASSUME Typed, [Next]_vars PROVE Typed'
  OBVIOUS
<1> USE SendAssumption DEF Typed, TypeOK
<1>1. CASE Begin
  <2>1. PICK override \in Policies \cup {Inherit}, callTimeout \in Timeouts :
          /\ policy' = IF override = Inherit THEN policy ELSE override
          /\ timeout' = IF callTimeout > 0 THEN callTimeout ELSE timeout
    BY <1>1 DEF Begin
  <2>2. policy' \in Policies /\ timeout' \in Timeouts
    BY <2>1
  <2>3. CASE Valid(policy')
    BY <1>1, <2>2, <2>3 DEF Begin, StartAttempt, caller, trying
  <2>4. CASE ~Valid(policy')
    <3>1. outcome' \in [kind : Kinds, attempts : Nat, retryAfter : Int]
      <4>1. Pending \in [kind : Kinds, attempts : Nat, retryAfter : Int]
        BY DEF Pending, Kinds
      <4>2. outcome' = [Pending EXCEPT !.kind = "invalid"]
        BY <1>1, <2>4 DEF Begin
      <4>3. QED
        BY <4>1, <4>2 DEF Kinds
    <3>2. QED
      BY <1>1, <2>2, <2>4, <3>1 DEF Begin, caller, trying
  <2>5. QED
    BY <2>3, <2>4
<1>2. CASE Transmit
  BY <1>2 DEF Transmit, caller, config, trying, waiting
<1>3. CASE HeadArrives
  BY <1>3 DEF HeadArrives, caller, config, trying, waiting, history
<1>4. CASE BodyArrives
  <2>1. Read(resp.size) \in Nat
    <3>1. cap \in Nat /\ resp.size \in Nat /\ MaxInt \in Nat
      BY RetryAssumption, NoReplyType
    <3>2. AtLeast(ReadLimit, 0) \in Nat
      BY <3>1 DEF AtLeast, ReadLimit
    <3>3. QED
      BY <3>1, <3>2 DEF Read, AtMost
  <2>2. resp' \in ReplyType
    <3>1. resp \in ReplyType /\ resp' = [resp EXCEPT !.read = Read(resp.size)]
      BY <1>4 DEF BodyArrives
    <3>2. QED
      BY <2>1, <3>1, ReadType
  <2>3. QED
    BY <1>4, <2>2 DEF BodyArrives, caller, config, trying, waiting
<1>5. CASE AttemptFails
  BY <1>5 DEF AttemptFails, caller, config, trying, waiting, history
<1>6. CASE GiveUp
  BY <1>6 DEF GiveUp, caller, config, trying, waiting, history
<1>7. CASE Stop
  BY <1>7 DEF Stop, caller, config, trying, waiting, history
<1>8. CASE DecideRetry
  BY <1>8 DEF DecideRetry, caller, config, trying, waiting, history
<1>9. CASE ChooseDelay
  <2>1. Valid(policy) /\ attempt \in Nat \ {0}
    BY <1>9 DEF ChooseDelay
  <2>2. Delays(policy, attempt, resp.ms, resp.seconds, clock) \subseteq Int
    BY <2>1, DelaysType, NoReplyType
  <2>3. QED
    BY <1>9, <2>2 DEF ChooseDelay, caller, config, trying, history
<1>10. CASE StopForBudget \/ PassBudget
  BY <1>10 DEF StopForBudget, PassBudget, caller, config, trying, waiting, history
<1>11. CASE StartSleep
  <2>1. AtLeast(delay, 0) \in Nat
    BY DEF AtLeast
  <2>2. QED
    BY <1>11, <2>1 DEF StartSleep, caller, config, trying, history
<1>12. CASE Wake
  BY <1>12 DEF Wake, StartAttempt, caller, config
<1>13. CASE Interrupted
  BY <1>13 DEF Interrupted, caller, config, trying, waiting, history
<1>14. CASE Conclude
  <2>1. Conclusion \in Kinds
    BY DEF Conclusion, Kinds
  <2>2. Asked(resp, clock).delay \in Int
    BY RequestedType, NoReplyType DEF Asked
  <2>3. outcome' \in [kind : Kinds, attempts : Nat, retryAfter : Int]
    BY <1>14, <2>1, <2>2 DEF Conclude
  <2>4. QED
    BY <1>14, <2>3 DEF Conclude, caller, config, trying, waiting, history
<1>15. CASE Cancel
  BY <1>15 DEF Cancel, config, trying, waiting, history
<1>16. CASE Tick
  BY <1>16 DEF Tick, caller, config, trying, waiting, history
<1>17. CASE UNCHANGED vars
  BY <1>17 DEF vars
<1>18. QED
  BY <1>1, <1>2, <1>3, <1>4, <1>5, <1>6, <1>7, <1>8, <1>9, <1>10, <1>11,
     <1>12, <1>13, <1>14, <1>15, <1>16, <1>17 DEF Next

(* Every state of a call is well typed (Send, attempt, do). *)
THEOREM TypeCorrect == Spec => []TypeOK
<1>1. Typed => TypeOK
  BY DEF Typed
<1>2. QED
  BY <1>1, TypedInit, TypedStep, PTL DEF Spec

(***************************************************************************)
(* Numbering.  The strengthening of OrdinalsOnWire: the attempts are       *)
(* counted from one to the limit, a retry is decided on only below it, and *)
(* what is on the wire was numbered by an attempt already begun.  The last *)
(* conjuncts tie the responses to the requests, for the refinement.        *)
(***************************************************************************)
Retrying == {"delaying", "checking", "parking", "sleeping"}

Numbering ==
  /\ pc = "idle" => attempt = 0 /\ wire = <<>> /\ outcome.kind = "none"
  /\ pc \notin {"idle", "done"} =>
       attempt \in 1..Limit /\ outcome.kind = "none"
  /\ pc \in Retrying => attempt < Limit
  /\ wire # <<>> => Valid(policy)
  /\ \A i \in 1..Len(wire) :
       /\ wire[i] < Limit /\ wire[i] < attempt
       /\ pc = "dialing" => wire[i] < attempt - 1
  /\ \A i, j \in 1..Len(wire) : i < j => wire[i] < wire[j]
  /\ Len(answered) <= Len(wire)
  /\ pc \in {"waiting", "reading"} => Len(answered) < Len(wire)
  /\ pc # "reading" /\ resp # NoReply => answered # <<>>

(* A count of attempts is never more than one above MaxRetries, also when  *)
(* the addition wraps.                                                     *)
LEMMA WrapBelow ==
  ASSUME NEW n \in Nat
  PROVE  Wrap(n) \in Int /\ Wrap(n) <= n
<1>1. \A x \in Nat, d \in Nat \ {0} : x % d \in Nat /\ x % d <= x
  OBVIOUS
<1>2. n + MaxInt + 1 \in Nat /\ 2 * (MaxInt + 1) \in Nat \ {0}
  BY RetryAssumption
<1>3. QED
  BY <1>1, <1>2, RetryAssumption DEF Wrap

LEMMA LimitBound ==
  ASSUME NEW p \in Policies, Valid(p)
  PROVE  /\ p.maxRetries \in Nat
         /\ AtLeast(Wrap(p.maxRetries + 1), 1) \in 1..(p.maxRetries + 1)
<1>1. p.maxRetries \in Nat
  BY SendAssumption DEF PolicyType, Int64, MinInt, Valid
<1>2. QED
  BY <1>1, WrapBelow DEF AtLeast

LEMMA NumberingInit == Init => Numbering
BY DEF Init, Numbering, Pending, Retrying

LEMMA NumberingStep ==
  Typed /\ Numbering /\ [Next]_vars => Numbering'
<1> SUFFICES ASSUME Typed, Numbering, [Next]_vars PROVE Numbering'
  OBVIOUS
<1> USE DEF Typed, TypeOK, Numbering, Retrying
<1>1. CASE Begin
  <2>1. wire = <<>> /\ wire' = <<>> /\ answered' = answered /\ resp' = resp
    BY <1>1 DEF Begin
  <2>2. CASE Valid(policy')
    <3>1. /\ pc' = "dialing" /\ attempt' = 1 /\ outcome' = outcome
      BY <1>1, <2>2 DEF Begin, StartAttempt
    <3>2. policy' \in Policies
      BY TypedStep
    <3>3. Limit' \in Int /\ Limit' >= 1
      BY <2>2, <3>2, LimitBound DEF Limit
    <3>4. Len(wire) = 0 /\ Len(wire') = 0
      BY <2>1
    <3>5. answered' = <<>> /\ resp' = NoReply
      BY <2>1, <3>4
    <3>6. attempt' \in 1..Limit' /\ outcome'.kind = "none"
      BY <1>1, <3>1, <3>3 DEF Begin
    <3>7. 1..Len(wire') = {}
      BY <3>4
    <3>8. QED
      BY <2>1, <2>2, <3>1, <3>4, <3>5, <3>6, <3>7
  <2>3. CASE ~Valid(policy')
    BY <1>1, <2>1, <2>3 DEF Begin
  <2>4. QED
    BY <2>2, <2>3
<1>2. CASE Transmit
  <2>1. /\ pc = "dialing" /\ pc' = "waiting"
        /\ wire' = Append(wire, attempt - 1)
        /\ Limit' = Limit /\ policy' = policy
        /\ UNCHANGED <<attempt, outcome, answered, resp>>
    BY <1>2 DEF Transmit, config, trying, Limit
  <2>2. /\ Len(wire') = Len(wire) + 1
        /\ \A i \in 1..Len(wire) : wire'[i] = wire[i]
        /\ wire'[Len(wire) + 1] = attempt - 1
    BY <2>1
  <2>3. \A i \in 1..Len(wire') : wire'[i] < Limit /\ wire'[i] < attempt
    <3>1. Limit \in Int
      BY <2>1, LimitBound DEF Limit
    <3>2. QED
      BY <2>1, <2>2, <3>1
  <2>4. ASSUME NEW i \in 1..Len(wire'), NEW j \in 1..Len(wire'), i < j
        PROVE  wire'[i] < wire'[j]
    <3>1. i \in 1..Len(wire) /\ wire'[i] < attempt - 1
      BY <2>1, <2>2, <2>4
    <3>2. CASE j \in 1..Len(wire)
      BY <2>2, <2>4, <3>1, <3>2
    <3>3. CASE j = Len(wire) + 1
      BY <2>2, <3>1, <3>3
    <3>4. j \in 1..Len(wire) \/ j = Len(wire) + 1
      <4>1. Len(wire) \in Nat /\ j \in 1..(Len(wire) + 1)
        BY <2>2, <2>4
      <4>2. QED
        BY <4>1
    <3>5. QED
      BY <3>2, <3>3, <3>4
  <2>5. QED
    BY <2>1, <2>2, <2>3, <2>4
<1>3. CASE HeadArrives
  BY <1>3 DEF HeadArrives, config, trying, history, Limit
<1>4. CASE BodyArrives
  <2>1. /\ pc = "reading" /\ pc' = "returned"
        /\ answered' = Append(answered, attempt - 1)
        /\ Limit' = Limit
        /\ UNCHANGED <<policy, attempt, outcome, wire>>
    BY <1>4 DEF BodyArrives, config, trying, Limit
  <2>2. /\ Len(answered') = Len(answered) + 1 /\ answered' # <<>>
        /\ Len(answered) < Len(wire) /\ Len(answered) \in Nat /\ Len(wire) \in Nat
    BY <2>1
  <2>3. QED
    BY <2>1, <2>2
<1>5. CASE AttemptFails
  BY <1>5 DEF AttemptFails, config, trying, history, Limit
<1>6. CASE GiveUp
  BY <1>6 DEF GiveUp, config, trying, history, Limit
<1>7. CASE Stop
  BY <1>7 DEF Stop, config, trying, history, Limit
<1>8. CASE DecideRetry
  BY <1>8 DEF DecideRetry, config, trying, history, Limit
<1>9. CASE ChooseDelay
  BY <1>9 DEF ChooseDelay, config, trying, history, Limit
<1>10. CASE StopForBudget \/ PassBudget
  BY <1>10 DEF StopForBudget, PassBudget, config, trying, history, Limit
<1>11. CASE StartSleep
  BY <1>11 DEF StartSleep, config, trying, history, Limit
<1>12. CASE Wake
  <2>1. Limit \in Int
    BY <1>12, LimitBound DEF Wake, Limit
  <2>2. Limit' = Limit /\ policy' = policy
    BY <1>12 DEF Wake, config, Limit
  <2>3. QED
    BY <1>12, <2>1, <2>2 DEF Wake, StartAttempt
<1>13. CASE Interrupted
  BY <1>13 DEF Interrupted, config, trying, history, Limit
<1>14. CASE Conclude
  BY <1>14 DEF Conclude, config, trying, history, Limit
<1>15. CASE Cancel
  BY <1>15 DEF Cancel, config, trying, history, Limit
<1>16. CASE Tick
  BY <1>16 DEF Tick, config, trying, history, Limit
<1>17. CASE UNCHANGED vars
  BY <1>17 DEF vars, Limit
<1>18. QED
  BY <1>1, <1>2, <1>3, <1>4, <1>5, <1>6, <1>7, <1>8, <1>9, <1>10, <1>11,
     <1>12, <1>13, <1>14, <1>15, <1>16, <1>17 DEF Next

(* The requests of a call carry growing ordinals up to MaxRetries, for     *)
(* every policy and every interleaving (Send, the retry count header).     *)
THEOREM OrdinalsAlways == Spec => []OrdinalsOnWire
<1>1. Typed /\ Numbering => OrdinalsOnWire
  <2> SUFFICES ASSUME Typed, Numbering, NEW i \in 1..Len(wire)
               PROVE  wire[i] \in 0..policy.maxRetries
    BY DEF OrdinalsOnWire, Numbering
  <2>1. Len(wire) \in Nat /\ wire # <<>> /\ wire[i] \in Nat
    BY DEF Typed, TypeOK
  <2>2. Valid(policy) /\ wire[i] < Limit
    BY <2>1 DEF Numbering
  <2>3. policy.maxRetries \in Nat /\ Limit \in 1..(policy.maxRetries + 1)
    BY <2>2, LimitBound DEF Limit, Typed, TypeOK
  <2>4. QED
    BY <2>1, <2>2, <2>3
<1>2. QED
  BY <1>1, TypedInit, TypedStep, NumberingInit, NumberingStep, PTL DEF Spec

(***************************************************************************)
(* Refinement.  Init maps to Init; Begin, Transmit, BodyArrives and        *)
(* Conclude map to the abstract steps, every other step to a stutter.      *)
(***************************************************************************)
Result == IF pc = "idle" THEN "none"
          ELSE IF pc = "done" THEN outcome.kind ELSE "open"

LEMMA AbstractStep ==
  Typed /\ Numbering /\ [Next]_vars => [Abstract!Next]_(Abstract!vars)
<1> SUFFICES ASSUME Typed, Numbering, [Next]_vars
             PROVE  [Abstract!Next]_(Abstract!vars)
  OBVIOUS
<1> USE DEF Typed, TypeOK, Numbering
<1> DEFINE Still == UNCHANGED <<policy, wire, answered, Result>>
<1>1. Still => [Abstract!Next]_(Abstract!vars)
  BY DEF Abstract!vars, Result
<1>2. CASE Begin
  <2>1. /\ pc = "idle" /\ UNCHANGED <<wire, answered>>
        /\ pc' \in {"dialing", "done"}
        /\ pc' = "dialing" => Valid(policy')
        /\ pc' = "done" => outcome'.kind = "invalid"
    BY <1>2 DEF Begin, StartAttempt, Pending
  <2>2. policy' \in Policies
    BY TypedStep
  <2>3. CASE pc' = "dialing"
    <3>1. policy'.maxRetries >= 0
      BY <2>1, <2>3 DEF Valid
    <3>2. Abstract!Open
      BY <2>1, <2>2, <2>3, <3>1 DEF Abstract!Open
    <3>3. QED
      BY <3>2 DEF Abstract!Next
  <2>4. CASE pc' = "done"
    <3>1. Abstract!Reject
      BY <2>1, <2>2, <2>4 DEF Abstract!Reject
    <3>2. QED
      BY <3>1 DEF Abstract!Next
  <2>5. QED
    BY <2>1, <2>3, <2>4
<1>3. CASE Transmit
  <2>1. /\ pc = "dialing" /\ pc' = "waiting"
        /\ wire' = Append(wire, attempt - 1)
        /\ UNCHANGED <<policy, answered>>
    BY <1>3 DEF Transmit, config
  <2>2. attempt - 1 \in 0..policy.maxRetries
    <3>1. Limit \in 1..(policy.maxRetries + 1) /\ policy.maxRetries \in Nat
      BY <2>1, LimitBound DEF Limit
    <3>2. QED
      BY <2>1, <3>1
  <2>3. Abstract!Request(attempt - 1)
    BY <2>1 DEF Abstract!Request
  <2>4. QED
    BY <2>2, <2>3 DEF Abstract!Next
<1>4. CASE BodyArrives
  <2>1. Abstract!Answer
    BY <1>4 DEF BodyArrives, config, Abstract!Answer
  <2>2. QED
    BY <2>1 DEF Abstract!Next
<1>5. CASE Conclude
  <2>1. /\ pc = "returning" /\ pc' = "done"
        /\ outcome'.kind = Conclusion
        /\ UNCHANGED <<policy, wire, answered>>
    BY <1>5 DEF Conclude, config, history
  <2>2. \/ Conclusion = "transport"
        \/ answered # <<>> /\ Conclusion \in {"ok", "api", "too_large"}
    BY <2>1 DEF Conclusion
  <2>3. answered # <<>> => Len(answered) > 0
    OBVIOUS
  <2>4. Abstract!Close
    BY <2>1, <2>2, <2>3 DEF Abstract!Close
  <2>5. QED
    BY <2>4 DEF Abstract!Next
<1>6. CASE HeadArrives \/ AttemptFails
  <2>1. Still
    BY <1>6 DEF HeadArrives, AttemptFails, config, history, Result
  <2>2. QED
    BY <1>1, <2>1
<1>7. CASE GiveUp \/ Stop \/ DecideRetry \/ StopForBudget \/ PassBudget
  <2>1. Still
    BY <1>7 DEF GiveUp, Stop, DecideRetry, StopForBudget, PassBudget, config, history,
                Result
  <2>2. QED
    BY <1>1, <2>1
<1>8. CASE ChooseDelay \/ StartSleep \/ Wake \/ Interrupted
  <2>1. Still
    BY <1>8 DEF ChooseDelay, StartSleep, Wake, StartAttempt, Interrupted,
                config, history, Result
  <2>2. QED
    BY <1>1, <2>1
<1>9. CASE Cancel \/ Tick \/ UNCHANGED vars
  <2>1. Still
    BY <1>9 DEF Cancel, Tick, vars, config, history, Result
  <2>2. QED
    BY <1>1, <2>1
<1>10. QED
  BY <1>2, <1>3, <1>4, <1>5, <1>6, <1>7, <1>8, <1>9 DEF Next

(* A call, in all its timings, is one that Call.tla describes: numbered    *)
(* requests up to the allowance, one result, nothing sent after it, and no *)
(* result but a transport failure without a response.                      *)
THEOREM Implementation == Spec => ImplementsCall
<1>1. Init => Abstract!Init
  BY SendAssumption DEF Init, Abstract!Init
<1>2. QED
  BY <1>1, AbstractStep, TypedInit, TypedStep, NumberingInit, NumberingStep, PTL
     DEF Spec, ImplementsCall, Abstract!Spec
=============================================================================
