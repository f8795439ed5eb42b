----------------------------- MODULE LoopProof -----------------------------
(***************************************************************************)
(* What the retry loop owes the caller and the server: the time a call     *)
(* takes, the waits it keeps, the reasons it stops for and the bytes it    *)
(* reports.                                                                *)
(***************************************************************************)
EXTENDS SendProof

USE DEF InAttempt, Computing, Places

(***************************************************************************)
(* What the theorems assume of the policies.  A backoff, and a wait the    *)
(* server asks for, added to the time a call can have lasted, is still a   *)
(* 64-bit duration; for the latter the policy has to set MaxRetryAfter.    *)
(* DefaultRetryPolicy does.  The wait itself is not negative where the     *)
(* conversion of 2^63 saturates, as on arm64.  Without either the sleep    *)
(* can pass the budget.                                                    *)
(***************************************************************************)
BoundedWaits ==
  /\ Converted = MaxInt
  /\ \A p \in Policies :
       /\ p.backoffMax <= MaxInt - MaxClock
       /\ p.respectRetryAfter =>
            p.maxRetryAfter > 0 /\ p.maxRetryAfter <= MaxInt - MaxClock

(***************************************************************************)
(* Pace.  Why no sleep passes the budget: what the server asked for was    *)
(* compared with the cap when the retry was decided on, and can only have  *)
(* shrunk when the delay is chosen (a date comes nearer), so the budget    *)
(* check does not wrap; and unless the goroutine is held, no time passes   *)
(* between the check and the start of the timer.                           *)
(***************************************************************************)
AskedUpToCap ==
  resp # NoReply => ~OverCap(policy, Asked(resp, clock).delay)

Pace ==
  /\ start <= clock /\ clock <= MaxClock
  /\ pc = "delaying" => AskedUpToCap
  /\ pc \in {"checking", "parking", "sleeping"} => delay \in 0..(MaxInt - MaxClock)
  /\ ~Preemptible /\ policy.budget > 0 =>
       /\ pc = "parking" => clock - start + delay < policy.budget
       /\ pc = "sleeping" => wake - start < policy.budget

(* A date the server named comes nearer; any other wish stays as it is. *)
LEMMA WishShrinks ==
  ASSUME NEW ms \in HeaderValue, NEW seconds \in HeaderValue, NEW now \in Nat
  PROVE  Requested(ms, seconds, now + 1).delay <= Requested(ms, seconds, now).delay
<1> DEFINE left(t) == AtLeast(Saturated(seconds.value - t), 0)
<1>1. seconds.value \in Int /\ FloatToInt(ms.value) \in Int /\ FloatToInt(seconds.value) \in Int
  BY RetryAssumption DEF FloatToInt, HeaderValue, MinInt
<1>2. left(now + 1) <= left(now)
  BY <1>1, RetryAssumption DEF AtLeast, Saturated, MinInt
<1> HIDE DEF left
<1>3. QED
  BY <1>1, <1>2 DEF Requested, Given, NotGiven, left

LEMMA WrapIdentity ==
  ASSUME NEW n \in Int64
  PROVE  Wrap(n) = n
<1>1. \A x \in Nat, d \in Nat \ {0} : x < d => x % d = x
  OBVIOUS
<1>2. MaxInt \in Nat /\ n \in Int /\ n >= -MaxInt - 1 /\ n <= MaxInt
  BY RetryAssumption DEF Int64, MinInt
<1>3. /\ n + MaxInt + 1 \in Nat
      /\ 2 * (MaxInt + 1) \in Nat \ {0}
      /\ n + MaxInt + 1 < 2 * (MaxInt + 1)
  BY <1>2
<1>4. QED
  BY <1>1, <1>2, <1>3 DEF Wrap

(* The delay chosen under the cap fits beside the time already spent. *)
LEMMA ChosenDelay ==
  ASSUME BoundedWaits, Typed, Valid(policy), AskedUpToCap,
         attempt # 0, NEW d \in Delays(policy, attempt, resp.ms, resp.seconds, clock)
  PROVE  d \in 0..(MaxInt - MaxClock)
<1>1. policy \in Policies /\ policy \in PolicyType
  BY SendAssumption DEF Typed, TypeOK
<1>2. /\ policy.backoffMax \in Int /\ policy.maxRetryAfter \in Int
      /\ MaxInt \in Nat /\ MaxClock \in Nat /\ clock \in Nat /\ attempt \in Nat
  BY <1>1, SendAssumption, RetryAssumption
     DEF PolicyType, Int64, MinInt, Typed, TypeOK
<1>3. Delays(policy, attempt, resp.ms, resp.seconds, clock) \subseteq Int
  BY <1>1, <1>2, DelaysType, NoReplyType DEF Typed, TypeOK
<1>4. policy.backoffMax <= MaxInt - MaxClock
  BY <1>1 DEF BoundedWaits
<1>5. CASE policy.respectRetryAfter /\ Asked(resp, clock).ok
  <2>1. resp # NoReply
    BY <1>5 DEF NoReply, Absent, Asked, Requested, Usable, NotGiven
  <2>2. Asked(resp, clock).delay <= policy.maxRetryAfter
    <3>1. policy.maxRetryAfter > 0
      BY <1>1, <1>5 DEF BoundedWaits
    <3>2. Asked(resp, clock).delay \in Int
      BY <1>2, RequestedType, NoReplyType DEF Asked, Typed, TypeOK
    <3>3. QED
      BY <1>2, <1>5, <2>1, <3>1, <3>2 DEF AskedUpToCap, OverCap
  <2>3. policy.maxRetryAfter <= MaxInt - MaxClock
    BY <1>1, <1>5 DEF BoundedWaits
  <2>4. d = Asked(resp, clock).delay
    BY <1>5 DEF Delays, Asked
  <2>5. d >= 0
    <3>1. Converted = MaxInt
      BY DEF BoundedWaits
    <3>2. QED
      BY <1>2, <1>5, <2>4, <3>1, NoReplyType
         DEF Asked, Requested, Given, NotGiven, Usable, FloatToInt, AtLeast,
             Saturated, MinInt, HeaderValue, Typed, TypeOK
  <2>6. QED
    BY <1>2, <1>3, <2>2, <2>3, <2>4, <2>5
<1>6. CASE ~(policy.respectRetryAfter /\ Asked(resp, clock).ok)
  <2>1. d \in Backoff(policy, attempt)
    BY <1>6 DEF Delays, Asked
  <2>2. d \in 0..policy.backoffMax
    BY <1>1, <1>2, <2>1, BackoffBounds
  <2>3. QED
    BY <1>2, <1>4, <2>2
<1>7. QED
  BY <1>5, <1>6

LEMMA PaceInit == Init => Pace
BY SendAssumption DEF Init, Pace

LEMMA PaceStep ==
  ASSUME BoundedWaits
  PROVE  Typed /\ Pace /\ [Next]_vars => Pace'
<1> SUFFICES ASSUME Typed, Pace, [Next]_vars PROVE Pace'
  OBVIOUS
<1> USE DEF Pace
<1>1. /\ clock \in Nat /\ start \in Nat /\ wake \in Nat /\ delay \in Int
      /\ MaxClock \in Nat /\ MaxInt \in Nat
  BY SendAssumption, RetryAssumption DEF Typed, TypeOK
<1>2. CASE Begin
  BY <1>1, <1>2 DEF Begin, StartAttempt
<1>3. CASE Transmit \/ HeadArrives \/ BodyArrives \/ AttemptFails
  BY <1>3 DEF Transmit, HeadArrives, BodyArrives, AttemptFails, config, trying
<1>4. CASE GiveUp \/ Stop \/ StopForBudget \/ Interrupted \/ Conclude
  BY <1>4 DEF GiveUp, Stop, StopForBudget, Interrupted, Conclude, config, trying
<1>5. CASE DecideRetry
  <2>1. AskedUpToCap
    BY <1>5 DEF DecideRetry, Retryable, RetryableStatus, AskedUpToCap
  <2>2. UNCHANGED <<resp, clock, policy, start>> /\ pc' = "delaying"
    BY <1>5 DEF DecideRetry, config
  <2>3. AskedUpToCap'
    BY <2>1, <2>2 DEF AskedUpToCap, Asked
  <2>4. QED
    BY <2>2, <2>3
<1>6. CASE ChooseDelay
  <2>1. Valid(policy) /\ AskedUpToCap /\ attempt # 0
    BY <1>6 DEF ChooseDelay, Typed, TypeOK
  <2>2. delay' \in 0..(MaxInt - MaxClock)
    BY <1>6, <2>1, ChosenDelay DEF ChooseDelay
  <2>3. QED
    BY <1>6, <2>2 DEF ChooseDelay, config
<1>7. CASE PassBudget
  <2>1. /\ pc = "checking" /\ pc' = "parking" /\ ~OverBudget(delay)
        /\ UNCHANGED <<clock, start, policy, delay, wake>>
    BY <1>7 DEF PassBudget, config, waiting
  <2>2. ASSUME policy.budget > 0
        PROVE  clock - start + delay < policy.budget
    <3>1. clock - start \in 0..MaxInt
      <4>1. MaxClock <= MaxInt
        <5>1. Valid(policy) /\ policy \in Policies /\ policy \in PolicyType
          BY <2>1, SendAssumption DEF Typed, TypeOK
        <5>2. policy.backoffMax \in Int /\ policy.backoffMax >= 0
          BY <5>1 DEF Valid, PolicyType, Int64, MinInt
        <5>3. QED
          BY <1>1, <5>1, <5>2 DEF BoundedWaits
      <4>2. QED
        BY <1>1, <4>1
    <3>2. Saturated(clock - start) = clock - start
      BY <1>1, <3>1 DEF Saturated, MinInt
    <3>3. policy.budget \in Int /\ policy.budget <= MaxInt
      BY <1>1, SendAssumption DEF Typed, TypeOK, PolicyType, Int64, MinInt
    <3>4. clock - start + delay \in Int64
      BY <1>1, <2>1, <3>1 DEF Int64, MinInt
    <3>5. QED
      BY <1>1, <2>1, <2>2, <3>2, <3>3, <3>4, WrapIdentity DEF OverBudget
  <2>3. QED
    BY <2>1, <2>2
<1>s. CASE StartSleep
  <2>1. /\ pc = "parking" /\ pc' = "sleeping"
        /\ wake' = clock + AtLeast(delay, 0)
        /\ UNCHANGED <<clock, start, policy, delay>>
    BY <1>s DEF StartSleep, config
  <2>2. wake' = clock + delay
    BY <1>1, <2>1 DEF AtLeast
  <2>3. policy.budget \in Int
    BY SendAssumption, RetryAssumption DEF Typed, TypeOK, PolicyType, Int64, MinInt
  <2>4. QED
    BY <1>1, <2>1, <2>2, <2>3
<1>8. CASE Wake
  BY <1>8 DEF Wake, StartAttempt, config
<1>9. CASE Cancel
  <2>1. AskedUpToCap' = AskedUpToCap
    BY <1>9 DEF Cancel, config, AskedUpToCap, Asked
  <2>2. QED
    BY <1>9, <2>1 DEF Cancel, config, waiting
<1>10. CASE Tick
  <2>1. /\ clock < MaxClock /\ clock' = clock + 1
        /\ UNCHANGED <<pc, policy, start, resp, delay, wake>>
        /\ pc = "parking" => Preemptible
    BY <1>10 DEF Tick, config, waiting
  <2>2. AskedUpToCap => AskedUpToCap'
    <3>1. /\ Asked(resp, clock + 1).delay <= Asked(resp, clock).delay
          /\ Asked(resp, clock + 1).delay \in Int
          /\ Asked(resp, clock).delay \in Int
      <4>1. /\ resp.ms \in HeaderValue /\ resp.seconds \in HeaderValue
            /\ clock \in Nat /\ clock + 1 \in Nat
        BY <1>1, NoReplyType DEF Typed, TypeOK
      <4>2. QED
        BY <4>1, WishShrinks, RequestedType DEF Asked
    <3>2. policy.maxRetryAfter \in Int
      BY SendAssumption, RetryAssumption DEF Typed, TypeOK, PolicyType, Int64, MinInt
    <3>3. (Asked(resp, clock).delay)' = Asked(resp, clock + 1).delay
      BY <2>1 DEF Asked
    <3>4. QED
      BY <2>1, <3>1, <3>2, <3>3 DEF AskedUpToCap, OverCap
  <2>3. QED
    BY <1>1, <2>1, <2>2
<1>11. CASE UNCHANGED vars
  <2>1. AskedUpToCap' = AskedUpToCap
    BY <1>11 DEF vars, AskedUpToCap, Asked
  <2>2. QED
    BY <1>11, <2>1 DEF vars
<1>12. QED
  BY <1>2, <1>3, <1>4, <1>5, <1>6, <1>7, <1>s, <1>8, <1>9, <1>10, <1>11 DEF Next

(* No timer is set that would reach the budget, in a call that is never    *)
(* held off the processor, for every policy with bounded waits (Send's     *)
(* budget check, Sleep).                                                   *)
THEOREM SleepsWithinBudget ==
  ASSUME BoundedWaits
  PROVE  Spec => []NoSleepPastBudget
<1>1. Pace => NoSleepPastBudget
  BY DEF Pace, NoSleepPastBudget
<1>2. Typed /\ Pace /\ [Next]_vars => Pace'
  BY PaceStep
<1>3. QED
  BY <1>1, <1>2, PaceInit, TypedInit, TypedStep, PTL
     DEF Spec

(***************************************************************************)
(* Progress within the timeout.  Where the call is decides what it may     *)
(* have used: a sleep less than the budget, an attempt the budget before   *)
(* it began and the timeout since, the steps after it the two together.    *)
(***************************************************************************)
Metered == ~Preemptible /\ policy.budget > 0 /\ timeout > 0

Meter ==
  /\ pc = "idle" => clock = start
  /\ Metered =>
       /\ pc \in InAttempt =>
            /\ attemptStart - start < policy.budget
            /\ clock <= attemptStart + timeout
       /\ pc = "sleeping" => clock <= wake
       /\ pc # "idle" => clock - start < policy.budget + timeout

LEMMA MeterInit == Init => Meter
BY SendAssumption DEF Init, Meter

LEMMA MeterStep ==
  Typed /\ Pace /\ Pace' /\ Meter /\ [Next]_vars => Meter'
<1> SUFFICES ASSUME Typed, Pace, Pace', Meter, [Next]_vars PROVE Meter'
  OBVIOUS
<1> USE DEF Meter
<1>1. /\ clock \in Nat /\ start \in Nat /\ wake \in Nat /\ attemptStart \in Nat
      /\ timeout \in Nat /\ policy.budget \in Int
      /\ timeout' \in Nat /\ policy'.budget \in Int
  <2>1. TypeOK /\ TypeOK'
    BY TypedStep DEF Typed
  <2>2. \A p \in Policies : p.budget \in Int
    BY SendAssumption, RetryAssumption DEF PolicyType, Int64, MinInt
  <2>3. QED
    BY <2>1, <2>2, SendAssumption DEF TypeOK
<1>2. CASE Begin
  <2>1. /\ pc = "idle" /\ clock' = clock /\ start = clock /\ start' = clock
        /\ pc' # "idle" /\ pc' # "sleeping"
        /\ pc' = "dialing" => attemptStart' = clock
        /\ pc' \in {"dialing", "done"}
    BY <1>2 DEF Begin, StartAttempt
  <2>2. QED
    BY <1>1, <2>1 DEF Metered
<1>3. CASE Transmit \/ HeadArrives \/ BodyArrives \/ AttemptFails
  BY <1>1, <1>3
     DEF Transmit, HeadArrives, BodyArrives, AttemptFails, config, trying, Metered
<1>4. CASE GiveUp \/ Stop \/ DecideRetry \/ StopForBudget \/ PassBudget \/ Conclude
  BY <1>1, <1>4
     DEF GiveUp, Stop, DecideRetry, StopForBudget, PassBudget, Conclude, config,
         trying, Metered
<1>5. CASE ChooseDelay \/ Interrupted
  BY <1>1, <1>5 DEF ChooseDelay, Interrupted, config, trying, Metered
<1>6. CASE StartSleep
  <2>1. wake' >= clock
    BY <1>1, <1>6 DEF StartSleep, AtLeast, Typed, TypeOK
  <2>2. QED
    BY <1>1, <1>6, <2>1 DEF StartSleep, config, trying, Metered
<1>7. CASE Wake
  <2>1. Metered => clock - start < policy.budget
    BY <1>1, <1>7 DEF Wake, Pace, Metered
  <2>2. QED
    BY <1>1, <1>7, <2>1 DEF Wake, StartAttempt, config, Metered
<1>8. CASE Cancel
  BY <1>8 DEF Cancel, config, trying, waiting, Metered
<1>9. CASE Tick
  <2>1. UNCHANGED <<pc, policy, timeout, start, attemptStart, wake>> /\ clock' = clock + 1
    BY <1>9 DEF Tick, config, trying, waiting
  <2>2. pc # "idle"
    BY <1>9 DEF Tick
  <2>3. CASE Metered /\ pc \in InAttempt
    BY <1>1, <1>9, <2>1, <2>2, <2>3 DEF Tick, Expired, Metered
  <2>4. CASE Metered /\ pc = "sleeping"
    BY <1>1, <1>9, <2>1, <2>2, <2>4 DEF Tick, Pace, Metered
  <2>5. CASE ~Metered \/ pc \notin InAttempt \cup {"sleeping"}
    BY <1>1, <1>9, <2>1, <2>2, <2>5 DEF Tick, Metered
  <2>6. QED
    BY <2>3, <2>4, <2>5
<1>10. CASE UNCHANGED vars
  BY <1>10 DEF vars, Metered
<1>11. QED
  BY <1>2, <1>3, <1>4, <1>5, <1>6, <1>7, <1>8, <1>9, <1>10 DEF Next

(* A call that is never held off the processor ends within its budget and  *)
(* one attempt timeout, for every policy with bounded waits (Send's check, *)
(* attempt's deadline).                                                    *)
THEOREM CallWithinBudget ==
  ASSUME BoundedWaits
  PROVE  Spec => []WithinBudget
<1>1. Meter => WithinBudget
  BY DEF Meter, Metered, WithinBudget
<1>2. Typed /\ Pace /\ [Next]_vars => Pace'
  BY PaceStep
<1>3. QED
  BY <1>1, <1>2, PaceInit, TypedInit, TypedStep,
     MeterInit, MeterStep, PTL
     DEF Spec

(***************************************************************************)
(* What the theorems assume of the network and the policies.               *)
(*                                                                         *)
(* ShortWishes: no header asks for a delay, or names a date, that 64 bits  *)
(* cannot hold (292 years).  parseRetryAfter takes a longer number for an  *)
(* unusable one, and falls back to the other header or to the backoff.     *)
(* BodiesFit: no body is longer than an int64 counts.                      *)
(* LimitsFit: MaxRetries + 1 does not wrap.                                *)
(***************************************************************************)
Short(header) == header.kind \in {"number", "date"} => header.value <= MaxInt

ShortWishes == \A reply \in Replies : Short(reply.ms) /\ Short(reply.seconds)
BodiesFit   == \A reply \in Replies : reply.size <= MaxInt
LimitsFit   == \A known \in Policies : known.maxRetries < MaxInt

(***************************************************************************)
(* Where a response comes from: whatever the loop holds has the headers    *)
(* and the body of a response of the network.                              *)
(***************************************************************************)
Genuine ==
  resp # NoReply =>
    \E reply \in Replies : /\ resp.ms = reply.ms
                           /\ resp.seconds = reply.seconds
                           /\ resp.size = reply.size

LEMMA GenuineInit == Init => Genuine
BY DEF Init, Genuine

LEMMA GenuineStep == Typed /\ Genuine /\ [Next]_vars => Genuine'
<1> SUFFICES ASSUME Typed, Genuine, [Next]_vars PROVE Genuine'
  OBVIOUS
<1>1. CASE UNCHANGED resp \/ resp' = NoReply
  BY <1>1 DEF Genuine
<1>2. CASE HeadArrives
  BY <1>2 DEF HeadArrives, Genuine
<1>3. CASE BodyArrives
  <2>1. resp \in ReplyType /\ resp' = [resp EXCEPT !.read = Read(resp.size)]
    BY <1>3 DEF BodyArrives, Typed
  <2>2. resp # NoReply
    BY <2>1 DEF NoReply, ReplyType
  <2>3. resp'.ms = resp.ms /\ resp'.seconds = resp.seconds /\ resp'.size = resp.size
    BY <2>1 DEF ReplyType
  <2>4. QED
    BY <2>2, <2>3 DEF Genuine
<1>4. HeadArrives \/ BodyArrives \/ UNCHANGED resp \/ resp' = NoReply
  BY DEF Next, vars, Begin, Transmit, AttemptFails, GiveUp, Stop, DecideRetry,
         ChooseDelay, StopForBudget, PassBudget, StartSleep, Wake, Interrupted,
         Conclude, Cancel, Tick
<1>5. QED
  BY <1>1, <1>2, <1>3, <1>4

(***************************************************************************)
(* What the loop reads off a response against what the server meant.       *)
(***************************************************************************)
(* A response that asked for a wait is one parseRetryAfter understands. *)
LEMMA WishUnderstood ==
  ASSUME Typed, Genuine, ShortWishes, resp # NoReply
  PROVE  /\ Usable(resp.ms) <=> Holds(resp.ms)
         /\ Usable(resp.seconds) <=> Holds(resp.seconds)
         /\ Short(resp.ms) /\ Short(resp.seconds)
         /\ resp.ms.value \in Int /\ resp.seconds.value \in Int
<1>1. Short(resp.ms) /\ Short(resp.seconds)
  BY DEF Genuine, ShortWishes
<1>2. resp.ms \in HeaderValue /\ resp.seconds \in HeaderValue
  BY NoReplyType DEF Typed, TypeOK
<1>3. resp.ms.value \in Int /\ resp.seconds.value \in Int
  BY <1>2 DEF HeaderValue
<1>4. QED
  BY <1>1, <1>3, RetryAssumption DEF Short, Usable, Holds

(* Sleeping what was asked for, from any instant since the response, ends  *)
(* no earlier than the server meant.                                       *)
LEMMA WishGranted ==
  ASSUME Typed, Genuine, ShortWishes, resp # NoReply, seenAt <= clock
  PROVE  /\ Asked(resp, clock).ok =>
              NotBefore(resp) <= clock + AtLeast(Asked(resp, clock).delay, 0)
         /\ ~Asked(resp, clock).ok => NotBefore(resp) <= clock
<1>1. clock \in Nat /\ seenAt \in Nat /\ MaxInt \in Nat
  BY RetryAssumption DEF Typed, TypeOK
<1>2. CASE Holds(resp.ms)
  <2>1. resp.ms.value \in 0..MaxInt
    BY <1>1, <1>2, WishUnderstood DEF Holds, Short
  <2>2. NotBefore(resp) = seenAt + resp.ms.value
    BY <1>2 DEF NotBefore
  <2>3. Asked(resp, clock) = Given(resp.ms.value)
    BY <1>2, <2>1, WishUnderstood DEF Asked, Requested, FloatToInt
  <2>4. QED
    BY <1>1, <2>1, <2>2, <2>3 DEF Given, AtLeast
<1>3. CASE ~Holds(resp.ms) /\ Holds(resp.seconds)
  <2>1. resp.seconds.value \in 0..MaxInt
    BY <1>1, <1>3, WishUnderstood DEF Holds, Short
  <2>2. NotBefore(resp) = seenAt + resp.seconds.value
    BY <1>3 DEF NotBefore, Holds
  <2>3. Asked(resp, clock) = Given(resp.seconds.value)
    BY <1>3, <2>1, WishUnderstood DEF Asked, Requested, FloatToInt
  <2>4. QED
    BY <1>1, <2>1, <2>2, <2>3 DEF Given, AtLeast
<1>4. CASE ~Holds(resp.ms) /\ resp.seconds.kind = "date"
  <2>1. resp.seconds.value \in Int /\ resp.seconds.value <= MaxInt
    BY <1>4, WishUnderstood DEF Short
  <2>2. ~Holds(resp.seconds)
    BY <1>4 DEF Holds
  <2>3. NotBefore(resp) = resp.seconds.value
    BY <1>4, <2>2 DEF NotBefore
  <2>4. Asked(resp, clock) = Given(AtLeast(Saturated(resp.seconds.value - clock), 0))
    BY <1>4, <2>2, WishUnderstood DEF Asked, Requested
  <2>5. QED
    BY <1>1, <2>1, <2>3, <2>4 DEF Given, AtLeast, Saturated, MinInt
<1>5. CASE ~Holds(resp.ms) /\ ~Holds(resp.seconds) /\ resp.seconds.kind # "date"
  <2>1. NotBefore(resp) = 0
    BY <1>5 DEF NotBefore
  <2>2. ~Asked(resp, clock).ok
    BY <1>5, WishUnderstood DEF Asked, Requested, NotGiven
  <2>3. QED
    BY <1>1, <2>1, <2>2
<1>6. QED
  BY <1>2, <1>3, <1>4, <1>5

(***************************************************************************)
(* Promise.  The server's instant is what the delay reaches from the clock *)
(* when it is chosen, then what the timer is set to, then in the past when *)
(* the next attempt begins.                                                *)
(***************************************************************************)
Promise ==
  /\ seenAt <= clock
  /\ policy.respectRetryAfter /\ resp # NoReply =>
       /\ pc \in {"checking", "parking"} =>
            NotBefore(resp) <= clock + AtLeast(delay, 0)
       /\ pc = "sleeping" => NotBefore(resp) <= wake
       /\ pc = "dialing" /\ attempt > 1 => NotBefore(resp) <= clock

LEMMA PromiseInit == Init => Promise
BY DEF Init, Promise

LEMMA NotBeforeType ==
  ASSUME Typed
  PROVE  NotBefore(resp) \in Int
<1>1. resp.ms.value \in Int /\ resp.seconds.value \in Int /\ seenAt \in Nat
  BY NoReplyType DEF Typed, TypeOK, HeaderValue
<1>2. QED
  BY <1>1 DEF NotBefore

LEMMA PromiseStep ==
  ASSUME ShortWishes
  PROVE  Typed /\ Genuine /\ Promise /\ [Next]_vars => Promise'
<1> SUFFICES ASSUME Typed, Genuine, Promise, [Next]_vars PROVE Promise'
  OBVIOUS
<1>1. /\ clock \in Nat /\ seenAt \in Nat /\ wake \in Nat /\ delay \in Int
      /\ attempt \in Nat /\ NotBefore(resp) \in Int /\ seenAt <= clock
  BY NotBeforeType DEF Typed, TypeOK, Promise
<1>2. CASE Begin
  BY <1>1, <1>2 DEF Begin, StartAttempt, Promise, trying
<1>3. CASE Transmit \/ HeadArrives
  BY <1>1, <1>3 DEF Transmit, HeadArrives, Promise, history
<1>4. CASE BodyArrives \/ AttemptFails
  BY <1>1, <1>4 DEF BodyArrives, AttemptFails, Promise, history
<1>5. CASE GiveUp \/ Stop \/ DecideRetry \/ StopForBudget \/ Interrupted \/ Conclude
  BY <1>1, <1>5 DEF GiveUp, Stop, DecideRetry, StopForBudget, Interrupted,
                    Conclude, Promise, history
<1>6. CASE ChooseDelay
  <2>1. /\ pc' = "checking" /\ delay' \in Delays(policy, attempt, resp.ms, resp.seconds, clock)
        /\ UNCHANGED <<clock, policy, resp, seenAt>>
    BY <1>6 DEF ChooseDelay, config, history
  <2>2. NotBefore(resp)' = NotBefore(resp)
    BY <2>1 DEF NotBefore
  <2>3. ASSUME policy.respectRetryAfter, resp # NoReply
        PROVE  NotBefore(resp) <= clock + AtLeast(delay', 0)
    <3>1. delay' \in Int
      BY <1>6, TypedStep DEF Typed, TypeOK
    <3>2. CASE Asked(resp, clock).ok
      <4>1. delay' = Asked(resp, clock).delay
        BY <2>1, <2>3, <3>2 DEF Delays, Asked
      <4>2. QED
        BY <1>1, <2>3, <3>2, <4>1, WishGranted
    <3>3. CASE ~Asked(resp, clock).ok
      <4>1. NotBefore(resp) <= clock
        BY <1>1, <2>3, <3>3, WishGranted
      <4>2. QED
        BY <1>1, <3>1, <4>1 DEF AtLeast
    <3>4. QED
      BY <3>2, <3>3
  <2>4. QED
    BY <1>1, <2>1, <2>2, <2>3 DEF Promise
<1>p. CASE PassBudget
  <2>1. /\ pc = "checking" /\ pc' = "parking"
        /\ UNCHANGED <<clock, policy, resp, delay, seenAt>>
    BY <1>p DEF PassBudget, config, waiting, history
  <2>2. NotBefore(resp)' = NotBefore(resp)
    BY <2>1 DEF NotBefore
  <2>3. QED
    BY <1>1, <2>1, <2>2 DEF Promise
<1>7. CASE StartSleep
  <2>1. /\ pc = "parking" /\ pc' = "sleeping" /\ wake' = clock + AtLeast(delay, 0)
        /\ UNCHANGED <<clock, policy, resp, seenAt>>
    BY <1>7 DEF StartSleep, config, history
  <2>2. NotBefore(resp)' = NotBefore(resp)
    BY <2>1 DEF NotBefore
  <2>3. QED
    BY <1>1, <2>1, <2>2 DEF Promise
<1>8. CASE Wake
  <2>1. /\ pc = "sleeping" /\ pc' = "dialing" /\ clock >= wake
        /\ UNCHANGED <<clock, policy, resp, seenAt>>
    BY <1>8 DEF Wake, StartAttempt, config
  <2>2. NotBefore(resp)' = NotBefore(resp)
    BY <2>1 DEF NotBefore
  <2>3. QED
    BY <1>1, <2>1, <2>2 DEF Promise
<1>9. CASE Cancel \/ UNCHANGED vars
  <2>1. UNCHANGED <<clock, pc, policy, attempt, resp, delay, wake, seenAt>>
    BY <1>9 DEF Cancel, vars, config, trying, waiting, history
  <2>2. NotBefore(resp)' = NotBefore(resp)
    BY <2>1 DEF NotBefore
  <2>3. QED
    BY <2>1, <2>2 DEF Promise
<1>10. CASE Tick
  <2>1. /\ clock' = clock + 1
        /\ UNCHANGED <<pc, policy, attempt, resp, delay, wake, seenAt>>
    BY <1>10 DEF Tick, config, trying, waiting, history
  <2>2. NotBefore(resp)' = NotBefore(resp)
    BY <2>1 DEF NotBefore
  <2>3. AtLeast(delay, 0) \in Nat
    BY <1>1 DEF AtLeast
  <2>4. AtLeast(delay', 0) = AtLeast(delay, 0)
    BY <2>1
  <2>5. QED
    BY <1>1, <2>1, <2>2, <2>3, <2>4 DEF Promise
<1>11. QED
  BY <1>2, <1>3, <1>4, <1>5, <1>6, <1>p, <1>7, <1>8, <1>9, <1>10 DEF Next

(* No retry starts before the instant the last response asked to be left   *)
(* alone until, for every policy, every clock and every pair of headers    *)
(* whose wish 64 bits can hold (parseRetryAfter, delay, Sleep).            *)
THEOREM HonorsRetryAfter ==
  ASSUME ShortWishes
  PROVE  Spec => []RetryAfterHonored
<1>1. Typed /\ Promise => RetryAfterHonored
  BY DEF Typed, TypeOK, Promise, RetryAfterHonored
<1>2. Typed /\ Genuine /\ Promise /\ [Next]_vars => Promise'
  BY PromiseStep
<1>3. QED
  BY <1>1, <1>2, PromiseInit, GenuineInit, GenuineStep, TypedInit, TypedStep, PTL
     DEF Spec

(***************************************************************************)
(* CappedWish.  The wish compared with the cap when the retry was decided  *)
(* on can only have shrunk when it is read again to choose the delay, and  *)
(* what was chosen is what is slept.                                       *)
(***************************************************************************)
Wished(reply) ==
  Holds(reply.ms) \/ Holds(reply.seconds) \/ reply.seconds.kind = "date"

CappedWish ==
  /\ pc = "delaying" => AskedUpToCap
  /\ /\ pc \in {"checking", "parking", "sleeping"}
     /\ policy.respectRetryAfter /\ policy.maxRetryAfter > 0
     /\ Wished(resp)
     => delay <= policy.maxRetryAfter

LEMMA CappedWishInit == Init => CappedWish
BY DEF Init, CappedWish

LEMMA CappedWishStep ==
  ASSUME ShortWishes
  PROVE  Typed /\ Genuine /\ CappedWish /\ [Next]_vars => CappedWish'
<1> SUFFICES ASSUME Typed, Genuine, CappedWish, [Next]_vars PROVE CappedWish'
  OBVIOUS
<1> USE DEF CappedWish
<1>1. CASE Begin \/ Transmit \/ HeadArrives \/ BodyArrives \/ AttemptFails
  BY <1>1 DEF Begin, StartAttempt, Transmit, HeadArrives, BodyArrives, AttemptFails
<1>2. CASE GiveUp \/ Stop \/ StopForBudget \/ Wake \/ Interrupted \/ Conclude
  BY <1>2 DEF GiveUp, Stop, StopForBudget, Wake, StartAttempt, Interrupted, Conclude
<1>3. CASE DecideRetry
  <2>1. AskedUpToCap
    BY <1>3 DEF DecideRetry, Retryable, RetryableStatus, AskedUpToCap
  <2>2. UNCHANGED <<resp, clock, policy>> /\ pc' = "delaying"
    BY <1>3 DEF DecideRetry, config
  <2>3. AskedUpToCap'
    BY <2>1, <2>2 DEF AskedUpToCap, Asked
  <2>4. QED
    BY <2>2, <2>3
<1>4. CASE ChooseDelay
  <2>1. /\ pc = "delaying" /\ pc' = "checking" /\ UNCHANGED <<resp, clock, policy>>
        /\ delay' \in Delays(policy, attempt, resp.ms, resp.seconds, clock)
    BY <1>4 DEF ChooseDelay, config
  <2>2. ASSUME policy.respectRetryAfter, policy.maxRetryAfter > 0, Wished(resp)
        PROVE  delay' <= policy.maxRetryAfter
    <3>1. resp # NoReply
      BY <2>2 DEF Wished, Holds, NoReply, Absent
    <3>2. Asked(resp, clock).ok
      BY <2>2, <3>1, WishUnderstood DEF Wished, Asked, Requested, Given
    <3>3. delay' = Asked(resp, clock).delay
      BY <2>1, <2>2, <3>2 DEF Delays, Asked
    <3>4. delay' \in Int /\ policy.maxRetryAfter \in Int
      BY <1>4, TypedStep, SendAssumption, RetryAssumption
         DEF Typed, TypeOK, PolicyType, Int64, MinInt
    <3>5. QED
      BY <2>1, <2>2, <3>1, <3>3, <3>4 DEF AskedUpToCap, OverCap
  <2>3. QED
    BY <2>1, <2>2 DEF Wished
<1>5. CASE PassBudget \/ StartSleep
  BY <1>5 DEF PassBudget, StartSleep, config, waiting, Wished
<1>6. CASE Cancel \/ UNCHANGED vars
  <2>1. UNCHANGED <<clock, pc, policy, resp, delay>>
    BY <1>6 DEF Cancel, vars, config, waiting
  <2>2. QED
    BY <2>1 DEF AskedUpToCap, Asked, Wished
<1>7. CASE Tick
  <2>1. clock' = clock + 1 /\ UNCHANGED <<pc, policy, resp, delay>>
    BY <1>7 DEF Tick, config, waiting
  <2>2. AskedUpToCap => AskedUpToCap'
    <3>1. resp.ms \in HeaderValue /\ resp.seconds \in HeaderValue /\ clock \in Nat
      BY NoReplyType DEF Typed, TypeOK
    <3>2. /\ Asked(resp, clock + 1).delay <= Asked(resp, clock).delay
          /\ Asked(resp, clock + 1).delay \in Int
          /\ Asked(resp, clock).delay \in Int
      BY <3>1, WishShrinks, RequestedType DEF Asked
    <3>3. policy.maxRetryAfter \in Int
      BY SendAssumption, RetryAssumption DEF Typed, TypeOK, PolicyType, Int64, MinInt
    <3>4. (Asked(resp, clock).delay)' = Asked(resp, clock + 1).delay
      BY <2>1 DEF Asked
    <3>5. QED
      BY <2>1, <3>2, <3>3, <3>4 DEF AskedUpToCap, OverCap
  <2>3. QED
    BY <2>1, <2>2 DEF Wished
<1>8. QED
  BY <1>1, <1>2, <1>3, <1>4, <1>5, <1>6, <1>7 DEF Next

(* A call is never parked on a server's wish for longer than MaxRetryAfter,*)
(* although the wish is read at two instants, for every policy and every   *)
(* pair of headers whose wish 64 bits can hold (retryable, then delay).    *)
THEOREM ParksUpToCap ==
  ASSUME ShortWishes
  PROVE  Spec => []ParkedUpToCap
<1>1. CappedWish => ParkedUpToCap
  BY DEF CappedWish, Wished, ParkedUpToCap
<1>2. Typed /\ Genuine /\ CappedWish /\ [Next]_vars => CappedWish'
  BY CappedWishStep
<1>3. QED
  BY <1>1, <1>2, CappedWishInit, GenuineInit, GenuineStep, TypedInit, TypedStep, PTL
     DEF Spec

(***************************************************************************)
(* LateStart.  The attempt begun after the caller gave up sends nothing    *)
(* and fails, so the loop never sleeps again.                              *)
(***************************************************************************)
LateStart ==
  /\ lateStarts \in {0, 1}
  /\ lateStarts = 1 =>
       /\ callerDone
       /\ \/ pc \in {"dialing", "returning", "done"}
          \/ pc = "returned" /\ resp = NoReply

LEMMA LateStartInit == Init => LateStart
BY DEF Init, LateStart

LEMMA LateStartStep == LateStart /\ [Next]_vars => LateStart'
<1> SUFFICES ASSUME LateStart, [Next]_vars PROVE LateStart'
  OBVIOUS
<1> USE DEF LateStart
<1>1. CASE Begin \/ Wake
  BY <1>1 DEF Begin, Wake, StartAttempt, caller
<1>2. CASE Transmit \/ HeadArrives \/ BodyArrives \/ AttemptFails
  BY <1>2 DEF Transmit, HeadArrives, BodyArrives, AttemptFails, caller, history
<1>3. CASE GiveUp \/ Stop \/ DecideRetry \/ ChooseDelay
  BY <1>3 DEF GiveUp, Stop, DecideRetry, GivenUp, ChooseDelay, caller, history
<1>4. CASE StopForBudget \/ PassBudget \/ StartSleep \/ Interrupted \/ Conclude
  BY <1>4 DEF StopForBudget, PassBudget, StartSleep, Interrupted, Conclude, caller,
              history
<1>5. CASE Cancel \/ Tick \/ UNCHANGED vars
  BY <1>5 DEF Cancel, Tick, vars, caller, history
<1>6. QED
  BY <1>1, <1>2, <1>3, <1>4, <1>5 DEF Next

(* Once the caller gave up at most one more attempt begins, whatever the   *)
(* policy and however timer and context race (Sleep's select).             *)
THEOREM AtMostOneLateStart == Spec => []OneLateStart
<1>1. LateStart => OneLateStart
  BY DEF LateStart, OneLateStart
<1>2. QED
  BY <1>1, LateStartInit, LateStartStep, PTL DEF Spec

(***************************************************************************)
(* BodyRead.  A response the loop holds was read as far as Read allows,    *)
(* and a call's outcome is the Conclusion from it.                         *)
(***************************************************************************)
BodyRead ==
  /\ resp # NoReply =>
       IF pc = "reading" THEN resp.read = 0 ELSE resp.read = Read(resp.size)
  /\ outcome.kind \notin {"none", "invalid"} => pc = "done" /\ outcome.kind = Conclusion

LEMMA BodyReadInit == Init => BodyRead
BY DEF Init, BodyRead, Pending

LEMMA BodyReadStep == Typed /\ BodyRead /\ [Next]_vars => BodyRead'
<1> SUFFICES ASSUME Typed, BodyRead, [Next]_vars PROVE BodyRead'
  OBVIOUS
<1> USE DEF BodyRead
<1>1. CASE Begin
  BY <1>1 DEF Begin, StartAttempt, Pending, Read, ReadLimit
<1>2. CASE HeadArrives
  <2>1. resp'.read = 0 /\ pc = "waiting" /\ pc' = "reading" /\ outcome' = outcome
    BY <1>2, SendAssumption DEF HeadArrives
  <2>2. QED
    BY <2>1
<1>3. CASE BodyArrives
  <2>1. resp \in ReplyType /\ resp' = [resp EXCEPT !.read = Read(resp.size)]
    BY <1>3 DEF BodyArrives, Typed
  <2>2. resp'.read = Read(resp.size) /\ resp'.size = resp.size
    BY <2>1 DEF ReplyType
  <2>3. pc = "reading" /\ pc' = "returned" /\ UNCHANGED <<cap, outcome>>
    BY <1>3 DEF BodyArrives, config
  <2>4. QED
    BY <2>2, <2>3 DEF Read, ReadLimit
<1>4. CASE AttemptFails \/ GiveUp \/ Interrupted
  BY <1>4 DEF AttemptFails, GiveUp, Interrupted
<1>5. CASE Conclude
  <2>1. /\ pc = "returning" /\ pc' = "done" /\ UNCHANGED <<resp, cap>>
        /\ outcome'.kind = Conclusion
    BY <1>5 DEF Conclude, config
  <2>2. Conclusion' = Conclusion
    BY <2>1 DEF Conclusion
  <2>3. QED
    BY <2>1, <2>2 DEF Read, ReadLimit
<1>6. CASE Transmit \/ Stop \/ DecideRetry \/ ChooseDelay \/ StopForBudget
             \/ PassBudget \/ StartSleep \/ Wake
  <2>1. /\ pc \notin {"reading", "done"} /\ pc' \notin {"reading", "done"}
        /\ UNCHANGED <<resp, cap, outcome>>
    BY <1>6 DEF Transmit, Stop, DecideRetry, ChooseDelay, StopForBudget,
                PassBudget, StartSleep, Wake, StartAttempt, config
  <2>2. QED
    BY <2>1 DEF Read, ReadLimit
<1>7. CASE Cancel \/ Tick \/ UNCHANGED vars
  <2>1. UNCHANGED <<pc, resp, cap, outcome>>
    BY <1>7 DEF Cancel, Tick, vars, config
  <2>2. QED
    BY <2>1 DEF Read, ReadLimit, Conclusion
<1>8. QED
  BY <1>1, <1>2, <1>3, <1>4, <1>5, <1>6, <1>7 DEF Next

(* A result is never built from part of a body, a body within the cap is   *)
(* never refused and no more than one byte past the cap is held, for every *)
(* cap up to the largest int64, where one byte more cannot be asked for    *)
(* (attempt's LimitReader, do's comparison).                               *)
THEOREM ReportsWholeBody ==
  ASSUME BodiesFit
  PROVE  Spec => []WholeBody
<1>1. Typed /\ Genuine /\ BodyRead => WholeBody
  <2> SUFFICES ASSUME Typed, Genuine, BodyRead PROVE WholeBody
    OBVIOUS
  <2>1. cap \in 0..MaxInt /\ MaxInt \in Nat /\ resp.size \in Nat
    BY SendAssumption, RetryAssumption, NoReplyType DEF Typed, TypeOK
  <2>2. CASE resp = NoReply
    BY <2>1, <2>2 DEF WholeBody, BodyRead, Conclusion, NoReply
  <2>3. CASE resp # NoReply
    <3>1. resp.size <= MaxInt
      BY <2>3 DEF Genuine, BodiesFit
    <3>2. /\ outcome.kind = "ok" => pc = "done" /\ ~(cap > 0 /\ resp.read > cap)
          /\ outcome.kind = "too_large" => pc = "done" /\ cap > 0 /\ resp.read > cap
      BY <2>3 DEF BodyRead, Conclusion
    <3>3. (pc = "reading" /\ resp.read = 0) \/ resp.read = Read(resp.size)
      BY <2>3 DEF BodyRead
    <3>4. /\ cap = 0 => Read(resp.size) = resp.size
          /\ cap > 0 => /\ Read(resp.size) <= cap + 1
                        /\ Read(resp.size) <= resp.size
                        /\ Read(resp.size) <= cap => Read(resp.size) = resp.size
      BY <2>1, <3>1 DEF Read, ReadLimit, AtMost, AtLeast
    <3>5. Read(resp.size) \in Int
      BY <2>1 DEF Read, ReadLimit, AtMost, AtLeast
    <3>6. pc = "done" => resp.read = Read(resp.size)
      BY <3>3
    <3>7. outcome.kind = "ok" => resp.read = resp.size
      BY <2>1, <3>2, <3>4, <3>5, <3>6
    <3>8. outcome.kind = "too_large" => cap > 0 /\ resp.size > cap
      BY <2>1, <3>2, <3>4, <3>5, <3>6
    <3>9. cap > 0 => resp.read <= cap + 1
      BY <2>1, <3>3, <3>4
    <3>10. QED
      BY <3>7, <3>8, <3>9 DEF WholeBody
  <2>4. QED
    BY <2>2, <2>3
<1>2. QED
  BY <1>1, BodyReadInit, BodyReadStep, GenuineInit, GenuineStep,
     TypedInit, TypedStep, PTL
     DEF Spec

(***************************************************************************)
(* StopExplained.  The reason is there when the loop stops and stays: the  *)
(* caller does not take a cancellation back, the response and the policy   *)
(* no longer change, and the time spent only grows.                        *)
(***************************************************************************)
BudgetReached == policy.budget > 0 /\ clock - start + delay >= policy.budget
Reason        == callerDone \/ ~FailureAccepted \/ AskedTooLong \/ BudgetReached

StopExplained ==
  /\ start <= clock /\ seenAt <= clock
  /\ pc = "checking" => MinInt <= delay
  /\ pc = "returning" /\ Conclusion \in {"api", "transport"}
                      /\ attempt <= policy.maxRetries => Reason
  /\ pc = "done" /\ outcome.kind \in {"api", "transport"}
                 /\ outcome.attempts <= policy.maxRetries => Reason

LEMMA StopExplainedInit == Init => StopExplained
BY DEF Init, StopExplained

(* A delay is never below the least 64-bit duration. *)
LEMMA DelayHasWidth ==
  ASSUME Typed, Valid(policy), attempt # 0,
         NEW d \in Delays(policy, attempt, resp.ms, resp.seconds, clock)
  PROVE  MinInt <= d
<1>1. /\ resp.ms.value \in Int /\ resp.seconds.value \in Int /\ clock \in Nat
      /\ MaxInt \in Nat
  BY NoReplyType, RetryAssumption DEF Typed, TypeOK, HeaderValue
<1>2. Asked(resp, clock).delay \in Int /\ MinInt <= Asked(resp, clock).delay
  <2>1. \A header \in {resp.ms, resp.seconds} :
          Usable(header) => FloatToInt(header.value) \in Int
                            /\ MinInt <= FloatToInt(header.value)
    BY <1>1, RetryAssumption DEF Usable, FloatToInt, MinInt
  <2>2. /\ AtLeast(Saturated(resp.seconds.value - clock), 0) \in Int
        /\ MinInt <= AtLeast(Saturated(resp.seconds.value - clock), 0)
    BY <1>1 DEF AtLeast, Saturated, MinInt
  <2>3. QED
    BY <1>1, <2>1, <2>2 DEF Asked, Requested, Given, NotGiven, MinInt
<1>3. \A wait \in Backoff(policy, attempt) : wait \in Int /\ MinInt <= wait
  <2>1. policy \in PolicyType /\ attempt \in Nat \ {0} /\ policy.backoffMax \in Int
    BY SendAssumption, RetryAssumption DEF Typed, TypeOK, PolicyType, Int64, MinInt
  <2>2. \A wait \in Backoff(policy, attempt) : wait \in 0..policy.backoffMax
    BY <2>1, BackoffBounds
  <2>3. QED
    BY <1>1, <2>1, <2>2 DEF MinInt
<1>4. QED
  BY <1>2, <1>3 DEF Delays, Asked

(* What the loop reads as too long a wait is one the server meant. *)
LEMMA CapMeant ==
  ASSUME Typed, Genuine, ShortWishes, resp # NoReply, seenAt <= clock,
         OverCap(policy, Asked(resp, clock).delay)
  PROVE  AskedTooLong
<1>1. /\ clock \in Nat /\ seenAt \in Nat /\ MaxInt \in Nat
      /\ policy.maxRetryAfter \in Int
  BY SendAssumption, RetryAssumption
     DEF Typed, TypeOK, PolicyType, Int64, MinInt
<1>2. /\ policy.respectRetryAfter /\ policy.maxRetryAfter > 0
      /\ Asked(resp, clock).delay > policy.maxRetryAfter
  BY DEF OverCap
<1>3. CASE Usable(resp.ms)
  <2>1. /\ Asked(resp, clock).delay = resp.ms.value
        /\ NotBefore(resp) = seenAt + resp.ms.value
    BY <1>3, WishUnderstood DEF Asked, Requested, Given, FloatToInt, NotBefore, Holds, Short
  <2>2. QED
    BY <1>1, <1>2, <2>1, WishUnderstood DEF AskedTooLong
<1>4. CASE ~Usable(resp.ms) /\ Usable(resp.seconds)
  <2>1. /\ Asked(resp, clock).delay = resp.seconds.value
        /\ NotBefore(resp) = seenAt + resp.seconds.value
    BY <1>4, WishUnderstood DEF Asked, Requested, Given, FloatToInt, NotBefore, Holds, Short
  <2>2. QED
    BY <1>1, <1>2, <2>1, WishUnderstood DEF AskedTooLong
<1>5. CASE ~Usable(resp.ms) /\ ~Usable(resp.seconds) /\ resp.seconds.kind = "date"
  <2>1. /\ Asked(resp, clock).delay = AtLeast(Saturated(resp.seconds.value - clock), 0)
        /\ NotBefore(resp) = resp.seconds.value
    BY <1>5, WishUnderstood DEF Asked, Requested, Given, NotBefore, Holds
  <2>2. resp.seconds.value \in Int /\ resp.seconds.value <= MaxInt
    BY <1>5, WishUnderstood DEF Short
  <2>3. resp.seconds.value - clock > policy.maxRetryAfter
    BY <1>1, <1>2, <2>1, <2>2 DEF AtLeast, Saturated, MinInt
  <2>4. QED
    BY <1>1, <1>2, <2>1, <2>2, <2>3 DEF AskedTooLong
<1>6. CASE ~Usable(resp.ms) /\ ~Usable(resp.seconds) /\ resp.seconds.kind # "date"
  BY <1>1, <1>2, <1>6 DEF Asked, Requested, NotGiven
<1>7. QED
  BY <1>3, <1>4, <1>5, <1>6

(* Until the attempts run out the loop stops for what the policy says of   *)
(* the failure.                                                            *)
LEMMA StopReason ==
  ASSUME Typed, Genuine, ShortWishes, LimitsFit, seenAt <= clock, Stop,
         Conclusion \in {"api", "transport"}, attempt <= policy.maxRetries
  PROVE  ~FailureAccepted \/ AskedTooLong
<1>1. /\ policy.maxRetries \in Int /\ attempt \in Nat /\ MaxInt \in Nat
      /\ policy.maxRetries < MaxInt
  BY SendAssumption, RetryAssumption
     DEF Typed, TypeOK, PolicyType, Int64, MinInt, LimitsFit
<1>2. attempt < Limit
  <2>1. policy.maxRetries + 1 \in Int64
    BY <1>1 DEF Int64, MinInt
  <2>2. Limit = AtLeast(policy.maxRetries + 1, 1)
    BY <2>1, WrapIdentity DEF Limit
  <2>3. QED
    BY <1>1, <2>2 DEF AtLeast
<1>3. ~Retryable(resp, clock)
  <2>1. Limit \in Int
    BY <1>1 DEF Limit, AtLeast, Wrap
  <2>2. attempt >= Limit \/ ~Retryable(resp, clock)
    BY DEF Stop
  <2>3. QED
    BY <1>1, <1>2, <2>1, <2>2
<1>4. CASE resp = NoReply
  BY <1>3, <1>4 DEF Retryable, RetryableTransport, FailureAccepted
<1>5. CASE resp # NoReply
  <2>1. ~Success(resp.status)
    BY <1>5 DEF Conclusion
  <2>2. CASE OverCap(policy, Asked(resp, clock).delay)
    BY <1>5, <2>2, CapMeant
  <2>3. CASE ~OverCap(policy, Asked(resp, clock).delay)
    BY <1>3, <1>5, <2>1, <2>3 DEF Retryable, RetryableStatus, FailureAccepted
  <2>4. QED
    BY <2>2, <2>3
<1>6. QED
  BY <1>4, <1>5

(* The sum the budget check computes can wrap, and then looks smaller than *)
(* it is; it never looks larger.                                           *)
LEMMA OverBudgetMeant ==
  ASSUME Typed, start <= clock, MinInt <= delay, OverBudget(delay)
  PROVE  BudgetReached
<1>1. /\ clock \in Nat /\ start \in Nat /\ delay \in Int /\ MaxInt \in Nat
      /\ policy.budget \in Int /\ policy.budget <= MaxInt
  BY SendAssumption, RetryAssumption
     DEF Typed, TypeOK, PolicyType, Int64, MinInt
<1> DEFINE sum == Saturated(clock - start) + delay
<1>2. sum \in Int /\ MinInt <= sum /\ sum <= clock - start + delay
  BY <1>1 DEF Saturated, MinInt
<1>3. policy.budget > 0 /\ Wrap(sum) >= policy.budget
  BY DEF OverBudget
<1> HIDE DEF sum
<1>4. CASE sum <= MaxInt
  <2>1. Wrap(sum) = sum
    BY <1>1, <1>2, <1>4, WrapIdentity DEF Int64, MinInt
  <2>2. QED
    BY <1>1, <1>2, <1>3, <2>1 DEF BudgetReached
<1>5. CASE sum > MaxInt
  BY <1>1, <1>2, <1>3, <1>5 DEF BudgetReached
<1>6. QED
  BY <1>1, <1>2, <1>4, <1>5

LEMMA StopExplainedStep ==
  ASSUME ShortWishes, LimitsFit
  PROVE  Typed /\ Genuine /\ StopExplained /\ [Next]_vars => StopExplained'
<1> SUFFICES ASSUME Typed, Genuine, StopExplained, [Next]_vars
             PROVE  StopExplained'
  OBVIOUS
<1>1. /\ clock \in Nat /\ seenAt \in Nat /\ start \in Nat /\ delay \in Int
      /\ start <= clock /\ seenAt <= clock
  BY DEF Typed, TypeOK, StopExplained
<1>2. CASE Begin
  BY <1>1, <1>2 DEF Begin, StartAttempt, Pending, StopExplained
<1>3. CASE Transmit \/ HeadArrives \/ BodyArrives \/ AttemptFails \/ DecideRetry
  BY <1>1, <1>3 DEF Transmit, HeadArrives, BodyArrives, AttemptFails,
                    DecideRetry, config, history, StopExplained
<1>4. CASE GiveUp \/ Interrupted
  BY <1>1, <1>4 DEF GiveUp, GivenUp, Interrupted, caller, config, history,
                    StopExplained, Reason
<1>5. CASE Stop \/ StopForBudget
  <2>1. /\ pc' = "returning"
        /\ UNCHANGED <<clock, callerDone, policy, cap, start, attempt, resp, delay, seenAt>>
    BY <1>5 DEF Stop, StopForBudget, caller, config, trying, waiting, history
  <2>2. /\ Conclusion' = Conclusion /\ FailureAccepted' = FailureAccepted
        /\ AskedTooLong' = AskedTooLong /\ BudgetReached' = BudgetReached
    BY <2>1 DEF Conclusion, FailureAccepted, AskedTooLong, NotBefore, BudgetReached
  <2>3. Conclusion \in {"api", "transport"} /\ attempt <= policy.maxRetries => Reason
    <3>1. CASE Stop
      BY <1>1, <3>1, StopReason DEF Reason
    <3>2. CASE StopForBudget
      BY <1>1, <3>2, OverBudgetMeant DEF StopForBudget, StopExplained, Reason
    <3>3. QED
      BY <1>5, <3>1, <3>2
  <2>4. QED
    BY <1>1, <2>1, <2>2, <2>3 DEF StopExplained, Reason
<1>6. CASE ChooseDelay
  <2>1. MinInt <= delay'
    BY <1>6, DelayHasWidth DEF ChooseDelay, Typed, TypeOK
  <2>2. QED
    BY <1>1, <1>6, <2>1 DEF ChooseDelay, config, history, StopExplained, MinInt
<1>7. CASE PassBudget \/ StartSleep \/ Wake
  BY <1>1, <1>7 DEF PassBudget, StartSleep, Wake, StartAttempt, config, history,
                    StopExplained
<1>8. CASE Conclude
  <2>1. /\ pc = "returning" /\ pc' = "done"
        /\ outcome'.kind = Conclusion /\ outcome'.attempts = attempt
        /\ UNCHANGED <<clock, callerDone, policy, start, resp, delay, seenAt>>
    BY <1>8 DEF Conclude, caller, config, waiting, history
  <2>2. /\ FailureAccepted' = FailureAccepted /\ AskedTooLong' = AskedTooLong
        /\ BudgetReached' = BudgetReached
    BY <2>1 DEF FailureAccepted, AskedTooLong, NotBefore, BudgetReached
  <2>3. QED
    BY <1>1, <2>1, <2>2 DEF StopExplained, Reason
<1>9. CASE Cancel \/ Tick \/ UNCHANGED vars
  <2>1. /\ UNCHANGED <<pc, policy, cap, start, attempt, resp, delay, outcome, seenAt>>
        /\ clock' = clock \/ clock' = clock + 1
        /\ callerDone => callerDone'
    BY <1>9 DEF Cancel, Tick, vars, caller, config, trying, waiting, history
  <2>2. /\ Conclusion' = Conclusion /\ FailureAccepted' = FailureAccepted
        /\ AskedTooLong' = AskedTooLong
    BY <2>1 DEF Conclusion, FailureAccepted, AskedTooLong, NotBefore
  <2>3. policy.budget \in Int
    BY SendAssumption, RetryAssumption DEF Typed, TypeOK, PolicyType, Int64, MinInt
  <2>4. BudgetReached => BudgetReached'
    BY <1>1, <2>1, <2>3 DEF BudgetReached
  <2>5. QED
    BY <1>1, <2>1, <2>2, <2>4 DEF StopExplained, Reason, MinInt
<1>10. QED
  BY <1>2, <1>3, <1>4, <1>5, <1>6, <1>7, <1>8, <1>9 DEF Next

(* A call that fails with retries left has a reason: the caller gave up,   *)
(* the policy does not retry this failure, the server asked for too long a *)
(* wait, or the budget would be reached; for every policy whose limit does *)
(* not wrap and wishes 64 bits can hold (Send's loop, retryable).          *)
THEOREM StopsForAReason ==
  ASSUME ShortWishes, LimitsFit
  PROVE  Spec => []EarlyStopHasReason
<1>1. StopExplained => EarlyStopHasReason
  BY DEF StopExplained, Reason, BudgetReached, EarlyStopHasReason
<1>2. Typed /\ Genuine /\ StopExplained /\ [Next]_vars => StopExplained'
  BY StopExplainedStep
<1>3. QED
  BY <1>1, <1>2, StopExplainedInit, GenuineInit, GenuineStep, TypedInit, TypedStep, PTL
     DEF Spec
=============================================================================
