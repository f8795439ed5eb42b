-------------------------------- MODULE Send --------------------------------
(***************************************************************************)
(* One call of the client, from Client.do (src/client.go) through          *)
(* transport.Client.Send and its attempts                                  *)
(* (src/internal/transport/transport.go).                                  *)
(*                                                                         *)
(* The call runs in the caller's goroutine.  It interleaves with three     *)
(* parties: the network, which answers, fails or stays silent; the caller, *)
(* whose context may end at any instant; and the clock.  Steps that only   *)
(* compute take no time unless Preemptible, when the scheduler may hold    *)
(* the goroutine between any two of them.                                  *)
(***************************************************************************)
EXTENDS RetryPolicy, Sequences

CONSTANTS
  Policies,     \* the retry policies in use, the client's and the calls' own
  Inherit,      \* stands for a call made without WithRetry
  Timeouts,     \* attempt timeouts in use; 0 is none
  Caps,         \* WithMaxResponseBytes values in use; 0 is no cap
  Replies,      \* the responses the network can deliver
  MaxClock,     \* bound: the clock stops here
  Preemptible   \* may time pass while the goroutine only computes?

(* A response: its status, its two retry headers, the size of the body the *)
(* server sent and how much of it was read.                                *)
ReplyType == [status : 100..599, ms : HeaderValue, seconds : HeaderValue,
              size : Nat, read : Nat]
NoReply   == [status |-> 0, ms |-> Absent, seconds |-> Absent,
              size |-> 0, read |-> 0]

ASSUME SendAssumption ==
  /\ Policies \subseteq PolicyType
  /\ Inherit \notin Policies
  /\ Timeouts \subseteq Nat
  /\ Caps \subseteq 0..MaxInt
  /\ Replies \subseteq ReplyType
  /\ \A reply \in Replies : reply.read = 0
  /\ MaxClock \in Nat
  /\ Preemptible \in BOOLEAN

Success(status) == status \in 200..299

Kinds   == {"none", "invalid", "ok", "api", "transport", "too_large"}
Pending == [kind |-> "none", attempts |-> 0, retryAfter |-> 0]

VARIABLES
  clock,         \* time.Now()
  callerDone,    \* ctx.Err() # nil: cancelled, or past its deadline
  pc,            \* where the goroutine is
  policy,        \* the effective RetryPolicy
  timeout,       \* Request.Timeout
  cap,           \* Request.MaxResponseBytes
  start,         \* Send's start
  attempt,       \* Send's attempt
  attemptStart,  \* when the attempt's own deadline began to run
  resp,          \* Send's resp; NoReply when err is set instead
  delay,         \* Send's delay
  wake,          \* when the sleeping timer fires
  outcome,       \* what do returns
  (* history, read only by properties *)
  wire,          \* the retry ordinals of the requests sent, 0 for none
  answered,      \* the retry ordinals of the requests whose response was read
  seenAt,        \* when the last response was complete
  lateStarts     \* attempts begun after the caller gave up

caller  == <<callerDone>>
config  == <<policy, timeout, cap, start>>
trying  == <<attempt, attemptStart>>
waiting == <<delay, wake>>
history == <<wire, answered, seenAt, lateStarts>>
vars == <<clock, callerDone, pc, policy, timeout, cap, start, attempt,
          attemptStart, resp, delay, wake, outcome,
          wire, answered, seenAt, lateStarts>>

InAttempt == {"dialing", "waiting", "reading"}
Computing == {"returned", "delaying", "checking", "parking", "returning"}
Places    == {"idle", "sleeping", "done"} \cup InAttempt \cup Computing

(* Mutants of Limit: the first attempt not counted, or counted twice. *)
Limit_RetriesOnly == AtLeast(policy.maxRetries, 1)
Limit_OneMore     == AtLeast(Wrap(policy.maxRetries + 2), 1)

(* transport.Policy.MaxAttempts is MaxRetries + 1, raised to one if less.  *)
Limit == AtLeast(Wrap(policy.maxRetries + 1), 1)

Init ==
  /\ clock = 0
  /\ callerDone \in BOOLEAN
  /\ pc = "idle"
  /\ policy \in Policies
  /\ timeout \in Timeouts
  /\ cap \in Caps
  /\ start = 0
  /\ attempt = 0
  /\ attemptStart = 0
  /\ resp = NoReply
  /\ delay = 0
  /\ wake = 0
  /\ outcome = Pending
  /\ wire = <<>>
  /\ answered = <<>>
  /\ seenAt = 0
  /\ lateStarts = 0

(* The delay of the loop's last turn is gone with the turn. *)
StartAttempt(n) ==
  /\ pc' = "dialing"
  /\ attempt' = n
  /\ attemptStart' = clock
  /\ delay' = 0
  /\ lateStarts' = IF callerDone THEN lateStarts + 1 ELSE lateStarts

(***************************************************************************)
(* do: a call's own policy and timeout replace the client's, an invalid    *)
(* policy fails before anything is sent, and Send begins its first         *)
(* attempt.                                                                *)
(***************************************************************************)
Begin ==
  /\ pc = "idle"
  /\ \E override \in Policies \cup {Inherit}, callTimeout \in Timeouts :
       /\ policy' = IF override = Inherit THEN policy ELSE override
       /\ timeout' = IF callTimeout > 0 THEN callTimeout ELSE timeout
  /\ IF Valid(policy')
     THEN /\ start' = clock
          /\ StartAttempt(1)
          /\ UNCHANGED outcome
     ELSE /\ pc' = "done"
          /\ outcome' = [Pending EXCEPT !.kind = "invalid"]
          /\ UNCHANGED <<start, trying, delay, lateStarts>>
  /\ UNCHANGED <<clock, caller, cap, resp, wake, wire, answered, seenAt>>

(* Mutant of Transmit: every attempt carries the first one's header. *)
Transmit_SameHeader ==
  /\ pc = "dialing"
  /\ ~callerDone
  /\ pc' = "waiting"
  /\ wire' = Append(wire, 0)
  /\ UNCHANGED <<clock, caller, config, trying, resp, waiting, outcome,
                 answered, seenAt, lateStarts>>

(***************************************************************************)
(* attempt.  http.Client.Do checks the context before it sends; from then  *)
(* on an answer and the end of the context race.                           *)
(***************************************************************************)
Transmit ==
  /\ pc = "dialing"
  /\ ~callerDone
  /\ pc' = "waiting"
  /\ wire' = Append(wire, attempt - 1)
  /\ UNCHANGED <<clock, caller, config, trying, resp, waiting, outcome,
                 answered, seenAt, lateStarts>>

HeadArrives ==
  /\ pc = "waiting"
  /\ \E reply \in Replies : resp' = reply
  /\ pc' = "reading"
  /\ UNCHANGED <<clock, caller, config, trying, waiting, outcome, history>>

(* Mutants of Read: no byte past the cap, or the limit left to wrap. *)
Read_UpToCap(size) == IF cap > 0 THEN AtMost(size, cap) ELSE size
Read_Wrapping(size) == IF cap > 0 THEN AtMost(size, Wrap(cap + 1)) ELSE size

(* io.LimitReader takes one byte past the cap; a limit that is not positive*)
(* reads nothing.                                                          *)
ReadLimit == IF cap < MaxInt THEN cap + 1 ELSE cap
Read(size) == IF cap > 0 THEN AtMost(size, AtLeast(ReadLimit, 0)) ELSE size

BodyArrives ==
  /\ pc = "reading"
  /\ pc' = "returned"
  /\ resp' = [resp EXCEPT !.read = Read(resp.size)]
  /\ answered' = Append(answered, attempt - 1)
  /\ seenAt' = clock
  /\ UNCHANGED <<clock, caller, config, trying, waiting, outcome,
                 wire, lateStarts>>

(* The network fails, the attempt's deadline passes or the context ends,   *)
(* at any point of the exchange: the response, if any, is dropped.         *)
AttemptFails ==
  /\ pc \in InAttempt
  /\ pc' = "returned"
  /\ resp' = NoReply
  /\ UNCHANGED <<clock, caller, config, trying, waiting, outcome, history>>

(***************************************************************************)
(* Send's loop after an attempt.                                           *)
(***************************************************************************)
Asked(reply, now) == Requested(reply.ms, reply.seconds, now)

Retryable(reply, now) ==
  IF reply = NoReply
  THEN RetryableTransport(policy)
  ELSE /\ ~Success(reply.status)
       /\ RetryableStatus(policy, reply.status, Asked(reply, now).delay)

(* Mutants of GivenUp: the context never asked, or asked of a response too.*)
GivenUp_Never    == FALSE
GivenUp_Whatever == callerDone

GivenUp == resp = NoReply /\ callerDone

(* The caller giving up outranks any retry rule. *)
GiveUp ==
  /\ pc = "returned"
  /\ GivenUp
  /\ pc' = "returning"
  /\ resp' = NoReply
  /\ UNCHANGED <<clock, caller, config, trying, waiting, outcome, history>>

Stop ==
  /\ pc = "returned"
  /\ ~GivenUp
  /\ attempt >= Limit \/ ~Retryable(resp, clock)
  /\ pc' = "returning"
  /\ UNCHANGED <<clock, caller, config, trying, resp, waiting, outcome, history>>

DecideRetry ==
  /\ pc = "returned"
  /\ ~GivenUp
  /\ attempt < Limit /\ Retryable(resp, clock)
  /\ pc' = "delaying"
  /\ UNCHANGED <<clock, caller, config, trying, resp, waiting, outcome, history>>

ChooseDelay ==
  /\ pc = "delaying"
  /\ delay' \in Delays(policy, attempt, resp.ms, resp.seconds, clock)
  /\ pc' = "checking"
  /\ UNCHANGED <<clock, caller, config, trying, resp, wake, outcome, history>>

(* Mutant of OverBudget: the time already spent forgotten. *)
OverBudget_DelayOnly(wait) == policy.budget > 0 /\ wait >= policy.budget

OverBudget(wait) ==
  policy.budget > 0 /\ Wrap(Saturated(clock - start) + wait) >= policy.budget

StopForBudget ==
  /\ pc = "checking"
  /\ OverBudget(delay)
  /\ pc' = "returning"
  /\ UNCHANGED <<clock, caller, config, trying, resp, waiting, outcome, history>>

PassBudget ==
  /\ pc = "checking"
  /\ ~OverBudget(delay)
  /\ pc' = "parking"
  /\ UNCHANGED <<clock, caller, config, trying, resp, waiting, outcome, history>>

(* Sleep starts its timer. *)
StartSleep ==
  /\ pc = "parking"
  /\ pc' = "sleeping"
  /\ wake' = clock + AtLeast(delay, 0)
  /\ UNCHANGED <<clock, caller, config, trying, resp, delay, outcome, history>>

(* Sleep returns nil.  With no delay it asks the context; otherwise the    *)
(* timer and the context race, and select takes either when both are ready.*)
Wake ==
  /\ pc = "sleeping"
  /\ clock >= wake
  /\ delay <= 0 => ~callerDone
  /\ StartAttempt(attempt + 1)
  /\ UNCHANGED <<clock, caller, config, resp, wake, outcome,
                 wire, answered, seenAt>>

(* Sleep returns ctx.Err(), which Send returns in place of the response.   *)
Interrupted ==
  /\ pc = "sleeping"
  /\ callerDone
  /\ pc' = "returning"
  /\ resp' = NoReply
  /\ UNCHANGED <<clock, caller, config, trying, waiting, outcome, history>>

(* do turns what Send returned into a result or an error; an APIError      *)
(* reads the retry headers once more.                                      *)
Conclusion ==
  IF resp = NoReply THEN "transport"
  ELSE IF ~Success(resp.status) THEN "api"
  ELSE IF cap > 0 /\ resp.read > cap THEN "too_large"
  ELSE "ok"

Conclude ==
  /\ pc = "returning"
  /\ pc' = "done"
  /\ outcome' = [kind |-> Conclusion, attempts |-> attempt,
                 retryAfter |-> IF Conclusion = "api"
                                THEN Asked(resp, clock).delay ELSE 0]
  /\ UNCHANGED <<clock, caller, config, trying, resp, waiting, history>>

(***************************************************************************)
(* The caller and the clock.  Timers are exact: an attempt ends by its     *)
(* deadline and a sleep by the first of its timer and the context, unless  *)
(* the goroutine is held off the processor.                                *)
(***************************************************************************)
Cancel ==
  /\ ~callerDone
  /\ callerDone' = TRUE
  /\ UNCHANGED <<clock, pc, config, trying, resp, waiting, outcome, history>>

(* Mutant of Expired: only the first attempt has a deadline. *)
Expired_FirstOnly == timeout > 0 /\ attempt = 1 /\ clock >= attemptStart + timeout

Expired == timeout > 0 /\ clock >= attemptStart + timeout

Tick ==
  /\ clock < MaxClock
  /\ \/ pc \in InAttempt /\ ~Expired /\ ~callerDone
     \/ pc = "sleeping" /\ (Preemptible \/ (clock < wake /\ ~callerDone))
     \/ pc \in Computing /\ Preemptible
  /\ clock' = clock + 1
  /\ UNCHANGED <<caller, pc, config, trying, resp, waiting, outcome, history>>

Next ==
  \/ Begin
  \/ Transmit \/ HeadArrives \/ BodyArrives \/ AttemptFails
  \/ GiveUp \/ Stop \/ DecideRetry \/ ChooseDelay
  \/ StopForBudget \/ PassBudget \/ StartSleep \/ Wake \/ Interrupted
  \/ Conclude
  \/ Cancel \/ Tick

(***************************************************************************)
(* Fairness.  The goroutine is scheduled and timers fire: while the call   *)
(* can do a step of its own it eventually does one, and time passes.       *)
(* Nothing is asked of the network, which may stay silent for ever, or of  *)
(* the caller, who need not cancel.  An attempt is certain to end only     *)
(* once its deadline passed or its context ended.                          *)
(***************************************************************************)
Own ==
  \/ GiveUp \/ Stop \/ DecideRetry \/ ChooseDelay
  \/ StopForBudget \/ PassBudget \/ StartSleep \/ Wake \/ Interrupted
  \/ Conclude

AttemptEnds == (Expired \/ callerDone) /\ AttemptFails

Fairness == WF_vars(Own) /\ WF_vars(AttemptEnds) /\ WF_vars(Tick)

Spec     == Init /\ [][Next]_vars
FairSpec == Spec /\ Fairness

(***************************************************************************)
(* Type correctness.                                                       *)
(***************************************************************************)
TypeOK ==
  /\ clock \in Nat
  /\ callerDone \in BOOLEAN
  /\ pc \in Places
  /\ policy \in Policies
  /\ timeout \in Timeouts
  /\ cap \in Caps
  /\ start \in Nat
  /\ attempt \in Nat
  /\ attemptStart \in Nat
  /\ resp \in ReplyType \cup {NoReply}
  /\ delay \in Int
  /\ wake \in Nat
  /\ outcome \in [kind : Kinds, attempts : Nat, retryAfter : Int]
  /\ wire \in Seq(Nat)
  /\ answered \in Seq(Nat)
  /\ seenAt \in Nat
  /\ lateStarts \in Nat

(***************************************************************************)
(* Safety.                                                                 *)
(***************************************************************************)
(* The requests of a call carry growing retry ordinals, none beyond        *)
(* MaxRetries, also when attempts that sent nothing leave gaps: the server *)
(* sees at most MaxRetries + 1 requests (Send's loop, the retry count      *)
(* header).                                                                *)
OrdinalsOnWire ==
  /\ \A i \in 1..Len(wire) : wire[i] \in 0..policy.maxRetries
  /\ \A i, j \in 1..Len(wire) : i < j => wire[i] < wire[j]

(* The instant before which the server asked not to be called again, for a *)
(* delay 64 bits can hold.                                                 *)
Holds(header) == header.kind = "number" /\ header.value >= 0
NotBefore(reply) ==
  CASE Holds(reply.ms) -> seenAt + reply.ms.value
    [] ~Holds(reply.ms) /\ Holds(reply.seconds) -> seenAt + reply.seconds.value
    [] ~Holds(reply.ms) /\ reply.seconds.kind = "date" -> reply.seconds.value
    [] OTHER -> 0

(* A retry never starts before the instant the last response asked to be   *)
(* left alone until, however the headers spelt it (parseRetryAfter, delay, *)
(* Sleep).                                                                 *)
RetryAfterHonored ==
  pc = "dialing" /\ attempt > 1 /\ policy.respectRetryAfter /\ resp # NoReply
    => clock >= NotBefore(resp)

(* No goroutine is parked on a server's wish for longer than MaxRetryAfter,*)
(* although the wish is read at one instant to decide and at a later one   *)
(* to sleep (retryable, then delay).                                       *)
ParkedUpToCap ==
  /\ pc = "sleeping"
  /\ policy.respectRetryAfter /\ policy.maxRetryAfter > 0
  /\ Holds(resp.ms) \/ Holds(resp.seconds) \/ resp.seconds.kind = "date"
  => delay <= policy.maxRetryAfter

(* No timer is set that would reach the budget, in a call that is never    *)
(* held off the processor: the check reads the clock, and Sleep starts its *)
(* timer later (Send's check, Sleep).                                      *)
NoSleepPastBudget ==
  ~Preemptible /\ pc = "sleeping" /\ policy.budget > 0
    => wake - start < policy.budget

(* With a budget and an attempt timeout, a call that is never held off the *)
(* processor lasts less than the two together: the budget bounds the start *)
(* of every retry, and the timeout what follows it.                        *)
WithinBudget ==
  ~Preemptible /\ pc # "idle" /\ policy.budget > 0 /\ timeout > 0
    => clock - start < policy.budget + timeout

(* What the policy says of the failure a call ended with. *)
FailureAccepted ==
  IF resp = NoReply
  THEN policy.retryTransport \/ Transport \in policy.optIn
  ELSE resp.status \in policy.retryStatuses \cup policy.optIn

AskedTooLong ==
  /\ policy.respectRetryAfter /\ policy.maxRetryAfter > 0
  /\ NotBefore(resp) - seenAt > policy.maxRetryAfter

(* A call that fails with retries left has a reason: the caller gave up,   *)
(* the policy does not retry this failure, the server asked for too long a *)
(* wait, or the budget would be reached (Send's loop, retryable).          *)
EarlyStopHasReason ==
  pc = "done" /\ outcome.kind \in {"api", "transport"}
              /\ outcome.attempts <= policy.maxRetries
    => \/ callerDone
       \/ ~FailureAccepted
       \/ AskedTooLong
       \/ policy.budget > 0 /\ clock - start + delay >= policy.budget

(* A result is never built from part of a body, a body within the cap is   *)
(* never refused, and no more than one byte past the cap is held (attempt's*)
(* LimitReader, do's comparison).                                          *)
WholeBody ==
  /\ outcome.kind = "ok" => resp.read = resp.size
  /\ outcome.kind = "too_large" => cap > 0 /\ resp.size > cap
  /\ cap > 0 => resp.read <= cap + 1

(* Once the caller gave up at most one more attempt begins: the one whose  *)
(* timer fired in the same instant (Sleep's select).                       *)
OneLateStart == lateStarts <= 1

(* A response that asks for longer than MaxRetryAfter is not retried.       *)
LongWishReturned ==
  pc = "sleeping" /\ (Holds(resp.ms) \/ Holds(resp.seconds)) => ~AskedTooLong

(* A call that ends with a failure to communicate read no response to the  *)
(* last request it made (Send, do).                                        *)
TransportMeansNoResponse ==
  outcome.kind = "transport" =>
    \A i \in 1..Len(answered) : answered[i] # outcome.attempts - 1

(***************************************************************************)
(* Liveness.                                                               *)
(***************************************************************************)
(* A call returns once its attempts are bounded by a timeout or the caller *)
(* gave up, even if the network stays silent.                              *)
Returns ==
  (pc # "idle" /\ (timeout > 0 \/ callerDone)) ~> (pc = "done")

(* A successful response that was read in full is what the call reports,   *)
(* also when the caller gives up in the same instant.                      *)
SuccessKept ==
  (pc = "returned" /\ Success(resp.status))
    ~> (outcome.kind \in {"ok", "too_large"})

(***************************************************************************)
(* The call implements its abstract specification.                         *)
(***************************************************************************)
Abstract ==
  INSTANCE Call WITH
    Allowances <- {known.maxRetries : known \in Policies},
    allowed    <- policy.maxRetries,
    requests   <- wire,
    answers    <- Len(answered),
    result     <- IF pc = "idle" THEN "none"
                  ELSE IF pc = "done" THEN outcome.kind ELSE "open"

(* Send is a call as Call.tla describes it. *)
ImplementsCall == Abstract!Spec
=============================================================================
