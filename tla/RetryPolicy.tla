---------------------------- MODULE RetryPolicy ----------------------------
(***************************************************************************)
(* The retry rules of a call (src/retry.go): whether a policy is accepted, *)
(* whether a failure is retried, and how long the retry is put off.  The   *)
(* module has no state; Send.tla evaluates it at the instants the code     *)
(* does.                                                                   *)
(*                                                                         *)
(* Durations and instants are integers (one unit stands for a nanosecond). *)
(* They are 64 bits wide in the code; MaxInt is the largest one here, so a *)
(* small MaxInt puts the wrap-around within reach of a small model.        *)
(***************************************************************************)
EXTENDS Integers

CONSTANTS
  MaxInt,       \* math.MaxInt64, and MaxInt where the code counts attempts
  Converted,    \* what time.Duration(x) yields for the float64 x = MaxInt + 1:
                \* the Go specification leaves it to the implementation
  FloatBits     \* bits in the significand of a float64: 53

MinInt == -MaxInt - 1
Int64  == MinInt..MaxInt

ASSUME RetryAssumption ==
  /\ MaxInt \in Nat \ {0}
  /\ Converted \in {MinInt, MaxInt}   \* amd64 and arm64 respectively
  /\ FloatBits \in Nat \ {0}

(***************************************************************************)
(* Width.  Wrap is integer arithmetic, Saturated is time.Time.Sub, and     *)
(* FloatToInt is time.Duration(x) of a float64 that passed the guard       *)
(* x <= float64(math.MaxInt64) = MaxInt + 1.                               *)
(***************************************************************************)
Wrap(n)       == ((n + MaxInt + 1) % (2 * (MaxInt + 1))) - (MaxInt + 1)
Saturated(n)  == IF n > MaxInt THEN MaxInt ELSE IF n < MinInt THEN MinInt ELSE n
FloatToInt(x) == IF x <= MaxInt THEN x ELSE Converted

AtLeast(n, low)  == IF n < low THEN low ELSE n
AtMost(n, high)  == IF n > high THEN high ELSE n

(***************************************************************************)
(* Floats.  A float64 that is a whole number is a multiple of the power of *)
(* two that leaves FloatBits bits of it; a result between two of them goes *)
(* to the nearer one, and of two as near to the one with an even multiple. *)
(* rand.Float64 and, here, BackoffJitter are multiples of 1/FloatScale.    *)
(***************************************************************************)
power[k \in Nat] == IF k = 0 THEN 1 ELSE 2 * power[k - 1]

FloatScale == power[FloatBits]

Exponent(n) ==
  CHOOSE k \in 0..n : /\ n < FloatScale * power[k]
                      /\ k > 0 => FloatScale * power[k - 1] <= n

(* A function, for TLC to evaluate its argument once. *)
Nearest ==
  [n \in Nat |->
     LET unit  == power[Exponent(n)]
         below == n \div unit
         rest  == n % unit
         up    == 2 * rest > unit \/ (2 * rest = unit /\ below % 2 = 1)
     IN  unit * (IF up THEN below + 1 ELSE below)]

Round(n) == Nearest[n]

(***************************************************************************)
(* A header value as the parser tells values apart: absent, text that is   *)
(* neither a number nor a date (NaN and infinities included), a number     *)
(* already multiplied by its unit, or an HTTP date.  An empty value reads  *)
(* as the number 0.                                                        *)
(***************************************************************************)
HeaderValue == [kind : {"absent", "text", "number", "date"}, value : Int]
Absent      == [kind |-> "absent", value |-> 0]

(* A failure is named by its status; an attempt without a response has 0.  *)
Transport == 0

PolicyType ==
  [maxRetries        : Int64,
   backoffInitial    : Int64,
   backoffMax        : Int64,
   backoffJitter     : Int,             \* in units of 1/FloatScale
   retryStatuses     : SUBSET Nat,
   respectRetryAfter : BOOLEAN,
   maxRetryAfter     : Int64,
   retryTransport    : BOOLEAN,
   budget            : Int64,
   optIn             : SUBSET Nat]
      \* the failures the caller's own Retry predicate accepts

Valid(policy) ==
  /\ policy.maxRetries >= 0
  /\ policy.backoffInitial >= 0
  /\ policy.backoffMax >= 0
  /\ policy.backoffJitter \in 0..FloatScale
  /\ policy.budget >= 0
  /\ policy.maxRetryAfter >= 0

(***************************************************************************)
(* parseRetryAfter.  The millisecond header comes first; one that gives no *)
(* usable number defers to the seconds header, which alone may be a date.  *)
(***************************************************************************)
Usable(header) == header.kind = "number" /\ header.value \in 0..(MaxInt + 1)

Given(delay) == [ok |-> TRUE, delay |-> delay]
NotGiven     == [ok |-> FALSE, delay |-> 0]

(* Mutant of Requested: HTTP dates not understood. *)
Requested_NoDates(ms, seconds, now) ==
  IF Usable(ms) THEN Given(FloatToInt(ms.value))
  ELSE IF Usable(seconds) THEN Given(FloatToInt(seconds.value))
  ELSE NotGiven

Requested(ms, seconds, now) ==
  IF Usable(ms) THEN Given(FloatToInt(ms.value))
  ELSE IF Usable(seconds) THEN Given(FloatToInt(seconds.value))
  ELSE IF seconds.kind = "date"
       THEN Given(AtLeast(Saturated(seconds.value - now), 0))
  ELSE NotGiven

(***************************************************************************)
(* retryable.  A failure is the status of a response together with the     *)
(* wait it asked for, or Transport with no wait.  The cap outranks every   *)
(* rule, the caller's predicate included.                                  *)
(***************************************************************************)
OverCap(policy, retryAfter) ==
  /\ policy.respectRetryAfter
  /\ policy.maxRetryAfter > 0
  /\ retryAfter > policy.maxRetryAfter

(* Mutant of RetryableStatus: the caller's predicate outranks the cap. *)
RetryableStatus_PredicateFirst(policy, status, retryAfter) ==
  \/ status \in policy.optIn
  \/ ~OverCap(policy, retryAfter) /\ status \in policy.retryStatuses

RetryableStatus(policy, status, retryAfter) ==
  /\ ~OverCap(policy, retryAfter)
  /\ status \in policy.retryStatuses \cup policy.optIn

RetryableTransport(policy) ==
  policy.retryTransport \/ Transport \in policy.optIn

(***************************************************************************)
(* backoff.  doubled[n] is the delay after n turns of the loop.  What the  *)
(* jitter takes is time.Duration(float64(delay) * BackoffJitter * random): *)
(* the delay is rounded to a float, each product is, and the result is     *)
(* truncated.  The numerators of the products are over FloatScale and its  *)
(* square; random is any draw in [0, 1).                                   *)
(***************************************************************************)
(* Mutant of FullBackoff: one doubling too many. *)
FullBackoff_OneMore(policy, attempt) ==
  LET doubled[n \in Nat] ==
        IF n = 0 THEN policy.backoffInitial
        ELSE LET delay == doubled[n - 1]
             IN  IF delay >= policy.backoffMax \/ delay > MaxInt \div 2
                 THEN delay
                 ELSE 2 * delay
  IN  AtMost(doubled[attempt], policy.backoffMax)

FullBackoff(policy, attempt) ==
  LET doubled[n \in Nat] ==
        IF n = 0 THEN policy.backoffInitial
        ELSE LET delay == doubled[n - 1]
             IN  IF delay >= policy.backoffMax \/ delay > MaxInt \div 2
                 THEN delay
                 ELSE 2 * delay
  IN  AtMost(doubled[AtLeast(attempt - 1, 0)], policy.backoffMax)

Product(full, jitter, draw) == Round(Round(Round(full) * jitter) * draw)

(* Mutant of Taken: the product rounded instead of truncated. *)
Taken_Rounded(full, jitter, draw) ==
  (2 * Product(full, jitter, draw) + FloatScale * FloatScale)
    \div (2 * FloatScale * FloatScale)

Taken(full, jitter, draw) ==
  Product(full, jitter, draw) \div (FloatScale * FloatScale)

Jittered(policy, full) ==
  {full - Taken(full, policy.backoffJitter, draw) : draw \in 0..(FloatScale - 1)}

Backoff(policy, attempt) ==
  IF policy.backoffInitial <= 0 \/ policy.backoffMax <= 0
  THEN {0}
  ELSE Jittered(policy, FullBackoff(policy, attempt))

(* delay: the server's wish, else the computed backoff. *)
Delays(policy, attempt, ms, seconds, now) ==
  LET requested == Requested(ms, seconds, now)
  IN  IF policy.respectRetryAfter /\ requested.ok
      THEN {requested.delay}
      ELSE Backoff(policy, attempt)
=============================================================================
