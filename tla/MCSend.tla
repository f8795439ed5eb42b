------------------------------- MODULE MCSend -------------------------------
(***************************************************************************)
(* Instances of Send for TLC: the policies, replies and bounds the         *)
(* configurations choose from.                                             *)
(***************************************************************************)
EXTENDS Send

Number(n) == [kind |-> "number", value |-> n]
Date(at)  == [kind |-> "date", value |-> at]
Text      == [kind |-> "text", value |-> 0]

Reply(status, ms, seconds, size) ==
  [status |-> status, ms |-> ms, seconds |-> seconds, size |-> size, read |-> 0]
Plain(status) == Reply(status, Absent, Absent, 0)

(* No retries at all, the zero value of RetryPolicy. *)
ZeroPolicy ==
  [maxRetries |-> 0, backoffInitial |-> 0, backoffMax |-> 0,
   backoffJitter |-> 0, retryStatuses |-> {}, respectRetryAfter |-> FALSE,
   maxRetryAfter |-> 0, retryTransport |-> FALSE, budget |-> 0, optIn |-> {}]

(* DefaultRetryPolicy, scaled down: two retries, jittered doubling backoff,*)
(* a cap on the server's wish and a budget.                                *)
DefaultPolicy ==
  [maxRetries |-> 2, backoffInitial |-> 1, backoffMax |-> 3,
   backoffJitter |-> 1, retryStatuses |-> {429, 500}, respectRetryAfter |-> TRUE,
   maxRetryAfter |-> 3, retryTransport |-> TRUE, budget |-> 6, optIn |-> {}]

BrokenPolicy  == [DefaultPolicy EXCEPT !.budget = -1]
Unbudgeted    == [DefaultPolicy EXCEPT !.budget = 0]
Uncapped      == [DefaultPolicy EXCEPT !.maxRetryAfter = 0]
OptingIn      == [ZeroPolicy EXCEPT !.maxRetries = 1, !.optIn = {400, Transport}]
NoBackoff     == [Unbudgeted EXCEPT !.backoffInitial = 0]
Insisting     == [DefaultPolicy EXCEPT !.retryStatuses = {}, !.optIn = {429},
                                       !.retryTransport = FALSE]
BigBackoff    == [DefaultPolicy EXCEPT !.backoffInitial = 5, !.backoffMax = 5,
                                       !.backoffJitter = 2, !.budget = 9]

(* headers: what the retry headers can say, read while the clock moves on. *)
HeaderPolicies == {DefaultPolicy, Uncapped, BrokenPolicy, Insisting}
HeaderReplies ==
  {Plain(200), Plain(400), Plain(429)} \cup
  {Reply(429, ms, seconds, 0) :
     ms \in {Absent, Number(-1), Number(2)},
     seconds \in {Number(4), Date(5), Number(-1), Text}}

(* call: exact timers, budgets against delays and timeouts, a network that *)
(* may be silent, and bodies of sizes around the cap.                      *)
CallPolicies == {DefaultPolicy, BigBackoff, Uncapped, OptingIn}
CallReplies  == {Reply(200, Absent, Absent, size) : size \in {1, 2}}
                  \cup {Plain(400), Plain(500), Reply(429, Absent, Number(2), 2),
                        Reply(500, Absent, Date(6), 0)}

(* overflow: a delay near MaxInt, from a far HTTP date. *)
OverflowPolicies == {Uncapped}
OverflowReplies  == {Reply(429, Absent, Date(60), 0)}

(* edge: a number that equals MaxInt + 1. *)
EdgePolicies == {NoBackoff}
EdgeReplies  == {Reply(429, Absent, Number(MaxInt + 1), 0)}
=============================================================================
