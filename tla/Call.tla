-------------------------------- MODULE Call --------------------------------
(***************************************************************************)
(* What one call of the client promises, whatever its timing: it opens     *)
(* with a number of retries allowed, sends numbered requests, and closes   *)
(* once with a result that fits what came back.  Send.tla implements it.   *)
(***************************************************************************)
EXTENDS Integers, Sequences

CONSTANTS Allowances   \* the MaxRetries values a call can have, integers

VARIABLES
  allowed,    \* how many retries the caller allowed
  requests,   \* the retry ordinals sent so far, 0 for the first request
  answers,    \* how many of the requests were answered
  result      \* "none" before the call, "open" during it, then its kind

vars == <<allowed, requests, answers, result>>

Init ==
  /\ allowed \in Allowances
  /\ requests = <<>>
  /\ answers = 0
  /\ result = "none"

Open ==
  /\ result = "none"
  /\ allowed' \in Allowances
  /\ allowed' >= 0
  /\ result' = "open"
  /\ UNCHANGED <<requests, answers>>

Reject ==
  /\ result = "none"
  /\ allowed' \in Allowances
  /\ result' = "invalid"
  /\ UNCHANGED <<requests, answers>>

(* The ordinals of the requests grow, and none exceeds the allowance. *)
Request(n) ==
  /\ result = "open"
  /\ \A i \in 1..Len(requests) : requests[i] < n
  /\ requests' = Append(requests, n)
  /\ UNCHANGED <<allowed, answers, result>>

Answer ==
  /\ result = "open"
  /\ answers < Len(requests)
  /\ answers' = answers + 1
  /\ UNCHANGED <<allowed, requests, result>>

(* Only a failure to communicate needs no answer. *)
Close ==
  /\ result = "open"
  /\ \/ result' = "transport"
     \/ answers > 0 /\ result' \in {"ok", "api", "too_large"}
  /\ UNCHANGED <<allowed, requests, answers>>

Next ==
  \/ Open \/ Reject
  \/ \E n \in 0..allowed : Request(n)
  \/ Answer \/ Close

Spec == Init /\ [][Next]_vars
=============================================================================
