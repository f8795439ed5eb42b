------------------------------ MODULE FakeAPI ------------------------------
(***************************************************************************)
(* The server the repository's tests and examples call                     *)
(* (src/internal/fakeapi/fakeapi.go), and the network in front of it.      *)
(* net/http runs a handler per request, so handlers interleave: they log   *)
(* their request and take an injected failure under a mutex, and answer    *)
(* after they gave it up.                                                  *)
(*                                                                         *)
(* A request is not lost explicitly: it may stay in sent for ever.  It may *)
(* also be handled long after its sender gave up on it.  Requests without  *)
(* a key, without questions or for another path are left out: a client of  *)
(* this repository sends none.                                             *)
(***************************************************************************)
EXTENDS Integers, Sequences, FiniteSets

CONSTANTS
  Message,   \* what is sent: a request is a message and its attempt
  Plans,     \* the statuses FailFirst was given, in order: sequences
  Nobody     \* stands for a mutex that is free

OK      == 200
Request == [message : Message, attempt : Nat]

ASSUME FakeAPIAssumption ==
  /\ Plans \subseteq Seq(400..599)
  /\ Nobody \notin Request

VARIABLES
  sent,       \* the requests no handler has taken yet
  mu,         \* Server.mu: the request whose handler holds it, or Nobody
  handling,   \* the handlers between the mutex and their answer
  requests,   \* Server.requests
  failures,   \* Server.failures
  planned,    \* history: what failures was at first
  written     \* the answers written, read by their sender or not

server == <<mu, handling, requests, failures, planned, written>>

(* A handler: its request, its place, and what it took from the server. *)
Handler(request, place, sequence, injected) ==
  [request |-> request, place |-> place, sequence |-> sequence, injected |-> injected]

(* An answer names the request it belongs to: it uses its connection.      *)
Answer(request, status, id) == [request |-> request, status |-> status, id |-> id]

ServerInit ==
  /\ sent = {}
  /\ mu = Nobody
  /\ handling = {}
  /\ requests = <<>>
  /\ failures \in Plans
  /\ planned = failures
  /\ written = {}

(* Mutant of Lock: the mutex is not taken. *)
Lock_Not(request) ==
  /\ request \in sent
  /\ mu' = request
  /\ sent' = sent \ {request}
  /\ requests' = Append(requests, request)
  /\ handling' = handling \cup {Handler(request, "locked", Len(requests) + 1, OK)}
  /\ UNCHANGED <<failures, planned, written>>

(* handle reads the body, takes the mutex and logs the request. *)
Lock(request) ==
  /\ request \in sent
  /\ mu = Nobody
  /\ mu' = request
  /\ sent' = sent \ {request}
  /\ requests' = Append(requests, request)
  /\ handling' = handling \cup {Handler(request, "locked", Len(requests) + 1, OK)}
  /\ UNCHANGED <<failures, planned, written>>

(* Mutant of Take: the failure is read but stays in the queue. *)
Take_Peek(h) ==
  /\ h \in handling /\ h.place = "locked"
  /\ handling' = (handling \ {h}) \cup
       {Handler(h.request, "answering", h.sequence,
                IF failures = <<>> THEN OK ELSE Head(failures))}
  /\ mu' = Nobody
  /\ UNCHANGED <<sent, requests, failures, planned, written>>

(* An injected failure leaves the queue; the mutex is given up. *)
Take(h) ==
  /\ h \in handling /\ h.place = "locked"
  /\ handling' = (handling \ {h}) \cup
       {Handler(h.request, "answering", h.sequence,
                IF failures = <<>> THEN OK ELSE Head(failures))}
  /\ failures' = IF failures = <<>> THEN failures ELSE Tail(failures)
  /\ mu' = Nobody
  /\ UNCHANGED <<sent, requests, planned, written>>

(* Mutant of Id: the length of the log when the answer is written. *)
Id_Late(h) == IF h.injected = OK THEN Len(requests) ELSE 0

(* X-TypeSafe-Request-Id; an injected failure has none. *)
Id(h) == IF h.injected = OK THEN h.sequence ELSE 0

Respond(h) ==
  /\ h \in handling /\ h.place = "answering"
  /\ handling' = handling \ {h}
  /\ written' = written \cup {Answer(h.request, h.injected, Id(h))}
  /\ UNCHANGED <<sent, mu, requests, failures, planned>>

Serve ==
  \/ \E request \in sent : Lock(request)
  \/ \E h \in handling : Take(h) \/ Respond(h)

Statuses    == 400..599 \cup {OK}
HandlerType == [request : Request, place : {"locked", "answering"},
                sequence : Nat, injected : Statuses]
AnswerType  == [request : Request, status : Statuses, id : Nat]

(* The server's part of the type invariant. *)
ServerTypeOK ==
  /\ sent \subseteq Request
  /\ mu \in Request \cup {Nobody}
  /\ handling \subseteq HandlerType
  /\ requests \in Seq(Request)
  /\ failures \in Seq(400..599)
  /\ planned \in Plans
  /\ written \subseteq AnswerType

LoggedAt(answer) == CHOOSE i \in DOMAIN requests : requests[i] = answer.request

(* The failures FailFirst injected go to the first requests of the log, in *)
(* its order, and to no other, however the handlers interleave.            *)
FirstFail ==
  \A answer \in written :
    answer.status = IF LoggedAt(answer) <= Len(planned)
                    THEN planned[LoggedAt(answer)] ELSE OK
=============================================================================
