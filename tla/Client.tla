------------------------------- MODULE Client -------------------------------
(***************************************************************************)
(* One client: the layers its configuration is built from (src/options.go, *)
(* New in src/client.go), and the headers of the calls that share it       *)
(* (headerFor and buildHeader in src/client.go, attempt in                 *)
(* src/internal/transport/transport.go).                                   *)
(*                                                                         *)
(* New builds two complete header maps, one for requests with a body and   *)
(* one for those without.  Every call that brings no header of its own     *)
(* refers to one of the two; all of them run at once.  The transport       *)
(* writes a header, the retry count, so it clones first.                   *)
(***************************************************************************)
EXTENDS Integers, Sequences

CONSTANTS
  Environments,   \* what the environment variables can hold
  Options,        \* the options a program can pass to New
  MaxOptions,     \* bound: options passed
  Callers,        \* goroutines that share the client
  Own,            \* the headers a call can bring
  MaxAttempts     \* bound: attempts of a call

Settings == {"apiKey", "baseURL", "model", "timeout", "retry", "maxResponseBytes"}
FromEnv  == {"apiKey", "baseURL", "model"}

Stamped    == {"Authorization", "Accept", "User-Agent", "X-TypeSafe-SDK", "X-TypeSafe-Runtime"}
RetryCount == "X-TypeSafe-Retry-Count"
Protected  == Stamped \cup {"Content-Type", RetryCount}

(* A setting is blank (empty or white space), bad (New refuses it) or good;*)
(* the others are different good values.  A header is a map from canonical *)
(* names, http.Header.Set seeing to that.                                  *)
Good    == {"default", "env", "one", "two"}
Values  == {"blank", "bad"} \cup Good

ASSUME ClientAssumption ==
  /\ Environments \subseteq [FromEnv -> {"blank", "bad", "env"}]
  /\ \A option \in Options :
       \/ option.kind = "nil"
       \/ /\ option.kind = "set" /\ option.name \in Settings /\ option.value \in Values
          /\ option.value = "blank" => option.name \in FromEnv  \* the others are not text
       \/ option.kind = "header"
  /\ \A own \in Own : "" \notin DOMAIN own
  /\ MaxOptions \in Nat /\ MaxAttempts \in Nat

NoHeader == [name \in {} |-> ""]

VARIABLES
  env,      \* the environment
  phase,    \* "configuring", "ready", or "refused" by New
  given,    \* history: the options applied so far
  config,   \* clientConfig's settings
  header,   \* clientConfig.header, then Client.header
  shared,   \* Client.bodyHeader and Client.plainHeader
  pc,       \* where each caller is: "idle", "preparing", "sent"
  call,     \* its call: the headers it brought, has it a body, its own map
  attempt,  \* its attempt
  request   \* the header map of the request it sent last

vars  == <<env, phase, given, config, header, shared, pc, call, attempt, request>>
built == <<env, phase, given, config, header>>
calls == <<pc, call, attempt, request>>

NoCall == [own |-> NoHeader, hasBody |-> FALSE, merged |-> NoHeader]

(* Mutant of EnvOr: a blank value shadows the default. *)
EnvOr_Shadowing(name) == env[name]

(* envOr: a blank value is ignored.  The API key is read as it is.         *)
EnvOr(name) == IF env[name] = "blank" THEN "default" ELSE env[name]

Initial(name) ==
  IF name = "apiKey" THEN env[name]
  ELSE IF name \in FromEnv THEN EnvOr(name)
  ELSE "default"

Init ==
  /\ env \in Environments
  /\ phase = "configuring"
  /\ given = <<>>
  /\ config = [name \in Settings |-> Initial(name)]
  /\ header = NoHeader
  /\ shared = [body |-> NoHeader, plain |-> NoHeader]
  /\ pc = [caller \in Callers |-> "idle"]
  /\ call = [caller \in Callers |-> NoCall]
  /\ attempt = [caller \in Callers |-> 0]
  /\ request = [caller \in Callers |-> NoHeader]

(* The client's map with names replaced or added. *)
Over(map, changes) ==
  [name \in DOMAIN map \cup DOMAIN changes |->
     IF name \in DOMAIN changes THEN changes[name] ELSE map[name]]

(* http.Header.Set. *)
Set(map, name, value) == Over(map, [other \in {name} |-> value])

(***************************************************************************)
(* New.  Options are applied in order; one that fails ends it.             *)
(***************************************************************************)
Apply(option) ==
  /\ phase = "configuring"
  /\ Len(given) < MaxOptions
  /\ given' = Append(given, option)
  /\ phase' = IF option.kind = "nil" THEN "refused" ELSE phase
  /\ config' = IF option.kind = "set"
               THEN [config EXCEPT ![option.name] = option.value] ELSE config
  /\ header' = IF option.kind = "header"
               THEN Set(header, option.name, option.value) ELSE header
  /\ UNCHANGED <<env, shared, calls>>

(* validateAPIKey, normalizeBaseURL and the checks after them; any model   *)
(* will do, a blank one included.                                          *)
Accepted(name) ==
  CASE name = "model" -> TRUE
    [] name \in {"apiKey", "baseURL"} -> config[name] \notin {"bad", "blank"}
    [] OTHER -> config[name] # "bad"

Stamp(key, hasBody) ==
  [name \in Stamped \cup (IF hasBody THEN {"Content-Type"} ELSE {}) |->
     IF name = "Authorization" THEN key ELSE "sdk"]

(* headerFor: call headers over client headers, then what the SDK protects.*)
HeaderFor(client, own, hasBody) ==
  LET layered == Over(client, own)
      allowed == [name \in DOMAIN layered \ Protected |-> layered[name]]
  IN  Over(allowed, Stamp(config.apiKey, hasBody))

New ==
  /\ phase = "configuring"
  /\ IF \A name \in Settings : Accepted(name)
     THEN /\ phase' = "ready"
          /\ shared' = [body  |-> HeaderFor(header, NoHeader, TRUE),
                        plain |-> HeaderFor(header, NoHeader, FALSE)]
     ELSE phase' = "refused" /\ UNCHANGED shared
  /\ UNCHANGED <<env, given, config, header, calls>>

(***************************************************************************)
(* Calls.  buildHeader gives a call that brings no headers a reference to  *)
(* one of the shared maps, and any other a map of its own.                 *)
(***************************************************************************)
SharedMap(caller) == IF call[caller].hasBody THEN "body" ELSE "plain"
Shares(caller)    == DOMAIN call[caller].own = {}

Call(caller, own, hasBody) ==
  /\ phase = "ready"
  /\ pc[caller] = "idle"
  /\ pc' = [pc EXCEPT ![caller] = "preparing"]
  /\ call' = [call EXCEPT ![caller] =
       [own |-> own, hasBody |-> hasBody,
        merged |-> IF DOMAIN own = {} THEN NoHeader ELSE HeaderFor(header, own, hasBody)]]
  /\ attempt' = [attempt EXCEPT ![caller] = 1]
  /\ UNCHANGED <<built, shared, request>>

Base(caller) == IF Shares(caller) THEN shared[SharedMap(caller)] ELSE call[caller].merged

Counted(map, n) == IF n > 1 THEN Set(map, RetryCount, n - 1) ELSE map

(* Mutant of Attempt: the count is written into the map the call refers to.*)
Attempt_InPlace(caller) ==
  /\ pc[caller] = "preparing"
  /\ pc' = [pc EXCEPT ![caller] = "sent"]
  /\ request' = [request EXCEPT ![caller] = Counted(Base(caller), attempt[caller])]
  /\ shared' = IF Shares(caller)
               THEN [shared EXCEPT ![SharedMap(caller)] = Counted(@, attempt[caller])]
               ELSE shared
  /\ UNCHANGED <<built, call, attempt>>

(* attempt: a clone, with the retry count from the second attempt on. *)
Attempt(caller) ==
  /\ pc[caller] = "preparing"
  /\ pc' = [pc EXCEPT ![caller] = "sent"]
  /\ request' = [request EXCEPT ![caller] = Counted(Base(caller), attempt[caller])]
  /\ UNCHANGED <<built, shared, call, attempt>>

Retry(caller) ==
  /\ pc[caller] = "sent"
  /\ attempt[caller] < MaxAttempts
  /\ pc' = [pc EXCEPT ![caller] = "preparing"]
  /\ attempt' = [attempt EXCEPT ![caller] = @ + 1]
  /\ UNCHANGED <<built, shared, call, request>>

Return(caller) ==
  /\ pc[caller] = "sent"
  /\ pc' = [pc EXCEPT ![caller] = "idle"]
  /\ call' = [call EXCEPT ![caller] = NoCall]
  /\ attempt' = [attempt EXCEPT ![caller] = 0]
  /\ request' = [request EXCEPT ![caller] = NoHeader]
  /\ UNCHANGED <<built, shared>>

Next ==
  \/ \E option \in Options : Apply(option)
  \/ New
  \/ \E caller \in Callers :
       \/ \E own \in Own, hasBody \in BOOLEAN : Call(caller, own, hasBody)
       \/ Attempt(caller) \/ Retry(caller) \/ Return(caller)

Spec == Init /\ [][Next]_vars

(***************************************************************************)
(* What a name has been given by the options so far: the last one wins.    *)
(***************************************************************************)
Given(kind, name) ==
  {i \in 1..Len(given) : given[i].kind = kind /\ given[i].name = name}
Last(positions) == CHOOSE i \in positions : \A j \in positions : j <= i

(* The configuration of a client is the last option of each setting, else  *)
(* the environment where it says something, else the default; and nothing  *)
(* the service would refuse gets through (New, envOr).                     *)
SettingsLayered ==
  phase = "ready" =>
    /\ \A name \in Settings :
         config[name] = IF Given("set", name) # {}
                        THEN given[Last(Given("set", name))].value
                        ELSE IF name \in FromEnv /\ env[name] # "blank" THEN env[name]
                        ELSE "default"
    /\ \A name \in Settings \ {"model"} : config[name] \in Good

(* What a request has to carry, whatever other calls do at the same time:  *)
(* the SDK's own headers, its retry count, and what the call, else the     *)
(* client, set under any other name.                                       *)
Carried(caller, name) ==
  IF name = RetryCount THEN IF attempt[caller] > 1 THEN {attempt[caller] - 1} ELSE {}
  ELSE IF name = "Content-Type" THEN IF call[caller].hasBody THEN {"sdk"} ELSE {}
  ELSE IF name = "Authorization" THEN {config.apiKey}
  ELSE IF name \in Stamped THEN {"sdk"}
  ELSE IF name \in DOMAIN call[caller].own THEN {call[caller].own[name]}
  ELSE IF Given("header", name) # {} THEN {given[Last(Given("header", name))].value}
  ELSE {}

Names == Protected \cup (UNION {DOMAIN own : own \in Own})
           \cup {option.name : option \in {o \in Options : o.kind = "header"}}

(* Every request carries its own headers and those of no other call, and   *)
(* none that the SDK protects can be displaced (headerFor, attempt).       *)
OwnHeaders ==
  \A caller \in Callers : pc[caller] = "sent" =>
    /\ DOMAIN request[caller] \subseteq Names
    /\ \A name \in Names :
         Carried(caller, name) =
           IF name \in DOMAIN request[caller] THEN {request[caller][name]} ELSE {}
=============================================================================
