---------------------------- MODULE ClientProof ----------------------------
(***************************************************************************)
(* Theorems about Client, for any environment, any options in any order    *)
(* and any number of callers, headers and attempts.                        *)
(***************************************************************************)
EXTENDS Client, TLAPS

(***************************************************************************)
(* The last option.  LastGiven says what Last finds without choosing.      *)
(***************************************************************************)
LastGiven(kind, name, value) ==
  \E k \in Given(kind, name) : /\ \A j \in Given(kind, name) : j <= k
                               /\ value = given[k].value

LEMMA LastIs ==
  ASSUME NEW kind, NEW name, NEW value, LastGiven(kind, name, value)
  PROVE  Given(kind, name) # {} /\ given[Last(Given(kind, name))].value = value
<1>1. PICK k \in Given(kind, name) : /\ \A j \in Given(kind, name) : j <= k
                                     /\ value = given[k].value
  BY DEF LastGiven
<1>2. Last(Given(kind, name)) = k
  <2>1. Given(kind, name) \subseteq Int
    BY DEF Given
  <2>2. /\ Last(Given(kind, name)) \in Given(kind, name)
        /\ \A j \in Given(kind, name) : j <= Last(Given(kind, name))
    BY <1>1 DEF Last
  <2>3. QED
    BY <1>1, <2>1, <2>2
<1>3. QED
  BY <1>1, <1>2

(* An option adds its own position to what was given, and nothing else. *)
LEMMA GivenGrows ==
  ASSUME given \in Seq(Options), NEW option \in Options,
         given' = Append(given, option), NEW kind, NEW name
  PROVE  /\ Given(kind, name)' = IF option.kind = kind /\ option.name = name
                                 THEN Given(kind, name) \cup {Len(given) + 1}
                                 ELSE Given(kind, name)
         /\ \A i \in Given(kind, name) : i <= Len(given) /\ given'[i] = given[i]
         /\ given'[Len(given) + 1] = option
<1>1. Len(given) \in Nat /\ Len(given') = Len(given) + 1
  OBVIOUS
<1>2. /\ \A i \in 1..Len(given) : given'[i] = given[i]
      /\ given'[Len(given) + 1] = option
  OBVIOUS
<1>3. 1..Len(given') = 1..Len(given) \cup {Len(given) + 1}
  BY <1>1
<1>4. QED
  BY <1>1, <1>2, <1>3 DEF Given

(* So the last of a name is the new option if it gives that name, and the  *)
(* same as before if it does not.                                          *)
LEMMA LastGrows ==
  ASSUME given \in Seq(Options), NEW option \in Options,
         given' = Append(given, option), NEW kind, NEW name
  PROVE  /\ option.kind = kind /\ option.name = name =>
              LastGiven(kind, name, option.value)'
         /\ ~(option.kind = kind /\ option.name = name) =>
              /\ Given(kind, name)' = Given(kind, name)
              /\ \A i \in Given(kind, name) : given'[i] = given[i]
<1>1. Len(given) \in Nat /\ Given(kind, name) \subseteq Int
  BY DEF Given
<1>2. CASE option.kind = kind /\ option.name = name
  <2>1. Given(kind, name)' = Given(kind, name) \cup {Len(given) + 1}
    BY <1>2, GivenGrows
  <2>2. \A j \in Given(kind, name)' : j <= Len(given) + 1
    BY <1>1, <2>1, GivenGrows
  <2>3. option.value = given'[Len(given) + 1].value
    BY GivenGrows
  <2>4. QED
    BY <1>2, <2>1, <2>2, <2>3 DEF LastGiven
<1>3. CASE ~(option.kind = kind /\ option.name = name)
  <2>1. Given(kind, name)' = Given(kind, name)
    BY <1>3, GivenGrows
  <2>2. \A i \in Given(kind, name) : given'[i] = given[i]
    BY GivenGrows
  <2>3. QED
    BY <1>3, <2>1, <2>2
<1>4. QED
  BY <1>2, <1>3

(***************************************************************************)
(* Layered.  At every option the configuration is that of the options so   *)
(* far, setting by setting and header by header; a client is ready once    *)
(* its settings were accepted.                                             *)
(***************************************************************************)
Layered ==
  /\ env \in Environments
  /\ given \in Seq(Options)
  /\ config \in [Settings -> Values]
  /\ \A name \in Settings :
       IF Given("set", name) = {} THEN config[name] = Initial(name)
       ELSE LastGiven("set", name, config[name])
  /\ \A name \in Settings \ FromEnv : config[name] # "blank"
  /\ DOMAIN header \subseteq Names
  /\ \A name \in Names :
       IF name \in DOMAIN header THEN LastGiven("header", name, header[name])
       ELSE Given("header", name) = {}
  /\ phase = "ready" => \A name \in Settings : Accepted(name)

LEMMA LayeredInit == Init => Layered
<1> SUFFICES ASSUME Init PROVE Layered
  OBVIOUS
<1>1. env \in [FromEnv -> {"blank", "bad", "env"}]
  BY ClientAssumption DEF Init
<1>2. \A name \in Settings : /\ Initial(name) \in Values
                             /\ name \notin FromEnv => Initial(name) = "default"
  BY <1>1 DEF Initial, EnvOr, Settings, FromEnv, Values, Good
<1>3. \A kind, name : Given(kind, name) = {}
  BY DEF Init, Given
<1>4. DOMAIN header = {}
  BY DEF Init, NoHeader
<1>5. QED
  BY <1>2, <1>3, <1>4 DEF Init, Layered

LEMMA LayeredStep == Layered /\ [Next]_vars => Layered'
<1> SUFFICES ASSUME Layered, [Next]_vars PROVE Layered'
  OBVIOUS
<1>1. ASSUME NEW option \in Options, Apply(option) PROVE Layered'
  <2>1. /\ phase = "configuring" /\ phase' # "ready"
        /\ given' = Append(given, option) /\ env' = env
        /\ config' = IF option.kind = "set"
                     THEN [config EXCEPT ![option.name] = option.value] ELSE config
        /\ header' = IF option.kind = "header"
                     THEN Set(header, option.name, option.value) ELSE header
    BY <1>1 DEF Apply
  <2>2. given \in Seq(Options) /\ given' \in Seq(Options)
    BY <2>1 DEF Layered
  <2>3. option.kind = "set" =>
          /\ option.name \in Settings /\ option.value \in Values
          /\ option.value = "blank" => option.name \in FromEnv
    BY ClientAssumption
  <2>4. /\ config' \in [Settings -> Values]
        /\ \A name \in Settings :
             config'[name] = IF option.kind = "set" /\ option.name = name
                             THEN option.value ELSE config[name]
        /\ \A name \in Settings \ FromEnv : config'[name] # "blank"
    BY <2>1, <2>3 DEF Layered
  <2>5. ASSUME NEW name \in Settings
        PROVE  IF Given("set", name)' = {} THEN config'[name] = Initial(name)'
               ELSE LastGiven("set", name, config[name])'
    <3>1. Initial(name)' = Initial(name)
      BY <2>1 DEF Initial, EnvOr
    <3>2. CASE option.kind = "set" /\ option.name = name
      <4>1. config'[name] = option.value
        BY <2>4, <3>2
      <4>2. LastGiven("set", name, option.value)'
        BY <2>1, <2>2, <3>2, LastGrows
      <4>3. LastGiven("set", name, config[name])'
        BY <4>1, <4>2 DEF LastGiven
      <4>4. Given("set", name)' # {}
        BY <4>2 DEF LastGiven
      <4>5. QED
        BY <4>3, <4>4
    <3>3. CASE ~(option.kind = "set" /\ option.name = name)
      <4>1. /\ Given("set", name)' = Given("set", name)
            /\ LastGiven("set", name, config[name]) => LastGiven("set", name, config[name])'
        <5>1. config'[name] = config[name]
          BY <2>4, <3>3
        <5>2. /\ Given("set", name)' = Given("set", name)
              /\ \A i \in Given("set", name) : given'[i] = given[i]
          BY <2>1, <2>2, <3>3, LastGrows
        <5>3. QED
          BY <5>1, <5>2 DEF LastGiven
      <4>2. config'[name] = config[name]
        BY <2>4, <3>3
      <4>3. QED
        BY <3>1, <4>1, <4>2 DEF Layered
    <3>4. QED
      BY <3>2, <3>3
  <2>6. ASSUME option.kind = "header" PROVE option.name \in Names
    <3>1. option \in {o \in Options : o.kind = "header"}
      BY <2>6
    <3>2. QED
      BY <2>6, <3>1 DEF Names
  <2>7. /\ DOMAIN header' = DOMAIN header \cup
                              {name \in Names : option.kind = "header" /\ option.name = name}
        /\ \A name \in DOMAIN header' :
             header'[name] = IF option.kind = "header" /\ option.name = name
                             THEN option.value ELSE header[name]
    BY <2>1, <2>6 DEF Set, Over
  <2>8. ASSUME NEW name \in Names
        PROVE  IF name \in DOMAIN header' THEN LastGiven("header", name, header[name])'
               ELSE Given("header", name)' = {}
    <3>1. CASE option.kind = "header" /\ option.name = name
      <4>1. name \in DOMAIN header' /\ header'[name] = option.value
        BY <2>7, <3>1
      <4>2. LastGiven("header", name, option.value)'
        BY <2>1, <2>2, <3>1, LastGrows
      <4>3. LastGiven("header", name, header[name])'
        BY <4>1, <4>2 DEF LastGiven
      <4>4. QED
        BY <4>1, <4>3
    <3>2. CASE ~(option.kind = "header" /\ option.name = name)
      <4>1. /\ Given("header", name)' = Given("header", name)
            /\ \A i \in Given("header", name) : given'[i] = given[i]
        BY <2>1, <2>2, <3>2, LastGrows
      <4>2. name \in DOMAIN header' <=> name \in DOMAIN header
        BY <2>7, <3>2
      <4>3. CASE name \in DOMAIN header
        <5>1. LastGiven("header", name, header[name])
          BY <4>3 DEF Layered
        <5>2. header'[name] = header[name]
          BY <2>7, <3>2, <4>2, <4>3
        <5>3. QED
          BY <4>1, <4>2, <4>3, <5>1, <5>2 DEF LastGiven
      <4>4. CASE name \notin DOMAIN header
        BY <4>1, <4>2, <4>4 DEF Layered
      <4>5. QED
        BY <4>3, <4>4
    <3>3. QED
      BY <3>1, <3>2
  <2>9. DOMAIN header' \subseteq Names
    BY <2>7 DEF Layered
  <2>10. Names' = Names /\ env' \in Environments
    BY <2>1 DEF Layered
  <2>11. QED
    BY <2>1, <2>2, <2>4, <2>5, <2>8, <2>9, <2>10 DEF Layered
<1>2. ASSUME UNCHANGED <<env, given, config, header>>,
             phase' = "ready" => \A name \in Settings : Accepted(name)
      PROVE  Layered'
  BY <1>2 DEF Layered, Given, LastGiven, Initial, EnvOr, Accepted
<1>3. CASE New
  <2>1. /\ UNCHANGED <<env, given, config, header>>
        /\ phase' = "ready" => \A name \in Settings : Accepted(name)
    BY <1>3 DEF New
  <2>2. QED
    BY <1>2, <2>1
<1>4. CASE UNCHANGED vars \/ \E caller \in Callers :
             \/ \E own \in Own, hasBody \in BOOLEAN : Call(caller, own, hasBody)
             \/ Attempt(caller) \/ Retry(caller) \/ Return(caller)
  <2>1. UNCHANGED <<env, given, config, header, phase>>
    BY <1>4 DEF vars, Call, Attempt, Retry, Return, built
  <2>2. QED
    BY <1>2, <2>1 DEF Layered
<1>5. QED
  BY <1>1, <1>3, <1>4 DEF Next

(* A client is configured by the last option of each setting, else the     *)
(* environment where it says something, else the default, whatever options *)
(* are given in whatever order, and a value the service would refuse never *)
(* gets through (New, envOr).                                              *)
THEOREM LayersSettings == Spec => []SettingsLayered
<1>1. Layered => SettingsLayered
  <2> SUFFICES ASSUME Layered, phase = "ready" PROVE SettingsLayered
    BY DEF SettingsLayered
  <2>1. \A name \in Settings : Accepted(name) /\ config[name] \in Values
    BY DEF Layered
  <2>2. ASSUME NEW name \in Settings \ {"model"} PROVE config[name] \in Good
    <3>1. config[name] # "bad"
      BY <2>1 DEF Accepted
    <3>2. config[name] # "blank"
      BY <2>1 DEF Accepted, Layered, Settings, FromEnv
    <3>3. QED
      BY <2>1, <3>1, <3>2 DEF Values
  <2>3. ASSUME NEW name \in Settings
        PROVE  config[name] = IF Given("set", name) # {}
                              THEN given[Last(Given("set", name))].value
                              ELSE IF name \in FromEnv /\ env[name] # "blank" THEN env[name]
                              ELSE "default"
    <3>1. CASE Given("set", name) # {}
      <4>1. LastGiven("set", name, config[name])
        BY <3>1 DEF Layered
      <4>2. QED
        BY <3>1, <4>1, LastIs
    <3>2. CASE Given("set", name) = {}
      <4>1. config[name] = Initial(name)
        BY <3>2 DEF Layered
      <4>2. name = "apiKey" => config[name] # "blank"
        BY <2>1 DEF Accepted
      <4>3. QED
        BY <3>2, <4>1, <4>2 DEF Initial, EnvOr, FromEnv
    <3>3. QED
      BY <3>1, <3>2
  <2>4. QED
    BY <2>2, <2>3 DEF SettingsLayered
<1>2. QED
  BY <1>1, LayeredInit, LayeredStep, PTL DEF Spec

(***************************************************************************)
(* What headerFor makes, name by name.                                     *)
(***************************************************************************)
Merges(map, client, own, hasBody) ==
  /\ DOMAIN map = ((DOMAIN client \cup DOMAIN own) \ Protected) \cup Stamped
                    \cup (IF hasBody THEN {"Content-Type"} ELSE {})
  /\ map["Authorization"] = config.apiKey
  /\ \A name \in Stamped \ {"Authorization"} : map[name] = "sdk"
  /\ hasBody => map["Content-Type"] = "sdk"
  /\ \A name \in DOMAIN own \ Protected : map[name] = own[name]
  /\ \A name \in DOMAIN client \ (DOMAIN own \cup Protected) : map[name] = client[name]

LEMMA HeaderForMerges ==
  ASSUME NEW client, NEW own, NEW hasBody \in BOOLEAN
  PROVE  Merges(HeaderFor(client, own, hasBody), client, own, hasBody)
<1> DEFINE layered == Over(client, own)
           allowed == [name \in DOMAIN layered \ Protected |-> layered[name]]
           stamp   == Stamp(config.apiKey, hasBody)
           map     == HeaderFor(client, own, hasBody)
<1>1. /\ DOMAIN layered = DOMAIN client \cup DOMAIN own
      /\ \A name \in DOMAIN own : layered[name] = own[name]
      /\ \A name \in DOMAIN client \ DOMAIN own : layered[name] = client[name]
  BY DEF Over
<1>2. /\ DOMAIN stamp = Stamped \cup (IF hasBody THEN {"Content-Type"} ELSE {})
      /\ stamp["Authorization"] = config.apiKey
      /\ \A name \in Stamped \ {"Authorization"} : stamp[name] = "sdk"
      /\ hasBody => stamp["Content-Type"] = "sdk"
  BY DEF Stamp, Stamped
<1>3. DOMAIN stamp \subseteq Protected /\ Stamped \subseteq DOMAIN stamp
      /\ "Authorization" \in Stamped
  BY <1>2 DEF Protected, Stamped
<1>4. map = Over(allowed, stamp)
  BY DEF HeaderFor
<1> HIDE DEF layered, stamp, map
<1>5. /\ DOMAIN allowed = DOMAIN layered \ Protected
      /\ \A name \in DOMAIN layered \ Protected : allowed[name] = layered[name]
  OBVIOUS
<1> HIDE DEF allowed
<1>6. /\ DOMAIN map = DOMAIN allowed \cup DOMAIN stamp
      /\ \A name \in DOMAIN stamp : map[name] = stamp[name]
      /\ \A name \in DOMAIN allowed \ DOMAIN stamp : map[name] = allowed[name]
  BY <1>4 DEF Over
<1>7. /\ DOMAIN map = ((DOMAIN client \cup DOMAIN own) \ Protected) \cup Stamped
                        \cup (IF hasBody THEN {"Content-Type"} ELSE {})
  BY <1>1, <1>2, <1>5, <1>6
<1>8. /\ map["Authorization"] = config.apiKey
      /\ \A name \in Stamped \ {"Authorization"} : map[name] = "sdk"
      /\ hasBody => map["Content-Type"] = "sdk"
  BY <1>2, <1>3, <1>6
<1>9. /\ \A name \in DOMAIN own \ Protected : map[name] = own[name]
      /\ \A name \in DOMAIN client \ (DOMAIN own \cup Protected) : map[name] = client[name]
  BY <1>1, <1>3, <1>5, <1>6
<1>10. QED
  BY <1>7, <1>8, <1>9 DEF Merges, map

(* A call that brings no header gets what the client alone would give it. *)
LEMMA NothingOwn ==
  ASSUME NEW own, NEW hasBody, DOMAIN own = {}
  PROVE  HeaderFor(header, own, hasBody) = HeaderFor(header, NoHeader, hasBody)
<1>1. DOMAIN NoHeader = {}
  BY DEF NoHeader
<1>2. Over(header, own) = Over(header, NoHeader)
  BY <1>1 DEF Over
<1>3. QED
  BY <1>2 DEF HeaderFor

(***************************************************************************)
(* Separate.  The two shared maps stay what New made them, and whatever a  *)
(* call refers to is what headerFor would make for it alone.               *)
(***************************************************************************)
OwnMap(caller) == HeaderFor(header, call[caller].own, call[caller].hasBody)

Separate ==
  /\ DOMAIN pc = Callers /\ DOMAIN call = Callers
  /\ DOMAIN attempt = Callers /\ DOMAIN request = Callers
  /\ phase = "ready" => shared = [body  |-> HeaderFor(header, NoHeader, TRUE),
                                  plain |-> HeaderFor(header, NoHeader, FALSE)]
  /\ \A caller \in Callers : pc[caller] # "idle" =>
       /\ phase = "ready"
       /\ call[caller].own \in Own /\ call[caller].hasBody \in BOOLEAN
       /\ DOMAIN call[caller].own # {} => call[caller].merged = OwnMap(caller)
       /\ attempt[caller] \in Nat
       /\ pc[caller] = "sent" => request[caller] = Counted(OwnMap(caller), attempt[caller])

LEMMA SeparateInit == Init => Separate
BY DEF Init, Separate

(* Sharing a map is as good as having one. *)
LEMMA BaseIsOwn ==
  ASSUME Separate, NEW caller \in Callers, pc[caller] # "idle"
  PROVE  Base(caller) = OwnMap(caller)
<1>1. /\ shared = [body  |-> HeaderFor(header, NoHeader, TRUE),
                   plain |-> HeaderFor(header, NoHeader, FALSE)]
      /\ call[caller].hasBody \in BOOLEAN
  BY DEF Separate
<1>2. CASE Shares(caller)
  <2>1. OwnMap(caller) = HeaderFor(header, NoHeader, call[caller].hasBody)
    BY <1>2, NothingOwn DEF Shares, OwnMap
  <2>2. CASE call[caller].hasBody
    BY <1>1, <1>2, <2>1, <2>2 DEF Base, SharedMap
  <2>3. CASE ~call[caller].hasBody
    BY <1>1, <1>2, <2>1, <2>3 DEF Base, SharedMap
  <2>4. QED
    BY <2>2, <2>3
<1>3. CASE ~Shares(caller)
  BY <1>3 DEF Shares, Base, Separate
<1>4. QED
  BY <1>2, <1>3

LEMMA SeparateStep == Separate /\ [Next]_vars => Separate'
<1> SUFFICES ASSUME Separate, [Next]_vars PROVE Separate'
  OBVIOUS
<1>1. ASSUME NEW option \in Options, Apply(option) PROVE Separate'
  <2>1. /\ phase = "configuring" /\ phase' # "ready" /\ UNCHANGED calls
    BY <1>1 DEF Apply
  <2>2. \A caller \in Callers : pc'[caller] = "idle"
    BY <2>1 DEF Separate, calls
  <2>3. QED
    BY <2>1, <2>2 DEF Separate, calls
<1>2. CASE New
  <2>1. /\ phase = "configuring" /\ UNCHANGED calls /\ header' = header /\ config' = config
        /\ phase' = "ready" =>
             shared' = [body  |-> HeaderFor(header, NoHeader, TRUE),
                        plain |-> HeaderFor(header, NoHeader, FALSE)]
    BY <1>2 DEF New
  <2>2. \A caller \in Callers : pc'[caller] = "idle"
    BY <2>1 DEF Separate, calls
  <2>3. QED
    BY <2>1, <2>2 DEF Separate, calls, HeaderFor
<1>3. ASSUME NEW caller \in Callers,
             \/ \E own \in Own, hasBody \in BOOLEAN : Call(caller, own, hasBody)
             \/ Attempt(caller) \/ Retry(caller) \/ Return(caller)
      PROVE  Separate'
  <2>1. UNCHANGED <<phase, header, config, shared>>
    BY <1>3 DEF Call, Attempt, Retry, Return, built
  <2>2. \A own, hasBody : HeaderFor(header, own, hasBody)' = HeaderFor(header, own, hasBody)
    BY <2>1 DEF HeaderFor
  <2>3. /\ DOMAIN pc' = Callers /\ DOMAIN call' = Callers
        /\ DOMAIN attempt' = Callers /\ DOMAIN request' = Callers
    BY <1>3 DEF Call, Attempt, Retry, Return, Separate
  <2>4. ASSUME NEW other \in Callers \ {caller}
        PROVE  /\ pc'[other] = pc[other] /\ call'[other] = call[other]
               /\ attempt'[other] = attempt[other] /\ request'[other] = request[other]
    BY <1>3 DEF Call, Attempt, Retry, Return, Separate
  <2>5. phase' = "ready" => shared' = [body  |-> HeaderFor(header, NoHeader, TRUE),
                                       plain |-> HeaderFor(header, NoHeader, FALSE)]
    BY <2>1, <2>2 DEF Separate
  <2>6. ASSUME pc'[caller] # "idle"
        PROVE  /\ phase = "ready"
               /\ call'[caller].own \in Own /\ call'[caller].hasBody \in BOOLEAN
               /\ DOMAIN call'[caller].own # {} =>
                    call'[caller].merged =
                      HeaderFor(header, call'[caller].own, call'[caller].hasBody)
               /\ attempt'[caller] \in Nat
               /\ pc'[caller] = "sent" =>
                    request'[caller] =
                      Counted(HeaderFor(header, call'[caller].own, call'[caller].hasBody),
                              attempt'[caller])
    <3>1. ASSUME NEW own \in Own, NEW hasBody \in BOOLEAN, Call(caller, own, hasBody)
          PROVE  <2>6!2
      <4>1. /\ phase = "ready" /\ pc'[caller] = "preparing" /\ attempt'[caller] = 1
            /\ call'[caller].own = own /\ call'[caller].hasBody = hasBody
            /\ call'[caller].merged =
                 IF DOMAIN own = {} THEN NoHeader ELSE HeaderFor(header, own, hasBody)
        BY <3>1 DEF Call, Separate
      <4>2. QED
        BY <4>1
    <3>2. CASE Attempt(caller)
      <4>1. /\ pc[caller] = "preparing" /\ UNCHANGED <<call, attempt>>
            /\ request'[caller] = Counted(Base(caller), attempt[caller])
        BY <3>2 DEF Attempt, Separate
      <4>2. Base(caller) = OwnMap(caller)
        BY <4>1, BaseIsOwn
      <4>3. QED
        BY <4>1, <4>2 DEF Separate, OwnMap
    <3>3. CASE Retry(caller)
      <4>1. /\ pc[caller] = "sent" /\ pc'[caller] = "preparing" /\ call' = call
            /\ attempt'[caller] = attempt[caller] + 1
        BY <3>3 DEF Retry, Separate
      <4>2. QED
        BY <4>1 DEF Separate, OwnMap
    <3>4. CASE Return(caller)
      BY <2>6, <3>4 DEF Return, Separate
    <3>5. QED
      BY <1>3, <3>1, <3>2, <3>3, <3>4
  <2>7. ASSUME NEW other \in Callers \ {caller}, pc'[other] # "idle"
        PROVE  /\ phase = "ready"
               /\ call'[other].own \in Own /\ call'[other].hasBody \in BOOLEAN
               /\ DOMAIN call'[other].own # {} => call'[other].merged = OwnMap(other)'
               /\ attempt'[other] \in Nat
               /\ pc'[other] = "sent" =>
                    request'[other] = Counted(OwnMap(other)', attempt'[other])
    <3>1. OwnMap(other)' = OwnMap(other)
      BY <2>2, <2>4 DEF OwnMap
    <3>2. QED
      BY <2>4, <2>7, <3>1 DEF Separate
  <2>8. OwnMap(caller)' = HeaderFor(header, call'[caller].own, call'[caller].hasBody)
    BY <2>2 DEF OwnMap
  <2>9. HeaderFor(header, NoHeader, TRUE)' = HeaderFor(header, NoHeader, TRUE)
        /\ HeaderFor(header, NoHeader, FALSE)' = HeaderFor(header, NoHeader, FALSE)
    BY <2>1 DEF HeaderFor
  <2>10. QED
    BY <2>1, <2>3, <2>5, <2>6, <2>7, <2>8, <2>9 DEF Separate
<1>4. CASE UNCHANGED vars
  BY <1>4 DEF vars, Separate, OwnMap, HeaderFor
<1>5. QED
  BY <1>1, <1>2, <1>3, <1>4 DEF Next

(* Every request carries its own headers and those of no other call, and   *)
(* none that the SDK protects can be displaced, for any number of callers  *)
(* that share a client and any headers of the two (headerFor, attempt).    *)
THEOREM CarriesOwnHeaders == Spec => []OwnHeaders
<1>1. Layered /\ Separate => OwnHeaders
  <2> SUFFICES ASSUME Layered, Separate, NEW caller \in Callers, pc[caller] = "sent"
               PROVE  /\ DOMAIN request[caller] \subseteq Names
                      /\ \A name \in Names :
                           Carried(caller, name) =
                             IF name \in DOMAIN request[caller]
                             THEN {request[caller][name]} ELSE {}
    BY DEF OwnHeaders
  <2> DEFINE own     == call[caller].own
             hasBody == call[caller].hasBody
             map     == HeaderFor(header, own, hasBody)
             n       == attempt[caller]
  <2>1. /\ own \in Own /\ hasBody \in BOOLEAN /\ n \in Nat
        /\ request[caller] = Counted(map, n) /\ map = HeaderFor(header, own, hasBody)
    BY DEF Separate, OwnMap
  <2>2. Carried(caller, RetryCount) = IF n > 1 THEN {n - 1} ELSE {}
    BY DEF Carried
  <2>3. ASSUME NEW name, name \notin Protected
         PROVE  Carried(caller, name) =
                  IF name \in DOMAIN own THEN {own[name]}
                  ELSE IF Given("header", name) # {}
                       THEN {given[Last(Given("header", name))].value}
                       ELSE {}
    BY <2>3 DEF Carried, Protected, Stamped
  <2> HIDE DEF map, n
  <2>4. Merges(map, header, own, hasBody)
    BY <2>1, HeaderForMerges
  <2>5. DOMAIN own \subseteq Names /\ DOMAIN header \subseteq Names /\ Protected \subseteq Names
    <3>1. DOMAIN own \subseteq UNION {DOMAIN brought : brought \in Own}
      BY <2>1
    <3>2. QED
      BY <3>1 DEF Names, Layered
  <2>6. /\ DOMAIN request[caller] = DOMAIN map \cup (IF n > 1 THEN {RetryCount} ELSE {})
        /\ n > 1 => request[caller][RetryCount] = n - 1
        /\ \A name \in DOMAIN map \ {RetryCount} : request[caller][name] = map[name]
    BY <2>1 DEF Counted, Set, Over
  <2>7. RetryCount \in Protected \ (Stamped \cup {"Content-Type"})
    BY DEF RetryCount, Protected, Stamped
  <2>8. DOMAIN request[caller] \subseteq Names
    BY <2>4, <2>5, <2>6, <2>7 DEF Protected, Merges
  <2>9. ASSUME NEW name \in Names
        PROVE  Carried(caller, name) =
                 IF name \in DOMAIN request[caller] THEN {request[caller][name]} ELSE {}
    <3>1. CASE name = RetryCount
      BY <2>4, <2>2, <2>6, <2>7, <3>1 DEF Merges
    <3>2. CASE name = "Content-Type"
      BY <2>1, <2>4, <2>6, <3>2 DEF Carried, RetryCount, Protected, Stamped, Merges
    <3>3. CASE name \in Stamped
      <4>1. name # RetryCount /\ name # "Content-Type"
        BY <3>3 DEF RetryCount, Stamped
      <4>2. name \in DOMAIN request[caller] /\ request[caller][name] = map[name]
        BY <2>4, <2>6, <3>3, <4>1 DEF Merges
      <4>3. Carried(caller, name) = {IF name = "Authorization" THEN config.apiKey ELSE "sdk"}
        BY <3>3, <4>1 DEF Carried
      <4>4. QED
        BY <2>4, <3>3, <4>2, <4>3 DEF Merges
    <3>4. CASE name \notin Protected
      <4>1. name \in DOMAIN request[caller] <=> name \in DOMAIN header \cup DOMAIN own
        BY <2>4, <2>6, <2>7, <3>4 DEF Protected, Merges
      <4>2. name \in DOMAIN header \cup DOMAIN own => request[caller][name] = map[name]
        BY <2>4, <2>6, <2>7, <3>4 DEF Merges
      <4>3. CASE name \in DOMAIN own
        BY <2>4, <2>3, <3>4, <4>1, <4>2, <4>3 DEF Merges
      <4>4. CASE name \notin DOMAIN own /\ name \in DOMAIN header
        <5>1. LastGiven("header", name, header[name])
          BY <4>4 DEF Layered
        <5>2. /\ Given("header", name) # {}
              /\ given[Last(Given("header", name))].value = header[name]
          BY <5>1, LastIs
        <5>3. request[caller][name] = header[name]
          BY <2>4, <3>4, <4>2, <4>4 DEF Merges
        <5>4. QED
          BY <2>3, <3>4, <4>1, <4>4, <5>2, <5>3
      <4>5. CASE name \notin DOMAIN own \cup DOMAIN header
        <5>1. Given("header", name) = {}
          BY <4>5 DEF Layered
        <5>2. QED
          BY <2>3, <3>4, <4>1, <4>5, <5>1
      <4>6. QED
        BY <4>3, <4>4, <4>5
    <3>5. QED
      BY <3>1, <3>2, <3>3, <3>4 DEF Protected
  <2>10. QED
    BY <2>8, <2>9
<1>2. QED
  BY <1>1, LayeredInit, LayeredStep, SeparateInit, SeparateStep, PTL DEF Spec
=============================================================================
