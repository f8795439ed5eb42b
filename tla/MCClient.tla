------------------------------ MODULE MCClient ------------------------------
(***************************************************************************)
(* Instances of Client for TLC: two callers, headers of their own and of   *)
(* the client, some of them protected, and options that contend.           *)
(***************************************************************************)
EXTENDS Client

Variables(key, url, model) == [apiKey |-> key, baseURL |-> url, model |-> model]

AllEnvironments ==
  {Variables("env", "blank", "env"), Variables("env", "env", "blank"),
   Variables("blank", "bad", "env"), Variables("bad", "blank", "blank")}

Setting(name, value) == [kind |-> "set", name |-> name, value |-> value]
Header(name, value)  == [kind |-> "header", name |-> name, value |-> value]

AllOptions ==
  {Setting("apiKey", "one"), Setting("apiKey", "blank"), Setting("baseURL", "two"),
   Setting("model", "blank"), Setting("timeout", "bad"), Setting("timeout", "one"),
   Header("X-Team", "one"), Header("X-Team", "two"), Header("Authorization", "one"),
   [kind |-> "nil"]}

AllOwn ==
  {NoHeader, [name \in {"X-Team"} |-> "call"],
   [name \in {"X-Call", RetryCount} |-> "call"]}
=============================================================================
