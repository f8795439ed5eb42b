------------------------------ MODULE MCBatch ------------------------------
(***************************************************************************)
(* An instance of Batch for TLC: more messages than slots, and failures    *)
(* that are retried and that are not, under a policy that names 200 too.   *)
(***************************************************************************)
EXTENDS Batch

SomePlans == {<<400>>, <<503>>, <<400, 503>>}
=============================================================================
