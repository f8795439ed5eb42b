----------------------------- MODULE Moderation -----------------------------
(***************************************************************************)
(* The verdict of src/examples/moderation/main.go: a post is judged by     *)
(* every policy in the order of their names, one probability each, and     *)
(* the verdict is carried along.                                           *)
(***************************************************************************)
EXTENDS Integers, Sequences, SequencesExt

(* The policies by rank of their names; probabilities are in hundredths.   *)
Policies == <<[review |-> 40, remove |-> 85],    \* harassment
              [review |-> 30, remove |-> 80],    \* personal_data
              [review |-> 60, remove |-> 90]>>   \* spam

Action(policy, probability) ==
  IF probability >= policy.remove THEN "remove"
  ELSE IF probability >= policy.review THEN "review"
  ELSE "ok"

(* Mutant of After: a later review takes a removal back. *)
After_LastWins(verdict, action) == IF action = "ok" THEN verdict ELSE action

(* The verdict after one more policy. *)
After(verdict, action) ==
  CASE action = "remove" -> "remove"
    [] action = "review" -> IF verdict = "allow" THEN "review" ELSE verdict
    [] action = "ok"     -> verdict

Verdict(probabilities) ==
  FoldLeft(After, "allow", [i \in DOMAIN Policies |-> Action(Policies[i], probabilities[i])])
=============================================================================
