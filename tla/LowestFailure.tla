--------------------------- MODULE LowestFailure ---------------------------
(***************************************************************************)
(* The loop the package runs over every map it has to judge.  Go visits a  *)
(* map in no fixed order, so what is reported must not depend on it: each  *)
(* loop keeps the lowest key that failed, and what it converted otherwise. *)
(* The loop is written seven times (src/question.go validateQuestions;     *)
(* src/response.go firstUntyped, decodeAnswers, checkAnswered;             *)
(* src/answer.go levelKeys; src/typed.go ChoiceOf.decodeAnswer,            *)
(* rekeyLevels), in two shapes: one passes over a key above the lowest     *)
(* failure before judging it, the other judges every key and compares.     *)
(*                                                                         *)
(* A key is its rank in the order of strings.  Two keys can convert to the *)
(* same target, as "1" and "01" do under strconv.Atoi.                     *)
(***************************************************************************)
EXTENDS Integers, TLAPS

CONSTANTS
  Keys,      \* the keys of the map
  Targets,   \* what the keys convert to
  Nothing    \* marks a target no key was stored under

ASSUME KeysAssumption ==
  /\ Keys \subseteq Int
  /\ Nothing \notin Keys

VARIABLES
  bad,       \* the keys whose value fails the check
  target,    \* what each key converts to
  skips,     \* which of the two shapes the loop has
  todo,      \* the keys not visited yet
  failed,    \* a failure was found
  first,     \* the lowest key that failed, once failed
  kept,      \* the key last stored under each target
  returned   \* the loop has ended

vars == <<bad, target, skips, todo, failed, first, kept, returned>>

Init ==
  /\ bad \in SUBSET Keys
  /\ target \in [Keys -> Targets]
  /\ skips \in BOOLEAN
  /\ todo = Keys
  /\ failed = FALSE
  /\ first = 0
  /\ kept = [t \in Targets |-> Nothing]
  /\ returned = FALSE

(* Mutant of Lower: the last failure met is the one reported. *)
Lower_Last(key) == TRUE

Lower(key) == ~failed \/ key < first

Fails(key) == key \in bad

Judges(key) == skips /\ failed => key < first

PassOver(key) ==
  /\ ~Judges(key)
  /\ UNCHANGED <<failed, first, kept>>

Fail(key) ==
  /\ Judges(key) /\ Fails(key)
  /\ failed' = TRUE
  /\ first' = IF Lower(key) THEN key ELSE first
  /\ UNCHANGED kept

(* Mutant of Keep: the value judged but not stored. *)
Keep_Forgets(key) ==
  /\ Judges(key) /\ ~Fails(key)
  /\ UNCHANGED <<failed, first, kept>>

Keep(key) ==
  /\ Judges(key) /\ ~Fails(key)
  /\ kept' = [kept EXCEPT ![target[key]] = key]
  /\ UNCHANGED <<failed, first>>

Visit(key) ==
  /\ PassOver(key) \/ Fail(key) \/ Keep(key)
  /\ todo' = todo \ {key}
  /\ UNCHANGED <<bad, target, skips, returned>>

Return ==
  /\ todo = {} /\ ~returned
  /\ returned' = TRUE
  /\ UNCHANGED <<bad, target, skips, todo, failed, first, kept>>

Next == (\E key \in todo : Visit(key)) \/ Return

Spec == Init /\ [][Next]_vars

TypeOK ==
  /\ bad \subseteq Keys
  /\ target \in [Keys -> Targets]
  /\ skips \in BOOLEAN
  /\ todo \subseteq Keys
  /\ failed \in BOOLEAN
  /\ first \in Int
  /\ kept \in [Targets -> Keys \cup {Nothing}]
  /\ returned \in BOOLEAN

(* Whatever the order, the loop fails exactly if some key is bad, and what *)
(* it reports is the lowest bad key.                                       *)
LowestReported ==
  returned => /\ failed <=> bad # {}
              /\ failed => first \in bad /\ \A key \in bad : first <= key

(* Whatever the order, a loop that succeeds has stored something under the *)
(* target of every key; and where no two keys share a target, exactly that *)
(* key, so the conversion does not depend on the order either.             *)
NothingLost ==
  returned /\ ~failed =>
    \A key \in Keys :
      /\ kept[target[key]] # Nothing
      /\ (\A other \in Keys : target[other] = target[key] => other = key)
           => kept[target[key]] = key

(***************************************************************************)
(* The loop over a map, for every map and every order of visiting it.      *)
(*                                                                         *)
(* What the keys visited so far guarantee: a bad one is not below the      *)
(* recorded failure, and the target of a good one holds a key that         *)
(* converts to it.                                                         *)
(***************************************************************************)
Visited == Keys \ todo

IInv ==
  /\ TypeOK
  /\ failed => first \in bad
  /\ \A key \in Visited \cap bad : failed /\ first <= key
  /\ \A t \in Targets : kept[t] # Nothing => target[kept[t]] = t
  /\ ~failed => \A key \in Visited : kept[target[key]] # Nothing
  /\ returned => todo = {}

LEMMA IInvInit == Init => IInv
<1> SUFFICES ASSUME Init PROVE IInv
  OBVIOUS
<1>1. kept \in [Targets -> Keys \cup {Nothing}] /\ \A t \in Targets : kept[t] = Nothing
  BY DEF Init
<1>2. TypeOK
  <2>1. first \in Int
    BY DEF Init
  <2>2. QED
    BY <1>1, <2>1, Zenon DEF Init, TypeOK
<1>3. QED
  BY <1>1, <1>2 DEF Init, IInv, Visited

LEMMA IInvStep == IInv /\ [Next]_vars => IInv'
<1> SUFFICES ASSUME IInv, [Next]_vars PROVE IInv'
  OBVIOUS
<1> USE DEF IInv, TypeOK, Visited
<1>1. ASSUME NEW key \in todo, Visit(key)
      PROVE  IInv'
  <2>1. /\ todo' = todo \ {key} /\ key \in Keys
        /\ UNCHANGED <<bad, target, skips, returned>>
        /\ ~returned
    BY <1>1 DEF Visit
  <2>2. CASE PassOver(key)
    BY <2>1, <2>2, KeysAssumption DEF PassOver, Judges
  <2>3. CASE Fail(key)
    BY <2>1, <2>3, KeysAssumption DEF Fail, Fails, Lower
  <2>4. CASE Keep(key)
    <3>1. target[key] \in Targets /\ key # Nothing
      BY <2>1, KeysAssumption
    <3>2. /\ kept' = [kept EXCEPT ![target[key]] = key]
          /\ UNCHANGED <<failed, first>> /\ key \notin bad
      BY <2>4 DEF Keep, Fails
    <3>3. QED
      BY <2>1, <3>1, <3>2
  <2>5. QED
    BY <1>1, <2>2, <2>3, <2>4 DEF Visit
<1>2. CASE Return
  BY <1>2 DEF Return
<1>3. CASE UNCHANGED vars
  BY <1>3 DEF vars
<1>4. QED
  BY <1>1, <1>2, <1>3 DEF Next

(* The report of each of the seven loops is the lowest failing key, for    *)
(* every map and every order (validateQuestions, decodeAnswers and the     *)
(* rest).                                                                  *)
THEOREM ReportIsLowest == Spec => []LowestReported
<1>1. IInv => LowestReported
  BY DEF IInv, TypeOK, Visited, LowestReported
<1>2. QED
  BY <1>1, IInvInit, IInvStep, PTL DEF Spec

(* A loop that finds nothing wrong keeps every key that shares its target  *)
(* with no other, for every map and every order.                           *)
THEOREM ConversionKeepsAll == Spec => []NothingLost
<1>1. IInv => NothingLost
  BY KeysAssumption DEF IInv, TypeOK, Visited, NothingLost
<1>2. QED
  BY <1>1, IInvInit, IInvStep, PTL DEF Spec
=============================================================================
