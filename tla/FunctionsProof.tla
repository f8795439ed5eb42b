--------------------------- MODULE FunctionsProof ---------------------------
(***************************************************************************)
(* Theorems about the pure functions, for any width of the integers, any   *)
(* policy and any number of attempts, models and texts.                    *)
(***************************************************************************)
EXTENDS MCFunctions, RetryProof, FiniteSetTheorems

LEMMA EnabledBacks ==
  ASSUME NEW policy \in Policy, Enabled(policy)
  PROVE  Backing(policy)
BY RetryAssumption DEF Policy, Enabled, Backing

(* The delay before jitter doubles with every attempt until it is capped,  *)
(* and stops short of the cap only where the double would not fit an int64 *)
(* (backoff's loop): what FullIsDoubled says, attempt by attempt.          *)
THEOREM BackoffDoubles ==
  ASSUME NEW policy \in Policy, Enabled(policy)
  PROVE  /\ FullBackoff(policy, 1) = AtMost(policy.backoffInitial, policy.backoffMax)
         /\ \A n \in Nat \ {0} :
              LET full == FullBackoff(policy, n)
                  next == FullBackoff(policy, n + 1)
              IN  \/ next = AtMost(2 * full, policy.backoffMax)
                  \/ full > MaxInt \div 2 /\ next = full
<1>1. PICK f \in [Nat -> 1..MaxInt] :
        /\ f[0] = policy.backoffInitial
        /\ \A n \in Nat : f[n + 1] = Turn(policy, f[n])
        /\ \A n \in Nat \ {0} : FullBackoff(policy, n) = AtMost(f[n - 1], policy.backoffMax)
  BY EnabledBacks, LoopOfBackoff
<1>2. FullBackoff(policy, 1) = AtMost(policy.backoffInitial, policy.backoffMax)
  <2>1. 1 \in Nat \ {0} /\ 1 - 1 = 0
    OBVIOUS
  <2>2. QED
    BY <1>1, <2>1
<1>3. ASSUME NEW n \in Nat \ {0}
      PROVE  \/ FullBackoff(policy, n + 1) = AtMost(2 * FullBackoff(policy, n), policy.backoffMax)
             \/ /\ FullBackoff(policy, n) > MaxInt \div 2
                /\ FullBackoff(policy, n + 1) = FullBackoff(policy, n)
  <2> DEFINE delay == f[n - 1]
  <2>1. n - 1 \in Nat /\ (n - 1) + 1 = n /\ n + 1 \in Nat \ {0} /\ (n + 1) - 1 = n
    OBVIOUS
  <2>2. delay \in 1..MaxInt /\ policy.backoffMax \in 1..MaxInt /\ MaxInt \in Nat
    BY <2>1, RetryAssumption DEF Policy, Enabled
  <2>3. f[n] = Turn(policy, delay)
    BY <1>1, <2>1
  <2>4. /\ FullBackoff(policy, n) = AtMost(delay, policy.backoffMax)
        /\ FullBackoff(policy, n + 1) = AtMost(Turn(policy, delay), policy.backoffMax)
    BY <1>1, <2>1, <2>3
  <2> HIDE DEF delay
  <2>5. CASE delay >= policy.backoffMax
    <3>1. /\ FullBackoff(policy, n) = policy.backoffMax
          /\ FullBackoff(policy, n + 1) = policy.backoffMax
      BY <2>2, <2>4, <2>5 DEF Turn, AtMost
    <3>2. AtMost(2 * policy.backoffMax, policy.backoffMax) = policy.backoffMax
      BY <2>2 DEF AtMost
    <3>3. QED
      BY <3>1, <3>2
  <2>6. CASE delay < policy.backoffMax /\ delay > MaxInt \div 2
    <3>1. /\ FullBackoff(policy, n) = delay
          /\ FullBackoff(policy, n + 1) = delay
      BY <2>2, <2>4, <2>6 DEF Turn, AtMost
    <3>2. QED
      BY <2>6, <3>1
  <2>7. CASE delay < policy.backoffMax /\ ~(delay > MaxInt \div 2)
    <3>1. /\ FullBackoff(policy, n) = delay
          /\ FullBackoff(policy, n + 1) = AtMost(2 * delay, policy.backoffMax)
      <4>1. AtMost(delay, policy.backoffMax) = delay
        BY <2>2, <2>7 DEF AtMost
      <4>2. Turn(policy, delay) = 2 * delay
        BY <2>2, <2>7 DEF Turn
      <4>3. QED
        BY <2>4, <4>1, <4>2
    <3>2. QED
      BY <3>1
  <2>8. QED
    BY <2>2, <2>5, <2>6, <2>7
<1>4. QED
  BY <1>2, <1>3

(***************************************************************************)
(* The inputs of MCFunctions are what Init says, in every state.           *)
(***************************************************************************)
Inputs ==
  /\ input.of = "backoff" => input \in [of : {"backoff"}, policy : Policy, attempt : Nat \ {0}]
  /\ input.of = "body" => input \in [of : {"body"}, body : Bodies]
  /\ input.of = "listing" =>
       input \in [of : {"listing"}, optionsOK : BOOLEAN, answered : BOOLEAN, body : Listings]
  /\ input.of = "text" =>
       input \in [of : {"text"}, widths : UNION {[1..n -> 1..4] : n \in 0..MaxRunes}]
  /\ input.of = "post" =>
       input \in [of : {"post"}, probabilities : [DOMAIN Policies -> Thresholds]]

LEMMA InputsAlways == Spec => []Inputs
<1>1. Init => Inputs
  <2> SUFFICES ASSUME Init PROVE Inputs
    OBVIOUS
  <2> HIDE DEF Policy, Bodies, Listings
  <2>1. QED
    BY DEF Init, Inputs
<1>2. Inputs /\ [Fail]_input => Inputs'
  <2> SUFFICES ASSUME Inputs, [Fail]_input PROVE Inputs'
    OBVIOUS
  <2>1. CASE UNCHANGED input
    BY <2>1 DEF Inputs
  <2>2. CASE Fail
    <3>1. /\ input \in [of : {"backoff"}, policy : Policy, attempt : Nat \ {0}]
          /\ input' = [input EXCEPT !.attempt = input.attempt + 1]
      BY <2>2 DEF Fail, Inputs
    <3>2. /\ input' \in [of : {"backoff"}, policy : Policy, attempt : Nat \ {0}]
          /\ input'.of = "backoff"
      BY <3>1
    <3>3. QED
      BY <3>2 DEF Inputs
  <2>3. QED
    BY <2>1, <2>2
<1>3. QED
  BY <1>1, <1>2, PTL DEF Spec

(* A backoff that is on never becomes no delay, whatever the fraction and  *)
(* the draw, and below the precision of a float it loses no more than its  *)
(* fraction, for any width, precision, policy and number of attempts       *)
(* (backoff).                                                              *)
THEOREM JitterNeverStarves == Spec => []JitterLeavesDelay
<1>1. Inputs => JitterLeavesDelay
  <2> SUFFICES ASSUME Inputs, input.of = "backoff", Enabled(input.policy),
                      NEW delay \in Backoff(input.policy, input.attempt)
               PROVE  LET full == FullBackoff(input.policy, input.attempt)
                      IN  /\ delay \in 1..full
                          /\ full < FloatScale =>
                               delay * FloatScale >=
                                 full * (FloatScale - input.policy.backoffJitter)
    BY DEF JitterLeavesDelay
  <2> DEFINE policy == input.policy
             full   == FullBackoff(policy, input.attempt)
  <2>1. /\ policy \in Policy /\ input.attempt \in Nat \ {0}
        /\ policy.backoffJitter \in 0..FloatScale
        /\ policy.backoffMax \in Nat
    BY DEF Inputs, Policy
  <2>2. full \in 1..policy.backoffMax
    BY <2>1, EnabledBacks, FullType
  <2>3. delay \in Jittered(policy, full)
    <3>1. policy.backoffInitial > 0 /\ policy.backoffMax > 0
      BY DEF Enabled
    <3>2. policy.backoffInitial \in Int /\ policy.backoffMax \in Int
      BY <2>1, RetryAssumption DEF Policy
    <3>3. ~(policy.backoffInitial <= 0 \/ policy.backoffMax <= 0)
      BY <3>1, <3>2
    <3>4. QED
      BY <3>3 DEF Backoff
  <2> HIDE DEF full, policy
  <2>4. full \in Nat \ {0}
    BY <2>1, <2>2
  <2>5. delay \in 1..full
    BY <2>1, <2>3, <2>4, JitterLeaves
  <2>6. ASSUME full < FloatScale
        PROVE  delay * FloatScale >= full * (FloatScale - policy.backoffJitter)
    <3>1. full \in 1..(FloatScale - 1)
      BY <2>4, <2>6, ScaleIs
    <3>2. QED
      BY <2>1, <2>3, <3>1, JitterTakesFraction
  <2>7. QED
    BY <2>5, <2>6 DEF full, policy
<1>2. QED
  BY <1>1, InputsAlways, PTL

(* What the standard module says of 2^n; the provers know nothing of it.   *)
PowersDouble ==
  /\ 2 ^ 0 = 1
  /\ \A n \in Nat : 2 ^ n \in Nat /\ 2 ^ (n + 1) = 2 * (2 ^ n)

LEMMA DoubledIs ==
  ASSUME PowersDouble, NEW policy \in Policy, Enabled(policy),
         NEW f \in [Nat -> 1..MaxInt], f[0] = policy.backoffInitial,
         \A n \in Nat : f[n + 1] = Turn(policy, f[n]),
         NEW n \in Nat
  PROVE  \/ f[n] = policy.backoffInitial * (2 ^ n)
         \/ /\ f[n] <= policy.backoffInitial * (2 ^ n)
            /\ f[n] >= policy.backoffMax \/ f[n] > MaxInt \div 2
<1> DEFINE ideal(k) == policy.backoffInitial * (2 ^ k)
           Good(k) == \/ f[k] = ideal(k)
                      \/ /\ f[k] <= ideal(k)
                         /\ f[k] >= policy.backoffMax \/ f[k] > MaxInt \div 2
           Bad == {k \in Nat : ~Good(k)}
<1>t. /\ policy.backoffInitial \in 1..MaxInt /\ policy.backoffMax \in 1..MaxInt
      /\ MaxInt \in Nat
  BY RetryAssumption DEF Policy, Enabled
<1>1. Good(0)
  <2>1. ideal(0) = policy.backoffInitial
    BY <1>t DEF PowersDouble
  <2>2. QED
    BY <2>1
<1>2. ASSUME NEW k \in Nat, Good(k) PROVE Good(k + 1)
  <2>1. /\ ideal(k) \in Nat /\ ideal(k + 1) = 2 * ideal(k)
    <3>1. 2 ^ k \in Nat /\ 2 ^ (k + 1) = 2 * (2 ^ k)
      BY DEF PowersDouble
    <3>2. ASSUME NEW p \in Nat, NEW a \in Nat PROVE a * p \in Nat /\ a * (2 * p) = 2 * (a * p)
      OBVIOUS
    <3> DEFINE p == 2 ^ k
               a == policy.backoffInitial
    <3>3. a \in Nat /\ p \in Nat
      BY <3>1, <1>t
    <3>4. ideal(k) = a * p
      OBVIOUS
    <3>5. ideal(k + 1) = a * (2 * p)
      BY <3>1, Zenon
    <3> HIDE DEF p, a, ideal
    <3>6. QED
      BY <3>2, <3>3, <3>4, <3>5
  <2>2. f[k] \in 1..MaxInt /\ f[k + 1] = Turn(policy, f[k])
    OBVIOUS
  <2> HIDE DEF ideal
  <2>3. QED
    BY <2>1, <2>2, <1>t, <1>2 DEF Turn
<1> HIDE DEF Good
<1>3. ASSUME Bad # {} PROVE FALSE
  <2>1. PICK x \in Bad : \A y \in Bad : x <= y
    <3>1. Bad \subseteq Nat
      OBVIOUS
    <3>2. QED
      BY <1>3, <3>1, LeastExists
  <2>2. x # 0
    BY <1>1
  <2>3. x - 1 \in Nat /\ (x - 1) + 1 = x /\ ~(x <= x - 1)
    BY <2>2
  <2>4. Good(x - 1)
    BY <2>1, <2>3
  <2>5. Good((x - 1) + 1)
    BY <1>2, <2>3, <2>4
  <2>6. QED
    BY <2>3, <2>5
<1>4. Good(n)
  BY <1>3
<1>5. QED
  BY <1>4 DEF Good

(* The delay before jitter is the initial one times a power of two, capped,*)
(* for any width, policy and number of attempts (backoff's loop).          *)
THEOREM FullAlwaysDoubled == PowersDouble => (Spec => []FullIsDoubled)
<1> SUFFICES ASSUME PowersDouble PROVE Spec => []FullIsDoubled
  OBVIOUS
<1>1. Inputs => FullIsDoubled
  <2> SUFFICES ASSUME Inputs, input.of = "backoff", Enabled(input.policy)
               PROVE  LET ideal == AtMost(input.policy.backoffInitial * 2 ^ (input.attempt - 1),
                                          input.policy.backoffMax)
                          full  == FullBackoff(input.policy, input.attempt)
                      IN  \/ full = ideal
                          \/ full > MaxInt \div 2 /\ full <= ideal
    BY DEF FullIsDoubled
  <2> DEFINE policy == input.policy
             n      == input.attempt
  <2>1. policy \in Policy /\ n \in Nat \ {0}
    BY DEF Inputs
  <2>2. PICK f \in [Nat -> 1..MaxInt] :
          /\ f[0] = policy.backoffInitial
          /\ \A k \in Nat : f[k + 1] = Turn(policy, f[k])
          /\ \A k \in Nat \ {0} : FullBackoff(policy, k) = AtMost(f[k - 1], policy.backoffMax)
    BY <2>1, EnabledBacks, LoopOfBackoff
  <2>3. n - 1 \in Nat
    BY <2>1
  <2>4. \/ f[n - 1] = policy.backoffInitial * (2 ^ (n - 1))
        \/ /\ f[n - 1] <= policy.backoffInitial * (2 ^ (n - 1))
           /\ f[n - 1] >= policy.backoffMax \/ f[n - 1] > MaxInt \div 2
    BY <2>1, <2>2, <2>3, DoubledIs
  <2>5. /\ policy.backoffInitial * (2 ^ (n - 1)) \in Nat
        /\ policy.backoffMax \in Nat /\ MaxInt \in Nat /\ f[n - 1] \in Nat
    <3>1. 2 ^ (n - 1) \in Nat /\ policy.backoffInitial \in Nat
      BY <2>1, <2>3, RetryAssumption DEF PowersDouble, Policy
    <3>2. ASSUME NEW p \in Nat, NEW a \in Nat PROVE a * p \in Nat
      OBVIOUS
    <3>3. QED
      BY <2>1, <2>3, <3>1, <3>2, RetryAssumption DEF Policy
  <2>6. FullBackoff(policy, n) = AtMost(f[n - 1], policy.backoffMax)
    BY <2>1, <2>2
  <2>7. ASSUME NEW x \in Nat, NEW y \in Nat, NEW cap \in Nat,
               x = y \/ (x <= y /\ (x >= cap \/ x > MaxInt \div 2))
        PROVE  \/ AtMost(x, cap) = AtMost(y, cap)
               \/ AtMost(x, cap) > MaxInt \div 2 /\ AtMost(x, cap) <= AtMost(y, cap)
    BY <2>7, RetryAssumption DEF AtMost
  <2> HIDE DEF policy, n
  <2>8. \/ AtMost(f[n - 1], policy.backoffMax)
             = AtMost(policy.backoffInitial * (2 ^ (n - 1)), policy.backoffMax)
        \/ /\ AtMost(f[n - 1], policy.backoffMax) > MaxInt \div 2
           /\ AtMost(f[n - 1], policy.backoffMax)
                <= AtMost(policy.backoffInitial * (2 ^ (n - 1)), policy.backoffMax)
    BY <2>4, <2>5, <2>7
  <2>9. QED
    BY <2>6, <2>8 DEF policy, n
<1>2. QED
  BY <1>1, InputsAlways, PTL

(***************************************************************************)
(* Error bodies.                                                           *)
(***************************************************************************)
(* The first text of an object is the message found in it. *)
LEMMA FirstText ==
  ASSUME NEW body, Texts(body) # {},
         NEW first, first = CHOOSE rank \in Texts(body) : \A other \in Texts(body) : rank <= other
  PROVE  MessageFromObject(body) = Quote(Nested(<<body.error, body.message, body.detail>>[first]))
<1>1. Texts(body) \subseteq 1..3
  BY DEF Texts
<1>2. /\ 1 \in Texts(body) <=> IsNested(body.error)
      /\ 2 \in Texts(body) <=> body.message.json = "string"
      /\ 3 \in Texts(body) <=> IsNested(body.detail)
  BY DEF Texts
<1>3. first \in Texts(body) /\ \A other \in Texts(body) : first <= other
  <2>1. \E rank \in Texts(body) : \A other \in Texts(body) : rank <= other
    BY <1>1, LeastExists
  <2>2. QED
    BY <2>1
<1> DEFINE values == <<body.error, body.message, body.detail>>
<1>v. values[1] = body.error /\ values[2] = body.message /\ values[3] = body.detail
  OBVIOUS
<1> HIDE DEF values
<1>g. MessageFromObject(body) = Quote(Nested(values[first]))
  <2>4. CASE IsNested(body.error)
    <3>1. first = 1
      BY <1>1, <1>2, <1>3, <2>4
    <3>2. MessageFromObject(body) = Quote(Nested(body.error))
      BY <2>4, Zenon DEF MessageFromObject
    <3>3. QED
      BY <1>v, <3>1, <3>2
  <2>5. CASE ~IsNested(body.error) /\ body.message.json = "string"
    <3>1. first = 2
      BY <1>1, <1>2, <1>3, <2>5
    <3>2. MessageFromObject(body) = Quote(body.message.text)
      BY <2>5, Zenon DEF MessageFromObject
    <3>3. Nested(body.message) = body.message.text
      BY <2>5, Zenon DEF Nested
    <3>4. QED
      BY <1>v, <3>1, <3>2, <3>3
  <2>6. CASE ~IsNested(body.error) /\ body.message.json # "string"
    <3>1. first = 3 /\ IsNested(body.detail)
      BY <1>1, <1>2, <1>3, <2>6
    <3>2. MessageFromObject(body) = Quote(Nested(body.detail))
      BY <2>6, <3>1, Zenon DEF MessageFromObject
    <3>3. QED
      BY <1>v, <3>1, <3>2
  <2>7. QED
    BY <2>4, <2>5, <2>6
<1>4. QED
  BY <1>g DEF values

(* An error is shown with the first text of its body, else with the body,  *)
(* and with nothing only if the body is blank, whatever the texts are      *)
(* (extractMessage).                                                       *)
THEOREM AlwaysExplained == Spec => []Explained
<1>1. ASSUME NEW body, Silent(ExtractMessage(body)) PROVE body = Blank
  <2>1. ~Silent(FixedText) /\ ~Silent(WholeBody)
    BY DEF Silent, FixedText, WholeBody
  <2>2. QED
    BY <1>1, <2>1 DEF ExtractMessage, Trimmed
<1>2. ASSUME NEW body, body.form = "object", Texts(body) # {}, NEW first,
             first = CHOOSE rank \in Texts(body) : \A other \in Texts(body) : rank <= other
      PROVE  LET text == Nested(<<body.error, body.message, body.detail>>[first])
             IN  ExtractMessage(body) = IF text = "" THEN WholeBody ELSE Quote(text)
  <2> DEFINE text == Nested(<<body.error, body.message, body.detail>>[first])
  <2>1. MessageFromJSON(body) = Quote(text)
    BY <1>2, FirstText DEF MessageFromJSON
  <2>2. body # NoBytes /\ body # Blank
    BY <1>2 DEF NoBytes, Blank
  <2> HIDE DEF text
  <2>3. Silent(Quote(text)) <=> text = ""
    BY DEF Silent, Quote
  <2>4. ExtractMessage(body) = IF text = "" THEN WholeBody ELSE Quote(text)
    BY <2>1, <2>2, <2>3 DEF ExtractMessage, Trimmed
  <2>5. QED
    BY <2>4 DEF text
<1>3. Explained
  BY <1>1, <1>2 DEF Explained
<1>4. QED
  BY <1>3, PTL

(* A text in UTF-8 begins with the start of a rune, and no rune is longer  *)
(* than four bytes.                                                        *)
Runes(text) ==
  /\ text \in Seq({"start", "more"})
  /\ text # <<>> => text[1] = "start"
  /\ \A i \in 1..Len(text) :
       i + 3 <= Len(text) => \E j \in i..(i + 3) : text[j] = "start"

(* A text is cut between two runes, within any limit, and loses less than  *)
(* one rune of what would fit (truncate): what CutAtRune says, of every    *)
(* text in UTF-8.                                                          *)
THEOREM CutsBetweenRunes ==
  ASSUME NEW text, Runes(text), NEW limit \in Nat
  PROVE  LET kept == Truncate(text, limit)
         IN  /\ kept = Len(text) \/ text[kept + 1] = "start"
             /\ kept <= limit
             /\ kept < Len(text) => kept > limit - 4
<1>t. Len(text) \in Nat /\ text \in Seq({"start", "more"})
  BY DEF Runes
<1>1. CASE Len(text) <= limit
  BY <1>t, <1>1 DEF Truncate
<1>2. CASE ~(Len(text) <= limit)
  <2> DEFINE Fits(cut) == /\ cut = 0 \/ text[cut + 1] = "start"
                          /\ \A later \in (cut + 1)..limit : text[later + 1] # "start"
             Lost == {limit - cut : cut \in {c \in 0..limit : c = 0 \/ text[c + 1] = "start"}}
  <2>1. PICK lost \in Lost : \A other \in Lost : lost <= other
    <3>1. Lost \subseteq Nat
      OBVIOUS
    <3>2. limit - 0 \in Lost
      OBVIOUS
    <3>3. QED
      BY <3>1, <3>2, LeastExists
  <2>2. PICK best \in 0..limit : lost = limit - best /\ (best = 0 \/ text[best + 1] = "start")
    OBVIOUS
  <2>3. ASSUME NEW later \in (best + 1)..limit, text[later + 1] = "start" PROVE FALSE
    <3>1. later \in 0..limit
      OBVIOUS
    <3>2. limit - later \in Lost
      BY <2>3, <3>1
    <3>3. lost <= limit - later
      BY <2>1, <3>2
    <3>4. QED
      BY <2>2, <3>3
  <2>4. Fits(best)
    BY <2>2, <2>3
  <2> DEFINE kept == CHOOSE cut \in 0..limit : Fits(cut)
  <2>5. Truncate(text, limit) = kept
    BY <1>2 DEF Truncate
  <2>6. kept \in 0..limit /\ Fits(kept)
    BY <2>4
  <2> HIDE DEF kept
  <2>7. text[kept + 1] = "start"
    BY <1>2, <1>t, <2>6 DEF Runes
  <2>8. kept > limit - 4
    <3>1. SUFFICES ASSUME kept + 4 <= limit PROVE FALSE
      BY <2>6
    <3>2. kept + 2 \in 1..Len(text) /\ (kept + 2) + 3 <= Len(text)
      BY <1>2, <1>t, <2>6, <3>1
    <3>3. PICK j \in (kept + 2)..((kept + 2) + 3) : text[j] = "start"
      BY <3>2 DEF Runes
    <3>4. j - 1 \in (kept + 1)..limit /\ (j - 1) + 1 = j
      BY <2>6, <3>1, <3>3
    <3>5. QED
      BY <2>6, <3>3, <3>4
  <2>9. QED
    BY <2>5, <2>6, <2>7, <2>8
<1>3. QED
  BY <1>1, <1>2

(***************************************************************************)
(* The listing of models.                                                  *)
(***************************************************************************)
(* First is the first place, by model and then by field. *)
LEMMA FirstIs ==
  ASSUME NEW places, places \subseteq Nat \X (1..3), places # {}
  PROVE  /\ First(places) \in places
         /\ \A other \in places :
              \/ First(places)[1] < other[1]
              \/ First(places)[1] = other[1] /\ First(places)[2] <= other[2]
<1> DEFINE rows == {place[1] : place \in places}
<1>1. PICK row \in rows : \A other \in rows : row <= other
  <2>1. rows \subseteq Nat /\ rows # {}
    OBVIOUS
  <2>2. QED
    BY <2>1, LeastExists
<1> DEFINE fields == {place[2] : place \in {p \in places : p[1] = row}}
<1>2. PICK field \in fields : \A other \in fields : field <= other
  <2>1. fields \subseteq Nat /\ fields # {}
    OBVIOUS
  <2>2. QED
    BY <2>1, LeastExists
<1>3. PICK best \in places : best[1] = row /\ best[2] = field
  OBVIOUS
<1>4. ASSUME NEW other \in places
      PROVE  best[1] < other[1] \/ (best[1] = other[1] /\ best[2] <= other[2])
  <2>1. row <= other[1] /\ row \in Nat /\ other[1] \in Nat
    BY <1>1
  <2>2. CASE other[1] = row
    <3>1. other[2] \in fields
      BY <2>2
    <3>2. QED
      BY <1>2, <1>3, <2>2, <3>1
  <2>3. CASE other[1] # row
    BY <1>3, <2>1, <2>3
  <2>4. QED
    BY <2>2, <2>3
<1>5. QED
  BY <1>3, <1>4 DEF First

Fields == {"name", "description", "release_date"}

LEMMA FieldPlaces ==
  /\ \A k \in 1..3 : MetadataFields[k] \in Fields
  /\ \A field \in Fields : \E k \in 1..3 : MetadataFields[k] = field
<1>1. /\ MetadataFields[1] = "name" /\ MetadataFields[2] = "description"
      /\ MetadataFields[3] = "release_date"
  BY DEF MetadataFields
<1>2. \A k \in 1..3 : k = 1 \/ k = 2 \/ k = 3
  OBVIOUS
<1>3. 1 \in 1..3 /\ 2 \in 1..3 /\ 3 \in 1..3
  OBVIOUS
<1>4. QED
  BY <1>1, <1>2, <1>3 DEF Fields

(* What is judged of a list of any length: a place in a bad state is found *)
(* if and only if there is one, and the first of them has only good models *)
(* before it.                                                              *)
LEMMA PlacesOf ==
  ASSUME NEW models \in Seq(Metadata), NEW state \in MetadataStates
  PROVE  /\ In(models, state) \subseteq Nat \X (1..3)
         /\ In(models, state) = {} <=>
              \A i \in DOMAIN models : \A field \in Fields : models[i][field] # state
         /\ In(models, state) # {} =>
              /\ First(In(models, state))[1] \in DOMAIN models
              /\ MetadataFields[First(In(models, state))[2]] \in Fields
              /\ models[First(In(models, state))[1]][MetadataFields[First(In(models, state))[2]]]
                   = state
              /\ \A i \in DOMAIN models : \A field \in Fields :
                   i < First(In(models, state))[1] => models[i][field] # state
<1> DEFINE places == In(models, state)
<1>t. DOMAIN models \subseteq Nat
  OBVIOUS
<1>1. ASSUME NEW place \in places
      PROVE  /\ place \in Nat \X (1..3) /\ place[1] \in DOMAIN models /\ place[2] \in 1..3
             /\ models[place[1]][MetadataFields[place[2]]] = state
  BY <1>t DEF In
<1>2. ASSUME NEW i \in DOMAIN models, NEW field \in Fields, models[i][field] = state
      PROVE  \E place \in places : place[1] = i
  <2>1. PICK k \in 1..3 : MetadataFields[k] = field
    BY FieldPlaces
  <2>2. <<i, k>> \in places
    BY <1>2, <2>1 DEF In
  <2>3. QED
    BY <2>2
<1> HIDE DEF places
<1>3. places \subseteq Nat \X (1..3)
  BY <1>1
<1>4. places = {} <=> \A i \in DOMAIN models : \A field \in Fields : models[i][field] # state
  BY <1>1, <1>2, FieldPlaces
<1>5. ASSUME places # {}
      PROVE  /\ First(places) \in places
             /\ \A i \in DOMAIN models : \A field \in Fields :
                  i < First(places)[1] => models[i][field] # state
  <2>1. /\ First(places) \in places
        /\ \A other \in places : First(places)[1] < other[1] \/ First(places)[1] = other[1]
    BY <1>3, <1>5, FirstIs
  <2>2. ASSUME NEW i \in DOMAIN models, NEW field \in Fields, i < First(places)[1],
               models[i][field] = state
        PROVE  FALSE
    <3>1. PICK place \in places : place[1] = i
      BY <1>2, <2>2
    <3>2. First(places)[1] \in Nat /\ i \in Nat
      BY <1>1, <1>t, <2>1
    <3>3. QED
      BY <2>1, <2>2, <3>1, <3>2
  <2>3. QED
    BY <2>1, <2>2
<1>6. QED
  BY <1>1, <1>3, <1>4, <1>5, FieldPlaces DEF places

LEMMA GoodMeans ==
  ASSUME NEW model \in Metadata
  PROVE  AllGood(model) <=> \A field \in Fields : model[field] \notin {"absent", "mistyped"}
BY DEF AllGood, Metadata, MetadataStates, Fields

(* A listing of any length is delivered exactly if it is whole, and then   *)
(* as it was sent; an error with an index names the first model that is    *)
(* not and a field it lacks (decodeListModels).                            *)
THEOREM JudgesAnyListing ==
  ASSUME NEW models \in Seq(Metadata)
  PROVE  LET result == DecodeListModels(Listing(models))
         IN  /\ result.ok \in BOOLEAN
             /\ result.ok <=> \A i \in DOMAIN models : AllGood(models[i])
             /\ result.ok => result.models = models
             /\ ~result.ok /\ result.index # NoIndex =>
                  /\ models[result.index][result.field] = "absent"
                  /\ \A i \in 1..(result.index - 1) : AllGood(models[i])
<1> DEFINE wrong   == In(models, "mistyped")
           missing == In(models, "absent")
           result  == DecodeListModels(Listing(models))
<1>t. /\ DOMAIN models = 1..Len(models) /\ Len(models) \in Nat
      /\ \A i \in DOMAIN models : models[i] \in Metadata
  OBVIOUS
<1>s. "mistyped" \in MetadataStates /\ "absent" \in MetadataStates
  BY DEF MetadataStates
<1>r. result = IF wrong # {} THEN Invalid(NoIndex, MetadataFields[First(wrong)[2]])
               ELSE IF missing # {}
               THEN Invalid(First(missing)[1], MetadataFields[First(missing)[2]])
               ELSE Listed(models)
  BY DEF DecodeListModels, Listing
<1>w. wrong = {} <=> \A i \in DOMAIN models : \A field \in Fields : models[i][field] # "mistyped"
  BY <1>s, PlacesOf
<1>m. missing = {} <=> \A i \in DOMAIN models : \A field \in Fields : models[i][field] # "absent"
  BY <1>s, PlacesOf
<1>f. missing # {} =>
        /\ First(missing)[1] \in DOMAIN models
        /\ models[First(missing)[1]][MetadataFields[First(missing)[2]]] = "absent"
        /\ \A i \in DOMAIN models : \A field \in Fields :
             i < First(missing)[1] => models[i][field] # "absent"
  BY <1>s, PlacesOf
<1>g. (\A i \in DOMAIN models : AllGood(models[i])) <=> wrong = {} /\ missing = {}
  BY <1>t, <1>w, <1>m, GoodMeans
<1> HIDE DEF wrong, missing, result
<1>1. CASE wrong # {}
  <2>1. result.ok = FALSE /\ result.index = NoIndex
    BY <1>r, <1>1 DEF Invalid
  <2>2. QED
    BY <1>g, <1>1, <2>1 DEF result
<1>2. CASE wrong = {} /\ missing # {}
  <2>1. /\ result.ok = FALSE /\ result.index = First(missing)[1]
        /\ result.field = MetadataFields[First(missing)[2]]
    BY <1>r, <1>2 DEF Invalid
  <2>2. ASSUME NEW i \in 1..(First(missing)[1] - 1) PROVE AllGood(models[i])
    <3>1. i \in DOMAIN models /\ i < First(missing)[1]
      BY <1>t, <1>f, <1>2
    <3>2. QED
      BY <1>t, <1>w, <1>f, <1>2, <3>1, GoodMeans
  <2>3. QED
    BY <1>f, <1>g, <1>2, <2>1, <2>2 DEF result
<1>3. CASE wrong = {} /\ missing = {}
  <2>1. result.ok = TRUE /\ result.models = models
    BY <1>r, <1>3 DEF Listed
  <2>2. QED
    BY <1>g, <1>3, <2>1 DEF result
<1>4. QED
  BY <1>1, <1>2, <1>3

(* ListModels delivers what the server sent or says what is wrong, for     *)
(* every listing (decodeListModels).                                       *)
THEOREM ListingsJudged == Spec => []ListingJudged
<1>1. Inputs => ListingJudged
  <2> SUFFICES ASSUME Inputs, input.of = "listing"
               PROVE  LET body   == input.body
                          result == ListModels(input.optionsOK, input.answered, body)
                          whole  == /\ body.form = "listing"
                                    /\ \A i \in DOMAIN body.models : AllGood(body.models[i])
                      IN  /\ result.ok <=> input.optionsOK /\ input.answered /\ whole
                          /\ result.ok => result.models = body.models
                          /\ ~result.ok /\ result.index # NoIndex =>
                               /\ body.models[result.index][result.field] = "absent"
                               /\ \A i \in 1..(result.index - 1) : AllGood(body.models[i])
    BY DEF ListingJudged
  <2> DEFINE body   == input.body
             result == ListModels(input.optionsOK, input.answered, body)
  <2>1. /\ input.optionsOK \in BOOLEAN /\ input.answered \in BOOLEAN
        /\ body \in Listings
    BY DEF Inputs
  <2>2. CASE ~input.optionsOK \/ ~input.answered
    <3>1. result.ok = FALSE /\ result.index = NoIndex
      BY <2>2 DEF ListModels, Invalid
    <3>2. QED
      BY <2>2, <3>1
  <2>3. CASE input.optionsOK /\ input.answered /\ body.form # "listing"
    <3>1. \/ body \in {Unusable, Unlisted("absent"), Unlisted("mistyped")}
          \/ body \in {Listing(models) : models \in UNION {[1..n -> Metadata] : n \in 0..2}}
      BY <2>1 DEF Listings
    <3>2. body.form = "unusable" \/ body.form = "unlisted"
      <4>1. body \notin {Listing(models) : models \in UNION {[1..n -> Metadata] : n \in 0..2}}
        BY <2>3 DEF Listing
      <4>2. body = Unusable \/ body = Unlisted("absent") \/ body = Unlisted("mistyped")
        BY <3>1, <4>1
      <4> HIDE DEF body
      <4>3. QED
        BY <4>2 DEF Unusable, Unlisted
    <3>3. result = DecodeListModels(body)
      BY <2>3 DEF ListModels
    <3> HIDE DEF body
    <3>4. DecodeListModels(body).ok = FALSE /\ DecodeListModels(body).index = NoIndex
      BY <3>2 DEF DecodeListModels, Invalid
    <3>5. QED
      BY <2>3, <3>3, <3>4 DEF body
  <2>4. CASE input.optionsOK /\ input.answered /\ body.form = "listing"
    <3>1. PICK models : models \in UNION {[1..n -> Metadata] : n \in 0..2} /\ body = Listing(models)
      BY <2>1, <2>4 DEF Listings, Unusable, Unlisted
    <3>2. models \in Seq(Metadata)
      <4>1. PICK n \in 0..2 : models \in [1..n -> Metadata]
        BY <3>1
      <4>2. QED
        BY <4>1
    <3>3. result = DecodeListModels(Listing(models)) /\ body.models = models
      BY <2>4, <3>1 DEF ListModels, Listing
    <3> HIDE DEF result, body
    <3>4. QED
      BY <2>4, <3>2, <3>3, JudgesAnyListing DEF result, body
  <2>5. QED
    BY <2>2, <2>3, <2>4, <2>1
<1>2. QED
  BY <1>1, InputsAlways, PTL

(***************************************************************************)
(* The texts of MCFunctions are in UTF-8: what FlattenSeq makes of runes.  *)
(***************************************************************************)
Rune(width) == [j \in 1..width |-> IF j = 1 THEN "start" ELSE "more"]

Joined(f, n, seqs) == f[1] = seqs[1] /\ \A i \in 2..n : f[i] = f[i - 1] \o seqs[i]

LEMMA JoinedExists ==
  ASSUME NEW S, NEW n \in Nat \ {0}, NEW seqs \in [1..n -> Seq(S)]
  PROVE  \E f \in [1..n -> Seq(S)] : Joined(f, n, seqs)
<1> DEFINE Stuck == {m \in 1..n : ~ \E f \in [1..m -> Seq(S)] : Joined(f, m, seqs)}
<1>1. ASSUME Stuck # {} PROVE FALSE
  <2>1. PICK x \in Stuck : \A y \in Stuck : x <= y
    <3>1. Stuck \subseteq Nat
      OBVIOUS
    <3>2. QED
      BY <1>1, <3>1, LeastExists
  <2>2. x # 1
    <3>1. [k \in 1..1 |-> seqs[1]] \in [1..1 -> Seq(S)]
      OBVIOUS
    <3>2. Joined([k \in 1..1 |-> seqs[1]], 1, seqs)
      BY DEF Joined
    <3>3. QED
      BY <3>1, <3>2
  <2>3. x - 1 \in 1..n /\ x \in 2..n /\ ~(x <= x - 1)
    BY <2>2
  <2>4. PICK f \in [1..(x - 1) -> Seq(S)] : Joined(f, x - 1, seqs)
    BY <2>1, <2>3
  <2> DEFINE g == [k \in 1..x |-> IF k = x THEN f[x - 1] \o seqs[x] ELSE f[k]]
  <2>5. g \in [1..x -> Seq(S)]
    <3>1. f[x - 1] \in Seq(S) /\ seqs[x] \in Seq(S)
      BY <2>3
    <3>2. f[x - 1] \o seqs[x] \in Seq(S)
      BY <3>1
    <3>3. \A k \in 1..x : k = x \/ k \in 1..(x - 1)
      BY <2>3
    <3>4. QED
      BY <3>2, <3>3
  <2>6. Joined(g, x, seqs)
    <3>1. g[1] = seqs[1]
      BY <2>2, <2>3, <2>4 DEF Joined
    <3>2. ASSUME NEW k \in 2..x PROVE g[k] = g[k - 1] \o seqs[k]
      <4>1. k - 1 \in 1..x /\ k \in 1..x /\ k - 1 # x
        BY <2>3
      <4>2. g[k - 1] = f[k - 1]
        BY <4>1
      <4>3. CASE k = x
        BY <4>1, <4>2, <4>3
      <4>4. CASE k # x
        <5>1. k \in 2..(x - 1) /\ g[k] = f[k]
          BY <2>3, <4>1, <4>4
        <5>2. f[k] = f[k - 1] \o seqs[k]
          BY <2>4, <5>1 DEF Joined
        <5>3. QED
          BY <4>2, <5>1, <5>2
      <4>5. QED
        BY <4>3, <4>4
    <3> HIDE DEF g
    <3>3. QED
      BY <3>1, <3>2 DEF Joined
  <2>7. QED
    <3> HIDE DEF g
    <3> QED
      BY <2>1, <2>5, <2>6
<1>2. n \in 1..n
  OBVIOUS
<1>3. QED
  BY <1>1, <1>2

(* FlattenSeq joins its sequences one by one: its recursion is a function. *)
LEMMA FlatIsJoined ==
  ASSUME NEW S, NEW n \in Nat \ {0}, NEW seqs \in [1..n -> Seq(S)]
  PROVE  \E f : Joined(f, n, seqs) /\ FlattenSeq(seqs) = f[n]
<1> DEFINE Flat(f) == f = [i \in 1..Len(seqs) |-> IF i = 1 THEN seqs[i] ELSE f[i - 1] \o seqs[i]]
<1>1. Len(seqs) = n /\ seqs \in Seq(Seq(S))
  OBVIOUS
<1>2. PICK g \in [1..n -> Seq(S)] : Joined(g, n, seqs)
  BY JoinedExists
<1>3. Flat(g)
  <2>1. ASSUME NEW i \in 1..n, i # 1 PROVE g[i] = g[i - 1] \o seqs[i]
    <3>1. i \in 2..n
      BY <2>1
    <3>2. QED
      BY <1>2, <3>1 DEF Joined
  <2>2. g[1] = seqs[1]
    BY <1>2 DEF Joined
  <2>3. g = [i \in 1..n |-> IF i = 1 THEN seqs[i] ELSE g[i - 1] \o seqs[i]]
    BY <1>2, <2>1, <2>2, Zenon
  <2>4. QED
    BY <1>1, <2>3
<1>4. PICK f : f = CHOOSE h : Flat(h)
  OBVIOUS
<1>5. Flat(f)
  BY <1>3, <1>4
<1>6. FlattenSeq(seqs) = f[n]
  BY <1>1, <1>4 DEF FlattenSeq
<1>7. Joined(f, n, seqs)
  <2>1. f = [i \in 1..n |-> IF i = 1 THEN seqs[i] ELSE f[i - 1] \o seqs[i]]
    BY <1>1, <1>5
  <2>2. 1 \in 1..n
    OBVIOUS
  <2>3. f[1] = seqs[1]
    BY <2>1, <2>2, Zenon
  <2>4. \A i \in 2..n : i \in 1..n /\ i # 1
    OBVIOUS
  <2>5. ASSUME NEW i \in 2..n PROVE f[i] = f[i - 1] \o seqs[i]
    BY <2>1, <2>4, <2>5, Zenon
  <2>6. QED
    BY <2>3, <2>5 DEF Joined
<1>8. QED
  BY <1>6, <1>7

LEMMA RuneIsText ==
  ASSUME NEW width \in 1..4
  PROVE  /\ Rune(width) \in Seq({"start", "more"}) /\ Len(Rune(width)) = width
         /\ Rune(width)[1] = "start"
BY DEF Rune

LEMMA RuneAlone ==
  ASSUME NEW width \in 1..4
  PROVE  Runes(Rune(width)) /\ Rune(width) # <<>>
<1> DEFINE rune == Rune(width)
<1>1. rune \in Seq({"start", "more"}) /\ Len(rune) = width /\ rune[1] = "start"
  BY RuneIsText
<1> HIDE DEF rune
<1>2. rune # <<>>
  BY <1>1
<1>3. ASSUME NEW i \in 1..width, i + 3 <= width PROVE \E j \in i..(i + 3) : rune[j] = "start"
  <2>1. i = 1
    BY <1>3
  <2>2. 1 \in i..(i + 3)
    BY <2>1
  <2>3. QED
    BY <1>1, <2>2
<1>4. Runes(rune)
  BY <1>1, <1>3 DEF Runes
<1>5. QED
  BY <1>2, <1>4 DEF rune

LEMMA RuneAppended ==
  ASSUME NEW text, Runes(text), text # <<>>, NEW width \in 1..4
  PROVE  Runes(text \o Rune(width)) /\ text \o Rune(width) # <<>>
<1> DEFINE rune == Rune(width)
           all  == text \o rune
<1>1. /\ text \in Seq({"start", "more"}) /\ Len(text) \in Nat /\ Len(text) >= 1
      /\ text[1] = "start"
  BY DEF Runes
<1>2. rune \in Seq({"start", "more"}) /\ Len(rune) = width /\ rune[1] = "start"
  BY RuneIsText
<1> HIDE DEF rune
<1>3. /\ all \in Seq({"start", "more"}) /\ Len(all) = Len(text) + width
      /\ \A i \in 1..Len(text) : all[i] = text[i]
      /\ all[Len(text) + 1] = "start"
  <2>1. all[Len(text) + 1] = rune[(Len(text) + 1) - Len(text)]
    BY <1>1, <1>2
  <2>2. (Len(text) + 1) - Len(text) = 1
    BY <1>1
  <2>3. QED
    BY <1>1, <1>2, <2>1, <2>2
<1> HIDE DEF all
<1>4. ASSUME NEW i \in 1..Len(all), i + 3 <= Len(all)
      PROVE  \E j \in i..(i + 3) : all[j] = "start"
  <2>1. CASE i + 3 <= Len(text)
    <3>1. i \in 1..Len(text)
      BY <1>1, <2>1
    <3>2. PICK j \in i..(i + 3) : text[j] = "start"
      BY <2>1, <3>1 DEF Runes
    <3>3. j \in 1..Len(text)
      BY <1>1, <2>1, <3>2
    <3>4. QED
      BY <1>3, <3>2, <3>3
  <2>2. CASE ~(i + 3 <= Len(text))
    <3>1. Len(text) + 1 \in i..(i + 3)
      BY <1>1, <1>3, <1>4, <2>2
    <3>2. QED
      BY <1>3, <3>1
  <2>3. QED
    BY <2>1, <2>2
<1>5. Len(all) >= 1
  BY <1>1, <1>3
<1>6. all # <<>>
  BY <1>5
<1>7. all[1] = "start"
  BY <1>1, <1>3
<1>8. Runes(all)
  BY <1>3, <1>4, <1>7 DEF Runes
<1>9. QED
  BY <1>6, <1>8 DEF all, rune

LEMMA BytesAreRunes ==
  ASSUME NEW n \in Nat, NEW widths \in [1..n -> 1..4]
  PROVE  Runes(Bytes(widths))
<1> DEFINE seqs == [i \in DOMAIN widths |-> Rune(widths[i])]
           Marks == {"start", "more"}
<1>1. seqs \in [1..n -> Seq(Marks)]
  BY RuneIsText
<1>2. Len(seqs) = n /\ seqs \in Seq(Seq(Marks))
  BY <1>1
<1>3. \A i \in 1..n : seqs[i] = Rune(widths[i])
  OBVIOUS
<1>4. Bytes(widths) = FlattenSeq(seqs)
  BY DEF Bytes, Rune
<1> HIDE DEF seqs
<1>5. CASE n = 0
  <2>1. FlattenSeq(seqs) = <<>>
    <3>1. seqs = <<>>
      BY <1>2, <1>5
    <3>2. QED
      BY <1>2, <1>5, <3>1 DEF FlattenSeq
  <2>2. Runes(<<>>)
    BY DEF Runes
  <2>3. QED
    BY <1>4, <2>1, <2>2
<1>6. CASE n # 0
  <2>1. PICK f : Joined(f, n, seqs) /\ FlattenSeq(seqs) = f[n]
    <3> HIDE DEF Marks
    <3> QED
      BY <1>1, <1>6, FlatIsJoined
  <2>2. f[1] = seqs[1] /\ \A i \in 2..n : f[i] = f[i - 1] \o seqs[i]
    BY <2>1 DEF Joined
  <2> DEFINE Broken == {i \in 1..n : ~(Runes(f[i]) /\ f[i] # <<>>)}
  <2>3. ASSUME Broken # {} PROVE FALSE
    <3>1. PICK x \in Broken : \A y \in Broken : x <= y
      <4>1. Broken \subseteq Nat
        OBVIOUS
      <4>2. QED
        BY <2>3, <4>1, LeastExists
    <3>2. x # 1
      <4>1. 1 \in 1..n /\ widths[1] \in 1..4
        BY <1>6
      <4>2. f[1] = Rune(widths[1])
        BY <1>3, <2>2, <4>1
      <4>3. Runes(Rune(widths[1])) /\ Rune(widths[1]) # <<>>
        BY <4>1, RuneAlone
      <4>4. QED
        BY <4>2, <4>3
    <3>3. x \in 2..n /\ x - 1 \in 1..n /\ ~(x <= x - 1)
      BY <3>2
    <3>4. Runes(f[x - 1]) /\ f[x - 1] # <<>>
      BY <3>1, <3>3
    <3>5. f[x] = f[x - 1] \o Rune(widths[x])
      BY <1>3, <2>2, <3>3
    <3>6. widths[x] \in 1..4
      BY <3>3
    <3>7. QED
      BY <3>1, <3>4, <3>5, <3>6, RuneAppended
  <2>4. n \in 1..n
    BY <1>6
  <2>5. Runes(f[n])
    BY <2>3, <2>4
  <2>6. QED
    BY <1>4, <2>1, <2>5
<1>7. QED
  BY <1>5, <1>6

(* The body quoted in an error is cut between two runes and loses less     *)
(* than one, for any number of runes and any limit (truncate).             *)
THEOREM AlwaysCutAtRune == Spec => []CutAtRune
<1>1. Inputs => CutAtRune
  <2> SUFFICES ASSUME Inputs, input.of = "text"
               PROVE  LET text == Bytes(input.widths)
                          kept == Truncate(text, Limit)
                      IN  /\ kept = Len(text) \/ text[kept + 1] = "start"
                          /\ kept <= Limit
                          /\ kept < Len(text) => kept > Limit - 4
    BY DEF CutAtRune
  <2>1. PICK n \in 0..MaxRunes : input.widths \in [1..n -> 1..4]
    BY DEF Inputs
  <2>2. Runes(Bytes(input.widths))
    BY <2>1, BoundsAssumption, BytesAreRunes
  <2>3. QED
    BY <2>2, BoundsAssumption, CutsBetweenRunes
<1>2. QED
  BY <1>1, InputsAlways, PTL

(* Every validation failure that has a message is listed, in order, for a  *)
(* list of any length (validationMessage).                                 *)
THEOREM ListsAnyFailures ==
  ASSUME NEW S, NEW n \in Nat, NEW entries \in [1..n -> S]
  PROVE  LET kept == {i \in 1..n : HasMessage(entries[i])}
         IN  /\ Len(ValidationMessage(entries)) = Cardinality(kept)
             /\ \A i \in kept :
                  ValidationMessage(entries)[Cardinality({j \in kept : j <= i})] = entries[i]
<1> DEFINE kept == {i \in 1..n : HasMessage(entries[i])}
           upto(i) == {j \in kept : j <= i}
           seqs == [i \in DOMAIN entries |->
                      IF HasMessage(entries[i]) THEN <<entries[i]>> ELSE <<>>]
           Collected(list, i) == /\ list \in Seq(S)
                                /\ Len(list) = Cardinality(upto(i))
                                /\ \A k \in upto(i) : list[Cardinality(upto(k))] = entries[k]
<1>1. seqs \in [1..n -> Seq(S)]
  OBVIOUS
<1>2. ASSUME NEW i \in 1..n
      PROVE  seqs[i] = IF HasMessage(entries[i]) THEN <<entries[i]>> ELSE <<>>
  OBVIOUS
<1>3. ValidationMessage(entries) = FlattenSeq(seqs)
  BY Zenon DEF ValidationMessage
<1> HIDE DEF seqs
<1>4. ASSUME NEW i \in Int PROVE IsFiniteSet(upto(i)) /\ Cardinality(upto(i)) \in Nat
  <2>1. upto(i) \in SUBSET (1..n) /\ IsFiniteSet(1..n)
    BY FS_Interval
  <2>2. QED
    BY <2>1, FS_Subset, FS_CardinalityType
<1>5. ASSUME NEW k \in kept, NEW i \in Int, k <= i
      PROVE  Cardinality(upto(k)) \in 1..Cardinality(upto(i))
  <2>1. upto(k) \in SUBSET upto(i) /\ upto(k) # {} /\ k \in Int
    BY <1>5
  <2>2. Cardinality(upto(k)) <= Cardinality(upto(i)) /\ Cardinality(upto(k)) # 0
    BY <1>4, <2>1, FS_Subset, FS_EmptySet
  <2> HIDE DEF upto
  <2>3. QED
    BY <1>4, <2>1, <2>2
<1>6. Collected(<<>>, 0)
  <2>1. upto(0) = {}
    OBVIOUS
  <2> HIDE DEF upto
  <2>2. QED
    BY <2>1, FS_EmptySet
<1>7. ASSUME NEW i \in 1..n, NEW list, Collected(list, i - 1)
      PROVE  Collected(list \o seqs[i], i)
  <2>1. i - 1 \in Int /\ i \in Int /\ Len(list) = Cardinality(upto(i - 1))
    BY <1>7
  <2>2. CASE HasMessage(entries[i])
    <3>1. upto(i) = upto(i - 1) \cup {i} /\ i \notin upto(i - 1)
      BY <2>2
    <3>2. Cardinality(upto(i)) = Len(list) + 1
      <4> HIDE DEF upto, Collected
      <4>1. IsFiniteSet(upto(i - 1))
        BY <1>4, <2>1
      <4>2. Cardinality(upto(i - 1) \cup {i}) = Cardinality(upto(i - 1)) + 1
        BY <3>1, <4>1, FS_AddElement, Zenon
      <4>3. QED
        BY <2>1, <3>1, <4>2
    <3>3. seqs[i] = <<entries[i]>> /\ entries[i] \in S
      BY <1>2, <2>2
    <3>4. /\ list \o seqs[i] \in Seq(S) /\ Len(list \o seqs[i]) = Len(list) + 1
          /\ (list \o seqs[i])[Len(list) + 1] = entries[i]
          /\ \A p \in 1..Len(list) : (list \o seqs[i])[p] = list[p]
      <4>1. list \in Seq(S)
        BY <1>7
      <4>2. QED
        BY <3>3, <4>1
    <3>5. ASSUME NEW k \in upto(i - 1)
          PROVE  (list \o seqs[i])[Cardinality(upto(k))] = entries[k]
      <4>1. k \in kept /\ k <= i - 1
        OBVIOUS
      <4>2. Cardinality(upto(k)) \in 1..Len(list)
        BY <1>5, <2>1, <4>1
      <4>3. list[Cardinality(upto(k))] = entries[k]
        BY <1>7
      <4>4. QED
        BY <3>4, <4>2, <4>3
    <3>6. (list \o seqs[i])[Cardinality(upto(i))] = entries[i]
      BY <3>2, <3>4
    <3> HIDE DEF upto
    <3>7. QED
      BY <3>1, <3>2, <3>4, <3>5, <3>6
  <2>3. CASE ~HasMessage(entries[i])
    <3>1. upto(i) = upto(i - 1)
      BY <2>3
    <3>2. list \o seqs[i] = list
      <4>1. seqs[i] = <<>> /\ list \in Seq(S)
        BY <1>2, <1>7, <2>3
      <4>2. QED
        BY <4>1
    <3> HIDE DEF upto
    <3>3. QED
      BY <1>7, <3>1, <3>2
  <2>4. QED
    BY <2>2, <2>3
<1>8. Collected(FlattenSeq(seqs), n)
  <2>1. CASE n = 0
    <3>1. seqs = <<>> /\ Len(seqs) = 0
      BY <1>1, <2>1
    <3>2. FlattenSeq(seqs) = <<>>
      BY <3>1 DEF FlattenSeq
    <3> HIDE DEF Collected
    <3>3. QED
      BY <1>6, <2>1, <3>2
  <2>2. CASE n # 0
    <3>1. PICK f : Joined(f, n, seqs) /\ FlattenSeq(seqs) = f[n]
      BY <1>1, <2>2, FlatIsJoined
    <3> DEFINE Wrong == {i \in 1..n : ~Collected(f[i], i)}
    <3> HIDE DEF Collected
    <3>2. ASSUME Wrong # {} PROVE FALSE
      <4>1. PICK x \in Wrong : \A y \in Wrong : x <= y
        <5>1. Wrong \subseteq Nat
          OBVIOUS
        <5>2. QED
          BY <3>2, <5>1, LeastExists
      <4>2. x # 1
        <5>1. 1 \in 1..n /\ 1 - 1 = 0
          BY <2>2
        <5>2. <<>> \o seqs[1] = seqs[1]
          BY <1>1, <5>1
        <5>3. f[1] = <<>> \o seqs[1]
          BY <3>1, <5>2 DEF Joined
        <5>4. Collected(<<>> \o seqs[1], 1)
          BY <1>6, <1>7, <5>1
        <5>5. QED
          BY <5>3, <5>4
      <4>3. x \in 2..n /\ x - 1 \in 1..n /\ ~(x <= x - 1)
        BY <4>2
      <4>4. Collected(f[x - 1], x - 1)
        BY <4>1, <4>3
      <4>5. f[x] = f[x - 1] \o seqs[x]
        BY <3>1, <4>3 DEF Joined
      <4>6. QED
        BY <1>7, <4>1, <4>4, <4>5
    <3>3. n \in 1..n
      BY <2>2
    <3>4. QED
      BY <3>1, <3>2, <3>3
  <2>3. QED
    BY <2>1, <2>2
<1>9. upto(n) = kept
  OBVIOUS
<1>10. QED
  <2> DEFINE list == ValidationMessage(entries)
  <2>1. Collected(list, n)
    BY <1>3, <1>8
  <2> HIDE DEF list, kept
  <2>2. Len(list) = Cardinality(kept) /\ \A i \in kept : list[Cardinality(upto(i))] = entries[i]
    BY <1>9, <2>1
  <2>3. QED
    BY <2>2 DEF kept, list

LEMMA ListedEntries ==
  ASSUME NEW body \in Bodies, body.form = "object", body.detail.json = "list"
  PROVE  \E n \in 0..3 : body.detail.entries \in [1..n -> Entries]
<1>1. ASSUME NEW value \in Holding("d") PROVE value.json # "list"
  <2>1. NoValue.json # "list" /\ OtherValue.json # "list"
    BY DEF NoValue, OtherValue
  <2>2. \A text : Text(text).json # "list" /\ Object(text).json # "list"
    BY DEF Text, Object
  <2>3. QED
    BY <2>1, <2>2, Zenon DEF Holding
<1>2. body.detail \in Lists \/ body.detail \in Holding("d")
  <2>1. /\ NoBytes.form # "object" /\ Blank.form # "object" /\ Plain.form # "object"
        /\ \A value : Json(value).form # "object"
    BY DEF NoBytes, Blank, Plain, Json
  <2>2. \A error, message, detail : Said(error, message, detail).detail = detail
    BY DEF Said
  <2>3. body \notin OtherBodies
    BY <2>1 DEF OtherBodies
  <2>4. body \in TextBodies => body.detail \in Holding("d")
    <3> DEFINE texts == Holding("e") \X Holding("m") \X Holding("d")
    <3>1. \A held \in texts : held[3] \in Holding("d")
      OBVIOUS
    <3>2. body \in TextBodies => \E held \in texts : body = Said(held[1], held[2], held[3])
      BY Zenon DEF TextBodies
    <3> HIDE DEF texts
    <3>3. QED
      BY <2>2, <3>1, <3>2
  <2>5. body \in ListBodies => body.detail \in Lists
    <3> DEFINE lists == {NoValue, Text("")} \X {NoValue, Text("m")} \X Lists
    <3>1. \A held \in lists : held[3] \in Lists
      OBVIOUS
    <3>2. body \in ListBodies => \E held \in lists : body = Said(held[1], held[2], held[3])
      BY Zenon DEF ListBodies
    <3> HIDE DEF lists
    <3>3. QED
      BY <2>2, <3>1, <3>2
  <2>6. QED
    BY <2>3, <2>4, <2>5 DEF Bodies
<1>3. body.detail \in Lists
  BY <1>1, <1>2
<1>4. PICK entries \in UNION {[1..n -> Entries] : n \in 0..3} : body.detail = List(entries)
  BY <1>3 DEF Lists
<1>5. List(entries).entries = entries
  BY DEF List
<1>6. QED
  BY <1>4, <1>5

(* Every validation failure that has a message is listed, in order, unless *)
(* an error or a message outranks the list (validationMessage).            *)
THEOREM FailuresAlwaysListed == Spec => []FailuresListed
<1>1. Inputs => FailuresListed
  <2> SUFFICES ASSUME Inputs, input.of = "body", input.body.form = "object",
                      input.body.detail.json = "list", Texts(input.body) = {},
                      ~Silent(Parts(ValidationMessage(input.body.detail.entries)))
               PROVE  LET entries == input.body.detail.entries
                          kept    == {i \in DOMAIN entries :
                                        entries[i].json = "entry" /\ entries[i].msg.json = "string"}
                          parts   == ExtractMessage(input.body).parts
                      IN  /\ ExtractMessage(input.body).from = "entries"
                          /\ Len(parts) = Cardinality(kept)
                          /\ \A i \in kept :
                               parts[Cardinality({j \in kept : j <= i})] = entries[i]
    BY DEF FailuresListed
  <2> DEFINE body    == input.body
             entries == body.detail.entries
             list    == ValidationMessage(entries)
             kept    == {i \in DOMAIN entries : HasMessage(entries[i])}
  <2>1. body \in Bodies
    BY DEF Inputs
  <2>2. PICK n \in 0..3 : entries \in [1..n -> Entries]
    BY <2>1, ListedEntries
  <2>3. /\ ~IsNested(body.error) /\ body.message.json # "string"
        /\ ~IsNested(body.detail)
    <3>1. 1 \notin Texts(body) /\ 2 \notin Texts(body) /\ 3 \notin Texts(body)
      OBVIOUS
    <3>2. QED
      BY <3>1 DEF Texts
  <2>4. MessageFromJSON(body) = Parts(list)
    BY <2>3 DEF MessageFromJSON, MessageFromObject
  <2>5. body # NoBytes
    BY DEF NoBytes
  <2>6. ExtractMessage(body) = Parts(list)
    BY <2>4, <2>5 DEF ExtractMessage
  <2>7. /\ Len(list) = Cardinality(kept)
        /\ \A i \in kept : list[Cardinality({j \in kept : j <= i})] = entries[i]
    <3>1. DOMAIN entries = 1..n /\ n \in Nat
      BY <2>2
    <3>2. \A all \in Nat : \A other \in [1..all -> Entries] :
            LET have == {i \in 1..all : HasMessage(other[i])}
            IN  /\ Len(ValidationMessage(other)) = Cardinality(have)
                /\ \A i \in have :
                     ValidationMessage(other)[Cardinality({j \in have : j <= i})] = other[i]
      BY ListsAnyFailures, Zenon
    <3>3. LET have == {i \in 1..n : HasMessage(entries[i])}
          IN  /\ Len(list) = Cardinality(have)
              /\ \A i \in have : list[Cardinality({j \in have : j <= i})] = entries[i]
      BY <2>2, <3>1, <3>2, Zenon
    <3>4. kept = {i \in 1..n : HasMessage(entries[i])}
      BY <3>1
    <3>5. QED
      BY <3>3, <3>4, Zenon
  <2>8. kept = {i \in DOMAIN entries :
                  entries[i].json = "entry" /\ entries[i].msg.json = "string"}
    BY DEF HasMessage
  <2>9. ExtractMessage(body).from = "entries" /\ ExtractMessage(body).parts = list
    BY <2>6 DEF Parts
  <2> HIDE DEF kept, list
  <2>10. QED
    BY <2>7, <2>8, <2>9
<1>2. QED
  BY <1>1, InputsAlways, PTL

(***************************************************************************)
(* The verdict of the moderation example.                                  *)
(***************************************************************************)
(* The gravest of the actions at some places. *)
Gravest(actions, places) ==
  IF \E i \in places : actions[i] = "remove" THEN "remove"
  ELSE IF \E i \in places : actions[i] = "review" THEN "review" ELSE "allow"

LEMMA MaxIs ==
  ASSUME NEW s \in SUBSET (1..3), s # {}
  PROVE  Max(s) \in s /\ \A i \in s : i <= Max(s)
<1>1. \E m \in s : \A i \in s : m >= i
  <2>1. \A i \in s : i = 1 \/ i = 2 \/ i = 3
    OBVIOUS
  <2>2. CASE 3 \in s
    <3>1. \A i \in s : 3 >= i
      BY <2>1
    <3>2. QED
      BY <2>2, <3>1
  <2>3. CASE 3 \notin s /\ 2 \in s
    <3>1. \A i \in s : 2 >= i
      BY <2>1, <2>3
    <3>2. QED
      BY <2>3, <3>1
  <2>4. CASE 3 \notin s /\ 2 \notin s
    <3>1. \A i \in s : i = 1 /\ 1 >= i
      BY <2>1, <2>4
    <3>2. QED
      BY <3>1
  <2>5. QED
    BY <2>2, <2>3, <2>4
<1>2. Max(s) \in s /\ \A i \in s : Max(s) >= i
  BY <1>1 DEF Max
<1>3. QED
  BY <1>2

LEMMA GravestGrows ==
  ASSUME NEW actions \in [1..3 -> {"remove", "review", "ok"}],
         NEW s \in SUBSET (1..3), NEW x \in s
  PROVE  Gravest(actions, s) = After(Gravest(actions, s \ {x}), actions[x])
<1>1. actions[x] = "remove" \/ actions[x] = "review" \/ actions[x] = "ok"
  OBVIOUS
<1>2. CASE actions[x] = "remove"
  BY <1>2 DEF Gravest, After
<1>3. CASE actions[x] = "review"
  BY <1>3 DEF Gravest, After
<1>4. CASE actions[x] = "ok"
  BY <1>4 DEF Gravest, After
<1>5. QED
  BY <1>1, <1>2, <1>3, <1>4

(* The fold over the policies comes to the gravest action. *)
LEMMA FoldIsGravest ==
  ASSUME NEW actions \in [1..3 -> {"remove", "review", "ok"}]
  PROVE  FoldLeft(After, "allow", actions) = Gravest(actions, 1..3)
<1> DEFINE Iter(f) == f = [s \in SUBSET (1..3) |->
                             IF s = {} THEN "allow"
                             ELSE LET x == Max(s) IN After(f[s \ {x}], actions[x])]
           g == [s \in SUBSET (1..3) |-> Gravest(actions, s)]
<1>1. Iter(g)
  <2>1. ASSUME NEW s \in SUBSET (1..3), s # {}
        PROVE  Gravest(actions, s) = After(g[s \ {Max(s)}], actions[Max(s)])
    <3>1. Max(s) \in s /\ s \ {Max(s)} \in SUBSET (1..3)
      BY <2>1, MaxIs
    <3>2. QED
      BY <3>1, GravestGrows
  <2>2. Gravest(actions, {}) = "allow"
    BY DEF Gravest
  <2>3. QED
    BY <2>1, <2>2
<1>2. PICK f : f = CHOOSE h : Iter(h)
  OBVIOUS
<1>3. Iter(f)
  BY <1>1, <1>2
<1>4. FoldLeft(After, "allow", actions) = f[1..3]
  <2>1. DOMAIN actions = 1..3
    OBVIOUS
  <2>2. QED
    BY <1>2, <2>1 DEF FoldLeft, MapThenFoldSet
<1>5. ASSUME NEW s \in SUBSET (1..3), s # {}
      PROVE  f[s] = After(f[s \ {Max(s)}], actions[Max(s)])
  BY <1>3, <1>5
<1>6. f[{}] = Gravest(actions, {})
  BY <1>3 DEF Gravest
<1> HIDE DEF Iter
<1>7. ASSUME NEW s \in SUBSET (1..3), s # {},
             f[s \ {Max(s)}] = Gravest(actions, s \ {Max(s)})
      PROVE  f[s] = Gravest(actions, s)
  BY <1>5, <1>7, MaxIs, GravestGrows
<1>8. Max({1}) = 1 /\ Max({1, 2}) = 2 /\ Max(1..3) = 3
  <2>1. Max({1}) \in {1} /\ Max({1, 2}) \in {1, 2} /\ 2 <= Max({1, 2})
    <3>1. {1} \in SUBSET (1..3) /\ {1, 2} \in SUBSET (1..3)
      OBVIOUS
    <3>2. QED
      BY <3>1, MaxIs
  <2>2. Max(1..3) \in 1..3 /\ 3 <= Max(1..3)
    <3>1. 3 \in 1..3
      OBVIOUS
    <3>2. QED
      BY <3>1, MaxIs
  <2>3. QED
    BY <2>1, <2>2
<1>9. {1} \ {1} = {} /\ {1, 2} \ {2} = {1} /\ (1..3) \ {3} = {1, 2}
  OBVIOUS
<1>10. /\ {1} \in SUBSET (1..3) /\ {1, 2} \in SUBSET (1..3) /\ 1..3 \in SUBSET (1..3)
       /\ 1..3 # {}
  OBVIOUS
<1>11. f[{1}] = Gravest(actions, {1})
  BY <1>6, <1>7, <1>8, <1>9, <1>10
<1>12. f[{1, 2}] = Gravest(actions, {1, 2})
  BY <1>7, <1>8, <1>9, <1>10, <1>11
<1>13. f[1..3] = Gravest(actions, 1..3)
  BY <1>7, <1>8, <1>9, <1>10, <1>12
<1>14. QED
  BY <1>4, <1>13

(* The verdict on a post is the gravest action any policy calls for,       *)
(* whatever the probabilities (run of examples/moderation).                *)
THEOREM GravestAlwaysWins == Spec => []GravestActionWins
<1>1. Inputs => GravestActionWins
  <2> SUFFICES ASSUME Inputs, input.of = "post"
               PROVE  LET actions == {Action(Policies[i], input.probabilities[i]) : i \in DOMAIN Policies}
                      IN  Verdict(input.probabilities) =
                            IF "remove" \in actions THEN "remove"
                            ELSE IF "review" \in actions THEN "review" ELSE "allow"
    BY DEF GravestActionWins
  <2> DEFINE actions == [i \in DOMAIN Policies |-> Action(Policies[i], input.probabilities[i])]
  <2>1. DOMAIN Policies = 1..3
    BY DEF Policies
  <2>2. actions \in [1..3 -> {"remove", "review", "ok"}]
    BY <2>1 DEF Action
  <2>3. Verdict(input.probabilities) = FoldLeft(After, "allow", actions)
    BY DEF Verdict
  <2>4. \A i \in 1..3 : actions[i] = Action(Policies[i], input.probabilities[i])
    BY <2>1
  <2> HIDE DEF actions
  <2>5. Verdict(input.probabilities) = Gravest(actions, 1..3)
    BY <2>2, <2>3, FoldIsGravest
  <2>6. QED
    BY <2>1, <2>4, <2>5 DEF Gravest
<1>2. QED
  BY <1>1, InputsAlways, PTL
=============================================================================
