---------------------------- MODULE RetryProof -----------------------------
(***************************************************************************)
(* Lemmas about the operators of RetryPolicy: recursive functions over the *)
(* naturals exist, floats round as they should, and a backoff lies between *)
(* one and the delay before jitter, for any width and any precision.       *)
(***************************************************************************)
EXTENDS RetryPolicy, TLAPS, WellFoundedInduction

(***************************************************************************)
(* Induction over the naturals, as the existence of a minimum: the         *)
(* library states it with an operator as a parameter.                      *)
(***************************************************************************)
LEMMA LeastExists ==
  ASSUME NEW S, S \subseteq Nat, S # {}
  PROVE  \E x \in S : \A y \in S : x <= y
<1> DEFINE R == OpToRel(<, Nat)
<1>1. \A x, y \in Nat : x < y => <<x, y>> \in R
  BY DEF OpToRel
<1>2. IsWellFoundedOn(R, Nat)
  BY NatLessThanWellFounded
<1> HIDE DEF R
<1>3. PICK x \in S : \A y \in S : ~(<<y, x>> \in R)
  BY <1>2, WFMin
<1>4. ASSUME NEW y \in S PROVE x <= y
  <2>1. x \in Nat /\ y \in Nat /\ ~(y < x)
    BY <1>1, <1>3
  <2>2. QED
    BY <2>1
<1>5. QED
  BY <1>4

(* The first n turns of a loop that starts at a and steps by step. *)
Turns(f, n, a, step) == f[0] = a /\ \A k \in 1..n : f[k] = step[f[k - 1]]

LEMMA TurnsExist ==
  ASSUME NEW T, NEW a \in T, NEW step \in [T -> T], NEW n \in Nat
  PROVE  \E f \in [0..n -> T] : Turns(f, n, a, step)
<1> DEFINE Stuck == {m \in Nat : ~ \E f \in [0..m -> T] : Turns(f, m, a, step)}
<1>1. ASSUME Stuck # {} PROVE FALSE
  <2>1. PICK x \in Stuck : \A y \in Stuck : x <= y
    BY <1>1, LeastExists
  <2>2. x # 0
    <3>1. [k \in 0..0 |-> a] \in [0..0 -> T] /\ Turns([k \in 0..0 |-> a], 0, a, step)
      BY DEF Turns
    <3>2. QED
      BY <3>1
  <2>3. x - 1 \in Nat /\ x \in Nat /\ ~(x <= x - 1)
    BY <2>2
  <2>4. PICK f \in [0..(x - 1) -> T] : Turns(f, x - 1, a, step)
    BY <2>1, <2>3
  <2> DEFINE g == [k \in 0..x |-> IF k = x THEN step[f[x - 1]] ELSE f[k]]
  <2>5. g \in [0..x -> T]
    <3>1. \A k \in 0..x : k = x \/ k \in 0..(x - 1)
      BY <2>3
    <3>2. x - 1 \in 0..(x - 1)
      BY <2>3
    <3>3. QED
      BY <3>1, <3>2
  <2>6. Turns(g, x, a, step)
    <3>1. g[0] = a
      BY <2>2, <2>3, <2>4 DEF Turns
    <3>2. ASSUME NEW k \in 1..x PROVE g[k] = step[g[k - 1]]
      <4>1. k - 1 \in 0..x /\ k \in 0..x /\ k - 1 # x
        BY <2>3
      <4>2. g[k - 1] = f[k - 1]
        BY <4>1
      <4>3. CASE k = x
        BY <4>1, <4>2, <4>3
      <4>4. CASE k # x
        <5>1. k \in 1..(x - 1)
          BY <4>4, <2>3
        <5>2. g[k] = f[k]
          BY <4>1, <4>4
        <5>3. f[k] = step[f[k - 1]]
          BY <5>1, <2>4 DEF Turns
        <5>4. QED
          BY <4>2, <5>2, <5>3
      <4>5. QED
        BY <4>3, <4>4
    <3> HIDE DEF g
    <3>3. QED
      BY <3>1, <3>2 DEF Turns
  <2>7. QED
    <3> HIDE DEF g
    <3> QED
      BY <2>5, <2>6
<1>2. QED
  BY <1>1

LEMMA TurnsAgree ==
  ASSUME NEW T, NEW a \in T, NEW step \in [T -> T], NEW n \in Nat, NEW m \in Nat,
         NEW f, NEW g, Turns(f, n, a, step), Turns(g, m, a, step),
         NEW k \in Nat, k <= n, k <= m
  PROVE  f[k] = g[k]
<1> DEFINE Apart == {i \in 0..k : f[i] # g[i]}
<1>1. ASSUME Apart # {} PROVE FALSE
  <2>1. PICK x \in Apart : \A y \in Apart : x <= y
    <3>1. Apart \subseteq Nat
      OBVIOUS
    <3>2. QED
      BY <1>1, <3>1, LeastExists
  <2>2. x # 0
    BY DEF Turns
  <2>3. x \in 1..n /\ x \in 1..m /\ x - 1 \in 0..k /\ ~(x <= x - 1)
    BY <2>2
  <2>4. f[x - 1] = g[x - 1]
    BY <2>1, <2>3
  <2>5. f[x] = step[f[x - 1]] /\ g[x] = step[g[x - 1]]
    BY <2>3 DEF Turns
  <2>6. QED
    BY <2>4, <2>5
<1>2. k \in 0..k
  OBVIOUS
<1>3. QED
  BY <1>1, <1>2

(* A function defined by such a loop exists. *)
Loops(f, a, step) == f[0] = a /\ \A n \in Nat : f[n + 1] = step[f[n]]

LEMMA LoopExists ==
  ASSUME NEW T, NEW a \in T, NEW step \in [T -> T]
  PROVE  \E f \in [Nat -> T] : Loops(f, a, step)
<1> DEFINE prefix(n) == CHOOSE f \in [0..n -> T] : Turns(f, n, a, step)
           whole == [n \in Nat |-> prefix(n)[n]]
<1>1. ASSUME NEW n \in Nat
      PROVE  prefix(n) \in [0..n -> T] /\ Turns(prefix(n), n, a, step)
  BY TurnsExist
<1> HIDE DEF prefix
<1>2. whole \in [Nat -> T]
  <2>1. ASSUME NEW n \in Nat PROVE prefix(n)[n] \in T
    <3>1. n \in 0..n
      OBVIOUS
    <3>2. QED
      BY <3>1, <1>1
  <2>2. QED
    BY <2>1
<1>3. whole[0] = a
  BY <1>1 DEF Turns
<1>4. ASSUME NEW n \in Nat PROVE whole[n + 1] = step[whole[n]]
  <2>1. n + 1 \in Nat /\ n + 1 \in 1..(n + 1) /\ (n + 1) - 1 = n /\ n <= n /\ n <= n + 1
    OBVIOUS
  <2>2. prefix(n + 1)[n + 1] = step[prefix(n + 1)[n]]
    <3>1. Turns(prefix(n + 1), n + 1, a, step)
      BY <1>1, <2>1
    <3>2. prefix(n + 1)[n + 1] = step[prefix(n + 1)[(n + 1) - 1]]
      BY <2>1, <3>1 DEF Turns
    <3>3. QED
      BY <2>1, <3>2
  <2>3. prefix(n + 1)[n] = prefix(n)[n]
    <3>1. Turns(prefix(n + 1), n + 1, a, step) /\ Turns(prefix(n), n, a, step)
      BY <1>1, <2>1
    <3>2. QED
      BY <2>1, <3>1, TurnsAgree
  <2>4. whole[n + 1] = prefix(n + 1)[n + 1] /\ whole[n] = prefix(n)[n]
    BY <2>1
  <2>5. QED
    BY <2>2, <2>3, <2>4
<1>5. QED
  <2> HIDE DEF whole
  <2> QED
    BY <1>2, <1>3, <1>4 DEF Loops

(***************************************************************************)
(* The backoff.  Turn is one turn of its loop, full the delay it leaves.   *)
(***************************************************************************)
Backing(policy) ==
  policy.backoffInitial \in 1..MaxInt /\ policy.backoffMax \in 1..MaxInt

Turn(policy, delay) ==
  IF delay >= policy.backoffMax \/ delay > MaxInt \div 2 THEN delay ELSE 2 * delay

LEMMA LoopOfBackoff ==
  ASSUME NEW policy, Backing(policy)
  PROVE  \E f \in [Nat -> 1..MaxInt] :
           /\ f[0] = policy.backoffInitial
           /\ \A n \in Nat : f[n + 1] = Turn(policy, f[n])
           /\ \A n \in Nat \ {0} : FullBackoff(policy, n) = AtMost(f[n - 1], policy.backoffMax)
<1> DEFINE step == [delay \in 1..MaxInt |-> Turn(policy, delay)]
           Loop(f) == f = [n \in Nat |-> IF n = 0 THEN policy.backoffInitial
                                         ELSE LET delay == f[n - 1]
                                              IN  IF delay >= policy.backoffMax \/ delay > MaxInt \div 2
                                                  THEN delay
                                                  ELSE 2 * delay]
<1>t. /\ MaxInt \in Nat
      /\ policy.backoffInitial \in 1..MaxInt /\ policy.backoffMax \in 1..MaxInt
  BY RetryAssumption DEF Backing
<1>1. step \in [1..MaxInt -> 1..MaxInt]
  <2>1. ASSUME NEW delay \in 1..MaxInt PROVE Turn(policy, delay) \in 1..MaxInt
    <3>1. CASE delay > MaxInt \div 2 \/ delay >= policy.backoffMax
      BY <3>1 DEF Turn
    <3>2. CASE ~(delay > MaxInt \div 2) /\ ~(delay >= policy.backoffMax)
      BY <3>2, <1>t DEF Turn
    <3>3. QED
      BY <3>1, <3>2
  <2>2. QED
    BY <2>1
<1>2. PICK g \in [Nat -> 1..MaxInt] :
        /\ g[0] = policy.backoffInitial
        /\ \A n \in Nat : g[n + 1] = step[g[n]]
  <2> DEFINE T == 1..MaxInt
             a == policy.backoffInitial
  <2>1. a \in T /\ step \in [T -> T]
    BY <1>1, <1>t
  <2>2. \E g \in [Nat -> T] : Loops(g, a, step)
    <3> HIDE DEF step, T, a
    <3> QED
      BY <2>1, LoopExists
  <2>3. QED
    BY <2>2 DEF Loops
<1>3. \A n \in Nat : g[n + 1] = Turn(policy, g[n])
  BY <1>2
<1>4. Loop(g)
  <2>1. ASSUME NEW n \in Nat, n # 0 PROVE g[n] = Turn(policy, g[n - 1])
    <3>1. n - 1 \in Nat /\ (n - 1) + 1 = n
      BY <2>1
    <3>2. QED
      BY <1>3, <3>1
  <2>2. QED
    BY <1>2, <2>1 DEF Turn
<1>5. PICK f : f = CHOOSE h : Loop(h)
  OBVIOUS
<1>6. Loop(f)
  BY <1>4, <1>5
<1>7. ASSUME NEW n \in Nat \ {0}
      PROVE  FullBackoff(policy, n) = AtMost(f[n - 1], policy.backoffMax)
  <2>1. FullBackoff(policy, n) = AtMost(f[AtLeast(n - 1, 0)], policy.backoffMax)
    BY <1>5 DEF FullBackoff
  <2>2. AtLeast(n - 1, 0) = n - 1
    BY DEF AtLeast
  <2>3. QED
    BY <2>1, <2>2
<1>8. f[0] = policy.backoffInitial /\ \A n \in Nat : f[n + 1] = Turn(policy, f[n])
  <2>1. f[0] = policy.backoffInitial
    BY <1>6
  <2>2. ASSUME NEW n \in Nat PROVE f[n + 1] = Turn(policy, f[n])
    <3>1. n + 1 \in Nat /\ n + 1 # 0 /\ (n + 1) - 1 = n
      OBVIOUS
    <3>2. QED
      BY <1>6, <3>1 DEF Turn
  <2>3. QED
    BY <2>1, <2>2
(* There is one such function: the type of g is that of f. *)
<1>9. \A n \in Nat : f[n] = g[n]
  <2> DEFINE Apart == {n \in Nat : f[n] # g[n]}
  <2>1. ASSUME Apart # {} PROVE FALSE
    <3>1. PICK x \in Apart : \A y \in Apart : x <= y
      <4>1. Apart \subseteq Nat
        OBVIOUS
      <4>2. QED
        BY <2>1, <4>1, LeastExists
    <3>2. x # 0
      BY <1>2, <1>8
    <3>3. x - 1 \in Nat /\ (x - 1) + 1 = x /\ ~(x <= x - 1)
      BY <3>2
    <3>4. f[x - 1] = g[x - 1]
      BY <3>1, <3>3
    <3>5. f[x] = Turn(policy, f[x - 1]) /\ g[x] = Turn(policy, g[x - 1])
      <4> HIDE <3>4
      <4> QED
        BY <1>3, <1>8, <3>3
    <3>6. QED
      BY <3>4, <3>5
  <2>2. QED
    BY <2>1
<1>10. f \in [Nat -> 1..MaxInt]
  BY <1>2, <1>6, <1>9
<1>11. QED
  BY <1>7, <1>8, <1>10

LEMMA FullType ==
  ASSUME NEW policy, Backing(policy), NEW n \in Nat \ {0}
  PROVE  FullBackoff(policy, n) \in 1..policy.backoffMax
<1>1. PICK f \in [Nat -> 1..MaxInt] :
        \A k \in Nat \ {0} : FullBackoff(policy, k) = AtMost(f[k - 1], policy.backoffMax)
  BY LoopOfBackoff
<1>2. f[n - 1] \in 1..MaxInt /\ policy.backoffMax \in 1..MaxInt
  BY RetryAssumption DEF Backing
<1>3. QED
  BY <1>1, <1>2 DEF AtMost

(***************************************************************************)
(* Arithmetic the provers want said.                                       *)
(***************************************************************************)
LEMMA TimesGrows ==
  ASSUME NEW a \in Nat, NEW b \in Nat, NEW c \in Nat, a <= b
  PROVE  a * c <= b * c /\ c * a <= c * b
<1>1. \A k \in Nat : (a + k) * c = a * c + k * c /\ k * c >= 0
  OBVIOUS
<1>2. b - a \in Nat /\ a + (b - a) = b
  OBVIOUS
<1>3. b * c = a * c + (b - a) * c /\ (b - a) * c >= 0
  BY <1>1, <1>2
<1>4. a * c \in Int /\ b * c \in Int /\ (b - a) * c \in Int
  BY <1>2
<1>5. a * c <= b * c
  BY <1>3, <1>4
<1>6. c * a = a * c /\ c * b = b * c
  OBVIOUS
<1>7. QED
  BY <1>5, <1>6

LEMMA Divided ==
  ASSUME NEW n \in Nat, NEW u \in Nat \ {0}
  PROVE  n \div u \in Nat /\ n % u \in 0..(u - 1) /\ n = u * (n \div u) + (n % u)
OBVIOUS

LEMMA DividedBelow ==
  ASSUME NEW n \in Nat, NEW u \in Nat \ {0}
  PROVE  n \div u \in Nat /\ u * (n \div u) \in Nat /\ u * (n \div u) <= n
<1>1. n \div u \in Nat /\ n % u \in 0..(u - 1) /\ n = u * (n \div u) + (n % u)
  BY Divided
<1>2. u * (n \div u) \in Nat
  BY <1>1
<1>3. QED
  BY <1>1, <1>2

LEMMA DividedOnce ==
  ASSUME NEW u \in Nat \ {0}, NEW p \in Nat, NEW q \in Nat,
         NEW r \in 0..(u - 1), NEW s \in 0..(u - 1), u * p + r = u * q + s
  PROVE  p = q /\ r = s
<1>1. ASSUME NEW x \in Nat, NEW y \in Nat, x < y,
             NEW a \in 0..(u - 1), NEW b \in 0..(u - 1)
      PROVE  u * x + a # u * y + b
  <2>1. u * (x + 1) <= u * y
    <3>1. x + 1 \in Nat /\ x + 1 <= y
      BY <1>1
    <3>2. QED
      BY <3>1, TimesGrows
  <2>2. u * (x + 1) = u * x + u
    OBVIOUS
  <2>3. QED
    BY <2>1, <2>2
<1>2. p = q
  BY <1>1
<1>3. QED
  BY <1>2

(***************************************************************************)
(* Powers of two.                                                          *)
(***************************************************************************)
LEMMA PowerIs ==
  /\ power \in [Nat -> Nat \ {0}]
  /\ power[0] = 1
  /\ \A k \in Nat : power[k + 1] = 2 * power[k]
<1> DEFINE T == Nat \ {0}
           step == [x \in T |-> 2 * x]
           Doubles(h) == h = [k \in Nat |-> IF k = 0 THEN 1 ELSE 2 * h[k - 1]]
<1>1. \E f \in [Nat -> T] : Loops(f, 1, step)
  <2>1. 1 \in T /\ step \in [T -> T]
    OBVIOUS
  <2> HIDE DEF T, step
  <2>2. QED
    BY <2>1, LoopExists
<1>2. PICK f \in [Nat -> T] : f[0] = 1 /\ \A n \in Nat : f[n + 1] = step[f[n]]
  BY <1>1 DEF Loops
<1>3. Doubles(f)
  <2>1. ASSUME NEW k \in Nat, k # 0 PROVE f[k] = 2 * f[k - 1]
    <3>1. k - 1 \in Nat /\ (k - 1) + 1 = k /\ f[k - 1] \in T
      BY <2>1
    <3>2. f[(k - 1) + 1] = step[f[k - 1]]
      BY <1>2, <3>1
    <3>3. QED
      BY <3>1, <3>2
  <2>2. QED
    BY <1>2, <2>1
<1>4. Doubles(power)
  <2>1. power = CHOOSE h : Doubles(h)
    BY DEF power
  <2> HIDE DEF Doubles
  <2>2. QED
    BY <1>3, <2>1
<1>5. power[0] = 1 /\ \A k \in Nat : power[k + 1] = 2 * power[k]
  <2>1. ASSUME NEW k \in Nat PROVE power[k + 1] = 2 * power[k]
    <3>1. k + 1 \in Nat /\ k + 1 # 0 /\ (k + 1) - 1 = k
      OBVIOUS
    <3>2. QED
      BY <1>4, <3>1
  <2>2. QED
    BY <1>4, <2>1
<1>6. \A k \in Nat : power[k] \in T
  <2> DEFINE Odd == {k \in Nat : power[k] \notin T}
  <2>1. ASSUME Odd # {} PROVE FALSE
    <3>1. PICK x \in Odd : \A y \in Odd : x <= y
      <4>1. Odd \subseteq Nat
        OBVIOUS
      <4>2. QED
        BY <2>1, <4>1, LeastExists
    <3>2. x # 0
      BY <1>5
    <3>3. x - 1 \in Nat /\ (x - 1) + 1 = x /\ ~(x <= x - 1)
      BY <3>2
    <3>4. power[x - 1] \in T
      BY <3>1, <3>3
    <3>5. power[x] = 2 * power[x - 1]
      BY <1>5, <3>3
    <3>6. QED
      BY <3>4, <3>5
  <2>2. QED
    BY <2>1
<1>7. QED
  BY <1>4, <1>5, <1>6

LEMMA PowerSum ==
  ASSUME NEW a \in Nat, NEW b \in Nat
  PROVE  power[a + b] = power[a] * power[b]
<1> DEFINE Apart == {k \in Nat : power[a + k] # power[a] * power[k]}
<1>1. ASSUME Apart # {} PROVE FALSE
  <2>1. PICK x \in Apart : \A y \in Apart : x <= y
    <3>1. Apart \subseteq Nat
      OBVIOUS
    <3>2. QED
      BY <1>1, <3>1, LeastExists
  <2>2. x # 0
    BY PowerIs
  <2>3. x - 1 \in Nat /\ (x - 1) + 1 = x /\ ~(x <= x - 1) /\ a + (x - 1) \in Nat
        /\ (a + (x - 1)) + 1 = a + x
    BY <2>2
  <2>4. power[a + (x - 1)] = power[a] * power[x - 1]
    BY <2>1, <2>3
  <2>5. power[x] = 2 * power[x - 1] /\ power[a + x] = 2 * power[a + (x - 1)]
    BY <2>3, PowerIs
  <2>6. \A p, q \in Nat : 2 * (p * q) = p * (2 * q)
    OBVIOUS
  <2>7. power[a] \in Nat /\ power[x - 1] \in Nat
    BY <2>3, PowerIs
  <2>8. QED
    BY <2>4, <2>5, <2>6, <2>7
<1>2. QED
  BY <1>1

LEMMA PowerOrder ==
  ASSUME NEW a \in Nat, NEW b \in Nat, a < b
  PROVE  2 * power[a] <= power[b]
<1>1. b - a - 1 \in Nat /\ a + 1 \in Nat /\ (a + 1) + (b - a - 1) = b
  OBVIOUS
<1>2. power[b] = power[a + 1] * power[b - a - 1] /\ power[a + 1] = 2 * power[a]
  BY <1>1, PowerSum, PowerIs
<1>3. power[b - a - 1] \in Nat \ {0} /\ power[a + 1] \in Nat
  BY <1>1, PowerIs
<1>4. power[a + 1] * 1 <= power[a + 1] * power[b - a - 1]
  BY <1>3, TimesGrows
<1>5. QED
  BY <1>2, <1>3, <1>4

LEMMA PowerGrows ==
  ASSUME NEW n \in Nat
  PROVE  n < power[n]
<1> DEFINE Low == {k \in Nat : ~(k < power[k])}
<1>1. ASSUME Low # {} PROVE FALSE
  <2>1. PICK x \in Low : \A y \in Low : x <= y
    <3>1. Low \subseteq Nat
      OBVIOUS
    <3>2. QED
      BY <1>1, <3>1, LeastExists
  <2>2. x # 0
    BY PowerIs
  <2>3. x - 1 \in Nat /\ (x - 1) + 1 = x /\ ~(x <= x - 1)
    BY <2>2
  <2>4. x - 1 < power[x - 1] /\ power[x] = 2 * power[x - 1]
    BY <2>1, <2>3, PowerIs
  <2>5. power[x - 1] \in Nat \ {0}
    BY <2>3, PowerIs
  <2>6. QED
    BY <2>3, <2>4, <2>5
<1>2. QED
  BY <1>1

LEMMA ScaleIs == FloatScale \in Nat \ {0, 1}
<1>1. FloatBits \in Nat /\ FloatBits < power[FloatBits] /\ FloatBits # 0
  BY RetryAssumption, PowerGrows
<1>2. power[FloatBits] \in Nat
  BY <1>1, PowerIs
<1>3. QED
  BY <1>1, <1>2 DEF FloatScale

(***************************************************************************)
(* Rounding.                                                               *)
(***************************************************************************)
LEMMA ExponentIs ==
  ASSUME NEW n \in Nat
  PROVE  /\ Exponent(n) \in Nat
         /\ n < FloatScale * power[Exponent(n)]
         /\ Exponent(n) > 0 => FloatScale * power[Exponent(n) - 1] <= n
<1> DEFINE Room == {k \in Nat : n < FloatScale * power[k]}
<1>1. n \in Room
  <2>1. n < power[n] /\ power[n] \in Nat /\ FloatScale \in Nat \ {0}
    BY PowerGrows, PowerIs, ScaleIs
  <2>2. 1 * power[n] <= FloatScale * power[n]
    BY <2>1, TimesGrows
  <2>3. QED
    BY <2>1, <2>2
<1>2. PICK k \in Room : \A other \in Room : k <= other
  <2>1. Room \subseteq Nat /\ Room # {}
    BY <1>1
  <2>2. QED
    BY <2>1, LeastExists
<1>3. k \in 0..n /\ n < FloatScale * power[k]
  BY <1>1, <1>2
<1>4. ASSUME k > 0 PROVE FloatScale * power[k - 1] <= n
  <2>1. k - 1 \in Nat /\ k - 1 \notin Room
    BY <1>2, <1>4
  <2>2. FloatScale * power[k - 1] \in Nat
    <3>1. power[k - 1] \in Nat /\ FloatScale \in Nat
      BY <2>1, PowerIs, ScaleIs
    <3>2. QED
      BY <3>1
  <2>3. QED
    BY <2>1, <2>2
<1> DEFINE Fits(e) == n < FloatScale * power[e] /\ (e > 0 => FloatScale * power[e - 1] <= n)
<1>5. Fits(k)
  BY <1>3, <1>4
<1>6. Exponent(n) = CHOOSE e \in 0..n : Fits(e)
  BY DEF Exponent
<1> HIDE DEF Fits
<1>7. Exponent(n) \in 0..n /\ Fits(Exponent(n))
  BY <1>3, <1>5, <1>6
<1>8. QED
  BY <1>7 DEF Fits

LEMMA ExponentUnique ==
  ASSUME NEW n \in Nat, NEW k \in Nat, n < FloatScale * power[k],
         k > 0 => FloatScale * power[k - 1] <= n
  PROVE  Exponent(n) = k
<1>1. ASSUME NEW a \in Nat, NEW b \in Nat, n < FloatScale * power[a], a < b,
             FloatScale * power[b - 1] <= n
      PROVE  FALSE
  <2>1. power[a] <= power[b - 1] /\ power[a] \in Nat /\ power[b - 1] \in Nat
    <3>1. b - 1 \in Nat /\ (a = b - 1 \/ a < b - 1)
      BY <1>1
    <3>2. power[a] \in Nat /\ power[b - 1] \in Nat
      BY <3>1, PowerIs
    <3>3. CASE a < b - 1
      BY <3>1, <3>2, <3>3, PowerOrder
    <3>4. QED
      BY <3>1, <3>2, <3>3
  <2>2. FloatScale * power[a] <= FloatScale * power[b - 1]
    BY <2>1, ScaleIs, TimesGrows
  <2>3. FloatScale * power[a] \in Nat /\ FloatScale * power[b - 1] \in Nat
    BY <2>1, ScaleIs
  <2>4. QED
    BY <1>1, <2>2, <2>3
<1>2. Exponent(n) \in Nat /\ ~(Exponent(n) < k) /\ ~(k < Exponent(n))
  BY <1>1, ExponentIs
<1>3. QED
  BY <1>2

(* What Round does, by how far n lies above a multiple of its unit. *)
LEMMA RoundAt ==
  ASSUME NEW n \in Nat, NEW q \in Nat, NEW rest \in Nat,
         rest < power[Exponent(n)], n = power[Exponent(n)] * q + rest
  PROVE  /\ 2 * rest < power[Exponent(n)] => Round(n) = power[Exponent(n)] * q
         /\ \/ Round(n) = power[Exponent(n)] * q
            \/ /\ 2 * rest >= power[Exponent(n)]
               /\ Round(n) = power[Exponent(n)] * (q + 1)
         /\ 2 * rest > power[Exponent(n)] => Round(n) = power[Exponent(n)] * (q + 1)
         /\ 2 * rest = power[Exponent(n)] =>
              Round(n) = power[Exponent(n)] * (IF q % 2 = 1 THEN q + 1 ELSE q)
<1> DEFINE unit == power[Exponent(n)]
<1>1. unit \in Nat \ {0}
  BY ExponentIs, PowerIs
<1>2. Round(n) = unit * (IF 2 * (n % unit) > unit
                            \/ (2 * (n % unit) = unit /\ (n \div unit) % 2 = 1)
                         THEN (n \div unit) + 1 ELSE n \div unit)
  BY Zenon DEF Round, Nearest
<1>3. rest \in 0..(unit - 1) /\ n = unit * q + rest
  BY <1>1
<1> HIDE DEF unit
<1>4. n \div unit = q /\ n % unit = rest
  <2>1. /\ n \div unit \in Nat /\ n % unit \in 0..(unit - 1)
        /\ n = unit * (n \div unit) + (n % unit)
    BY <1>1, Divided
  <2>2. QED
    BY <1>1, <1>3, <2>1, DividedOnce
<1>5. Round(n) = unit * (IF 2 * rest > unit \/ (2 * rest = unit /\ q % 2 = 1)
                         THEN q + 1 ELSE q)
  BY <1>2, <1>4
<1>6. /\ 2 * rest < unit => Round(n) = unit * q
      /\ Round(n) = unit * q \/ (2 * rest >= unit /\ Round(n) = unit * (q + 1))
      /\ 2 * rest > unit => Round(n) = unit * (q + 1)
      /\ 2 * rest = unit => Round(n) = unit * (IF q % 2 = 1 THEN q + 1 ELSE q)
  <2>1. CASE 2 * rest > unit \/ (2 * rest = unit /\ q % 2 = 1)
    <3>1. Round(n) = unit * (q + 1)
      BY <1>5, <2>1
    <3>2. QED
      BY <1>1, <1>3, <2>1, <3>1
  <2>2. CASE ~(2 * rest > unit \/ (2 * rest = unit /\ q % 2 = 1))
    BY <1>5, <2>2
  <2>3. QED
    BY <2>1, <2>2
<1>7. QED
  BY <1>5, <1>6 DEF unit

(* A float is a multiple of the unit, at most half of it from n, and holds *)
(* FloatBits bits.                                                         *)
LEMMA RoundIs ==
  ASSUME NEW n \in Nat
  PROVE  \E m \in 0..FloatScale :
           LET unit == power[Exponent(n)]
           IN  /\ unit \in Nat \ {0}
               /\ Round(n) = unit * m /\ Round(n) \in Nat
               /\ 2 * (Round(n) - n) <= unit /\ 2 * (n - Round(n)) <= unit
               /\ unit = 1 \/ FloatScale * unit <= 2 * n
<1> DEFINE unit == power[Exponent(n)]
           q == n \div unit
           rest == n % unit
<1>1. unit \in Nat \ {0} /\ n < FloatScale * unit /\ FloatScale \in Nat \ {0, 1}
  BY ExponentIs, PowerIs, ScaleIs
<1>2. q \in Nat /\ rest \in 0..(unit - 1) /\ n = unit * q + rest
  <2> HIDE DEF unit
  <2>1. QED
    BY <1>1, Divided
<1>3. unit = 1 \/ FloatScale * unit <= 2 * n
  <2>1. CASE Exponent(n) = 0
    BY <2>1, PowerIs
  <2>2. CASE Exponent(n) # 0
    <3>1. Exponent(n) - 1 \in Nat /\ (Exponent(n) - 1) + 1 = Exponent(n)
      BY <2>2, ExponentIs
    <3>2. power[Exponent(n) - 1] \in Nat /\ unit = 2 * power[Exponent(n) - 1]
      BY <3>1, PowerIs
    <3>3. FloatScale * power[Exponent(n) - 1] <= n
      BY <2>2, ExponentIs
    <3>4. \A a, b \in Nat : a * (2 * b) = 2 * (a * b)
      OBVIOUS
    <3>5. FloatScale * unit = 2 * (FloatScale * power[Exponent(n) - 1])
      BY <1>1, <3>2, <3>4
    <3>6. FloatScale * power[Exponent(n) - 1] \in Nat
      BY <1>1, <3>2
    <3>7. QED
      BY <3>3, <3>5, <3>6
  <2>3. QED
    BY <2>1, <2>2
<1>4. q < FloatScale
  <2>1. ASSUME q >= FloatScale PROVE FALSE
    <3>1. FloatScale * unit <= q * unit
      BY <1>1, <1>2, <2>1, TimesGrows
    <3>2. q * unit = unit * q
      BY <1>1, <1>2
    <3>3. QED
      BY <1>1, <1>2, <3>1, <3>2
  <2>2. QED
    BY <1>1, <1>2, <2>1
<1>e. power[Exponent(n)] = unit /\ rest \in Nat /\ rest < unit
  BY <1>1, <1>2
<1> HIDE DEF unit, q, rest
<1>5. /\ Round(n) = unit * q \/ (2 * rest >= unit /\ Round(n) = unit * (q + 1))
      /\ 2 * rest > unit => Round(n) = unit * (q + 1)
  <2>1. /\ \/ Round(n) = power[Exponent(n)] * q
           \/ /\ 2 * rest >= power[Exponent(n)]
              /\ Round(n) = power[Exponent(n)] * (q + 1)
        /\ 2 * rest > power[Exponent(n)] => Round(n) = power[Exponent(n)] * (q + 1)
    BY <1>2, <1>e, RoundAt
  <2>2. QED
    BY <1>e, <2>1
<1>6. unit * (q + 1) = unit * q + unit
  BY <1>1, <1>2
<1>7. CASE Round(n) = unit * q
  <2>1. /\ Round(n) \in Nat /\ 2 * (Round(n) - n) <= unit /\ 2 * (n - Round(n)) <= unit
    <3>1. unit * q \in Nat
      BY <1>1, <1>2
    <3>2. 2 * rest <= unit
      <4>1. ASSUME 2 * rest > unit PROVE FALSE
        <5>1. unit * q = unit * q + unit
          BY <1>1, <1>2, <1>5, <1>6, <1>7, <4>1
        <5>2. QED
          BY <1>1, <3>1, <5>1
      <4>2. QED
        BY <1>1, <1>2, <4>1
    <3>3. QED
      BY <1>1, <1>2, <1>7, <3>1, <3>2
  <2>2. q \in 0..FloatScale
    BY <1>1, <1>2, <1>4
  <2>3. QED
    BY <1>1, <1>3, <1>7, <2>1, <2>2 DEF unit
<1>8. CASE 2 * rest >= unit /\ Round(n) = unit * (q + 1)
  <2>1. /\ Round(n) \in Nat /\ 2 * (Round(n) - n) <= unit /\ 2 * (n - Round(n)) <= unit
    <3>1. unit * q \in Nat
      BY <1>1, <1>2
    <3>2. QED
      BY <1>1, <1>2, <1>6, <1>8, <3>1
  <2>2. q + 1 \in 0..FloatScale
    BY <1>1, <1>2, <1>4
  <2>3. QED
    BY <1>1, <1>3, <1>8, <2>1, <2>2 DEF unit
<1>9. QED
  BY <1>5, <1>7, <1>8

LEMMA RoundType ==
  ASSUME NEW n \in Nat
  PROVE  Round(n) \in Nat
BY RoundIs

(* A whole number of at most FloatBits bits is a float itself. *)
LEMMA RoundExact ==
  ASSUME NEW n \in Nat, n < FloatScale
  PROVE  Round(n) = n
<1>1. Exponent(n) = 0
  <2>1. FloatScale * power[0] = FloatScale
    BY PowerIs, ScaleIs
  <2>2. QED
    BY <2>1, ExponentUnique
<1>2. power[Exponent(n)] = 1
  BY <1>1, PowerIs
<1>3. n = power[Exponent(n)] * n + 0 /\ 0 < power[Exponent(n)]
  BY <1>2
<1>4. Round(n) = power[Exponent(n)] * n
  <2> DEFINE none == 0
  <2>1. none \in Nat /\ none < power[Exponent(n)] /\ n = power[Exponent(n)] * n + none
        /\ 2 * none < power[Exponent(n)]
    BY <1>2, <1>3
  <2> HIDE DEF none
  <2>2. QED
    BY <2>1, RoundAt
<1>5. QED
  BY <1>2, <1>4

(* Rounding adds at most the fraction 1/FloatScale. *)
LEMMA RoundError ==
  ASSUME NEW n \in Nat
  PROVE  FloatScale * Round(n) <= (FloatScale + 1) * n
<1>1. PICK unit \in Nat \ {0} :
        /\ Round(n) \in Nat
        /\ 2 * (Round(n) - n) <= unit
        /\ unit = 1 \/ FloatScale * unit <= 2 * n
  BY RoundIs
<1>2. FloatScale \in Nat \ {0, 1}
  BY ScaleIs
<1>3. (FloatScale + 1) * n = FloatScale * n + n /\ FloatScale * n \in Nat
  BY <1>2
<1>4. CASE Round(n) <= n
  <2>1. FloatScale * Round(n) <= FloatScale * n
    BY <1>1, <1>2, <1>4, TimesGrows
  <2>2. FloatScale * Round(n) \in Nat
    BY <1>1, <1>2
  <2>3. QED
    BY <1>3, <2>1, <2>2
<1>5. CASE Round(n) > n
  <2>1. unit # 1
    BY <1>1, <1>5
  <2> DEFINE over == Round(n) - n
  <2>2. over \in Nat /\ Round(n) = n + over /\ 2 * over <= unit
    BY <1>1, <1>5
  <2> HIDE DEF over
  <2>3. FloatScale * (2 * over) <= FloatScale * unit
    BY <1>1, <1>2, <2>2, TimesGrows
  <2>4. /\ FloatScale * (2 * over) = 2 * (FloatScale * over)
        /\ FloatScale * Round(n) = FloatScale * n + FloatScale * over
        /\ FloatScale * over \in Nat
    BY <1>2, <2>2
  <2>5. FloatScale * unit <= 2 * n /\ FloatScale * unit \in Nat
    BY <1>1, <1>2, <2>1
  <2>6. FloatScale * over <= n
    BY <2>3, <2>4, <2>5
  <2>7. QED
    BY <1>3, <2>4, <2>6
<1>6. QED
  BY <1>1, <1>4, <1>5

(* Half of the scale: its precision is at least one bit. *)
LEMMA ScaleEven == \E half \in Nat \ {0} : FloatScale = 2 * half
<1>1. FloatBits - 1 \in Nat /\ (FloatBits - 1) + 1 = FloatBits
  BY RetryAssumption
<1>2. power[FloatBits] = 2 * power[FloatBits - 1] /\ power[FloatBits - 1] \in Nat \ {0}
  BY <1>1, PowerIs
<1>3. QED
  BY <1>2 DEF FloatScale

(* The unit of a whole number times the scale, where the number has all of *)
(* its bits.                                                               *)
LEMMA UnitOf ==
  ASSUME NEW k \in Nat, NEW n \in Nat,
         n < FloatScale * (FloatScale * power[k]),
         FloatScale * (FloatScale * power[k]) <= 2 * n
  PROVE  power[Exponent(n)] = FloatScale * power[k]
<1>1. FloatScale = power[FloatBits] /\ FloatBits \in Nat /\ FloatBits > 0
  BY RetryAssumption DEF FloatScale
<1>2. k + FloatBits \in Nat /\ k + FloatBits > 0 /\ (k + FloatBits) - 1 \in Nat
      /\ ((k + FloatBits) - 1) + 1 = k + FloatBits
  BY <1>1
<1>3. power[k + FloatBits] = FloatScale * power[k]
  <2>1. power[k + FloatBits] = power[k] * power[FloatBits]
    BY <1>1, PowerSum
  <2>2. power[k] \in Nat /\ power[FloatBits] \in Nat
    BY <1>1, PowerIs
  <2>3. QED
    BY <1>1, <2>1, <2>2
<1>4. power[k + FloatBits] = 2 * power[(k + FloatBits) - 1]
      /\ power[(k + FloatBits) - 1] \in Nat
  BY <1>2, PowerIs
<1>5. FloatScale * power[(k + FloatBits) - 1] <= n
  <2> DEFINE low == power[(k + FloatBits) - 1]
  <2>1. low \in Nat /\ FloatScale \in Nat
    BY <1>4, ScaleIs
  <2>2. FloatScale * (2 * low) <= 2 * n
    BY <1>3, <1>4
  <2> HIDE DEF low
  <2>3. FloatScale * (2 * low) = 2 * (FloatScale * low) /\ FloatScale * low \in Nat
    BY <2>1
  <2>4. FloatScale * low <= n
    BY <2>2, <2>3
  <2>5. QED
    BY <2>4 DEF low
<1>6. n < FloatScale * power[k + FloatBits]
  BY <1>3
<1>7. Exponent(n) = k + FloatBits
  BY <1>2, <1>5, <1>6, ExponentUnique
<1>8. QED
  BY <1>3, <1>7

(***************************************************************************)
(* A float near n, times a draw less than one, rounds to less than n: the  *)
(* float is m units of 2^k, no more than half a unit above n.              *)
(***************************************************************************)
LEMMA DrawShrinks ==
  ASSUME NEW n \in Nat \ {0}, NEW k \in Nat, NEW m \in 0..FloatScale,
         NEW draw \in 0..(FloatScale - 1),
         2 * (power[k] * m - n) <= power[k],
         power[k] = 1 \/ FloatScale * power[k] <= 2 * n
  PROVE  Round((power[k] * m) * draw) < n * FloatScale
<1> DEFINE D == FloatScale
           u == power[k]
           P == u * m
           N == P * draw
           R == Round(N)
<1>1. D \in Nat \ {0, 1} /\ u \in Nat \ {0}
  BY ScaleIs, PowerIs
<1>2. P \in Nat /\ N \in Nat /\ R \in Nat
  <2>1. P \in Nat
    BY <1>1
  <2> HIDE DEF P
  <2>2. N \in Nat
    BY <2>1, <1>1
  <2> HIDE DEF N
  <2>3. QED
    BY <2>1, <2>2, RoundType
<1>3. D * R <= (D + 1) * N
  <2> HIDE DEF N
  <2>1. QED
    BY <1>2, RoundError
<1>4. PICK half \in Nat \ {0} : D = 2 * half
  BY ScaleEven
<1>5. 2 * (P - n) <= u /\ (u = 1 \/ D * u <= 2 * n)
  OBVIOUS
<1>u. u = power[k]
  OBVIOUS
<1>p. P = u * m
  OBVIOUS
<1>n. N = P * draw
  OBVIOUS
<1>r. R = Round(N)
  OBVIOUS
<1>d. D = FloatScale
  OBVIOUS
<1> HIDE DEF D, u, P, N, R
(* The product is less than n * D if it is by the rounding error. *)
<1>6. ASSUME NEW bound \in Nat, N <= bound, (D + 1) * bound < D * (n * D)
      PROVE  R < n * D
  <2>1. (D + 1) * N <= (D + 1) * bound
    BY <1>1, <1>2, <1>6, TimesGrows
  <2>2. (D + 1) * N \in Nat /\ (D + 1) * bound \in Nat /\ D * R \in Nat /\ n * D \in Nat
    BY <1>1, <1>2
  <2>0. D * (n * D) \in Nat
    BY <1>1, <2>2
  <2>3. D * R < D * (n * D)
    <3> DEFINE x == D * R
               y == (D + 1) * N
               z == (D + 1) * bound
               w == D * (n * D)
    <3>1. x \in Nat /\ y \in Nat /\ z \in Nat /\ w \in Nat
      BY <2>0, <2>2
    <3>2. x <= y /\ y <= z /\ z < w
      BY <1>3, <1>6, <2>1
    <3> HIDE DEF x, y, z, w
    <3>3. x < w
      BY <3>1, <3>2
    <3>4. QED
      BY <3>3 DEF x, w
  <2>4. ASSUME n * D <= R PROVE FALSE
    <3>1. D * (n * D) <= D * R
      BY <1>1, <1>2, <2>2, <2>4, TimesGrows
    <3>2. D * (n * D) \in Nat
      BY <1>1, <2>2
    <3>3. QED
      BY <2>2, <2>3, <3>1, <3>2
  <2>5. QED
    BY <1>2, <2>2, <2>4
<1>7. CASE P <= n
  <2>1. N <= n * (D - 1)
    <3>1. P * draw <= n * draw /\ n * draw <= n * (D - 1)
      <4>1. draw \in Nat /\ D - 1 \in Nat /\ draw <= D - 1
        BY <1>1, <1>d
      <4>2. P * draw <= n * draw
        BY <1>2, <1>7, <4>1, TimesGrows
      <4>3. n * draw <= n * (D - 1)
        BY <4>1, TimesGrows
      <4>4. QED
        BY <4>2, <4>3
    <3>2. P * draw \in Nat /\ n * draw \in Nat /\ n * (D - 1) \in Nat
      BY <1>1, <1>2, <1>d
    <3>3. QED
      BY <1>n, <3>1, <3>2
  <2>2. n * (D - 1) \in Nat
    BY <1>1
  <2>3. (D + 1) * (n * (D - 1)) = D * (n * D) - n
    BY <1>1
  <2>4. D * (n * D) \in Nat
    BY <1>1
  <2>5. (D + 1) * (n * (D - 1)) < D * (n * D)
    BY <2>3, <2>4
  <2>6. QED
    BY <1>d, <1>r, <1>n, <1>p, <1>u, <2>1, <2>2, <2>5, <1>6
<1>8. CASE P > n
  <2>1. u # 1 /\ D * u <= 2 * n
    BY <1>1, <1>2, <1>5, <1>8
  <2>2. m >= half + 1
    <3>1. 2 * n < 2 * (u * m)
      BY <1>2, <1>8, <1>p
    <3>2. ASSUME m <= half PROVE FALSE
      <4>1. u * (2 * m) <= u * D
        <5>1. 2 * m \in Nat /\ 2 * m <= D
          BY <1>4, <3>2
        <5>2. QED
          BY <1>1, <5>1, TimesGrows
      <4>2. u * (2 * m) = 2 * (u * m) /\ u * D = D * u
        BY <1>1
      <4>3. u * m \in Nat /\ D * u \in Nat
        BY <1>1
      <4>4. QED
        BY <2>1, <3>1, <4>1, <4>2, <4>3
    <3>3. QED
      BY <3>2
  <2>3. m - 1 \in Nat /\ m \in Nat /\ m <= D /\ D - m \in Nat /\ 2 * (D - m) < D
    BY <1>1, <1>4, <1>d, <2>2
  <2>4. P - u < n
    BY <1>1, <1>2, <1>5
  <2>5. CASE draw <= D - 2
    <3>1. N <= P * (D - 2)
      <4>1. draw \in Nat /\ D - 2 \in Nat
        BY <1>1
      <4>2. QED
        BY <1>2, <1>n, <2>5, <4>1, TimesGrows
    <3>2. P * (D - 2) \in Nat
      BY <1>1, <1>2
    <3>3. 2 * (D * P) <= 2 * (n * D) + 2 * n
      <4> DEFINE over == P - n
      <4>1. over \in Nat /\ P = n + over /\ 2 * over <= u
        BY <1>2, <1>5, <1>8
      <4> HIDE DEF over
      <4>2. D * (2 * over) <= D * u
        BY <1>1, <4>1, TimesGrows
      <4>3. D * P = n * D + D * over /\ D * (2 * over) = 2 * (D * over) /\ D * over \in Nat
            /\ n * D \in Nat /\ D * u \in Nat
        BY <1>1, <4>1
      <4>4. QED
        BY <2>1, <4>2, <4>3
    <3>4. D * P <= (D + 1) * n
      <4>1. (D + 1) * n = n * D + n /\ D * P \in Nat /\ n * D \in Nat
        BY <1>1, <1>2
      <4>2. QED
        BY <3>3, <4>1
    <3>5. ((D + 1) * (D - 2)) * (D * P) <= ((D + 1) * (D - 2)) * ((D + 1) * n)
      <4>1. (D + 1) * (D - 2) \in Nat /\ D * P \in Nat /\ (D + 1) * n \in Nat
        BY <1>1, <1>2
      <4>2. QED
        BY <3>4, <4>1, TimesGrows
    <3>6. D * ((D + 1) * (P * (D - 2))) = ((D + 1) * (D - 2)) * (D * P)
      BY <1>1, <1>2
    <3>7. ((D + 1) * (D - 2)) * ((D + 1) * n) = D * (D * (n * D)) - n * (3 * D + 2)
      BY <1>1
    <3>8. n * (3 * D + 2) \in Nat \ {0} /\ D * (D * (n * D)) \in Nat
      BY <1>1
    <3> DEFINE X == (D + 1) * (P * (D - 2))
               Y == D * (n * D)
    <3>9. X \in Nat /\ Y \in Nat /\ D * X < D * Y
      <4>1. X \in Nat /\ Y \in Nat
        BY <1>1, <1>2, <3>2
      <4>2. D * X <= D * Y - n * (3 * D + 2)
        BY <3>5, <3>6, <3>7
      <4>3. D * X \in Nat /\ D * Y \in Nat
        BY <1>1, <4>1
      <4> HIDE DEF X, Y
      <4>4. QED
        BY <3>8, <4>1, <4>2, <4>3
    <3> HIDE DEF X, Y
    <3>10. X < Y
      <4>1. ASSUME Y <= X PROVE FALSE
        <5>1. D * Y <= D * X
          BY <1>1, <3>9, <4>1, TimesGrows
        <5>2. D * X \in Nat /\ D * Y \in Nat
          BY <1>1, <3>9
        <5>3. QED
          BY <3>9, <5>1, <5>2
      <4>2. QED
        BY <3>9, <4>1
    <3>11. (D + 1) * (P * (D - 2)) < D * (n * D)
      BY <3>10 DEF X, Y
    <3>12. R < n * D
      BY <3>1, <3>2, <3>11, <1>6
    <3>13. QED
      BY <1>d, <1>r, <1>n, <1>p, <1>u, <3>12
  <2>6. CASE draw = D - 1
    <3> DEFINE w == D * u
               rest == u * (D - m)
    <3>1. w \in Nat \ {0} /\ rest \in Nat
      BY <1>1, <2>3
    <3>2. N = w * (m - 1) + rest
      BY <1>1, <1>n, <1>p, <2>3, <2>6
    <3>3. 2 * rest < w
      <4>1. u * (2 * (D - m)) < u * D
        <5>1. 2 * (D - m) + 1 <= D /\ 2 * (D - m) \in Nat
          BY <1>1, <2>3
        <5>2. u * (2 * (D - m) + 1) <= u * D
          BY <1>1, <5>1, TimesGrows
        <5>3. u * (2 * (D - m) + 1) = u * (2 * (D - m)) + u
          BY <1>1, <5>1
        <5>4. u * (2 * (D - m)) \in Nat /\ u * D \in Nat
          BY <1>1, <5>1
        <5>5. QED
          BY <1>1, <5>2, <5>3, <5>4
      <4>2. u * (2 * (D - m)) = 2 * rest /\ u * D = w
        BY <1>1, <2>3
      <4>3. QED
        BY <4>1, <4>2
    <3>4. N < D * w
      <4>1. w * (m - 1) <= w * (D - 1)
        <5>1. D - 1 \in Nat /\ m - 1 <= D - 1
          BY <1>1, <2>3
        <5>2. QED
          BY <2>3, <3>1, <5>1, TimesGrows
      <4>2. w * (D - 1) = D * w - w
        BY <1>1, <3>1
      <4>3. w * (m - 1) \in Nat /\ D * w \in Nat
        BY <1>1, <2>3, <3>1
      <4> HIDE DEF w, rest
      <4>4. QED
        BY <3>1, <3>2, <3>3, <4>1, <4>2, <4>3
    <3>5. D * w <= 2 * N
      <4>1. 2 * N = (u * (D - 1)) * (2 * m)
        BY <1>1, <1>n, <1>p, <2>3, <2>6
      <4>2. (u * (D - 1)) * (D + 2) <= (u * (D - 1)) * (2 * m)
        <5>1. D + 2 <= 2 * m /\ u * (D - 1) \in Nat
          BY <1>1, <1>4, <2>2
        <5>2. QED
          BY <1>1, <2>3, <5>1, TimesGrows
      <4>3. (u * (D - 1)) * (D + 2) = D * w + u * (D - 2)
        BY <1>1
      <4>4. u * (D - 2) \in Nat /\ D * w \in Nat
        BY <1>1
      <4>5. QED
        BY <1>2, <4>1, <4>2, <4>3, <4>4
    <3>w. w = FloatScale * power[k]
      BY <1>d, <1>u
    <3> HIDE DEF w, rest
    <3>6. power[Exponent(N)] = w
      BY <1>2, <1>d, <3>4, <3>5, <3>w, UnitOf
    <3>7. R = w * (m - 1)
      <4>1. rest < power[Exponent(N)] /\ 2 * rest < power[Exponent(N)]
            /\ N = power[Exponent(N)] * (m - 1) + rest
        BY <3>1, <3>2, <3>3, <3>6
      <4>2. QED
        BY <1>2, <1>r, <2>3, <3>1, <3>6, <4>1, RoundAt
    <3>8. R = (P - u) * D
      BY <1>1, <1>p, <2>3, <3>7 DEF w
    <3>9. R < n * D
      <4>1. P - u \in Nat /\ P - u + 1 <= n
        <5>1. u * 1 <= u * m
          BY <1>1, <2>2, <2>3, TimesGrows
        <5>2. QED
          BY <1>1, <1>2, <1>p, <2>4, <5>1
      <4>2. (P - u + 1) * D <= n * D
        BY <1>1, <4>1, TimesGrows
      <4>3. (P - u + 1) * D = (P - u) * D + D
        BY <1>1, <4>1
      <4>4. (P - u) * D \in Nat /\ n * D \in Nat
        BY <1>1, <4>1
      <4>5. QED
        BY <1>1, <3>8, <4>2, <4>3, <4>4
    <3>10. QED
      BY <1>d, <1>r, <1>n, <1>p, <1>u, <3>9
  <2>7. QED
    BY <1>1, <1>d, <2>5, <2>6
<1>9. QED
  BY <1>2, <1>7, <1>8

(* A float of all its bits, times the scale, is a float.                   *)
LEMMA FloatExact ==
  ASSUME NEW k \in Nat, NEW m \in 0..FloatScale, FloatScale < 2 * m
  PROVE  Round((FloatScale * power[k]) * m) = (FloatScale * power[k]) * m
<1> DEFINE D == FloatScale
           u == power[k]
           N == (D * u) * m
<1>1. D \in Nat \ {0, 1} /\ u \in Nat \ {0} /\ m \in Nat /\ m <= D /\ N \in Nat
  BY ScaleIs, PowerIs
<1>2. power[k + 1] = 2 * u /\ k + 1 \in Nat
  BY PowerIs
<1>d. D = FloatScale /\ u = power[k] /\ N = (FloatScale * power[k]) * m
  OBVIOUS
<1> HIDE DEF D, u
<1>3. D * (D * u) <= 2 * N
  <2>1. (D * u) * D <= (D * u) * (2 * m)
    <3>1. D <= 2 * m /\ D * u \in Nat
      BY <1>1, <1>d
    <3>2. QED
      BY <1>1, <3>1, TimesGrows
  <2>2. QED
    BY <1>1, <2>1
<1> HIDE DEF N
<1>n. N = (D * u) * m
  BY <1>d
<1>4. CASE m < D
  <2>1. N < D * (D * u)
    <3>1. (D * u) * (m + 1) <= (D * u) * D
      <4>1. m + 1 <= D /\ m + 1 \in Nat /\ D * u \in Nat
        BY <1>1, <1>4
      <4>2. QED
        BY <1>1, <4>1, TimesGrows
    <3>2. (D * u) * (m + 1) = N + D * u /\ (D * u) * D = D * (D * u)
          /\ D * u \in Nat \ {0} /\ D * (D * u) \in Nat
      BY <1>1, <1>n
    <3>3. QED
      BY <1>1, <3>1, <3>2
  <2>2. power[Exponent(N)] = D * u
    BY <1>1, <1>d, <1>3, <2>1, UnitOf
  <2>3. D * u \in Nat \ {0}
    BY <1>1
  <2>4. 0 < power[Exponent(N)] /\ N = power[Exponent(N)] * m + 0
    BY <1>1, <1>n, <2>2, <2>3
  <2>5. Round(N) = power[Exponent(N)] * m
    BY <1>1, <2>4, RoundAt
  <2>6. QED
    BY <1>d, <1>n, <2>2, <2>5
<1>5. CASE m = D
  <2>1. PICK half \in Nat \ {0} : D = 2 * half
    BY <1>d, ScaleEven
  <2>2. D * (D * (2 * u)) = 2 * N
    BY <1>1, <1>n, <1>5
  <2>3. N < D * (D * (2 * u)) /\ D * (D * (2 * u)) <= 2 * N
    <3>1. N = (D * u) * D /\ D * u \in Nat \ {0}
      BY <1>1, <1>n, <1>5
    <3>2. (D * u) * D \in Nat \ {0}
      BY <1>1, <3>1
    <3>3. QED
      BY <1>1, <2>2, <3>1, <3>2
  <2>4. power[Exponent(N)] = D * (2 * u)
    <3>1. N < FloatScale * (FloatScale * power[k + 1])
          /\ FloatScale * (FloatScale * power[k + 1]) <= 2 * N
      BY <1>d, <1>2, <2>3
    <3>2. QED
      BY <1>1, <1>2, <1>d, <3>1, UnitOf
  <2>5. D * (2 * u) \in Nat \ {0}
    BY <1>1
  <2>6. N = (D * (2 * u)) * half
    BY <1>1, <1>n, <1>5, <2>1
  <2>7. 0 < power[Exponent(N)] /\ N = power[Exponent(N)] * half + 0
    BY <1>1, <2>4, <2>5, <2>6
  <2>8. Round(N) = power[Exponent(N)] * half
    BY <1>1, <2>1, <2>7, RoundAt
  <2>9. QED
    BY <1>d, <1>n, <2>4, <2>6, <2>8
<1>6. QED
  BY <1>1, <1>4, <1>5

(* The same of a whole number, rounded.                                    *)
LEMMA RoundShrinks ==
  ASSUME NEW n \in Nat \ {0}, NEW draw \in 0..(FloatScale - 1)
  PROVE  Round(Round(n) * draw) < n * FloatScale
<1>1. PICK m \in 0..FloatScale :
        LET unit == power[Exponent(n)]
        IN  /\ Round(n) = unit * m
            /\ 2 * (Round(n) - n) <= unit
            /\ unit = 1 \/ FloatScale * unit <= 2 * n
  BY RoundIs
<1>2. Exponent(n) \in Nat
  BY ExponentIs
<1>3. QED
  BY <1>1, <1>2, DrawShrinks

(***************************************************************************)
(* What the jitter takes is less than the delay, at every fraction and for *)
(* every draw: rounding never makes up for a draw below one.               *)
(***************************************************************************)
LEMMA ProductBelow ==
  ASSUME NEW full \in Nat \ {0}, NEW jitter \in 0..FloatScale,
         NEW draw \in 0..(FloatScale - 1)
  PROVE  /\ Product(full, jitter, draw) \in Nat
         /\ Product(full, jitter, draw) < full * (FloatScale * FloatScale)
<1> DEFINE D == FloatScale
           F == Round(full)
           N == F * jitter
<1>1. D \in Nat \ {0, 1} /\ F \in Nat /\ jitter \in Nat /\ jitter <= D /\ draw \in Nat
  BY ScaleIs, RoundType
<1>2. D * F <= (D + 1) * full
  BY RoundError
<1>d. D = FloatScale /\ F = Round(full) /\ N = F * jitter
      /\ Product(full, jitter, draw) = Round(Round(N) * draw)
  BY DEF Product
<1>3. N \in Nat
  <2> HIDE DEF F
  <2>1. QED
    BY <1>1
<1> HIDE DEF D, F, N
<1>4. Product(full, jitter, draw) \in Nat
  <2>1. Round(N) \in Nat
    BY <1>3, RoundType
  <2>2. Round(N) * draw \in Nat
    BY <1>1, <2>1
  <2>3. QED
    BY <1>d, <2>2, RoundType
<1>5. full * (D * D) \in Nat \ {0} /\ full * D \in Nat \ {0}
  BY <1>1
<1>6. CASE N = 0
  <2>1. Round(0) = 0
    BY ScaleIs, RoundExact
  <2>2. Product(full, jitter, draw) = 0
    BY <1>1, <1>6, <1>d, <2>1
  <2>3. QED
    BY <1>4, <1>5, <1>d, <2>2
(* A product of at most full * D leaves the draw's fraction to shrink it. *)
<1>7. CASE N # 0 /\ N <= full * D
  <2>1. Product(full, jitter, draw) < N * D
    BY <1>3, <1>7, <1>d, RoundShrinks
  <2>2. N * D <= (full * D) * D
    BY <1>1, <1>3, <1>5, <1>7, TimesGrows
  <2>3. (full * D) * D = full * (D * D) /\ N * D \in Nat
    BY <1>1, <1>3
  <2>4. QED
    BY <1>4, <1>5, <1>d, <2>1, <2>2, <2>3
<1>8. CASE jitter < D
  <2>1. N <= F * (D - 1)
    <3>1. D - 1 \in Nat /\ jitter <= D - 1
      BY <1>1, <1>8
    <3>2. QED
      BY <1>1, <1>d, <3>1, TimesGrows
  <2>2. D * (F * (D - 1)) <= D * (full * D)
    <3>1. (D * F) * (D - 1) <= ((D + 1) * full) * (D - 1)
      <4>1. D * F \in Nat /\ (D + 1) * full \in Nat /\ D - 1 \in Nat
        BY <1>1
      <4>2. QED
        BY <1>2, <4>1, TimesGrows
    <3>2. ((D + 1) * full) * (D - 1) = D * (full * D) - full
      BY <1>1
    <3>3. (D * F) * (D - 1) = D * (F * (D - 1))
      BY <1>1
    <3>4. D * (full * D) \in Nat /\ D * (F * (D - 1)) \in Nat
      BY <1>1
    <3>5. QED
      BY <3>1, <3>2, <3>3, <3>4
  <2>3. F * (D - 1) \in Nat
    BY <1>1
  <2>4. ASSUME full * D < F * (D - 1) PROVE FALSE
    <3>1. D * (full * D + 1) <= D * (F * (D - 1))
      <4>1. full * D + 1 \in Nat /\ full * D + 1 <= F * (D - 1)
        BY <1>5, <2>3, <2>4
      <4>2. QED
        BY <1>1, <2>3, <4>1, TimesGrows
    <3>2. D * (full * D + 1) = D * (full * D) + D
      BY <1>1
    <3>3. D * (full * D) \in Nat /\ D * (F * (D - 1)) \in Nat
      BY <1>1
    <3>4. QED
      BY <1>1, <2>2, <3>1, <3>2, <3>3
  <2>5. N <= full * D
    BY <1>3, <1>5, <2>1, <2>3, <2>4
  <2>6. QED
    BY <1>6, <1>7, <2>5
<1>9. CASE jitter = D /\ F <= full
  <2>1. N <= full * D
    BY <1>1, <1>9, <1>d, TimesGrows
  <2>2. QED
    BY <1>6, <1>7, <2>1
<1>10. CASE jitter = D /\ F > full
  <2> DEFINE k == Exponent(full)
             u == power[k]
  <2>1. PICK m \in 0..D : F = u * m /\ 2 * (F - full) <= u /\ (u = 1 \/ D * u <= 2 * full)
    BY <1>d, RoundIs
  <2>2. k \in Nat /\ u \in Nat \ {0} /\ m \in Nat /\ m <= D
    BY <1>1, <2>1, ExponentIs, PowerIs
  <2>u. u = power[k]
    OBVIOUS
  <2> HIDE DEF u
  <2>3. D * u <= 2 * full
    BY <1>1, <1>10, <2>1, <2>2
  <2>4. D < 2 * m
    <3>1. ASSUME 2 * m <= D PROVE FALSE
      <4>1. u * (2 * m) <= u * D
        BY <1>1, <2>2, <3>1, TimesGrows
      <4>2. u * (2 * m) = 2 * F /\ u * D = D * u /\ D * u \in Nat
        BY <1>1, <2>1, <2>2
      <4>3. QED
        BY <1>1, <1>10, <2>3, <4>1, <4>2
    <3>2. QED
      BY <1>1, <2>2, <3>1
  <2>5. FloatBits \in Nat /\ k + FloatBits \in Nat /\ power[k + FloatBits] = D * u
    <3>1. FloatBits \in Nat /\ k \in Nat
      BY <2>2, RetryAssumption
    <3>2. power[k + FloatBits] = u * D
      BY <1>d, <2>u, <3>1, PowerSum DEF FloatScale
    <3>3. QED
      BY <1>1, <2>2, <3>1, <3>2
  <2>6. N = (D * u) * m
    BY <1>1, <1>10, <1>d, <2>1, <2>2
  <2>7. Round(N) = (D * u) * m
    BY <1>d, <2>1, <2>2, <2>4, <2>6, <2>u, FloatExact
  <2>8. 2 * ((D * u) * m - full * D) <= D * u
    <3> DEFINE over == F - full
    <3>1. over \in Nat /\ F = full + over /\ 2 * over <= u
      BY <1>1, <1>10, <2>1
    <3>2. (D * u) * m = D * F
      BY <1>1, <2>1, <2>2
    <3> HIDE DEF over
    <3>3. D * F = full * D + D * over /\ D * over \in Nat /\ D * (2 * over) = 2 * (D * over)
      BY <1>1, <3>1
    <3>4. D * (2 * over) <= D * u
      BY <1>1, <2>2, <3>1, TimesGrows
    <3>5. D * u \in Nat /\ full * D \in Nat
      BY <1>1, <2>2
    <3>6. QED
      BY <3>2, <3>3, <3>4, <3>5
  <2>9. D * (D * u) <= 2 * (full * D)
    <3>1. D * (D * u) <= D * (2 * full)
      <4>1. D * u \in Nat /\ 2 * full \in Nat
        BY <1>1, <2>2
      <4>2. QED
        BY <1>1, <2>3, <4>1, TimesGrows
    <3>2. D * (2 * full) = 2 * (full * D)
      BY <1>1
    <3>3. QED
      BY <3>1, <3>2
  <2>10. Round(((D * u) * m) * draw) < (full * D) * D
    <3> DEFINE wide == full * D
               shift == k + FloatBits
    <3>1. wide \in Nat \ {0} /\ shift \in Nat /\ power[shift] = D * u
      BY <1>5, <2>5
    <3>2. 2 * (power[shift] * m - wide) <= power[shift]
          /\ FloatScale * power[shift] <= 2 * wide
      BY <1>d, <2>8, <2>9, <3>1
    <3>3. m \in 0..FloatScale
      BY <1>d, <2>1
    <3> HIDE DEF wide, shift
    <3>4. Round((power[shift] * m) * draw) < wide * FloatScale
      BY <3>1, <3>2, <3>3, DrawShrinks
    <3>5. QED
      BY <1>d, <3>1, <3>4 DEF wide
  <2>11. (full * D) * D = full * (D * D)
    BY <1>1
  <2>12. QED
    BY <1>4, <1>d, <2>7, <2>10, <2>11
<1>11. QED
  BY <1>1, <1>8, <1>9, <1>10

(* Every delay it can leave is a delay, and no more than the full one.     *)
LEMMA JitterLeaves ==
  ASSUME NEW policy, NEW full \in Nat \ {0}, policy.backoffJitter \in 0..FloatScale,
         NEW delay \in Jittered(policy, full)
  PROVE  delay \in 1..full
<1> DEFINE scale == FloatScale * FloatScale
<1>1. PICK draw \in 0..(FloatScale - 1) :
        delay = full - Taken(full, policy.backoffJitter, draw)
  BY DEF Jittered
<1> DEFINE product == Product(full, policy.backoffJitter, draw)
<1>2. scale \in Nat \ {0}
  BY ScaleIs
<1>3. product \in Nat /\ product < full * scale
  BY ProductBelow
<1>4. delay = full - (product \div scale)
  BY <1>1 DEF Taken
<1> HIDE DEF scale, product
<1>5. product \div scale \in Nat /\ scale * (product \div scale) <= product
  BY <1>2, <1>3, DividedBelow
<1> DEFINE taken == product \div scale
<1>6. ASSUME full <= taken PROVE FALSE
  <2>1. full * scale <= taken * scale
    BY <1>2, <1>5, <1>6, TimesGrows
  <2>2. taken * scale = scale * taken /\ scale * taken \in Nat /\ full * scale \in Nat
    BY <1>2, <1>5
  <2>3. QED
    BY <1>3, <1>5, <2>1, <2>2
<1>7. QED
  BY <1>4, <1>5, <1>6 DEF taken

(* A delay a float holds exactly loses no more than the jitter's fraction. *)
LEMMA JitterTakesFraction ==
  ASSUME NEW policy, NEW full \in 1..(FloatScale - 1),
         policy.backoffJitter \in 0..FloatScale,
         NEW delay \in Jittered(policy, full)
  PROVE  delay * FloatScale >= full * (FloatScale - policy.backoffJitter)
<1> DEFINE D == FloatScale
           jitter == policy.backoffJitter
<1>1. PICK draw \in 0..(D - 1) : delay = full - Taken(full, jitter, draw)
  BY DEF Jittered
<1> DEFINE product == Product(full, jitter, draw)
           taken == product \div (D * D)
<1>2. D \in Nat \ {0, 1} /\ jitter \in Nat /\ jitter <= D /\ full \in Nat \ {0}
  BY ScaleIs
<1>3. Round(full) = full
  BY <1>2, RoundExact
<1>4. product \in Nat
  BY <1>2, ProductBelow
<1>5. product <= (full * jitter) * D
  <2>1. CASE jitter = 0
    <3>1. full * jitter = 0 /\ Round(0) = 0
      BY <1>2, <2>1, ScaleIs, RoundExact
    <3>2. product = Round(0 * draw)
      BY <1>3, <3>1 DEF Product
    <3>3. product = 0
      BY <1>1, <1>2, <3>1, <3>2
    <3>4. QED
      BY <1>2, <2>1, <3>3
  <2>2. CASE jitter # 0
    <3>1. full * jitter \in Nat \ {0}
      BY <1>2, <2>2
    <3>2. product = Round(Round(full * jitter) * draw)
      BY <1>3 DEF Product
    <3>3. product < (full * jitter) * D
      BY <3>1, <3>2, RoundShrinks
    <3>4. (full * jitter) * D \in Nat
      BY <1>2, <3>1
    <3>5. QED
      BY <1>4, <3>3, <3>4
  <2>3. QED
    BY <2>1, <2>2
<1>6. delay = full - taken
  BY <1>1 DEF Taken
<1>t. product = Product(full, jitter, draw) /\ taken = product \div (D * D)
  OBVIOUS
<1>d. D = FloatScale /\ jitter = policy.backoffJitter
  OBVIOUS
<1> HIDE DEF D, jitter, product, taken
<1>7. taken \in Nat /\ (D * D) * taken <= product
  <2>1. D * D \in Nat \ {0}
    BY <1>2
  <2> DEFINE scale == D * D
  <2>2. scale \in Nat \ {0} /\ taken = product \div scale
    BY <1>t, <2>1
  <2> HIDE DEF scale
  <2>3. taken \in Nat /\ scale * taken <= product
    BY <1>4, <2>2, DividedBelow
  <2>4. QED
    BY <2>3 DEF scale
<1>8. taken * D <= full * jitter
  <2> DEFINE x == taken * D
             y == full * jitter
  <2>1. x \in Nat /\ y \in Nat /\ (D * D) * taken = x * D
    BY <1>2, <1>7
  <2>2. x * D <= y * D
    <3>1. x * D \in Nat /\ y * D \in Nat
      BY <1>2, <2>1
    <3>2. QED
      BY <1>4, <1>5, <1>7, <2>1, <3>1
  <2> HIDE DEF x, y
  <2>3. ASSUME y < x PROVE FALSE
    <3>1. (y + 1) * D <= x * D
      BY <1>2, <2>1, <2>3, TimesGrows
    <3>2. (y + 1) * D = y * D + D /\ y * D \in Nat /\ x * D \in Nat
      BY <1>2, <2>1
    <3>3. QED
      BY <1>2, <2>2, <3>1, <3>2
  <2>4. x <= y
    BY <2>1, <2>3
  <2>5. QED
    BY <2>4 DEF x, y
<1>9. delay * D = full * D - taken * D /\ full * (D - jitter) = full * D - full * jitter
  BY <1>2, <1>6, <1>7
<1>10. full * D \in Nat /\ taken * D \in Nat /\ full * jitter \in Nat
  BY <1>2, <1>7
<1>11. QED
  BY <1>8, <1>9, <1>10, <1>d

(* A delay of backoff is not negative and within the policy's maximum.     *)
LEMMA BackoffBounds ==
  ASSUME NEW policy \in PolicyType, Valid(policy), NEW attempt \in Nat \ {0},
         NEW delay \in Backoff(policy, attempt)
  PROVE  delay \in 0..policy.backoffMax
<1>1. /\ policy.backoffInitial \in 0..MaxInt /\ policy.backoffMax \in 0..MaxInt
      /\ policy.backoffJitter \in 0..FloatScale /\ MaxInt \in Nat
  BY RetryAssumption DEF PolicyType, Valid, Int64, MinInt
<1>2. CASE policy.backoffInitial <= 0 \/ policy.backoffMax <= 0
  BY <1>1, <1>2 DEF Backoff
<1>3. CASE ~(policy.backoffInitial <= 0 \/ policy.backoffMax <= 0)
  <2>1. Backing(policy)
    BY <1>1, <1>3 DEF Backing
  <2>2. FullBackoff(policy, attempt) \in 1..policy.backoffMax
    BY <2>1, FullType
  <2>3. delay \in Jittered(policy, FullBackoff(policy, attempt))
    BY <1>3 DEF Backoff
  <2>4. FullBackoff(policy, attempt) \in Nat \ {0}
    BY <1>1, <2>2
  <2>5. delay \in 1..FullBackoff(policy, attempt)
    BY <1>1, <2>3, <2>4, JitterLeaves
  <2>6. QED
    BY <1>1, <2>2, <2>5
<1>4. QED
  BY <1>2, <1>3
=============================================================================
