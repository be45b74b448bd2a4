---------------------------- MODULE NumberLemmas ----------------------------
(***************************************************************************)
(* Natural numbers: least elements, induction and recursion over them, and *)
(* the digits of a number.  Induction is over a set of numbers and         *)
(* recursion by a function, so that a proof can use them as they stand.    *)
(***************************************************************************)
EXTENDS Integers, WellFoundedInduction, TLAPS

----------------------------------------------------------------------------
(* Induction and recursion                                                 *)

\* Sets of numbers have a least element.
LEMMA Least ==
    ASSUME NEW M \in SUBSET Nat, M # {}
    PROVE  \E x \in M : \A y \in M : x =< y
<1>1. PICK x \in M : \A y \in M : ~(<<y, x>> \in OpToRel(<, Nat))
  BY NatLessThanWellFounded, WFMin
<1>2. \A y \in M : ~(y < x)
  BY <1>1 DEF OpToRel
<1> QED BY <1>2

\* A set that holds 0 and the successor of what it holds holds every number.
LEMMA Induction ==
    ASSUME NEW P, 0 \in P, \A n \in Nat : n \in P => n + 1 \in P
    PROVE  \A n \in Nat : n \in P
<1> DEFINE bad == Nat \ P
<1>1. SUFFICES ASSUME bad # {} PROVE FALSE
  OBVIOUS
<1>2. PICK x \in bad : \A y \in bad : x =< y
  <2>1. bad \in SUBSET Nat
    OBVIOUS
  <2> QED BY <1>1, <2>1, Least
<1>3. x \in Nat /\ x # 0 /\ x \notin P
  OBVIOUS
<1>4. x - 1 \in Nat /\ ~(x =< x - 1) /\ (x - 1) + 1 = x
  BY <1>3
<1>5. x - 1 \in P
  BY <1>2, <1>4
<1> QED BY <1>3, <1>4, <1>5

\* The functions that follow F from a up to n.
Following(S, a, F, n) ==
    {g \in [0..n -> S] : g[0] = a /\ \A i \in 0..(n - 1) : g[i + 1] = F[<<i, g[i]>>]}

LEMMA FollowingExist ==
    ASSUME NEW S, NEW a \in S, NEW F \in [Nat \X S -> S]
    PROVE  \A n \in Nat : Following(S, a, F, n) # {}
<1> DEFINE P == {n \in Nat : Following(S, a, F, n) # {}}
<1>1. 0 \in P
  <2> DEFINE g == [i \in 0..0 |-> a]
  <2>1. g \in Following(S, a, F, 0)
    BY DEF Following
  <2> QED BY <2>1
<1>2. ASSUME NEW n \in Nat, n \in P PROVE n + 1 \in P
  <2>1. PICK g : g \in Following(S, a, F, n)
    BY <1>2
  <2>2. /\ g \in [0..n -> S] /\ g[0] = a
        /\ \A i \in 0..(n - 1) : g[i + 1] = F[<<i, g[i]>>]
    BY <2>1 DEF Following
  <2> DEFINE h == [i \in 0..(n + 1) |-> IF i =< n THEN g[i] ELSE F[<<n, g[n]>>]]
  <2>3. g[n] \in S /\ F[<<n, g[n]>>] \in S
    <3>1. g[n] \in S
      BY <2>2
    <3>2. <<n, g[n]>> \in Nat \X S
      BY <3>1
    <3> QED BY <3>1, <3>2
  <2>4. h \in [0..(n + 1) -> S]
    <3>1. \A i \in 0..(n + 1) : i =< n => g[i] \in S
      BY <2>2
    <3> QED BY <2>3, <3>1
  <2>5. \A i \in 0..n : h[i] = g[i]
    OBVIOUS
  <2>6. h[n + 1] = F[<<n, h[n]>>]
    OBVIOUS
  <2> HIDE DEF h
  <2>7. \A i \in 0..n : h[i + 1] = F[<<i, h[i]>>]
    <3>1. SUFFICES ASSUME NEW i \in 0..n, i # n PROVE h[i + 1] = F[<<i, h[i]>>]
      BY <2>6
    <3>2. i \in 0..(n - 1) /\ i + 1 \in 0..n
      BY <3>1
    <3> QED BY <2>2, <2>5, <3>2
  <2>8. h[0] = a
    BY <2>2, <2>5
  <2>9. (n + 1) - 1 = n
    OBVIOUS
  <2>10. h \in Following(S, a, F, n + 1)
    BY <2>4, <2>7, <2>8, <2>9 DEF Following
  <2> QED BY <2>10
<1> HIDE DEF P
<1>3. \A n \in Nat : n \in P
  BY <1>1, <1>2, Induction
<1> QED BY <1>3 DEF P

\* Two of these functions agree.
LEMMA FollowingAgree ==
    ASSUME NEW S, NEW a \in S, NEW F, NEW n \in Nat, NEW m \in Nat,
           NEW g \in Following(S, a, F, n), NEW h \in Following(S, a, F, m)
    PROVE  \A i \in Nat : i =< n /\ i =< m => g[i] = h[i]
<1> DEFINE P == {i \in Nat : i =< n /\ i =< m => g[i] = h[i]}
<1>1. 0 \in P
  BY DEF Following
<1>2. ASSUME NEW i \in Nat, i \in P PROVE i + 1 \in P
  <2>1. SUFFICES ASSUME i + 1 =< n, i + 1 =< m PROVE g[i + 1] = h[i + 1]
    OBVIOUS
  <2>2. i \in 0..(n - 1) /\ i \in 0..(m - 1) /\ g[i] = h[i]
    BY <1>2, <2>1
  <2> QED BY <2>2 DEF Following
<1> HIDE DEF P
<1>3. \A i \in Nat : i \in P
  BY <1>1, <1>2, Induction
<1> QED BY <1>3 DEF P

\* What is defined by recursion over the numbers exists.
Recursively(S, a, F) ==
    {g \in [Nat -> S] : g[0] = a /\ \A n \in Nat : g[n + 1] = F[<<n, g[n]>>]}

LEMMA Recursion ==
    ASSUME NEW S, NEW a \in S, NEW F \in [Nat \X S -> S]
    PROVE  Recursively(S, a, F) # {}
<1> DEFINE Up(n) == CHOOSE g : g \in Following(S, a, F, n)
           G == [n \in Nat |-> Up(n)[n]]
<1>1. \A n \in Nat : Up(n) \in Following(S, a, F, n)
  BY FollowingExist
<1> HIDE DEF Up
<1>2. \A n \in Nat : Up(n)[n] \in S
  <2>1. \A n \in Nat : n \in 0..n
    OBVIOUS
  <2> QED BY <1>1, <2>1 DEF Following
<1>3. G \in [Nat -> S]
  BY <1>2
<1>4. G[0] = a
  BY <1>1 DEF Following
<1>5. ASSUME NEW n \in Nat PROVE G[n + 1] = F[<<n, G[n]>>]
  <2> DEFINE g == Up(n + 1)
  <2>1. g \in Following(S, a, F, n + 1) /\ n \in 0..((n + 1) - 1) /\ n + 1 \in Nat
    BY <1>1
  <2>2. g[n + 1] = F[<<n, g[n]>>]
    BY <2>1 DEF Following
  <2>3. g[n] = Up(n)[n]
    <3>1. n =< n /\ n =< n + 1
      OBVIOUS
    <3> HIDE DEF g
    <3> QED BY <1>1, <2>1, <3>1, FollowingAgree
  <2> QED BY <2>1, <2>2, <2>3
<1> HIDE DEF G
<1>6. G \in Recursively(S, a, F)
  BY <1>3, <1>4, <1>5 DEF Recursively
<1> QED BY <1>6

----------------------------------------------------------------------------
(* Division                                                                *)

LEMMA DivMod ==
    ASSUME NEW v \in Nat, NEW m \in Nat \ {0}
    PROVE  v \div m \in Nat /\ v % m \in 0..(m - 1) /\ v = m * (v \div m) + (v % m)
<1>1. v \div m \in Nat
  OBVIOUS
<1>2. v % m \in 0..(m - 1)
  OBVIOUS
<1>3. v = m * (v \div m) + (v % m)
  OBVIOUS
<1> QED BY <1>1, <1>2, <1>3

\* Quotient and remainder are the only ones.
LEMMA DivIs ==
    ASSUME NEW m \in Nat \ {0}, NEW x \in Nat, NEW y \in 0..(m - 1), NEW v \in Nat, v = m * x + y
    PROVE  v \div m = x /\ v % m = y
  OBVIOUS

\* Dividing twice, and the remainder of that: the lower digit and the next.
LEMMA DivDiv ==
    ASSUME NEW v \in Nat, NEW a \in Nat \ {0}, NEW b \in Nat \ {0}
    PROVE  /\ v \div (a * b) = (v \div a) \div b
           /\ v % (a * b) = (v % a) + ((v \div a) % b) * a
<1> DEFINE q == v \div a
           r == v % a
           q2 == q \div b
           r2 == q % b
           m == a * b
           y == r + r2 * a
<1>1. q \in Nat /\ r \in 0..(a - 1) /\ v = a * q + r
  BY DivMod
<1> HIDE DEF q, r
<1>2. q2 \in Nat /\ r2 \in 0..(b - 1) /\ q = b * q2 + r2
  BY <1>1, DivMod
<1> HIDE DEF q2, r2
<1>3. m \in Nat \ {0}
  OBVIOUS
<1>4. v = m * q2 + y
  <2>1. a * q = a * (b * q2) + a * r2
    BY <1>1, <1>2
  <2>2. a * (b * q2) = (a * b) * q2 /\ a * r2 = r2 * a
    BY <1>2
  <2> QED BY <1>1, <1>2, <2>1, <2>2
<1>5. y \in 0..(m - 1)
  <2>1. r2 * a =< (b - 1) * a /\ r2 * a \in Nat
    BY <1>2
  <2>2. (b - 1) * a = m - a
    OBVIOUS
  <2> QED BY <1>1, <1>3, <2>1, <2>2
<1> HIDE DEF m, y
<1>6. v \div m = q2 /\ v % m = y
  BY <1>1, <1>2, <1>3, <1>4, <1>5, DivIs
<1> QED BY <1>6 DEF q2, r2, q, r, m, y
=============================================================================
