--------------------------- MODULE NumbersProofs ----------------------------
(***************************************************************************)
(* Proofs about the numbers of RwBuffer: what is read is what was written, *)
(* in every format and for bytes, words and buffers of every size.         *)
(***************************************************************************)
EXTENDS RwBufferProofs

LEMMA SmallMod ==
    ASSUME NEW v \in Nat, NEW m \in Nat \ {0}, v < m
    PROVE  v % m = v
<1>1. v = m * 0 + v /\ v \in 0..(m - 1)
  OBVIOUS
<1> QED BY <1>1, DivIs

\* The digits of a number below n to the base b make the number modulo b^n.
LEMMA NextDigit ==
    ASSUME NEW b \in Nat \ {0}, NEW v \in Nat, NEW n \in Nat, n # 0
    PROVE  v % Power(b)[n] =
             (v % Power(b)[n - 1]) + ((v \div Power(b)[n - 1]) % b) * Power(b)[n - 1]
<1> DEFINE a == Power(b)[n - 1]
<1>1. n - 1 \in Nat /\ (n - 1) + 1 = n
  OBVIOUS
<1>2. a \in Nat \ {0} /\ Power(b)[n] = a * b
  BY <1>1, Powers
<1> HIDE DEF a
<1>3. v % (a * b) = (v % a) + ((v \div a) % b) * a
  BY <1>2, DivDiv
<1> QED BY <1>2, <1>3 DEF a

LEMMA NoDigit == ASSUME NEW b \in Nat \ {0}, NEW v \in Nat PROVE v % Power(b)[0] = 0
<1>1. Power(b)[0] = 1
  BY Powers
<1>2. v % 1 = 0
  OBVIOUS
<1> QED BY <1>1, <1>2

----------------------------------------------------------------------------
(* Fixed width                                                             *)

LEMMA FixedFacts ==
    ASSUME NEW v \in Nat, NEW k \in Nat
    PROVE  /\ Len(write_le(v, k)) = k
           /\ \A n \in 1..k : write_le(v, k)[n] = (v \div Power(BYTE)[n - 1]) % BYTE
<1> DEFINE x(i) == (v \div Power(BYTE)[i - 1]) % BYTE
<1>1. write_le(v, k) = [i \in 1..k |-> x(i)]
  BY DEF write_le
<1> HIDE DEF x
<1>2. Len([i \in 1..k |-> x(i)]) = k
  OBVIOUS
<1>3. \A n \in 1..k : write_le(v, k)[n] = x(n)
  BY <1>1
<1> QED BY <1>1, <1>2, <1>3 DEF x

LEMMA FixedReadBack ==
    ASSUME NEW v \in Nat, NEW k \in Nat, v < Power(BYTE)[k]
    PROVE  read_le(write_le(v, k)) = v
<1> DEFINE p == Power(BYTE)
           s == write_le(v, k)
           Sum(f) == [n \in 0..Len(s) |-> IF n = 0 THEN 0 ELSE f[n - 1] + s[n] * p[n - 1]]
           h == [n \in 0..k |-> v % p[n]]
           f == CHOOSE g : g = Sum(g)
<1>1. BYTE \in Nat \ {0}
  BY Sizes
<1>2. Len(s) = k /\ \A n \in 1..k : s[n] = (v \div p[n - 1]) % BYTE
  BY FixedFacts
<1>3. read_le(s) = f[Len(s)]
  BY DEF read_le
<1>4. v % p[0] = 0 /\ \A n \in 1..k : v % p[n] = (v % p[n - 1]) + s[n] * p[n - 1]
  <2>1. \A n \in 1..k : n \in Nat /\ n # 0
    OBVIOUS
  <2> HIDE DEF s
  <2> QED BY <1>1, <1>2, <2>1, NextDigit, NoDigit
<1>5. v % p[k] = v
  BY <1>1, Powers, SmallMod
<1> HIDE DEF p, s
<1>6. h = Sum(h)
  <2>1. \A n \in 0..k : v % p[n] = IF n = 0 THEN 0 ELSE h[n - 1] + s[n] * p[n - 1]
    <3>1. SUFFICES ASSUME NEW n \in 0..k, n # 0
                   PROVE  v % p[n] = h[n - 1] + s[n] * p[n - 1]
      BY <1>4
    <3>2. n \in 1..k /\ n - 1 \in 0..k
      BY <3>1
    <3>3. h[n - 1] = v % p[n - 1]
      BY <3>2
    <3> QED BY <1>4, <3>2, <3>3
  <2> QED BY <1>2, <2>1
<1>7. f = Sum(f)
  BY <1>6
<1> HIDE DEF f
<1>8. f[0] = 0 /\ \A n \in 1..k : f[n] = f[n - 1] + s[n] * p[n - 1]
  <2>1. \A n \in 0..k : f[n] = IF n = 0 THEN 0 ELSE f[n - 1] + s[n] * p[n - 1]
    BY <1>2, <1>7
  <2>2. 0 \in 0..k /\ \A n \in 1..k : n \in 0..k /\ n # 0
    OBVIOUS
  <2> QED BY <2>1, <2>2
<1> DEFINE P == {n \in Nat : n =< k => f[n] = v % p[n]}
<1>9. 0 \in P
  BY <1>4, <1>8
<1>10. ASSUME NEW n \in Nat, n \in P PROVE n + 1 \in P
  <2>1. SUFFICES ASSUME n + 1 =< k PROVE f[n + 1] = v % p[n + 1]
    OBVIOUS
  <2>2. n + 1 \in 1..k /\ (n + 1) - 1 = n /\ f[n] = v % p[n]
    BY <1>10, <2>1
  <2> QED BY <1>4, <1>8, <2>2
<1> HIDE DEF P
<1>11. \A n \in Nat : n \in P
  BY <1>9, <1>10, Induction
<1>12. f[k] = v % p[k]
  BY <1>11 DEF P
<1> QED BY <1>2, <1>3, <1>5, <1>12 DEF s

LEMMA ReverseTwice ==
    ASSUME NEW s \in Bytes
    PROVE  Reverse(Reverse(s)) = s
<1> DEFINE r == Reverse(s)
           t == Reverse(r)
           n == Len(s)
<1>1. r \in Bytes /\ Len(r) = n /\ \A i \in 1..n : r[i] = s[n - i + 1]
  BY ReverseFacts
<1>2. n \in Nat
  BY DEF Bytes
<1> HIDE DEF r, n
<1>3. t \in Bytes /\ Len(t) = n /\ \A i \in 1..n : t[i] = r[n - i + 1]
  BY <1>1, ReverseFacts
<1>4. ASSUME NEW i \in 1..n PROVE t[i] = s[i]
  <2>1. n - i + 1 \in 1..n /\ n - (n - i + 1) + 1 = i
    BY <1>2
  <2> QED BY <1>1, <1>3, <2>1
<1> HIDE DEF t
<1>5. t = s
  BY <1>3, <1>4, EqualBytes DEF n
<1> QED BY <1>5 DEF t, r

----------------------------------------------------------------------------
(* Variable length                                                         *)

\* A number has the digits that gve_put_u64 puts, and no more than it needs.
Digits(v) ==
    LET s == gve_put_u64[v] IN
    /\ v < Power(GROUP)[Len(s)]
    /\ \A i \in 1..Len(s) : s[i] % GROUP = (v \div Power(GROUP)[i - 1]) % GROUP
    /\ \A n \in Nat \ {0} : v < Power(GROUP)[n] => Len(s) =< n

LEMMA LastDigit ==
    ASSUME NEW v \in Nat, v < GROUP
    PROVE  Digits(v)
<1> DEFINE s == gve_put_u64[v]
           p == Power(GROUP)
<1>1. s = <<v>>
  <2>1. gve_put_u64[v] = Put(gve_put_u64, v)
    <3> HIDE DEF gve_put_u64
    <3> QED BY GvePut
  <2> QED BY <2>1 DEF Put
<1>2. GROUP \in Nat \ {0}
  BY Sizes
<1>3. p[0] = 1 /\ p[1] = GROUP
  <2>1. p[0] = 1 /\ p[0 + 1] = p[0] * GROUP
    BY <1>2, Powers
  <2> QED BY <1>2, <2>1
<1> HIDE DEF s, p
<1>4. Len(s) = 1 /\ s[1] = v
  BY <1>1
<1>5. v \div p[1 - 1] = v
  BY <1>3
<1>6. \A i \in 1..1 : i = 1
  OBVIOUS
<1>7. \A i \in 1..Len(s) : s[i] % GROUP = (v \div p[i - 1]) % GROUP
  BY <1>4, <1>5, <1>6
<1> QED BY <1>3, <1>4, <1>7 DEF Digits, s, p

\* A number's bound, from the bound of its higher groups, and the other way.
LEMMA HigherBound ==
    ASSUME NEW v \in Nat, NEW g \in Nat \ {0}, NEW p \in Nat \ {0}
    PROVE  v < p * g <=> v \div g < p
<1> DEFINE u == v \div g
           r == v % g
<1>1. u \in Nat /\ r \in 0..(g - 1) /\ v = g * u + r
  BY DivMod
<1> HIDE DEF u, r
<1>2. CASE u < p
  <2>1. u + 1 =< p
    BY <1>1, <1>2
  <2>2. g * (u + 1) =< g * p /\ g * (u + 1) = g * u + g /\ g * p = p * g
    BY <1>1, <2>1
  <2> QED BY <1>1, <1>2, <2>2 DEF u
<1>3. CASE ~(u < p)
  <2>1. g * p =< g * u /\ g * p = p * g
    BY <1>1, <1>3
  <2> QED BY <1>1, <1>3, <2>1 DEF u
<1> QED BY <1>2, <1>3

LEMMA DigitsRound ==
    ASSUME NEW v \in Nat, ~(v < GROUP), Digits(v \div GROUP)
    PROVE  Digits(v)
<1> DEFINE u == v \div GROUP
           b == GROUP + (v % GROUP)
           s == gve_put_u64[u]
           t == gve_put_u64[v]
           k == Len(s)
           p == Power(GROUP)
<1>1. /\ GROUP \in Nat \ {0} /\ u \in Nat /\ b \in Byte /\ s \in Seq(Byte) /\ k \in Nat
      /\ b % GROUP = v % GROUP
  <2>1. GROUP \in Nat \ {0}
    BY Sizes
  <2>2. u \in Nat /\ b \in Byte
    BY GroupFacts
  <2>3. s \in Seq(Byte) /\ k \in Nat
    BY <2>2, GvePut DEF Bytes
  <2>4. b % GROUP = v % GROUP
    <3> DEFINE r == v % GROUP
    <3>1. r \in 0..(GROUP - 1)
      BY <2>1
    <3> HIDE DEF r
    <3>2. (GROUP + r) % GROUP = r
      <4>1. GROUP + r = GROUP * 1 + r
        BY <2>1, <3>1
      <4> QED BY <2>1, <3>1, <4>1, DivIs
    <3> QED BY <3>2 DEF r
  <2> QED BY <2>1, <2>2, <2>3, <2>4
<1>2. t = <<b>> \o s
  <2>1. gve_put_u64[v] = Put(gve_put_u64, v)
    <3> HIDE DEF gve_put_u64
    <3> QED BY GvePut
  <2> QED BY <2>1 DEF Put
<1>3. /\ u < p[k] /\ \A i \in 1..k : s[i] % GROUP = (u \div p[i - 1]) % GROUP
      /\ \A n \in Nat \ {0} : u < p[n] => k =< n
  <2>1. Digits(u)
    OBVIOUS
  <2> HIDE DEF u
  <2> QED BY <2>1 DEF Digits
<1>4. /\ \A n \in Nat : p[n] \in Nat \ {0} /\ p[n + 1] = p[n] * GROUP
      /\ p[0] = 1
  BY <1>1, Powers
<1>5. \A n \in Nat : v < p[n + 1] <=> u < p[n]
  BY <1>1, <1>4, HigherBound
<1>6. \A n \in Nat : u \div p[n] = v \div p[n + 1]
  <2>1. ASSUME NEW n \in Nat PROVE u \div p[n] = v \div p[n + 1]
    <3>1. (v \div GROUP) \div p[n] = v \div (GROUP * p[n]) /\ GROUP * p[n] = p[n] * GROUP
      <4>1. p[n] \in Nat \ {0}
        BY <1>4
      <4> HIDE DEF p
      <4>2. (v \div GROUP) \div p[n] = v \div (GROUP * p[n])
        BY <1>1, <4>1, DivDiv
      <4>3. GROUP * p[n] = p[n] * GROUP
        BY <1>1, <4>1
      <4> QED BY <4>2, <4>3
    <3> QED BY <1>4, <3>1
  <2> QED BY <2>1
<1> HIDE DEF b, s, t, p
<1>7. Len(t) = k + 1 /\ t[1] = b /\ \A i \in 2..(k + 1) : t[i] = s[i - 1]
  BY <1>1, <1>2, ConcatProperties
<1>8. ASSUME NEW i \in 1..(k + 1) PROVE t[i] % GROUP = (v \div p[i - 1]) % GROUP
  <2>1. CASE i = 1
    <3>1. p[1 - 1] = 1 /\ v \div 1 = v
      <4>1. 1 - 1 = 0 /\ v \div 1 = v
        OBVIOUS
      <4> QED BY <1>4, <4>1
    <3>2. v \div p[1 - 1] = v
      BY <3>1
    <3> QED BY <1>1, <1>7, <2>1, <3>2
  <2>2. CASE i # 1
    <3>1. i \in 2..(k + 1) /\ i - 1 \in 1..k /\ (i - 1) - 1 \in Nat /\ ((i - 1) - 1) + 1 = i - 1
      BY <1>1, <2>2
    <3>2. t[i] = s[i - 1] /\ s[i - 1] % GROUP = (u \div p[(i - 1) - 1]) % GROUP
      BY <1>3, <1>7, <3>1
    <3>3. u \div p[(i - 1) - 1] = v \div p[i - 1]
      BY <1>6, <3>1
    <3> QED BY <3>2, <3>3
  <2> QED BY <2>1, <2>2
<1>9. ASSUME NEW n \in Nat \ {0}, v < p[n] PROVE k + 1 =< n
  <2>1. n - 1 \in Nat /\ (n - 1) + 1 = n
    OBVIOUS
  <2>2. u < p[n - 1]
    BY <1>5, <1>9, <2>1
  <2>3. u # 0 /\ n - 1 # 0
    <3>1. u # 0
      <4>1. GROUP =< v /\ p[1] = GROUP
        <5>1. p[0 + 1] = p[0] * GROUP /\ p[0] = 1
          BY <1>4
        <5> QED BY <1>1, <5>1
      <4>2. ~(u < p[0])
        <5>1. ~(v < p[0 + 1])
          BY <1>1, <4>1
        <5> QED BY <1>5, <5>1
      <4> QED BY <1>4, <4>2
    <3>2. ~(u < p[0])
      <4>1. ~(u < 1)
        BY <1>1, <3>1
      <4> QED BY <1>4, <4>1
    <3> QED BY <2>2, <3>1, <3>2
  <2> QED BY <1>1, <1>3, <2>1, <2>2, <2>3
<1>10. v < p[k + 1]
  BY <1>1, <1>3, <1>5
<1> QED BY <1>7, <1>8, <1>9, <1>10 DEF Digits, t, p

LEMMA AllDigits == \A v \in Nat : Digits(v)
<1> DEFINE bad == {x \in Nat : ~Digits(x)}
<1>1. SUFFICES ASSUME NEW v \in bad PROVE FALSE
  OBVIOUS
<1>2. PICK x \in bad : \A y \in bad : x =< y
  <2>1. bad \in SUBSET Nat /\ bad # {}
    BY <1>1
  <2> HIDE DEF bad
  <2> QED BY <2>1, Least
<1>3. x \in Nat /\ ~Digits(x)
  OBVIOUS
<1>4. ~(x < GROUP) => Digits(x \div GROUP)
  <2>1. ~(x < GROUP) => x \div GROUP \in Nat /\ ~(x =< x \div GROUP)
    BY <1>3, GroupFacts
  <2> QED BY <1>2, <2>1
<1> QED BY <1>3, <1>4, LastDigit, DigitsRound

\* What gve_get_u64 adds up over the first n bytes of w.
Adds(f, w, n) ==
    [i \in 0..n |-> IF i = 0 THEN 0
                    ELSE (f[i - 1] + (w[i] % GROUP) * Power(GROUP)[i - 1]) % WORD]
Added(w, n) == CHOOSE f : f = Adds(f, w, n)

LEMMA GveValue ==
    ASSUME NEW w
    PROVE  gve_get_u64(w).val = Added(w, gve_get_u64(w).used)[gve_get_u64(w).used]
<1> DEFINE ends == {i \in 1..Len(w) : w[i] < GROUP \/ i = MaxGroups}
           used == IF ends = {} THEN Len(w) ELSE CHOOSE i \in ends : \A j \in ends : i =< j
<1>1. gve_get_u64(w) = [ok |-> ends # {}, used |-> used, val |-> Added(w, used)[used]]
  BY DEF gve_get_u64, Added, Adds
<1> HIDE DEF used, ends
<1> QED BY <1>1

\* Over the digits of a number it adds up to the number.
LEMMA AddedDigits ==
    ASSUME NEW v \in Nat, v < WORD, NEW n \in Nat, v < Power(GROUP)[n], NEW w,
           \A i \in 1..n : w[i] % GROUP = (v \div Power(GROUP)[i - 1]) % GROUP
    PROVE  Added(w, n)[n] = v
<1> DEFINE p == Power(GROUP)
           h == [i \in 0..n |-> v % p[i]]
           f == Added(w, n)
<1>1. GROUP \in Nat \ {0} /\ WORD \in Nat \ {0}
  BY Sizes
<1>2. v % p[n] = v
  BY <1>1, Powers, SmallMod
<1>3. /\ v % p[0] = 0
      /\ \A i \in 1..n : v % p[i] = ((v % p[i - 1]) + (w[i] % GROUP) * p[i - 1]) % WORD
  <2>1. v % p[0] = 0
    BY <1>1, NoDigit
  <2>2. ASSUME NEW i \in 1..n
        PROVE  v % p[i] = ((v % p[i - 1]) + (w[i] % GROUP) * p[i - 1]) % WORD
    <3>1. i \in Nat /\ i # 0
      OBVIOUS
    <3>2. v % p[i] = (v % p[i - 1]) + (w[i] % GROUP) * p[i - 1]
      BY <1>1, <3>1, NextDigit
    <3>3. (v % p[i]) % WORD = v % p[i]
      <4> DEFINE m == p[i]
      <4>1. m \in Nat \ {0}
        BY <1>1, Powers
      <4> HIDE DEF m
      <4>2. v % m \in Nat /\ v % m =< v
        BY <4>1
      <4>3. v % m < WORD
        BY <1>1, <4>2
      <4> QED BY <1>1, <4>2, <4>3, SmallMod DEF m
    <3> QED BY <3>2, <3>3
  <2> QED BY <2>1, <2>2
<1> HIDE DEF p
<1>4. h = Adds(h, w, n)
  <2>1. \A i \in 0..n : v % p[i] = IF i = 0 THEN 0
                                   ELSE (h[i - 1] + (w[i] % GROUP) * p[i - 1]) % WORD
    <3>1. SUFFICES ASSUME NEW i \in 0..n, i # 0
                   PROVE  v % p[i] = (h[i - 1] + (w[i] % GROUP) * p[i - 1]) % WORD
      BY <1>3
    <3>2. i \in 1..n /\ i - 1 \in 0..n
      BY <3>1
    <3>3. h[i - 1] = v % p[i - 1]
      BY <3>2
    <3> QED BY <1>3, <3>2, <3>3
  <2> QED BY <2>1 DEF Adds, p
<1> HIDE DEF h
<1>5. f = Adds(f, w, n)
  BY <1>4 DEF Added
<1> HIDE DEF f
<1>6. f[0] = 0 /\ \A i \in 1..n : f[i] = (f[i - 1] + (w[i] % GROUP) * p[i - 1]) % WORD
  <2>1. \A i \in 0..n : f[i] = IF i = 0 THEN 0
                               ELSE (f[i - 1] + (w[i] % GROUP) * p[i - 1]) % WORD
    BY <1>5 DEF Adds, p
  <2>2. 0 \in 0..n /\ \A i \in 1..n : i \in 0..n /\ i # 0
    OBVIOUS
  <2> QED BY <2>1, <2>2
<1> DEFINE P == {i \in Nat : i =< n => f[i] = v % p[i]}
<1>7. 0 \in P
  BY <1>3, <1>6
<1>8. ASSUME NEW i \in Nat, i \in P PROVE i + 1 \in P
  <2>1. SUFFICES ASSUME i + 1 =< n PROVE f[i + 1] = v % p[i + 1]
    OBVIOUS
  <2>2. i + 1 \in 1..n /\ (i + 1) - 1 = i /\ f[i] = v % p[i]
    BY <1>8, <2>1
  <2> QED BY <1>3, <1>6, <2>2
<1> HIDE DEF P
<1>9. \A i \in Nat : i \in P
  BY <1>7, <1>8, Induction
<1>10. f[n] = v % p[n]
  BY <1>9 DEF P
<1> QED BY <1>2, <1>10 DEF f

\* gve_get_u64 gives back every number of a word that gve_put_u64 has put,
\* whatever follows it in the buffer, and consumes no byte more.
THEOREM GveReadBack ==
    ASSUME NEW v \in Nat, v < WORD, NEW t \in Seq(Byte)
    PROVE  /\ gve_get_u64(gve_put_u64[v] \o t).ok
           /\ gve_get_u64(gve_put_u64[v] \o t).used = Len(gve_put_u64[v])
           /\ gve_get_u64(gve_put_u64[v] \o t).val = v
<1> DEFINE s == gve_put_u64[v]
           n == Len(s)
           w == s \o t
<1>1. s \in Seq(Byte) /\ n \in Nat
  BY GvePut DEF Bytes
<1>2. /\ v < Power(GROUP)[n]
      /\ \A i \in 1..n : s[i] % GROUP = (v \div Power(GROUP)[i - 1]) % GROUP
      /\ \A k \in Nat \ {0} : v < Power(GROUP)[k] => n =< k
  <2>1. Digits(v)
    BY AllDigits
  <2> QED BY <2>1 DEF Digits
<1>3. n =< Rounds
  <2>1. Rounds \in Nat \ {0} /\ WORD \in Nat /\ WORD =< Power(GROUP)[Rounds]
    BY RwBufferAssumption
  <2>2. Power(GROUP)[Rounds] \in Nat
    BY <2>1, Sizes, Powers
  <2>3. v < Power(GROUP)[Rounds]
    BY <2>1, <2>2
  <2> QED BY <1>2, <2>1, <2>3
<1>4. gve_get_u64(w).ok /\ gve_get_u64(w).used = n
  BY <1>3, GveTakesWhatWasPut
<1> HIDE DEF s
<1>5. \A i \in 1..n : w[i] = s[i]
  <2>1. \A i \in 1..n : i \in 1..(n + Len(t)) /\ i =< n
    BY <1>1
  <2> QED BY <1>1, <2>1, ConcatProperties
<1> HIDE DEF w, n
<1>6. \A i \in 1..n : w[i] % GROUP = (v \div Power(GROUP)[i - 1]) % GROUP
  BY <1>2, <1>5
<1>7. Added(w, n)[n] = v
  BY <1>1, <1>2, <1>6, AddedDigits
<1>8. gve_get_u64(w).val = v
  BY <1>4, <1>7, GveValue
<1> QED BY <1>4, <1>8 DEF w, n, s

\* zigzag maps the signed numbers to those of a word, and back.
LEMMA ZigzagReadBack ==
    ASSUME NEW n \in 0..(WORD - 1)
    PROVE  /\ zigzag_encode(Signed(n)) \in Nat /\ zigzag_encode(Signed(n)) < WORD
           /\ zigzag_decode(zigzag_encode(Signed(n))) = Signed(n)
<1>1. n \in Nat /\ WORD \in Nat /\ n < WORD
  BY Sizes
<1>2. CASE 2 * n < WORD
  <2>1. Signed(n) = n /\ zigzag_encode(n) = 2 * n
    BY <1>1, <1>2 DEF Signed, zigzag_encode
  <2>2. (2 * n) % 2 = 0 /\ (2 * n) \div 2 = n
    BY <1>1
  <2> QED BY <1>1, <1>2, <2>1, <2>2 DEF zigzag_decode
<1>3. CASE ~(2 * n < WORD)
  <2> DEFINE m == WORD - n
             u == 2 * m - 1
  <2>1. m \in Nat \ {0} /\ u \in Nat /\ u < WORD /\ Signed(n) = -m
    BY <1>1, <1>3 DEF Signed
  <2>2. zigzag_encode(-m) = u
    <3> HIDE DEF m
    <3>1. ~(-m >= 0) /\ -2 * (-m) - 1 = 2 * m - 1
      BY <2>1
    <3> QED BY <3>1 DEF zigzag_encode
  <2> HIDE DEF m
  <2>3. u % 2 # 0 /\ (u + 1) \div 2 = m
    BY <2>1
  <2>4. zigzag_decode(u) = -m
    BY <2>3 DEF zigzag_decode
  <2> QED BY <2>1, <2>2, <2>4
<1> QED BY <1>2, <1>3

----------------------------------------------------------------------------
(* Reading what was written                                                *)

\* The numbers that are written, and the bytes of one.
Items == UNION {{<<f, v>> : v \in Values(f)} : f \in Formats}
BytesOf(x) == Encode(x[1], x[2])

LEMMA ItemFacts ==
    ASSUME NEW x \in Items
    PROVE  x[1] \in Formats /\ x[2] \in Values(x[1]) /\ BytesOf(x) \in Bytes
<1>1. PICK f \in Formats : \E v \in Values(f) : x = <<f, v>>
  BY DEF Items
<1>2. PICK v \in Values(f) : x = <<f, v>>
  BY <1>1
<1>3. x[1] = f /\ x[2] = v
  BY <1>2
<1> QED BY <1>3, EncodeType DEF BytesOf

LEMMA FixedDecode ==
    ASSUME TypeOK, NEW f \in Formats, NEW v \in Values(f), f[1] \in {"be", "le"},
           NEW n \in Nat, n = Len(Encode(f, v)), offset + n =< wpos, At(n) = Encode(f, v)
    PROVE  Decode(f).ok /\ Decode(f).used = n /\ Decode(f).val = v
<1> DEFINE k == f[2]
           s == write_le(v, k)
           r == IF f[1] = "be" THEN Reverse(At(k)) ELSE At(k)
<1>1. k \in Nat
  BY RwBufferAssumption DEF Formats
<1>2. v \in Nat /\ v < Power(BYTE)[k]
  <2>1. Numbers \subseteq Nat
    BY RwBufferAssumption
  <2>2. v \in {x \in Numbers : x < Power(BYTE)[f[2]]}
    BY DEF Values
  <2> QED BY <2>1, <2>2
<1> HIDE DEF k
<1>3. s \in Bytes /\ Len(s) = k /\ Len(Reverse(s)) = k /\ Reverse(Reverse(s)) = s
  BY <1>1, <1>2, FixedType, FixedFacts, ReverseFacts, ReverseTwice
<1>4. read_le(s) = v
  BY <1>1, <1>2, FixedReadBack
<1> HIDE DEF s
<1>5. Encode(f, v) = IF f[1] = "be" THEN Reverse(s) ELSE s
  <2>1. CASE f[1] = "be"
    BY <2>1 DEF Encode, s, k
  <2>2. CASE f[1] = "le"
    BY <2>2 DEF Encode, s, k
  <2> QED BY <2>1, <2>2
<1>6. n = k
  BY <1>3, <1>5
<1>7. r = s
  <2>1. CASE f[1] = "be"
    BY <1>3, <1>5, <1>6, <2>1
  <2>2. CASE f[1] = "le"
    BY <1>5, <1>6, <2>2
  <2> QED BY <2>1, <2>2
<1>8. buffer_can_read(k)
  BY <1>6, Lengths DEF buffer_can_read
<1>9. Decode(f) = [ok |-> TRUE, used |-> k, val |-> read_le(r)]
  <2>1. CASE f[1] = "be"
    BY <1>8, <2>1 DEF Decode, k
  <2>2. CASE f[1] = "le"
    BY <1>8, <2>2 DEF Decode, k
  <2> QED BY <2>1, <2>2
<1> HIDE DEF r
<1> QED BY <1>4, <1>6, <1>7, <1>9

LEMMA DataSplits ==
    ASSUME TypeOK, NEW n \in Nat, offset + n =< wpos
    PROVE  \E t \in Seq(Byte) : At(buffer_data_len) = At(n) \o t
<1> DEFINE k == wpos - offset
           t == Window(mem, offset + n, k - n)
<1>1. k \in Nat /\ n =< k /\ offset + k =< Size /\ offset \in Nat /\ mem \in Memory
  BY Lengths
<1>2. At(buffer_data_len) = Window(mem, offset, k) /\ At(n) = Window(mem, offset, n)
  BY Lengths DEF At, Window
<1>3. t \in Seq(Byte)
  <2>1. offset + n \in Nat /\ k - n \in Nat /\ (offset + n) + (k - n) =< Size
    BY <1>1, Sizes
  <2> QED BY <1>1, <2>1, WindowFacts DEF Bytes
<1> HIDE DEF k
<1>4. Window(mem, offset, k) = Window(mem, offset, n) \o t
  BY <1>1, WindowSplits
<1> HIDE DEF t
<1> QED BY <1>2, <1>3, <1>4

LEMMA GveDecode ==
    ASSUME TypeOK, NEW u \in Nat, u < WORD,
           NEW n \in Nat, n = Len(gve_put_u64[u]), offset + n =< wpos, At(n) = gve_put_u64[u]
    PROVE  LET g == gve_get_u64(At(buffer_data_len))
           IN  g.ok /\ g.used = n /\ g.val = u
<1>1. PICK t \in Seq(Byte) : At(buffer_data_len) = At(n) \o t
  BY DataSplits
<1>2. At(buffer_data_len) = gve_put_u64[u] \o t
  BY <1>1
<1> QED BY <1>2, GveReadBack

\* The number at the read position is read as it was written.
LEMMA DecodeEncode ==
    ASSUME TypeOK, NEW f \in Formats, NEW v \in Values(f),
           NEW n \in Nat, n = Len(Encode(f, v)), offset + n =< wpos, At(n) = Encode(f, v)
    PROVE  Decode(f).ok /\ Decode(f).used = n /\ Decode(f).val = v
<1> DEFINE g == gve_get_u64(At(buffer_data_len))
<1>1. Numbers \subseteq Nat /\ Numbers \subseteq 0..(WORD - 1) /\ WORD \in Nat /\ NARROW \in 1..WORD
  BY RwBufferAssumption
<1>2. CASE f[1] \in {"be", "le"}
  BY <1>2, FixedDecode
<1>3. CASE f[1] = "gve"
  <2>1. v \in Nat /\ v < f[2] /\ v < WORD /\ Encode(f, v) = gve_put_u64[v]
    <3>1. v \in {x \in Numbers : x < f[2]}
      BY <1>3 DEF Values
    <3>2. Encode(f, v) = gve_put_u64[v]
      BY <1>3 DEF Encode
    <3> QED BY <1>1, <3>1, <3>2
  <2>2. g.ok /\ g.used = n /\ g.val = v
    BY <2>1, GveDecode
  <2>3. Decode(f) = [g EXCEPT !.ok = @ /\ g.val < f[2]]
    BY <1>3 DEF Decode
  <2>4. \E a, b, c : g = [ok |-> a, used |-> b, val |-> c]
    BY DEF gve_get_u64
  <2> HIDE DEF g
  <2> QED BY <2>1, <2>2, <2>3, <2>4
<1>4. CASE f[1] = "zigzag"
  <2>1. PICK x \in Numbers : v = Signed(x)
    BY <1>4 DEF Values
  <2> DEFINE u == zigzag_encode(v)
  <2>2. u \in Nat /\ u < WORD /\ zigzag_decode(u) = v
    BY <1>1, <2>1, ZigzagReadBack
  <2>3. Encode(f, v) = gve_put_u64[u]
    BY <1>4 DEF Encode
  <2> HIDE DEF u
  <2>4. g.ok /\ g.used = n /\ g.val = u
    BY <2>2, <2>3, GveDecode
  <2>5. Decode(f) = [g EXCEPT !.val = zigzag_decode(@)]
    BY <1>4 DEF Decode
  <2>6. \E a, b, c : g = [ok |-> a, used |-> b, val |-> c]
    BY DEF gve_get_u64
  <2> HIDE DEF g
  <2> QED BY <2>2, <2>4, <2>5, <2>6
<1>5. f[1] \in {"be", "le", "gve", "zigzag"}
  BY DEF Formats
<1> QED BY <1>2, <1>3, <1>4, <1>5

----------------------------------------------------------------------------
(* What lies in the memory                                                 *)

\* The points that cut the bytes from o to w of memory m into the numbers x.
Cuts(m, o, w, x) ==
    {c \in [0..Len(x) -> 0..w] :
        /\ c[0] = o /\ c[Len(x)] = w
        /\ \A i \in 1..Len(x) : /\ c[i] = c[i - 1] + Len(BytesOf(x[i]))
                                /\ Window(m, c[i - 1], Len(BytesOf(x[i]))) = BytesOf(x[i])}

Laid(m, o, w, x) == x \in Seq(Items) /\ \E c : c \in Cuts(m, o, w, x)

LEMMA ItemsFacts ==
    ASSUME NEW x \in Seq(Items), NEW i \in 1..Len(x)
    PROVE  x[i] \in Items /\ BytesOf(x[i]) \in Bytes /\ Len(BytesOf(x[i])) \in Nat
<1>1. x[i] \in Items
  OBVIOUS
<1>2. BytesOf(x[i]) \in Bytes
  BY <1>1, ItemFacts
<1>3. Len(BytesOf(x[i])) \in Nat
  BY <1>2 DEF Bytes
<1> QED BY <1>1, <1>2, <1>3

\* No number, no bytes.
LEMMA LaidNone == ASSUME NEW m, NEW o \in Nat PROVE Laid(m, o, o, <<>>)
<1> DEFINE c == [i \in 0..0 |-> o]
<1>1. Len(<<>>) = 0 /\ <<>> \in Seq(Items)
  OBVIOUS
<1>2. c \in [0..0 -> 0..o] /\ c[0] = o
  OBVIOUS
<1>3. \A i \in 1..0 : FALSE
  OBVIOUS
<1> HIDE DEF c
<1>4. c \in Cuts(m, o, o, <<>>)
  BY <1>1, <1>2, <1>3 DEF Cuts
<1> QED BY <1>1, <1>4 DEF Laid

LEMMA LaidEmpty == ASSUME NEW m, NEW o, NEW w \in Nat, Laid(m, o, w, <<>>) PROVE o = w
<1>1. PICK c : c \in Cuts(m, o, w, <<>>)
  BY DEF Laid
<1> QED BY <1>1 DEF Cuts

LEMMA LaidHead ==
    ASSUME NEW m, NEW o \in Nat, NEW w \in Nat, NEW x, x # <<>>, Laid(m, o, w, x)
    PROVE  /\ Head(x) \in Items
           /\ Len(BytesOf(Head(x))) \in Nat /\ o + Len(BytesOf(Head(x))) =< w
           /\ Window(m, o, Len(BytesOf(Head(x)))) = BytesOf(Head(x))
<1>1. PICK c : c \in Cuts(m, o, w, x)
  BY DEF Laid
<1>2. x \in Seq(Items) /\ Head(x) = x[1] /\ 1 \in 1..Len(x) /\ 1 - 1 = 0
  BY DEF Laid
<1>3. /\ c[0] = o /\ c[1] = c[1 - 1] + Len(BytesOf(x[1])) /\ c[1] \in 0..w
      /\ Window(m, c[1 - 1], Len(BytesOf(x[1]))) = BytesOf(x[1])
  <2>1. /\ c \in [0..Len(x) -> 0..w] /\ c[0] = o
        /\ \A i \in 1..Len(x) : /\ c[i] = c[i - 1] + Len(BytesOf(x[i]))
                                /\ Window(m, c[i - 1], Len(BytesOf(x[i]))) = BytesOf(x[i])
    BY <1>1 DEF Cuts
  <2>2. 1 \in 0..Len(x)
    BY <1>2
  <2> QED BY <1>2, <2>1, <2>2
<1>4. x[1] \in Items /\ Len(BytesOf(x[1])) \in Nat
  BY <1>2, ItemsFacts
<1>5. o + Len(BytesOf(x[1])) =< w
  BY <1>2, <1>3, <1>4
<1> QED BY <1>2, <1>3, <1>4, <1>5

LEMMA LaidTail ==
    ASSUME NEW m, NEW o \in Nat, NEW w \in Nat, NEW x, x # <<>>, Laid(m, o, w, x)
    PROVE  Laid(m, o + Len(BytesOf(Head(x))), w, Tail(x))
<1>1. PICK c : c \in Cuts(m, o, w, x)
  BY DEF Laid
<1> DEFINE n == Len(x)
           y == Tail(x)
           d == [i \in 0..(n - 1) |-> c[i + 1]]
<1>2. /\ x \in Seq(Items) /\ Head(x) = x[1] /\ n \in Nat /\ n # 0
      /\ y \in Seq(Items) /\ Len(y) = n - 1 /\ \A i \in 1..(n - 1) : y[i] = x[i + 1]
  BY DEF Laid
<1>3. /\ c \in [0..n -> 0..w] /\ c[0] = o /\ c[n] = w
      /\ \A i \in 1..n : /\ c[i] = c[i - 1] + Len(BytesOf(x[i]))
                         /\ Window(m, c[i - 1], Len(BytesOf(x[i]))) = BytesOf(x[i])
  BY <1>1 DEF Cuts
<1> HIDE DEF n, y
<1>4. \A i \in 0..(n - 1) : i + 1 \in 0..n
  BY <1>2
<1>5. d \in [0..(n - 1) -> 0..w] /\ \A i \in 0..(n - 1) : d[i] = c[i + 1]
  BY <1>3, <1>4
<1> HIDE DEF d
<1>6. d[0] = o + Len(BytesOf(Head(x))) /\ d[n - 1] = w
  <2>1. 0 \in 0..(n - 1) /\ n - 1 \in 0..(n - 1) /\ (n - 1) + 1 = n /\ 1 \in 1..n
        /\ 0 + 1 = 1 /\ 1 - 1 = 0
    BY <1>2
  <2> QED BY <1>2, <1>3, <1>5, <2>1
<1>7. ASSUME NEW i \in 1..(n - 1)
      PROVE  /\ d[i] = d[i - 1] + Len(BytesOf(y[i]))
             /\ Window(m, d[i - 1], Len(BytesOf(y[i]))) = BytesOf(y[i])
  <2>1. i \in 0..(n - 1) /\ i - 1 \in 0..(n - 1) /\ (i - 1) + 1 = i /\ i + 1 \in 1..n
        /\ (i + 1) - 1 = i
    BY <1>2
  <2>2. y[i] = x[i + 1] /\ d[i] = c[i + 1] /\ d[i - 1] = c[i]
    BY <1>2, <1>5, <2>1
  <2> QED BY <1>3, <2>1, <2>2
<1>8. d \in Cuts(m, o + Len(BytesOf(Head(x))), w, y)
  BY <1>2, <1>5, <1>6, <1>7 DEF Cuts
<1> QED BY <1>2, <1>8 DEF Laid, y

\* Bytes that are the same in two memories are the same window.
Same(m2, b, m, a, k) == \A i \in 0..(k - 1) : m2[b + i] = m[a + i]

LEMMA SameWindow ==
    ASSUME NEW m, NEW m2, NEW a \in Nat, NEW b \in Nat, NEW k \in Nat, Same(m2, b, m, a, k)
    PROVE  Window(m2, b, k) = Window(m, a, k)
<1>1. ASSUME NEW i \in 1..k PROVE m2[b + i - 1] = m[a + i - 1]
  <2>1. i - 1 \in 0..(k - 1) /\ b + (i - 1) = b + i - 1 /\ a + (i - 1) = a + i - 1
    OBVIOUS
  <2> QED BY <2>1 DEF Same
<1> QED BY <1>1 DEF Window

\* Another number behind the last.
LEMMA LaidAppend ==
    ASSUME NEW m, NEW m2, NEW o \in Nat, NEW w \in Nat, NEW x, Laid(m, o, w, x),
           NEW y \in Items, \A i \in 0..(w - 1) : m2[i] = m[i],
           Window(m2, w, Len(BytesOf(y))) = BytesOf(y)
    PROVE  Laid(m2, o, w + Len(BytesOf(y)), Append(x, y))
<1>1. PICK c : c \in Cuts(m, o, w, x)
  BY DEF Laid
<1> DEFINE n == Len(x)
           z == Append(x, y)
           k == Len(BytesOf(y))
           d == [i \in 0..(n + 1) |-> IF i =< n THEN c[i] ELSE w + k]
<1>2. /\ x \in Seq(Items) /\ n \in Nat /\ z \in Seq(Items) /\ Len(z) = n + 1
      /\ z[n + 1] = y /\ \A i \in 1..n : z[i] = x[i]
  BY DEF Laid
<1>3. /\ c \in [0..n -> 0..w] /\ c[0] = o /\ c[n] = w
      /\ \A i \in 1..n : /\ c[i] = c[i - 1] + Len(BytesOf(x[i]))
                         /\ Window(m, c[i - 1], Len(BytesOf(x[i]))) = BytesOf(x[i])
  BY <1>1 DEF Cuts
<1>4. k \in Nat
  BY ItemFacts DEF Bytes
<1>5. \A i \in 1..n : x[i] \in Items /\ Len(BytesOf(x[i])) \in Nat
  BY <1>2, ItemsFacts
<1> HIDE DEF n, z, k
<1>6. d \in [0..(n + 1) -> 0..(w + k)]
  <2>1. \A i \in 0..(n + 1) : i =< n => c[i] \in 0..(w + k)
    <3>1. ASSUME NEW i \in 0..(n + 1), i =< n PROVE c[i] \in 0..(w + k)
      <4>1. i \in 0..n
        BY <1>2, <3>1
      <4>2. c[i] \in 0..w
        BY <1>3, <4>1
      <4> QED BY <1>4, <4>2
    <3> QED BY <3>1
  <2>2. w + k \in 0..(w + k)
    BY <1>4
  <2> QED BY <2>1, <2>2
<1>7. (\A i \in 0..n : d[i] = c[i]) /\ d[n + 1] = w + k
  BY <1>2
<1> HIDE DEF d
<1>8. ASSUME NEW i \in 1..(n + 1)
      PROVE  /\ d[i] = d[i - 1] + Len(BytesOf(z[i]))
             /\ Window(m2, d[i - 1], Len(BytesOf(z[i]))) = BytesOf(z[i])
  <2>1. CASE i = n + 1
    <3>1. i - 1 = n /\ n \in 0..n
      BY <1>2, <2>1
    <3>2. z[i] = y /\ d[i] = w + k /\ d[i - 1] = w
      BY <1>2, <1>3, <1>7, <2>1, <3>1
    <3> QED BY <3>2 DEF k
  <2>2. CASE i # n + 1
    <3> DEFINE a == c[i - 1]
               l == Len(BytesOf(x[i]))
    <3>1. i \in 1..n /\ i \in 0..n /\ i - 1 \in 0..n
      BY <1>2, <2>2
    <3>2. /\ z[i] = x[i] /\ d[i] = c[i] /\ d[i - 1] = a /\ c[i] = a + l
          /\ Window(m, a, l) = BytesOf(x[i])
      BY <1>2, <1>3, <1>7, <3>1
    <3>3. l \in Nat /\ a \in 0..w /\ c[i] \in 0..w
      BY <1>3, <1>5, <3>1
    <3> HIDE DEF a, l
    <3>4. \A j \in 0..(l - 1) : a + j \in 0..(w - 1)
      BY <3>2, <3>3
    <3>5. Same(m2, a, m, a, l) /\ a \in Nat
      BY <3>3, <3>4 DEF Same
    <3>6. Window(m2, a, l) = Window(m, a, l)
      BY <3>3, <3>5, SameWindow
    <3> QED BY <3>2, <3>6 DEF l
  <2> QED BY <2>1, <2>2
<1>9. d[0] = o
  BY <1>2, <1>3, <1>7
<1>10. d \in Cuts(m2, o, w + k, z)
  BY <1>2, <1>6, <1>7, <1>8, <1>9 DEF Cuts
<1> QED BY <1>2, <1>10 DEF Laid, z, k

\* The same numbers moved from o to p, in another memory.
LEMMA LaidMoved ==
    ASSUME NEW m, NEW m2, NEW o \in Nat, NEW w \in Nat, NEW x, Laid(m, o, w, x),
           NEW p \in Nat, p =< o, \A i \in 0..(w - o - 1) : m2[p + i] = m[o + i]
    PROVE  Laid(m2, p, w - o + p, x)
<1>1. PICK c : c \in Cuts(m, o, w, x)
  BY DEF Laid
<1> DEFINE n == Len(x)
           t == w - o + p
           d == [i \in 0..n |-> c[i] - o + p]
<1>2. x \in Seq(Items) /\ n \in Nat
  BY DEF Laid
<1>3. /\ c \in [0..n -> 0..w] /\ c[0] = o /\ c[n] = w
      /\ \A i \in 1..n : /\ c[i] = c[i - 1] + Len(BytesOf(x[i]))
                         /\ Window(m, c[i - 1], Len(BytesOf(x[i]))) = BytesOf(x[i])
  BY <1>1 DEF Cuts
<1>4. \A i \in 1..n : x[i] \in Items /\ Len(BytesOf(x[i])) \in Nat
  BY <1>2, ItemsFacts
<1> HIDE DEF n
<1>5. \A i \in 0..n : c[i] \in o..w
  <2> DEFINE P == {i \in Nat : i =< n => c[i] >= o}
  <2>1. 0 \in P
    BY <1>3
  <2>2. ASSUME NEW i \in Nat, i \in P PROVE i + 1 \in P
    <3>1. SUFFICES ASSUME i + 1 =< n PROVE c[i + 1] >= o
      OBVIOUS
    <3>2. i \in 0..n /\ i + 1 \in 1..n /\ (i + 1) - 1 = i /\ c[i] >= o
      BY <1>2, <2>2, <3>1
    <3>3. c[i + 1] = c[i] + Len(BytesOf(x[i + 1])) /\ Len(BytesOf(x[i + 1])) \in Nat
      BY <1>3, <1>4, <3>2
    <3>4. c[i] \in 0..w
      BY <1>3, <3>2
    <3> QED BY <3>2, <3>3, <3>4
  <2> HIDE DEF P
  <2>3. \A i \in Nat : i \in P
    BY <2>1, <2>2, Induction
  <2>4. ASSUME NEW i \in 0..n PROVE c[i] \in o..w
    <3>1. i \in Nat /\ i =< n /\ c[i] \in 0..w
      BY <1>2, <1>3
    <3>2. c[i] >= o
      BY <2>3, <3>1 DEF P
    <3> QED BY <3>1, <3>2
  <2> QED BY <2>4
<1>6. d \in [0..n -> 0..t] /\ \A i \in 0..n : d[i] = c[i] - o + p
  <2>1. \A i \in 0..n : c[i] - o + p \in 0..t
    BY <1>5
  <2> HIDE DEF t
  <2> QED BY <2>1
<1> HIDE DEF d
<1>7. ASSUME NEW i \in 1..n
      PROVE  /\ d[i] = d[i - 1] + Len(BytesOf(x[i]))
             /\ Window(m2, d[i - 1], Len(BytesOf(x[i]))) = BytesOf(x[i])
  <2> DEFINE a == c[i - 1]
             l == Len(BytesOf(x[i]))
             b == a - o + p
  <2>1. i \in 0..n /\ i - 1 \in 0..n
    BY <1>2
  <2>2. /\ d[i] = c[i] - o + p /\ d[i - 1] = b /\ c[i] = a + l
        /\ Window(m, a, l) = BytesOf(x[i])
    BY <1>3, <1>6, <2>1
  <2>3. l \in Nat /\ a \in o..w /\ c[i] \in o..w
    BY <1>4, <1>5, <2>1
  <2> HIDE DEF a, l
  <2>4. b \in Nat /\ d[i] = b + l /\ a \in Nat
    BY <2>2, <2>3
  <2>5. ASSUME NEW j \in 0..(l - 1) PROVE m2[b + j] = m[a + j]
    <3>1. (a - o) + j \in 0..(w - o - 1) /\ p + ((a - o) + j) = b + j /\ o + ((a - o) + j) = a + j
      BY <2>2, <2>3
    <3> HIDE DEF b
    <3> QED BY <3>1
  <2> HIDE DEF b
  <2>6. Same(m2, b, m, a, l)
    BY <2>5 DEF Same
  <2>7. Window(m2, b, l) = Window(m, a, l)
    BY <2>3, <2>4, <2>6, SameWindow
  <2> QED BY <2>2, <2>4, <2>7 DEF l
<1>8. d[0] = p /\ d[n] = t
  <2>1. 0 \in 0..n /\ n \in 0..n
    BY <1>2
  <2> QED BY <1>3, <1>6, <2>1
<1> HIDE DEF t
<1>9. d \in Cuts(m2, p, t, x)
  BY <1>6, <1>7, <1>8 DEF Cuts, n
<1> QED BY <1>2, <1>9 DEF Laid, t

----------------------------------------------------------------------------
(* The inductive invariant.  NumbersReadBack speaks of the next number     *)
(* alone; behind it lie all the others, each where the last one ends.      *)

NumbersLaid == sent # Raw => Laid(mem, offset, wpos, sent)

LEMMA LaidReadsBack == TypeOK /\ NumbersLaid => NumbersReadBack
<1> SUFFICES ASSUME TypeOK, NumbersLaid, sent # Raw
             PROVE  IF sent = <<>> THEN offset = wpos
                    ELSE LET d == Decode(Head(sent)[1]) IN d.ok /\ d.val = Head(sent)[2]
  BY DEF NumbersReadBack
<1>1. Laid(mem, offset, wpos, sent) /\ offset \in Nat /\ wpos \in Nat
  BY Lengths DEF NumbersLaid
<1>2. CASE sent = <<>>
  BY <1>1, <1>2, LaidEmpty
<1>3. CASE sent # <<>>
  <2> DEFINE x == Head(sent)
             f == x[1]
             v == x[2]
             n == Len(BytesOf(x))
  <2>1. x \in Items /\ n \in Nat /\ offset + n =< wpos /\ Window(mem, offset, n) = BytesOf(x)
    BY <1>1, <1>3, LaidHead
  <2> HIDE DEF x
  <2>2. f \in Formats /\ v \in Values(f) /\ BytesOf(x) = Encode(f, v)
    BY <2>1, ItemFacts DEF BytesOf
  <2>3. n = Len(Encode(f, v)) /\ At(n) = Encode(f, v)
    BY <2>1, <2>2 DEF At, Window
  <2> HIDE DEF f, v, n
  <2>4. Decode(f).ok /\ Decode(f).val = v
    BY <2>1, <2>2, <2>3, DecodeEncode
  <2> QED BY <1>3, <2>4 DEF f, v, x
<1> QED BY <1>2, <1>3

\* What is not told any more, or nothing.
LEMMA LaidAfterRaw ==
    ASSUME TypeOK', sent' = AfterRaw(offset', wpos')
    PROVE  NumbersLaid'
<1>1. offset' \in Nat
  BY Sizes DEF TypeOK
<1>2. CASE offset' = wpos'
  <2>1. sent' = <<>>
    BY <1>2 DEF AfterRaw
  <2>2. Laid(mem', offset', offset', <<>>)
    BY <1>1, LaidNone
  <2> QED BY <1>2, <2>1, <2>2 DEF NumbersLaid
<1>3. CASE offset' # wpos'
  BY <1>3 DEF AfterRaw, NumbersLaid
<1> QED BY <1>2, <1>3

LEMMA LaidUnchanged ==
    ASSUME NumbersLaid, UNCHANGED <<mem, offset, wpos, sent>>
    PROVE  NumbersLaid'
  BY DEF NumbersLaid

LEMMA LaidRefused == ASSUME NumbersLaid, Refused PROVE NumbersLaid'
  BY LaidUnchanged DEF Refused

LEMMA LaidSeek ==
    ASSUME TypeOK, NumbersLaid, TypeOK', NEW to, ReadAt(to) \/ WriteAt(to)
    PROVE  NumbersLaid'
<1>1. sent' = AfterRaw(offset', wpos')
  BY DEF ReadAt, WriteAt
<1> QED BY <1>1, LaidAfterRaw

LEMMA LaidCleared ==
    ASSUME TypeOK, NumbersLaid, TypeOK', rw_buffer_empty
    PROVE  NumbersLaid'
<1>1. offset' = wpos' /\ sent' = <<>>
  BY DEF rw_buffer_empty
<1>2. sent' = AfterRaw(offset', wpos')
  BY <1>1 DEF AfterRaw
<1> QED BY <1>2, LaidAfterRaw

LEMMA LaidRead ==
    ASSUME TypeOK, NumbersLaid, TypeOK', NEW n \in Nat, buffer_read_bytes(n)
    PROVE  NumbersLaid'
<1>1. CASE ~buffer_can_read(n)
  BY <1>1, LaidRefused DEF buffer_read_bytes, Or
<1>2. CASE buffer_can_read(n)
  <2>1. /\ mem' = mem /\ wpos' = wpos /\ offset' = offset + n
        /\ sent' = IF n = 0 THEN sent ELSE AfterRaw(offset + n, wpos)
    BY <1>2 DEF buffer_read_bytes, Or
  <2>2. CASE n = 0
    <3>1. offset' = offset /\ sent' = sent
      BY <2>1, <2>2, Lengths
    <3> QED BY <2>1, <3>1, LaidUnchanged
  <2>3. CASE n # 0
    BY <2>1, <2>3, LaidAfterRaw
  <2> QED BY <2>2, <2>3
<1> QED BY <1>1, <1>2

\* A number that was told is taken whole; else what is left is not told.
LEMMA LaidGet ==
    ASSUME TypeOK, NumbersLaid, TypeOK', NEW f \in Formats, get(f)
    PROVE  NumbersLaid'
<1> DEFINE told == sent # Raw /\ sent # <<>> /\ Head(sent)[1] = f
           d == Decode(f)
<1>1. /\ mem' = mem /\ wpos' = wpos /\ offset' = offset + d.used
      /\ sent' = IF told THEN Tail(sent) ELSE IF d.used = 0 THEN sent
                             ELSE AfterRaw(offset + d.used, wpos)
  BY DEF get
<1>2. CASE told
  <2> DEFINE x == Head(sent)
             v == x[2]
             n == Len(BytesOf(x))
  <2>1. Laid(mem, offset, wpos, sent) /\ offset \in Nat /\ wpos \in Nat /\ sent # <<>>
    BY <1>2, Lengths DEF NumbersLaid
  <2>2. x \in Items /\ n \in Nat /\ offset + n =< wpos /\ Window(mem, offset, n) = BytesOf(x)
    BY <2>1, LaidHead
  <2>3. Laid(mem, offset + n, wpos, Tail(sent))
    BY <2>1, LaidTail
  <2>4. x[1] = f
    BY <1>2
  <2> HIDE DEF x
  <2>5. v \in Values(f) /\ BytesOf(x) = Encode(f, v)
    BY <2>2, <2>4, ItemFacts DEF BytesOf
  <2>6. n = Len(Encode(f, v)) /\ At(n) = Encode(f, v)
    BY <2>2, <2>5 DEF At, Window
  <2> HIDE DEF v, n
  <2>7. d.used = n
    BY <2>2, <2>5, <2>6, DecodeEncode
  <2> HIDE DEF d, told
  <2>8. sent' = Tail(sent) /\ offset' = offset + n /\ mem' = mem /\ wpos' = wpos
    BY <1>1, <1>2, <2>7
  <2> QED BY <2>3, <2>8 DEF NumbersLaid
<1>3. CASE ~told /\ d.used = 0
  <2>1. offset + 0 = offset
    BY Lengths
  <2> HIDE DEF d, told
  <2>2. offset' = offset /\ sent' = sent
    BY <1>1, <1>3, <2>1
  <2> QED BY <1>1, <2>2, LaidUnchanged
<1>4. CASE ~told /\ d.used # 0
  <2> HIDE DEF d, told
  <2>1. sent' = AfterRaw(offset', wpos')
    BY <1>1, <1>4
  <2> QED BY <2>1, LaidAfterRaw
<1> QED BY <1>2, <1>3, <1>4

LEMMA LaidPut ==
    ASSUME TypeOK, NumbersLaid, TypeOK', NEW f \in Formats, NEW v \in Values(f), put(f, v)
    PROVE  NumbersLaid'
<1> DEFINE y == <<f, v>>
           s == Encode(f, v)
           n == Len(s)
<1>1. y \in Items /\ BytesOf(y) = s /\ s \in Bytes /\ n \in Nat
  <2>1. s \in Bytes
    BY EncodeType
  <2> HIDE DEF s
  <2>2. y \in Items
    BY DEF Items
  <2>3. BytesOf(y) = s
    BY DEF BytesOf, s
  <2> QED BY <2>1, <2>2, <2>3 DEF Bytes
<1>2. CASE ~rw_buffer_can_write(n)
  BY <1>2, LaidRefused DEF put, Write, Or
<1>3. CASE rw_buffer_can_write(n)
  <2>1. /\ mem' = Moved(wpos, s) /\ wpos' = wpos + n /\ offset' = offset
        /\ sent' = IF sent = Raw THEN Raw ELSE Append(sent, y)
    BY <1>3 DEF put, Write, Or
  <2> HIDE DEF s, y
  <2>2. wpos \in Nat /\ offset \in Nat /\ wpos + n =< Size
    BY <1>1, <1>3, Lengths DEF rw_buffer_can_write
  <2>3. /\ mem' \in Memory /\ \A i \in 1..n : mem'[wpos + i - 1] = s[i]
        /\ \A i \in 0..(wpos - 1) : mem'[i] = mem[i]
    BY <1>1, <2>1, <2>2, MovedFacts
  <2>4. Window(mem', wpos, n) = s
    <3>1. /\ Window(mem', wpos, n) \in Bytes /\ Len(Window(mem', wpos, n)) = n
          /\ \A i \in 1..n : Window(mem', wpos, n)[i] = mem'[wpos + i - 1]
      BY <1>1, <2>2, <2>3, WindowFacts
    <3> QED BY <1>1, <2>3, <3>1, EqualBytes
  <2>5. CASE sent = Raw
    BY <2>1, <2>5 DEF NumbersLaid
  <2>6. CASE sent # Raw
    <3>1. Laid(mem, offset, wpos, sent)
      BY <2>6 DEF NumbersLaid
    <3>2. Laid(mem', offset, wpos + Len(BytesOf(y)), Append(sent, y))
      BY <1>1, <2>2, <2>3, <2>4, <3>1, LaidAppend
    <3> QED BY <1>1, <2>1, <2>6, <3>2 DEF NumbersLaid
  <2> QED BY <2>5, <2>6
<1> QED BY <1>2, <1>3

\* A string of bytes is not told, and no byte changes nothing.
LEMMA LaidWrite ==
    ASSUME TypeOK, NumbersLaid, TypeOK', NEW s \in Bytes, rw_buffer_write_bytes(s)
    PROVE  NumbersLaid'
<1>1. CASE ~rw_buffer_can_write(Len(s))
  BY <1>1, LaidRefused DEF rw_buffer_write_bytes, Write, Or
<1>2. CASE rw_buffer_can_write(Len(s))
  <2>1. /\ mem' = Moved(wpos, s) /\ wpos' = wpos + Len(s) /\ offset' = offset
        /\ sent' = IF s = <<>> THEN sent ELSE Raw
    BY <1>2 DEF rw_buffer_write_bytes, Write, Or
  <2>2. CASE s # <<>>
    BY <2>1, <2>2 DEF NumbersLaid
  <2>3. CASE s = <<>>
    <3>1. Len(s) = 0 /\ wpos + 0 = wpos /\ wpos \in Nat /\ offset \in Nat /\ wpos =< Size
          /\ offset =< wpos
      BY <2>3, Lengths
    <3>2. \A i \in 0..(wpos - 1) : mem'[i] = mem[i]
      <4>1. wpos + Len(s) =< Size
        BY <3>1
      <4> QED BY <2>1, <3>1, <4>1, MovedFacts
    <3>3. \A i \in 0..(wpos - offset - 1) : mem'[offset + i] = mem[offset + i]
      <4>1. \A i \in 0..(wpos - offset - 1) : offset + i \in 0..(wpos - 1)
        BY <3>1
      <4> QED BY <3>2, <4>1
    <3>4. wpos - offset + offset = wpos /\ offset =< offset
      BY <3>1
    <3>5. sent # Raw => Laid(mem', offset, wpos - offset + offset, sent)
      BY <3>1, <3>3, <3>4, LaidMoved DEF NumbersLaid
    <3> QED BY <2>1, <2>3, <3>1, <3>4, <3>5 DEF NumbersLaid
  <2> QED BY <2>2, <2>3
<1> QED BY <1>1, <1>2

\* Compacting moves all the numbers.
LEMMA LaidShift ==
    ASSUME TypeOK, NumbersLaid, TypeOK', rw_buffer_shift_data
    PROVE  NumbersLaid'
<1>1. CASE offset = 0
  BY <1>1, LaidUnchanged DEF rw_buffer_shift_data
<1>2. CASE offset # 0
  <2> DEFINE k == wpos - offset
             s == At(buffer_data_len)
  <2>1. mem' = Moved(0, s) /\ offset' = 0 /\ wpos' = k /\ sent' = sent
    BY <1>2, Lengths DEF rw_buffer_shift_data
  <2>2. /\ k \in Nat /\ offset \in Nat /\ wpos \in Nat /\ mem \in Memory
        /\ offset + k =< Size /\ 0 + k =< Size
    BY Lengths
  <2>3. s = Window(mem, offset, k)
    BY Lengths DEF At, Window
  <2> HIDE DEF s, k
  <2>4. s \in Bytes /\ Len(s) = k /\ \A i \in 1..k : s[i] = mem[offset + i - 1]
    BY <2>2, <2>3, WindowFacts
  <2>5. \A i \in 1..k : mem'[0 + i - 1] = s[i]
    BY <2>1, <2>2, <2>4, MovedFacts
  <2>6. ASSUME NEW i \in 0..(k - 1) PROVE mem'[0 + i] = mem[offset + i]
    <3>1. i + 1 \in 1..k /\ 0 + (i + 1) - 1 = 0 + i /\ offset + (i + 1) - 1 = offset + i
      BY <2>2
    <3> QED BY <2>4, <2>5, <3>1
  <2>7. \A i \in 0..(wpos - offset - 1) : mem'[0 + i] = mem[offset + i]
    BY <2>6 DEF k
  <2>8. 0 \in Nat /\ 0 =< offset /\ wpos - offset + 0 = k
    BY <2>2 DEF k
  <2>9. sent # Raw => Laid(mem', 0, wpos - offset + 0, sent)
    BY <2>2, <2>7, <2>8, LaidMoved DEF NumbersLaid
  <2> QED BY <2>1, <2>8, <2>9 DEF NumbersLaid
<1> QED BY <1>1, <1>2

LEMMA LaidInit == Init => TypeOK /\ NumbersLaid
<1> SUFFICES ASSUME Init PROVE TypeOK /\ NumbersLaid
  OBVIOUS
<1>1. TypeOK
  BY InitFacts
<1>2. sent = AfterRaw(offset, wpos)
  BY DEF Init, rw_buffer_init
<1>3. CASE offset = wpos
  BY <1>1, <1>2, <1>3, Lengths, LaidNone DEF AfterRaw, NumbersLaid
<1>4. CASE offset # wpos
  <2>1. sent = Raw
    BY <1>2, <1>4 DEF AfterRaw
  <2> QED BY <1>1, <2>1 DEF NumbersLaid
<1> QED BY <1>1, <1>3, <1>4

LEMMA LaidCall == ASSUME TypeOK, NumbersLaid, Next PROVE TypeOK' /\ NumbersLaid'
<1>0. TypeOK'
  BY CallStep
<1>1. ASSUME NEW n \in Counts,
             \/ buffer_seek_set(n) \/ buffer_seek_cur(n) \/ buffer_seek_end(n)
             \/ rw_buffer_seek_write_set(n) \/ rw_buffer_seek_write_cur(n)
             \/ rw_buffer_seek_write_end(n)
      PROVE  NumbersLaid'
  <2>1. Refused \/ \E to : ReadAt(to) \/ WriteAt(to)
    BY <1>1 DEF buffer_seek_set, buffer_seek_cur, buffer_seek_end, rw_buffer_seek_write_set,
                rw_buffer_seek_write_cur, rw_buffer_seek_write_end, Or
  <2> QED BY <1>0, <2>1, LaidRefused, LaidSeek
<1>2. ASSUME NEW n \in Counts, buffer_copy_bytes(n) PROVE NumbersLaid'
  BY <1>2, LaidRefused, LaidUnchanged DEF buffer_copy_bytes, Or
<1>3. ASSUME NEW n \in Counts, buffer_read_bytes(n) PROVE NumbersLaid'
  BY <1>0, <1>3, Arguments, LaidRead
<1>4. ASSUME NEW f \in Formats, get(f) PROVE NumbersLaid'
  BY <1>0, <1>4, LaidGet
<1>5. ASSUME NEW f \in Formats, NEW v \in Values(f), put(f, v) PROVE NumbersLaid'
  BY <1>0, <1>5, LaidPut
<1>6. ASSUME NEW s \in Chunks, rw_buffer_write_bytes(s) PROVE NumbersLaid'
  <2>1. s \in Bytes
    BY RwBufferAssumption DEF Bytes
  <2> QED BY <1>0, <1>6, <2>1, LaidWrite
<1>7. ASSUME rw_buffer_shift_data \/ rw_buffer_empty PROVE NumbersLaid'
  BY <1>0, <1>7, LaidShift, LaidCleared
<1> QED BY <1>0, <1>1, <1>2, <1>3, <1>4, <1>5, <1>6, <1>7 DEF Next

LEMMA LaidStep == TypeOK /\ NumbersLaid /\ [Next]_vars => TypeOK' /\ NumbersLaid'
<1>1. ASSUME TypeOK, NumbersLaid, UNCHANGED vars PROVE TypeOK' /\ NumbersLaid'
  BY <1>1, LaidUnchanged DEF vars, TypeOK
<1> QED BY <1>1, LaidCall

\* While only whole numbers are written to and read from a buffer of
\* rwbuffer.h, each comes back as it was written and in that order: fixed
\* width in either byte order, and the variable-length integers of gve.c up to
\* the last of a word, whatever lies behind them and however often the buffer
\* is compacted between; and when all were read the buffer is empty.
THEOREM NumbersComeBack == Spec => []NumbersReadBack
  BY LaidInit, LaidStep, LaidReadsBack, PTL DEF Spec
=============================================================================
