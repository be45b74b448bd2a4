--------------------------- MODULE RwBufferProofs ---------------------------
(***************************************************************************)
(* Proofs about RwBuffer, for buffers, words and bytes of every size.      *)
(***************************************************************************)
EXTENDS RwBuffer, NumberLemmas, SequenceTheorems, TLAPS

Bytes == Seq(Byte)

----------------------------------------------------------------------------
(* Numbers as bytes                                                        *)

LEMMA Sizes ==
    /\ Size \in Nat \ {0} /\ SIZE_T \in Nat \ {0} /\ Size < SIZE_T
    /\ GROUP \in Nat \ {0, 1} /\ BYTE \in Nat \ {0} /\ WORD \in Nat
  BY RwBufferAssumption DEF BYTE

\* Powers are what they should be.
LEMMA Powers ==
    ASSUME NEW b \in Nat \ {0}
    PROVE  /\ Power(b)[0] = 1 /\ \A n \in Nat : Power(b)[n + 1] = Power(b)[n] * b
           /\ \A n \in Nat : Power(b)[n] \in Nat \ {0}
<1> DEFINE S == Nat \ {0}
           one == 1
           F == [x \in Nat \X S |-> x[2] * b]
           Round(p) == [n \in Nat |-> IF n = 0 THEN 1 ELSE p[n - 1] * b]
           p == Power(b)
<1>1. \E g : g = Round(g)
  <2>1. F \in [Nat \X S -> S] /\ one \in S
    OBVIOUS
  <2>2. \A n \in Nat, y \in S : F[<<n, y>>] = y * b
    OBVIOUS
  <2> HIDE DEF F, S, one
  <2>3. PICK g \in [Nat -> S] : g[0] = one /\ \A n \in Nat : g[n + 1] = F[<<n, g[n]>>]
    <3>1. Recursively(S, one, F) # {}
      BY <2>1, Recursion
    <3> QED BY <3>1 DEF Recursively
  <2>4. \A n \in Nat : g[n] = IF n = 0 THEN 1 ELSE g[n - 1] * b
    <3>1. SUFFICES ASSUME NEW n \in Nat, n # 0 PROVE g[n] = g[n - 1] * b
      BY <2>3 DEF one
    <3>2. n - 1 \in Nat /\ (n - 1) + 1 = n
      BY <3>1
    <3>3. g[n] = F[<<n - 1, g[n - 1]>>] /\ g[n - 1] \in S
      BY <2>3, <3>2
    <3> QED BY <2>2, <3>2, <3>3
  <2>5. g = [n \in Nat |-> g[n]]
    BY <2>3
  <2>6. g = Round(g)
    BY <2>4, <2>5
  <2> QED BY <2>6
<1>2. p = CHOOSE q : q = Round(q)
  BY DEF Power
<1> HIDE DEF p
<1>3. p = Round(p)
  BY <1>1, <1>2
<1>4. p[0] = 1 /\ \A n \in Nat : p[n + 1] = p[n] * b
  <2>1. \A n \in Nat : p[n] = IF n = 0 THEN 1 ELSE p[n - 1] * b
    BY <1>3
  <2>2. \A n \in Nat : n + 1 \in Nat /\ n + 1 # 0 /\ (n + 1) - 1 = n
    OBVIOUS
  <2>3. p[0] = 1
    BY <2>1
  <2> QED BY <2>1, <2>2, <2>3
<1>5. \A n \in Nat : p[n] \in Nat \ {0}
  <2> DEFINE P == {n \in Nat : p[n] \in Nat \ {0}}
  <2>1. 0 \in P
    BY <1>4
  <2>2. ASSUME NEW n \in Nat, n \in P PROVE n + 1 \in P
    BY <1>4, <2>2
  <2> HIDE DEF P
  <2>3. \A n \in Nat : n \in P
    BY <2>1, <2>2, Induction
  <2> QED BY <2>3 DEF P
<1> QED BY <1>4, <1>5 DEF p

\* A group with its mark is a byte, and one without it.
LEMMA GroupFacts ==
    ASSUME NEW v \in Nat
    PROVE  /\ v < GROUP => v \in Byte
           /\ ~(v < GROUP) => /\ GROUP + (v % GROUP) \in Byte
                              /\ v \div GROUP \in Nat /\ v \div GROUP < v
<1>1. GROUP \in Nat \ {0, 1}
  BY Sizes
<1>2. v < GROUP => v \in Byte
  BY <1>1 DEF Byte, BYTE
<1>3. v % GROUP \in 0..(GROUP - 1)
  BY <1>1
<1>4. GROUP + (v % GROUP) \in Byte
  BY <1>1, <1>3 DEF Byte, BYTE
<1>5. v \div GROUP \in Nat /\ (v > 0 => v \div GROUP < v)
  BY <1>1
<1> QED BY <1>1, <1>2, <1>4, <1>5

\* A round of the loop of gve_put_u64, given what g puts for smaller numbers,
\* and the functions that put the numbers up to n that way.
Put(g, v) == IF v < GROUP THEN <<v>> ELSE <<GROUP + (v % GROUP)>> \o g[v \div GROUP]
Puts(n)   == {g \in [0..n -> Bytes] : \A v \in 0..n : g[v] = Put(g, v)}

LEMMA PutType ==
    ASSUME NEW g, NEW v \in Nat, ~(v < GROUP) => g[v \div GROUP] \in Bytes
    PROVE  Put(g, v) \in Bytes
<1>1. CASE v < GROUP
  BY <1>1, GroupFacts DEF Put, Bytes
<1>2. CASE ~(v < GROUP)
  <2> DEFINE b == GROUP + (v % GROUP)
             s == g[v \div GROUP]
  <2>1. b \in Byte /\ s \in Seq(Byte)
    BY <1>2, GroupFacts DEF Bytes
  <2>2. Put(g, v) = <<b>> \o s
    BY <1>2 DEF Put
  <2> HIDE DEF b, s
  <2>3. <<b>> \in Seq(Byte)
    BY <2>1
  <2> QED BY <2>1, <2>2, <2>3, ConcatProperties DEF Bytes
<1> QED BY <1>1, <1>2

\* Two of these functions agree.
LEMMA PutsAgree ==
    ASSUME NEW n \in Nat, NEW m \in Nat, NEW g \in Puts(n), NEW h \in Puts(m),
           NEW v \in 0..n, v \in 0..m
    PROVE  g[v] = h[v]
<1> DEFINE bad == {x \in Nat : x =< n /\ x =< m /\ g[x] # h[x]}
<1>1. SUFFICES ASSUME g[v] # h[v] PROVE FALSE
  OBVIOUS
<1>2. PICK x \in bad : \A y \in bad : x =< y
  <2>1. v \in bad
    BY <1>1
  <2> HIDE DEF bad
  <2>2. bad # {}
    BY <2>1
  <2>3. bad \in SUBSET Nat
    BY DEF bad
  <2> QED BY <2>2, <2>3, Least
<1>3. x \in Nat /\ x \in 0..n /\ x \in 0..m /\ g[x] # h[x]
  OBVIOUS
<1>4. g[x] = Put(g, x) /\ h[x] = Put(h, x)
  BY <1>3 DEF Puts
<1>5. ~(x < GROUP) /\ g[x \div GROUP] # h[x \div GROUP]
  BY <1>3, <1>4 DEF Put
<1>6. x \div GROUP \in Nat /\ x \div GROUP < x
  BY <1>3, <1>5, GroupFacts
<1>7. x \div GROUP \in bad /\ ~(x =< x \div GROUP)
  BY <1>3, <1>5, <1>6
<1> QED BY <1>2, <1>7

\* There is one for every n.
LEMMA PutsExist ==
    ASSUME NEW n \in Nat
    PROVE  Puts(n) # {}
<1> DEFINE bad == {x \in Nat : Puts(x) = {}}
<1>1. SUFFICES ASSUME Puts(n) = {} PROVE FALSE
  OBVIOUS
<1>2. PICK x \in bad : \A y \in bad : x =< y
  <2>1. n \in bad
    BY <1>1
  <2> HIDE DEF bad
  <2>2. bad # {}
    BY <2>1
  <2>3. bad \in SUBSET Nat
    BY DEF bad
  <2> QED BY <2>2, <2>3, Least
<1>3. x \in Nat /\ Puts(x) = {}
  OBVIOUS
<1>4. x # 0 => \E g : g \in Puts(x - 1)
  <2>1. x # 0 => x - 1 \in Nat /\ ~(x =< x - 1)
    BY <1>3
  <2> QED BY <1>2, <2>1
<1> DEFINE g == CHOOSE f : f \in Puts(x - 1)
           h == [v \in 0..x |-> IF v < x THEN g[v] ELSE Put(g, x)]
<1>5. x # 0 => g \in Puts(x - 1)
  BY <1>4
<1> HIDE DEF g
<1>6. ASSUME NEW v \in 0..x, v < x
      PROVE  g[v] \in Bytes /\ g[v] = Put(g, v) /\ v \in Nat
  <2>1. v \in 0..(x - 1) /\ x # 0 /\ v \in Nat
    BY <1>3, <1>6
  <2> QED BY <1>5, <2>1 DEF Puts
<1>7. ASSUME NEW v \in 0..x
      PROVE  h[v] \in Bytes /\ h[v] = Put(h, v)
  <2>1. v \in Nat /\ (~(v < x) => v = x)
    BY <1>3
  <2>2. h[v] = Put(g, v)
    BY <1>6, <2>1
  <2>3. ~(v < GROUP) => /\ v \div GROUP \in 0..x /\ v \div GROUP < x
                        /\ h[v \div GROUP] = g[v \div GROUP] /\ g[v \div GROUP] \in Bytes
    <3>1. ~(v < GROUP) => v \div GROUP \in 0..x /\ v \div GROUP < x
      BY <1>3, <2>1, GroupFacts
    <3>2. ~(v < GROUP) => h[v \div GROUP] = g[v \div GROUP]
      BY <3>1
    <3>3. ~(v < GROUP) => g[v \div GROUP] \in Bytes
      BY <1>6, <3>1
    <3> QED BY <3>1, <3>2, <3>3
  <2> HIDE DEF h
  <2>4. Put(h, v) = Put(g, v)
    BY <2>3 DEF Put
  <2>5. Put(g, v) \in Bytes
    BY <2>1, <2>3, PutType
  <2> QED BY <2>2, <2>4, <2>5
<1>8. h \in [0..x -> Bytes]
  <2>1. \A v \in 0..x : (IF v < x THEN g[v] ELSE Put(g, x)) \in Bytes
    BY <1>7
  <2> QED BY <2>1
<1>9. h \in Puts(x)
  <2> HIDE DEF h
  <2> QED BY <1>7, <1>8 DEF Puts
<1> QED BY <1>3, <1>9

\* The loop of gve_put_u64 ends, and puts bytes.
LEMMA GvePut ==
    /\ gve_put_u64 = [v \in Nat |-> Put(gve_put_u64, v)]
    /\ \A v \in Nat : gve_put_u64[v] \in Bytes
<1> DEFINE Best(v) == CHOOSE g : g \in Puts(v)
           G == [v \in Nat |-> Best(v)[v]]
<1>1. \A v \in Nat : Best(v) \in Puts(v)
  BY PutsExist
<1> HIDE DEF Best
<1>2. ASSUME NEW v \in Nat
      PROVE  G[v] \in Bytes /\ G[v] = Put(G, v)
  <2>1. v \in 0..v /\ Best(v) \in Puts(v)
    BY <1>1
  <2>2. G[v] \in Bytes /\ G[v] = Put(Best(v), v)
    BY <2>1 DEF Puts
  <2>3. ASSUME ~(v < GROUP) PROVE Best(v)[v \div GROUP] = G[v \div GROUP]
    <3> DEFINE u == v \div GROUP
    <3>1. u \in Nat /\ u < v
      BY <2>3, GroupFacts
    <3> HIDE DEF u
    <3>2. u \in 0..v /\ u \in 0..u /\ Best(u) \in Puts(u)
      BY <1>1, <3>1
    <3>3. Best(v)[u] = Best(u)[u]
      BY <2>1, <3>1, <3>2, PutsAgree
    <3> QED BY <3>1, <3>3 DEF u
  <2> HIDE DEF G
  <2> QED BY <2>2, <2>3 DEF Put
<1>3. G = [v \in Nat |-> Put(G, v)]
  <2>1. G = [v \in Nat |-> G[v]]
    OBVIOUS
  <2> HIDE DEF G
  <2> QED BY <1>2, <2>1
<1> HIDE DEF G
<1>4. gve_put_u64 = [v \in Nat |-> Put(gve_put_u64, v)]
  <2>1. gve_put_u64 = CHOOSE f : f = [v \in Nat |-> Put(f, v)]
    BY DEF gve_put_u64, Put
  <2> QED BY <1>3, <2>1
<1>5. ASSUME NEW v \in Nat PROVE gve_put_u64[v] \in Bytes
  <2> DEFINE bad == {x \in Nat : gve_put_u64[x] \notin Bytes}
  <2>1. SUFFICES ASSUME gve_put_u64[v] \notin Bytes PROVE FALSE
    OBVIOUS
  <2>2. PICK x \in bad : \A y \in bad : x =< y
    <3>1. v \in bad /\ bad \in SUBSET Nat
      BY <2>1
    <3> HIDE DEF bad
    <3> QED BY <3>1, Least
  <2>3. x \in Nat /\ gve_put_u64[x] \notin Bytes
    OBVIOUS
  <2>4. ~(x < GROUP) => gve_put_u64[x \div GROUP] \in Bytes
    <3>1. ~(x < GROUP) => x \div GROUP \in Nat /\ ~(x =< x \div GROUP)
      BY <2>3, GroupFacts
    <3> QED BY <2>2, <3>1
  <2>5. Put(gve_put_u64, x) \in Bytes
    BY <2>3, <2>4, PutType
  <2> QED BY <1>4, <2>3, <2>5
<1> QED BY <1>4, <1>5

----------------------------------------------------------------------------
(* Byte strings                                                            *)

LEMMA EqualBytes ==
    ASSUME NEW s \in Bytes, NEW t \in Bytes, Len(s) = Len(t), \A i \in 1..Len(s) : s[i] = t[i]
    PROVE  s = t
  BY SeqEqual DEF Bytes

LEMMA PrefixOf ==
    ASSUME NEW s \in Bytes, NEW t \in Bytes, Len(s) =< Len(t),
           \A i \in 1..Len(s) : s[i] = t[i]
    PROVE  IsPrefix(s, t)
<1> DEFINE n == Len(s)
           c == SubSeq(t, 1, n)
<1>1. n \in Nat /\ Len(t) \in Nat /\ \A i \in 1..n : t[i] \in Byte /\ s[i] \in Byte
  BY DEF Bytes
<1>2. SubSeq(s, 1, n) = s
  BY SubSeqFull DEF Bytes
<1>3. c \in Bytes /\ Len(c) = n /\ \A i \in 1..n : c[i] = t[i]
  <2> HIDE DEF n
  <2> QED BY <1>1, SubSeqProperties DEF Bytes
<1> HIDE DEF c
<1>4. c = s
  BY <1>3, EqualBytes
<1> QED BY <1>2, <1>4 DEF IsPrefix, c

LEMMA ReverseFacts ==
    ASSUME NEW s \in Bytes
    PROVE  /\ Reverse(s) \in Bytes /\ Len(Reverse(s)) = Len(s)
           /\ \A i \in 1..Len(s) : Reverse(s)[i] = s[Len(s) - i + 1]
<1> DEFINE n == Len(s)
<1>1. n \in Nat /\ \A i \in 1..n : s[i] \in Byte
  BY DEF Bytes
<1>2. Reverse(s) = [i \in 1..n |-> s[n - i + 1]]
  BY DEF Reverse
<1> HIDE DEF n
<1>3. \A i \in 1..n : s[n - i + 1] \in Byte
  BY <1>1
<1> QED BY <1>1, <1>2, <1>3 DEF Bytes, n

LEMMA SuffixOf ==
    ASSUME NEW s \in Bytes, NEW t \in Bytes, Len(s) =< Len(t),
           \A i \in 1..Len(s) : s[i] = t[Len(t) - Len(s) + i]
    PROVE  IsSuffix(s, t)
<1> DEFINE rs == Reverse(s)
           rt == Reverse(t)
<1>1. rs \in Bytes /\ Len(rs) = Len(s) /\ rt \in Bytes /\ Len(rt) = Len(t)
  BY ReverseFacts
<1>2. Len(s) \in Nat /\ Len(t) \in Nat
  BY DEF Bytes
<1>3. ASSUME NEW i \in 1..Len(s) PROVE rs[i] = rt[i]
  <2>1. rs[i] = s[Len(s) - i + 1]
    BY ReverseFacts
  <2>2. rt[i] = t[Len(t) - i + 1]
    BY <1>2, ReverseFacts
  <2>3. Len(s) - i + 1 \in 1..Len(s) /\ Len(t) - Len(s) + (Len(s) - i + 1) = Len(t) - i + 1
    BY <1>2
  <2> QED BY <2>1, <2>2, <2>3
<1> HIDE DEF rs, rt
<1>4. IsPrefix(rs, rt)
  BY <1>1, <1>3, PrefixOf
<1> QED BY <1>4 DEF IsSuffix, rs, rt

\* The memories of a buffer, and n bytes of one from position a on.
Memory == [0..(Size - 1) -> Byte]
Window(m, a, n) == [i \in 1..n |-> m[a + i - 1]]

LEMMA WindowFacts ==
    ASSUME NEW m \in Memory, NEW a \in Nat, NEW n \in Nat, a + n =< Size
    PROVE  /\ Window(m, a, n) \in Bytes /\ Len(Window(m, a, n)) = n
           /\ \A i \in 1..n : Window(m, a, n)[i] = m[a + i - 1]
<1>1. \A i \in 1..n : a + i - 1 \in 0..(Size - 1)
  BY Sizes
<1>2. \A i \in 1..n : m[a + i - 1] \in Byte
  BY <1>1 DEF Memory
<1> QED BY <1>2 DEF Window, Bytes

\* A window is the shorter one from the same start, and then the rest.
LEMMA WindowSplits ==
    ASSUME NEW m \in Memory, NEW a \in Nat, NEW k \in Nat, NEW n \in Nat,
           k =< n, a + n =< Size
    PROVE  /\ Window(m, a, n) = Window(m, a, k) \o Window(m, a + k, n - k)
           /\ IsPrefix(Window(m, a, k), Window(m, a, n))
           /\ IsSuffix(Window(m, a + k, n - k), Window(m, a, n))
<1> DEFINE w == Window(m, a, n)
           u == Window(m, a, k)
           v == Window(m, a + k, n - k)
<1>1. a + k \in Nat /\ n - k \in Nat /\ a + k =< Size /\ a + k + (n - k) =< Size
  BY Sizes
<1>2. w \in Bytes /\ Len(w) = n /\ \A i \in 1..n : w[i] = m[a + i - 1]
  BY WindowFacts
<1>3. u \in Bytes /\ Len(u) = k /\ \A i \in 1..k : u[i] = m[a + i - 1]
  BY <1>1, WindowFacts
<1>4. v \in Bytes /\ Len(v) = n - k /\ \A i \in 1..(n - k) : v[i] = m[a + k + i - 1]
  BY <1>1, WindowFacts
<1> HIDE DEF u, v, w
<1>5. /\ u \o v \in Bytes /\ Len(u \o v) = n
      /\ \A i \in 1..n : (u \o v)[i] = IF i =< k THEN u[i] ELSE v[i - k]
  <2>1. u \in Seq(Byte) /\ v \in Seq(Byte) /\ Len(u) + Len(v) = n
    BY <1>3, <1>4 DEF Bytes
  <2>2. /\ u \o v \in Seq(Byte) /\ Len(u \o v) = Len(u) + Len(v)
        /\ \A i \in 1..(Len(u) + Len(v)) : (u \o v)[i] = IF i =< Len(u) THEN u[i] ELSE v[i - Len(u)]
    BY <2>1, ConcatProperties
  <2> QED BY <1>3, <2>1, <2>2 DEF Bytes
<1>6. ASSUME NEW i \in 1..n PROVE w[i] = (u \o v)[i]
  <2>1. CASE i =< k
    <3>1. i \in 1..k
      BY <2>1
    <3>2. w[i] = m[a + i - 1] /\ u[i] = m[a + i - 1]
      BY <1>2, <1>3, <3>1
    <3>3. (u \o v)[i] = u[i]
      BY <1>5, <2>1
    <3> QED BY <3>2, <3>3
  <2>2. CASE ~(i =< k)
    <3>1. i - k \in 1..(n - k) /\ a + k + (i - k) - 1 = a + i - 1
      BY <2>2
    <3> QED BY <1>2, <1>4, <1>5, <2>2, <3>1
  <2> QED BY <2>1, <2>2
<1>7. w = u \o v
  BY <1>2, <1>5, <1>6, EqualBytes
<1>8. IsPrefix(u, w)
  <2>1. \A i \in 1..k : u[i] = w[i]
    BY <1>2, <1>3
  <2> QED BY <1>2, <1>3, <2>1, PrefixOf
<1>9. IsSuffix(v, w)
  <2>1. \A i \in 1..(n - k) : v[i] = w[n - (n - k) + i]
    <3>1. \A i \in 1..(n - k) : n - (n - k) + i \in 1..n /\ a + (n - (n - k) + i) - 1 = a + k + i - 1
      OBVIOUS
    <3> QED BY <1>2, <1>4, <3>1
  <2>2. Len(v) =< Len(w) /\ \A i \in 1..Len(v) : v[i] = w[Len(w) - Len(v) + i]
    BY <1>2, <1>4, <2>1
  <2> QED BY <1>2, <1>4, <2>2, SuffixOf
<1> QED BY <1>7, <1>8, <1>9 DEF u, v, w

----------------------------------------------------------------------------
(* Lengths, and what is written and read                                   *)

LEMMA SizeT ==
    ASSUME NEW n \in Nat
    PROVE  size_t(n) \in Nat /\ (n =< Size => size_t(n) = n)
  BY Sizes DEF size_t

\* No length wraps: the data and the free space are what the positions say.
LEMMA Lengths ==
    ASSUME TypeOK
    PROVE  /\ mem \in Memory /\ offset \in Nat /\ wpos \in Nat /\ Size \in Nat
           /\ offset =< wpos /\ wpos =< Size /\ wpos - offset \in Nat /\ Size - wpos \in Nat
           /\ buffer_data_len = wpos - offset /\ rw_buffer_empty_space_len = Size - wpos
           /\ answer.ok \in BOOLEAN /\ answer.data \in Bytes
<1>1. /\ mem \in Memory /\ offset \in Nat /\ wpos \in Nat /\ Size \in Nat
      /\ offset =< wpos /\ wpos =< Size
      /\ answer.ok \in BOOLEAN /\ answer.data \in Bytes
  BY Sizes DEF TypeOK, Memory, Bytes
<1>2. wpos - offset \in Nat /\ wpos - offset =< Size /\ Size - wpos \in Nat /\ Size - wpos =< Size
  BY <1>1
<1>3. buffer_data_len = wpos - offset /\ rw_buffer_empty_space_len = Size - wpos
  BY <1>2, SizeT DEF buffer_data_len, rw_buffer_empty_space_len
<1> QED BY <1>1, <1>2, <1>3

LEMMA FixedType ==
    ASSUME NEW v \in Nat, NEW k \in Nat
    PROVE  write_le(v, k) \in Bytes /\ Reverse(write_le(v, k)) \in Bytes
<1>1. \A i \in 1..k : (v \div Power(BYTE)[i - 1]) % BYTE \in Byte
  <2>1. SUFFICES ASSUME NEW i \in 1..k PROVE (v \div Power(BYTE)[i - 1]) % BYTE \in Byte
    OBVIOUS
  <2>2. BYTE \in Nat \ {0} /\ Power(BYTE)[i - 1] \in Nat \ {0}
    BY Sizes, Powers
  <2>3. v \div Power(BYTE)[i - 1] \in Nat
    BY <2>2, DivMod
  <2> QED BY <2>2, <2>3, DivMod DEF Byte
<1>2. write_le(v, k) \in Bytes
  BY <1>1 DEF write_le, Bytes
<1> QED BY <1>2, ReverseFacts

LEMMA ZigzagType ==
    ASSUME NEW n \in 0..(WORD - 1)
    PROVE  zigzag_encode(Signed(n)) \in Nat
  BY Sizes DEF zigzag_encode, Signed

\* Whatever the format, numbers are written as bytes.
LEMMA EncodeType ==
    ASSUME NEW f \in Formats, NEW v \in Values(f)
    PROVE  Encode(f, v) \in Bytes
<1>1. Widths \subseteq Nat /\ Numbers \subseteq 0..(WORD - 1) /\ Numbers \subseteq Nat
  BY RwBufferAssumption
<1>2. CASE f[1] = "be"
  <2>1. f[2] \in Nat
    BY <1>1, <1>2 DEF Formats
  <2>2. v \in Nat
    BY <1>1, <1>2 DEF Values
  <2>3. Encode(f, v) = Reverse(write_le(v, f[2]))
    BY <1>2 DEF Encode
  <2> QED BY <2>1, <2>2, <2>3, FixedType
<1>3. CASE f[1] = "le"
  <2>1. f[2] \in Nat
    BY <1>1, <1>3 DEF Formats
  <2>2. v \in Nat
    BY <1>1, <1>3 DEF Values
  <2>3. Encode(f, v) = write_le(v, f[2])
    BY <1>3 DEF Encode
  <2> QED BY <2>1, <2>2, <2>3, FixedType
<1>4. CASE f[1] = "gve"
  <2>1. v \in Nat
    BY <1>1, <1>4 DEF Values
  <2>2. Encode(f, v) = gve_put_u64[v]
    BY <1>4 DEF Encode
  <2> QED BY <2>1, <2>2, GvePut
<1>5. CASE f[1] = "zigzag"
  <2>1. v \in {Signed(n) : n \in Numbers}
    BY <1>5 DEF Values
  <2>2. zigzag_encode(v) \in Nat
    BY <1>1, <2>1, ZigzagType
  <2>3. Encode(f, v) = gve_put_u64[zigzag_encode(v)]
    BY <1>5 DEF Encode
  <2> QED BY <2>2, <2>3, GvePut
<1>6. f[1] \in {"be", "le", "gve", "zigzag"}
  BY DEF Formats
<1> QED BY <1>2, <1>3, <1>4, <1>5, <1>6

\* gve_get_u64 consumes no more than there is.
LEMMA GveGetUses ==
    ASSUME NEW s \in Bytes
    PROVE  /\ gve_get_u64(s).used \in 0..Len(s) /\ gve_get_u64(s).ok \in BOOLEAN
           /\ gve_get_u64(s) = [ok |-> gve_get_u64(s).ok, used |-> gve_get_u64(s).used,
                                val |-> gve_get_u64(s).val]
<1> DEFINE ends == {i \in 1..Len(s) : s[i] < GROUP \/ i = MaxGroups}
           used == IF ends = {} THEN Len(s) ELSE CHOOSE i \in ends : \A j \in ends : i =< j
<1>1. Len(s) \in Nat /\ ends \in SUBSET Nat /\ ends \subseteq 1..Len(s)
  BY DEF Bytes
<1>2. \E v : gve_get_u64(s) = [ok |-> ends # {}, used |-> used, val |-> v]
  BY DEF gve_get_u64
<1> HIDE DEF ends
<1>3. used \in 0..Len(s)
  <2>1. CASE ends = {}
    BY <1>1, <2>1
  <2>2. CASE ends # {}
    <3>1. \E i \in ends : \A j \in ends : i =< j
      BY <1>1, <2>2, Least
    <3>2. used \in ends
      BY <2>2, <3>1
    <3> HIDE DEF used
    <3> QED BY <1>1, <3>2
  <2> QED BY <2>1, <2>2
<1> HIDE DEF used
<1> QED BY <1>2, <1>3

\* Reading a number consumes some of the data, and no more.
LEMMA DecodeUses ==
    ASSUME TypeOK, NEW f \in Formats
    PROVE  Decode(f).used \in 0..(wpos - offset) /\ Decode(f).ok \in BOOLEAN
<1> DEFINE n == wpos - offset
           s == At(buffer_data_len)
           g == gve_get_u64(s)
<1>1. n \in Nat /\ buffer_data_len = n /\ s = Window(mem, offset, n)
  BY Lengths DEF At, Window
<1>2. s \in Bytes /\ Len(s) = n
  BY <1>1, Lengths, WindowFacts
<1>3. /\ g.used \in 0..n /\ g.ok \in BOOLEAN
      /\ g = [ok |-> g.ok, used |-> g.used, val |-> g.val]
  <2> HIDE DEF s
  <2> QED BY <1>2, GveGetUses
<1>4. Widths \subseteq Nat
  BY RwBufferAssumption
<1>5. CASE f[1] \in {"be", "le"}
  <2>1. f[2] \in Nat
    BY <1>4, <1>5 DEF Formats
  <2>2. CASE buffer_can_read(f[2])
    <3>1. f[2] =< n
      BY <1>1, <2>1, <2>2 DEF buffer_can_read
    <3>2. Decode(f).used = f[2] /\ Decode(f).ok = TRUE
      BY <1>5, <2>2 DEF Decode
    <3> HIDE DEF n
    <3>3. f[2] \in 0..n
      BY <1>1, <2>1, <3>1
    <3> QED BY <3>2, <3>3 DEF n
  <2>3. CASE ~buffer_can_read(f[2])
    <3>1. Decode(f).used = 0 /\ Decode(f).ok = FALSE
      BY <1>5, <2>3 DEF Decode
    <3>2. 0 \in 0..n
      BY <1>1
    <3> QED BY <3>1, <3>2 DEF n
  <2> QED BY <2>2, <2>3
<1>6. CASE f[1] = "gve"
  <2>1. Decode(f) = [g EXCEPT !.ok = @ /\ g.val < f[2]]
    BY <1>6 DEF Decode
  <2> HIDE DEF g, n
  <2>2. Decode(f).used = g.used /\ Decode(f).ok = (g.ok /\ g.val < f[2])
    BY <1>3, <2>1
  <2> QED BY <1>3, <2>2 DEF n
<1>7. CASE f[1] = "zigzag"
  <2>1. Decode(f) = [g EXCEPT !.val = zigzag_decode(@)]
    BY <1>7 DEF Decode
  <2> HIDE DEF g, n
  <2>2. Decode(f).used = g.used /\ Decode(f).ok = g.ok
    BY <1>3, <2>1
  <2> QED BY <1>3, <2>2 DEF n
<1>8. f[1] \in {"be", "le", "gve", "zigzag"}
  BY DEF Formats
<1> QED BY <1>5, <1>6, <1>7, <1>8

----------------------------------------------------------------------------
(* What the steps of the buffer come to                                    *)

\* The contents of the memory after s was put at position a.
LEMMA MovedFacts ==
    ASSUME TypeOK, NEW a \in Nat, NEW s \in Bytes, a + Len(s) =< Size
    PROVE  /\ Moved(a, s) \in Memory
           /\ \A i \in 1..Len(s) : Moved(a, s)[a + i - 1] = s[i]
           /\ \A i \in 0..(a - 1) : Moved(a, s)[i] = mem[i]
<1> DEFINE n == Len(s)
<1>1. n \in Nat /\ \A i \in 1..n : s[i] \in Byte
  BY DEF Bytes
<1>2. mem \in Memory /\ Size \in Nat /\ DOMAIN mem = 0..(Size - 1)
  BY Lengths DEF Memory
<1>3. Moved(a, s) = [i \in 0..(Size - 1) |-> IF i - a \in 0..(n - 1) THEN s[i - a + 1] ELSE mem[i]]
  BY <1>2 DEF Moved
<1> HIDE DEF n
<1>4. Moved(a, s) \in Memory
  <2>1. ASSUME NEW i \in 0..(Size - 1)
        PROVE  (IF i - a \in 0..(n - 1) THEN s[i - a + 1] ELSE mem[i]) \in Byte
    <3>1. i - a \in 0..(n - 1) => i - a + 1 \in 1..n
      BY <1>1, <1>2
    <3> QED BY <1>1, <1>2, <3>1 DEF Memory
  <2> QED BY <1>3, <2>1 DEF Memory
<1>5. ASSUME NEW i \in 1..n PROVE Moved(a, s)[a + i - 1] = s[i]
  <2>1. /\ a + i - 1 \in 0..(Size - 1) /\ (a + i - 1) - a \in 0..(n - 1)
        /\ (a + i - 1) - a + 1 = i
    BY <1>1, <1>2 DEF n
  <2> QED BY <1>3, <2>1
<1>6. ASSUME NEW i \in 0..(a - 1) PROVE Moved(a, s)[i] = mem[i]
  <2>1. i \in 0..(Size - 1) /\ ~(i - a \in 0..(n - 1))
    BY <1>1, <1>2 DEF n
  <2> QED BY <1>3, <2>1
<1> QED BY <1>4, <1>5, <1>6 DEF n

\* What is queued before and after a step, as windows on the memory.
Queued     == Window(mem, offset, wpos - offset)
QueuedNext == Window(mem', offset', wpos' - offset')

LEMMA QueueIs ==
    /\ At(wpos - offset) = Queued /\ At(wpos - offset)' = QueuedNext
    /\ (Size - wpos)' = Size - wpos'
  BY DEF At, Queued, QueuedNext, Window

\* Both modules mean the same by prefix and suffix.
LEMMA SameWords ==
    \A s, t : /\ Queue!IsPrefix(s, t) <=> IsPrefix(s, t)
              /\ Queue!IsSuffix(s, t) <=> IsSuffix(s, t)
  BY DEF Queue!IsPrefix, IsPrefix, Queue!IsSuffix, IsSuffix, Queue!Reverse, Reverse

\* The type of a state, and what it gives of the queue.
LEMMA TypeNext ==
    ASSUME mem' \in Memory, offset' \in Nat, wpos' \in Nat, offset' =< wpos', wpos' =< Size,
           NEW ok \in BOOLEAN, NEW d \in Bytes, Reply(ok, d)
    PROVE  TypeOK'
  BY Sizes DEF TypeOK, Memory, Bytes, Reply

LEMMA QueuedFacts ==
    ASSUME TypeOK
    PROVE  Queued \in Bytes /\ Len(Queued) = wpos - offset
  BY Lengths, WindowFacts DEF Queued

LEMMA Nothing == <<>> \in Bytes
  BY DEF Bytes

\* A refused call changes nothing.
LEMMA RefusedStep ==
    ASSUME TypeOK, Refused
    PROVE  TypeOK' /\ Queue!Refuse
<1>1. mem' = mem /\ offset' = offset /\ wpos' = wpos /\ Reply(FALSE, <<>>)
  BY DEF Refused
<1>2. TypeOK'
  BY <1>1, Lengths, Nothing, TypeNext
<1>3. QueuedNext = Queued
  BY <1>1 DEF QueuedNext, Queued
<1>4. Queue!Refuse
  BY <1>1, <1>3, QueueIs DEF Queue!Refuse, Queue!Reply, Reply
<1> QED BY <1>2, <1>4

\* Moving the read position within the data shows or hides its start.
LEMMA ReadAtStep ==
    ASSUME TypeOK, NEW to \in Nat, to =< wpos, ReadAt(to)
    PROVE  TypeOK' /\ Queue!SeekRead
<1>1. mem' = mem /\ offset' = to /\ wpos' = wpos /\ Reply(TRUE, <<>>)
  BY DEF ReadAt
<1>2. TypeOK'
  BY <1>1, Lengths, Nothing, TypeNext
<1>3. IsSuffix(Queued, QueuedNext) \/ IsSuffix(QueuedNext, Queued)
  <2>1. CASE offset =< to
    <3> DEFINE k == to - offset
    <3>1. k \in Nat /\ wpos - offset \in Nat /\ k =< wpos - offset /\ offset + (wpos - offset) =< Size
      BY <2>1, Lengths
    <3>2. offset + k = to /\ (wpos - offset) - k = wpos - to
      BY <2>1, Lengths
    <3> HIDE DEF k
    <3>3. IsSuffix(Window(mem, offset + k, (wpos - offset) - k), Window(mem, offset, wpos - offset))
      BY <3>1, Lengths, WindowSplits
    <3> QED BY <1>1, <3>2, <3>3 DEF Queued, QueuedNext
  <2>2. CASE to =< offset
    <3> DEFINE k == offset - to
    <3>1. k \in Nat /\ wpos - to \in Nat /\ k =< wpos - to /\ to + (wpos - to) =< Size
      BY <2>2, Lengths
    <3>2. to + k = offset /\ (wpos - to) - k = wpos - offset
      BY <2>2, Lengths
    <3> HIDE DEF k
    <3>3. IsSuffix(Window(mem, to + k, (wpos - to) - k), Window(mem, to, wpos - to))
      BY <3>1, Lengths, WindowSplits
    <3> QED BY <1>1, <3>2, <3>3 DEF Queued, QueuedNext
  <2> QED BY <2>1, <2>2, Lengths
<1>4. Queue!SeekRead
  BY <1>1, <1>3, QueueIs, SameWords DEF Queue!SeekRead, Queue!NearTail, Queue!Reply, Reply
<1> QED BY <1>2, <1>4

\* Moving the write position after the read position shows or hides the end.
LEMMA WriteAtStep ==
    ASSUME TypeOK, NEW to \in Nat, to >= offset, to =< Size, WriteAt(to)
    PROVE  TypeOK' /\ Queue!SeekWrite
<1>1. mem' = mem /\ offset' = offset /\ wpos' = to /\ Reply(TRUE, <<>>)
  BY DEF WriteAt
<1>2. TypeOK'
  BY <1>1, Lengths, Nothing, TypeNext
<1> DEFINE n == wpos - offset
           k == to - offset
<1>3. n \in Nat /\ k \in Nat /\ offset + n =< Size /\ offset + k =< Size
  BY Lengths
<1>4. Queued = Window(mem, offset, n) /\ QueuedNext = Window(mem, offset, k)
  BY <1>1 DEF Queued, QueuedNext
<1>5. Len(Queued) = wpos - offset /\ Len(QueuedNext) = to - offset
  BY <1>3, <1>4, Lengths, WindowFacts
<1> HIDE DEF n, k
<1>6. IsPrefix(Queued, QueuedNext) \/ IsPrefix(QueuedNext, Queued)
  <2>1. CASE n =< k
    BY <1>3, <1>4, <2>1, Lengths, WindowSplits
  <2>2. CASE k =< n
    BY <1>3, <1>4, <2>2, Lengths, WindowSplits
  <2> QED BY <1>3, <2>1, <2>2
<1>7. /\ Size - wpos' = (Size - wpos) - (Len(QueuedNext) - Len(Queued))
      /\ Size - wpos' \in 0..Size
  BY <1>1, <1>5, Lengths
<1>8. Queue!SeekWrite
  BY <1>1, <1>6, <1>7, QueueIs, SameWords DEF Queue!SeekWrite, Queue!NearHead, Queue!Reply, Reply
<1> QED BY <1>2, <1>8

LEMMA EmptyStep ==
    ASSUME TypeOK, rw_buffer_empty
    PROVE  TypeOK' /\ Queue!Empty
<1>1. mem' = mem /\ offset' = 0 /\ wpos' = 0 /\ Reply(TRUE, <<>>)
  BY DEF rw_buffer_empty
<1>2. TypeOK'
  <2>1. 0 \in Nat /\ 0 =< 0 /\ 0 =< Size
    BY Sizes
  <2> QED BY <1>1, <2>1, Lengths, Nothing, TypeNext
<1>3. QueuedNext = <<>>
  <2>1. QueuedNext = Window(mem, 0, 0)
    BY <1>1 DEF QueuedNext
  <2>2. Window(mem, 0, 0) \in Bytes /\ Len(Window(mem, 0, 0)) = 0
    BY Lengths, WindowFacts
  <2> QED BY <2>1, <2>2, EmptySeq DEF Bytes
<1>4. Size - wpos' = Size
  BY <1>1, Sizes
<1>5. Queue!Empty
  BY <1>1, <1>3, <1>4, QueueIs DEF Queue!Empty, Queue!Reply, Reply
<1> QED BY <1>2, <1>5

\* Bytes that fit go behind the others, which stay as they are.
LEMMA WriteStep ==
    ASSUME TypeOK, NEW s \in Bytes, NEW after, Write(s, after)
    PROVE  TypeOK' /\ (Queue!Put \/ Queue!Refuse)
<1>1. CASE ~rw_buffer_can_write(Len(s))
  BY <1>1, RefusedStep DEF Write, Or
<1>2. CASE rw_buffer_can_write(Len(s))
  <2> DEFINE n == Len(s)
             k == wpos - offset
  <2>1. n \in Nat /\ n =< Size - wpos /\ k \in Nat
    BY <1>2, Lengths DEF rw_buffer_can_write, Bytes
  <2>2. mem' = Moved(wpos, s) /\ offset' = offset /\ wpos' = wpos + n /\ Reply(TRUE, <<>>)
    BY <1>2 DEF Write, Or
  <2>3. /\ mem' \in Memory /\ \A i \in 0..(wpos - 1) : mem'[i] = mem[i]
    <3>1. wpos \in Nat /\ wpos + n =< Size
      BY <2>1, Lengths
    <3> QED BY <2>2, <3>1, MovedFacts
  <2> HIDE DEF n
  <2>4. wpos + n \in Nat /\ offset =< wpos + n /\ wpos + n =< Size
    BY <2>1, Lengths
  <2>5. TypeOK'
    BY <2>2, <2>3, <2>4, Lengths, Nothing, TypeNext
  <2>6. offset \in Nat /\ k + n \in Nat /\ offset + (k + n) =< Size /\ k =< k + n
    BY <2>1, <2>4, Lengths
  <2>7. QueuedNext = Window(mem', offset, k + n)
    <3>1. wpos' - offset = k + n
      BY <2>1, <2>2, Lengths
    <3> HIDE DEF k
    <3> QED BY <2>2, <3>1 DEF QueuedNext
  <2>8. QueuedNext \in Bytes /\ Len(QueuedNext) = k + n
    BY <2>3, <2>6, <2>7, WindowFacts
  <2>9. Queued \in Bytes /\ Len(Queued) = k
    BY QueuedFacts
  <2> HIDE DEF k
  <2>10. ASSUME NEW i \in 1..k PROVE Queued[i] = QueuedNext[i]
    <3>1. i \in 1..(k + n) /\ offset + i - 1 \in 0..(wpos - 1)
      BY <2>1, Lengths DEF k
    <3>2. Queued[i] = mem[offset + i - 1]
      BY Lengths, WindowFacts DEF Queued, k
    <3>3. QueuedNext[i] = mem'[offset + i - 1]
      BY <2>3, <2>6, <2>7, <3>1, WindowFacts
    <3> QED BY <2>3, <3>1, <3>2, <3>3
  <2>11. IsPrefix(Queued, QueuedNext)
    <3>1. k =< k + n
      BY <2>1
    <3> QED BY <2>8, <2>9, <2>10, <3>1, PrefixOf
  <2>12. /\ Len(QueuedNext) - Len(Queued) =< Size - wpos
         /\ Size - wpos' = (Size - wpos) - (Len(QueuedNext) - Len(Queued))
    BY <2>1, <2>2, <2>8, <2>9, Lengths
  <2>13. Queue!Put
    BY <2>2, <2>11, <2>12, QueueIs, SameWords DEF Queue!Put, Queue!Reply, Reply
  <2> QED BY <2>5, <2>13
<1> QED BY <1>1, <1>2

\* Taking n bytes: the answer is the start of what was queued.
LEMMA TakeStep ==
    ASSUME TypeOK, NEW n \in 0..(wpos - offset),
           mem' = mem, wpos' = wpos, offset' = offset + n
    PROVE  /\ mem' \in Memory /\ offset' \in Nat /\ wpos' \in Nat
           /\ offset' =< wpos' /\ wpos' =< Size
           /\ At(n) \in Bytes /\ IsPrefix(At(n), Queued)
           /\ Queued = At(n) \o QueuedNext /\ IsSuffix(QueuedNext, Queued)
<1> DEFINE k == wpos - offset
<1>1. n \in Nat /\ k \in Nat /\ n =< k /\ offset + k =< Size
  BY Lengths
<1>2. /\ mem' \in Memory /\ offset' \in Nat /\ wpos' \in Nat
      /\ offset' =< wpos' /\ wpos' =< Size
  BY <1>1, Lengths
<1>3. At(n) = Window(mem, offset, n) /\ Queued = Window(mem, offset, k)
  BY DEF At, Window, Queued
<1>4. QueuedNext = Window(mem, offset + n, k - n)
  <2>1. wpos - (offset + n) = k - n
    BY <1>1, Lengths
  <2> HIDE DEF k
  <2> QED BY <2>1 DEF QueuedNext
<1>5. At(n) \in Bytes
  <2>1. offset + n =< Size
    BY <1>1, Lengths
  <2> QED BY <1>1, <1>3, <2>1, Lengths, WindowFacts
<1> HIDE DEF k
<1>6. /\ Queued = At(n) \o QueuedNext
      /\ IsPrefix(At(n), Queued) /\ IsSuffix(QueuedNext, Queued)
  <2>1. mem \in Memory /\ offset \in Nat
    BY Lengths
  <2>2. /\ Window(mem, offset, k) = Window(mem, offset, n) \o Window(mem, offset + n, k - n)
        /\ IsPrefix(Window(mem, offset, n), Window(mem, offset, k))
        /\ IsSuffix(Window(mem, offset + n, k - n), Window(mem, offset, k))
    BY <1>1, <2>1, WindowSplits
  <2> QED BY <1>3, <1>4, <2>2, Zenon
<1> QED BY <1>2, <1>5, <1>6

LEMMA GetStep ==
    ASSUME TypeOK, NEW f \in Formats, get(f)
    PROVE  TypeOK' /\ (Queue!Get \/ Queue!GetSpoilt)
<1> DEFINE n == Decode(f).used
           ok == Decode(f).ok
<1>1. n \in 0..(wpos - offset) /\ ok \in BOOLEAN
  BY DecodeUses
<1>2. /\ mem' = mem /\ wpos' = wpos /\ offset' = offset + n
      /\ Reply(ok, IF ok THEN At(n) ELSE <<>>)
  BY DEF get
<1> HIDE DEF n, ok
<1>3. /\ mem' \in Memory /\ offset' \in Nat /\ wpos' \in Nat
      /\ offset' =< wpos' /\ wpos' =< Size
      /\ At(n) \in Bytes
      /\ Queued = At(n) \o QueuedNext /\ IsSuffix(QueuedNext, Queued)
  BY <1>1, <1>2, TakeStep
<1>4. (IF ok THEN At(n) ELSE <<>>) \in Bytes
  BY <1>3, Nothing
<1>5. TypeOK'
  BY <1>1, <1>2, <1>3, <1>4, TypeNext
<1>6. UNCHANGED (Size - wpos)
  BY <1>2
<1>7. CASE ok
  <2>1. answer' = [ok |-> ok, data |-> At(n)]
    BY <1>2, <1>7 DEF Reply
  <2>2. Queued = answer'.data \o QueuedNext /\ answer'.ok
    BY <1>3, <1>7, <2>1
  <2>3. Queue!Get
    BY <1>6, <2>2, QueueIs DEF Queue!Get
  <2> QED BY <1>5, <2>3
<1>8. CASE ~ok
  <2>1. answer' = [ok |-> FALSE, data |-> <<>>]
    BY <1>1, <1>2, <1>8 DEF Reply
  <2>2. Queue!GetSpoilt
    BY <1>3, <1>6, <2>1, QueueIs, SameWords DEF Queue!GetSpoilt, Queue!Reply
  <2> QED BY <1>5, <2>2
<1> QED BY <1>7, <1>8

LEMMA CopyStep ==
    ASSUME TypeOK, NEW n \in Nat, buffer_copy_bytes(n)
    PROVE  TypeOK' /\ (Queue!Peek \/ Queue!Refuse)
<1>1. CASE ~buffer_can_read(n)
  BY <1>1, RefusedStep DEF buffer_copy_bytes, Or
<1>2. CASE buffer_can_read(n)
  <2>1. mem' = mem /\ wpos' = wpos /\ offset' = offset /\ Reply(TRUE, At(n))
    BY <1>2 DEF buffer_copy_bytes, Or
  <2> DEFINE k == wpos - offset
  <2>2. k \in Nat /\ n =< k /\ offset + k =< Size /\ offset + n =< Size
    BY <1>2, Lengths DEF buffer_can_read
  <2>3. At(n) = Window(mem, offset, n) /\ Queued = Window(mem, offset, k)
    BY DEF At, Window, Queued
  <2> HIDE DEF k
  <2>4. At(n) \in Bytes
    BY <2>2, <2>3, Lengths, WindowFacts
  <2>5. IsPrefix(At(n), Queued)
    <3>1. IsPrefix(Window(mem, offset, n), Window(mem, offset, k))
      BY <2>2, Lengths, WindowSplits
    <3> QED BY <2>3, <3>1, Zenon
  <2>6. TypeOK'
    BY <2>1, <2>4, Lengths, TypeNext
  <2>7. QueuedNext = Queued /\ answer'.data = At(n) /\ answer'.ok = TRUE
    BY <2>1 DEF QueuedNext, Queued, Reply
  <2>8. Queue!Peek
    BY <2>1, <2>5, <2>7, QueueIs, SameWords DEF Queue!Peek
  <2> QED BY <2>6, <2>8
<1> QED BY <1>1, <1>2

LEMMA ReadStep ==
    ASSUME TypeOK, NEW n \in Nat, buffer_read_bytes(n)
    PROVE  TypeOK' /\ (Queue!Get \/ Queue!Refuse)
<1>1. CASE ~buffer_can_read(n)
  BY <1>1, RefusedStep DEF buffer_read_bytes, Or
<1>2. CASE buffer_can_read(n)
  <2>1. mem' = mem /\ wpos' = wpos /\ offset' = offset + n /\ Reply(TRUE, At(n))
    BY <1>2 DEF buffer_read_bytes, Or
  <2>2. n \in 0..(wpos - offset)
    BY <1>2, Lengths DEF buffer_can_read
  <2>3. /\ mem' \in Memory /\ offset' \in Nat /\ wpos' \in Nat
        /\ offset' =< wpos' /\ wpos' =< Size
        /\ At(n) \in Bytes /\ Queued = At(n) \o QueuedNext
    BY <2>1, <2>2, TakeStep
  <2>4. TypeOK'
    BY <2>1, <2>3, TypeNext
  <2>5. answer'.data = At(n) /\ answer'.ok = TRUE /\ UNCHANGED (Size - wpos)
    BY <2>1 DEF Reply
  <2>6. Queue!Get
    BY <2>3, <2>5, QueueIs DEF Queue!Get
  <2> QED BY <2>4, <2>6
<1> QED BY <1>1, <1>2

\* Compacting keeps what is queued.
LEMMA ShiftStep ==
    ASSUME TypeOK, rw_buffer_shift_data
    PROVE  TypeOK' /\ Queue!Compact
<1> DEFINE k == wpos - offset
           s == At(buffer_data_len)
<1>1. k \in Nat /\ 0 + k =< Size /\ k =< Size /\ Reply(TRUE, <<>>)
  <2>1. k \in Nat /\ 0 + k =< Size /\ k =< Size
    BY Lengths
  <2>2. Reply(TRUE, <<>>)
    BY DEF rw_buffer_shift_data
  <2> QED BY <2>1, <2>2
<1>2. Queued \in Bytes /\ Len(Queued) = k
  BY QueuedFacts
<1>3. CASE offset = 0
  <2>1. mem' = mem /\ wpos' = wpos /\ offset' = offset
    BY <1>3 DEF rw_buffer_shift_data
  <2>2. TypeOK'
    BY <1>1, <2>1, Lengths, Nothing, TypeNext
  <2>3. QueuedNext = Queued
    BY <2>1 DEF QueuedNext, Queued
  <2>4. Size - wpos' = Size - Len(Queued)
    BY <1>2, <1>3, <2>1, Lengths
  <2>5. Queue!Compact
    BY <1>1, <2>3, <2>4, QueueIs DEF Queue!Compact, Queue!Reply, Reply
  <2> QED BY <2>2, <2>5
<1>4. CASE offset # 0
  <2>1. mem' = Moved(0, s) /\ offset' = 0 /\ wpos' = k
    BY <1>4, Lengths DEF rw_buffer_shift_data
  <2>2. s = Queued
    BY Lengths, QueueIs
  <2> HIDE DEF s, k
  <2>3. /\ mem' \in Memory /\ \A i \in 1..k : mem'[0 + i - 1] = Queued[i]
    BY <1>1, <1>2, <2>1, <2>2, MovedFacts
  <2>4. TypeOK'
    <3>1. 0 \in Nat /\ 0 =< k
      BY <1>1
    <3> QED BY <1>1, <2>1, <2>3, <3>1, Nothing, TypeNext
  <2>5. QueuedNext = Window(mem', 0, k)
    BY <1>1, <2>1 DEF QueuedNext
  <2>6. /\ QueuedNext \in Bytes /\ Len(QueuedNext) = k
        /\ \A i \in 1..k : QueuedNext[i] = mem'[0 + i - 1]
    BY <1>1, <2>3, <2>5, WindowFacts
  <2>7. QueuedNext = Queued
    BY <1>2, <2>3, <2>6, EqualBytes
  <2>8. Size - wpos' = Size - Len(Queued)
    BY <1>2, <2>1
  <2>9. Queue!Compact
    BY <1>1, <2>7, <2>8, QueueIs DEF Queue!Compact, Queue!Reply, Reply
  <2> QED BY <2>4, <2>9
<1> QED BY <1>3, <1>4

----------------------------------------------------------------------------
(* Theorems                                                                *)

LEMMA InitFacts == Init => TypeOK /\ Queue!Init
<1> SUFFICES ASSUME Init PROVE TypeOK /\ Queue!Init
  OBVIOUS
<1>1. PICK n \in 0..Size : rw_buffer_init(n)
  BY DEF Init
<1>2. n \in Nat /\ n =< Size
  BY Sizes
<1>3. offset = 0 /\ wpos = n /\ answer = [ok |-> TRUE, data |-> <<>>]
  BY <1>1 DEF rw_buffer_init
<1>4. mem \in [0..(Size - 1) -> Byte]
  BY <1>1, RwBufferAssumption DEF rw_buffer_init
<1>5. TypeOK
  BY <1>2, <1>3, <1>4, Nothing DEF TypeOK, Bytes
<1>6. Queued \in Bytes /\ Len(Queued) = n
  BY <1>2, <1>3, <1>5, QueuedFacts
<1>7. Queue!Init
  BY <1>3, <1>6, QueueIs DEF Queue!Init, Bytes
<1> QED BY <1>5, <1>7

\* Arguments of the calls are numbers; what a seek adds up to, modulo a size_t,
\* is one too.
LEMMA Arguments ==
    ASSUME NEW n \in Counts
    PROVE  n \in Nat /\ \A p \in Nat : size_t(p + n) \in Nat
<1>1. n \in Nat
  BY Sizes DEF Counts
<1> QED BY <1>1, SizeT

\* Each call keeps the type and is a step of the queue.
LEMMA CallStep ==
    ASSUME TypeOK, Next
    PROVE  TypeOK' /\ Queue!Next
<1> USE DEF Queue!Next, Or
<1>1. ASSUME NEW n \in Counts, buffer_seek_set(n)
      PROVE  TypeOK' /\ Queue!Next
  BY <1>1, Arguments, ReadAtStep, RefusedStep DEF buffer_seek_set
<1>2. ASSUME NEW n \in Counts, buffer_seek_cur(n)
      PROVE  TypeOK' /\ Queue!Next
  <2>1. size_t(offset + n) \in Nat
    BY Arguments, Lengths
  <2> QED BY <1>2, <2>1, ReadAtStep, RefusedStep DEF buffer_seek_cur
<1>3. ASSUME NEW n \in Counts, buffer_seek_end(n)
      PROVE  TypeOK' /\ Queue!Next
  <2>1. CASE n =< wpos
    <3>1. wpos - n \in Nat /\ wpos - n =< wpos
      BY <2>1, Arguments, Lengths
    <3> QED BY <1>3, <2>1, <3>1, ReadAtStep DEF buffer_seek_end
  <2> QED BY <1>3, <2>1, RefusedStep DEF buffer_seek_end
<1>4. ASSUME NEW n \in Counts, rw_buffer_seek_write_set(n)
      PROVE  TypeOK' /\ Queue!Next
  BY <1>4, Arguments, WriteAtStep, RefusedStep DEF rw_buffer_seek_write_set, Ordered
<1>5. ASSUME NEW n \in Counts, rw_buffer_seek_write_cur(n)
      PROVE  TypeOK' /\ Queue!Next
  <2> DEFINE to == size_t(wpos + n)
  <2>1. to \in Nat
    BY Arguments, Lengths
  <2>2. Or(to >= wpos /\ to =< Size, WriteAt(to))
    BY <1>5 DEF rw_buffer_seek_write_cur
  <2> HIDE DEF to
  <2>3. to >= wpos => to >= offset
    BY <2>1, Lengths
  <2> QED BY <2>1, <2>2, <2>3, WriteAtStep, RefusedStep
<1>6. ASSUME NEW n \in Counts, rw_buffer_seek_write_end(n)
      PROVE  TypeOK' /\ Queue!Next
  <2>1. CASE n =< Size
    <3>1. Size - n \in Nat /\ Size - n =< Size
      BY <2>1, Arguments, Sizes
    <3> QED BY <1>6, <2>1, <3>1, WriteAtStep DEF rw_buffer_seek_write_end, Ordered
  <2> QED BY <1>6, <2>1, RefusedStep DEF rw_buffer_seek_write_end
<1>7. ASSUME NEW n \in Counts, buffer_copy_bytes(n)
      PROVE  TypeOK' /\ Queue!Next
  BY <1>7, Arguments, CopyStep
<1>8. ASSUME NEW n \in Counts, buffer_read_bytes(n)
      PROVE  TypeOK' /\ Queue!Next
  BY <1>8, Arguments, ReadStep
<1>9. ASSUME NEW f \in Formats, get(f)
      PROVE  TypeOK' /\ Queue!Next
  BY <1>9, GetStep
<1>10. ASSUME NEW f \in Formats, NEW v \in Values(f), put(f, v)
       PROVE  TypeOK' /\ Queue!Next
  BY <1>10, EncodeType, WriteStep DEF put
<1>11. ASSUME NEW s \in Chunks, rw_buffer_write_bytes(s)
       PROVE  TypeOK' /\ Queue!Next
  <2>1. s \in Bytes
    BY RwBufferAssumption DEF Bytes
  <2> QED BY <1>11, <2>1, WriteStep DEF rw_buffer_write_bytes
<1>12. ASSUME rw_buffer_shift_data \/ rw_buffer_empty
       PROVE  TypeOK' /\ Queue!Next
  BY <1>12, ShiftStep, EmptyStep
<1> HIDE DEF Queue!Next, Or
<1> QED BY <1>1, <1>2, <1>3, <1>4, <1>5, <1>6, <1>7, <1>8, <1>9, <1>10, <1>11, <1>12 DEF Next

LEMMA StepFacts == TypeOK /\ [Next]_vars => TypeOK' /\ [Queue!Next]_(Queue!vars)
<1> SUFFICES ASSUME TypeOK, [Next]_vars PROVE TypeOK' /\ [Queue!Next]_(Queue!vars)
  OBVIOUS
<1>1. CASE Next
  BY <1>1, CallStep
<1>2. CASE UNCHANGED vars
  <2>1. mem' = mem /\ offset' = offset /\ wpos' = wpos /\ answer' = answer
    BY <1>2 DEF vars
  <2>2. TypeOK'
    BY <2>1 DEF TypeOK
  <2>3. QueuedNext = Queued /\ UNCHANGED (Size - wpos)
    BY <2>1 DEF Queued, QueuedNext
  <2>4. UNCHANGED Queue!vars
    BY <2>1, <2>3, QueueIs DEF Queue!vars
  <2> QED BY <2>2, <2>4
<1> QED BY <1>1, <1>2

\* Whatever is written, read, compacted or sought, short of a write position
\* before the read position (Ordered), and whatever number a call is given, up
\* to the last of a size_t, the read position of a buffer of
\* rwbuffer.h is not after the write position nor that after the end of the
\* memory, and answers are bytes of the memory.
THEOREM BufferTypes == Spec => []TypeOK
  BY InitFacts, StepFacts, PTL DEF Spec

\* Every call of rwbuffer.h is a step of a queue of bytes: nothing that is
\* queued is lost, changed or reordered by writing, by compacting or by a
\* refused call, and what reading returns is what was at the front.
THEOREM BufferIsQueue == Spec => ActsAsQueue
  BY InitFacts, StepFacts, BufferTypes, PTL DEF Spec, ActsAsQueue, Queue!Spec

----------------------------------------------------------------------------
(* Variable-length integers end where they were put                        *)

\* All bytes of a variable-length integer but the last are marked.
Framed(s) ==
    Len(s) > 0 /\ s[Len(s)] < GROUP /\ \A i \in 1..(Len(s) - 1) : ~(s[i] < GROUP)

LEMMA FramedRound ==
    ASSUME NEW v \in Nat, ~(v < GROUP) => Framed(gve_put_u64[v \div GROUP])
    PROVE  Framed(gve_put_u64[v])
<1>1. gve_put_u64[v] = Put(gve_put_u64, v)
  <2> HIDE DEF gve_put_u64
  <2> QED BY GvePut
<1>2. CASE v < GROUP
  <2>1. gve_put_u64[v] = <<v>>
    BY <1>1, <1>2 DEF Put
  <2> HIDE DEF gve_put_u64
  <2> QED BY <1>2, <2>1 DEF Framed
<1>3. CASE ~(v < GROUP)
  <2> DEFINE b == GROUP + (v % GROUP)
             s == gve_put_u64[v \div GROUP]
             n == Len(s)
  <2>1. b \in Byte /\ ~(b < GROUP) /\ v \div GROUP \in Nat
    <3>1. v % GROUP \in 0..(GROUP - 1)
      BY Sizes
    <3>2. ~(b < GROUP)
      BY <3>1, Sizes
    <3> QED BY <1>3, <3>2, GroupFacts
  <2>2. s \in Seq(Byte) /\ Framed(s) /\ n \in Nat
    BY <1>3, <2>1, GvePut DEF Bytes
  <2>3. gve_put_u64[v] = <<b>> \o s
    BY <1>1, <1>3 DEF Put
  <2> HIDE DEF b, s
  <2>4. n > 0 /\ s[n] < GROUP /\ \A i \in 1..(n - 1) : ~(s[i] < GROUP)
    BY <2>2 DEF Framed
  <2> DEFINE t == <<b>> \o s
  <2>5. Len(t) = n + 1 /\ t[1] = b /\ \A i \in 2..(n + 1) : t[i] = s[i - 1]
    BY <2>1, <2>2, ConcatProperties
  <2> HIDE DEF t, n
  <2>6. t[n + 1] < GROUP
    <3>1. n + 1 \in 2..(n + 1) /\ (n + 1) - 1 = n
      BY <2>2, <2>4
    <3> QED BY <2>4, <2>5, <3>1
  <2>7. ASSUME NEW i \in 1..n PROVE ~(t[i] < GROUP)
    <3>1. CASE i = 1
      BY <2>1, <2>5, <3>1
    <3>2. CASE i # 1
      <4>1. i \in 2..(n + 1) /\ i - 1 \in 1..(n - 1)
        BY <2>2, <3>2
      <4> QED BY <2>4, <2>5, <4>1
    <3> QED BY <3>1, <3>2
  <2>8. Framed(t)
    BY <2>2, <2>5, <2>6, <2>7 DEF Framed
  <2> QED BY <2>3, <2>8 DEF t
<1> QED BY <1>2, <1>3

LEMMA AllFramed == \A v \in Nat : Framed(gve_put_u64[v])
<1> DEFINE bad == {x \in Nat : ~Framed(gve_put_u64[x])}
<1>1. SUFFICES ASSUME NEW v \in bad PROVE FALSE
  OBVIOUS
<1>2. PICK x \in bad : \A y \in bad : x =< y
  <2>1. bad \in SUBSET Nat /\ bad # {}
    BY <1>1
  <2> HIDE DEF bad
  <2> QED BY <2>1, Least
<1>3. x \in Nat /\ ~Framed(gve_put_u64[x])
  OBVIOUS
<1>4. ~(x < GROUP) => Framed(gve_put_u64[x \div GROUP])
  <2>1. ~(x < GROUP) => x \div GROUP \in Nat /\ ~(x =< x \div GROUP)
    BY <1>3, GroupFacts
  <2> QED BY <1>2, <2>1
<1> QED BY <1>3, <1>4, FramedRound

\* gve_get_u64 consumes exactly the bytes gve_put_u64 has put for a number,
\* whatever follows them in the buffer, when there are no more of them than it
\* has rounds.
THEOREM GveTakesWhatWasPut ==
    ASSUME NEW v \in Nat, Len(gve_put_u64[v]) =< Rounds, NEW t \in Seq(Byte)
    PROVE  /\ gve_get_u64(gve_put_u64[v] \o t).ok
           /\ gve_get_u64(gve_put_u64[v] \o t).used = Len(gve_put_u64[v])
<1> DEFINE s == gve_put_u64[v]
           n == Len(s)
           w == s \o t
           ends == {i \in 1..Len(w) : w[i] < GROUP \/ i = MaxGroups}
           used == IF ends = {} THEN Len(w) ELSE CHOOSE i \in ends : \A j \in ends : i =< j
<1>1. s \in Seq(Byte) /\ Framed(s) /\ n =< Rounds
  BY GvePut, AllFramed DEF Bytes
<1> HIDE DEF s
<1>2. n \in Nat /\ Rounds \in Nat /\ Len(t) \in Nat
  BY <1>1, RwBufferAssumption
<1>3. w \in Seq(Byte) /\ Len(w) = n + Len(t) /\ \A i \in 1..n : w[i] = s[i]
  <2>1. \A i \in 1..n : i \in 1..(n + Len(t)) /\ i =< n
    BY <1>2
  <2> QED BY <1>1, <2>1, ConcatProperties
<1>4. \E x : gve_get_u64(w) = [ok |-> ends # {}, used |-> used, val |-> x]
  BY DEF gve_get_u64
<1> HIDE DEF w
<1>5. n > 0 /\ s[n] < GROUP /\ \A i \in 1..(n - 1) : ~(s[i] < GROUP)
  BY <1>1 DEF Framed
<1>6. n \in ends
  <2>1. n \in 1..Len(w) /\ n \in 1..n
    BY <1>2, <1>3, <1>5
  <2>2. w[n] < GROUP
    BY <1>3, <1>5, <2>1
  <2> QED BY <2>1, <2>2
<1>7. ASSUME NEW j \in ends PROVE n =< j
  <2>1. SUFFICES ASSUME j < n PROVE FALSE
    BY <1>2
  <2>2. j \in 1..(n - 1) /\ j \in 1..n /\ j # MaxGroups
    BY <1>1, <1>2, <2>1 DEF MaxGroups
  <2>3. ~(w[j] < GROUP)
    BY <1>3, <1>5, <2>2
  <2> QED BY <2>2, <2>3
<1>8. ends \subseteq Nat
  OBVIOUS
<1> HIDE DEF n, ends
<1>9. used = n
  <2>1. \A i \in ends : (\A j \in ends : i =< j) => i = n
    BY <1>2, <1>6, <1>7, <1>8
  <2>2. \E i \in ends : \A j \in ends : i =< j
    BY <1>6, <1>7
  <2>3. used = CHOOSE i \in ends : \A j \in ends : i =< j
    BY <1>6
  <2> QED BY <2>1, <2>2, <2>3
<1> HIDE DEF used
<1>10. ends # {}
  BY <1>6
<1>11. gve_get_u64(w).ok /\ gve_get_u64(w).used = n
  <2>1. (ends # {}) = TRUE
    BY <1>10
  <2>2. \E x : gve_get_u64(w) = [ok |-> TRUE, used |-> n, val |-> x]
    BY <1>4, <1>9, <2>1
  <2> QED BY <2>2
<1> QED BY <1>11 DEF n, w, s
============================================================================
