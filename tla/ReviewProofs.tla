---------------------------- MODULE ReviewProofs ----------------------------
(***************************************************************************)
(* Proofs about Review, for words and path elements of any width, tables   *)
(* of any length and any hosts.                                            *)
(***************************************************************************)
EXTENDS Review, SafeIntProofs, SequenceTheorems, FunctionTheorems, FiniteSetTheorems,
        WellFoundedInduction

----------------------------------------------------------------------------
(* The token table                                                         *)

\* Sets of numbers have a least element.
LEMMA Least ==
    ASSUME NEW M \in SUBSET Nat, M # {}
    PROVE  \E x \in M : \A y \in M : x =< y
<1>1. PICK x \in M : \A y \in M : ~(<<y, x>> \in OpToRel(<, Nat))
  BY NatLessThanWellFounded, WFMin
<1>2. \A y \in M : ~(y < x)
  BY <1>1 DEF OpToRel
<1> QED BY <1>2

find(ids, t) == token_table_find_token_index(ids, t)

\* token_table_find_token_index gives the first entry with the id, if any.
LEMMA FindFacts ==
    ASSUME NEW T, NEW ids \in Seq(T), NEW t
    PROVE  /\ find(ids, t) \in 0..Len(ids)
           /\ find(ids, t) # 0 => /\ ids[find(ids, t)] = t
                                  /\ \A j \in 1..(find(ids, t) - 1) : ids[j] # t
           /\ find(ids, t) = 0 => \A j \in 1..Len(ids) : ids[j] # t
<1> DEFINE First(i) == ids[i] = t /\ \A j \in 1..(i - 1) : ids[j] # t
           found == {i \in 1..Len(ids) : ids[i] = t}
<1>1. Len(ids) \in Nat
  BY LenProperties
<1>2. CASE found = {}
  <2>1. find(ids, t) = 0
    BY <1>2 DEF find, token_table_find_token_index
  <2> QED BY <1>1, <1>2, <2>1
<1>3. CASE found # {}
  <2>1. \E i \in 1..Len(ids) : First(i)
    <3>1. found \in SUBSET Nat
      BY <1>1
    <3>2. PICK i \in found : \A j \in found : i =< j
      BY <1>3, <3>1, Least
    <3>3. ASSUME NEW j \in 1..(i - 1) PROVE ids[j] # t
      <4>1. j \in 1..Len(ids) /\ ~(i =< j)
        BY <1>1, <3>2
      <4> QED BY <3>2, <4>1
    <3> QED BY <3>2, <3>3
  <2>2. find(ids, t) = CHOOSE i \in 1..Len(ids) : First(i)
    BY <1>3 DEF find, token_table_find_token_index
  <2> HIDE DEF First
  <2>3. find(ids, t) \in 1..Len(ids) /\ First(find(ids, t))
    BY <2>1, <2>2
  <2> QED BY <1>1, <2>3 DEF First
<1> QED BY <1>2, <1>3

\* There is only one first entry.
LEMMA FindUnique ==
    ASSUME NEW T, NEW ids \in Seq(T), NEW i \in 1..Len(ids),
           \A j \in 1..(i - 1) : ids[j] # ids[i]
    PROVE  find(ids, ids[i]) = i
<1> DEFINE k == find(ids, ids[i])
<1>1. k \in 0..Len(ids) /\ Len(ids) \in Nat
  BY FindFacts, LenProperties
<1>2. k # 0
  BY FindFacts
<1>3. ids[k] = ids[i] /\ \A j \in 1..(k - 1) : ids[j] # ids[i]
  BY <1>2, FindFacts
<1> HIDE DEF k
<1>4. ~(k < i)
  BY <1>1, <1>2, <1>3
<1>5. ~(i < k)
  BY <1>1, <1>2, <1>3
<1>6. k = i
  BY <1>1, <1>4, <1>5
<1> QED BY <1>6 DEF k

\* A new id goes to the end, and the other ids stay where they are.
LEMMA FindAppend ==
    ASSUME NEW T, NEW ids \in Seq(T), NEW t \in T, find(ids, t) = 0
    PROVE  /\ find(Append(ids, t), t) = Len(ids) + 1
           /\ \A u : u # t => find(Append(ids, t), u) = find(ids, u)
           /\ \A i \in 1..Len(ids) : find(Append(ids, t), ids[i]) = find(ids, ids[i])
<1> DEFINE s == Append(ids, t)
           n == Len(ids)
<1>1. /\ s \in Seq(T) /\ Len(s) = n + 1 /\ n \in Nat /\ s[n + 1] = t
      /\ \A i \in 1..n : s[i] = ids[i]
  BY AppendProperties, LenProperties
<1>2. \A j \in 1..n : ids[j] # t
  BY FindFacts
<1> HIDE DEF s, n
<1>3. find(s, t) = n + 1
  <2>1. n + 1 \in 1..Len(s) /\ (n + 1) - 1 = n
    BY <1>1
  <2>2. \A j \in 1..((n + 1) - 1) : s[j] # s[n + 1]
    BY <1>1, <1>2, <2>1
  <2>3. find(s, s[n + 1]) = n + 1
    BY <1>1, <2>1, <2>2, FindUnique
  <2> QED BY <1>1, <2>3
<1>4. ASSUME NEW u, u # t PROVE find(s, u) = find(ids, u)
  <2> DEFINE k == find(ids, u)
  <2>1. k \in 0..n
    BY FindFacts DEF n
  <2>2. CASE k = 0
    <3>1. \A j \in 1..n : ids[j] # u
      BY <2>2, FindFacts DEF n
    <3>2. \A j \in 1..Len(s) : s[j] # u
      <4>1. \A j \in 1..(n + 1) : j \in 1..n \/ j = n + 1
        BY <1>1
      <4> QED BY <1>1, <1>4, <3>1, <4>1
    <3>3. find(s, u) \in 0..Len(s) /\ (find(s, u) # 0 => s[find(s, u)] = u)
      BY <1>1, FindFacts
    <3>4. find(s, u) = 0
      BY <1>1, <3>2, <3>3
    <3> QED BY <2>2, <3>4
  <2>3. CASE k # 0
    <3>1. ids[k] = u /\ \A j \in 1..(k - 1) : ids[j] # u
      BY <2>3, FindFacts
    <3> HIDE DEF k
    <3>2. k \in 1..Len(s) /\ k \in 1..n /\ \A j \in 1..(k - 1) : j \in 1..n
      BY <1>1, <2>1, <2>3
    <3>3. s[k] = u /\ \A j \in 1..(k - 1) : s[j] # s[k]
      BY <1>1, <3>1, <3>2
    <3>4. find(s, u) = k
      BY <1>1, <3>2, <3>3, FindUnique
    <3> QED BY <3>4 DEF k
  <2> QED BY <2>2, <2>3
<1> QED BY <1>2, <1>3, <1>4 DEF s, n

----------------------------------------------------------------------------
(* Amounts by entry of the table and by id                                 *)

\* An amount is in the first entry of its token and nowhere else: entry by
\* entry, tokens hold what sums hold for the ids in T.
Books(tokens, ids, sums, T) ==
    /\ \A i \in Slots : tokens[i] # 0 => i =< Len(ids) /\ i = find(ids, ids[i])
    /\ \A t \in T : sums[t] = IF find(ids, t) = 0 THEN 0 ELSE tokens[find(ids, t)]

\* The entries of a table that is not too long.
LEMMA EntryFacts ==
    ASSUME NEW T, NEW ids \in Seq(T), Len(ids) =< TOKEN_MAX_COUNT
    PROVE  /\ Len(ids) \in Nat /\ TOKEN_MAX_COUNT \in Nat
           /\ \A i \in 1..Len(ids) : i \in Slots /\ ids[i] \in T
           /\ \A t : find(ids, t) # 0 => find(ids, t) \in Slots /\ find(ids, t) \in 1..Len(ids)
<1>1. Len(ids) \in Nat /\ TOKEN_MAX_COUNT \in Nat /\ \A i \in 1..Len(ids) : ids[i] \in T
  BY LenProperties, ElementOfSeq, HostsAssumption
<1>2. \A i \in 1..Len(ids) : i \in Slots
  BY <1>1 DEF Slots
<1>3. \A t : find(ids, t) \in 0..Len(ids)
  BY FindFacts
<1>4. \A t : find(ids, t) # 0 => find(ids, t) \in 1..Len(ids)
  BY <1>1, <1>3
<1> QED BY <1>1, <1>2, <1>4

LEMMA BooksZero ==
    ASSUME NEW T, NEW ids \in Seq(T), Len(ids) =< TOKEN_MAX_COUNT
    PROVE  Books(NoTokens, ids, [t \in T |-> 0], T)
<1>1. \A t \in T : find(ids, t) # 0 => NoTokens[find(ids, t)] = 0
  BY EntryFacts DEF NoTokens
<1> QED BY <1>1 DEF Books, NoTokens

LEMMA BooksAppend ==
    ASSUME NEW T, NEW ids \in Seq(T), NEW t \in T, find(ids, t) = 0,
           Len(Append(ids, t)) =< TOKEN_MAX_COUNT,
           NEW tokens, NEW sums, Books(tokens, ids, sums, T)
    PROVE  Books(tokens, Append(ids, t), sums, T)
<1> DEFINE s == Append(ids, t)
           n == Len(ids)
<1>1. /\ n \in Nat /\ Len(s) = n + 1 /\ \A i \in 1..n : s[i] = ids[i]
      /\ n + 1 =< TOKEN_MAX_COUNT /\ TOKEN_MAX_COUNT \in Nat
  BY AppendProperties, LenProperties, HostsAssumption
<1>2. /\ find(s, t) = n + 1 /\ \A u : u # t => find(s, u) = find(ids, u)
      /\ \A i \in 1..n : find(s, ids[i]) = find(ids, ids[i])
  BY FindAppend
<1> HIDE DEF s, n
<1>3. ASSUME NEW i \in Slots, tokens[i] # 0
      PROVE  i =< Len(s) /\ i = find(s, s[i])
  <2>1. i =< n /\ i = find(ids, ids[i])
    BY <1>3 DEF Books, n
  <2>2. i \in 1..n
    BY <1>1, <2>1 DEF Slots
  <2> QED BY <1>1, <1>2, <2>1, <2>2
<1>4. n + 1 \in Slots /\ tokens[n + 1] = 0
  <2>1. n + 1 \in Slots /\ ~(n + 1 =< n)
    BY <1>1 DEF Slots
  <2> QED BY <2>1 DEF Books, n
<1>5. ASSUME NEW u \in T
      PROVE  sums[u] = IF find(s, u) = 0 THEN 0 ELSE tokens[find(s, u)]
  <2>1. CASE u = t
    <3>1. sums[u] = 0
      BY <2>1 DEF Books
    <3> QED BY <1>2, <1>4, <2>1, <3>1
  <2>2. CASE u # t
    BY <1>2, <2>2 DEF Books
  <2> QED BY <2>1, <2>2
<1> QED BY <1>3, <1>5 DEF Books, s

LEMMA BooksChange ==
    ASSUME NEW T, NEW ids \in Seq(T), Len(ids) =< TOKEN_MAX_COUNT,
           NEW t \in T, find(ids, t) # 0, NEW x,
           NEW tokens, NEW sums, DOMAIN tokens = Slots, DOMAIN sums = T,
           Books(tokens, ids, sums, T)
    PROVE  Books([tokens EXCEPT ![find(ids, t)] = x], ids, [sums EXCEPT ![t] = x], T)
<1> DEFINE i == find(ids, t)
           new == [tokens EXCEPT ![i] = x]
           now == [sums EXCEPT ![t] = x]
<1>1. i \in Slots /\ i \in 1..Len(ids) /\ ids[i] = t /\ Len(ids) \in Nat
  BY EntryFacts, FindFacts
<1>2. /\ \A j \in Slots : new[j] = IF j = i THEN x ELSE tokens[j]
      /\ \A u \in T : now[u] = IF u = t THEN x ELSE sums[u]
  BY <1>1
<1>3. i =< Len(ids) /\ i = find(ids, ids[i])
  BY <1>1
<1>4. ASSUME NEW j \in Slots, new[j] # 0
      PROVE  j =< Len(ids) /\ j = find(ids, ids[j])
  <2> HIDE DEF i, new
  <2> QED BY <1>2, <1>3, <1>4 DEF Books
<1>5. ASSUME NEW u \in T
      PROVE  now[u] = IF find(ids, u) = 0 THEN 0 ELSE new[find(ids, u)]
  <2>1. CASE u = t
    BY <1>1, <1>2, <2>1
  <2>2. CASE u # t
    <3>1. now[u] = IF find(ids, u) = 0 THEN 0 ELSE tokens[find(ids, u)]
      BY <1>2, <2>2 DEF Books
    <3>2. find(ids, u) # 0 => find(ids, u) \in Slots /\ find(ids, u) # i
      BY <2>2, EntryFacts, FindFacts
    <3> HIDE DEF i, new, now
    <3> QED BY <1>2, <3>1, <3>2
  <2> QED BY <2>1, <2>2
<1> HIDE DEF new, now
<1>6. Books(new, ids, now, T)
  BY <1>4, <1>5 DEF Books
<1> QED BY <1>6 DEF new, now

----------------------------------------------------------------------------
(* The n-th used entry                                                     *)

Below(W, i) == {j \in W : j < i}

LEMMA UsedFacts ==
    ASSUME NEW tokens
    PROVE  /\ UsedSlots(tokens) \in SUBSET Nat /\ IsFiniteSet(UsedSlots(tokens))
           /\ Cardinality(UsedSlots(tokens)) \in Nat
<1>1. IsFiniteSet(Slots) /\ Slots \subseteq Nat
  BY HostsAssumption, FS_Interval DEF Slots
<1>2. UsedSlots(tokens) \in SUBSET Slots
  BY DEF UsedSlots
<1> QED BY <1>1, <1>2, FS_Subset, FS_CardinalityType

\* The elements of a finite set of numbers are ranked 0, 1, ... by the number
\* of smaller ones: no two alike and none left out.
LEMMA Ranks ==
    ASSUME NEW W \in SUBSET Nat, IsFiniteSet(W)
    PROVE  /\ \A i \in W : Cardinality(Below(W, i)) \in 0..(Cardinality(W) - 1)
           /\ \A i, j \in W : Cardinality(Below(W, i)) = Cardinality(Below(W, j)) => i = j
           /\ \A n \in 0..(Cardinality(W) - 1) :
                 \E i \in W : Cardinality(Below(W, i)) = n
<1> DEFINE rank == [i \in W |-> Cardinality(Below(W, i))]
           R == 0..(Cardinality(W) - 1)
<1>1. ASSUME NEW V \in SUBSET W
      PROVE  IsFiniteSet(V) /\ Cardinality(V) \in Nat /\ Cardinality(V) =< Cardinality(W)
  BY FS_Subset, FS_CardinalityType
<1>2. Cardinality(W) \in Nat
  BY <1>1
<1>3. ASSUME NEW i \in W, NEW V \in SUBSET W, i \in V, Below(W, i) \subseteq V
      PROVE  Cardinality(Below(W, i)) < Cardinality(V)
  <2>1. Below(W, i) \subseteq V /\ Below(W, i) # V /\ Below(W, i) \in SUBSET W
    BY <1>3 DEF Below
  <2>2. /\ Cardinality(Below(W, i)) =< Cardinality(V)
        /\ Cardinality(V) # Cardinality(Below(W, i))
    BY <1>1, <2>1, FS_Subset
  <2>3. Cardinality(Below(W, i)) \in Nat /\ Cardinality(V) \in Nat
    BY <1>1, <2>1
  <2> QED BY <2>2, <2>3
<1>4. ASSUME NEW i \in W
      PROVE  Cardinality(Below(W, i)) \in R
  <2>1. Below(W, i) \in SUBSET W
    BY DEF Below
  <2>2. Cardinality(Below(W, i)) < Cardinality(W) /\ Cardinality(Below(W, i)) \in Nat
    BY <1>1, <1>3, <2>1
  <2> QED BY <1>2, <2>2
<1>5. ASSUME NEW i \in W, NEW j \in W, i < j
      PROVE  Cardinality(Below(W, i)) # Cardinality(Below(W, j))
  <2>1. Below(W, j) \in SUBSET W /\ i \in Below(W, j) /\ Below(W, i) \subseteq Below(W, j)
    <3>1. W \subseteq Nat /\ \A k \in Nat : k < i => k < j
      BY <1>5
    <3> QED BY <1>5, <3>1 DEF Below
  <2>2. Cardinality(Below(W, i)) < Cardinality(Below(W, j))
    BY <1>3, <2>1
  <2>3. Cardinality(Below(W, i)) \in Nat /\ Cardinality(Below(W, j)) \in Nat
    BY <1>2, <1>4
  <2> QED BY <2>2, <2>3
<1>6. \A i, j \in W : Cardinality(Below(W, i)) = Cardinality(Below(W, j)) => i = j
  <2>1. \A i, j \in W : i < j \/ j < i \/ i = j
    OBVIOUS
  <2> QED BY <1>5, <2>1
<1>7. rank \in Injection(W, R)
  <2>1. rank \in [W -> R]
    BY <1>4
  <2>2. \A i, j \in W : rank[i] = rank[j] => i = j
    BY <1>6
  <2> QED BY <2>1, <2>2, Fun_IsInj
<1>8. IsFiniteSet(R) /\ Cardinality(R) = Cardinality(W)
  <2>1. /\ IsFiniteSet(0..(Cardinality(W) - 1))
        /\ Cardinality(0..(Cardinality(W) - 1)) =
              IF 0 > Cardinality(W) - 1 THEN 0 ELSE (Cardinality(W) - 1) - 0 + 1
    BY <1>2, FS_Interval
  <2> QED BY <1>2, <2>1
<1>9. rank \in Surjection(W, R)
  BY <1>7, <1>8, FS_Injection
<1>10. \A n \in R : \E i \in W : rank[i] = n
  <2> HIDE DEF rank, R
  <2> QED BY <1>9, Fun_SurjectionProperties
<1> QED BY <1>4, <1>6, <1>10

\* used_index enumerates the used entries, each once.
LEMMA UsedIndex ==
    ASSUME NEW tokens
    PROVE  /\ \A n \in 0..(Cardinality(UsedSlots(tokens)) - 1) :
                 used_index(tokens, n) \in UsedSlots(tokens)
           /\ \A i \in UsedSlots(tokens) :
                 \E n \in 0..(Cardinality(UsedSlots(tokens)) - 1) : used_index(tokens, n) = i
<1> DEFINE W == UsedSlots(tokens)
<1>1. W \in SUBSET Nat /\ IsFiniteSet(W)
  BY UsedFacts
<1>2. \A n : used_index(tokens, n) = CHOOSE i \in W : Cardinality(Below(W, i)) = n
  BY DEF used_index, Below
<1> HIDE DEF W
<1>3. ASSUME NEW n \in 0..(Cardinality(W) - 1)
      PROVE  used_index(tokens, n) \in W /\ Cardinality(Below(W, used_index(tokens, n))) = n
  <2>1. \E i \in W : Cardinality(Below(W, i)) = n
    BY <1>1, Ranks
  <2> QED BY <1>2, <2>1
<1>4. ASSUME NEW i \in W
      PROVE  \E n \in 0..(Cardinality(W) - 1) : used_index(tokens, n) = i
  <2> DEFINE n == Cardinality(Below(W, i))
  <2>1. n \in 0..(Cardinality(W) - 1)
    BY <1>1, Ranks
  <2>2. used_index(tokens, n) \in W /\ Cardinality(Below(W, used_index(tokens, n))) = n
    BY <1>3, <2>1
  <2>3. used_index(tokens, n) = i
    <3> DEFINE j == used_index(tokens, n)
    <3> HIDE DEF j
    <3>1. j \in W /\ Cardinality(Below(W, j)) = Cardinality(Below(W, i))
      BY <2>2 DEF j
    <3>2. j = i
      BY <1>1, <3>1, Ranks
    <3> QED BY <3>2 DEF j
  <2> QED BY <2>1, <2>3
<1> QED BY <1>3, <1>4 DEF W

----------------------------------------------------------------------------
(* Pages                                                                   *)

M       == BYTE*BYTE*BYTE*BYTE
Paths   == Seq(0..(M - 1))
AllIds  == UNION {h.ids : h \in Hosts}
OutTypes == {"UNKNOWN", "BIP32", "MINERS_FEE", "ADDRESS"}
Texts   == {"id"} \cup OutTypes \cup Paths \cup Int \cup AllIds \cup ({"Minting", "Burning"} \X Int)
Titles  == {"Application", "Address", "Amount", "Change", "Token", "Raw Value", "Fee"}
PageSet == [title : Titles, text : Texts]

LEMMA PageType ==
    ASSUME NEW x \in Texts, NEW title \in Titles
    PROVE  Page(title, x) \in PageSet
  BY DEF Page, PageSet

\* The pages of the tokens in a table: two for each, telling exactly them.
LEMMA PagesTell ==
    ASSUME NEW T, table.ids \in Seq(T), Len(table.ids) =< TOKEN_MAX_COUNT,
           NEW tokens, NEW texts, NEW sums, Books(tokens, table.ids, sums, T),
           T \subseteq Texts, \A i \in UsedSlots(tokens) : texts[i] \in Texts,
           NEW told, told = {<<table.ids[i], texts[i]>> : i \in UsedSlots(tokens)}
    PROVE  /\ TokenPages(tokens, texts) \in Seq(PageSet)
           /\ Len(TokenPages(tokens, texts)) = 2 * Cardinality(told)
           /\ Cardinality(told) \in Nat
           /\ TokensTold(TokenPages(tokens, texts), told)
<1> DEFINE W == UsedSlots(tokens)
           c == Cardinality(W)
           ids == table.ids
           ix(k) == used_index(tokens, k)
           pages == TokenPages(tokens, texts)
           f == [i \in W |-> <<ids[i], texts[i]>>]
<1>1. IsFiniteSet(W) /\ c \in Nat /\ W \subseteq Slots
  BY UsedFacts DEF UsedSlots
<1>2. \A i \in W : i \in 1..Len(ids) /\ i = find(ids, ids[i]) /\ ids[i] \in Texts
  <2>1. \A i \in W : i \in Slots /\ i =< Len(ids) /\ i = find(ids, ids[i])
    BY DEF Books, UsedSlots
  <2>2. Len(ids) \in Nat /\ TOKEN_MAX_COUNT \in Nat
    BY EntryFacts
  <2>3. \A i \in W : i \in 1..Len(ids)
    BY <2>1, <2>2 DEF Slots
  <2> QED BY <2>1, <2>3, EntryFacts
<1>3. Cardinality(told) = c
  <2>1. f \in [W -> told]
    OBVIOUS
  <2>2. \A i, j \in W : f[i] = f[j] => i = j
    BY <1>2
  <2>3. \A x \in told : \E i \in W : f[i] = x
    OBVIOUS
  <2>4. f \in Injection(W, told) /\ f \in Surjection(W, told)
    BY <2>1, <2>2, <2>3, Fun_IsInj, Fun_IsSurj
  <2> QED BY <1>1, <2>4, FS_Surjection
<1>4. /\ \A k \in 0..(c - 1) : ix(k) \in W
      /\ \A i \in W : \E k \in 0..(c - 1) : ix(k) = i
  BY UsedIndex
<1>5. pages = [n \in 1..(2 * c) |->
                 IF n % 2 = 1 THEN Page("Token", ids[ix((n - 1) \div 2)])
                              ELSE Page("Raw Value", texts[ix((n - 1) \div 2)])]
  BY DEF TokenPages
<1> HIDE DEF W, c, ids, ix, pages
<1>6. pages \in Seq(PageSet) /\ Len(pages) = 2 * c
  <2>1. ASSUME NEW n \in 1..(2 * c)
        PROVE  (n - 1) \div 2 \in 0..(c - 1)
    BY <1>1
  <2>2. ASSUME NEW n \in 1..(2 * c)
        PROVE  pages[n] \in PageSet
    <3>1. ix((n - 1) \div 2) \in W
      BY <1>4, <2>1
    <3>2. ids[ix((n - 1) \div 2)] \in Texts /\ texts[ix((n - 1) \div 2)] \in Texts
      BY <1>2, <3>1 DEF W
    <3>3. \A x \in Texts : Page("Token", x) \in PageSet /\ Page("Raw Value", x) \in PageSet
      BY PageType DEF Titles
    <3>4. \/ pages[n] = Page("Token", ids[ix((n - 1) \div 2)])
          \/ pages[n] = Page("Raw Value", texts[ix((n - 1) \div 2)])
      BY <1>5
    <3> QED BY <3>2, <3>3, <3>4
  <2>3. pages \in [1..(2 * c) -> PageSet] /\ 2 * c \in Nat
    <3>1. DOMAIN pages = 1..(2 * c) /\ pages = [n \in 1..(2 * c) |-> pages[n]]
      BY <1>5
    <3> QED BY <1>1, <2>2, <3>1
  <2> QED BY <2>3
<1>7. ASSUME NEW k \in 1..c
      PROVE  /\ k - 1 \in 0..(c - 1)
             /\ pages[2 * k - 1].text = ids[ix(k - 1)]
             /\ pages[2 * k].text = texts[ix(k - 1)]
  <2>1. /\ 2 * k - 1 \in 1..(2 * c) /\ 2 * k \in 1..(2 * c) /\ k - 1 \in 0..(c - 1)
        /\ (2 * k - 1) % 2 = 1 /\ (2 * k) % 2 # 1
        /\ ((2 * k - 1) - 1) \div 2 = k - 1 /\ (2 * k - 1) \div 2 = k - 1
    BY <1>1
  <2> QED BY <1>5, <2>1 DEF Page
<1>8. told = {<<pages[2 * k - 1].text, pages[2 * k].text>> : k \in 1..c}
  <2>1. \A k \in 1..c : <<pages[2 * k - 1].text, pages[2 * k].text>> \in told
    BY <1>4, <1>7 DEF W, ids
  <2>2. ASSUME NEW i \in W
        PROVE  \E k \in 1..c : <<ids[i], texts[i]>> = <<pages[2 * k - 1].text, pages[2 * k].text>>
    <3>1. PICK m \in 0..(c - 1) : ix(m) = i
      BY <1>4
    <3>2. m + 1 \in 1..c /\ (m + 1) - 1 = m
      BY <1>1
    <3> QED BY <1>7, <3>1, <3>2
  <2>3. ASSUME NEW x \in told
        PROVE  \E k \in 1..c : x = <<pages[2 * k - 1].text, pages[2 * k].text>>
    <3>1. PICK i \in W : x = <<ids[i], texts[i]>>
      BY DEF W, ids
    <3> QED BY <2>2, <3>1
  <2> QED BY <2>1, <2>3
<1>9. TokensTold(pages, told)
  BY <1>3, <1>6, <1>8 DEF TokensTold
<1> QED BY <1>1, <1>3, <1>6, <1>9 DEF pages

\* By entry or by id, the same tokens are told.
LEMMA SameTokens ==
    ASSUME NEW T, NEW ids \in Seq(T), Len(ids) =< TOKEN_MAX_COUNT,
           NEW tokens, NEW sums, Books(tokens, ids, sums, T)
    PROVE  /\ \A i \in UsedSlots(tokens) :
                 ids[i] \in T /\ sums[ids[i]] = tokens[i] /\ tokens[i] # 0
           /\ \A t \in T : sums[t] # 0 =>
                 \E i \in UsedSlots(tokens) : ids[i] = t
<1>1. ASSUME NEW i \in UsedSlots(tokens)
      PROVE  ids[i] \in T /\ sums[ids[i]] = tokens[i] /\ tokens[i] # 0
  <2>1. i \in Slots /\ tokens[i] # 0 /\ i =< Len(ids) /\ i = find(ids, ids[i])
    BY DEF UsedSlots, Books
  <2>2. i \in 1..Len(ids) /\ i # 0
    BY <2>1, EntryFacts DEF Slots
  <2>3. ids[i] \in T
    BY <2>2, EntryFacts
  <2> QED BY <2>1, <2>2, <2>3 DEF Books
<1>2. ASSUME NEW t \in T, sums[t] # 0
      PROVE  \E i \in UsedSlots(tokens) : ids[i] = t
  <2>1. find(ids, t) # 0 /\ tokens[find(ids, t)] # 0
    BY <1>2 DEF Books
  <2>2. find(ids, t) \in UsedSlots(tokens) /\ ids[find(ids, t)] = t
    BY <2>1, EntryFacts, FindFacts DEF UsedSlots
  <2> QED BY <2>2
<1> QED BY <1>1, <1>2

----------------------------------------------------------------------------
(* The inductive invariant                                                 *)

Amounts == [fee : Unsigned, value : Unsigned, tokens : [Slots -> Signed]]
Outputs == [state : {"NONE", "INIT", "TREE_SET", "SHOWN", "HIDDEN"}, type : OutTypes,
            path : Paths, value : Unsigned, tokens : [Slots -> Unsigned]]
Hidden  == [type : OutTypes, path : Paths, tokens : BOOLEAN, approved : SUBSET Paths]
Ledger(T) == [ins : Nat, outs : Nat, balance : Int, fee : Int, moved : [T -> Int],
              given : [T -> Int], pages : Nat, approved : SUBSET Paths, hidden : SUBSET Hidden]

Types ==
    /\ host \in Hosts
    /\ op \in {"NONE", "INITIALIZED", "INPUTS", "OUTPUTS", "FINALIZED", "OVERRUN"}
    /\ bip32 \in Paths /\ last_approved_change \in Paths
    /\ amounts \in Amounts
    /\ table \in [ids : Seq(host.ids), distinct : Nat]
    /\ Len(table.ids) =< TOKEN_MAX_COUNT /\ table.distinct =< Len(table.ids)
    /\ output \in Outputs
    /\ pairs \in Seq(PageSet)
    /\ book \in Ledger(host.ids)

\* A session starts with nothing counted, under a path of an address; the pages
\* are those of the session, until they overrun their array.
Started ==
    /\ op = "INITIALIZED" => amounts = ZeroAmounts /\ output = ZeroOutput
    /\ op # "NONE" => Len(bip32) >= 5
    /\ op \notin {"NONE", "FINALIZED", "OVERRUN"} => Len(pairs) = book.pages

\* The sums are exact, and so is what the present output has of each token.
Exact ==
    /\ amounts.value = book.balance /\ amounts.fee = book.fee
    /\ Books(amounts.tokens, table.ids, book.moved, host.ids)
    /\ Books(output.tokens, table.ids, book.given, host.ids)

\* The last pages are these, after n others.
EndWith(pages, n) ==
    /\ Len(pairs) = n + Len(pages)
    /\ \A k \in 1..Len(pages) : pairs[n + k] = pages[k]

Told ==
    /\ op = "OUTPUTS" /\ output.state = "SHOWN" =>
          \E n \in 0..Len(pairs) : EndWith(OutputPages(output), n)
    /\ op = "FINALIZED" => EndWith(TxPages, book.pages)

\* The path of the last change output on a page was approved.
Approved == last_approved_change # <<>> => last_approved_change \in book.approved

IInv == Types /\ Started /\ Exact /\ Told /\ Approved /\ HiddenOutputsAreOwn

\* What Types says, in parts.
LEMMA TypeFacts ==
    ASSUME Types
    PROVE  /\ amounts.fee \in Unsigned /\ amounts.value \in Unsigned
           /\ amounts.tokens \in [Slots -> Signed]
           /\ table.ids \in Seq(host.ids) /\ Len(table.ids) =< TOKEN_MAX_COUNT
           /\ output.value \in Unsigned /\ output.tokens \in [Slots -> Unsigned]
           /\ output.path \in Paths /\ output.type \in OutTypes
           /\ book.moved \in [host.ids -> Int] /\ book.given \in [host.ids -> Int]
           /\ book.balance \in Int /\ book.fee \in Int /\ book.pages \in Nat
  BY DEF Types, Amounts, Outputs, Ledger

\* What a host may send.
LEMMA HostFacts ==
    ASSUME NEW h \in Hosts
    PROVE  /\ h.values \subseteq Unsigned /\ h.amounts \subseteq Unsigned
           /\ h.known \subseteq BOOLEAN /\ h.signs \subseteq Paths /\ h.changes \subseteq Paths
           /\ h.ids \subseteq Texts
<1>1. h.ids \subseteq AllIds
  BY DEF AllIds
<1> QED BY <1>1, HostsAssumption DEF Paths, M, Texts

LEMMA WordFacts ==
    /\ Unsigned \subseteq Int /\ Signed \subseteq Int /\ 0 \in Unsigned /\ 0 \in Signed
  BY HalfAssumption DEF Unsigned, Signed, UINT_MAX, INT_MIN, INT_MAX

LEMMA Zeros ==
    /\ ZeroAmounts \in Amounts /\ ZeroOutput \in Outputs
    /\ <<>> \in Paths /\ <<>> \in Seq(PageSet) /\ Len(<<>>) = 0
    /\ \A T : /\ [t \in T |-> 0] \in [T -> Int]
              /\ ZeroTable \in [ids : Seq(T), distinct : Nat]
              /\ Books(NoTokens, <<>>, [t \in T |-> 0], T)
    /\ N_UX_PAIRS \in Nat \ {0} /\ TOKEN_MAX_COUNT \in Nat
<1>1. NoTokens \in [Slots -> Signed] /\ NoTokens \in [Slots -> Unsigned]
  BY WordFacts DEF NoTokens
<1>2. <<>> \in Paths /\ <<>> \in Seq(PageSet) /\ Len(<<>>) = 0
  BY EmptySeq DEF Paths
<1>3. N_UX_PAIRS \in Nat \ {0} /\ TOKEN_MAX_COUNT \in Nat
  BY HostsAssumption
<1>4. ZeroAmounts \in Amounts /\ ZeroOutput \in Outputs
  BY <1>1, <1>2, WordFacts DEF ZeroAmounts, ZeroOutput, Amounts, Outputs, OutTypes
<1>5. ASSUME NEW T
      PROVE  /\ ZeroTable \in [ids : Seq(T), distinct : Nat]
             /\ Books(NoTokens, <<>>, [t \in T |-> 0], T)
  <2>1. <<>> \in Seq(T) /\ Len(<<>>) =< TOKEN_MAX_COUNT
    BY <1>3, EmptySeq
  <2> QED BY <2>1, BooksZero DEF ZeroTable
<1> QED BY <1>2, <1>3, <1>4, <1>5

\* The history of a new session.
LEMMA NewBookFacts ==
    /\ NewBook \in Ledger(host.ids)
    /\ \A n \in Nat : [NewBook EXCEPT !.pages = n] \in Ledger(host.ids)
  BY DEF NewBook, Ledger

\* Nothing is counted; the pages are p, and n of them are the session's.
Fresh(o, path, p, n) ==
    /\ host' = host /\ op' = o /\ bip32' = path /\ amounts' = ZeroAmounts
    /\ table' = ZeroTable /\ output' = ZeroOutput /\ last_approved_change' = <<>>
    /\ pairs' = p /\ book' = [NewBook EXCEPT !.pages = n]

LEMMA FreshInv ==
    ASSUME IInv, NEW o \in {"NONE", "INITIALIZED"}, NEW path \in Paths,
           NEW p \in Seq(PageSet), NEW n \in Nat,
           o # "NONE" => Len(path) >= 5 /\ n = Len(p), Fresh(o, path, p, n)
    PROVE  IInv'
<1>1. /\ host' = host /\ op' = o /\ bip32' = path /\ amounts' = ZeroAmounts
      /\ table' = ZeroTable /\ output' = ZeroOutput /\ last_approved_change' = <<>>
      /\ pairs' = p
  BY DEF Fresh
<1>2. book' \in Ledger(host.ids)
  BY NewBookFacts DEF Fresh
<1>3. /\ book'.balance = 0 /\ book'.fee = 0 /\ book'.pages = n /\ book'.hidden = {}
      /\ book'.moved = [t \in host.ids |-> 0] /\ book'.given = [t \in host.ids |-> 0]
  BY DEF Fresh, NewBook
<1>4. Types'
  BY <1>1, <1>2, Zeros DEF IInv, Types, ZeroTable
<1>5. Started'
  BY <1>1, <1>3 DEF Started
<1>6. Exact'
  BY <1>1, <1>3, Zeros DEF Exact, ZeroAmounts, ZeroOutput, ZeroTable
<1>7. Told' /\ Approved' /\ HiddenOutputsAreOwn'
  BY <1>1, <1>3 DEF Told, Approved, HiddenOutputsAreOwn
<1> QED BY <1>4, <1>5, <1>6, <1>7 DEF IInv

LEMMA NewBookIs == NewBook = [NewBook EXCEPT !.pages = 0]
  BY DEF NewBook

\* app_set_current_command: the session is over, its pages stay.
LEMMA ErrInv ==
    ASSUME IInv, handler_err
    PROVE  IInv'
<1>1. Fresh("NONE", <<>>, pairs, 0)
  BY NewBookIs DEF handler_err, Zeroed, Fresh
<1>2. <<>> \in Paths /\ pairs \in Seq(PageSet)
  BY Zeros DEF IInv, Types
<1> QED BY <1>1, <1>2, FreshInv

\* app_init.
LEMMA RestartInv ==
    ASSUME IInv, restart
    PROVE  IInv'
<1>1. Fresh("NONE", <<>>, <<>>, 0)
  BY NewBookIs DEF restart, Zeroed, Fresh
<1>2. <<>> \in Paths /\ <<>> \in Seq(PageSet)
  BY Zeros
<1> QED BY <1>1, <1>2, FreshInv

\* The pages overrun their array in a session, and nothing more is told.
LEMMA OverrunInv ==
    ASSUME IInv, op = "OUTPUTS", overrun
    PROVE  IInv'
<1>1. /\ op' = "OVERRUN"
      /\ UNCHANGED <<host, bip32, amounts, table, output, last_approved_change, pairs, book>>
  BY DEF overrun
<1>2. Types' /\ Exact' /\ Approved' /\ HiddenOutputsAreOwn'
  BY <1>1 DEF IInv, Types, Exact, Approved, HiddenOutputsAreOwn
<1>3. Started' /\ Told'
  BY <1>1 DEF IInv, Started, Told
<1> QED BY <1>2, <1>3 DEF IInv

----------------------------------------------------------------------------
(* The session, the token table and the inputs                             *)

LEMMA SignInitInv ==
    ASSUME IInv, NEW p \in host.signs, NEW known \in host.known, sign_init(p, known)
    PROVE  IInv'
<1>1. CASE handler_err
  BY <1>1, ErrInv
<1>2. CASE ~handler_err
  <2> DEFINE s == approve_screens(known)
  <2>1. bip32_path_validate(p, "ADDRESS_GE5") /\ Fresh("INITIALIZED", p, s, Len(s))
    BY <1>2 DEF sign_init, Handled, Fresh
  <2>2. Len(p) >= 5
    BY <2>1 DEF bip32_path_validate
  <2>3. p \in Paths /\ known \in BOOLEAN
    BY HostFacts DEF IInv, Types
  <2>4. s \in Seq(PageSet) /\ Len(s) \in Nat
    <3>1. Page("Application", "id") \in PageSet
      BY PageType DEF Texts, Titles
    <3>2. s = <<>> \/ s = <<Page("Application", "id")>>
      BY DEF approve_screens
    <3>3. CASE s = <<>>
      BY <3>3, Zeros
    <3>4. CASE s = <<Page("Application", "id")>>
      <4> DEFINE pg == Page("Application", "id")
      <4> HIDE DEF pg
      <4>1. <<pg>> \in Seq(PageSet) /\ Len(<<pg>>) = 1
        BY <3>1 DEF pg
      <4> QED BY <3>4, <4>1, Zeros DEF pg
    <3> QED BY <3>2, <3>3, <3>4
  <2> HIDE DEF s
  <2> QED BY <2>1, <2>2, <2>3, <2>4, FreshInv
<1> QED BY <1>1, <1>2

\* start_tx: whatever ids the host sends, no amount is there yet.
LEMMA StartTxInv ==
    ASSUME IInv, NEW ids \in Tables(host.ids), start_tx(ids)
    PROVE  IInv'
<1>1. CASE handler_err
  BY <1>1, ErrInv
<1>2. CASE ~handler_err
  <2>1. /\ op = "INITIALIZED" /\ Len(ids) =< TOKEN_MAX_COUNT
        /\ op' = "INPUTS" /\ amounts' = ZeroAmounts
        /\ table' = [ids |-> ids, distinct |-> Len(ids)]
        /\ UNCHANGED <<host, bip32, output, last_approved_change, pairs, book>>
    BY <1>2 DEF start_tx, Handled
  <2>2. ids \in Seq(host.ids) /\ Len(ids) \in Nat
    <3>1. PICK n \in 0..(TOKEN_MAX_COUNT + 1) : ids \in [1..n -> host.ids]
      BY DEF Tables
    <3>2. n \in Nat
      BY Zeros
    <3> QED BY <3>1, <3>2
  <2>3. amounts = ZeroAmounts /\ output = ZeroOutput
    BY <2>1 DEF IInv, Started
  <2>4. Types'
    BY <2>1, <2>2, Zeros DEF IInv, Types
  <2>5. Started' /\ Told' /\ Approved' /\ HiddenOutputsAreOwn'
    BY <2>1 DEF IInv, Started, Told, Approved, HiddenOutputsAreOwn
  <2>6. book.moved = [t \in host.ids |-> 0] /\ book.given = [t \in host.ids |-> 0]
    <3>1. \A t \in host.ids : book.moved[t] = 0 /\ book.given[t] = 0
      <4>1. \A t : find(table.ids, t) # 0 => find(table.ids, t) \in Slots
        BY EntryFacts, TypeFacts DEF IInv
      <4> QED BY <2>3, <4>1 DEF IInv, Exact, Books, ZeroAmounts, ZeroOutput, NoTokens
    <3> QED BY <3>1, TypeFacts DEF IInv
  <2>7. Books(NoTokens, ids, [t \in host.ids |-> 0], host.ids)
    BY <2>1, <2>2, BooksZero
  <2>8. Exact'
    BY <2>1, <2>3, <2>6, <2>7 DEF IInv, Exact, ZeroAmounts, ZeroOutput
  <2> QED BY <2>4, <2>5, <2>8 DEF IInv
<1> QED BY <1>1, <1>2

LEMMA AddInputInv ==
    ASSUME IInv, NEW v \in Unsigned, stx_amounts_add_input(v)
    PROVE  IInv'
<1>1. CASE handler_err
  BY <1>1, ErrInv
<1>2. CASE ~handler_err
  <2> DEFINE sum == checked_add_u64(amounts.value, v)
  <2>1. /\ op = "INPUTS" /\ sum.ok /\ amounts' = [amounts EXCEPT !.value = sum.out]
        /\ book' = [book EXCEPT !.ins = @ + 1, !.balance = @ + v]
        /\ UNCHANGED <<host, op, bip32, table, output, last_approved_change, pairs>>
    BY <1>2 DEF stx_amounts_add_input, Handled
  <2>2. sum.out = amounts.value + v /\ sum.out \in Unsigned
    <3>1. amounts.value \in Unsigned
      BY TypeFacts DEF IInv
    <3> QED BY <2>1, <3>1, AddUnsignedExact
  <2> HIDE DEF sum
  <2>3. /\ amounts' \in Amounts /\ amounts'.value = amounts.value + v
        /\ amounts'.fee = amounts.fee /\ amounts'.tokens = amounts.tokens
    BY <2>1, <2>2 DEF IInv, Types, Amounts
  <2>4. book.ins + 1 \in Nat /\ book.balance + v \in Int
    BY WordFacts DEF IInv, Types, Ledger
  <2>5. /\ book' \in Ledger(host.ids) /\ book'.balance = book.balance + v
        /\ book'.fee = book.fee /\ book'.moved = book.moved /\ book'.given = book.given
        /\ book'.pages = book.pages /\ book'.approved = book.approved
        /\ book'.hidden = book.hidden
    BY <2>1, <2>4 DEF IInv, Types, Ledger
  <2>6. Types'
    BY <2>1, <2>3, <2>5 DEF IInv, Types
  <2>7. Exact'
    BY <2>1, <2>3, <2>5 DEF IInv, Exact
  <2>8. Started' /\ Told' /\ Approved' /\ HiddenOutputsAreOwn'
    BY <2>1, <2>5 DEF IInv, Started, Told, Approved, HiddenOutputsAreOwn
  <2> QED BY <2>6, <2>7, <2>8 DEF IInv
<1> QED BY <1>1, <1>2

\* stx_amounts_add_input_token: an id the table has not gets an entry of its
\* own, and the balance goes to the first entry with the id.
LEMMA AddInputTokenInv ==
    ASSUME IInv, NEW t \in host.ids, NEW v \in Unsigned, stx_amounts_add_input_token(t, v)
    PROVE  IInv'
<1>1. CASE handler_err
  BY <1>1, ErrInv
<1>2. CASE ~handler_err
  <2> DEFINE ids == WithToken(t)
             i   == find(ids, t)
             sum == checked_add_i64(amounts.tokens[i], v)
  <2>1. /\ op = "INPUTS" /\ Len(ids) =< TOKEN_MAX_COUNT /\ sum.ok
        /\ table' = [table EXCEPT !.ids = ids]
        /\ amounts' = [amounts EXCEPT !.tokens[i] = sum.out]
        /\ book' = [book EXCEPT !.moved[t] = @ + v]
        /\ UNCHANGED <<host, op, bip32, output, last_approved_change, pairs>>
    BY <1>2 DEF stx_amounts_add_input_token, Handled, find
  <2>2. /\ ids \in Seq(host.ids) /\ Len(table.ids) =< Len(ids) /\ find(ids, t) # 0
        /\ Books(amounts.tokens, ids, book.moved, host.ids)
        /\ Books(output.tokens, ids, book.given, host.ids)
    <3>1. /\ table.ids \in Seq(host.ids) /\ Len(table.ids) \in Nat
          /\ Books(amounts.tokens, table.ids, book.moved, host.ids)
          /\ Books(output.tokens, table.ids, book.given, host.ids)
      BY TypeFacts, LenProperties DEF IInv, Exact
    <3>2. CASE find(table.ids, t) # 0
      <4>1. ids = table.ids
        BY <3>2 DEF WithToken, find
      <4> QED BY <3>1, <3>2, <4>1
    <3>3. CASE find(table.ids, t) = 0
      <4>1. ids = Append(table.ids, t)
        BY <3>3 DEF WithToken, find
      <4>2. ids \in Seq(host.ids) /\ Len(ids) = Len(table.ids) + 1
        <5>1. Append(table.ids, t) \in Seq(host.ids)
          BY <3>1, AppendProperties
        <5>2. Len(Append(table.ids, t)) = Len(table.ids) + 1
          BY <3>1, AppendProperties
        <5> HIDE DEF ids
        <5> QED BY <4>1, <5>1, <5>2
      <4>3. find(ids, t) = Len(table.ids) + 1
        BY <3>1, <3>3, <4>1, FindAppend
      <4>4. Len(table.ids) =< Len(ids) /\ find(ids, t) # 0
        BY <3>1, <4>2, <4>3
      <4> QED BY <2>1, <3>1, <3>3, <4>1, <4>2, <4>4, BooksAppend
    <3> QED BY <3>2, <3>3
  <2> HIDE DEF ids
  <2>3. i \in Slots /\ amounts.tokens[i] \in Signed /\ amounts.tokens[i] = book.moved[t]
    <3>1. i \in Slots
      BY <2>1, <2>2, EntryFacts
    <3> QED BY <2>2, <3>1, TypeFacts DEF IInv, Books
  <2>4. sum.out = amounts.tokens[i] + v /\ sum.out \in Signed
    BY <2>1, <2>3, AddSignedExact
  <2> HIDE DEF i, sum
  <2>5. /\ amounts' \in Amounts /\ amounts'.value = amounts.value
        /\ amounts'.fee = amounts.fee
        /\ amounts'.tokens = [amounts.tokens EXCEPT ![i] = sum.out]
    BY <2>1, <2>3, <2>4 DEF IInv, Types, Amounts
  <2>6. /\ table' \in [ids : Seq(host.ids), distinct : Nat] /\ table'.ids = ids
        /\ table'.distinct = table.distinct /\ table.distinct =< Len(ids)
    <3>1. Len(table.ids) \in Nat /\ Len(ids) \in Nat /\ table.distinct \in Nat
      BY <2>2, LenProperties, TypeFacts DEF IInv, Types
    <3> QED BY <2>1, <2>2, <3>1 DEF IInv, Types
  <2>7. book.moved[t] + v = sum.out /\ sum.out \in Int
    BY <2>3, <2>4, WordFacts
  <2>8. /\ book' \in Ledger(host.ids) /\ book'.balance = book.balance
        /\ book'.fee = book.fee /\ book'.moved = [book.moved EXCEPT ![t] = sum.out]
        /\ book'.given = book.given /\ book'.pages = book.pages
        /\ book'.approved = book.approved /\ book'.hidden = book.hidden
    BY <2>1, <2>7 DEF IInv, Types, Ledger
  <2>9. Books(amounts'.tokens, table'.ids, book'.moved, host.ids)
    <3>1. DOMAIN amounts.tokens = Slots /\ DOMAIN book.moved = host.ids
      BY TypeFacts DEF IInv
    <3>2. Books([amounts.tokens EXCEPT ![find(ids, t)] = sum.out], ids,
                [book.moved EXCEPT ![t] = sum.out], host.ids)
      BY <2>1, <2>2, <3>1, BooksChange
    <3> QED BY <2>5, <2>6, <2>8, <3>2 DEF i
  <2>10. Types'
    BY <2>1, <2>5, <2>6, <2>8 DEF IInv, Types
  <2>11. Exact'
    BY <2>1, <2>2, <2>5, <2>6, <2>8, <2>9 DEF IInv, Exact
  <2>12. Started' /\ Told' /\ Approved' /\ HiddenOutputsAreOwn'
    BY <2>1, <2>8 DEF IInv, Started, Told, Approved, HiddenOutputsAreOwn
  <2> QED BY <2>10, <2>11, <2>12 DEF IInv
<1> QED BY <1>1, <1>2

----------------------------------------------------------------------------
(* Outputs                                                                 *)

\* stx_output_info_init: the new output has no tokens.
LEMMA AddOutputInv ==
    ASSUME IInv, NEW v \in Unsigned, add_output(v)
    PROVE  IInv'
<1>1. CASE handler_err
  BY <1>1, ErrInv
<1>2. CASE ~handler_err
  <2>1. /\ op \in {"INPUTS", "OUTPUTS"} /\ op' = "OUTPUTS"
        /\ output' = [ZeroOutput EXCEPT !.state = "INIT", !.value = v]
        /\ book' = [book EXCEPT !.outs = @ + 1, !.given = [t \in host.ids |-> 0]]
        /\ UNCHANGED <<host, bip32, amounts, table, last_approved_change, pairs>>
    BY <1>2 DEF add_output, Handled
  <2>2. output' \in Outputs /\ output'.state = "INIT" /\ output'.tokens = NoTokens
    <3>1. ZeroOutput \in Outputs /\ ZeroOutput.tokens = NoTokens
      BY Zeros DEF ZeroOutput
    <3> HIDE DEF ZeroOutput
    <3> QED BY <2>1, <3>1 DEF Outputs
  <2>3. /\ book' \in Ledger(host.ids) /\ book'.balance = book.balance
        /\ book'.fee = book.fee /\ book'.moved = book.moved
        /\ book'.given = [t \in host.ids |-> 0] /\ book'.pages = book.pages
        /\ book'.approved = book.approved /\ book'.hidden = book.hidden
    <3>1. book.outs + 1 \in Nat /\ [t \in host.ids |-> 0] \in [host.ids -> Int]
      BY DEF IInv, Types, Ledger
    <3> QED BY <2>1, <3>1 DEF IInv, Types, Ledger
  <2>4. Books(NoTokens, table.ids, [t \in host.ids |-> 0], host.ids)
    BY TypeFacts, BooksZero DEF IInv
  <2>5. Types'
    BY <2>1, <2>2, <2>3 DEF IInv, Types
  <2>6. Exact'
    BY <2>1, <2>2, <2>3, <2>4 DEF IInv, Exact
  <2>7. Started' /\ Told' /\ Approved' /\ HiddenOutputsAreOwn'
    BY <2>1, <2>2, <2>3 DEF IInv, Started, Told, Approved, HiddenOutputsAreOwn
  <2> QED BY <2>5, <2>6, <2>7 DEF IInv
<1> QED BY <1>1, <1>2

\* stx_amounts_add_output, if it succeeds, is exact.
LEMMA OutputSums ==
    ASSUME Types, NEW v \in Unsigned, NEW type \in {"BIP32", "MINERS_FEE", "ADDRESS"},
           stx_amounts_add_output(type, v).ok
    PROVE  LET a == stx_amounts_add_output(type, v).out
           IN  /\ a \in Amounts /\ a.tokens = amounts.tokens
               /\ a.value = IF type = "ADDRESS" THEN amounts.value ELSE amounts.value - v
               /\ a.fee = IF type = "MINERS_FEE" THEN amounts.fee + v ELSE amounts.fee
<1> DEFINE less == checked_sub_u64(amounts.value, v)
           more == checked_add_u64(amounts.fee, v)
           a    == stx_amounts_add_output(type, v).out
<1>1. amounts \in Amounts /\ amounts.value \in Unsigned /\ amounts.fee \in Unsigned
  BY TypeFacts DEF Types
<1>2. less.ok => less.out = amounts.value - v /\ less.out \in Unsigned
  BY <1>1, SubUnsignedExact
<1>3. more.ok => more.out = amounts.fee + v /\ more.out \in Unsigned
  BY <1>1, AddUnsignedExact
<1>4. CASE type = "BIP32"
  <2>1. less.ok /\ a = [amounts EXCEPT !.value = less.out]
    BY <1>4 DEF stx_amounts_add_output, Result
  <2> HIDE DEF less, a
  <2>2. /\ a \in Amounts /\ a.tokens = amounts.tokens
        /\ a.value = amounts.value - v /\ a.fee = amounts.fee
    BY <1>1, <1>2, <2>1 DEF Amounts
  <2> QED BY <1>4, <2>2 DEF a
<1>5. CASE type = "MINERS_FEE"
  <2>1. less.ok /\ more.ok /\ a = [amounts EXCEPT !.value = less.out, !.fee = more.out]
    BY <1>5 DEF stx_amounts_add_output, Result
  <2> HIDE DEF less, more, a
  <2>2. /\ a \in Amounts /\ a.tokens = amounts.tokens
        /\ a.value = amounts.value - v /\ a.fee = amounts.fee + v
    BY <1>1, <1>2, <1>3, <2>1 DEF Amounts
  <2> QED BY <1>5, <2>2 DEF a
<1>6. CASE type = "ADDRESS"
  <2>1. a = amounts
    BY <1>6 DEF stx_amounts_add_output, Result
  <2> QED BY <1>1, <1>6, <2>1
<1> QED BY <1>4, <1>5, <1>6

LEMMA AddOutputTreeInv ==
    ASSUME IInv, NEW type \in {"BIP32", "MINERS_FEE", "ADDRESS"}, NEW p \in Paths,
           add_output_tree(type, p)
    PROVE  IInv'
<1>1. CASE handler_err
  BY <1>1, ErrInv
<1>2. CASE ~handler_err
  <2> DEFINE v    == output.value
             sums == stx_amounts_add_output(type, v)
  <2>1. /\ op = "OUTPUTS" /\ sums.ok /\ amounts' = sums.out
        /\ output' = [output EXCEPT !.state = "TREE_SET", !.type = type, !.path = p]
        /\ book' = [book EXCEPT
              !.balance = IF type = "ADDRESS" THEN @ ELSE @ - v,
              !.fee     = IF type = "MINERS_FEE" THEN @ + v ELSE @]
        /\ UNCHANGED <<host, op, bip32, table, last_approved_change, pairs>>
    BY <1>2 DEF add_output_tree, Handled
  <2>2. v \in Unsigned /\ v \in Int /\ book.balance \in Int /\ book.fee \in Int
    BY TypeFacts, WordFacts DEF IInv
  <2>3. /\ amounts' \in Amounts /\ amounts'.tokens = amounts.tokens
        /\ amounts'.value = IF type = "ADDRESS" THEN amounts.value ELSE amounts.value - v
        /\ amounts'.fee = IF type = "MINERS_FEE" THEN amounts.fee + v ELSE amounts.fee
    BY <2>1, <2>2, OutputSums DEF IInv
  <2> HIDE DEF sums, v
  <2>4. /\ output' \in Outputs /\ output'.state = "TREE_SET"
        /\ output'.tokens = output.tokens
    BY <2>1 DEF IInv, Types, Outputs, OutTypes
  <2> DEFINE b == IF type = "ADDRESS" THEN book.balance ELSE book.balance - v
             f == IF type = "MINERS_FEE" THEN book.fee + v ELSE book.fee
  <2>5. book' = [book EXCEPT !.balance = b, !.fee = f] /\ b \in Int /\ f \in Int
    BY <2>1, <2>2
  <2>6. amounts'.value = b /\ amounts'.fee = f
    BY <2>3 DEF IInv, Exact
  <2> HIDE DEF b, f
  <2>7. /\ book' \in Ledger(host.ids) /\ book'.balance = b /\ book'.fee = f
        /\ book'.moved = book.moved /\ book'.given = book.given /\ book'.pages = book.pages
        /\ book'.approved = book.approved /\ book'.hidden = book.hidden
    BY <2>5 DEF IInv, Types, Ledger
  <2>8. Types'
    BY <2>1, <2>3, <2>4, <2>7 DEF IInv, Types
  <2>9. Exact'
    BY <2>1, <2>3, <2>4, <2>6, <2>7 DEF IInv, Exact
  <2>10. Started' /\ Told' /\ Approved' /\ HiddenOutputsAreOwn'
    BY <2>1, <2>4, <2>7 DEF IInv, Started, Told, Approved, HiddenOutputsAreOwn
  <2> QED BY <2>8, <2>9, <2>10 DEF IInv
<1> QED BY <1>1, <1>2

\* p2pk_output_token_cb: the output had none of this token.
LEMMA AddOutputTokenInv ==
    ASSUME IInv, NEW n \in 1..Len(table.ids), NEW v \in Unsigned, add_output_token(n, v)
    PROVE  IInv'
<1>1. CASE handler_err
  BY <1>1, ErrInv
<1>2. CASE ~handler_err
  <2> DEFINE t    == table.ids[n]
             i    == find(table.ids, t)
             rest == checked_sub_i64(amounts.tokens[i], v)
  <2>1. /\ op = "OUTPUTS" /\ output.state = "TREE_SET" /\ output.tokens[i] = 0 /\ rest.ok
        /\ output' = [output EXCEPT !.tokens = [output.tokens EXCEPT ![i] = v]]
        /\ amounts' = [amounts EXCEPT !.tokens[i] = rest.out]
        /\ book' = [book EXCEPT !.moved[t] = @ - v, !.given[t] = @ + v]
        /\ UNCHANGED <<host, op, bip32, table, last_approved_change, pairs>>
    BY <1>2 DEF add_output_token, Handled, find, stx_output_info_add_token, Result
  <2>2. /\ table.ids \in Seq(host.ids) /\ Len(table.ids) =< TOKEN_MAX_COUNT
        /\ amounts.tokens \in [Slots -> Signed] /\ output.tokens \in [Slots -> Unsigned]
        /\ book.moved \in [host.ids -> Int] /\ book.given \in [host.ids -> Int]
    BY TypeFacts DEF IInv
  <2>3. t \in host.ids /\ i # 0 /\ i \in Slots
    <3>1. t \in host.ids
      BY <2>2, ElementOfSeq
    <3>2. i # 0
      BY <2>2, FindFacts
    <3> QED BY <2>2, <3>1, <3>2, EntryFacts
  <2> HIDE DEF t
  <2>4. amounts.tokens[i] \in Signed /\ amounts.tokens[i] = book.moved[t] /\ book.given[t] = 0
    BY <2>1, <2>2, <2>3 DEF IInv, Exact, Books
  <2>5. rest.out = amounts.tokens[i] - v /\ rest.out \in Signed
    BY <2>1, <2>4, SubSignedExact
  <2> HIDE DEF i, rest
  <2>6. /\ amounts' \in Amounts /\ amounts'.value = amounts.value
        /\ amounts'.fee = amounts.fee
        /\ amounts'.tokens = [amounts.tokens EXCEPT ![i] = rest.out]
    BY <2>1, <2>2, <2>3, <2>5 DEF IInv, Types, Amounts
  <2>7. /\ output' \in Outputs /\ output'.state = "TREE_SET"
        /\ output'.tokens = [output.tokens EXCEPT ![i] = v]
    BY <2>1, <2>2, <2>3 DEF IInv, Types, Outputs
  <2>8. book.moved[t] - v = rest.out /\ book.given[t] + v = v /\ rest.out \in Int /\ v \in Int
    <3>1. rest.out \in Int /\ v \in Int
      BY <2>5, WordFacts
    <3> QED BY <2>4, <2>5, <3>1
  <2>9. /\ book' \in Ledger(host.ids) /\ book'.balance = book.balance
        /\ book'.fee = book.fee /\ book'.moved = [book.moved EXCEPT ![t] = rest.out]
        /\ book'.given = [book.given EXCEPT ![t] = v] /\ book'.pages = book.pages
        /\ book'.approved = book.approved /\ book'.hidden = book.hidden
    <3>1. book' = [book EXCEPT !.moved[t] = rest.out, !.given[t] = v]
      BY <2>1, <2>8
    <3> QED BY <2>8, <3>1 DEF IInv, Types, Ledger
  <2>10. /\ Books(amounts'.tokens, table.ids, book'.moved, host.ids)
         /\ Books(output'.tokens, table.ids, book'.given, host.ids)
    <3>1. /\ DOMAIN amounts.tokens = Slots /\ DOMAIN book.moved = host.ids
          /\ DOMAIN output.tokens = Slots /\ DOMAIN book.given = host.ids
          /\ find(table.ids, t) # 0
      BY <2>2, <2>3 DEF i
    <3>2. Books([amounts.tokens EXCEPT ![find(table.ids, t)] = rest.out], table.ids,
                [book.moved EXCEPT ![t] = rest.out], host.ids)
      BY <2>2, <2>3, <3>1, BooksChange DEF IInv, Exact
    <3>3. Books([output.tokens EXCEPT ![find(table.ids, t)] = v], table.ids,
                [book.given EXCEPT ![t] = v], host.ids)
      BY <2>2, <2>3, <3>1, BooksChange DEF IInv, Exact
    <3> QED BY <2>6, <2>7, <2>9, <3>2, <3>3 DEF i
  <2>11. Types'
    BY <2>1, <2>6, <2>7, <2>9 DEF IInv, Types
  <2>12. Exact'
    BY <2>1, <2>6, <2>9, <2>10 DEF IInv, Exact
  <2>13. Started' /\ Told' /\ Approved' /\ HiddenOutputsAreOwn'
    BY <2>1, <2>7, <2>9 DEF IInv, Started, Told, Approved, HiddenOutputsAreOwn
  <2> QED BY <2>11, <2>12, <2>13 DEF IInv
<1> QED BY <1>1, <1>2

----------------------------------------------------------------------------
(* What the pages tell                                                     *)

\* The tokens of the present output, and those created or destroyed.
GivenTokens == {<<t, book.given[t]>> : t \in {x \in host.ids : book.given[x] # 0}}
MovedTokens == {<<t, Moved(t)>> : t \in {x \in host.ids : book.moved[x] # 0}}

OutputTokenPages == TokenPages(output.tokens, output.tokens)
TxTokenPages == TokenPages(amounts.tokens, [i \in Slots |-> BalanceText(amounts.tokens[i])])

LEMMA OutputTokensTold ==
    ASSUME Types, Exact
    PROVE  /\ OutputTokenPages \in Seq(PageSet) /\ Cardinality(GivenTokens) \in Nat
           /\ Len(OutputTokenPages) = 2 * Cardinality(GivenTokens)
           /\ TokensTold(OutputTokenPages, GivenTokens)
<1> DEFINE W == UsedSlots(output.tokens)
<1>1. /\ table.ids \in Seq(host.ids) /\ Len(table.ids) =< TOKEN_MAX_COUNT
      /\ Books(output.tokens, table.ids, book.given, host.ids)
      /\ output.tokens \in [Slots -> Unsigned]
  BY TypeFacts DEF Exact
<1>2. host.ids \subseteq Texts
  BY HostFacts DEF Types
<1>3. \A i \in W : output.tokens[i] \in Texts
  BY <1>1, WordFacts DEF UsedSlots, Texts
<1>4. /\ \A i \in W : /\ table.ids[i] \in host.ids /\ output.tokens[i] # 0
                      /\ book.given[table.ids[i]] = output.tokens[i]
      /\ \A t \in host.ids : book.given[t] # 0 => \E i \in W : table.ids[i] = t
  BY <1>1, SameTokens
<1>5. GivenTokens = {<<table.ids[i], output.tokens[i]>> : i \in W}
  <2> HIDE DEF W
  <2> QED BY <1>4 DEF GivenTokens
<1> DEFINE texts == output.tokens
<1> HIDE DEF texts
<1>6. /\ TokenPages(output.tokens, texts) \in Seq(PageSet)
      /\ Len(TokenPages(output.tokens, texts)) = 2 * Cardinality(GivenTokens)
      /\ Cardinality(GivenTokens) \in Nat
      /\ TokensTold(TokenPages(output.tokens, texts), GivenTokens)
  <2>1. \A i \in W : texts[i] \in Texts
    BY <1>3 DEF texts
  <2>2. GivenTokens = {<<table.ids[i], texts[i]>> : i \in W}
    BY <1>5 DEF texts
  <2> QED BY <1>1, <1>2, <2>1, <2>2, PagesTell
<1> QED BY <1>6 DEF OutputTokenPages, texts

\* format_erg_amount gets the magnitude of a negative balance by negation,
\* which is right for the most negative word too.
LEMMA TxTokensTold ==
    ASSUME Types, Exact
    PROVE  /\ TxTokenPages \in Seq(PageSet) /\ Cardinality(MovedTokens) \in Nat
           /\ Len(TxTokenPages) = 2 * Cardinality(MovedTokens)
           /\ TokensTold(TxTokenPages, MovedTokens)
<1> DEFINE W == UsedSlots(amounts.tokens)
           texts == [i \in Slots |-> BalanceText(amounts.tokens[i])]
<1>1. /\ table.ids \in Seq(host.ids) /\ Len(table.ids) =< TOKEN_MAX_COUNT
      /\ Books(amounts.tokens, table.ids, book.moved, host.ids)
      /\ amounts.tokens \in [Slots -> Signed]
  BY TypeFacts DEF Exact
<1>2. host.ids \subseteq Texts
  BY HostFacts DEF Types
<1>3. \A v \in Signed : BalanceText(v) = IF v < 0 THEN <<"Minting", -v>> ELSE <<"Burning", v>>
  <2>1. \A v \in Signed : v < 0 => U(-v) = -v
    BY HalfAssumption DEF Signed, U, INT_MIN, INT_MAX, UINT_MAX
  <2> QED BY <2>1 DEF BalanceText
<1>4. \A i \in W : i \in Slots /\ amounts.tokens[i] \in Signed
  BY <1>1 DEF UsedSlots
<1>5. \A i \in W : texts[i] \in Texts
  <2>1. \A v \in Signed : v \in Int /\ -v \in Int
    BY WordFacts
  <2>2. \A v \in Signed : BalanceText(v) \in {"Minting", "Burning"} \X Int
    BY <1>3, <2>1
  <2> QED BY <1>4, <2>2 DEF Texts
<1>6. /\ \A i \in W : /\ table.ids[i] \in host.ids /\ amounts.tokens[i] # 0
                      /\ book.moved[table.ids[i]] = amounts.tokens[i]
      /\ \A t \in host.ids : book.moved[t] # 0 => \E i \in W : table.ids[i] = t
  BY <1>1, SameTokens
<1>7. \A i \in W : texts[i] = Moved(table.ids[i])
  BY <1>3, <1>4, <1>6 DEF Moved
<1>8. MovedTokens = {<<table.ids[i], texts[i]>> : i \in W}
  <2> HIDE DEF W, texts
  <2> QED BY <1>6, <1>7 DEF MovedTokens
<1> HIDE DEF texts
<1>9. /\ TokenPages(amounts.tokens, texts) \in Seq(PageSet)
      /\ Len(TokenPages(amounts.tokens, texts)) = 2 * Cardinality(MovedTokens)
      /\ Cardinality(MovedTokens) \in Nat
      /\ TokensTold(TokenPages(amounts.tokens, texts), MovedTokens)
  BY <1>1, <1>2, <1>5, <1>8, PagesTell
<1> QED BY <1>9 DEF TxTokenPages, texts

\* The pages of an output, one by one.
LEMMA OutputPagesAre ==
    ASSUME Types, Exact
    PROVE  LET s == OutputPages(output)
           IN  /\ s \in Seq(PageSet)
               /\ output.type = "BIP32" => Len(s) = 1 /\ s[1].text = output.path
               /\ output.type # "BIP32" =>
                     /\ Len(s) = 2 + Len(OutputTokenPages)
                     /\ s[1].text = output.type /\ s[2].text = output.value
                     /\ \A k \in 1..Len(OutputTokenPages) : s[2 + k] = OutputTokenPages[k]
<1>1. output.path \in Texts /\ output.type \in Texts /\ output.value \in Texts
  BY TypeFacts, WordFacts DEF Texts
<1>2. CASE output.type = "BIP32"
  <2> DEFINE a == Page("Change", output.path)
  <2>1. a \in PageSet /\ a.text = output.path /\ OutputPages(output) = <<a>>
    <3>1. a \in PageSet
      BY <1>1, PageType DEF Titles
    <3> QED BY <1>2, <3>1 DEF OutputPages, Page
  <2> HIDE DEF a
  <2> QED BY <1>2, <2>1
<1>3. CASE output.type # "BIP32"
  <2> DEFINE a == Page("Address", output.type)
             b == Page("Amount", output.value)
             tp == OutputTokenPages
  <2>1. a \in PageSet /\ b \in PageSet /\ a.text = output.type /\ b.text = output.value
    <3>1. a \in PageSet /\ b \in PageSet
      BY <1>1, PageType DEF Titles
    <3> QED BY <3>1 DEF Page
  <2>2. OutputPages(output) = <<a, b>> \o tp
    BY <1>3 DEF OutputPages, OutputTokenPages
  <2>3. tp \in Seq(PageSet) /\ Len(tp) \in Nat
    BY OutputTokensTold, LenProperties
  <2> HIDE DEF a, b, tp
  <2>4. <<a, b>> \in Seq(PageSet) /\ Len(<<a, b>>) = 2 /\ <<a, b>>[1] = a /\ <<a, b>>[2] = b
    BY <2>1
  <2> DEFINE ab == <<a, b>>
  <2> HIDE DEF ab
  <2>5. /\ ab \o tp \in Seq(PageSet) /\ Len(ab \o tp) = 2 + Len(tp)
        /\ \A k \in 1..(2 + Len(tp)) : (ab \o tp)[k] = IF k =< 2 THEN ab[k] ELSE tp[k - 2]
    BY <2>3, <2>4, ConcatProperties DEF ab
  <2>6. /\ 1 \in 1..(2 + Len(tp)) /\ 2 \in 1..(2 + Len(tp))
        /\ \A k \in 1..Len(tp) : 2 + k \in 1..(2 + Len(tp)) /\ ~(2 + k =< 2) /\ (2 + k) - 2 = k
    BY <2>3
  <2>7. /\ (ab \o tp)[1] = a /\ (ab \o tp)[2] = b
        /\ \A k \in 1..Len(tp) : (ab \o tp)[2 + k] = tp[k]
    BY <2>4, <2>5, <2>6 DEF ab
  <2> QED BY <1>3, <2>1, <2>2, <2>5, <2>7 DEF ab, tp
<1> QED BY <1>2, <1>3

\* The last pages, one by one.
LEMMA TxPagesAre ==
    ASSUME Types, Exact
    PROVE  /\ TxPages \in Seq(PageSet) /\ Len(TxPages) = 1 + Len(TxTokenPages)
           /\ TxPages[1].text = amounts.fee
           /\ \A k \in 1..Len(TxTokenPages) : TxPages[1 + k] = TxTokenPages[k]
<1> DEFINE a == Page("Fee", amounts.fee)
           tp == TxTokenPages
<1>1. a \in PageSet /\ a.text = amounts.fee
  <2>1. amounts.fee \in Texts
    BY TypeFacts, WordFacts DEF Texts
  <2>2. a \in PageSet
    BY <2>1, PageType DEF Titles
  <2> QED BY <2>2 DEF Page
<1>2. TxPages = <<a>> \o tp
  BY DEF TxPages, TxTokenPages
<1>3. tp \in Seq(PageSet) /\ Len(tp) \in Nat
  BY TxTokensTold, LenProperties
<1> HIDE DEF a, tp
<1> DEFINE s == <<a>>
<1>4. s \in Seq(PageSet) /\ Len(s) = 1 /\ s[1] = a
  BY <1>1
<1> HIDE DEF s
<1>5. /\ s \o tp \in Seq(PageSet) /\ Len(s \o tp) = 1 + Len(tp)
      /\ \A k \in 1..(1 + Len(tp)) : (s \o tp)[k] = IF k =< 1 THEN s[k] ELSE tp[k - 1]
  <2>1. /\ s \o tp \in Seq(PageSet) /\ Len(s \o tp) = Len(s) + Len(tp)
        /\ \A k \in 1..(Len(s) + Len(tp)) :
              (s \o tp)[k] = IF k =< Len(s) THEN s[k] ELSE tp[k - Len(s)]
    BY <1>3, <1>4, ConcatProperties
  <2> QED BY <1>4, <2>1
<1>6. /\ 1 \in 1..(1 + Len(tp))
      /\ \A k \in 1..Len(tp) : 1 + k \in 1..(1 + Len(tp)) /\ ~(1 + k =< 1) /\ (1 + k) - 1 = k
  BY <1>3
<1>7. (s \o tp)[1] = a /\ \A k \in 1..Len(tp) : (s \o tp)[1 + k] = tp[k]
  BY <1>4, <1>5, <1>6
<1> QED BY <1>1, <1>2, <1>5, <1>7 DEF s, tp

\* Pages put after those there are.
LEMMA PutAfter ==
    ASSUME NEW s \in Seq(PageSet), NEW p \in Seq(PageSet)
    PROVE  /\ s \o p \in Seq(PageSet) /\ Len(s \o p) = Len(s) + Len(p)
           /\ Len(s) \in Nat /\ Len(p) \in Nat
           /\ \A k \in 1..Len(p) : (s \o p)[Len(s) + k] = p[k]
<1>1. /\ s \o p \in Seq(PageSet) /\ Len(s \o p) = Len(s) + Len(p)
      /\ \A i \in 1..(Len(s) + Len(p)) : (s \o p)[i] = IF i =< Len(s) THEN s[i] ELSE p[i - Len(s)]
  BY ConcatProperties
<1>2. Len(s) \in Nat /\ Len(p) \in Nat
  BY LenProperties
<1>3. \A k \in 1..Len(p) : /\ Len(s) + k \in 1..(Len(s) + Len(p))
                           /\ ~(Len(s) + k =< Len(s)) /\ (Len(s) + k) - Len(s) = k
  BY <1>2
<1> QED BY <1>1, <1>2, <1>3

\* The rest of the pages from one on.
LEMMA RestIs ==
    ASSUME NEW s \in Seq(PageSet), NEW p \in Seq(PageSet), NEW n \in Nat,
           Len(s) = n + Len(p), \A k \in 1..Len(p) : s[n + k] = p[k]
    PROVE  SubSeq(s, n + 1, Len(s)) = p
<1> DEFINE l == Len(s)
           r == SubSeq(s, n + 1, l)
<1>1. l \in Nat /\ Len(p) \in Nat
  BY LenProperties
<1>2. \A i \in (n + 1)..l : s[i] \in PageSet
  BY <1>1, ElementOfSeq
<1>3. /\ r \in Seq(PageSet) /\ Len(r) = IF n + 1 =< l THEN l - (n + 1) + 1 ELSE 0
      /\ \A i \in 1..(l - (n + 1) + 1) : r[i] = s[(n + 1) + i - 1]
  BY <1>1, <1>2, SubSeqProperties
<1>4. l - (n + 1) + 1 = Len(p) /\ (n + 1 =< l \/ Len(p) = 0)
  BY <1>1
<1>5. \A i \in 1..Len(p) : (n + 1) + i - 1 = n + i
  BY <1>1
<1> HIDE DEF r, l
<1>6. Len(r) = Len(p) /\ \A i \in 1..Len(r) : r[i] = p[i]
  BY <1>1, <1>3, <1>4, <1>5
<1>7. r = p
  BY <1>3, <1>6, SeqEqual
<1> QED BY <1>7 DEF r, l

----------------------------------------------------------------------------
(* The end of an output                                                    *)

\* stx_operation_p2pk_should_show_output_confirm_screen: what gets no page is a
\* fee without tokens or change to a near address of this wallet.
LEMMA HiddenIsOwn ==
    ASSUME IInv, op = "OUTPUTS", ~should_show(output)
    PROVE  \/ output.type = "MINERS_FEE" /\ ~(\E t \in host.ids : book.given[t] > 0)
           \/ /\ output.type = "BIP32"
              /\ bip32_path_validate(output.path, "ADDRESS_E5")
              /\ book.approved = {} =>
                    output.path[4] = bip32[4] /\ output.path[5] < bip32[5] + 20
<1>1. output.type \in OutTypes /\ output.path \in Paths /\ bip32 \in Paths
  BY TypeFacts DEF IInv, Types
<1>2. CASE output.type = "MINERS_FEE"
  <2> DEFINE W == UsedSlots(output.tokens)
  <2>1. ~(Cardinality(W) > 0)
    BY <1>2 DEF should_show
  <2>2. IsFiniteSet(W) /\ Cardinality(W) \in Nat
    BY UsedFacts
  <2>3. W = {}
    <3>1. Cardinality(W) = 0
      BY <2>1, <2>2
    <3> QED BY <2>2, <3>1, FS_EmptySet
  <2>4. \A t \in host.ids : book.given[t] = 0
    <3>1. \A i \in Slots : output.tokens[i] = 0
      BY <2>3 DEF UsedSlots
    <3>2. \A t : find(table.ids, t) # 0 => find(table.ids, t) \in Slots
      BY TypeFacts, EntryFacts DEF IInv
    <3> QED BY <3>1, <3>2 DEF IInv, Exact, Books
  <2> QED BY <1>2, <2>4
<1>3. CASE output.type = "BIP32"
  <2>1. /\ bip32_path_validate(output.path, "ADDRESS_E5")
        /\ \/ bip32_path_is_equal(output.path, last_approved_change)
           \/ /\ output.path[4] = bip32[4]
              /\ ~(output.path[5] >= (bip32[5] + 20) % (BYTE*BYTE*BYTE*BYTE))
    BY <1>3 DEF should_show
  <2>2. Len(output.path) = 5
    BY <2>1 DEF bip32_path_validate
  <2>3. ASSUME book.approved = {}
        PROVE  output.path[4] = bip32[4] /\ output.path[5] < bip32[5] + 20
    <3>1. last_approved_change = <<>>
      BY <2>3 DEF IInv, Approved
    <3>2. ~bip32_path_is_equal(output.path, last_approved_change)
      BY <2>2, <3>1, Zeros DEF bip32_path_is_equal
    <3>3. output.path[4] = bip32[4] /\ ~(output.path[5] >= (bip32[5] + 20) % M)
      BY <2>1, <3>2 DEF M
    <3>4. M \in Nat \ {0}
      <4>1. BYTE \in Nat \ {0}
        BY HostsAssumption
      <4>2. BYTE * BYTE \in Nat \ {0}
        BY <4>1
      <4>3. (BYTE * BYTE) * BYTE \in Nat \ {0}
        BY <4>1, <4>2
      <4>4. ((BYTE * BYTE) * BYTE) * BYTE \in Nat \ {0}
        BY <4>1, <4>3
      <4> QED BY <4>4 DEF M
    <3>5. output.path[5] \in 0..(M - 1) /\ bip32[5] \in 0..(M - 1)
      <4>1. Len(bip32) >= 5 /\ Len(bip32) \in Nat
        BY <1>1, LenProperties DEF IInv, Started, Paths
      <4>2. 5 \in 1..Len(bip32) /\ 5 \in 1..Len(output.path)
        BY <2>2, <4>1
      <4> QED BY <1>1, <4>2, ElementOfSeq DEF Paths
    <3> DEFINE x == output.path[5]
               y == bip32[5]
    <3>6. x \in Nat /\ y \in Nat
      BY <3>4, <3>5
    <3> HIDE DEF x, y, M
    <3>7. (y + 20) % M =< y + 20 /\ (y + 20) % M \in Nat
      BY <3>4, <3>6
    <3>8. x < y + 20
      BY <3>3, <3>6, <3>7 DEF x, y
    <3> QED BY <3>3, <3>8 DEF x, y
  <2> QED BY <1>3, <2>1, <2>3
<1>4. CASE output.type \notin {"MINERS_FEE", "BIP32"}
  BY <1>4 DEF should_show
<1> QED BY <1>2, <1>3, <1>4

LEMMA ShownInv ==
    ASSUME IInv, finish_output, should_show(output)
    PROVE  IInv'
<1> DEFINE s == OutputPages(output)
           a == IF output.type = "BIP32" THEN book.approved \cup {output.path} ELSE book.approved
<1>1. /\ op = "OUTPUTS" /\ pairs' = pairs \o s
      /\ last_approved_change' = IF output.type = "BIP32" THEN output.path ELSE <<>>
      /\ output' = [output EXCEPT !.state = "SHOWN"]
      /\ book' = [book EXCEPT !.pages = @ + Len(s), !.approved = a]
      /\ UNCHANGED <<host, op, bip32, amounts, table>>
  BY DEF finish_output
<1>2. s \in Seq(PageSet)
  BY OutputPagesAre DEF IInv
<1>3. pairs \in Seq(PageSet) /\ output.path \in Paths /\ Len(pairs) = book.pages
  BY <1>1, TypeFacts DEF IInv, Types, Started
<1>4. /\ pairs' \in Seq(PageSet) /\ Len(pairs') = Len(pairs) + Len(s) /\ Len(pairs) \in Nat
      /\ Len(s) \in Nat /\ \A k \in 1..Len(s) : pairs'[Len(pairs) + k] = s[k]
  <2> HIDE DEF s
  <2> QED BY <1>1, <1>2, <1>3, PutAfter
<1>5. /\ output' \in Outputs /\ output'.tokens = output.tokens /\ output'.type = output.type
      /\ output'.path = output.path /\ output'.value = output.value
      /\ output'.state = "SHOWN"
  BY <1>1 DEF IInv, Types, Outputs
<1>6. OutputPages(output)' = s
  <2>1. /\ output'.tokens = output.tokens /\ output'.type = output.type
        /\ output'.path = output.path /\ output'.value = output.value /\ table' = table
    BY <1>1, <1>5
  <2> QED BY <2>1, Zenon DEF OutputPages, TokenPages
<1> HIDE DEF s
<1>7. a \in SUBSET Paths
  BY <1>3 DEF IInv, Types, Ledger
<1> HIDE DEF a
<1>8. /\ book' \in Ledger(host.ids) /\ book'.balance = book.balance
      /\ book'.fee = book.fee /\ book'.moved = book.moved /\ book'.given = book.given
      /\ book'.pages = book.pages + Len(s) /\ book'.approved = a /\ book'.hidden = book.hidden
  <2>1. book.pages + Len(s) \in Nat
    BY <1>4, TypeFacts DEF IInv
  <2> QED BY <1>1, <1>7, <2>1 DEF IInv, Types, Ledger
<1>9. last_approved_change' \in Paths
  BY <1>1, <1>3, Zeros
<1>10. Types'
  BY <1>1, <1>4, <1>5, <1>8, <1>9 DEF IInv, Types
<1>11. Started'
  BY <1>1, <1>3, <1>4, <1>8 DEF IInv, Started
<1>12. Exact'
  BY <1>1, <1>5, <1>8 DEF IInv, Exact
<1>13. Told'
  <2>1. Len(pairs) \in 0..Len(pairs')
    BY <1>4
  <2> DEFINE n == Len(pairs)
  <2> HIDE DEF n
  <2>2. Len(pairs') = n + Len(s) /\ \A k \in 1..Len(s) : pairs'[n + k] = s[k]
    BY <1>4 DEF n
  <2>3. \E m \in 0..Len(pairs') :
           Len(pairs') = m + Len(s) /\ \A k \in 1..Len(s) : pairs'[m + k] = s[k]
    BY <2>1, <2>2 DEF n
  <2> QED BY <1>1, <1>6, <2>3 DEF Told, EndWith
<1>14. Approved'
  BY <1>1, <1>8 DEF Approved, a
<1>15. HiddenOutputsAreOwn'
  BY <1>1, <1>8 DEF IInv, HiddenOutputsAreOwn
<1> QED BY <1>10, <1>11, <1>12, <1>13, <1>14, <1>15 DEF IInv

LEMMA HiddenInv ==
    ASSUME IInv, finish_output, ~should_show(output)
    PROVE  IInv'
<1> DEFINE given == \E t \in host.ids : book.given[t] > 0
           o == [type |-> output.type, path |-> output.path, tokens |-> given,
                 approved |-> book.approved]
<1>1. /\ op = "OUTPUTS" /\ output' = [output EXCEPT !.state = "HIDDEN"]
      /\ book' = [book EXCEPT !.hidden = @ \cup {o}]
      /\ UNCHANGED <<host, op, bip32, amounts, table, pairs, last_approved_change>>
  BY DEF finish_output
<1>2. given \in BOOLEAN
  OBVIOUS
<1>3. \/ output.type = "MINERS_FEE" /\ ~given
      \/ /\ output.type = "BIP32"
         /\ bip32_path_validate(output.path, "ADDRESS_E5")
         /\ book.approved = {} =>
               output.path[4] = bip32[4] /\ output.path[5] < bip32[5] + 20
  BY <1>1, HiddenIsOwn
<1> HIDE DEF given
<1>4. /\ o \in Hidden /\ o.type = output.type /\ o.path = output.path /\ o.tokens = given
      /\ o.approved = book.approved
  BY <1>2, TypeFacts DEF IInv, Types, Ledger, Hidden
<1> HIDE DEF o
<1>5. /\ output' \in Outputs /\ output'.tokens = output.tokens
      /\ output'.state = "HIDDEN"
  BY <1>1 DEF IInv, Types, Outputs
<1>6. /\ book' \in Ledger(host.ids) /\ book'.balance = book.balance
      /\ book'.fee = book.fee /\ book'.moved = book.moved /\ book'.given = book.given
      /\ book'.pages = book.pages /\ book'.approved = book.approved
      /\ book'.hidden = book.hidden \cup {o}
  BY <1>1, <1>4 DEF IInv, Types, Ledger
<1>7. Types'
  BY <1>1, <1>5, <1>6 DEF IInv, Types
<1>8. Exact'
  BY <1>1, <1>5, <1>6 DEF IInv, Exact
<1>9. Started' /\ Told' /\ Approved'
  BY <1>1, <1>5, <1>6 DEF IInv, Started, Told, Approved
<1>10. HiddenOutputsAreOwn'
  <2>1. bip32' = bip32 /\ \A x \in book'.hidden : x \in book.hidden \/ x = o
    BY <1>1, <1>6
  <2> QED BY <1>3, <1>4, <2>1 DEF IInv, HiddenOutputsAreOwn
<1> QED BY <1>7, <1>8, <1>9, <1>10 DEF IInv

\* ui_stx_operation_p2pk_show_confirm_screen: the last pages follow the others.
LEMMA ShowConfirmInv ==
    ASSUME IInv, show_confirm_screen
    PROVE  IInv'
<1>1. /\ op = "OUTPUTS" /\ op' = "FINALIZED" /\ pairs' = pairs \o TxPages
      /\ UNCHANGED <<host, bip32, amounts, table, output, last_approved_change, book>>
  BY DEF show_confirm_screen
<1>2. TxPages \in Seq(PageSet) /\ pairs \in Seq(PageSet) /\ Len(pairs) = book.pages
  BY <1>1, TxPagesAre DEF IInv, Types, Started
<1>3. /\ pairs' \in Seq(PageSet) /\ Len(pairs') = Len(pairs) + Len(TxPages)
      /\ \A k \in 1..Len(TxPages) : pairs'[Len(pairs) + k] = TxPages[k]
  BY <1>1, <1>2, PutAfter
<1>4. TxPages' = TxPages
  <2>1. amounts' = amounts /\ table' = table
    BY <1>1
  <2> DEFINE b == [i \in Slots |-> BalanceText(amounts.tokens[i])]
  <2>2. b' = b
    BY <2>1
  <2>3. TokenPages(amounts.tokens, b)' = TokenPages(amounts.tokens, b)
    <3> HIDE DEF b
    <3> QED BY <2>1, <2>2 DEF TokenPages
  <2> QED BY <2>1, <2>3 DEF TxPages
<1>5. Types' /\ Started' /\ Exact' /\ Approved' /\ HiddenOutputsAreOwn'
  BY <1>1, <1>3 DEF IInv, Types, Started, Exact, Approved, HiddenOutputsAreOwn
<1>6. Told'
  BY <1>1, <1>2, <1>3, <1>4 DEF Told, EndWith
<1> QED BY <1>5, <1>6 DEF IInv

----------------------------------------------------------------------------
(* Theorems                                                                *)

LEMMA InitInv == Init => IInv
<1> SUFFICES ASSUME Init PROVE IInv
  OBVIOUS
<1>1. Types
  BY NewBookFacts, Zeros DEF Init, Types, ZeroTable
<1>2. Exact
  BY Zeros DEF Init, Exact, ZeroAmounts, ZeroOutput, ZeroTable, NewBook
<1>3. Started /\ Told /\ Approved /\ HiddenOutputsAreOwn
  BY Zeros DEF Init, Started, Told, Approved, HiddenOutputsAreOwn, NewBook
<1> QED BY <1>1, <1>2, <1>3 DEF IInv

LEMMA StepInv == IInv /\ [Next]_vars => IInv'
<1> SUFFICES ASSUME IInv, [Next]_vars PROVE IInv'
  OBVIOUS
<1>h. /\ host.values \subseteq Unsigned /\ host.amounts \subseteq Unsigned
      /\ host.changes \subseteq Paths /\ <<>> \in Paths
  BY HostFacts, Zeros DEF IInv, Types
<1>1. ASSUME NEW p \in host.signs, NEW known \in host.known, sign_init(p, known)
      PROVE  IInv'
  BY <1>1, SignInitInv
<1>2. ASSUME NEW ids \in Tables(host.ids), start_tx(ids)
      PROVE  IInv'
  BY <1>2, StartTxInv
<1>3. ASSUME NEW v \in host.values, stx_amounts_add_input(v)
      PROVE  IInv'
  BY <1>3, <1>h, AddInputInv
<1>4. ASSUME NEW t \in host.ids, NEW v \in host.amounts, stx_amounts_add_input_token(t, v)
      PROVE  IInv'
  BY <1>4, <1>h, AddInputTokenInv
<1>5. ASSUME NEW v \in host.values, add_output(v)
      PROVE  IInv'
  BY <1>5, <1>h, AddOutputInv
<1>6. ASSUME NEW p \in host.changes, add_output_tree("BIP32", p)
      PROVE  IInv'
  BY <1>6, <1>h, AddOutputTreeInv
<1>7. CASE add_output_tree("MINERS_FEE", <<>>)
  BY <1>7, <1>h, AddOutputTreeInv
<1>8. CASE add_output_tree("ADDRESS", <<>>)
  BY <1>8, <1>h, AddOutputTreeInv
<1>9. ASSUME NEW n \in 1..Len(table.ids), NEW v \in host.amounts, add_output_token(n, v)
      PROVE  IInv'
  BY <1>9, <1>h, AddOutputTokenInv
<1>10. CASE finish_output
  BY <1>10, ShownInv, HiddenInv
<1>11. CASE show_confirm_screen
  BY <1>11, ShowConfirmInv
<1>12. CASE session_ends
  BY <1>12, ErrInv DEF session_ends
<1>13. CASE output_overrun \/ confirm_overrun
  BY <1>13, OverrunInv DEF output_overrun, confirm_overrun
<1>14. CASE restart
  BY <1>14, RestartInv
<1>15. CASE UNCHANGED vars
  <2>1. TxPages' = TxPages /\ OutputPages(output)' = OutputPages(output)
    BY <1>15 DEF vars, TxPages, OutputPages, TokenPages
  <2>2. Types' /\ Started' /\ Exact' /\ Approved' /\ HiddenOutputsAreOwn'
    BY <1>15 DEF vars, IInv, Types, Started, Exact, Approved, HiddenOutputsAreOwn
  <2>3. Told'
    BY <1>15, <2>1 DEF vars, IInv, Told, EndWith
  <2> QED BY <2>2, <2>3 DEF IInv
<1> QED BY <1>1, <1>2, <1>3, <1>4, <1>5, <1>6, <1>7, <1>8, <1>9, <1>10, <1>11, <1>12, <1>13,
           <1>14, <1>15
        DEF Next, Call

LEMMA Invariance == Spec => []IInv
  BY InitInv, StepInv, PTL DEF Spec

\* The amounts of sign_transaction_amounts_ctx_t stay within their words and
\* the token table within TOKEN_MAX_COUNT.
THEOREM ReviewTypes == Spec => []TypeOK
<1>1. IInv => TypeOK
  BY DEF IInv, Types, TypeOK, Amounts, Outputs
<1> QED BY <1>1, Invariance, PTL

\* No sum of stx_amounts.c wraps and no balance goes to a wrong entry, whatever
\* the widths, the table, its repeated ids and the order of the calls.
THEOREM ReviewSums == Spec => []SumsExact
<1>1. IInv => SumsExact
  BY DEF IInv, Exact, Books, SumsExact, find
<1> QED BY <1>1, Invariance, PTL

\* An output without a page (stx_operation_p2pk_should_show_output_confirm_
\* screen) is a fee without tokens, or change to an address of this wallet and,
\* as long as no other change was approved, near the signing one.
THEOREM ReviewHidden == Spec => []HiddenOutputsAreOwn
<1>1. IInv => HiddenOutputsAreOwn
  BY DEF IInv
<1> QED BY <1>1, Invariance, PTL

\* The pages of ui_stx_display_output_state and ui_stx_display_tx_state tell
\* exactly the amounts and tokens of the output, the fee, and the tokens that
\* the transaction creates or destroys, as long as they fit in their array.
THEOREM ReviewScreens == Spec => []ScreensTell
<1>1. IInv => ScreensTell
  <2> SUFFICES ASSUME IInv PROVE ScreensTell
    OBVIOUS
  <2>1. Types /\ Exact /\ Told /\ Started
    BY DEF IInv
  <2>2. pairs \in Seq(PageSet) /\ Len(pairs) \in Nat /\ book.pages \in Nat
    BY <2>1, LenProperties, TypeFacts DEF Types
  <2>3. op \notin {"NONE", "FINALIZED", "OVERRUN"} => Len(pairs) = book.pages
    BY <2>1 DEF Started
  <2> DEFINE g     == Cardinality(GivenTokens)
             first == Len(pairs) - 1 - 2 * g
  <2>4. ASSUME op = "OUTPUTS", output.state = "SHOWN"
        PROVE  IF output.type = "BIP32" THEN pairs[Len(pairs)].text = output.path
               ELSE /\ first > 0 /\ pairs[first].text = output.type
                    /\ pairs[first + 1].text = output.value
                    /\ TokensTold(SubSeq(pairs, first + 2, Len(pairs)), GivenTokens)
    <3> DEFINE s  == OutputPages(output)
               tp == OutputTokenPages
    <3>1. PICK n \in 0..Len(pairs) :
             Len(pairs) = n + Len(s) /\ \A k \in 1..Len(s) : pairs[n + k] = s[k]
      BY <2>1, <2>4 DEF Told, EndWith
    <3>2. n \in Nat
      BY <2>2
    <3>3. CASE output.type = "BIP32"
      <4>1. Len(s) = 1 /\ s[1].text = output.path
        BY <2>1, <3>3, OutputPagesAre
      <4> HIDE DEF s
      <4>2. Len(pairs) = n + 1 /\ pairs[n + 1] = s[1]
        BY <3>1, <4>1
      <4> QED BY <3>3, <4>1, <4>2
    <3>4. CASE output.type # "BIP32"
      <4>1. /\ Len(s) = 2 + Len(tp) /\ s[1].text = output.type /\ s[2].text = output.value
            /\ \A k \in 1..Len(tp) : s[2 + k] = tp[k]
        BY <2>1, <3>4, OutputPagesAre
      <4>2. /\ tp \in Seq(PageSet) /\ g \in Nat /\ Len(tp) = 2 * g
            /\ TokensTold(tp, GivenTokens)
        BY <2>1, OutputTokensTold
      <4> HIDE DEF s, tp, g
      <4>3. first = n + 1 /\ Len(pairs) = (n + 2) + Len(tp) /\ Len(tp) \in Nat
        BY <3>1, <3>2, <4>1, <4>2
      <4>4. pairs[n + 1] = s[1] /\ pairs[n + 2] = s[2]
        <5>1. 1 \in 1..Len(s) /\ 2 \in 1..Len(s)
          BY <4>1, <4>3
        <5> QED BY <3>1, <5>1
      <4>5. \A k \in 1..Len(tp) : pairs[(n + 2) + k] = tp[k]
        <5>1. \A k \in 1..Len(tp) : 2 + k \in 1..Len(s) /\ n + (2 + k) = (n + 2) + k
          BY <3>2, <4>1, <4>3
        <5> QED BY <3>1, <4>1, <5>1
      <4>6. SubSeq(pairs, (n + 2) + 1, Len(pairs)) = tp
        <5>1. n + 2 \in Nat
          BY <3>2
        <5> QED BY <2>2, <4>2, <4>3, <4>5, <5>1, RestIs
      <4>7. first > 0 /\ first + 1 = n + 2 /\ first + 2 = (n + 2) + 1
        BY <3>2, <4>3
      <4> HIDE DEF first
      <4> QED BY <3>4, <4>1, <4>2, <4>3, <4>4, <4>6, <4>7
    <3> QED BY <3>3, <3>4
  <2>5. ASSUME op = "FINALIZED"
        PROVE  /\ pairs[book.pages + 1].text = book.fee
               /\ TokensTold(SubSeq(pairs, book.pages + 2, Len(pairs)), MovedTokens)
    <3> DEFINE n  == book.pages
               tp == TxTokenPages
    <3>1. Len(pairs) = n + Len(TxPages) /\ \A k \in 1..Len(TxPages) : pairs[n + k] = TxPages[k]
      BY <2>1, <2>5 DEF Told, EndWith
    <3>2. /\ Len(TxPages) = 1 + Len(tp) /\ TxPages[1].text = amounts.fee
          /\ \A k \in 1..Len(tp) : TxPages[1 + k] = tp[k]
      BY <2>1, TxPagesAre
    <3>3. tp \in Seq(PageSet) /\ Len(tp) \in Nat /\ TokensTold(tp, MovedTokens)
      BY <2>1, TxTokensTold, LenProperties
    <3>4. n \in Nat
      BY <2>2
    <3> HIDE DEF n, tp
    <3>5. pairs[n + 1] = TxPages[1]
      <4>1. 1 \in 1..Len(TxPages)
        BY <3>2, <3>3
      <4> QED BY <3>1, <4>1
    <3>6. \A k \in 1..Len(tp) : pairs[(n + 1) + k] = tp[k]
      <4>1. \A k \in 1..Len(tp) : 1 + k \in 1..Len(TxPages) /\ n + (1 + k) = (n + 1) + k
        BY <3>2, <3>3, <3>4
      <4> QED BY <3>1, <3>2, <4>1
    <3>7. SubSeq(pairs, (n + 1) + 1, Len(pairs)) = tp
      <4>1. n + 1 \in Nat /\ Len(pairs) = (n + 1) + Len(tp)
        BY <3>1, <3>2, <3>3, <3>4
      <4> QED BY <2>2, <3>3, <3>6, <4>1, RestIs
    <3>8. (n + 1) + 1 = n + 2
      BY <3>4
    <3>9. amounts.fee = book.fee
      BY <2>1 DEF Exact
    <3> QED BY <3>2, <3>3, <3>5, <3>7, <3>8, <3>9 DEF n
  <2> HIDE DEF first, g
  <2> QED BY <2>3, <2>4, <2>5 DEF ScreensTell, GivenTokens, MovedTokens, first, g
<1> QED BY <1>1, Invariance, PTL
============================================================================
