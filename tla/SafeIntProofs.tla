--------------------------- MODULE SafeIntProofs ---------------------------
(***************************************************************************)
(* The checked operations are exact for words of every width: a call       *)
(* succeeds exactly if the true result fits the word, and then stores it.  *)
(***************************************************************************)
EXTENDS SafeInt, TLAPS

\* The fields of a result.
LEMMA Fields ==
    ASSUME NEW ok \in BOOLEAN, NEW out
    PROVE  Result(ok, out).ok = ok /\ Result(ok, out).out = out
  BY DEF Result

\* checked_add_u64 succeeds exactly if the sum fits, and stores the sum.
THEOREM AddUnsignedExact ==
    ASSUME NEW l \in Unsigned, NEW r \in Unsigned
    PROVE  /\ checked_add_u64(l, r).ok <=> l + r \in Unsigned
           /\ checked_add_u64(l, r).ok => checked_add_u64(l, r).out = l + r
<1> DEFINE fits == ~(UINT_MAX - l < r)
<1>1. checked_add_u64(l, r).ok = fits /\ checked_add_u64(l, r).out = U(l + r)
  BY Fields, fits \in BOOLEAN DEF checked_add_u64
<1>2. fits <=> l + r \in Unsigned
  BY HalfAssumption DEF Unsigned, UINT_MAX
<1>3. l + r \in Unsigned => U(l + r) = l + r
  BY HalfAssumption DEF Unsigned, UINT_MAX, U
<1> QED BY <1>1, <1>2, <1>3

\* checked_sub_u64 succeeds exactly if the difference is not negative.
THEOREM SubUnsignedExact ==
    ASSUME NEW l \in Unsigned, NEW r \in Unsigned
    PROVE  /\ checked_sub_u64(l, r).ok <=> l - r \in Unsigned
           /\ checked_sub_u64(l, r).ok => checked_sub_u64(l, r).out = l - r
<1> DEFINE fits == ~(r > l)
<1>1. checked_sub_u64(l, r).ok = fits /\ checked_sub_u64(l, r).out = U(l - r)
  BY Fields, fits \in BOOLEAN DEF checked_sub_u64
<1>2. fits <=> l - r \in Unsigned
  BY HalfAssumption DEF Unsigned, UINT_MAX
<1>3. l - r \in Unsigned => U(l - r) = l - r
  BY HalfAssumption DEF Unsigned, UINT_MAX, U
<1> QED BY <1>1, <1>2, <1>3

\* A signed word goes to unsigned and back.
LEMMA Back ==
    ASSUME NEW l \in Signed, NEW r \in Unsigned
    PROVE  /\ l + r \in Signed => S(U(U(l) + r)) = l + r
           /\ l - r \in Signed => S(U(U(l) - r)) = l - r
  BY HalfAssumption DEF Signed, Unsigned, UINT_MAX, INT_MAX, INT_MIN, U, S

\* checked_add_i64, for a balance of either sign and any amount: the mixed
\* comparisons refuse exactly the sums that do not fit.
THEOREM AddSignedExact ==
    ASSUME NEW l \in Signed, NEW r \in Unsigned
    PROVE  /\ checked_add_i64(l, r).ok <=> l + r \in Signed
           /\ checked_add_i64(l, r).ok => checked_add_i64(l, r).out = l + r
<1> DEFINE fits == ~(IF l < 0 THEN r >= U(-l) /\ U(r + U(l)) > INT_MAX
                              ELSE r > INT_MAX \/ U(INT_MAX - r) < l)
<1>1. /\ checked_add_i64(l, r).ok = fits
      /\ checked_add_i64(l, r).out = S(U(U(l) + r))
  BY Fields, fits \in BOOLEAN DEF checked_add_i64
<1>2. CASE l < 0
  <2>1. U(-l) = -l /\ U(l) = l + 2 * Half
    BY <1>2, HalfAssumption DEF Signed, INT_MIN, INT_MAX, UINT_MAX, U
  <2>2. r >= -l => U(r + U(l)) = l + r
    BY <1>2, <2>1, HalfAssumption DEF Signed, Unsigned, INT_MIN, INT_MAX, UINT_MAX, U
  <2>3. fits <=> l + r \in Signed
    BY <1>2, <2>1, <2>2, HalfAssumption DEF Signed, Unsigned, INT_MIN, INT_MAX, UINT_MAX
  <2> QED BY <1>1, <2>3, Back
<1>3. CASE ~(l < 0)
  <2>1. ~(r > INT_MAX) => U(INT_MAX - r) = INT_MAX - r
    BY <1>3, HalfAssumption DEF Unsigned, INT_MAX, UINT_MAX, U
  <2>2. fits <=> l + r \in Signed
    BY <1>3, <2>1, HalfAssumption DEF Signed, Unsigned, INT_MIN, INT_MAX, UINT_MAX
  <2> QED BY <1>1, <2>2, Back
<1> QED BY <1>2, <1>3

\* checked_sub_i64 likewise, down to the most negative word.
THEOREM SubSignedExact ==
    ASSUME NEW l \in Signed, NEW r \in Unsigned
    PROVE  /\ checked_sub_i64(l, r).ok <=> l - r \in Signed
           /\ checked_sub_i64(l, r).ok => checked_sub_i64(l, r).out = l - r
<1> DEFINE fits == ~(IF l < 0 THEN r > INT_MAX \/ U(r - U(l)) > INT_MAX + 1
                              ELSE l < r /\ U(r - l) > INT_MAX + 1)
<1>1. /\ checked_sub_i64(l, r).ok = fits
      /\ checked_sub_i64(l, r).out = S(U(U(l) - r))
  BY Fields, fits \in BOOLEAN DEF checked_sub_i64
<1>2. CASE l < 0
  <2>1. U(l) = l + 2 * Half
    BY <1>2, HalfAssumption DEF Signed, INT_MIN, INT_MAX, UINT_MAX, U
  <2>2. ~(r > INT_MAX) => U(r - U(l)) = r - l
    BY <1>2, <2>1, HalfAssumption DEF Signed, Unsigned, INT_MIN, INT_MAX, UINT_MAX, U
  <2>3. fits <=> l - r \in Signed
    BY <1>2, <2>1, <2>2, HalfAssumption DEF Signed, Unsigned, INT_MIN, INT_MAX, UINT_MAX
  <2> QED BY <1>1, <2>3, Back
<1>3. CASE ~(l < 0)
  <2>1. l < r => U(r - l) = r - l
    BY <1>3, HalfAssumption DEF Signed, Unsigned, INT_MIN, INT_MAX, UINT_MAX, U
  <2>2. fits <=> l - r \in Signed
    BY <1>3, <2>1, HalfAssumption DEF Signed, Unsigned, INT_MIN, INT_MAX, UINT_MAX
  <2> QED BY <1>1, <2>2, Back
<1> QED BY <1>2, <1>3
============================================================================
