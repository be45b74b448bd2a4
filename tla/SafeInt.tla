------------------------------ MODULE SafeInt ------------------------------
(***************************************************************************)
(* The checked arithmetic of safeint.h.  A word is an integer of WIDTH     *)
(* bits in the code (64); here its range is 2 * Half, so that the ends of  *)
(* the signed and of the unsigned range can be reached by small amounts.   *)
(* A result is a record: whether the call succeeds, and what it stores.    *)
(***************************************************************************)
EXTENDS Integers

CONSTANT Half            \* 2^63 in the code

ASSUME HalfAssumption == Half \in Nat \ {0}

UINT_MAX == 2 * Half - 1
INT_MAX  == Half - 1
INT_MIN  == -Half

Unsigned == 0..UINT_MAX
Signed   == INT_MIN..INT_MAX

\* What one addition, subtraction, negation or conversion of words leaves in
\* an unsigned word: C reduces it modulo the range, which it leaves by at most
\* one range.
U(x) == IF x < 0 THEN x + 2 * Half ELSE IF x > UINT_MAX THEN x - 2 * Half ELSE x

\* Mutant: the sum stays unsigned.
S_unsigned(u) == u

\* An unsigned word stored in a signed one.
S(u) == IF u > INT_MAX THEN u - 2 * Half ELSE u

Result(ok, out) == [ok |-> ok, out |-> out]

checked_add_u64(l, r) == Result(~(UINT_MAX - l < r), U(l + r))

checked_sub_u64(l, r) == Result(~(r > l), U(l - r))

\* Mutant: an amount that needs the sign bit is let through.
checked_add_i64_wide(l, r) ==
    LET fails == IF l < 0 THEN r >= U(-l) /\ U(r + U(l)) > INT_MAX
                          ELSE U(INT_MAX - r) < l
    IN  Result(~fails, S(U(U(l) + r)))

\* l is signed and r unsigned: in a mixed expression C makes both unsigned.
checked_add_i64(l, r) ==
    LET fails == IF l < 0 THEN r >= U(-l) /\ U(r + U(l)) > INT_MAX
                          ELSE r > INT_MAX \/ U(INT_MAX - r) < l
    IN  Result(~fails, S(U(U(l) + r)))

checked_sub_i64(l, r) ==
    LET fails == IF l < 0 THEN r > INT_MAX \/ U(r - U(l)) > INT_MAX + 1
                          ELSE l < r /\ U(r - l) > INT_MAX + 1
    IN  Result(~fails, S(U(U(l) - r)))
============================================================================
