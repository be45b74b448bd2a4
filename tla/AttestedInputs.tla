--------------------------- MODULE AttestedInputs ---------------------------
(***************************************************************************)
(* What attestation promises a signing session: it counts boxes this       *)
(* device has seen in full since it was switched on.  A box comes in       *)
(* pieces, and what ties the pieces together is the box's id: an input has *)
(* the value, the number of pieces and the first piece of one box, and at  *)
(* every place a piece of a box with its id.  If only one box seen has the *)
(* id, it is that box.  Frames, keys and the host are the business of      *)
(* Attest, which implements this.                                          *)
(***************************************************************************)
EXTENDS Integers, Sequences

CONSTANT Contents           \* boxes: id, value and a sequence of pieces

VARIABLES attested,         \* the boxes seen in full
          inputs            \* what is counted for the open transaction

vars == <<attested, inputs>>

Init == attested = {} /\ inputs = <<>>

AllPieces == UNION {{b.pieces[k] : k \in 1..Len(b.pieces)} : b \in attested}

See(c) == attested' = attested \cup {c} /\ UNCHANGED inputs

Count(b, pieces) ==
    /\ pieces[1] = b.pieces[1]
    /\ \A k \in 1..Len(b.pieces) : \E a \in attested :
          a.id = b.id /\ k =< Len(a.pieces) /\ pieces[k] = a.pieces[k]
    /\ inputs' = Append(inputs, [id |-> b.id, value |-> b.value, pieces |-> pieces])
    /\ UNCHANGED attested

Forget   == inputs' = <<>> /\ UNCHANGED attested
SwitchOn == attested' = {} /\ inputs' = <<>>

Next ==
    \/ \E c \in Contents : See(c)
    \/ \E b \in attested : \E pieces \in [1..Len(b.pieces) -> AllPieces] : Count(b, pieces)
    \/ Forget \/ SwitchOn

Spec == Init /\ [][Next]_vars
============================================================================
