------------------------------ MODULE MCAttest ------------------------------
(* Small instances of Attest for TLC.                                      *)
EXTENDS Attest

MCTokenIds == 1..5
Tokens(n, amount) == [i \in 1..n |-> <<i, amount>>]
Box(value, tree, tokens, registers) ==
    [tx |-> 1, value |-> value, height |-> 1, tree |-> tree, tokens |-> tokens,
     registers |-> registers]

\* The same bytes, cut into tree, tokens and registers in two ways: one box has
\* three tokens, the other four with other amounts, both are two frames, and
\* their ids are equal.
Three == Box(2, <<1>>, Tokens(3, 1), <<1, 4>> \o Flat(Tokens(4, 2)) \o <<0>>)
Four  == Box(2, <<1, 1, 3>> \o Flat(Tokens(3, 1)), Tokens(4, 2), <<>>)

ASSUME OneId == BoxId(Three) = BoxId(Four)

\* These, a box of one frame, one with other bytes and two frames, one with a
\* token twice and one too large.
MCBoxes == {Three, Four, Box(1, <<1>>, <<>>, <<>>), Box(1, <<1>>, Tokens(3, 1), <<>>),
            Box(1, <<1>>, <<<<1, 1>>, <<1, 2>>>>, <<>>), Box(1, <<1>>, Tokens(5, 1), <<>>)}
============================================================================
