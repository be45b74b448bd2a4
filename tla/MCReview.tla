------------------------------ MODULE MCReview ------------------------------
(* Small instances of Review for TLC.  A path element has four bytes of 128 *)
(* values, as large as TLC's integers allow.                               *)
EXTENDS Review

Ergo(account, branch, index) ==
    <<Hardened(44), Hardened(429), Hardened(account), branch, index>>

Top == Hardened(0) - 1

\* Amounts at the ends of words of 3 bits, two tokens, one change address.
Accountant == [ids |-> {"A", "B"}, values |-> {1, 7}, amounts |-> {0, 1, 4, 7},
               signs |-> {Ergo(0, 0, 0)}, changes |-> {Ergo(0, 0, 1)}, known |-> {TRUE},
               ins |-> 2, outs |-> 2]

\* Paths around the signing one, a path of six elements and one of no address;
\* no tokens.
Traveller == [ids |-> {}, values |-> {0}, amounts |-> {},
              signs |-> {Ergo(0, 0, 0), Ergo(0, 0, 1), Ergo(1, 1, Top),
                         Ergo(0, 0, 0) \o <<0>>, <<Hardened(44), Hardened(429)>>},
              changes |-> {Ergo(0, 0, 0), Ergo(0, 0, 19), Ergo(0, 0, 20), Ergo(0, 1, 0),
                           Ergo(1, 0, 0), Ergo(1, 1, Top), Ergo(0, 0, 0) \o <<7>>,
                           Ergo(0, 2, 0)}, known |-> {TRUE},
              ins |-> 1, outs |-> 3]

\* An application the device does not know.
Stranger == [ids |-> {"A"}, values |-> {1, 2}, amounts |-> {1, 2},
             signs |-> {Ergo(0, 0, 0)}, changes |-> {Ergo(0, 0, 1), Ergo(0, 1, 0)},
             known |-> {FALSE}, ins |-> 1, outs |-> 2]

\* As many outputs as there is no more room for: seven fill the pages.
Crowd == [ids |-> {}, values |-> {1}, amounts |-> {}, signs |-> {Ergo(0, 0, 0)},
          changes |-> {}, known |-> {TRUE}, ins |-> 1, outs |-> 8]

MCHosts == {Accountant, Traveller, Stranger, Crowd}
============================================================================
