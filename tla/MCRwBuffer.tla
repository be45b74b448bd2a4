----------------------------- MODULE MCRwBuffer -----------------------------
(* Small instances of RwBuffer for TLC.                                    *)
EXTENDS RwBuffer

\* Zero, the first of two groups and the last of the word.
MCNumbers == {0, 4, 31}
MCChunks == {<<>>, <<5>>}

\* No action reads the last answer, so states that differ in it alone are one.
Buffer == <<mem, offset, wpos, sent>>
============================================================================
