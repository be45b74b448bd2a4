----------------------------- MODULE ByteQueue -----------------------------
(***************************************************************************)
(* What a read-write buffer promises: a queue of bytes with room for some  *)
(* more.  A call that does not fit is refused and changes nothing, only    *)
(* seeking shows again what was read or hides what was written, and        *)
(* compacting makes room without touching what is queued.                  *)
(***************************************************************************)
EXTENDS Integers, Sequences, SequencesExt

CONSTANTS Byte, Capacity

VARIABLES q,         \* the bytes written and not yet read
          room,      \* how many more can be written
          answer     \* what the last call returned: success and bytes

vars == <<q, room, answer>>

Reply(ok, data) == answer' = [ok |-> ok, data |-> data]

\* Near(s, t): one of the two sequences begins (ends) with the other.
NearHead(s, t) == IsPrefix(s, t) \/ IsPrefix(t, s)
NearTail(s, t) == IsSuffix(s, t) \/ IsSuffix(t, s)

Init == q \in Seq(Byte) /\ room = Capacity - Len(q) /\ answer = [ok |-> TRUE, data |-> <<>>]

Put == /\ IsPrefix(q, q') /\ Len(q') - Len(q) =< room
       /\ room' = room - (Len(q') - Len(q)) /\ Reply(TRUE, <<>>)

Get == /\ q = answer'.data \o q' /\ answer'.ok /\ UNCHANGED room

\* A number that is cut off is consumed, as is one too large for its reader.
GetSpoilt == /\ IsSuffix(q', q) /\ Reply(FALSE, <<>>) /\ UNCHANGED room

Peek == /\ IsPrefix(answer'.data, q) /\ answer'.ok /\ UNCHANGED <<q, room>>

Refuse == Reply(FALSE, <<>>) /\ UNCHANGED <<q, room>>

SeekRead  == NearTail(q, q') /\ Reply(TRUE, <<>>) /\ UNCHANGED room

SeekWrite == /\ NearHead(q, q') /\ room' = room - (Len(q') - Len(q))
             /\ room' \in 0..Capacity /\ Reply(TRUE, <<>>)

Compact == room' = Capacity - Len(q) /\ Reply(TRUE, <<>>) /\ UNCHANGED q

Empty == q' = <<>> /\ room' = Capacity /\ Reply(TRUE, <<>>)

Next == \/ Put \/ Get \/ GetSpoilt \/ Peek \/ Refuse
        \/ SeekRead \/ SeekWrite \/ Compact \/ Empty

Spec == Init /\ [][Next]_vars
============================================================================
