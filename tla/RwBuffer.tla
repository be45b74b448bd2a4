----------------------------- MODULE RwBuffer ------------------------------
(***************************************************************************)
(* The read-write buffers of rwbuffer.h over the SDK's buffer, and the     *)
(* numbers the app writes to them and reads from them: fixed width in      *)
(* either byte order, and the variable-length integers of gve.c.           *)
(*                                                                         *)
(* Sizes are scaled.  A byte carries GROUP values and a continuation bit   *)
(* (GROUP is 128 in the code), a word holds WORD values (2^64), a size_t   *)
(* SIZE_T (2^32 on the devices) of them.                                   *)
(***************************************************************************)
EXTENDS Integers, Sequences, SequencesExt

CONSTANTS
    Size,           \* bytes of memory of the buffer
    SIZE_T, GROUP, WORD,
    Rounds,         \* bytes of the longest gve number, 10 in the code
    NARROW,         \* values of the narrower integers, 2^16 and 2^32
    Widths,         \* widths of fixed numbers in bytes, 1, 2, 4 and 8
    Numbers,        \* bound: the numbers written
    Chunks,         \* bound: the byte strings written
    Fills           \* bound: what the memory holds at first

BYTE == 2 * GROUP
Byte == 0..(BYTE - 1)

\* The weight of a byte or group is a power of what one holds.
Power(b) == LET p[n \in Nat] == IF n = 0 THEN 1 ELSE p[n - 1] * b IN p

ASSUME RwBufferAssumption ==
    /\ Size \in Nat \ {0} /\ SIZE_T \in Nat /\ GROUP \in Nat \ {0, 1}
    /\ Rounds \in Nat \ {0} /\ NARROW \in 1..WORD
    /\ WORD \in Nat /\ Power(GROUP)[Rounds - 1] < WORD
    /\ WORD =< Power(GROUP)[Rounds]
    /\ 2 * Size < SIZE_T
    /\ Numbers \subseteq 0..(WORD - 1) /\ Chunks \subseteq Seq(Byte)
    /\ Widths \subseteq Nat \ {0} /\ Fills \subseteq Byte

VARIABLES
    mem,        \* the bytes at ptr
    offset,     \* read.offset: the read position
    wpos,       \* read.size: the write position
    answer,     \* what the last call returned, with the bytes it consumed
    sent        \* history: the numbers in the buffer, see Raw

vars == <<mem, offset, wpos, answer, sent>>

size_t(n) == n % SIZE_T

Reply(ok, data) == answer' = [ok |-> ok, data |-> data]

\* A call that returns false leaves the buffer alone.
Refused == Reply(FALSE, <<>>) /\ UNCHANGED <<mem, offset, wpos, sent>>

\* History: when something else than whole numbers was written, read or
\* skipped, what the buffer holds is not told until it is empty.
Raw == << <<"raw", 0>> >>
AfterRaw(o, w) == IF o = w THEN <<>> ELSE Raw

buffer_data_len == size_t(wpos - offset)
rw_buffer_empty_space_len == size_t(Size - wpos)

buffer_can_read(n) == buffer_data_len >= n

\* Mutant: one byte too many is let in.
rw_buffer_can_write_over(n) == rw_buffer_empty_space_len + 1 >= n

rw_buffer_can_write(n) == rw_buffer_empty_space_len >= n

\* The bytes at the read position, and the memory with s at position at.
At(n) == [i \in 1..n |-> mem[offset + i - 1]]
Moved(at, s) == [i \in DOMAIN mem |-> IF i - at \in 0..(Len(s) - 1) THEN s[i - at + 1]
                                                                    ELSE mem[i]]

----------------------------------------------------------------------------
(* Seeking                                                                 *)

Or(ok, A) == (ok /\ A) \/ (~ok /\ Refused)

ReadAt(to) ==
    /\ offset' = to /\ sent' = AfterRaw(to, wpos)
    /\ Reply(TRUE, <<>>) /\ UNCHANGED <<mem, wpos>>
WriteAt(to) ==
    /\ wpos' = to /\ sent' = AfterRaw(offset, to)
    /\ Reply(TRUE, <<>>) /\ UNCHANGED <<mem, offset>>

buffer_seek_set(n) == Or(n =< wpos, ReadAt(n))
buffer_seek_cur(n) ==
    LET to == size_t(offset + n) IN Or(to >= offset /\ to =< wpos, ReadAt(to))
buffer_seek_end(n) == Or(n =< wpos, ReadAt(wpos - n))

\* No caller puts the write position before the read position, which would
\* leave a data length that wraps.
Ordered(to) == to >= offset

rw_buffer_seek_write_set(n) ==
    (n =< Size => Ordered(n)) /\ Or(n =< Size, WriteAt(n))
rw_buffer_seek_write_cur(n) ==
    LET to == size_t(wpos + n) IN Or(to >= wpos /\ to =< Size, WriteAt(to))
rw_buffer_seek_write_end(n) ==
    (n =< Size => Ordered(Size - n)) /\ Or(n =< Size, WriteAt(Size - n))

rw_buffer_empty ==
    /\ offset' = 0 /\ wpos' = 0 /\ Reply(TRUE, <<>>) /\ sent' = <<>> /\ UNCHANGED mem

----------------------------------------------------------------------------
(* Numbers.  A format is the operation's name and the width it is for.     *)

\* Fixed width: the bytes in order of weight.
write_le(v, k) == [i \in 1..k |-> (v \div Power(BYTE)[i - 1]) % BYTE]
read_le(s) == LET sum[n \in 0..Len(s)] ==
                    IF n = 0 THEN 0 ELSE sum[n - 1] + s[n] * Power(BYTE)[n - 1]
              IN  sum[Len(s)]

\* The loop of gve_put_u64: groups from the least, all but the last marked.
gve_put_u64[v \in Nat] ==
    IF v < GROUP THEN <<v>> ELSE <<GROUP + (v % GROUP)>> \o gve_put_u64[v \div GROUP]

\* (v << 1) ^ (v >> 63), and back; v is signed.
Signed(n) == IF 2 * n < WORD THEN n ELSE n - WORD
zigzag_encode(v) == IF v >= 0 THEN 2 * v ELSE -2 * v - 1
zigzag_decode(u) == IF u % 2 = 0 THEN u \div 2 ELSE -((u + 1) \div 2)

\* Mutant: the loop ends a group early.
MaxGroups_short == Rounds - 1

\* The loop of gve_get_u64 runs while shift < 64.
MaxGroups == Rounds

\* gve_get_u64 over the bytes s: it stops at a byte without the mark or after
\* the last round, and what does not fit the word falls off.  used is what it
\* has consumed.
gve_get_u64(s) ==
    LET ends == {i \in 1..Len(s) : s[i] < GROUP \/ i = MaxGroups}
        used == IF ends = {} THEN Len(s) ELSE CHOOSE i \in ends : \A j \in ends : i =< j
        val[n \in 0..used] == IF n = 0 THEN 0
            ELSE (val[n - 1] + (s[n] % GROUP) * Power(GROUP)[n - 1]) % WORD
    IN  [ok |-> ends # {}, used |-> used, val |-> val[used]]

Formats == {<<"be", k>> : k \in Widths} \cup {<<"le", k>> : k \in Widths}
             \cup {<<"gve", NARROW>>, <<"gve", WORD>>, <<"zigzag", WORD>>}

\* The values of a format, taken from Numbers.
Values(f) ==
    CASE f[1] \in {"be", "le"} -> {n \in Numbers : n < Power(BYTE)[f[2]]}
      [] f[1] = "gve"    -> {n \in Numbers : n < f[2]}
      [] f[1] = "zigzag" -> {Signed(n) : n \in Numbers}

Encode(f, v) ==
    CASE f[1] = "be"     -> Reverse(write_le(v, f[2]))
      [] f[1] = "le"     -> write_le(v, f[2])
      [] f[1] = "gve"    -> gve_put_u64[v]
      [] f[1] = "zigzag" -> gve_put_u64[zigzag_encode(v)]

\* What reading a number finds; used of a fixed number that is cut off is 0.
Decode(f) ==
    LET g == gve_get_u64(At(buffer_data_len))
        k == f[2]
    IN  CASE f[1] \in {"be", "le"} ->
               IF buffer_can_read(k)
               THEN [ok |-> TRUE, used |-> k,
                     val |-> read_le(IF f[1] = "be" THEN Reverse(At(k)) ELSE At(k))]
               ELSE [ok |-> FALSE, used |-> 0, val |-> 0]
          [] f[1] = "gve"    -> [g EXCEPT !.ok = @ /\ g.val < f[2]]
          [] f[1] = "zigzag" -> [g EXCEPT !.val = zigzag_decode(@)]

----------------------------------------------------------------------------
(* Writing and reading.  What does not fit is refused.                     *)

\* Mutant: a string that does not fit is cut off.
Write_cut(s, after) ==
    LET n   == rw_buffer_empty_space_len
        cut == IF rw_buffer_can_write(Len(s)) THEN s ELSE SubSeq(s, 1, n)
    IN  /\ mem' = Moved(wpos, cut) /\ wpos' = wpos + Len(cut) /\ UNCHANGED offset
        /\ Reply(cut = s, <<>>) /\ sent' = IF cut = s THEN after ELSE Raw

\* rw_buffer_write_bytes and the fixed-width writers.
Write(s, after) ==
    Or(rw_buffer_can_write(Len(s)),
       /\ mem' = Moved(wpos, s) /\ wpos' = wpos + Len(s) /\ UNCHANGED offset
       /\ Reply(TRUE, <<>>) /\ sent' = after)

put(f, v) == Write(Encode(f, v), IF sent = Raw THEN Raw ELSE Append(sent, <<f, v>>))

rw_buffer_write_bytes(s) == Write(s, IF s = <<>> THEN sent ELSE Raw)

\* Read a number.  Told: it is the one that was written first.
get(f) ==
    LET d    == Decode(f)
        told == sent # Raw /\ sent # <<>> /\ Head(sent)[1] = f
    IN  /\ offset' = offset + d.used /\ UNCHANGED <<mem, wpos>>
        /\ Reply(d.ok, IF d.ok THEN At(d.used) ELSE <<>>)
        /\ sent' = IF told THEN Tail(sent) ELSE IF d.used = 0 THEN sent
                               ELSE AfterRaw(offset + d.used, wpos)

buffer_copy_bytes(n) ==
    Or(buffer_can_read(n), Reply(TRUE, At(n)) /\ UNCHANGED <<mem, offset, wpos, sent>>)

buffer_read_bytes(n) ==
    Or(buffer_can_read(n),
       /\ Reply(TRUE, At(n)) /\ offset' = offset + n /\ UNCHANGED <<mem, wpos>>
       /\ sent' = IF n = 0 THEN sent ELSE AfterRaw(offset + n, wpos))

\* Move the data to the start of the memory.
rw_buffer_shift_data ==
    /\ IF offset = 0 THEN UNCHANGED <<mem, offset, wpos>>
       ELSE /\ mem' = Moved(0, At(buffer_data_len))
            /\ offset' = 0 /\ wpos' = buffer_data_len
    /\ Reply(TRUE, <<>>) /\ UNCHANGED sent

----------------------------------------------------------------------------
\* rw_buffer_init over memory that holds data of n bytes.
rw_buffer_init(n) ==
    /\ \E x \in Fills : mem = [i \in 0..(Size - 1) |-> x]
    /\ offset = 0 /\ wpos = n
    /\ answer = [ok |-> TRUE, data |-> <<>>] /\ sent = AfterRaw(0, n)

Init == \E n \in 0..Size : rw_buffer_init(n)

\* Arguments around the size, and the last of a size_t.
Counts == 0..(Size + 1) \cup {SIZE_T - 1}

Next ==
    \/ \E n \in Counts :
         \/ buffer_seek_set(n) \/ buffer_seek_cur(n) \/ buffer_seek_end(n)
         \/ rw_buffer_seek_write_set(n) \/ rw_buffer_seek_write_cur(n)
         \/ rw_buffer_seek_write_end(n)
         \/ buffer_copy_bytes(n) \/ buffer_read_bytes(n)
    \/ \E f \in Formats : get(f) \/ \E v \in Values(f) : put(f, v)
    \/ \E s \in Chunks : rw_buffer_write_bytes(s)
    \/ rw_buffer_shift_data \/ rw_buffer_empty

Spec == Init /\ [][Next]_vars

----------------------------------------------------------------------------
(* Properties                                                              *)

\* The read position is never after the write position nor that after the end
\* of the memory, whatever is written, read or compacted and wherever is sought,
\* except that no caller seeks to write before the read position (Ordered).
TypeOK ==
    /\ mem \in [0..(Size - 1) -> Byte]
    /\ offset \in 0..wpos /\ wpos \in 0..Size
    /\ answer.ok \in BOOLEAN /\ answer.data \in Seq(Byte)

\* A buffer is a queue: see ByteQueue.
Queue == INSTANCE ByteQueue WITH
    Capacity <- Size, q <- At(wpos - offset), room <- Size - wpos
ActsAsQueue == Queue!Spec

\* While only whole numbers were written and read, the next one comes back as
\* it was written, in every format and whatever is behind it in the buffer;
\* and when all were read the buffer is empty.
NumbersReadBack ==
    sent # Raw =>
        IF sent = <<>> THEN offset = wpos
        ELSE LET d == Decode(Head(sent)[1]) IN d.ok /\ d.val = Head(sent)[2]
============================================================================
