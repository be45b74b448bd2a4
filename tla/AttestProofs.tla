---------------------------- MODULE AttestProofs ----------------------------
(***************************************************************************)
(* Proofs about Attest, for every set of boxes, every size of frames and   *)
(* tables that the 8-bit counters of the code can hold, and any number of  *)
(* inputs and starts.                                                      *)
(***************************************************************************)
EXTENDS Attest, SequenceTheorems, FiniteSetTheorems, TLAPS

F     == FRAME_MAX_TOKENS_COUNT
Token == TokenIds \X Nat

\* Boxes the device accepts.
Held == {b \in Boxes : Len(b.tokens) =< TOKEN_MAX_COUNT}

Frames(b) == get_frames_count(Len(b.tokens))

\* How many tokens the first k frames of a box have.
Upto(b, k) == IF k * F =< Len(b.tokens) THEN k * F ELSE Len(b.tokens)

\* The i-th frame of a box, as it should be.
Frame(b, i) ==
    [box_id |-> BoxId(b), frames_count |-> Frames(b), index |-> i, value |-> b.value,
     tokens |-> SubSeq(b.tokens, i * F + 1, Upto(b, i + 1))]

----------------------------------------------------------------------------
(* Frames                                                                  *)

\* What AttestAssumption says of a box.
LEMMA BoxFacts ==
    ASSUME NEW b \in Boxes
    PROVE  /\ b.tokens \in Seq(Token) /\ Len(b.tokens) \in Nat /\ b.value \in Nat
           /\ F \in Nat \ {0}
           /\ \A i \in 1..Len(b.tokens) : b.tokens[i] \in Token
<1>1. b.tokens \in Seq(Token) /\ b.value \in Nat /\ F \in Nat \ {0}
  BY AttestAssumption DEF Token, F
<1> QED BY <1>1, LenProperties, ElementOfSeq

\* Numbers that fit 8 bits.
LEMMA Fits8 ==
    ASSUME NEW m \in 0..255
    PROVE  /\ \A n \in Nat : n =< m => n \in 0..255
           /\ \A n \in 0..m : m - n \in 0..255
           /\ m % 256 = m
  OBVIOUS

LEMMA Successor ==
    ASSUME NEW m \in 1..255, NEW k \in 0..(m - 1)
    PROVE  k + 1 \in 0..255 /\ (k + 1 # m => k + 1 \in 0..(m - 1))
  OBVIOUS

LEMMA Predecessor ==
    ASSUME NEW m \in 1..255, NEW x \in 1..m
    PROVE  x - 1 \in 0..(m - 1) /\ x - 1 \in Nat /\ (x - 1) + 1 = x
  OBVIOUS

LEMMA HeldFacts ==
    ASSUME NEW b \in Held
    PROVE  b \in Boxes /\ Len(b.tokens) \in 0..255 /\ F \in Nat \ {0}
<1>1. TOKEN_MAX_COUNT \in 0..255
  BY AttestAssumption
<1>2. b \in Boxes /\ Len(b.tokens) =< TOKEN_MAX_COUNT
  BY DEF Held
<1>3. Len(b.tokens) \in Nat /\ F \in Nat \ {0}
  BY <1>2, BoxFacts
<1>4. Len(b.tokens) \in 0..255
  BY <1>1, <1>2, <1>3, Fits8
<1> QED BY <1>2, <1>3, <1>4

\* The cut of n tokens into frames in 8 bits: no frame but the only one is
\* empty, and together they hold n tokens (get_frames_count).
LEMMA FramesFacts ==
    ASSUME NEW b \in Held
    PROVE  /\ Frames(b) \in 1..255
           /\ Len(b.tokens) =< Frames(b) * F
           /\ \A i \in 0..(Frames(b) - 1) :
                 i * F \in 0..Len(b.tokens) /\ (i > 0 => i * F < Len(b.tokens))
<1> DEFINE n == Len(b.tokens)
           c == (n + (F - 1)) \div F
<1>1. n \in 0..255 /\ F \in Nat \ {0}
  BY HeldFacts
<1> HIDE DEF n
<1>2. c \in Nat /\ c * F =< n + (F - 1) /\ n + (F - 1) < (c + 1) * F
  BY <1>1
<1>3. c \in 0..255 /\ n =< c * F
  BY <1>1, <1>2
<1>4. \A i \in Nat : i < c => i * F < n
  BY <1>1, <1>2
<1>5. Frames(b) = IF c = 0 THEN 1 ELSE c
  <2>1. uint8(c) = c
    BY <1>3 DEF uint8
  <2> QED BY <2>1 DEF Frames, get_frames_count, F, n
<1> HIDE DEF c
<1>6. Frames(b) \in 1..255 /\ n =< Frames(b) * F
  BY <1>1, <1>3, <1>5
<1>7. ASSUME NEW i \in 0..(Frames(b) - 1)
      PROVE  i * F \in 0..n /\ (i > 0 => i * F < n)
  <2>1. CASE i = 0
    BY <2>1, <1>1
  <2>2. CASE i > 0
    BY <2>2, <1>1, <1>3, <1>4, <1>5
  <2> QED BY <2>1, <2>2
<1> QED BY <1>6, <1>7 DEF n

\* The tokens of a frame: at most F of them, the ones after those of the
\* frames before.
LEMMA FrameFacts ==
    ASSUME NEW b \in Held, NEW i \in 0..(Frames(b) - 1)
    PROVE  /\ i * F \in 0..Len(b.tokens) /\ Upto(b, i + 1) \in i * F..Len(b.tokens)
           /\ Frame(b, i).tokens \in Seq(Token)
           /\ Len(Frame(b, i).tokens) = Upto(b, i + 1) - i * F
           /\ Len(Frame(b, i).tokens) \in 0..F
           /\ \A j \in 1..Len(Frame(b, i).tokens) :
                 Frame(b, i).tokens[j] = b.tokens[i * F + j]
<1>1. b \in Boxes /\ F \in Nat \ {0} /\ Len(b.tokens) \in Nat
  BY HeldFacts
<1>2. i * F \in 0..Len(b.tokens)
  BY FramesFacts
<1>3. (i + 1) * F = i * F + F
  BY <1>1
<1>4. Upto(b, i + 1) \in i * F..Len(b.tokens) /\ Upto(b, i + 1) - i * F \in 0..F
  BY <1>1, <1>2, <1>3 DEF Upto
<1>5. \A j \in i * F + 1..Upto(b, i + 1) : b.tokens[j] \in Token
  BY <1>1, <1>2, <1>4, BoxFacts
<1>6. Frame(b, i).tokens = SubSeq(b.tokens, i * F + 1, Upto(b, i + 1))
  BY DEF Frame
<1> DEFINE m == i * F + 1
           u == Upto(b, i + 1)
<1>7. m \in Int /\ u \in Int
  BY <1>2, <1>4
<1>8. /\ SubSeq(b.tokens, m, u) \in Seq(Token)
      /\ Len(SubSeq(b.tokens, m, u)) = IF m =< u THEN u - m + 1 ELSE 0
      /\ \A j \in 1..(u - m + 1) : SubSeq(b.tokens, m, u)[j] = b.tokens[m + j - 1]
  BY <1>5, <1>7, SubSeqProperties
<1>9. Len(SubSeq(b.tokens, m, u)) = u - i * F
  BY <1>8, <1>4, <1>2
<1>10. \A j \in 1..(u - i * F) : SubSeq(b.tokens, m, u)[j] = b.tokens[i * F + j]
  <2> DEFINE k == i * F
  <2>1. k \in Nat /\ m = k + 1
    BY <1>2
  <2>2. \A j \in 1..(u - k) : m + j - 1 = k + j /\ j \in 1..(u - m + 1)
    <3> HIDE DEF k, u, m
    <3> QED BY <2>1, <1>7
  <2> HIDE DEF k, m, u
  <2>3. \A j \in 1..(u - k) : SubSeq(b.tokens, m, u)[j] = b.tokens[k + j]
    BY <2>2, <1>8
  <2> QED BY <2>3 DEF k
<1> QED BY <1>2, <1>4, <1>6, <1>8, <1>9, <1>10

\* send_response_attested_input_frame builds that frame: its 8-bit count and
\* offset do not wrap.
LEMMA FrameOfIs ==
    ASSUME NEW a, a.box \in Held, a.table = a.box.tokens,
           NEW i \in 0..(Frames(a.box) - 1)
    PROVE  FrameOf(a, i) = Frame(a.box, i)
<1> DEFINE b == a.box
           n == Len(b.tokens)
           k == i * F
<1>1. b \in Held /\ n \in 0..255 /\ F \in Nat \ {0}
  BY HeldFacts
<1>2. k \in 0..n
  BY FramesFacts
<1>3. (i + 1) * F = k + F
  BY <1>1
<1> HIDE DEF k, n
<1>4. frame_offset(i) = k
  <2>1. k % 256 = k
    BY <1>1, <1>2
  <2> QED BY <2>1 DEF frame_offset, uint8, F, k
<1>5. frame_tokens_count(n, i) = IF n - k < F THEN n - k ELSE F
  <2>1. (n - k) % 256 = n - k
    BY <1>1, <1>2, Fits8
  <2> QED BY <2>1 DEF frame_tokens_count, F, uint8, k
<1>6. k + frame_tokens_count(n, i) = Upto(b, i + 1)
  <2>1. Upto(b, i + 1) = IF k + F =< n THEN k + F ELSE n
    BY <1>3 DEF Upto, n
  <2> QED BY <1>1, <1>2, <1>5, <2>1
<1>7. FrameOf(a, i).tokens = SubSeq(b.tokens, k + 1, Upto(b, i + 1))
  BY <1>4, <1>6 DEF FrameOf, n
<1> QED BY <1>4, <1>6 DEF FrameOf, Frame, Frames, n, k

\* All tokens of a frame are handed on: their length fits 8 bits.
LEMMA FrameTokensIs ==
    ASSUME NEW b \in Held, NEW i \in 0..(Frames(b) - 1)
    PROVE  FrameTokens(Frame(b, i)) = Frame(b, i).tokens
<1> DEFINE t == Frame(b, i).tokens
           p == FRAME_TOKEN_VALUE_PAIR_SIZE
<1>1. t \in Seq(Token) /\ Len(t) \in 0..F
  BY FrameFacts
<1>2. p \in Nat \ {0} /\ F \in Nat \ {0} /\ F * p =< 255
  BY AttestAssumption DEF F
<1> HIDE DEF t, p
<1>3. uint8(Len(t) * p) = Len(t) * p
  <2>1. Len(t) * p =< F * p /\ Len(t) * p \in Nat
    BY <1>1, <1>2
  <2> DEFINE x == Len(t) * p
  <2> HIDE DEF x
  <2>2. x \in 0..255
    <3>1. F * p \in 0..255
      BY <1>2
    <3> QED BY <2>1, <3>1, Fits8 DEF x
  <2>3. x % 256 = x
    BY <2>2
  <2> QED BY <2>3 DEF uint8, x
<1>4. (Len(t) * p) \div p = Len(t)
  BY <1>1, <1>2
<1>5. FrameTokens(Frame(b, i)) = SubSeq(t, 1, Len(t))
  BY <1>3, <1>4 DEF FrameTokens, t, p
<1> QED BY <1>1, <1>5, SubSeqFull DEF t

----------------------------------------------------------------------------
(* The inductive invariant                                                 *)

\* The context of a box and of an input, and what is counted.
Ids     == {BoxId(b) : b \in Boxes} \cup {<<>>}
Attests == [state : {"INITIALIZED", "APPROVED", "FINISHED"}, box : Boxes \cup {<<>>},
            sent : Nat, tree : BOOLEAN, registers : BOOLEAN, table : Seq(Token)]
Inputs  == [state : {"FRAMES_STARTED", "FINISHED"}, box_id : Ids, frames_count : Nat,
            frames_processed : 0..255, value : Nat, pieces : Seq(Seq(Token))]
Counts  == [id : Ids, value : Nat, pieces : Seq(Seq(Token))]

Types ==
    /\ key \in 1..MaxStarts /\ cmd \in {"NONE", "ATTEST", "SIGN"}
    /\ attest \in Attests
    /\ sign \in Inputs
    /\ seen \subseteq Held
    /\ inputs \in Seq(Counts) /\ Len(inputs) =< MaxInputs

\* The table has the tokens uploaded so far, no id twice; a finished box has
\* them all and was seen.  Another command has none.
UploadedSoFar ==
    IF cmd # "ATTEST" THEN attest.table = <<>> ELSE
        /\ attest.box \in Held /\ attest.sent \in 0..Len(attest.box.tokens)
        /\ attest.table = SubSeq(attest.box.tokens, 1, attest.sent)
        /\ \A i, j \in 1..attest.sent :
              attest.box.tokens[i][1] = attest.box.tokens[j][1] => i = j
        /\ attest.state = "FINISHED" =>
              attest.sent = Len(attest.box.tokens) /\ attest.box \in seen

\* The host holds frames of whole boxes, those under the present key of boxes
\* seen since the app was started.
Genuine(f) ==
    /\ f.key \in 1..key
    /\ \E b \in Held : \E i \in 0..(Frames(b) - 1) :
          f.frame = Frame(b, i) /\ (f.key = key => b \in seen)
HostHoldsFrames == \A f \in host : Genuine(f)

\* A piece is the j-th of a box that was seen and has the id.
PieceOf(id, j, piece) ==
    \E a \in seen : BoxId(a) = id /\ j \in 1..Frames(a) /\ piece = Frame(a, j - 1).tokens

\* k pieces for a box: the first is the box's, the others of boxes with its id.
Joined(b, pieces, k) ==
    /\ Len(pieces) = k /\ (k > 0 => pieces[1] = Frame(b, 0).tokens)
    /\ \A j \in 1..k : PieceOf(BoxId(b), j, pieces[j])

\* An input after its first k frames, and there is room for it.
Partial(i, b, k) ==
    /\ i.box_id = BoxId(b) /\ i.frames_count = Frames(b) /\ i.frames_processed = k
    /\ i.value = b.value /\ Joined(b, i.pieces, k)
CountedSoFar ==
    cmd = "SIGN" /\ sign.state = "FRAMES_STARTED" =>
        /\ Len(inputs) < MaxInputs
        /\ \E b \in seen : \E k \in 0..(Frames(b) - 1) : Partial(sign, b, k)

\* A finished input.
Counted(c) ==
    \E b \in seen : c.id = BoxId(b) /\ c.value = b.value /\ Joined(b, c.pieces, Frames(b))
InputsCounted == \A n \in 1..Len(inputs) : Counted(inputs[n])

IInv == Types /\ UploadedSoFar /\ HostHoldsFrames /\ CountedSoFar /\ InputsCounted

\* An input stays in order as boxes are seen.
LEMMA PartialKept ==
    ASSUME seen \subseteq seen'
    PROVE  /\ \A b, p, k : Joined(b, p, k) => Joined(b, p, k)'
           /\ \A i, b, k : Partial(i, b, k) => Partial(i, b, k)'
  BY DEF Partial, Joined, PieceOf

LEMMA Zeros ==
    /\ ZeroAttest \in Attests
    /\ ZeroSign \in Inputs
    /\ <<>> \in Seq(Counts) /\ Len(<<>>) = 0 /\ MaxInputs \in Nat
<1>1. <<>> \in Seq(Counts) /\ <<>> \in Seq(Seq(Token)) /\ <<>> \in Seq(Token) /\ Len(<<>>) = 0
  BY EmptySeq
<1>2. <<>> \in Ids /\ MaxInputs \in Nat
  BY AttestAssumption DEF Ids
<1> QED BY <1>1, <1>2 DEF ZeroAttest, ZeroSign, Attests, Inputs

\* Without inputs nothing is counted.
LEMMA NothingCounted ==
    ASSUME inputs' = <<>>
    PROVE  InputsCounted'
  BY Zeros DEF InputsCounted

\* What was counted stays so as boxes are seen.
LEMMA StillCounted ==
    ASSUME InputsCounted, inputs' = inputs, seen \subseteq seen'
    PROVE  InputsCounted'
  BY DEF InputsCounted, Counted, Joined, PieceOf

\* app_set_current_command to no command, with the key and the host as they were.
LEMMA ErrInv ==
    ASSUME IInv, handler_err
    PROVE  IInv'
<1> USE DEF handler_err, app_set_current_command
<1>1. Types'
  BY Zeros DEF IInv, Types
<1>2. UploadedSoFar' /\ CountedSoFar'
  BY DEF UploadedSoFar, CountedSoFar, ZeroAttest
<1>3. HostHoldsFrames'
  BY DEF IInv, HostHoldsFrames, Genuine
<1> QED BY <1>1, <1>2, <1>3, NothingCounted DEF IInv

\* Frames stay genuine as boxes are seen or frames lost.
LEMMA HostKept ==
    ASSUME HostHoldsFrames, host' \subseteq host, key' = key, seen \subseteq seen'
    PROVE  HostHoldsFrames'
  BY DEF HostHoldsFrames, Genuine

----------------------------------------------------------------------------
(* AttestInputBox                                                          *)

LEMMA AttestInitInv ==
    ASSUME IInv, NEW b \in Boxes, NEW known \in BOOLEAN, attest_init(b, known)
    PROVE  IInv'
<1>1. CASE handler_err
  BY <1>1, ErrInv
<1>2. CASE ~handler_err
  <2>1. /\ b \in Held /\ cmd' = "ATTEST" /\ sign' = ZeroSign /\ inputs' = <<>>
        /\ attest' = [ZeroAttest EXCEPT !.box = b,
                         !.state = IF known THEN "APPROVED" ELSE "INITIALIZED"]
        /\ UNCHANGED <<key, host, seen>>
    BY <1>2 DEF attest_init, Held
  <2>2. Types'
    <3>1. attest' \in Attests
      BY <2>1, Zeros DEF Attests, ZeroAttest, Held
    <3> QED BY <2>1, <3>1, Zeros DEF IInv, Types
  <2>3. /\ attest'.box = b /\ attest'.sent = 0 /\ attest'.table = <<>>
        /\ attest'.state # "FINISHED"
    BY <2>1 DEF ZeroAttest
  <2>4. SubSeq(b.tokens, 1, 0) = <<>> /\ 0 \in 0..Len(b.tokens)
    BY <2>1, HeldFacts, SubSeqEmpty
  <2>5. UploadedSoFar' /\ CountedSoFar'
    <3>1. \A i, j \in 1..0 : b.tokens[i][1] = b.tokens[j][1] => i = j
      OBVIOUS
    <3>2. UploadedSoFar'
      <4> DEFINE a == attest'
      <4>1. a.box \in Held /\ a.sent \in 0..Len(a.box.tokens)
        BY <2>1, <2>3, <2>4
      <4>2. a.table = SubSeq(a.box.tokens, 1, a.sent)
        BY <2>3, <2>4
      <4>3. \A i, j \in 1..a.sent : a.box.tokens[i][1] = a.box.tokens[j][1] => i = j
        BY <2>3, <3>1
      <4> QED BY <2>3, <4>1, <4>2, <4>3 DEF UploadedSoFar
    <3> QED BY <2>1, <3>2 DEF CountedSoFar
  <2>6. HostHoldsFrames'
    BY <2>1, HostKept DEF IInv
  <2> QED BY <2>1, <2>2, <2>5, <2>6, NothingCounted DEF IInv
<1> QED BY <1>1, <1>2

\* A part of the box that leaves the uploaded tokens in order.
LEMMA BoxPartInv ==
    ASSUME IInv, cmd = "ATTEST", NEW a, BoxPart(a),
           UNCHANGED <<key, cmd, sign, host, inputs>>,
           a \in Attests,
           a.state # "FINISHED", a.box \in Held, a.sent \in 0..Len(a.box.tokens),
           a.table = SubSeq(a.box.tokens, 1, a.sent),
           \A i, j \in 1..a.sent : a.box.tokens[i][1] = a.box.tokens[j][1] => i = j
    PROVE  IInv'
<1> DEFINE done == /\ a.tree /\ a.sent = Len(a.box.tokens)
                   /\ a.registers \/ a.box.registers = <<>>
<1>1. CASE done
  <2>1. attest' = [a EXCEPT !.state = "FINISHED"] /\ seen' = seen \cup {a.box}
    BY <1>1 DEF BoxPart
  <2>2. Types'
    BY <2>1 DEF IInv, Types, Attests
  <2>3. UploadedSoFar'
    BY <1>1, <2>1 DEF UploadedSoFar
  <2>4. HostHoldsFrames' /\ CountedSoFar' /\ InputsCounted'
    BY <2>1, HostKept, StillCounted DEF IInv, CountedSoFar
  <2> QED BY <2>2, <2>3, <2>4 DEF IInv
<1>2. CASE ~done
  <2>1. attest' = a /\ seen' = seen
    BY <1>2 DEF BoxPart
  <2>2. Types' /\ UploadedSoFar' /\ HostHoldsFrames' /\ CountedSoFar' /\ InputsCounted'
    BY <2>1, HostKept, StillCounted DEF IInv, Types, UploadedSoFar, CountedSoFar
  <2> QED BY <2>2 DEF IInv
<1> QED BY <1>1, <1>2

LEMMA AttestTreeInv ==
    ASSUME IInv, attest_tree
    PROVE  IInv'
<1>1. CASE handler_err
  BY <1>1, ErrInv
<1>2. CASE ~handler_err
  <2> DEFINE a == [attest EXCEPT !.tree = TRUE]
  <2>1. /\ cmd = "ATTEST" /\ attest.state = "APPROVED" /\ BoxPart(a)
        /\ UNCHANGED <<key, cmd, sign, host, inputs>>
    BY <1>2 DEF attest_tree, Handled
  <2>2. /\ a \in Attests
        /\ a.box = attest.box /\ a.sent = attest.sent /\ a.table = attest.table
        /\ a.state = attest.state
    BY DEF IInv, Types, Attests
  <2> HIDE DEF a
  <2> QED BY <2>1, <2>2, BoxPartInv DEF IInv, UploadedSoFar
<1> QED BY <1>1, <1>2

LEMMA AttestRegistersInv ==
    ASSUME IInv, attest_registers
    PROVE  IInv'
<1>1. CASE handler_err
  BY <1>1, ErrInv
<1>2. CASE ~handler_err
  <2> DEFINE a == [attest EXCEPT !.registers = TRUE]
  <2>1. /\ cmd = "ATTEST" /\ attest.state = "APPROVED" /\ BoxPart(a)
        /\ UNCHANGED <<key, cmd, sign, host, inputs>>
    BY <1>2 DEF attest_registers, Handled
  <2>2. /\ a \in Attests
        /\ a.box = attest.box /\ a.sent = attest.sent /\ a.table = attest.table
        /\ a.state = attest.state
    BY DEF IInv, Types, Attests
  <2> HIDE DEF a
  <2> QED BY <2>1, <2>2, BoxPartInv DEF IInv, UploadedSoFar
<1> QED BY <1>1, <1>2

\* box_token_cb adds the next token, if its id is new.
LEMMA AttestTokenInv ==
    ASSUME IInv, attest_token
    PROVE  IInv'
<1>1. CASE handler_err
  BY <1>1, ErrInv
<1>2. CASE ~handler_err
  <2> DEFINE n == attest.sent
             s == attest.box.tokens
             t == s[n + 1]
             a == [attest EXCEPT !.sent = @ + 1, !.table = Append(@, t)]
  <2>1. /\ cmd = "ATTEST" /\ attest.state = "APPROVED" /\ n < Len(s)
        /\ FreshToken(t[1]) /\ BoxPart(a) /\ UNCHANGED <<key, cmd, sign, host, inputs>>
    BY <1>2 DEF attest_token, Handled
  <2>2. attest.box \in Held /\ s \in Seq(Token) /\ Len(s) \in Nat /\ n \in Nat
    <3>1. attest.box \in Held
      BY <2>1 DEF IInv, UploadedSoFar
    <3>2. attest.box \in Boxes
      BY <3>1 DEF Held
    <3>3. attest.sent \in Nat
      BY DEF IInv, Types, Attests
    <3> QED BY <3>1, <3>2, <3>3, BoxFacts
  <2>3. n + 1 \in 1..Len(s) /\ t \in Token
    BY <2>1, <2>2, ElementOfSeq
  <2>4. attest.table = SubSeq(s, 1, n) /\ attest.table \in Seq(Token)
    BY <2>1 DEF IInv, UploadedSoFar, Types, Attests
  <2>5. Append(attest.table, t) = SubSeq(s, 1, n + 1)
    <3>1. SubSeq(s, 1, n + 1) = SubSeq(s, 1, (n + 1) - 1) \o <<s[n + 1]>>
      <4> HIDE DEF s, n
      <4>1. 1 \in 1..Len(s)
        BY <2>2, <2>3
      <4> QED BY <2>2, <2>3, <4>1, SubSeqRecursiveSecond
    <3>2. (n + 1) - 1 = n
      BY <2>2
    <3>3. Append(attest.table, t) = attest.table \o <<t>>
      BY <2>3, <2>4, AppendIsConcat
    <3> QED BY <2>4, <3>1, <3>2, <3>3
  <2>6. \A i \in 1..n : s[i][1] # t[1]
    <3>1. \A i \in 1..n : s[i] \in Token
      BY <2>1, <2>2, ElementOfSeq
    <3>2. Len(attest.table) = n /\ \A i \in 1..n : attest.table[i] = s[i]
      <4>1. /\ Len(SubSeq(s, 1, n)) = IF 1 =< n THEN n - 1 + 1 ELSE 0
            /\ \A i \in 1..(n - 1 + 1) : SubSeq(s, 1, n)[i] = s[1 + i - 1]
        BY <2>2, <3>1, SubSeqProperties
      <4> QED BY <4>1, <2>2, <2>4
    <3> QED BY <2>1, <3>2 DEF FreshToken
  <2>7. \A i, j \in 1..(n + 1) : s[i][1] = s[j][1] => i = j
    <3>1. \A i, j \in 1..n : s[i][1] = s[j][1] => i = j
      BY <2>1 DEF IInv, UploadedSoFar
    <3>2. \A i \in 1..(n + 1) : i \in 1..n \/ i = n + 1
      BY <2>2
    <3> QED BY <2>6, <3>1, <3>2
  <2>8. /\ a \in Attests
        /\ a.box = attest.box /\ a.sent = n + 1 /\ a.table = SubSeq(s, 1, n + 1)
        /\ a.state = "APPROVED" /\ a.sent \in 0..Len(s)
    <3>1. Append(attest.table, t) \in Seq(Token)
      BY <2>3, <2>4, AppendProperties
    <3>2. attest \in Attests
      BY DEF IInv, Types
    <3>3. n + 1 \in Nat /\ n + 1 \in 0..Len(s)
      BY <2>2, <2>3
    <3> DEFINE u == Append(attest.table, t)
    <3>4. a = [attest EXCEPT !.sent = n + 1, !.table = u]
      OBVIOUS
    <3> HIDE DEF u, t
    <3>5. /\ a \in Attests /\ a.box = attest.box /\ a.sent = n + 1 /\ a.table = u
          /\ a.state = attest.state
      BY <3>1, <3>2, <3>3, <3>4 DEF Attests, u
    <3> QED BY <2>1, <2>5, <3>3, <3>5 DEF u
  <2> HIDE DEF a
  <2> QED BY <2>1, <2>2, <2>7, <2>8, BoxPartInv
<1> QED BY <1>1, <1>2

\* A finished box has all its tokens in the table.
LEMMA FinishedFacts ==
    ASSUME IInv, cmd = "ATTEST", attest.state = "FINISHED"
    PROVE  attest.box \in Held /\ attest.box \in seen /\ attest.table = attest.box.tokens
<1>1. /\ attest.box \in Held /\ attest.box \in seen
      /\ attest.table = SubSeq(attest.box.tokens, 1, Len(attest.box.tokens))
  BY DEF IInv, UploadedSoFar
<1>2. attest.box.tokens \in Seq(Token)
  BY <1>1, HeldFacts, BoxFacts
<1> QED BY <1>1, <1>2, SubSeqFull

LEMMA GetFrameInv ==
    ASSUME IInv, NEW index \in Nat, get_frame(index)
    PROVE  IInv'
<1>1. CASE handler_err
  BY <1>1, ErrInv
<1>2. CASE ~handler_err
  <2> DEFINE new == [key |-> key, frame |-> FrameOf(attest, index)]
             b   == attest.box
  <2>1. /\ cmd = "ATTEST" /\ attest.state = "FINISHED"
        /\ index < get_frames_count(Len(attest.table))
        /\ host' = host \cup {new} /\ UNCHANGED <<key, cmd, attest, sign, seen, inputs>>
    BY <1>2 DEF get_frame, Handled
  <2>2. b \in Held /\ b \in seen /\ attest.table = b.tokens
    BY <2>1, FinishedFacts
  <2>3. index \in 0..(Frames(b) - 1)
    <3>1. Frames(b) \in 1..255 /\ index < Frames(b)
      BY <2>1, <2>2, FramesFacts DEF Frames
    <3> QED BY <3>1
  <2>4. new.frame = Frame(b, index) /\ new.key = key
    BY <2>2, <2>3, FrameOfIs
  <2>5. key \in 1..key
    BY DEF IInv, Types
  <2> HIDE DEF new, b
  <2>6. HostHoldsFrames'
    <3>1. ASSUME NEW f \in host' PROVE Genuine(f)'
      <4>1. CASE f \in host
        BY <2>1, <4>1 DEF IInv, HostHoldsFrames, Genuine
      <4>2. CASE f = new
        <5>1. f.key \in 1..key' /\ f.frame = Frame(b, index) /\ b \in seen'
          BY <2>1, <2>2, <2>4, <2>5, <4>2
        <5> QED BY <2>2, <2>3, <5>1 DEF Genuine
      <4> QED BY <2>1, <4>1, <4>2
    <3> QED BY <3>1 DEF HostHoldsFrames
  <2>7. Types' /\ UploadedSoFar' /\ CountedSoFar' /\ InputsCounted'
    BY <2>1, PartialKept, StillCounted DEF IInv, Types, UploadedSoFar, CountedSoFar
  <2> QED BY <2>6, <2>7 DEF IInv
<1> QED BY <1>1, <1>2

----------------------------------------------------------------------------
(* The inputs of SignTransaction                                           *)

\* The input a frame belongs to, and with the frame added.
Current(frame) == IF frame.index = 0 THEN NewInput(frame) ELSE sign
Added(frame)   == [Current(frame) EXCEPT !.frames_processed = uint8(@ + 1),
                                         !.pieces = Append(@, FrameTokens(frame))]

\* A frame that verifies and is the next one is the k-th of a box a seen since
\* the app was started, and the input has k pieces for a box b with its id; the
\* first frame is of b itself.
Continues(frame, a, b, k) ==
    /\ a \in Held /\ b \in Held /\ BoxId(a) = BoxId(b) /\ k \in 0..(Frames(a) - 1)
    /\ frame = Frame(a, k) /\ (k = 0 => a = b)
    /\ Partial(Current(frame), b, k) /\ Current(frame) \in Inputs

LEMMA NextFrameIs ==
    ASSUME IInv, cmd = "SIGN", NEW f \in host, NEW frame, Verifies(f, frame),
           NextFrame(Current(frame), frame)
    PROVE  \E a, b \in seen : \E k \in 0..(Frames(b) - 1) : Continues(frame, a, b, k)
<1>1. PICK a \in Held : \E k \in 0..(Frames(a) - 1) : frame = Frame(a, k) /\ a \in seen
  BY DEF IInv, HostHoldsFrames, Genuine, Verifies
<1>2. PICK k \in 0..(Frames(a) - 1) : frame = Frame(a, k) /\ a \in seen
  BY <1>1
<1>3. /\ frame.box_id = BoxId(a) /\ frame.frames_count = Frames(a) /\ frame.index = k
      /\ frame.value = a.value
  BY <1>2 DEF Frame
<1>4. /\ Current(frame).state = "FRAMES_STARTED"
      /\ Current(frame).box_id = BoxId(a) /\ Current(frame).frames_processed = k
  BY <1>3 DEF NextFrame
<1>5. a \in Boxes /\ F \in Nat \ {0} /\ a.value \in Nat /\ Frames(a) \in Nat
  <2>1. a \in Boxes
    BY HeldFacts
  <2>2. Frames(a) \in 1..255
    BY FramesFacts
  <2>3. Frames(a) \in Nat
    BY <2>2
  <2> QED BY <2>1, <2>3, BoxFacts
<1>6. CASE k = 0
  <2>1. Current(frame) = [ZeroSign EXCEPT !.box_id = BoxId(a), !.frames_count = Frames(a),
                                          !.value = a.value]
    BY <1>3, <1>6 DEF Current, NewInput
  <2>2. BoxId(a) \in Ids
    BY <1>5 DEF Ids
  <2>3. Current(frame) \in Inputs
    BY <2>1, <2>2, <1>5, Zeros DEF Inputs
  <2>4. Joined(a, <<>>, 0)
    BY Zeros DEF Joined
  <2>5. Partial(Current(frame), a, 0)
    BY <2>1, <2>4 DEF Partial, ZeroSign
  <2> QED BY <1>2, <1>6, <2>3, <2>5 DEF Continues
<1>7. CASE k # 0
  <2>1. Current(frame) = sign
    BY <1>3, <1>7 DEF Current
  <2>2. PICK b \in seen : \E j \in 0..(Frames(b) - 1) : Partial(sign, b, j)
    BY <1>4, <2>1 DEF IInv, CountedSoFar
  <2>3. BoxId(b) = BoxId(a) /\ Partial(sign, b, k) /\ k \in 0..(Frames(b) - 1)
    BY <1>4, <2>1, <2>2 DEF Partial
  <2>4. b \in Held /\ sign \in Inputs
    BY DEF IInv, Types
  <2> QED BY <1>2, <1>7, <2>1, <2>3, <2>4 DEF Continues
<1> QED BY <1>6, <1>7

\* With it, the input has k + 1 pieces.
LEMMA AddedIs ==
    ASSUME NEW a \in seen, NEW b \in seen, NEW k \in 0..(Frames(b) - 1), NEW frame,
           Continues(frame, a, b, k)
    PROVE  Added(frame) \in Inputs /\ Partial(Added(frame), b, k + 1)
<1> DEFINE i == Current(frame)
           t == Frame(a, k).tokens
           p == Append(i.pieces, t)
<1>1. /\ a \in Held /\ b \in Held /\ BoxId(a) = BoxId(b) /\ k \in 0..(Frames(a) - 1)
      /\ frame = Frame(a, k) /\ (k = 0 => a = b) /\ Partial(i, b, k) /\ i \in Inputs
  BY DEF Continues
<1>2. Frames(a) \in 1..255 /\ Frames(b) \in 1..255
  BY <1>1, FramesFacts
<1>3. uint8(k + 1) = k + 1 /\ k + 1 \in 0..255
  <2>1. k + 1 \in 0..255
    BY <1>2, Successor
  <2> QED BY <2>1, Fits8 DEF uint8
<1>4. t \in Seq(Token) /\ FrameTokens(frame) = t
  BY <1>1, FrameFacts, FrameTokensIs
<1> HIDE DEF i, t
<1>5. i.pieces \in Seq(Seq(Token)) /\ i.frames_processed = k /\ Joined(b, i.pieces, k)
  BY <1>1 DEF Inputs, Partial
<1>6. Len(i.pieces) = k /\ k \in Nat
  BY <1>2, <1>5 DEF Joined
<1>7. /\ p \in Seq(Seq(Token)) /\ Len(p) = k + 1 /\ p[k + 1] = t
      /\ \A j \in 1..k : p[j] = i.pieces[j]
  BY <1>4, <1>5, <1>6, AppendProperties
<1> HIDE DEF p
<1>8. Added(frame) = [i EXCEPT !.frames_processed = k + 1, !.pieces = p]
  BY <1>3, <1>4, <1>5 DEF Added, i, p
<1>9. /\ Added(frame) \in Inputs /\ Added(frame).frames_processed = k + 1
      /\ Added(frame).pieces = p /\ Added(frame).box_id = i.box_id
      /\ Added(frame).frames_count = i.frames_count /\ Added(frame).value = i.value
  BY <1>1, <1>3, <1>7, <1>8 DEF Inputs
<1>10. PieceOf(BoxId(b), k + 1, t)
  <2>1. k + 1 \in 1..Frames(a) /\ (k + 1) - 1 = k
    BY <1>1, <1>2
  <2> QED BY <1>1, <2>1 DEF PieceOf, t
<1>11. Joined(b, p, k + 1)
  <2>1. \A j \in 1..(k + 1) : PieceOf(BoxId(b), j, p[j])
    <3>1. \A j \in 1..(k + 1) : j \in 1..k \/ j = k + 1
      BY <1>6
    <3> QED BY <1>5, <1>7, <1>10, <3>1 DEF Joined
  <2>2. p[1] = Frame(b, 0).tokens
    <3>1. CASE k = 0
      BY <1>1, <1>7, <3>1 DEF t
    <3>2. CASE k # 0
      <4>1. 1 \in 1..k
        BY <1>6, <3>2
      <4> QED BY <1>5, <1>7, <4>1 DEF Joined
    <3> QED BY <3>1, <3>2
  <2> QED BY <1>7, <2>1, <2>2 DEF Joined
<1> QED BY <1>1, <1>9, <1>11 DEF Partial

\* handle_input_frame, when it succeeds: a piece is added to the input, and an
\* input that is complete is counted.
LEMMA InputFrameIs ==
    ASSUME IInv, NEW f \in host, NEW frame, input_frame(f, frame), ~handler_err
    PROVE  /\ cmd = "SIGN" /\ UNCHANGED <<key, cmd, attest, host, seen>>
           /\ sign' \in Inputs /\ Len(inputs) < MaxInputs
           /\ \/ /\ sign'.state = "FRAMES_STARTED" /\ inputs' = inputs
                 /\ \E b \in seen : \E k \in 0..(Frames(b) - 1) : Partial(sign', b, k)
              \/ /\ sign'.state = "FINISHED"
                 /\ \E c \in Counts : Counted(c) /\ inputs' = Append(inputs, c)
<1> DEFINE next == Added(frame)
           done == next.frames_processed = next.frames_count
           c    == [id |-> next.box_id, value |-> next.value, pieces |-> next.pieces]
<1>1. /\ cmd = "SIGN" /\ Verifies(f, frame) /\ NextFrame(Current(frame), frame)
      /\ frame.index = 0 => Len(inputs) < MaxInputs
      /\ sign' = IF done THEN [next EXCEPT !.state = "FINISHED"] ELSE next
      /\ inputs' = IF done THEN Append(inputs, c) ELSE inputs
      /\ UNCHANGED <<key, cmd, attest, host, seen>>
  BY DEF input_frame, Handled, Current, Added
<1>2. PICK a \in seen, b \in seen : \E k \in 0..(Frames(b) - 1) : Continues(frame, a, b, k)
  BY <1>1, NextFrameIs
<1>3. PICK k \in 0..(Frames(b) - 1) : Continues(frame, a, b, k)
  BY <1>2
<1>4. next \in Inputs /\ Partial(next, b, k + 1)
  BY <1>3, AddedIs
<1>5. next.state = "FRAMES_STARTED"
  BY <1>1, <1>3 DEF NextFrame, Added, Inputs, Continues
<1>6. Len(inputs) < MaxInputs
  BY <1>1 DEF IInv, CountedSoFar, NextFrame, Current
<1>7. Frames(b) \in 1..255
  BY <1>3, FramesFacts DEF Continues
<1> HIDE DEF next
<1>8. CASE done
  <2>1. sign' \in Inputs /\ sign'.state = "FINISHED"
    BY <1>1, <1>4, <1>8 DEF Inputs
  <2>2. c \in Counts /\ inputs' = Append(inputs, c)
    BY <1>1, <1>4, <1>8 DEF Inputs, Counts
  <2>3. c.id = BoxId(b) /\ c.value = b.value /\ Joined(b, c.pieces, Frames(b))
    BY <1>4, <1>8 DEF Partial
  <2>4. Counted(c)
    BY <2>3 DEF Counted
  <2> HIDE DEF c
  <2> QED BY <1>1, <1>6, <2>1, <2>2, <2>4
<1>9. CASE ~done
  <2>1. k + 1 \in 0..(Frames(b) - 1)
    <3>1. k + 1 # Frames(b)
      BY <1>4, <1>9 DEF Partial
    <3> QED BY <1>7, <3>1, Successor
  <2> QED BY <1>1, <1>4, <1>5, <1>6, <1>9, <2>1
<1> QED BY <1>8, <1>9

LEMMA InputFrameInv ==
    ASSUME IInv, NEW f \in host, NEW frame, input_frame(f, frame)
    PROVE  IInv'
<1>1. CASE handler_err
  BY <1>1, ErrInv
<1>2. CASE ~handler_err
  <2>1. /\ cmd = "SIGN" /\ UNCHANGED <<key, cmd, attest, host, seen>> /\ sign' \in Inputs
        /\ Len(inputs) < MaxInputs
        /\ \/ /\ sign'.state = "FRAMES_STARTED" /\ inputs' = inputs
              /\ \E b \in seen : \E k \in 0..(Frames(b) - 1) : Partial(sign', b, k)
           \/ /\ sign'.state = "FINISHED"
              /\ \E c \in Counts : Counted(c) /\ inputs' = Append(inputs, c)
    BY <1>2, InputFrameIs
  <2>2. inputs' \in Seq(Counts) /\ Len(inputs') =< MaxInputs /\ InputsCounted'
    <3>1. CASE inputs' = inputs
      BY <2>1, <3>1, StillCounted DEF IInv, Types
    <3>2. CASE inputs' # inputs
      <4>1. PICK c \in Counts : Counted(c) /\ inputs' = Append(inputs, c)
        BY <2>1, <3>2
      <4>2. /\ inputs' \in Seq(Counts) /\ Len(inputs') = Len(inputs) + 1
            /\ Len(inputs) \in Nat /\ inputs'[Len(inputs) + 1] = c
            /\ \A n \in 1..Len(inputs) : inputs'[n] = inputs[n]
        BY <4>1, AppendProperties, LenProperties DEF IInv, Types
      <4>3. ASSUME NEW n \in 1..Len(inputs') PROVE Counted(inputs'[n])
        <5>1. n \in 1..Len(inputs) \/ n = Len(inputs) + 1
          BY <4>2
        <5> QED BY <4>1, <4>2, <5>1 DEF IInv, InputsCounted
      <4>4. \A x : Counted(x) => Counted(x)'
        BY <2>1 DEF Counted, Joined, PieceOf
      <4> QED BY <2>1, <4>2, <4>3, <4>4, AttestAssumption DEF InputsCounted
    <3> QED BY <3>1, <3>2
  <2>3. Types' /\ UploadedSoFar'
    BY <2>1, <2>2 DEF IInv, Types, UploadedSoFar
  <2>4. HostHoldsFrames'
    BY <2>1, HostKept DEF IInv
  <2>5. CountedSoFar'
    <3> SUFFICES ASSUME sign'.state = "FRAMES_STARTED" PROVE CountedSoFar'
      BY DEF CountedSoFar
    <3>1. PICK b \in seen : \E k \in 0..(Frames(b) - 1) : Partial(sign', b, k)
      BY <2>1
    <3>2. PICK k \in 0..(Frames(b) - 1) : Partial(sign', b, k)
      BY <3>1
    <3>3. Partial(sign, b, k)'
      BY <2>1, <3>2 DEF Partial, Joined, PieceOf
    <3> QED BY <2>1, <3>3 DEF CountedSoFar
  <2> QED BY <2>2, <2>3, <2>4, <2>5 DEF IInv
<1> QED BY <1>1, <1>2

----------------------------------------------------------------------------
(* Around both                                                             *)

LEMMA SignStartInv ==
    ASSUME IInv, sign_start
    PROVE  IInv'
<1>1. [ZeroSign EXCEPT !.state = "FINISHED"] \in Inputs
  BY Zeros DEF Inputs
<1>2. Types'
  BY <1>1, Zeros DEF sign_start, IInv, Types
<1>3. UploadedSoFar' /\ CountedSoFar'
  BY DEF sign_start, UploadedSoFar, CountedSoFar, ZeroSign, ZeroAttest
<1>4. HostHoldsFrames'
  BY HostKept DEF sign_start, IInv
<1>5. InputsCounted'
  BY NothingCounted DEF sign_start
<1> QED BY <1>2, <1>3, <1>4, <1>5 DEF IInv

LEMMA ApproveInv ==
    ASSUME IInv, approve
    PROVE  IInv'
<1>1. /\ attest' \in Attests /\ attest'.box = attest.box /\ attest'.sent = attest.sent
      /\ attest'.table = attest.table /\ attest'.state = "APPROVED"
  BY DEF approve, IInv, Types, Attests
<1>2. Types' /\ UploadedSoFar' /\ CountedSoFar'
  BY <1>1 DEF approve, IInv, Types, UploadedSoFar, CountedSoFar
<1>3. HostHoldsFrames'
  BY HostKept DEF approve, IInv
<1>4. InputsCounted'
  BY StillCounted DEF approve, IInv
<1> QED BY <1>2, <1>3, <1>4 DEF IInv

\* app_init: no frame the host kept is under the new key.
LEMMA AppInitInv ==
    ASSUME IInv, app_init
    PROVE  IInv'
<1>1. /\ key < MaxStarts /\ key' = key + 1 /\ cmd' = "NONE" /\ attest' = ZeroAttest
      /\ sign' = ZeroSign /\ inputs' = <<>> /\ seen' = {} /\ host' = host
  BY DEF app_init, app_set_current_command
<1>2. key' \in 1..MaxStarts /\ \A n \in 1..key : n \in 1..key' /\ n # key'
  BY <1>1, AttestAssumption DEF IInv, Types
<1>3. Types' /\ UploadedSoFar' /\ CountedSoFar'
  BY <1>1, <1>2, Zeros DEF Types, UploadedSoFar, CountedSoFar, ZeroAttest
<1>4. HostHoldsFrames'
  <2>1. ASSUME NEW f \in host' PROVE Genuine(f)'
    <3>1. f.key \in 1..key' /\ f.key # key'
      BY <1>1, <1>2 DEF IInv, HostHoldsFrames, Genuine
    <3> QED BY <1>1, <3>1 DEF IInv, HostHoldsFrames, Genuine
  <2> QED BY <2>1 DEF HostHoldsFrames
<1> QED BY <1>1, <1>3, <1>4, NothingCounted DEF IInv

LEMMA LoseFrameInv ==
    ASSUME IInv, NEW f, lose_frame(f)
    PROVE  IInv'
<1>1. HostHoldsFrames'
  BY HostKept DEF lose_frame, IInv
<1>2. Types' /\ UploadedSoFar' /\ CountedSoFar' /\ InputsCounted'
  BY PartialKept, StillCounted DEF lose_frame, IInv, Types, UploadedSoFar, CountedSoFar
<1> QED BY <1>1, <1>2 DEF IInv

LEMMA InitInv == Init => IInv
<1> SUFFICES ASSUME Init PROVE IInv
  OBVIOUS
<1>1. Types
  BY Zeros, AttestAssumption DEF Init, Types
<1>2. InputsCounted
  BY Zeros DEF Init, InputsCounted
<1> QED BY <1>1, <1>2 DEF Init, IInv, UploadedSoFar, HostHoldsFrames, CountedSoFar, ZeroAttest

LEMMA StepInv == IInv /\ [Next]_vars => IInv'
<1> SUFFICES ASSUME IInv, [Next]_vars PROVE IInv'
  OBVIOUS
<1>1. ASSUME NEW b \in Boxes, NEW known \in BOOLEAN, attest_init(b, known)
      PROVE  IInv'
  BY <1>1, AttestInitInv
<1>2. CASE attest_tree
  BY <1>2, AttestTreeInv
<1>3. CASE attest_token
  BY <1>3, AttestTokenInv
<1>4. ASSUME NEW index \in Indexes, get_frame(index)
      PROVE  IInv'
  <2>1. index \in Nat
    BY DEF Indexes
  <2> QED BY <1>4, <2>1, GetFrameInv
<1>5. CASE sign_start
  BY <1>5, SignStartInv
<1>6. ASSUME NEW f \in host, NEW g \in host, input_frame(f, g.frame)
      PROVE  IInv'
  BY <1>6, InputFrameInv
<1>7. CASE approve
  BY <1>7, ApproveInv
<1>8. CASE session_ends
  BY <1>8, ErrInv DEF session_ends
<1>9. CASE app_init
  BY <1>9, AppInitInv
<1>10. ASSUME NEW f \in host, lose_frame(f)
       PROVE  IInv'
  BY <1>10, LoseFrameInv
<1>11. CASE UNCHANGED vars
  BY <1>11, HostKept, PartialKept, StillCounted
     DEF vars, IInv, Types, UploadedSoFar, CountedSoFar
<1>12. CASE attest_registers
  BY <1>12, AttestRegistersInv
<1> QED BY <1>1, <1>2, <1>3, <1>4, <1>5, <1>6, <1>7, <1>8, <1>9, <1>10, <1>11, <1>12
        DEF Next, Command

\* The host cannot change tables, frames or inputs: what it holds are frames of
\* boxes it has uploaded, and each piece of an input, complete or not, is the one
\* at its place of a box seen since the app started, with the id of the box that
\* the input's value and first piece are from (handle_init to handle_input_frame).
THEOREM AttestInvariance == Spec => []IInv
  BY InitInv, StepInv, PTL DEF Spec

\* The counters of attest_input_ctx_t and of an input stay within their 8 bits,
\* the table within TOKEN_MAX_COUNT and a frame within FRAME_MAX_TOKENS_COUNT.
THEOREM AttestTypes == Spec => []TypeOK
<1>1. IInv => TypeOK
  <2> SUFFICES ASSUME IInv PROVE TypeOK
    OBVIOUS
  <2>1. Len(attest.table) =< TOKEN_MAX_COUNT
    <3>1. TOKEN_MAX_COUNT \in Nat
      BY AttestAssumption
    <3>2. CASE cmd # "ATTEST"
      BY <3>1, <3>2 DEF IInv, UploadedSoFar
    <3>3. CASE cmd = "ATTEST"
      <4> DEFINE s == attest.box.tokens
                 n == attest.sent
      <4>1. attest.box \in Held /\ n \in 0..Len(s) /\ attest.table = SubSeq(s, 1, n)
        BY <3>3 DEF IInv, UploadedSoFar
      <4>2. Len(s) =< TOKEN_MAX_COUNT /\ s \in Seq(Token) /\ Len(s) \in Nat
        BY <4>1, BoxFacts DEF Held
      <4> HIDE DEF s, n
      <4>3. n \in Nat /\ n =< TOKEN_MAX_COUNT /\ \A i \in 1..n : s[i] \in Token
        BY <3>1, <4>1, <4>2, ElementOfSeq
      <4>4. Len(SubSeq(s, 1, n)) = IF 1 =< n THEN n - 1 + 1 ELSE 0
        BY <4>3, SubSeqProperties
      <4> QED BY <3>1, <4>1, <4>3, <4>4
    <3> QED BY <3>2, <3>3
  <2>2. ASSUME NEW f \in host
        PROVE  f.key \in 1..key /\ Len(f.frame.tokens) =< FRAME_MAX_TOKENS_COUNT
    <3>1. PICK b \in Held : \E i \in 0..(Frames(b) - 1) : f.frame = Frame(b, i)
      BY DEF IInv, HostHoldsFrames, Genuine
    <3>2. PICK i \in 0..(Frames(b) - 1) : f.frame = Frame(b, i)
      BY <3>1
    <3>3. Len(f.frame.tokens) \in 0..F /\ F \in Nat
      BY <3>2, FrameFacts, HeldFacts
    <3>4. Len(f.frame.tokens) =< F
      BY <3>3
    <3> QED BY <3>4 DEF IInv, HostHoldsFrames, Genuine, F
  <2> QED BY <2>1, <2>2 DEF IInv, Types, TypeOK, Attests, Inputs, Held
<1> QED BY <1>1, AttestInvariance, PTL

----------------------------------------------------------------------------
(* The frames of a box                                                     *)

\* Where a token is: in one frame, at one place.
LEMMA OnePlace ==
    ASSUME NEW d \in Nat \ {0}, NEW k \in Nat \ {0}
    PROVE  LET i == (k - 1) \div d
               j == ((k - 1) % d) + 1
           IN  /\ i \in Nat /\ j \in 1..d /\ i * d + j = k
               /\ \A x \in Nat, y \in 1..d : x * d + y = k => x = i /\ y = j
<1> DEFINE i == (k - 1) \div d
           j == ((k - 1) % d) + 1
<1>1. i \in Nat /\ j \in 1..d /\ i * d + j = k
  OBVIOUS
<1>2. ASSUME NEW x \in Nat, NEW y \in 1..d, x * d + y = k
      PROVE  x = i /\ y = j
  <2> HIDE DEF i, j
  <2>1. x * d + y = i * d + j
    BY <1>1, <1>2
  <2>2. ~(x < i)
    <3>1. ASSUME x < i PROVE FALSE
      <4>1. (x + 1) * d =< i * d /\ (x + 1) * d = x * d + d
        BY <1>1, <3>1
      <4> QED BY <1>1, <2>1, <4>1
    <3> QED BY <3>1
  <2>3. ~(i < x)
    <3>1. ASSUME i < x PROVE FALSE
      <4>1. (i + 1) * d =< x * d /\ (i + 1) * d = i * d + d
        BY <1>1, <3>1
      <4> QED BY <1>1, <2>1, <4>1
    <3> QED BY <3>1
  <2>4. x = i
    BY <1>1, <2>2, <2>3
  <2> QED BY <1>1, <2>1, <2>4
<1> QED BY <1>1, <1>2

\* However many tokens a box has, and whatever the frame size, the frames
\* of handle_get_frame hold each token of the box once, with its amount and in
\* the order of the box, and nothing else.
THEOREM AttestFrames == Spec => []FramesMakeUpTheBox
<1>1. IInv => FramesMakeUpTheBox
  <2> SUFFICES ASSUME IInv, cmd = "ATTEST", attest.state = "FINISHED"
               PROVE  FramesMakeUpTheBox
    BY DEF FramesMakeUpTheBox
  <2> DEFINE b      == attest.box
             n      == Len(b.tokens)
             Out(x) == FrameOf(attest, x - 1)
             slots  == {s \in (1..get_frames_count(Len(attest.table))) \X
                              (1..FRAME_MAX_TOKENS_COUNT) : s[2] =< Len(Out(s[1]).tokens)}
             Of(k)  == {s \in slots : Out(s[1]).tokens[s[2]][1] = b.tokens[k][1]}
             Place(s) == (s[1] - 1) * F + s[2]
  <2>1. b \in Held /\ attest.table = b.tokens
    BY FinishedFacts
  <2>2. \A k, m \in 1..n : b.tokens[k][1] = b.tokens[m][1] => k = m
    BY DEF IInv, UploadedSoFar
  <2>3. n \in Nat /\ F \in Nat \ {0} /\ Frames(b) \in 1..255 /\ n =< Frames(b) * F
    <3>1. b \in Boxes
      BY <2>1, HeldFacts
    <3> QED BY <2>1, <3>1, BoxFacts, FramesFacts
  <2>4. slots = {s \in (1..Frames(b)) \X (1..F) : s[2] =< Len(Out(s[1]).tokens)}
    BY <2>1 DEF Frames, F
  <2>5. ASSUME NEW x \in 1..Frames(b)
        PROVE  /\ x - 1 \in 0..(Frames(b) - 1)
               /\ Out(x) = Frame(b, x - 1)
    <3>1. x - 1 \in 0..(Frames(b) - 1)
      BY <2>3, Predecessor
    <3> QED BY <2>1, <3>1, FrameOfIs
  <2> HIDE DEF Out, slots, n, b
  <2>6. ASSUME NEW s \in slots
        PROVE  \E x \in 1..Frames(b), y \in 1..F :
                  /\ s = <<x, y>> /\ (x - 1) * F + y \in 1..n
                  /\ Out(x).tokens[y] = b.tokens[(x - 1) * F + y]
    <3>1. s \in (1..Frames(b)) \X (1..F) /\ s[2] =< Len(Out(s[1]).tokens)
      BY <2>4
    <3>2. PICK x \in 1..Frames(b), y \in 1..F : s = <<x, y>>
      BY <3>1
    <3>3. x - 1 \in 0..(Frames(b) - 1) /\ Out(x) = Frame(b, x - 1)
      BY <2>5
    <3>4. y \in 1..Len(Frame(b, x - 1).tokens)
      <4>1. y =< Len(Frame(b, x - 1).tokens) /\ Len(Frame(b, x - 1).tokens) \in 0..F
        BY <2>1, <3>1, <3>2, <3>3, FrameFacts
      <4> QED BY <2>3, <4>1
    <3>5. /\ Frame(b, x - 1).tokens[y] = b.tokens[(x - 1) * F + y]
          /\ Len(Frame(b, x - 1).tokens) = Upto(b, x) - (x - 1) * F
          /\ (x - 1) * F \in 0..n /\ Upto(b, x) \in (x - 1) * F..n
      <4>1. (x - 1) + 1 = x
        BY <2>3
      <4> QED BY <2>1, <3>3, <3>4, <4>1, FrameFacts DEF n
    <3>6. (x - 1) * F + y \in 1..n
      <4> DEFINE o == (x - 1) * F
                 u == Upto(b, x)
                 l == Len(Frame(b, x - 1).tokens)
      <4>1. o \in 0..n /\ u \in o..n /\ y \in 1..l /\ l = u - o
        BY <3>4, <3>5
      <4> HIDE DEF o, u, l
      <4>2. o + y \in 1..n
        BY <2>3, <4>1
      <4> QED BY <4>2 DEF o
    <3> QED BY <3>2, <3>3, <3>5, <3>6
  <2>7. ASSUME NEW s \in slots
        PROVE  Place(s) \in 1..n /\ Out(s[1]).tokens[s[2]] = b.tokens[Place(s)]
    BY <2>6
  <2>8. ASSUME NEW k \in 1..n
        PROVE  Cardinality(Of(k)) = 1
    <3> DEFINE i == (k - 1) \div F
               j == ((k - 1) % F) + 1
    <3>1. /\ i \in Nat /\ j \in 1..F /\ i * F + j = k
          /\ \A x \in Nat, y \in 1..F : x * F + y = k => x = i /\ y = j
      <4>1. k \in Nat \ {0}
        BY <2>3
      <4> QED BY <2>3, <4>1, OnePlace
    <3> HIDE DEF i, j
    <3>2. i + 1 \in 1..Frames(b) /\ (i + 1) - 1 = i
      <4>1. i * F < Frames(b) * F
        <5> DEFINE p == i * F
                   q == Frames(b) * F
        <5>1. p \in Nat /\ q \in Nat /\ n \in Nat /\ n =< q /\ p + j = k /\ j \in Nat \ {0}
          BY <2>3, <3>1
        <5> HIDE DEF p, q
        <5>2. p < q
          BY <5>1
        <5> QED BY <5>2 DEF p, q
      <4>2. ~(i >= Frames(b))
        BY <2>3, <3>1, <4>1
      <4> QED BY <2>3, <3>1, <4>2
    <3>3. Out(i + 1) = Frame(b, i) /\ i \in 0..(Frames(b) - 1)
      BY <2>5, <3>2
    <3>4. j =< Len(Frame(b, i).tokens)
      <4>1. (i + 1) * F = i * F + F
        BY <2>3, <3>1
      <4>2. Upto(b, i + 1) >= i * F + j
        BY <2>3, <3>1, <4>1 DEF Upto, n
      <4>3. Len(Frame(b, i).tokens) = Upto(b, i + 1) - i * F /\ Upto(b, i + 1) \in i * F..n
        BY <2>1, <3>3, FrameFacts DEF n
      <4> QED BY <2>3, <3>1, <4>2, <4>3
    <3>5. Frame(b, i).tokens[j] = b.tokens[k]
      BY <2>1, <3>1, <3>3, <3>4, FrameFacts
    <3>6. <<i + 1, j>> \in Of(k)
      BY <2>4, <3>1, <3>2, <3>3, <3>4, <3>5
    <3>7. ASSUME NEW s \in Of(k)
          PROVE  s = <<i + 1, j>>
      <4>1. s \in slots /\ Out(s[1]).tokens[s[2]][1] = b.tokens[k][1]
        OBVIOUS
      <4>2. PICK x \in 1..Frames(b), y \in 1..F :
                /\ s = <<x, y>> /\ (x - 1) * F + y \in 1..n
                /\ Out(x).tokens[y] = b.tokens[(x - 1) * F + y]
        BY <2>6, <4>1
      <4>3. b.tokens[(x - 1) * F + y][1] = b.tokens[k][1]
        BY <4>1, <4>2
      <4>4. (x - 1) * F + y = k
        BY <2>2, <4>2, <4>3
      <4>5. x - 1 \in Nat /\ (x - 1) + 1 = x
        BY <2>3, Predecessor
      <4>6. x - 1 = i /\ y = j
        BY <3>1, <4>4, <4>5
      <4> QED BY <4>2, <4>5, <4>6
    <3>8. Of(k) = {<<i + 1, j>>}
      BY <3>6, <3>7
    <3> HIDE DEF Of
    <3> QED BY <3>8, FS_Singleton
  <2> QED BY <2>7, <2>8 DEF FramesMakeUpTheBox, Out, slots, n, b, F
<1> QED BY <1>1, AttestInvariance, PTL

----------------------------------------------------------------------------
(* What is counted                                                         *)

\* The pieces of a box are the tokens of its frames.
LEMMA PiecesAre ==
    ASSUME NEW b \in Held
    PROVE  /\ Pieces(b) \in Seq(Seq(Token)) /\ Len(Pieces(b)) = Frames(b)
           /\ \A k \in 1..Frames(b) : Pieces(b)[k] = Frame(b, k - 1).tokens
<1> DEFINE n == Len(b.tokens)
           c == (n + (F - 1)) \div F
           m == IF c = 0 THEN 1 ELSE c
           P(k) == SubSeq(b.tokens, (k - 1) * F + 1, IF k * F =< n THEN k * F ELSE n)
<1>1. n \in 0..255 /\ F \in Nat \ {0}
  BY HeldFacts
<1>2. Pieces(b) = [k \in 1..m |-> P(k)]
  BY DEF Pieces, F
<1>3. m = Frames(b)
  <2> HIDE DEF n
  <2>1. c \in 0..255
    <3>1. c \in Nat /\ c * F =< n + (F - 1) /\ n + (F - 1) < (c + 1) * F
      BY <1>1
    <3> QED BY <1>1, <3>1
  <2>2. uint8(c) = c
    BY <2>1 DEF uint8
  <2> QED BY <2>2 DEF Frames, get_frames_count, F, n
<1>4. Frames(b) \in 1..255
  BY FramesFacts
<1>5. ASSUME NEW k \in 1..Frames(b)
      PROVE  P(k) = Frame(b, k - 1).tokens /\ P(k) \in Seq(Token)
  <2>1. k - 1 \in 0..(Frames(b) - 1) /\ (k - 1) + 1 = k
    BY <1>4, Predecessor
  <2>2. P(k) = Frame(b, k - 1).tokens
    BY <2>1 DEF Frame, Upto
  <2> QED BY <2>1, <2>2, FrameFacts
<1> HIDE DEF m, P
<1>6. Pieces(b) \in [1..Frames(b) -> Seq(Token)]
  BY <1>2, <1>3, <1>5
<1>7. Pieces(b) \in Seq(Seq(Token)) /\ Len(Pieces(b)) = Frames(b)
  <2> DEFINE p == Pieces(b)
             S == Seq(Token)
             l == Frames(b)
  <2>1. l \in 1..255 /\ p \in [1..l -> S]
    BY <1>4, <1>6
  <2> HIDE DEF p, S, l
  <2>2. p \in Seq(S)
    BY <2>1
  <2>3. Len(p) = l
    BY <2>1, <2>2
  <2> QED BY <2>2, <2>3 DEF p, S, l
<1> QED BY <1>2, <1>3, <1>5, <1>7

\* When ids are told apart, what an input of a signing session has counted
\* (handle_input_frame) is a whole box that was uploaded since app_init.
THEOREM AttestCounts == Spec => []WholeUnlessIdsCoincide
<1>1. IInv => WholeUnlessIdsCoincide
  <2> SUFFICES ASSUME IInv, NEW n \in 1..Len(inputs),
                      \A a, b \in seen : BoxId(a) = inputs[n].id /\ BoxId(b) = inputs[n].id
                                              => a = b
               PROVE  \E b \in seen : inputs[n] = Whole[b]
    BY DEF WholeUnlessIdsCoincide
  <2> DEFINE c == inputs[n]
  <2>1. c \in Counts
    BY ElementOfSeq DEF IInv, Types
  <2>2. PICK b \in seen : /\ c.id = BoxId(b) /\ c.value = b.value
                         /\ Joined(b, c.pieces, Frames(b))
    BY DEF IInv, InputsCounted, Counted
  <2>3. b \in Held
    BY DEF IInv, Types
  <2> HIDE DEF c
  <2>4. \A a \in seen : BoxId(a) = c.id => a = b
    BY <2>2 DEF c
  <2>5. \A k \in 1..Frames(b) : c.pieces[k] = Pieces(b)[k]
    BY <2>2, <2>3, <2>4, PiecesAre DEF Joined, PieceOf
  <2>6. c.pieces \in Seq(Seq(Token)) /\ Len(c.pieces) = Frames(b)
    BY <2>1, <2>2 DEF Counts, Joined
  <2>7. Pieces(b) \in Seq(Seq(Token)) /\ Len(Pieces(b)) = Frames(b)
    BY <2>3, PiecesAre
  <2>8. c.pieces = Pieces(b)
    BY <2>5, <2>6, <2>7, SeqEqual
  <2>9. c = [id |-> c.id, value |-> c.value, pieces |-> c.pieces]
    BY <2>1 DEF Counts
  <2> QED BY <2>2, <2>3, <2>8, <2>9 DEF Whole, c, Held
<1> QED BY <1>1, AttestInvariance, PTL

----------------------------------------------------------------------------
(* Attest implements AttestedInputs                                        *)

\* A finished input is one that AttestedInputs may count.
LEMMA CountRefines ==
    ASSUME IInv, NEW c \in Counts, Counted(c), inputs' = Append(inputs, c), seen' = seen
    PROVE  Promise!Next
<1> DEFINE S == {Whole[b] : b \in seen}
           All == UNION {{w.pieces[k] : k \in 1..Len(w.pieces)} : w \in S}
<1>1. PICK b \in seen : /\ c.id = BoxId(b) /\ c.value = b.value
                       /\ Joined(b, c.pieces, Frames(b))
  BY DEF Counted
<1>2. \A a \in seen : /\ a \in Held /\ Whole[a] \in S
                      /\ Whole[a].id = BoxId(a) /\ Whole[a].value = a.value
                      /\ Whole[a].pieces = Pieces(a)
  BY DEF IInv, Types, Whole, Held
<1>3. \A a \in seen : /\ Len(Pieces(a)) = Frames(a) /\ Frames(a) \in 1..255
                      /\ \A k \in 1..Frames(a) : Pieces(a)[k] = Frame(a, k - 1).tokens
  BY <1>2, PiecesAre, FramesFacts
<1>4. \A k \in 1..Frames(b) : \E w \in S :
         /\ w.id = BoxId(b) /\ k =< Len(w.pieces) /\ k \in 1..Len(w.pieces)
         /\ c.pieces[k] = w.pieces[k]
  <2> SUFFICES ASSUME NEW k \in 1..Frames(b)
               PROVE  \E w \in S : /\ w.id = BoxId(b) /\ k =< Len(w.pieces)
                                   /\ k \in 1..Len(w.pieces) /\ c.pieces[k] = w.pieces[k]
    OBVIOUS
  <2>1. PICK a \in seen : /\ BoxId(a) = BoxId(b) /\ k \in 1..Frames(a)
                         /\ c.pieces[k] = Frame(a, k - 1).tokens
    BY <1>1 DEF Joined, PieceOf
  <2>2. k =< Frames(a)
    BY <1>3, <2>1
  <2> DEFINE v == Whole[a]
  <2>3. v \in S /\ v.id = BoxId(b) /\ Len(v.pieces) = Frames(a)
        /\ v.pieces[k] = Frame(a, k - 1).tokens
    BY <1>2, <1>3, <2>1
  <2> HIDE DEF v, S
  <2> QED BY <2>1, <2>2, <2>3
<1>5. c.pieces[1] = Pieces(b)[1]
  <2>1. Frames(b) > 0 /\ 1 \in 1..Frames(b) /\ 1 - 1 = 0
    <3> DEFINE m == Frames(b)
    <3>1. m \in 1..255
      BY <1>3
    <3> HIDE DEF m
    <3>2. m > 0 /\ 1 \in 1..m
      BY <3>1
    <3> QED BY <3>2 DEF m
  <2>2. c.pieces[1] = Frame(b, 0).tokens
    BY <1>1, <2>1 DEF Joined
  <2>3. Pieces(b)[1] = Frame(b, 1 - 1).tokens
    BY <1>3, <2>1
  <2> QED BY <2>1, <2>2, <2>3
<1>6. c.pieces \in [1..Frames(b) -> All]
  <2>1. c.pieces \in Seq(Seq(Token)) /\ Len(c.pieces) = Frames(b)
    BY <1>1 DEF Counts, Joined
  <2>2. c.pieces \in [1..Frames(b) -> Seq(Token)]
    BY <2>1, LenProperties
  <2>3. \A k \in 1..Frames(b) : c.pieces[k] \in All
    BY <1>4
  <2> HIDE DEF All
  <2> QED BY <2>2, <2>3
<1>7. c = [id |-> c.id, value |-> c.value, pieces |-> c.pieces]
  BY DEF Counts
<1>8. Promise!AllPieces = All
  BY DEF Promise!AllPieces
<1> DEFINE w == Whole[b]
<1>9. w \in S /\ w.id = c.id /\ w.value = c.value /\ w.pieces = Pieces(b)
      /\ Len(w.pieces) = Frames(b)
  BY <1>1, <1>2, <1>3
<1> HIDE DEF w, All
<1>10. Promise!Count(w, c.pieces)
  <2>1. UNCHANGED S
    OBVIOUS
  <2>2. \A k \in 1..Len(w.pieces) : \E a \in S :
           a.id = w.id /\ k =< Len(a.pieces) /\ c.pieces[k] = a.pieces[k]
    BY <1>1, <1>4, <1>9
  <2>3. inputs' = Append(inputs, [id |-> w.id, value |-> w.value, pieces |-> c.pieces])
    BY <1>7, <1>9
  <2> QED BY <1>5, <1>9, <2>1, <2>2, <2>3 DEF Promise!Count
<1> QED BY <1>6, <1>8, <1>9, <1>10 DEF Promise!Next

\* Each step counts pieces of boxes that were seen, sees a box, forgets the inputs
\* of a session, starts anew or changes nothing there.
LEMMA StepRefines == IInv /\ [Next]_vars => [Promise!Next]_(Promise!vars)
<1> DEFINE P == [Promise!Next]_(Promise!vars)
<1> SUFFICES ASSUME IInv, [Next]_vars PROVE P
  OBVIOUS
<1> USE DEF Promise!vars
<1>1. ASSUME inputs' = <<>>, seen' = seen PROVE P
  BY <1>1 DEF Promise!Next, Promise!Forget
<1>2. ASSUME UNCHANGED <<inputs, seen>> PROVE P
  BY <1>2
<1>3. ASSUME handler_err PROVE P
  BY <1>1, <1>3 DEF handler_err, app_set_current_command
<1>4. ASSUME NEW a, BoxPart(a), a.box \in Boxes, inputs' = inputs PROVE P
  <2>1. CASE UNCHANGED seen
    BY <1>2, <1>4, <2>1
  <2>2. CASE seen' = seen \cup {a.box}
    <3>1. {Whole[b] : b \in seen'} = {Whole[b] : b \in seen} \cup {Whole[a.box]}
      BY <2>2
    <3>2. Whole[a.box] \in {Whole[b] : b \in Boxes}
      BY <1>4
    <3>3. \E c \in {Whole[b] : b \in Boxes} : Promise!See(c)
      BY <1>4, <3>1, <3>2 DEF Promise!See
    <3> QED BY <3>3 DEF Promise!Next
  <2> QED BY <1>4, <2>1, <2>2 DEF BoxPart
<1>5. ASSUME NEW b \in Boxes, NEW known \in BOOLEAN, attest_init(b, known)
      PROVE  P
  BY <1>1, <1>3, <1>5 DEF attest_init
<1>6. CASE attest_tree
  <2>1. CASE handler_err
    BY <2>1, <1>3
  <2>2. CASE ~handler_err
    <3> DEFINE a == [attest EXCEPT !.tree = TRUE]
    <3>1. cmd = "ATTEST" /\ BoxPart(a) /\ inputs' = inputs
      BY <1>6, <2>2 DEF attest_tree, Handled
    <3>2. a.box \in Boxes
      BY <3>1 DEF IInv, Types, Attests, UploadedSoFar, Held
    <3> QED BY <3>1, <3>2, <1>4
  <2> QED BY <2>1, <2>2
<1>7. CASE attest_token
  <2>1. CASE handler_err
    BY <2>1, <1>3
  <2>2. CASE ~handler_err
    <3> DEFINE a == [attest EXCEPT !.sent = @ + 1,
                        !.table = Append(@, attest.box.tokens[attest.sent + 1])]
    <3>1. cmd = "ATTEST" /\ BoxPart(a) /\ inputs' = inputs
      BY <1>7, <2>2 DEF attest_token, Handled
    <3>2. a.box \in Boxes
      BY <3>1 DEF IInv, Types, Attests, UploadedSoFar, Held
    <3> QED BY <3>1, <3>2, <1>4
  <2> QED BY <2>1, <2>2
<1>8. ASSUME NEW index \in Indexes, get_frame(index)
      PROVE  P
  BY <1>2, <1>3, <1>8 DEF get_frame, Handled
<1>9. CASE sign_start
  BY <1>1, <1>9 DEF sign_start
<1>10. ASSUME NEW f \in host, NEW g \in host, input_frame(f, g.frame)
       PROVE  P
  <2>1. CASE handler_err
    BY <2>1, <1>3
  <2>2. CASE ~handler_err
    <3>1. seen' = seen
      BY <1>10, <2>2, InputFrameIs
    <3>2. CASE inputs' = inputs
      BY <1>2, <3>1, <3>2
    <3>3. CASE inputs' # inputs
      <4>1. PICK c \in Counts : Counted(c) /\ inputs' = Append(inputs, c)
        BY <1>10, <2>2, <3>3, InputFrameIs
      <4> QED BY <3>1, <4>1, CountRefines
    <3> QED BY <3>2, <3>3
  <2> QED BY <2>1, <2>2
<1>11. CASE approve
  BY <1>2, <1>11 DEF approve
<1>12. CASE session_ends
  BY <1>3, <1>12 DEF session_ends
<1>13. CASE app_init
  <2>1. {Whole[b] : b \in seen'} = {} /\ inputs' = <<>>
    BY <1>13 DEF app_init, app_set_current_command
  <2> QED BY <2>1 DEF Promise!Next, Promise!SwitchOn
<1>14. ASSUME NEW f \in host, lose_frame(f)
       PROVE  P
  BY <1>2, <1>14 DEF lose_frame
<1>15. CASE UNCHANGED vars
  BY <1>2, <1>15 DEF vars
<1>16. CASE attest_registers
  <2>1. CASE handler_err
    BY <2>1, <1>3
  <2>2. CASE ~handler_err
    <3> DEFINE a == [attest EXCEPT !.registers = TRUE]
    <3>1. cmd = "ATTEST" /\ BoxPart(a) /\ inputs' = inputs
      BY <1>16, <2>2 DEF attest_registers, Handled
    <3>2. a.box \in Boxes
      BY <3>1 DEF IInv, Types, Attests, UploadedSoFar, Held
    <3> QED BY <3>1, <3>2, <1>4
  <2> QED BY <2>1, <2>2
<1> HIDE DEF P
<1> QED BY <1>5, <1>6, <1>7, <1>8, <1>9, <1>10, <1>11, <1>12, <1>13, <1>14, <1>15,
        <1>16 DEF Next, Command

\* A finished input (handle_input_frame) has the value, the number of pieces and
\* the first piece of a box that was uploaded in full since app_init, and each
\* piece of it is one, at its place, of such a box with the same id, however the
\* host loses, repeats, mixes or keeps the frames.
THEOREM AttestRefines == Spec => CountsAttestedPieces
<1>1. Init => Promise!Init
  BY DEF Init, Promise!Init
<1> QED BY <1>1, StepRefines, AttestInvariance, PTL DEF Spec, CountsAttestedPieces, Promise!Spec
============================================================================
