------------------------------- MODULE Attest -------------------------------
(***************************************************************************)
(* Attested inputs.  The device never sees the chain: the host uploads a   *)
(* whole box (AttestInputBox), the device computes its id and hands out    *)
(* the box's value and tokens in frames, each authenticated with a key     *)
(* drawn when the app starts.  A signing session later takes the frames    *)
(* back as the inputs of a transaction.  In between they are with the      *)
(* host, which may lose them, send them twice, in any order, mixed with    *)
(* those of other boxes, or keep them past the end of the key.             *)
(*                                                                         *)
(* Two ideals, external to this code: different bytes have different       *)
(* blake2b hashes, so that a box id is the sequence that is hashed, and a  *)
(* frame verifies under a key exactly if it was issued under that key      *)
(* (HMAC).  What is hashed is this code's: the sizes of tree and registers *)
(* are not, so that different uploads may have one id.  Prompts and        *)
(* session ids are in ErgoApp, chunks and a transaction's parts in SignTx. *)
(***************************************************************************)
EXTENDS Integers, Sequences, FiniteSets

CONSTANTS
    TxIds, TokenIds,         \* ids of transactions and of tokens
    Boxes,                   \* boxes a host may upload, see AttestAssumption
    FRAME_MAX_TOKENS_COUNT, FRAME_TOKEN_VALUE_PAIR_SIZE, TOKEN_MAX_COUNT,
    MaxInputs,               \* bound: inputs of a transaction
    MaxStarts,               \* bound: times the app is started
    MaxHeld                  \* bound: frames the host holds at a time

\* A box as it is uploaded: the transaction (and place there) it is from, its
\* value and height, its tokens as <<id, amount>>, and the bytes of its tree and
\* registers, of which the host says how many there are.  A field is hashed as
\* one number.  The tokens of a frame have at most 255 bytes (160 in the code).
ASSUME AttestAssumption ==
    /\ TxIds \subseteq Nat /\ TokenIds \subseteq Nat
    /\ Boxes \subseteq [tx : TxIds, value : Nat, height : Nat, tree : Seq(Nat),
                        tokens : Seq(TokenIds \X Nat), registers : Seq(Nat)]
    /\ FRAME_MAX_TOKENS_COUNT \in Nat \ {0}
    /\ FRAME_TOKEN_VALUE_PAIR_SIZE \in Nat \ {0}
    /\ FRAME_MAX_TOKENS_COUNT * FRAME_TOKEN_VALUE_PAIR_SIZE =< 255
    /\ TOKEN_MAX_COUNT \in 0..255 /\ MaxInputs \in Nat /\ MaxStarts \in Nat \ {0}
    /\ MaxHeld \in Nat

VARIABLES
    key,        \* session_key: its number, none is drawn twice
    cmd,        \* current_command
    attest,     \* attest_input_ctx_t
    sign,       \* the input being added, tx.input_ctx and its callback
    host,       \* frames the host holds, with the key that signed them
    seen,       \* history: boxes seen in full since the app started
    inputs      \* history: what each finished input of the session counted

vars == <<key, cmd, attest, sign, host, seen, inputs>>

ZeroAttest == [state |-> "INITIALIZED", box |-> <<>>, sent |-> 0, tree |-> FALSE,
               registers |-> FALSE, table |-> <<>>]
ZeroSign   == [state |-> "FRAMES_STARTED", box_id |-> <<>>, frames_count |-> 0,
               frames_processed |-> 0, value |-> 0, pieces |-> <<>>]

\* app_set_current_command: both commands live in the same, zeroed, memory.
app_set_current_command(c) ==
    /\ cmd' = c /\ attest' = ZeroAttest /\ sign' = ZeroSign /\ inputs' = <<>>

handler_err == app_set_current_command("NONE") /\ UNCHANGED <<key, host, seen>>
Handled(ok, A) == (ok /\ A) \/ (~ok /\ handler_err)

uint8(x) == x % 256

----------------------------------------------------------------------------
(* AttestInputBox                                                          *)

\* handle_init for box b: what is hashed and the empty table.  An application
\* the user knows is let in at once, another one is asked about.
attest_init(b, known) ==
    \/ /\ Len(b.tokens) =< TOKEN_MAX_COUNT
       /\ cmd' = "ATTEST" /\ sign' = ZeroSign /\ inputs' = <<>>
       /\ attest' = [ZeroAttest EXCEPT !.box = b,
                        !.state = IF known THEN "APPROVED" ELSE "INITIALIZED"]
       /\ UNCHANGED <<key, host, seen>>
    \/ Len(b.tokens) > TOKEN_MAX_COUNT /\ handler_err

approve ==
    /\ cmd = "ATTEST" /\ attest.state = "INITIALIZED"
    /\ attest' = [attest EXCEPT !.state = "APPROVED"]
    /\ UNCHANGED <<key, cmd, sign, host, seen, inputs>>

\* Ids and amounts of tokens, in the order they are hashed.
Flat(tokens) ==
    [i \in 1..2 * Len(tokens) |-> tokens[(i + 1) \div 2][IF i % 2 = 1 THEN 1 ELSE 2]]

\* What ergo_tx_serializer_box_* and ergo_tx_serializer_box_id_hash feed the
\* hash of a finished box; without registers, that there are none.
BoxId(b) ==
    <<b.value>> \o b.tree \o <<b.height, Len(b.tokens)>> \o Flat(b.tokens)
        \o (IF b.registers = <<>> THEN <<0>> ELSE b.registers) \o <<b.tx>>

\* CHECK_CALL_BOX_FINISHED: with its last part the box gets its id.
BoxPart(a) ==
    IF /\ a.tree /\ a.sent = Len(a.box.tokens)
       /\ a.registers \/ a.box.registers = <<>>
    THEN attest' = [a EXCEPT !.state = "FINISHED"] /\ seen' = seen \cup {a.box}
    ELSE attest' = a /\ UNCHANGED seen

attest_tree ==
    Handled(/\ cmd = "ATTEST" /\ attest.state = "APPROVED" /\ ~attest.tree,
            BoxPart([attest EXCEPT !.tree = TRUE]) /\ UNCHANGED <<key, cmd, sign, host, inputs>>)

\* box_token_cb refuses a second amount for a token id.
FreshToken(id) == \A i \in 1..Len(attest.table) : attest.table[i][1] # id

\* box_token_cb for the next token of the box.
attest_token ==
    LET t == attest.box.tokens[attest.sent + 1]
    IN  Handled(/\ cmd = "ATTEST" /\ attest.state = "APPROVED" /\ attest.tree
                /\ attest.sent < Len(attest.box.tokens)
                /\ Len(attest.table) < TOKEN_MAX_COUNT /\ FreshToken(t[1]),
                /\ BoxPart([attest EXCEPT !.sent = @ + 1, !.table = Append(@, t)])
                /\ UNCHANGED <<key, cmd, sign, host, inputs>>)

\* The registers, after tree and tokens; a box that announced none is finished
\* by then.
attest_registers ==
    Handled(/\ cmd = "ATTEST" /\ attest.state = "APPROVED" /\ attest.tree
            /\ attest.sent = Len(attest.box.tokens),
            /\ BoxPart([attest EXCEPT !.registers = TRUE])
            /\ UNCHANGED <<key, cmd, sign, host, inputs>>)

get_frames_count(n) ==
    LET c == uint8((n + (FRAME_MAX_TOKENS_COUNT - 1)) \div FRAME_MAX_TOKENS_COUNT)
    IN  IF c = 0 THEN 1 ELSE c

\* Mutant: a frame starts with the last token of the one before.
frame_offset_overlap(index) ==
    IF index = 0 THEN 0 ELSE uint8(index * FRAME_MAX_TOKENS_COUNT - 1)

frame_offset(index) == uint8(index * FRAME_MAX_TOKENS_COUNT)

\* Mutant: a frame takes all tokens that are left.
frame_tokens_count_all(n, index) == uint8(n - index * FRAME_MAX_TOKENS_COUNT)

frame_tokens_count(n, index) ==
    LET left == uint8(n - index * FRAME_MAX_TOKENS_COUNT)
    IN  IF left < FRAME_MAX_TOKENS_COUNT THEN left ELSE FRAME_MAX_TOKENS_COUNT

\* The bytes a frame is signed over.
FrameOf(a, index) ==
    LET n == Len(a.table)
    IN  [box_id |-> BoxId(a.box), frames_count |-> get_frames_count(n), index |-> index,
         value |-> a.box.value,
         tokens |-> SubSeq(a.table, frame_offset(index) + 1,
                                    frame_offset(index) + frame_tokens_count(n, index))]

\* handle_get_frame with send_response_attested_input_frame.
get_frame(index) ==
    /\ Cardinality(host) < MaxHeld
    /\ Handled(/\ cmd = "ATTEST" /\ attest.state = "FINISHED"
               /\ index < get_frames_count(Len(attest.table)),
               /\ host' = host \cup {[key |-> key, frame |-> FrameOf(attest, index)]}
               /\ UNCHANGED <<key, cmd, attest, sign, seen, inputs>>)

----------------------------------------------------------------------------
(* The inputs of SignTransaction                                           *)

\* SIGN_PK up to the first input; no input is open.
sign_start ==
    /\ cmd' = "SIGN" /\ attest' = ZeroAttest /\ inputs' = <<>>
    /\ sign' = [ZeroSign EXCEPT !.state = "FINISHED"]
    /\ UNCHANGED <<key, host, seen>>

\* Mutant: the signature is compared with the frame only, not made with the key.
Verifies_any_key(f, frame) == f.frame = frame

\* The HMAC with the key of this start over the frame's bytes is the frame's.
Verifies(f, frame) == f.key = key /\ f.frame = frame

\* The tokens handed on: tokens_len is 8 bits wide.
FrameTokens(frame) ==
    LET len == uint8(Len(frame.tokens) * FRAME_TOKEN_VALUE_PAIR_SIZE)
    IN  SubSeq(frame.tokens, 1, len \div FRAME_TOKEN_VALUE_PAIR_SIZE)

\* ergo_tx_serializer_input_init; stx_amounts_add_input takes the value.
NewInput(frame) ==
    [ZeroSign EXCEPT !.box_id = frame.box_id, !.frames_count = frame.frames_count,
                     !.value = frame.value]

\* Mutant: the id of a later frame is not compared.
NextFrame_any_box(i, frame) ==
    /\ i.state = "FRAMES_STARTED"
    /\ frame.index < i.frames_count /\ frame.index = i.frames_processed

\* The checks of ergo_tx_serializer_input_add_tokens: neither the count of
\* frames nor the value in a later frame is compared with the first one's.
NextFrame(i, frame) ==
    /\ i.state = "FRAMES_STARTED" /\ i.box_id = frame.box_id
    /\ frame.index < i.frames_count /\ frame.index = i.frames_processed

\* handle_input_frame: the host sends a frame with the signature of f.
input_frame(f, frame) ==
    LET i    == IF frame.index = 0 THEN NewInput(frame) ELSE sign
        next == [i EXCEPT !.frames_processed = uint8(@ + 1),
                          !.pieces = Append(@, FrameTokens(frame))]
        done == next.frames_processed = next.frames_count
    IN  Handled(/\ cmd = "SIGN" /\ Verifies(f, frame)
                /\ frame.index = 0 => sign.state = "FINISHED" /\ Len(inputs) < MaxInputs
                /\ NextFrame(i, frame),
                /\ sign' = IF done THEN [next EXCEPT !.state = "FINISHED"] ELSE next
                /\ inputs' = IF done THEN Append(inputs, [id |-> next.box_id,
                                                          value |-> next.value,
                                                          pieces |-> next.pieces])
                                     ELSE inputs
                /\ UNCHANGED <<key, cmd, attest, host, seen>>)

----------------------------------------------------------------------------
(* Around both                                                             *)

\* A refusal, an error, the end of a session or another command.
session_ends == cmd # "NONE" /\ handler_err

\* The app is closed and started: app_init draws a new key.
app_init ==
    /\ key < MaxStarts /\ key' = key + 1
    /\ app_set_current_command("NONE") /\ seen' = {} /\ UNCHANGED host

\* The host loses a frame.
lose_frame(f) == host' = host \ {f} /\ UNCHANGED <<key, cmd, attest, sign, seen, inputs>>

Init ==
    /\ key = 1 /\ cmd = "NONE" /\ attest = ZeroAttest /\ sign = ZeroSign
    /\ host = {} /\ seen = {} /\ inputs = <<>>

Indexes == 0..get_frames_count(TOKEN_MAX_COUNT)

\* While the user is asked, commands are refused without effect (res_ui_busy).
ui_busy == cmd = "ATTEST" /\ attest.state = "INITIALIZED"

Command ==
    \/ \E b \in Boxes, known \in BOOLEAN : attest_init(b, known)
    \/ attest_tree \/ attest_token \/ attest_registers
    \/ \E index \in Indexes : get_frame(index)
    \/ sign_start
    \/ \E f, g \in host : input_frame(f, g.frame)

Next ==
    \/ ~ui_busy /\ Command
    \/ approve \/ session_ends \/ app_init
    \/ \E f \in host : lose_frame(f)

Spec == Init /\ [][Next]_vars

----------------------------------------------------------------------------
(* Properties                                                              *)

\* Every field has its type; a table never holds more than TOKEN_MAX_COUNT
\* tokens and a frame never more than FRAME_MAX_TOKENS_COUNT.
TypeOK ==
    /\ key \in 1..MaxStarts /\ cmd \in {"NONE", "ATTEST", "SIGN"}
    /\ attest.state \in {"INITIALIZED", "APPROVED", "FINISHED"}
    /\ Len(attest.table) =< TOKEN_MAX_COUNT
    /\ sign.state \in {"FRAMES_STARTED", "FINISHED"}
    /\ sign.frames_processed \in 0..255
    /\ \A f \in host : f.key \in 1..key /\ Len(f.frame.tokens) =< FRAME_MAX_TOKENS_COUNT
    /\ seen \subseteq Boxes /\ Len(inputs) =< MaxInputs

\* A box in pieces of at most FRAME_MAX_TOKENS_COUNT tokens, in their order.
Pieces(b) ==
    LET n == Len(b.tokens)
        F == FRAME_MAX_TOKENS_COUNT
        c == (n + (F - 1)) \div F
    IN  [k \in 1..(IF c = 0 THEN 1 ELSE c) |->
            SubSeq(b.tokens, (k - 1) * F + 1, IF k * F =< n THEN k * F ELSE n)]

Whole == [b \in Boxes |-> [id |-> BoxId(b), value |-> b.value, pieces |-> Pieces(b)]]

\* Attest implements AttestedInputs: however frames are lost, repeated, mixed
\* or kept, an input that is complete has the id, the value, the number of
\* pieces and the first piece of a box that was uploaded in full since the app
\* was started, and each piece of it is, at its place, one of a box with that
\* id that was uploaded so.
Promise == INSTANCE AttestedInputs WITH
    Contents <- {Whole[b] : b \in Boxes},
    attested <- {Whole[b] : b \in seen}
CountsAttestedPieces == Promise!Spec

\* If no two of the boxes uploaded since the app was started have the id of an
\* input, it has counted exactly the one with it: its value and all of its
\* tokens, in order, none twice or from elsewhere.  (handle_input_frame compares
\* ids; two uploads with one id may be mixed.)
WholeUnlessIdsCoincide ==
    \A n \in 1..Len(inputs) :
        (\A a, b \in seen : BoxId(a) = inputs[n].id /\ BoxId(b) = inputs[n].id => a = b)
            => \E b \in seen : inputs[n] = Whole[b]

\* The frames the device hands out for a finished box make it up: each token of
\* the box, with its amount, is at its place in one frame, no token id is in two
\* places, and the frames have nothing else.
FramesMakeUpTheBox ==
    cmd = "ATTEST" /\ attest.state = "FINISHED" =>
        LET Out(i)   == FrameOf(attest, i - 1)
            slots    == {s \in (1..get_frames_count(Len(attest.table)))
                                \X (1..FRAME_MAX_TOKENS_COUNT) : s[2] =< Len(Out(s[1]).tokens)}
            Place(s) == (s[1] - 1) * FRAME_MAX_TOKENS_COUNT + s[2]
        IN  /\ \A s \in slots : /\ Place(s) \in 1..Len(attest.box.tokens)
                                /\ Out(s[1]).tokens[s[2]] = attest.box.tokens[Place(s)]
            /\ \A k \in 1..Len(attest.box.tokens) :
                  Cardinality({s \in slots :
                      Out(s[1]).tokens[s[2]][1] = attest.box.tokens[k][1]}) = 1
============================================================================
