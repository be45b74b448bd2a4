------------------------------- MODULE SignTx -------------------------------
(***************************************************************************)
(* Uploading a transaction: sub-commands 0x10 to 0x20 of SignTransaction,  *)
(* through the P2PK operation (stx_op_p2pk.c) and the output description   *)
(* (stx_output.c) down to the serializer (tx_ser_full, _table, _input and  *)
(* _box), which hashes the transaction piece by piece as it arrives and    *)
(* keeps only counters.  The host chooses order, sizes and chunks.         *)
(*                                                                         *)
(* Every blake2b_update on tx_hash is fed to the reader of TxFormat.       *)
(* Contents (ids, amounts, paths, signatures) are abstracted: whether they *)
(* parse, verify and add up is the input "valid" of an action.  Screens    *)
(* and answers are in ErgoApp.                                             *)
(***************************************************************************)
EXTENDS TxFormat

CONSTANTS
    Counts,               \* inputs, data inputs, outputs a host announces (uint16)
    TokenCounts,          \* tokens a host announces, of all or of a box (uint8)
    Sizes,                \* sizes of an extension, a tree, registers (uint32)
    FrameCounts,          \* frames of an input (uint8)
    BoxIds,               \* ids of input boxes, 0 the one of all zero bytes
    ItemsPerChunk,        \* most ids or tokens one command can carry
    MAX_DATA_CHUNK_LEN, MAX_TX_DATA_PART_LEN, TOKEN_MAX_COUNT,
    Promises              \* what the host keeps to, see Promised below

ASSUME SignTxAssumption ==
    /\ Counts \subseteq Nat /\ TokenCounts \subseteq Nat
    /\ Sizes \subseteq Nat /\ FrameCounts \subseteq Nat
    /\ BoxIds \subseteq Nat /\ ItemsPerChunk \in Nat
    /\ MAX_DATA_CHUNK_LEN \in Nat \ {0}
    /\ MAX_TX_DATA_PART_LEN \in Nat
    /\ TOKEN_MAX_COUNT \in Nat
    /\ Promises \subseteq {"finish_box", "announced_tree"}

VARIABLES
    op,        \* p2pk.state; "NONE" when no signing session is open
    full,      \* transaction.tx: where the upload is and what is to come
    table,     \* distinct_tokens_count and the entries of tokens_table
    input,     \* tx.input_ctx, the input being added
    box,       \* tx.box_ctx, the output being added
    output,    \* ui.output: what is known of that output for its screens
    blind,     \* blind_signing_required
    hash,      \* history: the reader of what went into tx_hash
    seen       \* history: outputs begun, put on screen, exempt from it; scripts

vars == <<op, full, table, input, box, output, blind, hash, seen>>

----------------------------------------------------------------------------
(* The zeroed context: the first enumerator is each state's zero.          *)

ZeroFull   == [state |-> "TOKENS_STARTED", inputs_count |-> 0,
               data_inputs_count |-> 0, outputs_count |-> 0]
ZeroTable  == [distinct |-> 0, count |-> 0]
ZeroInput  == [state |-> "FRAMES_STARTED", box_id |-> 0, frames_count |-> 0,
               frames_processed |-> 0, ext |-> 0]
ZeroBox    == [state |-> "INITIALIZED", tree |-> 0, tokens |-> 0, regs |-> 0]
ZeroOutput == [type |-> "UNKNOWN", tree_set |-> FALSE, finished |-> FALSE,
               used |-> FALSE]
NothingSeen == [begun |-> 0, shown |-> 0, exempt |-> 0, script |-> FALSE]

Zeroed == /\ full' = ZeroFull /\ table' = ZeroTable /\ input' = ZeroInput
          /\ box' = ZeroBox /\ output' = ZeroOutput /\ blind' = FALSE
          /\ hash' = NewReader /\ seen' = NothingSeen

\* handler_err: app_set_current_command(CMD_NONE).
handler_err == op' = "NONE" /\ Zeroed

\* A handler whose checks succeed does A; any check that fails ends the session.
Handled(ok, A) == (ok /\ A) \/ (~ok /\ handler_err)

\* SIGN_PK: stx_operation_p2pk_init in a context just zeroed.
sign_init(valid) == Handled(valid, op' = "INITIALIZED" /\ Zeroed)

\* Any other command, a refusal or the power switch ends the session.
session_ends == op # "NONE" /\ handler_err

\* What a well-behaved host may be relied on for, as the code does not check
\* it: "finish_box", it completes an output before it starts the next one, and
\* "announced_tree", it sends tree chunks only for a tree size other than 0.
Promised(p, c) == p \in Promises => c

----------------------------------------------------------------------------
(* 0x10 start, 0x11 token ids                                              *)

CountsOK(ins, outs) == ins # 0 /\ outs # 0

\* stx_amounts_init, called last, empties the table the serializer uses.
start_tx(ins, datas, toks, outs, valid) ==
    Handled(/\ valid /\ op = "INITIALIZED"
            /\ CountsOK(ins, outs)
            /\ table.count = 0 /\ toks =< TOKEN_MAX_COUNT,
            /\ op' = "TX_STARTED"
            /\ full' = [state |-> IF toks # 0 THEN "TOKENS_STARTED" ELSE "INPUTS_STARTED",
                        inputs_count |-> ins, data_inputs_count |-> datas,
                        outputs_count |-> outs]
            /\ table' = [distinct |-> toks, count |-> 0]
            /\ input' = IF toks # 0 THEN ZeroInput ELSE [ZeroInput EXCEPT !.state = "FINISHED"]
            /\ hash' = ReadInputsCount(hash, ins)
            /\ UNCHANGED <<box, output, blind, seen>>)

\* Mutant: the table is complete with one id more than announced.
TableFinished_late(count) == count > table.distinct

TableFinished(count) == count >= table.distinct

\* n: the ids in the chunk.
add_tokens(n, valid) ==
    Handled(/\ valid /\ op = "TX_STARTED" /\ full.state = "TOKENS_STARTED"
            /\ table.count + n =< table.distinct,
            /\ table' = [table EXCEPT !.count = table.count + n]
            /\ IF TableFinished(table.count + n)
               THEN /\ full' = [full EXCEPT !.state = "INPUTS_STARTED"]
                    /\ input' = [input EXCEPT !.state = "FINISHED"]
               ELSE UNCHANGED <<full, input>>
            /\ UNCHANGED <<op, box, output, blind, hash, seen>>)

----------------------------------------------------------------------------
(* 0x12 input frames, 0x13 context extension, 0x14 data inputs             *)

data_inputs_finished(h) ==
    /\ full' = [full EXCEPT !.state = "OUTPUTS_STARTED", !.inputs_count = 0,
                            !.data_inputs_count = 0]
    /\ hash' = ReadOutputsCount(ReadTable(h, table.distinct, table.count),
                                full.outputs_count)

\* h: the reader after the input's last piece.
input_finished(h) ==
    \/ /\ full.inputs_count > 1
       /\ full' = [full EXCEPT !.inputs_count = full.inputs_count - 1]
       /\ hash' = h
    \/ /\ full.inputs_count = 1 /\ full.data_inputs_count > 0
       /\ full' = [full EXCEPT !.state = "DATA_INPUTS_STARTED", !.inputs_count = 0]
       /\ hash' = ReadDataCount(h, full.data_inputs_count)
    \/ /\ full.inputs_count = 1 /\ full.data_inputs_count = 0
       /\ data_inputs_finished(ReadDataCount(h, 0))

\* Mutant: the table takes one token more than it has room for.
RoomFor_one_more(fresh) == table.count + fresh =< TOKEN_MAX_COUNT + 1

\* token_table_add_token finds room for the new tokens of a frame.
RoomFor(fresh) == table.count + fresh =< TOKEN_MAX_COUNT

\* ergo_tx_serializer_input_add_tokens on input i, whose next frame has just
\* been checked.  fresh: the tokens of the frame that are new to the table.
FrameAdded(i, fresh) ==
    LET done == i.frames_processed + 1
        h    == ReadEmptyProof(ReadBoxId(hash, i.ext))
    IN  /\ table' = [table EXCEPT !.count = table.count + fresh]
        /\ \/ /\ done < i.frames_count
              /\ input' = [i EXCEPT !.frames_processed = done]
              /\ UNCHANGED <<full, hash>>
           \/ /\ done = i.frames_count /\ i.ext > 0
              /\ input' = [i EXCEPT !.frames_processed = done,
                                    !.state = "EXTENSION_STARTED"]
              /\ hash' = h
              /\ UNCHANGED full
           \/ /\ done = i.frames_count /\ i.ext = 0
              /\ input' = [i EXCEPT !.frames_processed = done, !.state = "FINISHED"]
              /\ input_finished(ReadEmptyExtension(h))

ExtensionSizeOK(ext) == ext # 1 /\ ext =< MAX_TX_DATA_PART_LEN

NewInput(id, frames, ext) ==
    [state |-> "FRAMES_STARTED", box_id |-> id, frames_count |-> frames,
     frames_processed |-> 0, ext |-> ext]

\* A frame is the next one of input i.
NextFrame(i, id, index) ==
    /\ i.state = "FRAMES_STARTED" /\ i.box_id = id
    /\ index < i.frames_count /\ index = i.frames_processed

\* A frame with index 0 starts an input and is its first frame.
input_frame_first(id, frames, ext, fresh, valid) ==
    LET i == NewInput(id, frames, ext)
    IN  Handled(/\ valid /\ op \in {"TX_STARTED", "INPUTS_STARTED"}
                /\ full.state = "INPUTS_STARTED" /\ input.state = "FINISHED"
                /\ full.inputs_count # 0 /\ ExtensionSizeOK(ext)
                /\ NextFrame(i, id, 0)
                /\ RoomFor(fresh),
                /\ op' = "INPUTS_STARTED"
                /\ FrameAdded(i, fresh)
                /\ UNCHANGED <<box, output, blind, seen>>)

\* Any other frame continues the open input.
input_frame_next(id, index, fresh, valid) ==
    Handled(/\ valid /\ op = "INPUTS_STARTED" /\ full.state = "INPUTS_STARTED"
            /\ NextFrame(input, id, index)
            /\ RoomFor(fresh),
            /\ FrameAdded(input, fresh)
            /\ UNCHANGED <<op, box, output, blind, seen>>)

input_context_extension(n, valid) ==
    LET h == ReadExtension(hash, n)
    IN  Handled(/\ valid /\ op = "INPUTS_STARTED" /\ full.state = "INPUTS_STARTED"
                /\ input.state = "EXTENSION_STARTED" /\ n =< input.ext,
                /\ \/ /\ n < input.ext
                      /\ input' = [input EXCEPT !.ext = input.ext - n]
                      /\ hash' = h
                      /\ UNCHANGED full
                   \/ /\ n = input.ext
                      /\ input' = [input EXCEPT !.ext = 0, !.state = "FINISHED"]
                      /\ input_finished(h)
                /\ UNCHANGED <<op, table, box, output, blind, seen>>)

data_inputs(n, valid) ==
    LET h == ReadDataIds(hash, n)
    IN  Handled(/\ valid /\ op = "INPUTS_STARTED" /\ full.state = "DATA_INPUTS_STARTED"
                /\ n =< full.data_inputs_count,
                /\ \/ /\ n < full.data_inputs_count
                      /\ full' = [full EXCEPT !.data_inputs_count = full.data_inputs_count - n]
                      /\ hash' = h
                   \/ n = full.data_inputs_count /\ data_inputs_finished(h)
                /\ UNCHANGED <<op, table, input, box, output, blind, seen>>)

----------------------------------------------------------------------------
(* 0x15 output header; 0x16 tree chunk, 0x17 fee tree, 0x18 change tree,   *)
(* 0x19 tokens, 0x1A registers                                             *)

\* ergo_tx_serializer_box_init, then the callbacks and the output description.
output_init(tree, toks, regs, valid) ==
    /\ Promised("finish_box", op = "OUTPUTS_STARTED" => box.state = "FINISHED")
    /\ Handled(/\ valid /\ op \in {"INPUTS_STARTED", "OUTPUTS_STARTED"}
               /\ full.state = "OUTPUTS_STARTED" /\ full.outputs_count # 0
               /\ toks =< TOKEN_MAX_COUNT
               /\ tree =< MAX_TX_DATA_PART_LEN /\ regs =< MAX_TX_DATA_PART_LEN,
               /\ op' = "OUTPUTS_STARTED"
               /\ box' = [state |-> "INITIALIZED", tree |-> tree, tokens |-> toks,
                          regs |-> regs]
               /\ output' = ZeroOutput
               /\ hash' = ReadValue(hash, tree, regs)
               /\ seen' = [seen EXCEPT !.begun = seen.begun + 1]
               /\ UNCHANGED <<full, table, input, blind>>)

\* is_blind_signing_tx
IsScript(type) == type \notin {"BIP32", "ADDRESS", "MINERS_FEE"}

\* stx_operation_p2pk_should_show_output_confirm_screen, for a finished output.
\* auto: the change path is one that is approved without asking.
NeedsScreen(o, auto) ==
    /\ o.type = "MINERS_FEE" => o.used
    /\ o.type = "BIP32" => ~auto

\* Mutant: the flag follows the last output shown instead of any.
BlindAfter_last(o) == IsScript(o.type)

\* ui_stx_operation_p2pk_show_output_confirm_screen sets the flag and never
\* clears it.
BlindAfter(o) == blind \/ IsScript(o.type)

\* Mutant: an output is shown as soon as its tree is known.
ShowIfNeeded_early(o, auto) ==
    LET shows == o.tree_set /\ NeedsScreen(o, auto)
    IN  /\ blind' = IF shows THEN BlindAfter(o) ELSE blind
        /\ seen' = [seen EXCEPT !.shown  = IF shows THEN seen.shown + 1 ELSE seen.shown,
                                !.exempt = IF o.tree_set /\ ~shows THEN seen.exempt + 1
                                                                   ELSE seen.exempt,
                                !.script = seen.script \/ (o.tree_set /\ IsScript(o.type))]

\* show_output_screen_if_needed, with o the output description as it now is.  A
\* script counts as shown: on BAGL with the setting off that is the warning
\* instead of its pages (ErgoApp has which).
ShowIfNeeded(o, auto) ==
    LET finished == o.tree_set /\ o.finished
        shows    == finished /\ NeedsScreen(o, auto)
    IN  /\ blind' = IF shows THEN BlindAfter(o) ELSE blind
        /\ seen' = [seen EXCEPT !.shown  = IF shows THEN seen.shown + 1 ELSE seen.shown,
                                !.exempt = IF finished /\ ~shows THEN seen.exempt + 1
                                                                 ELSE seen.exempt,
                                !.script = seen.script \/ (o.tree_set /\ IsScript(o.type))]

\* box_finished, output_finished and CHECK_TX_FINISHED.  b, o, h: the box, the
\* output description and the reader after the output's last piece.
BoxFinished(b, o, h, auto) ==
    /\ box' = [b EXCEPT !.state = "FINISHED"]
    /\ output' = [o EXCEPT !.finished = TRUE]
    /\ hash' = h
    /\ full' = [full EXCEPT !.outputs_count = full.outputs_count - 1,
                            !.state = IF full.outputs_count = 1 THEN "FINISHED"
                                                                ELSE full.state]
    /\ op' = IF full.outputs_count = 1 THEN "TX_FINISHED" ELSE op
    /\ ShowIfNeeded([o EXCEPT !.finished = TRUE], auto)

\* The output is not complete yet.
BoxContinues(b, o, h) ==
    /\ box' = b /\ output' = o /\ hash' = h
    /\ ShowIfNeeded(o, FALSE)
    /\ UNCHANGED <<full, op>>

\* ergo_tree_added; h: the reader after the tree.
AfterTree(b, o, h, auto) ==
    LET h1 == ReadTokensCount(ReadHeight(h), b.tokens)
    IN  \/ b.tokens > 0 /\ BoxContinues([b EXCEPT !.state = "TREE_ADDED"], o, h1)
        \/ /\ b.tokens = 0 /\ b.regs > 0
           /\ BoxContinues([b EXCEPT !.state = "TOKENS_ADDED"], o, h1)
        \/ /\ b.tokens = 0 /\ b.regs = 0
           /\ BoxFinished(b, o, ReadNoRegisters(h1), auto)

\* Mutant: a fee or change tree is accepted after chunks of another tree.
OwnTreeFits_any(type) == TRUE

\* stx_output_info_set_fee and _set_bip32 need an output without a tree.
OwnTreeFits(type) == type = "UNKNOWN"

\* ergo_tx_serializer_box_add_miners_fee_tree and _add_change_tree, then the
\* output description.
OwnTree(type, auto, valid) ==
    Handled(/\ valid /\ op = "OUTPUTS_STARTED" /\ full.state = "OUTPUTS_STARTED"
            /\ box.state = "INITIALIZED" /\ OwnTreeFits(output.type),
            /\ AfterTree(box, [output EXCEPT !.type = type, !.tree_set = TRUE],
                         ReadOwnTree(hash), auto)
            /\ UNCHANGED <<table, input>>)

output_tree_fee(valid)          == OwnTree("MINERS_FEE", FALSE, valid)
output_tree_change(auto, valid) == OwnTree("BIP32", auto, valid)

\* What a chunk tells about the tree: a whole tree in one chunk may be a
\* public key or a script hash; everything else is a script.
TreeKinds(whole) == IF whole THEN {"ADDRESS", "SCRIPT_HASH", "SCRIPT"} ELSE {"SCRIPT"}

\* Mutant: the chunk is not compared with what is left of the tree.
ChunkFits_any(n) == n < box.tree => n >= MAX_DATA_CHUNK_LEN

\* Only the last chunk of a tree may be shorter than the longest possible.
ChunkFits(n) == n =< box.tree /\ (n < box.tree => n >= MAX_DATA_CHUNK_LEN)

\* n: the bytes of the chunk.
output_tree_chunk(n, kind, valid) ==
    LET last == n = box.tree
        b == [box EXCEPT !.tree = box.tree - n]
        o == [output EXCEPT !.type = kind, !.tree_set = last]
        h == ReadTree(hash, n)
    IN  /\ Promised("announced_tree", box.state = "INITIALIZED" => box.tree > 0)
        /\ kind \in TreeKinds(output.type = "UNKNOWN" /\ last)
        /\ Handled(/\ valid /\ op = "OUTPUTS_STARTED" /\ full.state = "OUTPUTS_STARTED"
                   /\ box.state = "INITIALIZED" /\ ChunkFits(n)
                   /\ output.type \in {"UNKNOWN", "SCRIPT"} /\ ~output.tree_set,
                   /\ \/ last /\ AfterTree(b, o, h, FALSE)
                      \/ ~last /\ BoxContinues(b, o, h)
                   /\ UNCHANGED <<table, input>>)

\* n tokens by their index in the table; nonzero: some value is not zero.
output_tokens(n, nonzero, auto, valid) ==
    LET b == [box EXCEPT !.tokens = box.tokens - n]
        o == [output EXCEPT !.used = output.used \/ nonzero]
        h == ReadTokens(hash, n)
    IN  /\ nonzero => n > 0
        /\ Handled(/\ valid /\ op = "OUTPUTS_STARTED" /\ full.state = "OUTPUTS_STARTED"
                   /\ box.state = "TREE_ADDED" /\ n =< box.tokens
                   /\ n > 0 => table.distinct > 0,
                   /\ \/ n < box.tokens /\ BoxContinues(b, o, h)
                      \/ /\ n = box.tokens /\ box.regs > 0
                         /\ BoxContinues([b EXCEPT !.state = "TOKENS_ADDED"], o, h)
                      \/ /\ n = box.tokens /\ box.regs = 0
                         /\ BoxFinished(b, o, ReadNoRegisters(h), auto)
                   /\ UNCHANGED <<table, input>>)

output_registers(n, auto, valid) ==
    LET b == [box EXCEPT !.regs = box.regs - n]
        h == ReadRegisters(hash, n)
    IN  Handled(/\ valid /\ op = "OUTPUTS_STARTED" /\ full.state = "OUTPUTS_STARTED"
                /\ box.state = "TOKENS_ADDED" /\ n =< box.regs,
                /\ \/ n < box.regs /\ BoxContinues(b, output, h)
                   \/ n = box.regs /\ BoxFinished(b, output, h, auto)
                /\ UNCHANGED <<table, input>>)

----------------------------------------------------------------------------
\* 0x20: the review of the whole transaction is put on the screen.
sign_confirm(valid) ==
    Handled(valid /\ op = "TX_FINISHED",
            op' = "FINALIZED"
            /\ UNCHANGED <<full, table, input, box, output, blind, hash, seen>>)

Chunk == 0..MAX_DATA_CHUNK_LEN
Items == 0..ItemsPerChunk

Init == /\ op = "NONE" /\ full = ZeroFull /\ table = ZeroTable /\ input = ZeroInput
        /\ box = ZeroBox /\ output = ZeroOutput /\ blind = FALSE
        /\ hash = NewReader /\ seen = NothingSeen

UploadInputs(valid) ==
    \/ \E ins, datas, outs \in Counts, toks \in TokenCounts :
            start_tx(ins, datas, toks, outs, valid)
    \/ \E n \in Items : add_tokens(n, valid) \/ data_inputs(n, valid)
    \/ \E id \in BoxIds, frames \in FrameCounts, ext \in Sizes, fresh \in Items :
            input_frame_first(id, frames, ext, fresh, valid)
    \/ \E id \in BoxIds, index \in FrameCounts \ {0}, fresh \in Items :
            input_frame_next(id, index, fresh, valid)
    \/ \E n \in Chunk : input_context_extension(n, valid)

UploadOutputs(valid) ==
    \/ \E tree, regs \in Sizes, toks \in TokenCounts : output_init(tree, toks, regs, valid)
    \/ \E n \in Chunk, kind \in TreeKinds(TRUE) : output_tree_chunk(n, kind, valid)
    \/ output_tree_fee(valid)
    \/ \E auto \in BOOLEAN :
            \/ output_tree_change(auto, valid)
            \/ \E n \in Items, nonzero \in BOOLEAN : output_tokens(n, nonzero, auto, valid)
            \/ \E n \in Chunk : output_registers(n, auto, valid)

Next == \/ session_ends
        \/ \E valid \in BOOLEAN : \/ sign_init(valid)
                                 \/ UploadInputs(valid)
                                 \/ UploadOutputs(valid)
                                 \/ sign_confirm(valid)

Spec == Init /\ [][Next]_vars

\* A host that wants the transaction signed: commands that are accepted, in one
\* session, and tokens in an output only if the transaction has some.
Upload == /\ Next
          /\ op' # "NONE" /\ (op' = "INITIALIZED" => op = "NONE")
          /\ box'.tokens > 0 => table.distinct > 0

UploadSpec == Init /\ [][Upload]_vars /\ WF_vars(Upload)

----------------------------------------------------------------------------
(* Properties                                                              *)

OpStates == {"NONE", "INITIALIZED", "TX_STARTED", "INPUTS_STARTED", "OUTPUTS_STARTED",
             "TX_FINISHED", "FINALIZED"}
Fulls   == [state : {"TOKENS_STARTED", "INPUTS_STARTED", "DATA_INPUTS_STARTED",
                     "OUTPUTS_STARTED", "FINISHED"},
            inputs_count : Nat, data_inputs_count : Nat, outputs_count : Nat]
Tables  == [distinct : Nat, count : Nat]
Inputs  == [state : {"FRAMES_STARTED", "EXTENSION_STARTED", "FINISHED"},
            box_id : BoxIds \cup {0}, frames_count : Nat, frames_processed : Nat,
            ext : Nat]
Boxes   == [state : {"INITIALIZED", "TREE_ADDED", "TOKENS_ADDED", "FINISHED"},
            tree : Nat, tokens : Nat, regs : Nat]
Outputs == [type : {"UNKNOWN", "BIP32", "ADDRESS", "SCRIPT", "SCRIPT_HASH", "MINERS_FEE"},
            tree_set : BOOLEAN, finished : BOOLEAN, used : BOOLEAN]
Views   == [begun : Nat, shown : Nat, exempt : Nat, script : BOOLEAN]

\* Every variable has its type (the enumerators and counters of the structs);
\* no counter of the serializer wraps below zero.
TypeOK == /\ op \in OpStates
          /\ full \in Fulls /\ table \in Tables /\ input \in Inputs
          /\ box \in Boxes /\ output \in Outputs
          /\ blind \in BOOLEAN /\ hash \in Readers /\ seen \in Views

Complete == op \in {"TX_FINISHED", "FINALIZED"}

\* What the operation lets the user sign is a whole transaction: the message
\* in tx_hash ends where the last announced output ends.
SignsTransaction == Complete => hash.at = "end"

\* If the host keeps both promises of Promised, but otherwise sends any
\* sub-commands in any order and chunks, what the serializer has hashed so far
\* is a prefix of a well-formed transaction with the announced counts and sizes,
\* and a whole one when it comes to signing.
HashFollowsFormat == hash.at # "broken" /\ SignsTransaction

\* Each output whose header was hashed is put on the screen (a script, on BAGL,
\* perhaps only as the blind signing warning) or found exempt (a
\* fee without tokens, a change of this wallet) exactly once before the
\* operation lets the user sign: show_output_screen_if_needed, called from five
\* handlers, catches the one that completes the output.
EveryOutputReviewed ==
    /\ seen.shown + seen.exempt =< seen.begun
    /\ Complete => seen.shown + seen.exempt = seen.begun

\* A transaction with an output to a script carries blind_signing_required when
\* it comes to signing, whatever its other outputs are.
ScriptsNeedBlindSigning == Complete /\ seen.script => blind

\* The token table: inputs are accepted only after every announced id was
\* received, so that ergo_tx_serializer_table_hash reads entries that were
\* written; and the tokens found in input frames never run past its end.
TableHolds ==
    /\ table.count =< TOKEN_MAX_COUNT /\ table.distinct =< TOKEN_MAX_COUNT
    /\ full.state # "TOKENS_STARTED" => table.distinct =< table.count

\* No accepted prefix of an upload is a dead end: a host that goes on sending
\* parts that fit gets to the confirmation, for all sizes within the limits.
UploadCompletes == (op = "INITIALIZED") ~> (op = "FINALIZED")
============================================================================
