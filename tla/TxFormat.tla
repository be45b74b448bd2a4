------------------------------ MODULE TxFormat ------------------------------
(***************************************************************************)
(* The message an Ergo signature is about: the serialized transaction,     *)
(* without proofs.  It is given as a reader that is fed the pieces in the  *)
(* order in which the device hashes them and knows, from what it has read  *)
(* so far, which piece must come next; a piece that does not fit breaks    *)
(* it for good.  SignTx feeds it every blake2b_update on tx_hash.          *)
(*                                                                         *)
(*   transaction = inputs count, inputs, data inputs count, data inputs,   *)
(*                 token table, outputs count, outputs                     *)
(*   input       = box id, empty proof, context extension                  *)
(*   output      = value, tree, height, tokens count, tokens, registers    *)
(*                                                                         *)
(* Sizes the bytes themselves do not tell the model (of an extension, a    *)
(* tree, registers) are the ones announced with the piece before.          *)
(***************************************************************************)
EXTENDS Naturals

\* at: the piece expected next; ins, datas, outs, toks: how many inputs, data
\* inputs, outputs and tokens of the open output are still to come; bytes:
\* what is left of the extension or tree; regs: what is left of registers.
Places == {"ins", "box_id", "proof", "ext", "data_count", "data", "table", "outs",
           "value", "tree", "tree_rest", "height", "tok_count", "tokens", "regs",
           "end", "broken"}

Readers == [at : Places, ins : Nat, datas : Nat, outs : Nat, toks : Nat,
            bytes : Nat, regs : Nat]

Reader(at) == [at |-> at, ins |-> 0, datas |-> 0, outs |-> 0, toks |-> 0,
               bytes |-> 0, regs |-> 0]

NewReader == Reader("ins")
Broken    == Reader("broken")

ReadInputsCount(r, n) ==
    IF r.at = "ins" /\ n > 0 THEN [r EXCEPT !.at = "box_id", !.ins = n] ELSE Broken

\* ext: the announced size of the extension.  One byte is no extension: it
\* would be the count 0, which stands for the empty one.
ReadBoxId(r, ext) ==
    IF r.at = "box_id" /\ ext # 1 THEN [r EXCEPT !.at = "proof", !.bytes = ext] ELSE Broken

ReadEmptyProof(r) == IF r.at = "proof" THEN [r EXCEPT !.at = "ext"] ELSE Broken

InputDone(r) == [r EXCEPT !.at = IF r.ins = 1 THEN "data_count" ELSE "box_id",
                          !.ins = r.ins - 1, !.bytes = 0]

ReadEmptyExtension(r) == IF r.at = "ext" /\ r.bytes = 0 THEN InputDone(r) ELSE Broken

ReadExtension(r, n) ==
    IF r.at # "ext" \/ r.bytes = 0 \/ n > r.bytes THEN Broken
    ELSE IF n = r.bytes THEN InputDone(r) ELSE [r EXCEPT !.bytes = r.bytes - n]

ReadDataCount(r, n) ==
    IF r.at # "data_count" THEN Broken
    ELSE [r EXCEPT !.at = IF n = 0 THEN "table" ELSE "data", !.datas = n]

ReadDataIds(r, n) ==
    IF r.at # "data" \/ n > r.datas THEN Broken
    ELSE [r EXCEPT !.at = IF n = r.datas THEN "table" ELSE "data",
                   !.datas = r.datas - n]

\* The distinct ids and their number; every one of them must have been given.
ReadTable(r, distinct, given) ==
    IF r.at = "table" /\ distinct =< given THEN [r EXCEPT !.at = "outs"] ELSE Broken

ReadOutputsCount(r, n) ==
    IF r.at = "outs" /\ n > 0 THEN [r EXCEPT !.at = "value", !.outs = n] ELSE Broken

\* tree, regs: the announced sizes of the tree and of the registers.
ReadValue(r, tree, regs) ==
    IF r.at = "value" THEN [r EXCEPT !.at = "tree", !.bytes = tree, !.regs = regs]
    ELSE Broken

\* n bytes of the announced tree: a tree is never empty.
ReadTree(r, n) ==
    IF r.at \notin {"tree", "tree_rest"} \/ n = 0 \/ n > r.bytes THEN Broken
    ELSE [r EXCEPT !.at = IF n = r.bytes THEN "height" ELSE "tree_rest",
                   !.bytes = r.bytes - n]

\* A complete tree the device wrote itself, instead of an announced one.
ReadOwnTree(r) ==
    IF r.at = "tree" THEN [r EXCEPT !.at = "height", !.bytes = 0] ELSE Broken

ReadHeight(r) == IF r.at = "height" THEN [r EXCEPT !.at = "tok_count"] ELSE Broken

ReadTokensCount(r, n) ==
    IF r.at # "tok_count" THEN Broken
    ELSE [r EXCEPT !.at = IF n = 0 THEN "regs" ELSE "tokens", !.toks = n]

ReadTokens(r, n) ==
    IF r.at # "tokens" \/ n > r.toks THEN Broken
    ELSE [r EXCEPT !.at = IF n = r.toks THEN "regs" ELSE "tokens", !.toks = r.toks - n]

OutputDone(r) == [r EXCEPT !.at = IF r.outs = 1 THEN "end" ELSE "value",
                           !.outs = r.outs - 1, !.regs = 0]

ReadNoRegisters(r) == IF r.at = "regs" /\ r.regs = 0 THEN OutputDone(r) ELSE Broken

ReadRegisters(r, n) ==
    IF r.at # "regs" \/ r.regs = 0 \/ n > r.regs THEN Broken
    ELSE IF n = r.regs THEN OutputDone(r) ELSE [r EXCEPT !.regs = r.regs - n]
============================================================================
