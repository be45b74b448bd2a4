---------------------------- MODULE SignTxProofs ----------------------------
(***************************************************************************)
(* Proofs about SignTx for all counts, sizes and limits.  The counters the *)
(* serializer keeps are tied to the reader of what it hashed, phase by     *)
(* phase; the properties follow from that tie.                             *)
(***************************************************************************)
EXTENDS SignTx, TLAPS

\* The host keeps both promises the code relies on.
SafeHost == "finish_box" \in Promises /\ "announced_tree" \in Promises

Awaited == full.inputs_count > 0 /\ full.outputs_count > 0

\* No upload under way: the zeroed context.
Blank ==
    /\ op \in {"NONE", "INITIALIZED"}
    /\ full = ZeroFull /\ table = ZeroTable /\ input = ZeroInput /\ box = ZeroBox
    /\ output = ZeroOutput /\ blind = FALSE /\ hash = NewReader /\ seen = NothingSeen

InTokens ==
    /\ op = "TX_STARTED" /\ full.state = "TOKENS_STARTED" /\ Awaited
    /\ hash.at = "box_id" /\ hash.ins = full.inputs_count
    /\ seen = NothingSeen

InInputs ==
    /\ op \in {"TX_STARTED", "INPUTS_STARTED"} /\ full.state = "INPUTS_STARTED" /\ Awaited
    /\ hash.ins = full.inputs_count
    /\ seen = NothingSeen
    /\ \/ input.state = "FINISHED" /\ hash.at = "box_id"
       \/ /\ input.state = "FRAMES_STARTED" /\ hash.at = "box_id"
          /\ input.ext # 1 /\ input.frames_processed < input.frames_count
       \/ /\ input.state = "EXTENSION_STARTED" /\ hash.at = "ext"
          /\ hash.bytes = input.ext /\ input.ext > 0

InData ==
    /\ op = "INPUTS_STARTED" /\ full.state = "DATA_INPUTS_STARTED"
    /\ full.outputs_count > 0 /\ full.data_inputs_count > 0
    /\ hash.at = "data" /\ hash.datas = full.data_inputs_count
    /\ seen = NothingSeen

OutputsAwaited == /\ full.state = "OUTPUTS_STARTED"
                  /\ full.outputs_count > 0 /\ hash.outs = full.outputs_count

BeforeOutputs == /\ op = "INPUTS_STARTED" /\ OutputsAwaited
                 /\ hash.at = "value" /\ seen = NothingSeen

\* An output under way - its box b, description o - and how far a reader h of
\* what was hashed is with it.
TreeAwaited(b, o, h) ==
    /\ b.state = "INITIALIZED" /\ ~o.tree_set /\ ~o.finished
    /\ h.bytes = b.tree /\ h.regs = b.regs
    /\ \/ h.at = "tree" /\ o.type = "UNKNOWN"
       \/ h.at = "tree_rest" /\ o.type = "SCRIPT"

TokensAwaited(b, o, h) ==
    /\ b.state = "TREE_ADDED" /\ o.tree_set /\ ~o.finished
    /\ h.at = "tokens" /\ h.toks = b.tokens /\ b.tokens > 0 /\ h.regs = b.regs

RegistersAwaited(b, o, h) ==
    /\ b.state = "TOKENS_ADDED" /\ o.tree_set /\ ~o.finished
    /\ h.at = "regs" /\ h.regs = b.regs /\ b.regs > 0

PartAwaited(b, o, h) ==
    TreeAwaited(b, o, h) \/ TokensAwaited(b, o, h) \/ RegistersAwaited(b, o, h)

Reviewed == seen.shown + seen.exempt

\* Output o is a script whose screen has not set the flag yet.
IsScriptOutput(o) == o.tree_set /\ IsScript(o.type)

InOutput ==
    /\ op = "OUTPUTS_STARTED" /\ OutputsAwaited
    /\ seen.begun = Reviewed + 1
    /\ PartAwaited(box, output, hash)
    /\ seen.script => blind \/ IsScriptOutput(output)

BetweenOutputs ==
    /\ op = "OUTPUTS_STARTED" /\ OutputsAwaited
    /\ box.state = "FINISHED" /\ hash.at = "value"
    /\ seen.begun = Reviewed /\ (seen.script => blind)

Done ==
    /\ Complete /\ full.state = "FINISHED" /\ hash.at = "end"
    /\ seen.begun = Reviewed /\ (seen.script => blind)

Phase == Blank \/ InTokens \/ InInputs \/ InData \/ BeforeOutputs
         \/ InOutput \/ BetweenOutputs \/ Done

IInv == TypeOK /\ TableHolds /\ Phase
----------------------------------------------------------------------------
(* The reader                                                              *)

\* What the reader is after the pieces a handler hashes, when they fit: the id
\* and empty proof of an input, an input done, the data inputs count, the table
\* with the outputs count, the height with the tokens count, an output done.
LEMMA ReadInputHead ==
    ASSUME NEW r \in Readers, r.at = "box_id", NEW ext \in Nat, ext # 1,
           NEW h, h = ReadEmptyProof(ReadBoxId(r, ext))
    PROVE  h \in Readers /\ h.at = "ext" /\ h.bytes = ext /\ h.ins = r.ins
<1> DEFINE g == ReadBoxId(r, ext)
<1>1. g \in Readers /\ g.at = "proof" /\ g.bytes = ext /\ g.ins = r.ins
  BY DEF Readers, Places, ReadBoxId
<1> HIDE DEF g
<1>2. h = ReadEmptyProof(g)
  BY DEF g
<1> QED
  BY <1>1, <1>2 DEF Readers, Places, ReadEmptyProof

LEMMA InputDoneIs ==
    ASSUME NEW r \in Readers, r.ins > 0, NEW h, h = InputDone(r)
    PROVE  /\ h \in Readers /\ h.ins = r.ins - 1
           /\ r.ins = 1 => h.at = "data_count"
           /\ r.ins > 1 => h.at = "box_id"
<1> DEFINE next == IF r.ins = 1 THEN "data_count" ELSE "box_id"
           left == r.ins - 1
<1>1. r.ins \in Nat /\ left \in Nat
  BY DEF Readers
<1>2. next \in Places
  BY DEF Places
<1>3. (r.ins = 1 => next = "data_count") /\ (r.ins > 1 => next = "box_id")
  BY <1>1
<1>4. h = [r EXCEPT !.at = next, !.ins = left, !.bytes = 0]
  BY DEF InputDone
<1> HIDE DEF next, left
<1>5. [r EXCEPT !.at = next, !.ins = left, !.bytes = 0] \in Readers
  BY <1>1, <1>2 DEF Readers
<1>6. h.at = next /\ h.ins = left
  BY <1>4 DEF Readers
<1> QED
  BY <1>3, <1>4, <1>5, <1>6 DEF left

LEMMA ReadDataCountIs ==
    ASSUME NEW r \in Readers, r.at = "data_count", NEW n \in Nat,
           NEW h, h = ReadDataCount(r, n)
    PROVE  /\ h \in Readers /\ h.datas = n
           /\ n = 0 => h.at = "table"
           /\ n > 0 => h.at = "data"
<1> DEFINE next == IF n = 0 THEN "table" ELSE "data"
<1>1. next \in Places /\ (n = 0 => next = "table") /\ (n > 0 => next = "data")
  BY DEF Places
<1>2. h = [r EXCEPT !.at = next, !.datas = n]
  BY DEF ReadDataCount
<1> HIDE DEF next
<1>3. h \in Readers
  BY <1>1, <1>2 DEF Readers
<1>4. h.at = next /\ h.datas = n
  BY <1>2 DEF Readers
<1> QED
  BY <1>1, <1>3, <1>4

LEMMA ReadDataIdsIs ==
    ASSUME NEW r \in Readers, r.at = "data", NEW n \in Nat, n =< r.datas,
           NEW h, h = ReadDataIds(r, n)
    PROVE  /\ h \in Readers /\ h.datas = r.datas - n
           /\ n = r.datas => h.at = "table"
           /\ n < r.datas => h.at = "data"
<1> DEFINE next == IF n = r.datas THEN "table" ELSE "data"
<1>1. r.datas \in Nat /\ r.datas - n \in Nat
  BY DEF Readers
<1>2. next \in Places
  BY DEF Places
<1>3. (n = r.datas => next = "table") /\ (n < r.datas => next = "data")
  BY <1>1
<1>4. h = [r EXCEPT !.at = next, !.datas = r.datas - n]
  BY <1>1 DEF ReadDataIds
<1> HIDE DEF next
<1>5. h \in Readers
  BY <1>1, <1>2, <1>4 DEF Readers
<1>6. h.at = next /\ h.datas = r.datas - n
  BY <1>4 DEF Readers
<1> QED
  BY <1>3, <1>5, <1>6

LEMMA ReadTableAndCount ==
    ASSUME NEW r \in Readers, r.at = "table", NEW d \in Nat, NEW g \in Nat, d =< g,
           NEW n \in Nat, n > 0, NEW h, h = ReadOutputsCount(ReadTable(r, d, g), n)
    PROVE  h \in Readers /\ h.at = "value" /\ h.outs = n
<1> DEFINE t == ReadTable(r, d, g)
<1>1. t \in Readers /\ t.at = "outs"
  BY DEF Readers, Places, ReadTable
<1> HIDE DEF t
<1>2. h = ReadOutputsCount(t, n)
  BY DEF t
<1> QED
  BY <1>1, <1>2 DEF Readers, Places, ReadOutputsCount

LEMMA ReadHeightAndCount ==
    ASSUME NEW r \in Readers, r.at = "height", NEW n \in Nat,
           NEW h, h = ReadTokensCount(ReadHeight(r), n)
    PROVE  /\ h \in Readers /\ h.toks = n /\ h.regs = r.regs /\ h.outs = r.outs
           /\ n = 0 => h.at = "regs"
           /\ n > 0 => h.at = "tokens"
<1> DEFINE t    == ReadHeight(r)
           next == IF n = 0 THEN "regs" ELSE "tokens"
<1>1. t \in Readers /\ t.at = "tok_count" /\ t.regs = r.regs /\ t.outs = r.outs
  BY DEF Readers, Places, ReadHeight
<1>2. next \in Places /\ (n = 0 => next = "regs") /\ (n > 0 => next = "tokens")
  BY DEF Places
<1> HIDE DEF t
<1>3. h = [t EXCEPT !.at = next, !.toks = n]
  BY <1>1 DEF t, ReadTokensCount
<1> HIDE DEF next
<1>4. h \in Readers
  BY <1>1, <1>2, <1>3 DEF Readers
<1>5. h.at = next /\ h.toks = n /\ h.regs = t.regs /\ h.outs = t.outs
  BY <1>1, <1>3 DEF Readers
<1> QED
  BY <1>1, <1>2, <1>4, <1>5

LEMMA ReadTokensIs ==
    ASSUME NEW r \in Readers, r.at = "tokens", NEW n \in Nat, n =< r.toks,
           NEW h, h = ReadTokens(r, n)
    PROVE  /\ h \in Readers /\ h.toks = r.toks - n /\ h.regs = r.regs /\ h.outs = r.outs
           /\ n = r.toks => h.at = "regs"
           /\ n < r.toks => h.at = "tokens"
<1> DEFINE next == IF n = r.toks THEN "regs" ELSE "tokens"
<1>1. r.toks \in Nat /\ r.toks - n \in Nat
  BY DEF Readers
<1>2. next \in Places
  BY DEF Places
<1>3. (n = r.toks => next = "regs") /\ (n < r.toks => next = "tokens")
  BY <1>1
<1>4. h = [r EXCEPT !.at = next, !.toks = r.toks - n]
  BY <1>1 DEF ReadTokens
<1> HIDE DEF next
<1>5. h \in Readers
  BY <1>1, <1>2, <1>4 DEF Readers
<1>6. h.at = next /\ h.toks = r.toks - n /\ h.regs = r.regs /\ h.outs = r.outs
  BY <1>4 DEF Readers
<1> QED
  BY <1>3, <1>5, <1>6

LEMMA ReadTreeIs ==
    ASSUME NEW r \in Readers, r.at \in {"tree", "tree_rest"}, NEW n \in Nat, n # 0,
           n =< r.bytes, NEW h, h = ReadTree(r, n)
    PROVE  /\ h \in Readers /\ h.bytes = r.bytes - n /\ h.regs = r.regs /\ h.outs = r.outs
           /\ n = r.bytes => h.at = "height"
           /\ n < r.bytes => h.at = "tree_rest"
<1> DEFINE next == IF n = r.bytes THEN "height" ELSE "tree_rest"
<1>1. r.bytes \in Nat /\ r.bytes - n \in Nat
  BY DEF Readers
<1>2. next \in Places
  BY DEF Places
<1>3. (n = r.bytes => next = "height") /\ (n < r.bytes => next = "tree_rest")
  BY <1>1
<1>4. h = [r EXCEPT !.at = next, !.bytes = r.bytes - n]
  BY <1>1 DEF ReadTree
<1> HIDE DEF next
<1>5. h \in Readers
  BY <1>1, <1>2, <1>4 DEF Readers
<1>6. h.at = next /\ h.bytes = r.bytes - n /\ h.regs = r.regs /\ h.outs = r.outs
  BY <1>4 DEF Readers
<1> QED
  BY <1>3, <1>5, <1>6

LEMMA OutputDoneIs ==
    ASSUME NEW r \in Readers, r.outs > 0, NEW h, h = OutputDone(r)
    PROVE  /\ h \in Readers /\ h.outs = r.outs - 1
           /\ r.outs = 1 => h.at = "end"
           /\ r.outs > 1 => h.at = "value"
<1> DEFINE next == IF r.outs = 1 THEN "end" ELSE "value"
           left == r.outs - 1
<1>1. r.outs \in Nat /\ left \in Nat
  BY DEF Readers
<1>2. next \in Places
  BY DEF Places
<1>3. (r.outs = 1 => next = "end") /\ (r.outs > 1 => next = "value")
  BY <1>1
<1>4. h = [r EXCEPT !.at = next, !.outs = left, !.regs = 0]
  BY DEF OutputDone
<1> HIDE DEF next, left
<1>5. [r EXCEPT !.at = next, !.outs = left, !.regs = 0] \in Readers
  BY <1>1, <1>2 DEF Readers
<1>6. h.at = next /\ h.outs = left
  BY <1>4 DEF Readers
<1> QED
  BY <1>3, <1>4, <1>5, <1>6 DEF left

----------------------------------------------------------------------------
(* The steps of the session                                                *)

\* The zeroed context has its types.
LEMMA ZeroTypes ==
    /\ ZeroFull \in Fulls /\ ZeroTable \in Tables /\ ZeroInput \in Inputs
    /\ ZeroBox \in Boxes /\ ZeroOutput \in Outputs
    /\ NewReader \in Readers /\ NothingSeen \in Views
<1>1. ZeroFull \in Fulls /\ ZeroTable \in Tables /\ ZeroInput \in Inputs
  BY DEF ZeroFull, Fulls, ZeroTable, Tables, ZeroInput, Inputs
<1>2. ZeroBox \in Boxes /\ ZeroOutput \in Outputs
  BY DEF ZeroBox, Boxes, ZeroOutput, Outputs
<1>3. NewReader \in Readers /\ NothingSeen \in Views
  BY DEF NewReader, Reader, Readers, Places, NothingSeen, Views
<1> QED
  BY <1>1, <1>2, <1>3

LEMMA ZeroTableHolds ==
    ASSUME NEW f, NEW t, f = ZeroFull, t = ZeroTable
    PROVE  /\ t.count =< TOKEN_MAX_COUNT /\ t.distinct =< TOKEN_MAX_COUNT
           /\ f.state = "TOKENS_STARTED"
  BY SignTxAssumption DEF ZeroFull, ZeroTable

\* A failed check ends the session with the context zeroed.
LEMMA ErrorIsBlank ==
    ASSUME handler_err
    PROVE  IInv'
<1> USE DEF handler_err, Zeroed
<1>1. Blank'
  BY DEF Blank
<1>2. TypeOK'
  BY ZeroTypes DEF TypeOK, OpStates
<1>3. TableHolds'
  BY ZeroTableHolds DEF TableHolds
<1> QED
  BY <1>1, <1>2, <1>3 DEF IInv, Phase

LEMMA InitHolds == Init => IInv
<1> SUFFICES ASSUME Init PROVE IInv
  OBVIOUS
<1> USE DEF Init
<1>1. Blank
  BY DEF Blank
<1>2. TypeOK
  BY ZeroTypes DEF TypeOK, OpStates
<1>3. TableHolds
  BY ZeroTableHolds DEF TableHolds
<1> QED
  BY <1>1, <1>2, <1>3 DEF IInv, Phase

LEMMA InitStep ==
    ASSUME NEW valid \in BOOLEAN, sign_init(valid)
    PROVE  IInv'
<1>1. CASE handler_err
  BY <1>1, ErrorIsBlank
<1>2. CASE op' = "INITIALIZED" /\ Zeroed
  <2> USE <1>2 DEF Zeroed
  <2>1. Blank'
    BY DEF Blank
  <2>2. TypeOK'
    BY ZeroTypes DEF TypeOK, OpStates
  <2>3. TableHolds'
    BY ZeroTableHolds DEF TableHolds
  <2> QED
    BY <2>1, <2>2, <2>3 DEF IInv, Phase
<1> QED
  BY <1>1, <1>2 DEF sign_init, Handled

LEMMA StartStep ==
    ASSUME IInv, NEW ins \in Counts, NEW datas \in Counts, NEW toks \in TokenCounts,
           NEW outs \in Counts, NEW valid \in BOOLEAN,
           start_tx(ins, datas, toks, outs, valid)
    PROVE  IInv'
<1>1. CASE handler_err
  BY <1>1, ErrorIsBlank
<1>2. CASE ~handler_err
  <2> USE <1>2 DEF start_tx, Handled
  <2>1. Blank /\ ins # 0 /\ outs # 0 /\ toks =< TOKEN_MAX_COUNT /\ op = "INITIALIZED"
    BY DEF IInv, Phase, InTokens, InInputs, InData, BeforeOutputs, InOutput,
           BetweenOutputs, Done, Complete, CountsOK
  <2>2. ins \in Nat /\ datas \in Nat /\ toks \in Nat /\ outs \in Nat
    BY SignTxAssumption
  <2>3. hash' = [NewReader EXCEPT !.at = "box_id", !.ins = ins]
    BY <2>1, <2>2 DEF Blank, ReadInputsCount, NewReader, Reader
  <2>4. TypeOK'
    <3>1. full' \in Fulls /\ table' \in Tables
      BY <2>2 DEF Fulls, Tables
    <3>2. input' \in Inputs
      BY ZeroTypes DEF ZeroInput, Inputs
    <3>3. hash' \in Readers
      BY <2>2, <2>3 DEF NewReader, Reader, Readers, Places
    <3> QED
      BY <3>1, <3>2, <3>3 DEF IInv, TypeOK, OpStates
  <2>6. TableHolds'
    BY <2>1, <2>2, SignTxAssumption DEF TableHolds
  <2>5. InTokens' \/ InInputs'
    BY <2>1, <2>2, <2>3 DEF Blank, InTokens, InInputs, Awaited, NewReader, Reader, ZeroInput
  <2> QED
    BY <2>4, <2>5, <2>6 DEF IInv, Phase
<1> QED
  BY <1>1, <1>2

LEMMA TokensStep ==
    ASSUME IInv, NEW n \in Items, NEW valid \in BOOLEAN, add_tokens(n, valid)
    PROVE  IInv'
<1>1. CASE handler_err
  BY <1>1, ErrorIsBlank
<1>2. CASE ~handler_err
  <2> USE <1>2 DEF add_tokens, Handled
  <2>1. InTokens /\ table.count + n =< table.distinct
    BY DEF IInv, Phase, Blank, InInputs, InData, BeforeOutputs, InOutput,
           BetweenOutputs, Done, Complete, OutputsAwaited
  <2>2. n \in Nat /\ TypeOK /\ TableHolds
    BY SignTxAssumption DEF Items, IInv
  <2>3. TypeOK'
    <3>1. table' \in Tables
      BY <2>2 DEF TypeOK, Tables
    <3>2. full' \in Fulls /\ input' \in Inputs
      BY <2>2 DEF TypeOK, Fulls, Inputs
    <3> QED
      BY <2>2, <3>1, <3>2 DEF TypeOK
  <2>4. TableHolds'
    BY <2>1, <2>2, SignTxAssumption DEF TypeOK, Tables, TableHolds, TableFinished
  <2>5. InTokens' \/ InInputs'
    BY <2>1, <2>2 DEF TypeOK, Fulls, Inputs, InTokens, InInputs, Awaited
  <2> QED
    BY <2>3, <2>4, <2>5 DEF IInv, Phase
<1> QED
  BY <1>1, <1>2

----------------------------------------------------------------------------
(* Inputs                                                                  *)

\* The last piece of an input leads to the next input, the data inputs or the
\* outputs, and the reader follows.
LEMMA InputFinishedStep ==
    ASSUME TypeOK, TableHolds, full.state = "INPUTS_STARTED", Awaited,
           NEW h \in Readers, h.ins = full.inputs_count - 1,
           full.inputs_count = 1 => h.at = "data_count",
           full.inputs_count > 1 => h.at = "box_id",
           table'.distinct = table.distinct, table'.count \in Nat,
           table'.count >= table.count,
           input_finished(h),
           op' = "INPUTS_STARTED", input'.state = "FINISHED", seen' = NothingSeen
    PROVE  /\ full' \in Fulls /\ hash' \in Readers
           /\ full'.state # "TOKENS_STARTED"
           /\ InInputs' \/ InData' \/ BeforeOutputs'
<1> USE DEF TypeOK, Awaited
<1>1. CASE full.inputs_count > 1
  <2>1. hash' = h /\ full' = [full EXCEPT !.inputs_count = full.inputs_count - 1]
    BY <1>1 DEF input_finished, Fulls
  <2>2. full' \in Fulls
    BY <1>1, <2>1 DEF Fulls
  <2>3. InInputs'
    BY <1>1, <2>1 DEF Fulls, InInputs
  <2> QED
    BY <2>1, <2>2, <2>3 DEF Fulls
<1>2. CASE full.inputs_count = 1 /\ full.data_inputs_count > 0
  <2>1. /\ hash' = ReadDataCount(h, full.data_inputs_count)
        /\ full' = [full EXCEPT !.state = "DATA_INPUTS_STARTED", !.inputs_count = 0]
    BY <1>2 DEF input_finished, Fulls
  <2>2. full.data_inputs_count \in Nat
    BY DEF Fulls
  <2>3. hash' \in Readers /\ hash'.at = "data" /\ hash'.datas = full.data_inputs_count
    BY <1>2, <2>1, <2>2, ReadDataCountIs
  <2>4. full' \in Fulls
    BY <2>1 DEF Fulls
  <2>5. InData'
    BY <1>2, <2>1, <2>3 DEF Fulls, InData
  <2> QED
    BY <2>1, <2>3, <2>4, <2>5 DEF Fulls
<1>3. CASE full.inputs_count = 1 /\ full.data_inputs_count = 0
  <2> DEFINE g == ReadDataCount(h, 0)
  <2>1. g \in Readers /\ g.at = "table"
    BY <1>3, ReadDataCountIs
  <2>2. data_inputs_finished(g)
    BY <1>3 DEF input_finished, Fulls
  <2> HIDE DEF g
  <2>3. /\ full.outputs_count \in Nat /\ table.distinct \in Nat /\ table.count \in Nat
        /\ table.distinct =< table.count /\ full.outputs_count > 0
    BY DEF TableHolds, Tables, Fulls
  <2>4. hash' \in Readers /\ hash'.at = "value" /\ hash'.outs = full.outputs_count
    BY <2>1, <2>2, <2>3, ReadTableAndCount DEF data_inputs_finished
  <2>5. full' = [full EXCEPT !.state = "OUTPUTS_STARTED", !.inputs_count = 0,
                             !.data_inputs_count = 0]
    BY <2>2 DEF data_inputs_finished
  <2>6. full' \in Fulls
    BY <2>5 DEF Fulls
  <2>7. BeforeOutputs'
    BY <2>3, <2>4, <2>5 DEF BeforeOutputs, OutputsAwaited, Fulls
  <2> QED
    BY <2>4, <2>5, <2>6, <2>7 DEF Fulls
<1> QED
  BY <1>1, <1>2, <1>3 DEF Fulls

\* A frame that fits keeps the tie between the counters and the reader.
LEMMA FrameStep ==
    ASSUME TypeOK, TableHolds, full.state = "INPUTS_STARTED", Awaited,
           hash.ins = full.inputs_count, hash.at = "box_id", seen = NothingSeen,
           NEW i \in Inputs, i.state = "FRAMES_STARTED", i.ext # 1,
           i.frames_processed < i.frames_count,
           NEW fresh \in Nat, RoomFor(fresh), FrameAdded(i, fresh),
           op' = "INPUTS_STARTED", UNCHANGED <<box, output, blind, seen>>
    PROVE  IInv'
<1> DEFINE done == i.frames_processed + 1
           h    == ReadEmptyProof(ReadBoxId(hash, i.ext))
<1>1. h \in Readers /\ h.at = "ext" /\ h.bytes = i.ext /\ h.ins = hash.ins
  BY ReadInputHead DEF TypeOK, Inputs
<1>2. table' = [table EXCEPT !.count = table.count + fresh]
  BY DEF FrameAdded
<1>3. table' \in Tables /\ table'.distinct = table.distinct /\ table'.count \in Nat
      /\ table'.count >= table.count /\ table'.count =< TOKEN_MAX_COUNT
  BY <1>2 DEF TypeOK, Tables, RoomFor
<1>4. done \in Nat /\ i.frames_count \in Nat /\ i.ext \in Nat /\ done =< i.frames_count
  BY DEF Inputs
<1>5. CASE done < i.frames_count
  <2>1. input' = [i EXCEPT !.frames_processed = done] /\ UNCHANGED <<full, hash>>
    BY <1>4, <1>5 DEF FrameAdded
  <2>2. input' \in Inputs
    BY <1>4, <2>1 DEF Inputs
  <2>3. InInputs'
    BY <1>4, <1>5, <2>1 DEF InInputs, Awaited, Inputs
  <2>4. TypeOK'
    BY <1>3, <2>1, <2>2 DEF TypeOK, OpStates
  <2>5. TableHolds'
    BY <1>3, <2>1, SignTxAssumption DEF TableHolds, TypeOK, Tables
  <2> QED
    BY <2>3, <2>4, <2>5 DEF IInv, Phase
<1>6. CASE done = i.frames_count /\ i.ext > 0
  <2>1. /\ input' = [i EXCEPT !.frames_processed = done, !.state = "EXTENSION_STARTED"]
        /\ hash' = h /\ full' = full
    BY <1>4, <1>6 DEF FrameAdded
  <2>2. input' \in Inputs
    BY <1>4, <2>1 DEF Inputs
  <2>3. InInputs'
    BY <1>1, <1>4, <1>6, <2>1 DEF InInputs, Awaited, Inputs
  <2>4. TypeOK'
    BY <1>1, <1>3, <2>1, <2>2 DEF TypeOK, OpStates
  <2>5. TableHolds'
    BY <1>3, <2>1, SignTxAssumption DEF TableHolds, TypeOK, Tables
  <2> QED
    BY <2>3, <2>4, <2>5 DEF IInv, Phase
<1>7. CASE done = i.frames_count /\ i.ext = 0
  <2> DEFINE g == ReadEmptyExtension(h)
  <2>1. full.inputs_count \in Nat /\ full.inputs_count > 0 /\ h.ins = full.inputs_count
    BY <1>1 DEF TypeOK, Fulls, Awaited
  <2>2. /\ g \in Readers /\ g.ins = full.inputs_count - 1
        /\ full.inputs_count = 1 => g.at = "data_count"
        /\ full.inputs_count > 1 => g.at = "box_id"
    <3> HIDE DEF h
    <3>1. g = InputDone(h)
      BY <1>1, <1>7 DEF ReadEmptyExtension
    <3> QED
      BY <1>1, <2>1, <3>1, InputDoneIs
  <2>3. input' = [i EXCEPT !.frames_processed = done, !.state = "FINISHED"]
        /\ input_finished(g)
    BY <1>4, <1>7 DEF FrameAdded
  <2>4. input' \in Inputs /\ input'.state = "FINISHED"
    BY <1>4, <2>3 DEF Inputs
  <2> HIDE DEF g
  <2>5. /\ full' \in Fulls /\ hash' \in Readers /\ full'.state # "TOKENS_STARTED"
        /\ InInputs' \/ InData' \/ BeforeOutputs'
    BY <1>3, <2>2, <2>3, <2>4, InputFinishedStep
  <2>6. TypeOK'
    BY <1>3, <2>4, <2>5 DEF TypeOK, OpStates
  <2>7. TableHolds'
    BY <1>3, <2>5, SignTxAssumption DEF TableHolds, TypeOK, Tables
  <2> QED
    BY <2>5, <2>6, <2>7 DEF IInv, Phase
<1> QED
  BY <1>4, <1>5, <1>6, <1>7

LEMMA FirstFrameStep ==
    ASSUME IInv, NEW id \in BoxIds, NEW frames \in FrameCounts, NEW ext \in Sizes,
           NEW fresh \in Items, NEW valid \in BOOLEAN,
           input_frame_first(id, frames, ext, fresh, valid)
    PROVE  IInv'
<1>1. CASE handler_err
  BY <1>1, ErrorIsBlank
<1>2. CASE ~handler_err
  <2> DEFINE i == NewInput(id, frames, ext)
  <2> USE <1>2 DEF input_frame_first, Handled
  <2>1. InInputs /\ input.state = "FINISHED" /\ hash.at = "box_id"
    BY DEF IInv, Phase, Blank, InInputs, InTokens, InData, BeforeOutputs, InOutput,
           BetweenOutputs, Done, Complete, OutputsAwaited
  <2>2. i \in Inputs /\ fresh \in Nat
    BY SignTxAssumption DEF NewInput, Inputs, Items
  <2>3. i.state = "FRAMES_STARTED" /\ i.ext # 1 /\ i.frames_processed < i.frames_count
    BY DEF NewInput, NextFrame, ExtensionSizeOK
  <2>4. /\ op' = "INPUTS_STARTED" /\ FrameAdded(i, fresh) /\ RoomFor(fresh)
        /\ UNCHANGED <<box, output, blind, seen>>
    OBVIOUS
  <2> HIDE DEF i
  <2> QED
    BY <2>1, <2>2, <2>3, <2>4, FrameStep DEF InInputs, IInv
<1> QED
  BY <1>1, <1>2

LEMMA NextFrameStep ==
    ASSUME IInv, NEW id \in BoxIds, NEW index \in FrameCounts, NEW fresh \in Items,
           NEW valid \in BOOLEAN, input_frame_next(id, index, fresh, valid)
    PROVE  IInv'
<1>1. CASE handler_err
  BY <1>1, ErrorIsBlank
<1>2. CASE ~handler_err
  <2> USE <1>2 DEF input_frame_next, Handled
  <2>1. InInputs /\ input.state = "FRAMES_STARTED"
    BY DEF IInv, Phase, Blank, InInputs, InTokens, InData, BeforeOutputs, InOutput,
           BetweenOutputs, Done, Complete, OutputsAwaited, NextFrame
  <2>2. input \in Inputs /\ fresh \in Nat
    BY SignTxAssumption DEF IInv, TypeOK, Items
  <2>3. input.ext # 1 /\ input.frames_processed < input.frames_count /\ hash.at = "box_id"
    BY <2>1 DEF InInputs
  <2>4. /\ op' = "INPUTS_STARTED" /\ FrameAdded(input, fresh) /\ RoomFor(fresh)
        /\ UNCHANGED <<box, output, blind, seen>>
    OBVIOUS
  <2> QED
    BY <2>1, <2>2, <2>3, <2>4, FrameStep DEF InInputs, IInv
<1> QED
  BY <1>1, <1>2

LEMMA ExtensionStep ==
    ASSUME IInv, NEW n \in Chunk, NEW valid \in BOOLEAN, input_context_extension(n, valid)
    PROVE  IInv'
<1>1. CASE handler_err
  BY <1>1, ErrorIsBlank
<1>2. CASE ~handler_err
  <2> DEFINE h == ReadExtension(hash, n)
  <2> USE <1>2 DEF input_context_extension, Handled
  <2>1. /\ InInputs /\ input.state = "EXTENSION_STARTED" /\ n =< input.ext
        /\ op = "INPUTS_STARTED"
    BY DEF IInv, Phase, Blank, InInputs, InTokens, InData, BeforeOutputs, InOutput,
           BetweenOutputs, Done, Complete, OutputsAwaited
  <2>2. /\ n \in Nat /\ input.ext \in Nat /\ TypeOK /\ TableHolds
        /\ input \in Inputs /\ hash \in Readers
    BY SignTxAssumption DEF Chunk, IInv, TypeOK, Inputs
  <2>3. /\ hash.at = "ext" /\ hash.bytes = input.ext /\ input.ext > 0
        /\ hash.ins = full.inputs_count /\ Awaited /\ seen = NothingSeen
        /\ full.state = "INPUTS_STARTED"
    BY <2>1 DEF InInputs
  <2>4. CASE n < input.ext
    <3>1. h = [hash EXCEPT !.bytes = hash.bytes - n]
      BY <2>2, <2>3, <2>4 DEF ReadExtension
    <3>2. input' = [input EXCEPT !.ext = input.ext - n] /\ hash' = h /\ full' = full
      BY <2>2, <2>4
    <3>3. UNCHANGED <<op, table, box, output, blind, seen>>
      OBVIOUS
    <3> HIDE DEF h
    <3>4. input' \in Inputs /\ input'.ext = input.ext - n
          /\ input'.state = "EXTENSION_STARTED"
      BY <2>1, <2>2, <2>4, <3>2 DEF Inputs
    <3>5. hash' \in Readers /\ hash'.bytes = input.ext - n /\ hash'.at = "ext"
          /\ hash'.ins = hash.ins
      BY <2>2, <2>3, <2>4, <3>1, <3>2 DEF Readers
    <3>6. InInputs'
      BY <2>1, <2>2, <2>3, <2>4, <3>2, <3>3, <3>4, <3>5 DEF InInputs, Awaited
    <3>7. TypeOK'
      BY <2>2, <3>2, <3>3, <3>4, <3>5 DEF TypeOK
    <3>8. TableHolds'
      BY <2>2, <3>2, <3>3 DEF TableHolds
    <3> QED
      BY <3>6, <3>7, <3>8 DEF IInv, Phase
  <2>5. CASE n = input.ext
    <3>1. h = InputDone(hash)
      BY <2>2, <2>3, <2>5 DEF ReadExtension
    <3>2. input' = [input EXCEPT !.ext = 0, !.state = "FINISHED"] /\ input_finished(h)
      BY <2>2, <2>5
    <3>3. UNCHANGED <<op, table, box, output, blind, seen>>
      OBVIOUS
    <3> HIDE DEF h
    <3>4. input' \in Inputs /\ input'.state = "FINISHED"
      BY <2>2, <3>2 DEF Inputs
    <3>5. full.inputs_count \in Nat /\ full.inputs_count > 0 /\ table.count \in Nat
      BY <2>2, <2>3 DEF TypeOK, Fulls, Tables, Awaited
    <3>6. /\ h \in Readers /\ h.ins = full.inputs_count - 1
          /\ full.inputs_count = 1 => h.at = "data_count"
          /\ full.inputs_count > 1 => h.at = "box_id"
      BY <2>2, <2>3, <3>1, <3>5, InputDoneIs
    <3>7. /\ full' \in Fulls /\ hash' \in Readers /\ full'.state # "TOKENS_STARTED"
          /\ InInputs' \/ InData' \/ BeforeOutputs'
      BY <2>1, <2>2, <2>3, <3>2, <3>3, <3>4, <3>5, <3>6, InputFinishedStep
    <3>8. TypeOK'
      BY <2>2, <3>3, <3>4, <3>7 DEF TypeOK
    <3>9. TableHolds'
      BY <2>2, <2>3, <3>3 DEF TableHolds
    <3> QED
      BY <3>7, <3>8, <3>9 DEF IInv, Phase
  <2> QED
    BY <2>1, <2>2, <2>4, <2>5
<1> QED
  BY <1>1, <1>2

LEMMA DataInputsStep ==
    ASSUME IInv, NEW n \in Items, NEW valid \in BOOLEAN, data_inputs(n, valid)
    PROVE  IInv'
<1>1. CASE handler_err
  BY <1>1, ErrorIsBlank
<1>2. CASE ~handler_err
  <2> DEFINE h == ReadDataIds(hash, n)
  <2> USE <1>2 DEF data_inputs, Handled
  <2>1. InData /\ n =< full.data_inputs_count
    BY DEF IInv, Phase, Blank, InInputs, InTokens, InData, BeforeOutputs, InOutput,
           BetweenOutputs, Done, Complete, OutputsAwaited
  <2>2. /\ n \in Nat /\ full.data_inputs_count \in Nat /\ full.outputs_count \in Nat
        /\ table.distinct \in Nat /\ table.count \in Nat
        /\ TypeOK /\ TableHolds /\ full \in Fulls /\ hash \in Readers
    BY SignTxAssumption DEF Items, IInv, TypeOK, Fulls, Tables
  <2>3. /\ h \in Readers /\ h.datas = full.data_inputs_count - n
        /\ n = full.data_inputs_count => h.at = "table"
        /\ n < full.data_inputs_count => h.at = "data"
    BY <2>1, <2>2, ReadDataIdsIs DEF InData
  <2>4. UNCHANGED <<op, table, input, box, output, blind, seen>>
    OBVIOUS
  <2>5. CASE n < full.data_inputs_count
    <3>1. /\ full' = [full EXCEPT !.data_inputs_count = full.data_inputs_count - n]
          /\ hash' = h
      BY <2>2, <2>5
    <3> HIDE DEF h
    <3>2. /\ full' \in Fulls /\ full'.data_inputs_count = full.data_inputs_count - n
          /\ full'.state = full.state /\ full'.outputs_count = full.outputs_count
      BY <2>1, <2>2, <2>5, <3>1 DEF Fulls
    <3>3. InData'
      BY <2>1, <2>2, <2>3, <2>4, <2>5, <3>1, <3>2 DEF InData
    <3>4. TypeOK'
      BY <2>2, <2>3, <2>4, <3>1, <3>2 DEF TypeOK
    <3>5. TableHolds'
      BY <2>2, <2>4, <3>2 DEF TableHolds
    <3> QED
      BY <3>3, <3>4, <3>5 DEF IInv, Phase
  <2>6. CASE n = full.data_inputs_count
    <3>1. data_inputs_finished(h)
      BY <2>2, <2>6
    <3> HIDE DEF h
    <3>2. table.distinct =< table.count /\ full.outputs_count > 0
      BY <2>1, <2>2 DEF TableHolds, InData
    <3>3. hash' \in Readers /\ hash'.at = "value" /\ hash'.outs = full.outputs_count
      BY <2>2, <2>3, <2>6, <3>1, <3>2, ReadTableAndCount DEF data_inputs_finished
    <3>4. full' = [full EXCEPT !.state = "OUTPUTS_STARTED", !.inputs_count = 0,
                               !.data_inputs_count = 0]
      BY <3>1 DEF data_inputs_finished
    <3>5. full' \in Fulls
      BY <2>2, <3>4 DEF Fulls
    <3>6. full'.state = "OUTPUTS_STARTED" /\ full'.outputs_count = full.outputs_count
      BY <2>2, <3>4 DEF Fulls
    <3>7. BeforeOutputs'
      BY <2>1, <2>4, <3>2, <3>3, <3>6 DEF InData, BeforeOutputs, OutputsAwaited
    <3>8. TypeOK'
      BY <2>2, <2>4, <3>3, <3>5 DEF TypeOK
    <3>9. TableHolds'
      BY <2>2, <2>4, <3>2 DEF TableHolds
    <3> QED
      BY <3>7, <3>8, <3>9 DEF IInv, Phase
  <2> QED
    BY <2>1, <2>2, <2>5, <2>6
<1> QED
  BY <1>1, <1>2

----------------------------------------------------------------------------
(* Outputs                                                                 *)

\* What show_output_screen_if_needed does: nothing to the flag and the counts
\* for an output that is not finished; one more output reviewed, and the flag
\* set for a script, for one that is.
LEMMA ShowFacts ==
    ASSUME TypeOK, NEW o \in Outputs, NEW auto \in BOOLEAN, ShowIfNeeded(o, auto)
    PROVE  /\ blind' \in BOOLEAN /\ seen' \in Views /\ seen'.begun = seen.begun
           /\ seen'.script => seen.script \/ IsScriptOutput(o)
           /\ blind => blind'
           /\ ~o.finished => Reviewed' = Reviewed
           /\ o.tree_set /\ o.finished => Reviewed' = Reviewed + 1
           /\ IsScriptOutput(o) /\ o.finished => blind'
<1> DEFINE finished == o.tree_set /\ o.finished
           shows    == finished /\ NeedsScreen(o, auto)
           shown    == IF shows THEN seen.shown + 1 ELSE seen.shown
           exempt   == IF finished /\ ~shows THEN seen.exempt + 1 ELSE seen.exempt
           script   == seen.script \/ (o.tree_set /\ IsScript(o.type))
<1>1. blind' = IF shows THEN BlindAfter(o) ELSE blind
  BY DEF ShowIfNeeded
<1>2. seen' = [seen EXCEPT !.shown = shown, !.exempt = exempt, !.script = script]
  BY DEF ShowIfNeeded
<1>3. seen.shown \in Nat /\ seen.exempt \in Nat /\ seen \in Views /\ blind \in BOOLEAN
  BY DEF TypeOK, Views
<1>4. blind' \in BOOLEAN /\ (blind => blind')
  BY <1>1, <1>3 DEF BlindAfter
<1>5. IsScriptOutput(o) /\ o.finished => blind'
  BY <1>1 DEF BlindAfter, IsScriptOutput, IsScript, NeedsScreen
<1>6. shown \in Nat /\ exempt \in Nat /\ script \in BOOLEAN
  <2>1. seen.script \in BOOLEAN /\ (o.tree_set /\ IsScript(o.type)) \in BOOLEAN
    BY <1>3 DEF Views, IsScript
  <2> QED
    BY <1>3, <2>1
<1>7. /\ ~o.finished => shown = seen.shown /\ exempt = seen.exempt
      /\ finished => shown + exempt = seen.shown + seen.exempt + 1
  BY <1>3
<1>8. script => seen.script \/ IsScriptOutput(o)
  BY DEF IsScriptOutput
<1> HIDE DEF shown, exempt, script
<1>9. [seen EXCEPT !.shown = shown, !.exempt = exempt, !.script = script] \in Views
  BY <1>3, <1>6 DEF Views
<1>10. /\ seen'.shown = shown /\ seen'.exempt = exempt /\ seen'.script = script
       /\ seen'.begun = seen.begun
  BY <1>2, <1>3 DEF Views
<1>11. Reviewed = seen.shown + seen.exempt /\ Reviewed' = shown + exempt
  BY <1>10 DEF Reviewed
<1>12. seen' \in Views
  BY <1>2, <1>9
<1> QED
  BY <1>4, <1>5, <1>7, <1>8, <1>10, <1>11, <1>12

\* An output that is not complete stays the one under way.
LEMMA BoxContinuesStep ==
    ASSUME TypeOK, TableHolds, op = "OUTPUTS_STARTED", OutputsAwaited,
           seen.begun = Reviewed + 1, seen.script => blind \/ IsScriptOutput(output),
           NEW b \in Boxes, NEW o \in Outputs, NEW h \in Readers,
           PartAwaited(b, o, h), h.outs = hash.outs,
           IsScriptOutput(output) => IsScriptOutput(o),
           BoxContinues(b, o, h), UNCHANGED <<table, input>>
    PROVE  IInv'
<1>1. /\ box' = b /\ output' = o /\ hash' = h /\ ShowIfNeeded(o, FALSE)
      /\ UNCHANGED <<full, op>>
  BY DEF BoxContinues
<1>2. ~o.finished
  BY DEF PartAwaited, TreeAwaited, TokensAwaited, RegistersAwaited
<1>3. /\ blind' \in BOOLEAN /\ seen' \in Views /\ seen'.begun = seen.begun
      /\ seen'.script => seen.script \/ IsScriptOutput(o)
      /\ blind => blind'
      /\ Reviewed' = Reviewed
  BY <1>1, <1>2, ShowFacts
<1>4. InOutput'
  <2>1. OutputsAwaited'
    BY <1>1 DEF OutputsAwaited
  <2>2. PartAwaited(box, output, hash)'
    BY <1>1 DEF PartAwaited, TreeAwaited, TokensAwaited, RegistersAwaited
  <2>3. (seen.script => blind \/ IsScriptOutput(output))'
    BY <1>1, <1>3 DEF IsScriptOutput
  <2> QED
    BY <1>1, <1>3, <2>1, <2>2, <2>3 DEF InOutput
<1>5. TypeOK'
  BY <1>1, <1>3 DEF TypeOK
<1>6. TableHolds'
  BY <1>1 DEF TableHolds
<1> QED
  BY <1>4, <1>5, <1>6 DEF IInv, Phase

\* A complete output leads to the next one or to the end.
LEMMA BoxFinishedStep ==
    ASSUME TypeOK, TableHolds, op = "OUTPUTS_STARTED", OutputsAwaited,
           seen.begun = Reviewed + 1, seen.script => blind \/ IsScriptOutput(output),
           NEW b \in Boxes, NEW o \in Outputs, NEW h \in Readers, NEW auto \in BOOLEAN,
           o.tree_set, h.outs = full.outputs_count - 1,
           full.outputs_count = 1 => h.at = "end",
           full.outputs_count > 1 => h.at = "value",
           IsScriptOutput(output) => IsScriptOutput(o),
           BoxFinished(b, o, h, auto), UNCHANGED <<table, input>>
    PROVE  IInv'
<1> DEFINE o1   == [o EXCEPT !.finished = TRUE]
           left == full.outputs_count - 1
           next == IF full.outputs_count = 1 THEN "FINISHED" ELSE full.state
<1>1. full.outputs_count \in Nat /\ full.outputs_count > 0 /\ full \in Fulls
  BY DEF TypeOK, Fulls, OutputsAwaited
<1>2. /\ box' = [b EXCEPT !.state = "FINISHED"] /\ output' = o1 /\ hash' = h
      /\ full' = [full EXCEPT !.outputs_count = left, !.state = next]
      /\ op' = (IF full.outputs_count = 1 THEN "TX_FINISHED" ELSE op)
      /\ ShowIfNeeded(o1, auto)
  BY DEF BoxFinished
<1>3. o1 \in Outputs /\ o1.finished /\ o1.tree_set /\ o1.type = o.type
  BY DEF Outputs
<1>4. left \in Nat /\ full.state \in {"OUTPUTS_STARTED"}
  BY <1>1 DEF OutputsAwaited
<1> HIDE DEF o1, left
<1>5. /\ blind' \in BOOLEAN /\ seen' \in Views /\ seen'.begun = seen.begun
      /\ seen'.script => seen.script \/ IsScriptOutput(o1)
      /\ blind => blind'
      /\ Reviewed' = Reviewed + 1
      /\ IsScriptOutput(o1) => blind'
  BY <1>2, <1>3, ShowFacts
<1>6. seen'.begun = Reviewed' /\ (seen'.script => blind')
  BY <1>3, <1>5 DEF IsScriptOutput
<1>7. box' \in Boxes /\ box'.state = "FINISHED"
  BY <1>2 DEF Boxes
<1>8. CASE full.outputs_count = 1
  <2>1. full' = [full EXCEPT !.outputs_count = left, !.state = "FINISHED"]
        /\ op' = "TX_FINISHED"
    BY <1>2, <1>8
  <2>2. full' \in Fulls /\ full'.state = "FINISHED"
    BY <1>1, <1>4, <2>1 DEF Fulls
  <2>3. Done'
    BY <1>2, <1>6, <1>8, <2>1, <2>2 DEF Done, Complete
  <2>4. TypeOK'
    BY <1>2, <1>3, <1>5, <1>7, <2>1, <2>2 DEF TypeOK, OpStates
  <2>5. TableHolds'
    BY DEF TableHolds, OutputsAwaited
  <2> QED
    BY <2>3, <2>4, <2>5 DEF IInv, Phase
<1>9. CASE full.outputs_count > 1
  <2>0. full.outputs_count # 1
    BY <1>1, <1>9
  <2>1. full' = [full EXCEPT !.outputs_count = left, !.state = "OUTPUTS_STARTED"]
        /\ op' = "OUTPUTS_STARTED"
    BY <1>2, <1>4, <2>0
  <2>2. full' \in Fulls /\ full'.state = "OUTPUTS_STARTED" /\ full'.outputs_count = left
    BY <1>1, <1>4, <2>1 DEF Fulls
  <2>3. BetweenOutputs'
    BY <1>1, <1>2, <1>6, <1>7, <1>9, <2>1, <2>2 DEF BetweenOutputs, OutputsAwaited, left
  <2>4. TypeOK'
    BY <1>2, <1>3, <1>5, <1>7, <2>1, <2>2 DEF TypeOK, OpStates
  <2>5. TableHolds'
    BY DEF TableHolds, OutputsAwaited
  <2> QED
    BY <2>3, <2>4, <2>5 DEF IInv, Phase
<1> QED
  BY <1>1, <1>8, <1>9

\* An output without registers is complete with its tokens.
LEMMA NoRegistersStep ==
    ASSUME TypeOK, TableHolds, InOutput,
           NEW b \in Boxes, NEW o \in Outputs, NEW h \in Readers, NEW auto \in BOOLEAN,
           o.tree_set, h.at = "regs", h.regs = 0, h.outs = hash.outs,
           IsScriptOutput(output) => IsScriptOutput(o),
           BoxFinished(b, o, ReadNoRegisters(h), auto), UNCHANGED <<table, input>>
    PROVE  IInv'
<1> DEFINE g == ReadNoRegisters(h)
<1>1. full.outputs_count \in Nat /\ full.outputs_count > 0 /\ h.outs = full.outputs_count
  BY DEF InOutput, OutputsAwaited, TypeOK, Fulls
<1>2. g = OutputDone(h)
  BY DEF ReadNoRegisters
<1>3. BoxFinished(b, o, g, auto)
  OBVIOUS
<1> HIDE DEF g
<1>4. /\ g \in Readers /\ g.outs = full.outputs_count - 1
      /\ full.outputs_count = 1 => g.at = "end"
      /\ full.outputs_count > 1 => g.at = "value"
  BY <1>1, <1>2, OutputDoneIs
<1> QED
  BY <1>3, <1>4, BoxFinishedStep DEF InOutput

\* What follows a complete tree, whoever wrote it.
LEMMA AfterTreeStep ==
    ASSUME TypeOK, TableHolds, InOutput, ~output.tree_set,
           NEW b \in Boxes, NEW o \in Outputs, NEW h \in Readers, NEW auto \in BOOLEAN,
           o.tree_set, ~o.finished, h.at = "height", h.outs = hash.outs, h.regs = b.regs,
           AfterTree(b, o, h, auto), UNCHANGED <<table, input>>
    PROVE  IInv'
<1> DEFINE h1 == ReadTokensCount(ReadHeight(h), b.tokens)
<1>1. b.tokens \in Nat /\ b.regs \in Nat /\ ~IsScriptOutput(output)
  BY DEF Boxes, IsScriptOutput
<1>2. /\ h1 \in Readers /\ h1.toks = b.tokens /\ h1.regs = b.regs /\ h1.outs = hash.outs
      /\ b.tokens = 0 => h1.at = "regs"
      /\ b.tokens > 0 => h1.at = "tokens"
  BY <1>1, ReadHeightAndCount
<1>3. \/ b.tokens > 0 /\ BoxContinues([b EXCEPT !.state = "TREE_ADDED"], o, h1)
      \/ /\ b.tokens = 0 /\ b.regs > 0
         /\ BoxContinues([b EXCEPT !.state = "TOKENS_ADDED"], o, h1)
      \/ /\ b.tokens = 0 /\ b.regs = 0 /\ BoxFinished(b, o, ReadNoRegisters(h1), auto)
  BY DEF AfterTree
<1> HIDE DEF h1
<1>4. CASE b.tokens > 0 /\ BoxContinues([b EXCEPT !.state = "TREE_ADDED"], o, h1)
  <2> DEFINE c == [b EXCEPT !.state = "TREE_ADDED"]
  <2>1. /\ c \in Boxes /\ c.state = "TREE_ADDED" /\ c.tokens = b.tokens
        /\ c.regs = b.regs
    BY DEF Boxes
  <2> HIDE DEF c
  <2>2. PartAwaited(c, o, h1)
    BY <1>2, <1>4, <2>1 DEF PartAwaited, TokensAwaited
  <2>3. BoxContinues(c, o, h1)
    BY <1>4 DEF c
  <2> QED
    BY <1>1, <1>2, <2>1, <2>2, <2>3, BoxContinuesStep DEF InOutput
<1>5. CASE /\ b.tokens = 0 /\ b.regs > 0
           /\ BoxContinues([b EXCEPT !.state = "TOKENS_ADDED"], o, h1)
  <2> DEFINE c == [b EXCEPT !.state = "TOKENS_ADDED"]
  <2>1. c \in Boxes /\ c.state = "TOKENS_ADDED" /\ c.regs = b.regs
    BY DEF Boxes
  <2> HIDE DEF c
  <2>2. PartAwaited(c, o, h1)
    BY <1>2, <1>5, <2>1 DEF PartAwaited, RegistersAwaited
  <2>3. BoxContinues(c, o, h1)
    BY <1>5 DEF c
  <2> QED
    BY <1>1, <1>2, <2>1, <2>2, <2>3, BoxContinuesStep DEF InOutput
<1>6. CASE /\ b.tokens = 0 /\ b.regs = 0
           /\ BoxFinished(b, o, ReadNoRegisters(h1), auto)
  BY <1>1, <1>2, <1>6, NoRegistersStep
<1> QED
  BY <1>3, <1>4, <1>5, <1>6

\* Needs a host that finishes the open output first.
LEMMA OutputInitStep ==
    ASSUME IInv, SafeHost, NEW tree \in Sizes, NEW toks \in TokenCounts, NEW regs \in Sizes,
           NEW valid \in BOOLEAN, output_init(tree, toks, regs, valid)
    PROVE  IInv'
<1>1. CASE handler_err
  BY <1>1, ErrorIsBlank
<1>2. CASE ~handler_err
  <2> USE <1>2 DEF output_init, Handled
  <2>1. TypeOK /\ TableHolds /\ tree \in Nat /\ toks \in Nat /\ regs \in Nat
    BY SignTxAssumption DEF IInv
  <2>2. op = "OUTPUTS_STARTED" => box.state = "FINISHED"
    BY DEF SafeHost, Promised
  <2>3. BeforeOutputs \/ BetweenOutputs
    BY <2>2 DEF IInv, Phase, Blank, InInputs, InTokens, InData, InOutput, Done, Complete,
                PartAwaited, TreeAwaited, TokensAwaited, RegistersAwaited
  <2>4. hash.at = "value" /\ OutputsAwaited /\ hash \in Readers /\ seen \in Views
    BY <2>1, <2>3 DEF BeforeOutputs, BetweenOutputs, TypeOK
  <2>5. seen.begun = Reviewed /\ (seen.script => blind) /\ Reviewed \in Nat
    BY <2>3, <2>4 DEF BeforeOutputs, BetweenOutputs, Reviewed, NothingSeen, Views
  <2>6. /\ op' = "OUTPUTS_STARTED" /\ output' = ZeroOutput
        /\ box' = [state |-> "INITIALIZED", tree |-> tree, tokens |-> toks, regs |-> regs]
        /\ hash' = ReadValue(hash, tree, regs)
        /\ seen' = [seen EXCEPT !.begun = seen.begun + 1]
        /\ UNCHANGED <<full, table, input, blind>>
    OBVIOUS
  <2>7. /\ hash' \in Readers /\ hash'.at = "tree" /\ hash'.bytes = tree
        /\ hash'.regs = regs /\ hash'.outs = hash.outs
    BY <2>1, <2>4, <2>6 DEF ReadValue, Readers, Places
  <2>8. /\ seen' \in Views /\ seen'.begun = seen.begun + 1 /\ seen'.shown = seen.shown
        /\ seen'.exempt = seen.exempt /\ seen'.script = seen.script
    BY <2>4, <2>6 DEF Views
  <2>9. seen'.begun = Reviewed' + 1
    BY <2>5, <2>8 DEF Reviewed
  <2>10. box' \in Boxes /\ output' \in Outputs
    BY <2>1, <2>6, ZeroTypes DEF Boxes
  <2>11. PartAwaited(box, output, hash)'
    BY <2>6, <2>7 DEF PartAwaited, TreeAwaited, ZeroOutput
  <2>12. InOutput'
    BY <2>4, <2>5, <2>6, <2>7, <2>8, <2>9, <2>11 DEF InOutput, OutputsAwaited
  <2>13. TypeOK'
    BY <2>1, <2>6, <2>7, <2>8, <2>10 DEF TypeOK, OpStates
  <2>14. TableHolds'
    BY <2>1, <2>6 DEF TableHolds
  <2> QED
    BY <2>12, <2>13, <2>14 DEF IInv, Phase
<1> QED
  BY <1>1, <1>2

\* A handler that finds the box unfinished finds the output under way where the
\* state of the box says.
LEMMA OutputOpen ==
    ASSUME IInv, op = "OUTPUTS_STARTED", box.state # "FINISHED"
    PROVE  /\ InOutput /\ TypeOK /\ TableHolds
           /\ box \in Boxes /\ output \in Outputs /\ hash \in Readers
           /\ box.state = "INITIALIZED" => TreeAwaited(box, output, hash)
           /\ box.state = "TREE_ADDED" => TokensAwaited(box, output, hash)
           /\ box.state = "TOKENS_ADDED" => RegistersAwaited(box, output, hash)
<1>1. InOutput
  BY DEF IInv, Phase, Blank, InInputs, InTokens, InData, BeforeOutputs,
         BetweenOutputs, Done, Complete
<1> QED
  BY <1>1 DEF IInv, TypeOK, InOutput, PartAwaited, TreeAwaited, TokensAwaited,
              RegistersAwaited

LEMMA OwnTreeStep ==
    ASSUME IInv, NEW type \in {"MINERS_FEE", "BIP32"}, NEW auto \in BOOLEAN,
           NEW valid \in BOOLEAN, OwnTree(type, auto, valid)
    PROVE  IInv'
<1>1. CASE handler_err
  BY <1>1, ErrorIsBlank
<1>2. CASE ~handler_err
  <2> DEFINE o == [output EXCEPT !.type = type, !.tree_set = TRUE]
             h == ReadOwnTree(hash)
  <2>1. /\ op = "OUTPUTS_STARTED" /\ box.state = "INITIALIZED" /\ output.type = "UNKNOWN"
        /\ AfterTree(box, o, h, auto) /\ UNCHANGED <<table, input>>
    BY <1>2 DEF OwnTree, Handled, OwnTreeFits
  <2>2. /\ InOutput /\ TypeOK /\ TableHolds /\ box \in Boxes /\ output \in Outputs
        /\ hash \in Readers /\ TreeAwaited(box, output, hash)
    BY <2>1, OutputOpen
  <2>3. /\ hash.at = "tree" /\ hash.regs = box.regs /\ ~output.tree_set
        /\ ~output.finished
    BY <2>1, <2>2 DEF TreeAwaited
  <2>4. o \in Outputs /\ o.tree_set /\ ~o.finished
    BY <2>2, <2>3 DEF Outputs
  <2>5. h = [hash EXCEPT !.at = "height", !.bytes = 0]
    BY <2>3 DEF ReadOwnTree
  <2> HIDE DEF h, o
  <2>6. h \in Readers /\ h.at = "height" /\ h.outs = hash.outs /\ h.regs = box.regs
    BY <2>2, <2>3, <2>5 DEF Readers, Places
  <2> QED
    BY <2>1, <2>2, <2>3, <2>4, <2>6, AfterTreeStep
<1> QED
  BY <1>1, <1>2

\* Needs a host that sends no chunk for an output without an announced tree.
LEMMA TreeChunkStep ==
    ASSUME IInv, SafeHost, NEW n \in Chunk, NEW kind, NEW valid \in BOOLEAN,
           output_tree_chunk(n, kind, valid)
    PROVE  IInv'
<1>1. CASE handler_err
  BY <1>1, ErrorIsBlank
<1>2. CASE ~handler_err
  <2> DEFINE last == n = box.tree
             b == [box EXCEPT !.tree = box.tree - n]
             o == [output EXCEPT !.type = kind, !.tree_set = last]
             h == ReadTree(hash, n)
  <2>1. /\ op = "OUTPUTS_STARTED" /\ box.state = "INITIALIZED" /\ ChunkFits(n)
        /\ \/ last /\ AfterTree(b, o, h, FALSE)
           \/ ~last /\ BoxContinues(b, o, h)
        /\ UNCHANGED <<table, input>> /\ box.tree > 0
        /\ kind \in TreeKinds(output.type = "UNKNOWN" /\ last)
    BY <1>2 DEF output_tree_chunk, Handled, SafeHost, Promised
  <2>2. /\ InOutput /\ TypeOK /\ TableHolds /\ box \in Boxes /\ output \in Outputs
        /\ hash \in Readers /\ TreeAwaited(box, output, hash)
    BY <2>1, OutputOpen
  <2>3. /\ hash.at \in {"tree", "tree_rest"} /\ hash.bytes = box.tree
        /\ hash.regs = box.regs /\ ~output.tree_set /\ ~output.finished
    BY <2>2 DEF TreeAwaited
  <2>4. n \in Nat /\ box.tree \in Nat /\ n =< box.tree /\ n # 0 /\ box.tree - n \in Nat
    BY <2>1, <2>2, SignTxAssumption DEF Chunk, Boxes, ChunkFits
  <2>5. /\ h \in Readers /\ h.bytes = box.tree - n /\ h.regs = box.regs
        /\ h.outs = hash.outs
        /\ n = box.tree => h.at = "height"
        /\ n < box.tree => h.at = "tree_rest"
    BY <2>2, <2>3, <2>4, ReadTreeIs
  <2>6. /\ b \in Boxes /\ b.state = "INITIALIZED" /\ b.tree = box.tree - n
        /\ b.regs = box.regs
    BY <2>1, <2>2, <2>4 DEF Boxes
  <2>7. kind \in {"ADDRESS", "SCRIPT_HASH", "SCRIPT"} /\ (~last => kind = "SCRIPT")
    BY <2>1 DEF TreeKinds
  <2>8. last \in BOOLEAN
    OBVIOUS
  <2> HIDE DEF last
  <2>9. o \in Outputs
    BY <2>2, <2>7, <2>8 DEF Outputs
  <2>10. o.tree_set = last /\ o.finished = output.finished /\ o.type = kind
    BY <2>2 DEF Outputs
  <2> HIDE DEF h, b, o
  <2>11. CASE last /\ AfterTree(b, o, h, FALSE)
    <3>1. h.at = "height" /\ o.tree_set /\ ~o.finished
      BY <2>3, <2>5, <2>10, <2>11 DEF last
    <3> QED
      BY <2>1, <2>2, <2>3, <2>5, <2>6, <2>9, <2>11, <3>1, AfterTreeStep
  <2>12. CASE ~last /\ BoxContinues(b, o, h)
    <3>0. n < box.tree
      BY <2>4, <2>12 DEF last
    <3>1. h.at = "tree_rest" /\ ~o.tree_set /\ ~o.finished /\ o.type = "SCRIPT"
      BY <2>3, <2>5, <2>7, <2>10, <2>12, <3>0
    <3>2. PartAwaited(b, o, h)
      BY <2>5, <2>6, <3>1 DEF PartAwaited, TreeAwaited
    <3>3. ~IsScriptOutput(output)
      BY <2>3 DEF IsScriptOutput
    <3> QED
      BY <2>1, <2>2, <2>5, <2>6, <2>9, <2>12, <3>2, <3>3, BoxContinuesStep DEF InOutput
  <2> QED
    BY <2>1, <2>11, <2>12
<1> QED
  BY <1>1, <1>2

LEMMA OutputTokensStep ==
    ASSUME IInv, NEW n \in Items, NEW nonzero \in BOOLEAN, NEW auto \in BOOLEAN,
           NEW valid \in BOOLEAN, output_tokens(n, nonzero, auto, valid)
    PROVE  IInv'
<1>1. CASE handler_err
  BY <1>1, ErrorIsBlank
<1>2. CASE ~handler_err
  <2> DEFINE b == [box EXCEPT !.tokens = box.tokens - n]
             o == [output EXCEPT !.used = output.used \/ nonzero]
             h == ReadTokens(hash, n)
  <2>1. /\ op = "OUTPUTS_STARTED" /\ box.state = "TREE_ADDED" /\ n =< box.tokens
        /\ \/ n < box.tokens /\ BoxContinues(b, o, h)
           \/ /\ n = box.tokens /\ box.regs > 0
              /\ BoxContinues([b EXCEPT !.state = "TOKENS_ADDED"], o, h)
           \/ /\ n = box.tokens /\ box.regs = 0
              /\ BoxFinished(b, o, ReadNoRegisters(h), auto)
        /\ UNCHANGED <<table, input>>
    BY <1>2 DEF output_tokens, Handled
  <2>2. /\ InOutput /\ TypeOK /\ TableHolds /\ box \in Boxes /\ output \in Outputs
        /\ hash \in Readers /\ TokensAwaited(box, output, hash)
    BY <2>1, OutputOpen
  <2>3. /\ hash.at = "tokens" /\ hash.toks = box.tokens /\ hash.regs = box.regs
        /\ output.tree_set /\ ~output.finished
    BY <2>2 DEF TokensAwaited
  <2>4. n \in Nat /\ box.tokens \in Nat /\ box.regs \in Nat /\ box.tokens - n \in Nat
    BY <2>1, <2>2, SignTxAssumption DEF Items, Boxes
  <2>5. /\ h \in Readers /\ h.toks = box.tokens - n /\ h.regs = box.regs
        /\ h.outs = hash.outs
        /\ n = box.tokens => h.at = "regs"
        /\ n < box.tokens => h.at = "tokens"
    BY <2>1, <2>2, <2>3, <2>4, ReadTokensIs
  <2>6. /\ b \in Boxes /\ b.state = "TREE_ADDED" /\ b.tokens = box.tokens - n
        /\ b.regs = box.regs
    BY <2>1, <2>2, <2>4 DEF Boxes
  <2>7. o \in Outputs
    <3>1. (output.used \/ nonzero) \in BOOLEAN
      BY <2>2 DEF Outputs
    <3> QED
      BY <2>2, <3>1 DEF Outputs
  <2>8. o.tree_set /\ ~o.finished /\ o.type = output.type
    BY <2>2, <2>3 DEF Outputs
  <2> HIDE DEF h, b, o
  <2>9. IsScriptOutput(output) => IsScriptOutput(o)
    BY <2>8 DEF IsScriptOutput
  <2>10. CASE n < box.tokens /\ BoxContinues(b, o, h)
    <3>1. PartAwaited(b, o, h)
      BY <2>4, <2>5, <2>6, <2>8, <2>10 DEF PartAwaited, TokensAwaited
    <3> QED
      BY <2>1, <2>2, <2>5, <2>6, <2>7, <2>9, <2>10, <3>1, BoxContinuesStep DEF InOutput
  <2>11. CASE /\ n = box.tokens /\ box.regs > 0
              /\ BoxContinues([b EXCEPT !.state = "TOKENS_ADDED"], o, h)
    <3> DEFINE c == [b EXCEPT !.state = "TOKENS_ADDED"]
    <3>1. c \in Boxes /\ c.state = "TOKENS_ADDED" /\ c.regs = b.regs
      BY <2>6 DEF Boxes
    <3>2. BoxContinues(c, o, h)
      BY <2>11
    <3> HIDE DEF c
    <3>3. PartAwaited(c, o, h)
      BY <2>5, <2>6, <2>8, <2>11, <3>1 DEF PartAwaited, RegistersAwaited
    <3> QED
      BY <2>1, <2>2, <2>5, <2>7, <2>9, <3>1, <3>2, <3>3, BoxContinuesStep DEF InOutput
  <2>12. CASE /\ n = box.tokens /\ box.regs = 0
              /\ BoxFinished(b, o, ReadNoRegisters(h), auto)
    BY <2>1, <2>2, <2>5, <2>6, <2>7, <2>8, <2>9, <2>12, NoRegistersStep
  <2> QED
    BY <2>1, <2>10, <2>11, <2>12
<1> QED
  BY <1>1, <1>2

LEMMA RegistersStep ==
    ASSUME IInv, NEW n \in Chunk, NEW auto \in BOOLEAN, NEW valid \in BOOLEAN,
           output_registers(n, auto, valid)
    PROVE  IInv'
<1>1. CASE handler_err
  BY <1>1, ErrorIsBlank
<1>2. CASE ~handler_err
  <2> DEFINE b == [box EXCEPT !.regs = box.regs - n]
             h == ReadRegisters(hash, n)
  <2>1. /\ op = "OUTPUTS_STARTED" /\ box.state = "TOKENS_ADDED" /\ n =< box.regs
        /\ \/ n < box.regs /\ BoxContinues(b, output, h)
           \/ n = box.regs /\ BoxFinished(b, output, h, auto)
        /\ UNCHANGED <<table, input>>
    BY <1>2 DEF output_registers, Handled
  <2>2. /\ InOutput /\ TypeOK /\ TableHolds /\ box \in Boxes /\ output \in Outputs
        /\ hash \in Readers /\ RegistersAwaited(box, output, hash)
    BY <2>1, OutputOpen
  <2>3. /\ hash.at = "regs" /\ hash.regs = box.regs /\ box.regs > 0
        /\ output.tree_set /\ ~output.finished
    BY <2>2 DEF RegistersAwaited
  <2>4. n \in Nat /\ box.regs \in Nat /\ box.regs - n \in Nat
    BY <2>1, <2>2, SignTxAssumption DEF Chunk, Boxes
  <2>5. b \in Boxes /\ b.state = "TOKENS_ADDED" /\ b.regs = box.regs - n
    BY <2>1, <2>2, <2>4 DEF Boxes
  <2> HIDE DEF b
  <2>6. CASE n < box.regs /\ BoxContinues(b, output, h)
    <3>1. h = [hash EXCEPT !.regs = hash.regs - n]
      BY <2>3, <2>4, <2>6 DEF ReadRegisters
    <3> HIDE DEF h
    <3>2. h \in Readers /\ h.at = "regs" /\ h.regs = box.regs - n /\ h.outs = hash.outs
      BY <2>2, <2>3, <2>4, <3>1 DEF Readers
    <3>3. PartAwaited(b, output, h)
      BY <2>3, <2>4, <2>5, <2>6, <3>2 DEF PartAwaited, RegistersAwaited
    <3> QED
      BY <2>1, <2>2, <2>5, <2>6, <3>2, <3>3, BoxContinuesStep DEF InOutput
  <2>7. CASE n = box.regs /\ BoxFinished(b, output, h, auto)
    <3>1. h = OutputDone(hash)
      BY <2>3, <2>4, <2>7 DEF ReadRegisters
    <3> HIDE DEF h
    <3>2. /\ full.outputs_count \in Nat /\ full.outputs_count > 0
          /\ hash.outs = full.outputs_count
      BY <2>2 DEF InOutput, OutputsAwaited, TypeOK, Fulls
    <3>3. /\ h \in Readers /\ h.outs = full.outputs_count - 1
          /\ full.outputs_count = 1 => h.at = "end"
          /\ full.outputs_count > 1 => h.at = "value"
      BY <2>2, <3>1, <3>2, OutputDoneIs
    <3> QED
      BY <2>1, <2>2, <2>3, <2>5, <2>7, <3>3, BoxFinishedStep DEF InOutput
  <2> QED
    BY <2>1, <2>6, <2>7
<1> QED
  BY <1>1, <1>2

LEMMA ConfirmStep ==
    ASSUME IInv, NEW valid \in BOOLEAN, sign_confirm(valid)
    PROVE  IInv'
<1>1. CASE handler_err
  BY <1>1, ErrorIsBlank
<1>2. CASE ~handler_err
  <2>1. /\ op = "TX_FINISHED" /\ op' = "FINALIZED"
        /\ UNCHANGED <<full, table, input, box, output, blind, hash, seen>>
    BY <1>2 DEF sign_confirm, Handled
  <2>2. Done
    BY <2>1 DEF IInv, Phase, Blank, InInputs, InTokens, InData, BeforeOutputs, InOutput,
                BetweenOutputs, OutputsAwaited
  <2>3. Done'
    BY <2>1, <2>2 DEF Done, Complete, Reviewed
  <2>4. TypeOK' /\ TableHolds'
    BY <2>1 DEF IInv, TypeOK, TableHolds, OpStates
  <2> QED
    BY <2>3, <2>4 DEF IInv, Phase
<1> QED
  BY <1>1, <1>2

LEMMA StutterStep ==
    ASSUME IInv, UNCHANGED vars
    PROVE  IInv'
<1> USE DEF vars
<1>1. TypeOK' /\ TableHolds'
  BY DEF IInv, TypeOK, TableHolds
<1>2. /\ Blank' = Blank /\ InTokens' = InTokens /\ InInputs' = InInputs
      /\ InData' = InData /\ BeforeOutputs' = BeforeOutputs
  BY DEF Blank, InTokens, InInputs, InData, BeforeOutputs, OutputsAwaited, Awaited
<1>3. InOutput' = InOutput /\ BetweenOutputs' = BetweenOutputs /\ Done' = Done
  BY DEF InOutput, BetweenOutputs, Done, OutputsAwaited, Complete, Reviewed, PartAwaited,
         TreeAwaited, TokensAwaited, RegistersAwaited, IsScriptOutput
<1> QED
  BY <1>1, <1>2, <1>3 DEF IInv, Phase

----------------------------------------------------------------------------
(* The theorems                                                            *)

LEMMA NextStep ==
    ASSUME IInv, SafeHost, [Next]_vars
    PROVE  IInv'
<1>1. CASE session_ends
  BY <1>1, ErrorIsBlank DEF session_ends
<1>2. CASE \E valid \in BOOLEAN : sign_init(valid) \/ sign_confirm(valid)
  BY <1>2, InitStep, ConfirmStep
<1>3. CASE \E valid \in BOOLEAN : UploadInputs(valid)
  <2>1. PICK valid \in BOOLEAN : UploadInputs(valid)
    BY <1>3
  <2>2. CASE \E ins, datas, outs \in Counts, toks \in TokenCounts :
                 start_tx(ins, datas, toks, outs, valid)
    BY <2>2, StartStep
  <2>3. CASE \E n \in Items : add_tokens(n, valid) \/ data_inputs(n, valid)
    BY <2>3, TokensStep, DataInputsStep
  <2>4. CASE \E id \in BoxIds, frames \in FrameCounts, ext \in Sizes, fresh \in Items :
                 input_frame_first(id, frames, ext, fresh, valid)
    BY <2>4, FirstFrameStep
  <2>5. CASE \E id \in BoxIds, index \in FrameCounts \ {0}, fresh \in Items :
                 input_frame_next(id, index, fresh, valid)
    BY <2>5, NextFrameStep
  <2>6. CASE \E n \in Chunk : input_context_extension(n, valid)
    BY <2>6, ExtensionStep
  <2> QED
    BY <2>1, <2>2, <2>3, <2>4, <2>5, <2>6 DEF UploadInputs
<1>4. CASE \E valid \in BOOLEAN : UploadOutputs(valid)
  <2>1. PICK valid \in BOOLEAN : UploadOutputs(valid)
    BY <1>4
  <2>2. CASE \E tree, regs \in Sizes, toks \in TokenCounts :
                 output_init(tree, toks, regs, valid)
    BY <2>2, OutputInitStep
  <2>3. CASE \E n \in Chunk, kind \in TreeKinds(TRUE) : output_tree_chunk(n, kind, valid)
    BY <2>3, TreeChunkStep
  <2>4. CASE output_tree_fee(valid) \/ \E auto \in BOOLEAN : output_tree_change(auto, valid)
    BY <2>4, OwnTreeStep DEF output_tree_fee, output_tree_change
  <2>5. CASE \E auto \in BOOLEAN, n \in Items, nonzero \in BOOLEAN :
                 output_tokens(n, nonzero, auto, valid)
    BY <2>5, OutputTokensStep
  <2>6. CASE \E auto \in BOOLEAN, n \in Chunk : output_registers(n, auto, valid)
    BY <2>6, RegistersStep
  <2> QED
    BY <2>1, <2>2, <2>3, <2>4, <2>5, <2>6 DEF UploadOutputs
<1>5. CASE UNCHANGED vars
  BY <1>5, StutterStep
<1> QED
  BY <1>1, <1>2, <1>3, <1>4, <1>5 DEF Next

\* The counters of the serializer, of the operation and of the output
\* description agree with what was hashed and shown, in every reachable state,
\* if the host keeps the two promises the code relies on.
THEOREM UploadInvariance == SafeHost /\ Spec => []IInv
<1> SUFFICES ASSUME SafeHost PROVE Spec => []IInv
  OBVIOUS
<1>1. Init => IInv
  BY InitHolds
<1>2. IInv /\ [Next]_vars => IInv'
  BY NextStep
<1> QED
  BY <1>1, <1>2, PTL DEF Spec

\* Every variable keeps its type: no counter of the serializer wraps below 0.
THEOREM UploadTypes == SafeHost /\ Spec => []TypeOK
<1>1. IInv => TypeOK
  BY DEF IInv
<1> QED
  BY <1>1, UploadInvariance, PTL

\* The token table never runs over and is complete before the inputs.
THEOREM TableIsSafe == SafeHost /\ Spec => []TableHolds
<1>1. IInv => TableHolds
  BY DEF IInv
<1> QED
  BY <1>1, UploadInvariance, PTL

\* tx_hash is about a prefix of a well-formed transaction, and about a whole
\* one when it comes to signing, whatever the counts, sizes and chunks, if the
\* host keeps both promises.
THEOREM HashIsTransaction == SafeHost /\ Spec => []HashFollowsFormat
<1>1. IInv => HashFollowsFormat
  <2> SUFFICES ASSUME IInv PROVE HashFollowsFormat
    OBVIOUS
  <2> USE DEF HashFollowsFormat, SignsTransaction, Complete
  <2>1. CASE Blank
    BY <2>1 DEF Blank, NewReader, Reader
  <2>2. CASE InTokens \/ InInputs \/ InData
    BY <2>2 DEF InTokens, InInputs, InData
  <2>3. CASE BeforeOutputs \/ BetweenOutputs \/ Done
    BY <2>3 DEF BeforeOutputs, BetweenOutputs, Done
  <2>4. CASE InOutput
    BY <2>4 DEF InOutput, PartAwaited, TreeAwaited, TokensAwaited, RegistersAwaited
  <2> QED
    BY <2>1, <2>2, <2>3, <2>4 DEF IInv, Phase
<1> QED
  BY <1>1, UploadInvariance, PTL

\* Every output is put on the screen, if only as a blind signing warning, or
\* found exempt exactly once before the signature (show_output_screen_if_needed).
THEOREM OutputsAreReviewed == SafeHost /\ Spec => []EveryOutputReviewed
<1>1. IInv => EveryOutputReviewed
  <2> SUFFICES ASSUME IInv PROVE EveryOutputReviewed
    OBVIOUS
  <2> USE DEF EveryOutputReviewed, Complete
  <2>1. seen.begun \in Nat /\ seen.shown \in Nat /\ seen.exempt \in Nat
    BY DEF IInv, TypeOK, Views
  <2>2. CASE Blank \/ InTokens \/ InInputs \/ InData \/ BeforeOutputs
    BY <2>2 DEF Blank, InTokens, InInputs, InData, BeforeOutputs, NothingSeen
  <2>3. CASE InOutput \/ BetweenOutputs \/ Done
    BY <2>1, <2>3 DEF InOutput, BetweenOutputs, Done, Reviewed
  <2> QED
    BY <2>2, <2>3 DEF IInv, Phase
<1> QED
  BY <1>1, UploadInvariance, PTL

\* One script among the outputs is enough for the blind signing switch to count.
THEOREM ScriptsAreFlagged == SafeHost /\ Spec => []ScriptsNeedBlindSigning
<1>1. IInv => ScriptsNeedBlindSigning
  BY DEF IInv, Phase, Blank, InTokens, InInputs, InData, BeforeOutputs, InOutput,
         BetweenOutputs, Done, Complete, ScriptsNeedBlindSigning
<1> QED
  BY <1>1, UploadInvariance, PTL
============================================================================
