------------------------------- MODULE Review -------------------------------
(***************************************************************************)
(* What the user is told of a transaction: the sums of stx_amounts.c, the  *)
(* description of an output (stx_output.c), the decision which outputs get *)
(* no page (stx_op_p2pk.c), and the pages of stx_ui_common.c.              *)
(*                                                                         *)
(* The operations are the calls the serializer makes while a transaction   *)
(* is uploaded, in the order SignTx establishes: the token table, inputs   *)
(* with their tokens, then each output with its tree, its tokens and its   *)
(* end.  A call that fails ends the session (handler_err).  The device's   *)
(* builds differ in how pages are turned, not in the pages.  They are kept *)
(* the NBGL way, in an array whose size the code does not look at.         *)
(***************************************************************************)
EXTENDS SafeInt, Sequences, FiniteSets

CONSTANTS
    BYTE,               \* values of a byte of a path element, 256 in the code
    TOKEN_MAX_COUNT,    \* entries of the token table
    N_UX_PAIRS,         \* pages there is memory for
    Hosts               \* what a host may send, see HostsAssumption

\* A host has token ids, amounts of nanoerg and of tokens, signing and change
\* paths, is known to the device or not, and announces at most ins inputs and
\* outs outputs.
ASSUME HostsAssumption ==
    /\ BYTE \in Nat \ {0} /\ TOKEN_MAX_COUNT \in Nat /\ N_UX_PAIRS \in Nat \ {0}
    /\ \A h \in Hosts :
          /\ DOMAIN h = {"ids", "values", "amounts", "signs", "changes", "known", "ins", "outs"}
          /\ h.values \subseteq Unsigned /\ h.amounts \subseteq Unsigned
          /\ h.known \subseteq BOOLEAN /\ h.ins \in Nat /\ h.outs \in Nat
          /\ \A p \in h.signs \cup h.changes : p \in Seq(0..(BYTE*BYTE*BYTE*BYTE - 1))

VARIABLES
    host,      \* the host connected
    op,        \* how far the session is
    bip32,     \* the path that signs
    amounts,   \* fee, value and tokens[] of sign_transaction_amounts_ctx_t
    table,     \* tokens_table, and how many of its ids are the transaction's
    output,    \* ui.output
    last_approved_change,
    pairs,     \* pair_mem up to the index the next page goes to
    book       \* history: what was really moved, shown and left out

vars == <<host, op, bip32, amounts, table, output, last_approved_change, pairs, book>>

Slots == 1..TOKEN_MAX_COUNT

NoTokens    == [i \in Slots |-> 0]
ZeroAmounts == [fee |-> 0, value |-> 0, tokens |-> NoTokens]
ZeroTable   == [ids |-> <<>>, distinct |-> 0]
ZeroOutput  == [state |-> "NONE", type |-> "UNKNOWN", path |-> <<>>, value |-> 0,
                tokens |-> NoTokens]
NewBook     == [ins |-> 0, outs |-> 0, balance |-> 0, fee |-> 0,
                moved |-> [t \in host.ids |-> 0], given |-> [t \in host.ids |-> 0],
                pages |-> 0, approved |-> {}, hidden |-> {}]

\* app_set_current_command zeroes the context.  The pages are not in it: those of
\* the last session stay until the next one starts.
Zeroed == /\ bip32' = <<>> /\ amounts' = ZeroAmounts /\ table' = ZeroTable
          /\ output' = ZeroOutput /\ last_approved_change' = <<>> /\ book' = NewBook

handler_err == op' = "NONE" /\ Zeroed /\ UNCHANGED <<host, pairs>>

\* Pages written past the end of the array: what the program does then is
\* undefined, and the model goes on when the app is started again.
overrun ==
    /\ op' = "OVERRUN"
    /\ UNCHANGED <<host, bip32, amounts, table, output, last_approved_change, pairs, book>>

restart == op = "OVERRUN" /\ op' = "NONE" /\ Zeroed /\ pairs' = <<>> /\ UNCHANGED host

\* A call whose checks succeed does A; any that fails ends the session.
Handled(ok, A) == (ok /\ A /\ UNCHANGED host) \/ (~ok /\ handler_err)

----------------------------------------------------------------------------
(* Paths: sequences of 32-bit elements, the first one at index 1           *)

Hardened(x)     == (BYTE*BYTE*BYTE*BYTE) \div 2 + x
BIP32_ERGO_COIN == 429

\* For the purpose 44' and Ergo's coin; "COIN" asks for no more.
bip32_path_validate(p, vtype) ==
    /\ Len(p) > 2 /\ p[1] = Hardened(44) /\ p[2] = Hardened(BIP32_ERGO_COIN)
    /\ vtype \in {"COIN_GE2_HARD", "ACCOUNT_E3", "ACCOUNT_GE3"} =>
          \A i \in 3..Len(p) : p[i] >= Hardened(0)
    /\ vtype = "ACCOUNT_E3"  => Len(p) = 3
    /\ vtype = "ADDRESS_E5"  => Len(p) = 5
    /\ vtype = "ADDRESS_GE5" => Len(p) >= 5
    /\ vtype \in {"ADDRESS_E5", "ADDRESS_GE5"} =>
          /\ p[3] >= Hardened(0) /\ p[4] \in {0, 1}
          /\ \A i \in 5..Len(p) : p[i] < Hardened(0)

\* The k-th byte of a path in memory, little-endian, and memcmp(p, q, n) == 0.
ByteOf(p, k) ==
    LET e == p[k \div 4 + 1]
    IN  (CASE k % 4 = 0 -> e
           [] k % 4 = 1 -> e \div BYTE
           [] k % 4 = 2 -> e \div (BYTE * BYTE)
           [] k % 4 = 3 -> e \div (BYTE * BYTE * BYTE)) % BYTE
SameBytes(p, q, n) == \A k \in 0..(n - 1) : ByteOf(p, k) = ByteOf(q, k)

\* Both give memcmp a number of elements where it takes a number of bytes.
bip32_path_is_equal(p, q)     == Len(p) = Len(q) /\ SameBytes(p, q, Len(p))
bip32_path_same_account(p, q) == Len(p) >= 3 /\ Len(q) >= 3 /\ SameBytes(p, q, 3)

----------------------------------------------------------------------------
(* The session, the token table and the inputs                             *)

Page(title, text) == [title |-> title, text |-> text]

\* ui_stx_add_operation_approve_screens on NBGL: a page for the id of an
\* application that is not connected.
approve_screens(known) == IF known THEN <<>> ELSE <<Page("Application", "id")>>

\* stx_operation_p2pk_init and the approval; ui_stx_operation_p2pk_show_token_
\* and_path starts the pages again.
sign_init(p, known) ==
    Handled(bip32_path_validate(p, "ADDRESS_GE5"),
            /\ op' = "INITIALIZED" /\ bip32' = p
            /\ amounts' = ZeroAmounts /\ table' = ZeroTable /\ output' = ZeroOutput
            /\ last_approved_change' = <<>> /\ pairs' = approve_screens(known)
            /\ book' = [NewBook EXCEPT !.pages = Len(approve_screens(known))])

\* start_tx with the table's ids, which the host need not keep distinct.
start_tx(ids) ==
    Handled(op = "INITIALIZED" /\ Len(ids) =< TOKEN_MAX_COUNT,
            /\ op' = "INPUTS" /\ amounts' = ZeroAmounts
            /\ table' = [ids |-> ids, distinct |-> Len(ids)]
            /\ UNCHANGED <<bip32, output, last_approved_change, pairs, book>>)

stx_amounts_add_input(v) ==
    LET sum == checked_add_u64(amounts.value, v)
    IN  Handled(op = "INPUTS" /\ sum.ok,
                /\ amounts' = [amounts EXCEPT !.value = sum.out]
                /\ book' = [book EXCEPT !.ins = @ + 1, !.balance = @ + v]
                /\ UNCHANGED <<op, bip32, table, output, last_approved_change, pairs>>)

\* 0 is INDEX_NOT_EXIST.
token_table_find_token_index(ids, t) ==
    IF \E i \in 1..Len(ids) : ids[i] = t
    THEN CHOOSE i \in 1..Len(ids) : ids[i] = t /\ \A j \in 1..(i - 1) : ids[j] # t
    ELSE 0

\* token_table_add_token for an id the table does not have.
WithToken(t) ==
    IF token_table_find_token_index(table.ids, t) # 0 THEN table.ids
                                                     ELSE Append(table.ids, t)

stx_amounts_add_input_token(t, v) ==
    LET ids == WithToken(t)
        i   == token_table_find_token_index(ids, t)
        sum == checked_add_i64(amounts.tokens[i], v)
    IN  Handled(op = "INPUTS" /\ book.ins > 0 /\ Len(ids) =< TOKEN_MAX_COUNT /\ sum.ok,
                /\ table' = [table EXCEPT !.ids = ids]
                /\ amounts' = [amounts EXCEPT !.tokens[i] = sum.out]
                /\ book' = [book EXCEPT !.moved[t] = @ + v]
                /\ UNCHANGED <<op, bip32, output, last_approved_change, pairs>>)

----------------------------------------------------------------------------
(* Outputs                                                                 *)

\* stx_operation_p2pk_add_output: stx_output_info_init.
add_output(v) ==
    Handled(op \in {"INPUTS", "OUTPUTS"} /\ book.ins > 0,
            /\ op' = "OUTPUTS"
            /\ output' = [ZeroOutput EXCEPT !.state = "INIT", !.value = v]
            /\ book' = [book EXCEPT !.outs = @ + 1, !.given = [t \in host.ids |-> 0]]
            /\ UNCHANGED <<bip32, amounts, table, last_approved_change, pairs>>)

\* Change and fee leave the value, the fee is added up, other outputs stay in.
stx_amounts_add_output(type, v) ==
    LET less == checked_sub_u64(amounts.value, v)
        more == checked_add_u64(amounts.fee, v)
    IN  CASE type = "BIP32"      -> Result(less.ok, [amounts EXCEPT !.value = less.out])
          [] type = "MINERS_FEE" -> Result(less.ok /\ more.ok,
                                           [amounts EXCEPT !.value = less.out, !.fee = more.out])
          [] OTHER               -> Result(TRUE, amounts)

\* The three ways to give an output its tree.  A change path is any address of
\* the wallet; its key is derived on the device.
add_output_tree(type, p) ==
    LET sums == stx_amounts_add_output(type, output.value)
    IN  Handled(/\ op = "OUTPUTS" /\ output.state = "INIT"
                /\ type = "BIP32" => bip32_path_validate(p, "ADDRESS_GE5")
                /\ sums.ok,
                /\ amounts' = sums.out
                /\ output' = [output EXCEPT !.state = "TREE_SET", !.type = type, !.path = p]
                /\ book' = [book EXCEPT
                      !.balance = IF type = "ADDRESS" THEN @ ELSE @ - output.value,
                      !.fee     = IF type = "MINERS_FEE" THEN @ + output.value ELSE @]
                /\ UNCHANGED <<op, bip32, table, last_approved_change, pairs>>)

\* A token already there is refused.
stx_output_info_add_token(i, v) ==
    Result(output.tokens[i] = 0, [output.tokens EXCEPT ![i] = v])

\* p2pk_output_token_cb for the n-th id of the transaction's table.
add_output_token(n, v) ==
    LET t    == table.ids[n]
        i    == token_table_find_token_index(table.ids, t)
        desc == stx_output_info_add_token(i, v)
        rest == checked_sub_i64(amounts.tokens[i], v)
    IN  Handled(/\ op = "OUTPUTS" /\ output.state = "TREE_SET"
                /\ n =< table.distinct /\ desc.ok /\ rest.ok,
                /\ output' = [output EXCEPT !.tokens = desc.out]
                /\ amounts' = [amounts EXCEPT !.tokens[i] = rest.out]
                /\ book' = [book EXCEPT !.moved[t] = @ - v, !.given[t] = @ + v]
                /\ UNCHANGED <<op, bip32, table, last_approved_change, pairs>>)

UsedSlots(tokens) == {i \in Slots : tokens[i] # 0}

\* Mutant: the n-th used entry is taken for the n-th entry.
used_index_plain(tokens, n) == n + 1

\* stx_output_info_used_token_index and stx_amounts_non_zero_token_index: the
\* entry that has n used ones before it.
used_index(tokens, n) ==
    CHOOSE i \in UsedSlots(tokens) :
        Cardinality({j \in UsedSlots(tokens) : j < i}) = n

\* Mutant: the branch of a change address is not compared.
should_show_any_branch(o) ==
    CASE o.type = "MINERS_FEE" -> Cardinality(UsedSlots(o.tokens)) > 0
      [] o.type = "BIP32" ->
            \/ ~bip32_path_validate(o.path, "ADDRESS_E5")
            \/ /\ ~bip32_path_is_equal(o.path, last_approved_change)
               /\ \/ ~bip32_path_same_account(o.path, bip32)
                  \/ o.path[5] >= (bip32[5] + 20) % (BYTE*BYTE*BYTE*BYTE)
      [] OTHER -> TRUE

\* stx_operation_p2pk_should_show_output_confirm_screen, for a finished output.
should_show(o) ==
    CASE o.type = "MINERS_FEE" -> Cardinality(UsedSlots(o.tokens)) > 0
      [] o.type = "BIP32" ->
            \/ ~bip32_path_validate(o.path, "ADDRESS_E5")
            \/ /\ ~bip32_path_is_equal(o.path, last_approved_change)
               /\ \/ ~bip32_path_same_account(o.path, bip32)
                  \/ o.path[4] # bip32[4]
                  \/ o.path[5] >= (bip32[5] + 20) % (BYTE*BYTE*BYTE*BYTE)
      [] OTHER -> TRUE

\* Pages n = 0, 1, ... of the k-th token: its id, then its text.
TokenPages(tokens, texts) ==
    [n \in 1..(2 * Cardinality(UsedSlots(tokens))) |->
        LET i == used_index(tokens, (n - 1) \div 2)
        IN  IF n % 2 = 1 THEN Page("Token", table.ids[i])
                         ELSE Page("Raw Value", texts[i])]

\* ui_stx_display_output_state on every page of the output: a change output has
\* a page for its path only.
OutputPages(o) ==
    IF o.type = "BIP32" THEN <<Page("Change", o.path)>>
    ELSE <<Page("Address", o.type), Page("Amount", o.value)>> \o TokenPages(o.tokens, o.tokens)

Fit(pages) == Len(pairs) + Len(pages) =< N_UX_PAIRS

\* The output's last piece: p2pk_output_finished_cb and show_output_screen_if_
\* needed with ui_stx_add_output_screens, which does not check that they fit.
finish_output ==
    /\ op = "OUTPUTS" /\ output.state = "TREE_SET"
    /\ \/ /\ should_show(output) /\ Fit(OutputPages(output))
          /\ pairs' = pairs \o OutputPages(output)
          /\ last_approved_change' = IF output.type = "BIP32" THEN output.path ELSE <<>>
          /\ output' = [output EXCEPT !.state = "SHOWN"]
          /\ book' = [book EXCEPT !.pages = @ + Len(OutputPages(output)),
                !.approved = IF output.type = "BIP32" THEN @ \cup {output.path} ELSE @]
       \/ /\ ~should_show(output)
          /\ output' = [output EXCEPT !.state = "HIDDEN"]
          /\ book' = [book EXCEPT !.hidden = @ \cup
                {[type |-> output.type, path |-> output.path,
                  tokens |-> \E t \in host.ids : book.given[t] > 0,
                  approved |-> book.approved]}]
          /\ UNCHANGED <<pairs, last_approved_change>>
    /\ UNCHANGED <<host, op, bip32, amounts, table>>

output_overrun ==
    /\ op = "OUTPUTS" /\ output.state = "TREE_SET"
    /\ should_show(output) /\ ~Fit(OutputPages(output)) /\ overrun

\* ui_stx_display_tx_state: a negative balance was created by the transaction.
BalanceText(v) == IF v < 0 THEN <<"Minting", U(-v)>> ELSE <<"Burning", v>>

TxPages == <<Page("Fee", amounts.fee)>> \o
           TokenPages(amounts.tokens, [i \in Slots |-> BalanceText(amounts.tokens[i])])

\* ui_stx_operation_p2pk_show_confirm_screen, after the last announced output;
\* again nothing checks that the pages fit.
show_confirm_screen ==
    /\ op = "OUTPUTS" /\ output.state \in {"SHOWN", "HIDDEN"} /\ Fit(TxPages)
    /\ op' = "FINALIZED" /\ pairs' = pairs \o TxPages
    /\ UNCHANGED <<host, bip32, amounts, table, output, last_approved_change, book>>

confirm_overrun ==
    /\ op = "OUTPUTS" /\ output.state \in {"SHOWN", "HIDDEN"} /\ ~Fit(TxPages) /\ overrun

\* Any other command, a refusal or the answer to the final question.
session_ends == op # "NONE" /\ handler_err

----------------------------------------------------------------------------

Init ==
    /\ host \in Hosts /\ op = "NONE" /\ bip32 = <<>> /\ amounts = ZeroAmounts
    /\ table = ZeroTable /\ output = ZeroOutput /\ last_approved_change = <<>>
    /\ pairs = <<>> /\ book = NewBook

Tables(ids) == UNION {[1..n -> ids] : n \in 0..(TOKEN_MAX_COUNT + 1)}

\* The host keeps to its bounds and ends an output before it starts the next.
Call ==
    \/ \E p \in host.signs, known \in host.known : sign_init(p, known)
    \/ \E ids \in Tables(host.ids) : op = "INITIALIZED" /\ start_tx(ids)
    \/ \E v \in host.values : book.ins < host.ins /\ stx_amounts_add_input(v)
    \/ \E t \in host.ids, v \in host.amounts : stx_amounts_add_input_token(t, v)
    \/ \E v \in host.values :
          book.outs < host.outs /\ output.state \notin {"INIT", "TREE_SET"} /\ add_output(v)
    \/ \E p \in host.changes : add_output_tree("BIP32", p)
    \/ add_output_tree("MINERS_FEE", <<>>)
    \/ add_output_tree("ADDRESS", <<>>)
    \/ \E n \in 1..Len(table.ids), v \in host.amounts : add_output_token(n, v)
    \/ finish_output \/ output_overrun
    \/ show_confirm_screen \/ confirm_overrun
    \/ session_ends

Next == (op # "OVERRUN" /\ Call) \/ restart

Spec == Init /\ [][Next]_vars

----------------------------------------------------------------------------
(* Properties                                                              *)

\* Everything stored is of its type: amounts fit their words, the table its
\* entries.
TypeOK ==
    /\ op \in {"NONE", "INITIALIZED", "INPUTS", "OUTPUTS", "FINALIZED", "OVERRUN"}
    /\ amounts.fee \in Unsigned /\ amounts.value \in Unsigned
    /\ amounts.tokens \in [Slots -> Signed]
    /\ Len(table.ids) =< TOKEN_MAX_COUNT /\ table.distinct =< Len(table.ids)
    /\ output.value \in Unsigned /\ output.tokens \in [Slots -> Unsigned]
    /\ output.state \in {"NONE", "INIT", "TREE_SET", "SHOWN", "HIDDEN"}

\* No sum of stx_amounts.c ever wraps: the value is exactly the inputs minus
\* change and fee, the fee exactly the outputs to the miner, and the balance of
\* every token exactly what the inputs bring minus what the outputs take, held
\* in the first entry of the table with its id and nowhere else.
SumsExact ==
    /\ amounts.value = book.balance /\ amounts.fee = book.fee
    /\ \A i \in Slots : amounts.tokens[i] # 0 =>
          i =< Len(table.ids) /\ i = token_table_find_token_index(table.ids, table.ids[i])
    /\ \A t \in host.ids :
          LET i == token_table_find_token_index(table.ids, t)
          IN  book.moved[t] = IF i = 0 THEN 0 ELSE amounts.tokens[i]

\* The pages list exactly these tokens, each with its text.
TokensTold(pages, told) ==
    /\ Len(pages) = 2 * Cardinality(told)
    /\ told = {<<pages[2 * k - 1].text, pages[2 * k].text>> : k \in 1..Cardinality(told)}

Moved(t) == IF book.moved[t] < 0 THEN <<"Minting", -book.moved[t]>>
                                 ELSE <<"Burning", book.moved[t]>>

\* What is on the pages is what the transaction does.  The pages of an output
\* other than change give its amount and exactly its tokens with their amounts;
\* the last pages give the whole fee and exactly the tokens that are created or
\* destroyed, each with the true amount, the largest magnitude (INT64_MIN)
\* included; and no page of an earlier session is among them.  All this as long
\* as the pages have fit in their array.
ScreensTell ==
    LET start == IF op = "FINALIZED" THEN book.pages ELSE Len(pairs)
        Rest(n) == SubSeq(pairs, n, Len(pairs))
        given == {<<t, book.given[t]>> : t \in {x \in host.ids : book.given[x] # 0}}
        moved == {<<t, Moved(t)>> : t \in {x \in host.ids : book.moved[x] # 0}}
        first == Len(pairs) - 1 - 2 * Cardinality(given)
    IN  /\ op \notin {"NONE", "OVERRUN"} => start = book.pages
        /\ op = "OUTPUTS" /\ output.state = "SHOWN" =>
              IF output.type = "BIP32" THEN pairs[Len(pairs)].text = output.path
              ELSE /\ first > 0 /\ pairs[first].text = output.type
                   /\ pairs[first + 1].text = output.value
                   /\ TokensTold(Rest(first + 2), given)
        /\ op = "FINALIZED" =>
              /\ pairs[start + 1].text = book.fee
              /\ TokensTold(Rest(start + 2), moved)

\* An output that gets no page is a fee without tokens, or change to an address
\* 44'/429'/a'/c/i of this wallet; as long as no change address was approved in
\* the session, that address has the branch of the signing one and an index
\* below its index + 20.
HiddenOutputsAreOwn ==
    \A o \in book.hidden :
        \/ o.type = "MINERS_FEE" /\ ~o.tokens
        \/ /\ o.type = "BIP32"
           /\ bip32_path_validate(o.path, "ADDRESS_E5")
           /\ o.approved = {} => o.path[4] = bip32[4] /\ o.path[5] < bip32[5] + 20

\* What the comments in stx_operation_p2pk_should_show_output_confirm_screen
\* say of a change output without a page: its path was approved already, or it
\* is an address of the signing account with an index below the current + 20.
ChangeApprovedOrNear ==
    \A o \in book.hidden :
        o.type = "BIP32" =>
            \/ o.path \in o.approved
            \/ /\ SubSeq(o.path, 1, 4) = SubSeq(bip32, 1, 4)
               /\ o.path[5] < bip32[5] + 20
============================================================================
