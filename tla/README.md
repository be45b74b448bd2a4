# Verification of the Ergo application for Ledger devices

This directory models the application under `src/src` in TLA+, checks the models
with TLC and proves their main safety properties with TLAPS.

## 1. The system

The program is a single-threaded embedded application. A host (a wallet) sends it
command APDUs; it answers each with a response APDU; some commands first ask the
user of the device. Its parts:

| part | source | state it keeps | operations |
|---|---|---|---|
| main loop, dispatcher | `app_main.c`, `apdu_dispatcher.c`, `sw.h` | none of its own | receive, parse, dispatch |
| application context | `context.[ch]`, `helpers/session_id.h` | current command, the union of the command contexts, busy flag, connected application, session key | `app_init`, `app_set_current_command`, accessors |
| settings | `context.h` (`N_storage`), `ui_menu_*` | `blind_signing_enabled`, in flash | toggle |
| screens and menu | `ui/` | `G_ux_flow_steps`, callbacks, `flow_response` | add a screen, show a flow, wait for the user |
| GetExtendedPublicKey, DeriveAddress | `commands/extpubkey`, `commands/deriveaddress` | a context each | one handler and its callbacks |
| AttestInputBox | `commands/attestinput` | session, box, attested tokens | init, chunks, get frame |
| SignTransaction | `commands/signtx` | session, P2PK operation, amounts, output info, review screens | init, 12 sub-commands, confirm |
| transaction serializer | `ergo/tx_ser_*.c` | counters, hash, token table | one operation per part of a transaction |
| checked arithmetic | `common/safeint.h` | none | add and subtract, u64 and i64 |
| byte buffers, varints, base58, addresses, paths | `common/`, `ergo/address.c`, `ergo/ergo_tree.c` | none | conversions |
| cryptography | `helpers/crypto.c`, `ergo/schnorr.c`, `helpers/blake2b.c` | none | keys, hash, signature |

Two builds exist. On BAGL devices (Nano) a prompt is asynchronous: the handler
returns without an answer, the main loop goes on receiving commands, and a button
callback answers later. On NBGL devices (touch screens) the handler waits in
`io_ui_process`.

What is hard to test: the interleaving of commands with button presses; the one
context and the one array of screens that all commands and menus share; the long
sub-command sequences of a signing session; the power switch; counters and tables
at their limits.


What makes each part correct:

- **dispatcher, context, screens**: every command gets exactly one answer, from
  its handler or from one callback; the busy flag is up exactly while the user is
  asked; a callback acts on the request the user was shown; the buttons on display
  belong to the open prompt; whoever is asked in the end leads to an answer.
- **key and address commands**: nothing leaves without a button press except to a
  connected application, which was connected since power-on.
- **SignTransaction**: a transaction with an output that cannot be shown in clear
  is signed only with the setting on; the review shows path and pages; each output
  is reviewed or exempt exactly once.
- **serializer**: what is hashed is a transaction, complete when it is signed, for
  every order and chunking the code accepts of a host that keeps the two promises of
  section 3; tables and counters stay in bounds;
  no accepted prefix is a dead end.
- **AttestInputBox**: the frames of a box make it up, each token once and in order; a
  signing session counts only pieces of boxes uploaded since the app was started, all
  under the id of the input, whatever the host does with the frames in between; and a
  whole box wherever only one upload has that id.
- **amounts, arithmetic, pages**: value, fee and token balances are the exact sums,
  or the session has ended; the pages tell them, as long as there is room; an output that gets no page is a
  fee or the wallet's own.
- **buffers and numbers**: a buffer is a queue of bytes that refuses what does not
  fit; a number comes back as it was written.

## 2. The modules

| module | what it is |
|---|---|
| `ErgoApp` | control of the whole application: host, user and power switch interleave |
| `MCErgoApp` | its instances for TLC |
| `ErgoAppProofs` | theorems about `ErgoApp` |
| `SigningSession` | abstract: stages in order, one session id and token, one signature; `ErgoApp` implements it |
| `TxFormat` | the serialized transaction, as a reader of the pieces that are hashed |
| `SignTx` | the upload of a transaction: sub-commands, P2PK operation, output description, serializer |
| `MCSignTx` | its instances for TLC |
| `SignTxProofs` | theorems about `SignTx` |
| `SafeInt` | the checked arithmetic of `safeint.h`, at any width |
| `SafeIntProofs` | theorems about `SafeInt` |
| `Review` | amounts, output description, change paths and pages of a transaction |
| `MCReview` | its instances for TLC |
| `ReviewProofs` | theorems about `Review` |
| `AttestedInputs` | abstract: a session counts pieces of boxes the device has seen, tied together by an id |
| `Attest` | boxes, frames, keys, the host that holds frames; implements `AttestedInputs` |
| `MCAttest` | its instances for TLC |
| `AttestProofs` | theorems about `Attest`, its refinement included |
| `ByteQueue` | abstract: a bounded queue of bytes |
| `RwBuffer` | read-write buffers and the numbers in them; implements `ByteQueue` |
| `MCRwBuffer` | its instances for TLC |
| `NumberLemmas` | induction, recursion and digits of natural numbers |
| `RwBufferProofs` | theorems about `RwBuffer`, its refinement included |
| `NumbersProofs` | theorems about the numbers in a buffer |

The two specifications meet in the operation state: `ctx.op` of `ErgoApp` and `op`
of `SignTx` are the same `p2pk.state`; `op` of `Review` is a coarser view of it, and
`Attest` has the two commands the frames go between. `ErgoApp` leaves it to an input whether a
sub-command is accepted and completes the transaction; `SignTx` says when that is
the case, and leaves screens and answers to `ErgoApp`.

### ErgoApp

State: `current_command`, `ctx` (the union `commands_ctx`, one record),
`ui_busy`, `connected_app_id` as in `context.h`; `blind_signing_enabled` in flash;
`screen`, `steps` (`G_ux_flow_steps`), `flow_len`, `signtx_screen` (the static
counter of `stx_op_p2pk.c`) and `approve_cb` (`G_ui_approve_reject_callback`) for
the display; `owed` and `out` for the answers; the rest is history.

There is one action per handler or sub-command (`handler_get_extended_public_key`,
`handler_derive_address`, `attest_*`, `sign_*`), one per button of a prompt
(`bagl_decision`, `nbgl_decision`, `bagl_sign_decision`, ...), the menu
(`open_menu`, `toggle_blind_signing`, `quit`) and `PowerOn`. A handler answers with
`Reply` or leaves the answer to a callback with `Defer`. The constant `Ui` chooses
the build. On NBGL a handler that waits is modelled as two steps, before and after
the user's choice, with the busy flag up in between; no command is received there.

Abstracted: a path, a key, a box or an amount is only *accepted* or *not*, and
that is an input of the action. The pages of a transaction are one step, "dynamic".

`SigningSession` is the promise about signing without screens, prompts and the other
commands: a session is opened for one id and token unless a final transaction waits
for its answer, goes through the six stages in order, ends at any time, and gives out a
signature only from the last one, by which it ends. Under the mapping `stage <- ctx.op`,
`owner <- session and token`, `signature <- the last answer` (each empty while another
command has the context), `ErgoApp` implements it (`SignsInSession`). The owner is what
the device keeps for the session; that a sub-command carries its id is the guard
`Admitted` of each action, and a handler without that check would not be noticed here.

### SignTx and TxFormat

State: `op`, `full`, `table`, `input`, `box`, `output`, `blind` are the fields of
the structs of the same names that decide anything; sizes and counts are kept as
numbers. `hash` is the reader of `TxFormat` that has been fed every
`blake2b_update` on `tx_hash`; `seen` counts the outputs begun, shown and exempt.

One action per sub-command 0x10 to 0x20. Every handler has the form
`Handled(checks, effect)`: with any check failed the session is closed and the
context zeroed, as `handler_err` does. Contents that do not parse, do not verify
or do not add up are the input `valid`; whether a change path is approved without
asking is the input `auto` (`Attest` and `Review` say when that is the case). An output with a
script counts as shown, although a BAGL device with the setting off shows the blind
signing warning instead of its pages; `ErgoApp` tells the two apart. The union of `input_ctx` and `box_ctx` is two
variables, since the code reads an arm only after it initialised it. `TxFormat`
stands for the format the signature is about and not for code: it gives `SignTx`
something independent to be compared with.

### SafeInt and Review

`SafeInt` gives the four operations with every conversion C makes: an operand of a
mixed comparison or sum becomes unsigned (`U`), the stored sum becomes signed (`S`).
`Half` stands for 2^63. `Review` starts where `SignTx` abstracts: its actions are
the calls the serializer makes with parsed data (a table, an input and its tokens,
an output, its tree, its tokens, its end), which `SignTx` shows to come in this
order. State: `amounts`, `table`, `output`, `last_approved_change` are the structs of
those names; `bip32` is the signing path; `pairs` is `pair_mem` up to the index of the
next page. `book` is history: exact sums, shown pages, outputs left out. Paths are
sequences of 32-bit elements compared byte by byte, as the code does. A page is its
title and the value told; how that value is written out is left out. The pages outlive
the session, as the static `pair_list` does, until the next one starts. Nothing in
`stx_ui_nbgl.c` compares the index of a page with the size of the array: pages that do
not fit (`Fit`) lead to a state of its own, `OVERRUN`, from which only a restart of the
app leads on. What the program does there is undefined, and no property says anything
about it.

### Attest and AttestedInputs

State: `key` counts the starts of the app, each of which draws a new session key;
`attest` is `attest_input_ctx_t`, `sign` the input context of a signing session;
`host` holds the frames with the key that signed them. Frames are lost, repeated,
reordered, mixed and kept over restarts: the host may send any frame it holds with
any signature it holds. Two ideals, external to the code: blake2b has no collisions,
and an HMAC verifies exactly if this key made it for this frame. What is hashed is not
external: `BoxId` is the sequence `tx_ser_box.c` feeds to the hash, value, tree, height,
number of tokens, tokens, registers and transaction. The sizes of tree and registers,
which the host announces, are not in it, so two uploads that cut the same bytes
differently have one id.

`AttestedInputs` is the promise to a signer: boxes are seen in full; an input has the
value, the number of pieces and the first piece of a seen box and at every place a piece
of a seen box with its id; a session is forgotten, and a restart forgets all. Under the
mapping `attested <- contents of seen`, `inputs <- inputs`, `Attest` implements it
(`CountsAttestedPieces`): uploads, frames and keys are stuttering steps but for the
last part of a box and the last frame of an input. That an input is one whole box
follows only where one upload has its id (`WholeUnlessIdsCoincide`).

### RwBuffer and ByteQueue

State: `mem`, `offset` (`read.offset`) and `wpos` (`read.size`). Actions: the seeks
with counts up to the last `size_t`, fixed-width numbers in both byte orders,
unsigned and zigzag variable-length numbers, byte strings, shifting and emptying.
`sent` is history. `Power` is the weight of a byte or a group of bits, the C code's
shift; it is a recursive function because the provers know no law of `^`. The reading half is the SDK's buffer, modelled from its copy under
`unit-tests/utils`. `ByteQueue` is a queue with room: a call either succeeds and adds
or takes whole strings, or is refused without effect (a variable-length number that is
cut off is consumed first), and compacting changes the room and not the queue.
`RwBuffer` implements it with `q <- ` the bytes between the two positions
(`ActsAsQueue`).

## 3. Environment assumptions

`ErgoApp` with `Disciplined = TRUE` assumes that the user leaves the menu alone
while a signing session is open and that a host does not continue a session it was
answered DENY in. It is needed on BAGL only, and only because of two findings
below; all NBGL runs are without it.

`SignTx` has `Promises`: `"finish_box"`, the host completes an output before it
starts the next, and `"announced_tree"`, it sends tree chunks only where it
announced a tree. The code checks neither. `OutputRestarted` drops the first, with the
counterexample that follows; without the second an empty chunk is accepted as the tree
of an output with tree size 0. For everything else the host is arbitrary.

`Review` assumes of the host that it ends an output before the next, as `SignTx`
does. `RwBuffer` assumes that no caller puts the write position before
the read position (`Ordered`), after which the length of the data would wrap; none
does.

Fairness: `FairSpec` has weak fairness of `UserAnswers` only: a user who is asked
presses a button in the end, and a status page closes by its timer. Nothing is
assumed of the host, the menu or the power switch. `UploadSpec` restricts the host
to commands the device accepts in one session and has weak fairness of them:
`UploadCompletes` says that no accepted prefix is a dead end or a loop. It is a
statement about the device for a host that wants to finish.

## 4. The runs

| run | checks | distinct states |
|---|---|---|
| `AppNBGL` | types, one answer, busy flag, request kept, silent release, DENY ends, blind needs setting; implements `SigningSession`; an answer comes, the device becomes free; two tokens, two session ids | 45,696 |
| `AppBAGL` | the same but DENY, and the flows and review in the shared array; one token | 94,127 |
| `UploadSafe` | hash, review, blind flag, token table, types | 32,342 |
| `UploadLive` | every upload can be completed | 8,888 |
| `Review` | sums are exact, pages tell the transaction, hidden outputs are the wallet's own | 417,902 |
| `Attest` | frames make up the box; an input is a whole box unless ids coincide; implements `AttestedInputs` | 117,484 |
| `Buffers` | positions in bounds, numbers read back; implements `ByteQueue` | 72,811 |

Bounds. Tokens: 0 (none), one and another, all that `is_known_application` tells
apart. Session ids: two, for the right and a wrong one. `MAX_NUMBER_OF_SCREENS` is
the code's 16. Inputs, data inputs and outputs: 0, 1, 2 (refused, the last, not the
last). Frames 0, 1, 2. `TOKEN_MAX_COUNT` 2 with up to 2 announced, so that the
table fills up both ways. `MAX_DATA_CHUNK_LEN` 2 and `MAX_TX_DATA_PART_LEN` 4 with
sizes 0, 1, 2, 3, 5: nothing, the refused extension size, exactly a chunk, more
than one, too long. One chunk holds at most one id or token, so several commands
are needed. The theorems hold without these bounds.

`Review`: words of three bits (`Half` 4), so that both ends of both ranges are a few
tokens away; two tokens and two table entries, with tables that list an id twice; path
elements of four bytes of 128 values, the largest TLC's integers take, around the
index 20, another branch, another account, the last index, too long and too short
paths; 14 pages, `TOKEN_MAX_COUNT * 2 + 10` as in the code. Four hosts: one with
amounts, one with paths, one the device does not know, and one with an output more than
there are pages for; both places that can overrun the pages do. `Attest`: 2 tokens a
frame and 80 bytes a token, so that a full frame has the code's 160 bytes and the 8-bit
products are those of the code; boxes of 0, 3, 4 (a full table) and 5 tokens, one with
a token twice, and among them two with other tokens and one id, both of two frames, so
that frames of both can meet in one input; two inputs, two starts, and a host that
holds up to three frames (`MaxHeld`), one more than an input takes. `Buffers`: four bytes of memory, counts
from 0 to 5 and the last of a `size_t`; bytes of 8 values and words of 32, so that a
number takes one to three groups and the last carries one bit, as the tenth does in
the code.

`AppBAGL` uses the view `LiveState`, which leaves out steps of the array that will be
written before they are read. `Buffers` uses the view `Buffer`, without the last answer,
which no action reads. `UploadLive` does not check for deadlock: a completed upload has
no further step in `UploadSpec`.

Runs that are expected to find a violation, each the counterexample to a sentence
of the documentation or of a screen:

| run | what the code does |
|---|---|
| `TokenNotApproved` | a signing session connects its token without a prompt (INS-21:15) |
| `BlindAfterDeny` | on BAGL the session survives the DENY of the blind signing warning and can be signed |
| `ReviewOverMenu` | on BAGL the menu overwrites the first screens of a review that is being collected (INS-21:24) |
| `OutputRestarted` | an output can be started in the middle of another one; what was hashed of it stays (INS-21:204) |
| `ChangeNotShown` | a change output to another account gets no page: the paths are compared over as many bytes as they should be over elements (`stx_op_p2pk.c:319`, `:323`) |

Seen while modelling, without a run:

- `session_id_new_random(ctx->session)` avoids the previous id, which has been zeroed
  before the call, so the id can repeat (INS-21:13 calls it unique);
- `tx_ser_box.c:128-148` and `:262-281` hash the bytes of tree and registers but not their sizes.
  A box id therefore does not tell apart two uploads that divide the same bytes
  differently into tree, tokens and registers, without a collision of blake2b; a frame
  of each then passes `stx_handler.c:138` and `tx_ser_input.c:46` as the frames of one
  input. `MCAttest` has such a pair (`OneId`), and `Attest` promises no more than holds;
- the pages of a transaction are written to an array of `N_UX_PAIRS` entries
  (`display.h:14`) without a check of the index (`stx_ui_nbgl.c:82-97`, `:171-190`): the
  checks there are of `signtx_screen`, which stays 0 on NBGL. `Review` reaches it by
  enough outputs or tokens (`output_overrun`, `confirm_overrun`);
- an empty chunk is accepted as the tree of an output with tree size 0 (INS-21:146),
  and a fee or change tree for one with another size (INS-21:154); in the second case
  the hash is still that of a transaction, and `UploadSafe` includes it;
- INS-21:66 says the limit of tokens is 20, `TOKEN_MAX_COUNT` is 100;
- `amounts.value` is not displayed; it serves to refuse change and fees above the
  inputs. A shown change output has a page for its path only;
- `gve_get_u64` accepts a number of ten bytes whose last one still has the mark;
  `gve_put_i32` sign-extends large magnitudes, which `gve_get_i32` then refuses, but
  only tests call it.

## 5. The proofs

`ErgoAppProofs`: under `SafeUi` (NBGL, or a disciplined environment) and for any
tokens, session ids and at least ten screens, `Spec => []IInv` (`Invariance`), and
from it `TypeOK`, `OneAnswerPerCommand`, `BusyWhileAsking`, `PromptKeepsRequest`,
`FlowAnswersPrompt`, `ReviewShowsTransaction` and the action properties
`SilentReleaseWasGranted` and `BlindNeedsSetting`, and the refinement `SignsInSession`. `IInv` adds two parts to the properties. `ReviewLaidOut`:
while a signing session is open the array holds only the review's own screens up to
`signtx_screen`, with the path first and room for the closing ones; without it,
nothing says what the confirm flow will show. `GrantRecorded`: the connected
application is one that was approved or started signing. The argument has one
lemma per kind of step (a quiet step, a step that opens a menu, a prompt, an
answer) and one step per action.

`BlindNeedsSetting` (`BlindIsAllowed`) looks at a step that reads a flag set commands
earlier, so it needs `BlindInv` besides: a transaction under review is allowed by the
setting, and on BAGL, where the setting is read when an output arrives, so is the one
being collected unless the warning is on display. Toggling the setting in between is
what makes it an induction: on NBGL the menu is closed while a handler waits, on BAGL
it takes the discipline of section 3. `DenyEndsCommand` (`DenyIsFinal`) is proved for
NBGL without any assumption; for BAGL it is false (`BlindAfterDeny`).

`SignsInSession` (`SessionsKept`) takes each step of `ErgoApp` to a step of
`SigningSession` or to a stutter. The stages are checked by the handlers, so most steps
need only what they say. What is not checked anywhere is that nothing gets between a
final transaction and its answer: the start of a session, a key command or an error would
put another context in its place. `SessionInv` says why not: a final transaction is on
display, as a review or, on NBGL, as the refusal to sign blindly, and so by
`BusyWhileAsking` every other command is turned away. Its other half, that a review
belongs to a signing session, makes the callback's answer one about that session.

`SignTxProofs`: under `SafeHost` (both promises) and for all counts, sizes and
limits, `Spec => []IInv` (`UploadInvariance`), and from it `TypeOK`, `TableHolds`,
`HashFollowsFormat`, `EveryOutputReviewed` and `ScriptsNeedBlindSigning`. `IInv` is
a disjunction of phases (`Blank`, `InTokens`, `InInputs`, `InData`,
`BeforeOutputs`, `InOutput`, `BetweenOutputs`, `Done`): in each the serializer's
counters equal what the reader still expects, and the outputs seen are those begun,
less the open one. None of the properties is inductive alone, because the handlers
consult the counters and never the hash. Lemmas describe the reader first, then
each handler.

`SafeIntProofs`: for every width, each of the four operations succeeds exactly if the
mathematical result fits its word and then stores that result (`AddUnsignedExact`,
`SubUnsignedExact`, `AddSignedExact`, `SubSignedExact`). Only `Half \in Nat \ {0}` is
assumed. `AddSignedExact` covers a negative left operand too, which the application
never passes, since all inputs come before all outputs.

`AttestProofs`: for all boxes, frame and table sizes and numbers of starts,
`Spec => []IInv` (`AttestInvariance`), and from it `TypeOK`, `FramesMakeUpTheBox`,
`WholeUnlessIdsCoincide` (`AttestCounts`) and the refinement `CountsAttestedPieces`
(`AttestRefines`). `IInv` follows a token on its
way: the table holds the tokens uploaded so far and no id twice (`UploadedSoFar`);
every frame the host holds is a frame of a whole box, of a box seen since the start
if the present key signed it (`HostHoldsFrames`); an open input has k pieces, the first
of one seen box, which also gave its value and number of frames, and the j-th the j-th
of some seen box with the same id (`CountedSoFar`); a finished input has all of them
(`InputsCounted`). The refinement needs `CountedSoFar`, since `Attest` counts frame by
frame and never sees the box again. Nothing is assumed of ids: where only one seen box
has the id of an input, all its pieces are of that box, which is `AttestCounts`. Assumed of the constants
(`AttestAssumption`): the bytes of a full frame fit a `uint8`, as 4 * 40 do, without
which the code would hand on fewer tokens than were signed, and so does
`TOKEN_MAX_COUNT`, which is 100.

`ReviewProofs`: for every width, table size, number of pages, host and path,
`TypeOK`, `SumsExact`, `HiddenOutputsAreOwn` and `ScreensTell`. `IInv` says that each
balance is kept at the first entry of its id in the table and is zero at the others
(`Books` in `Exact`), which is what makes repeated ids harmless; that the last pages
are those of the output or the transaction on display, until they overrun the array
(`Told`); and that the last
change path shown was approved (`Approved`). The exactness of each sum comes from the
four theorems of `SafeIntProofs`. That the n-th page finds the n-th token in use is a
counting argument over the entries (a bijection between pages and used entries).
Assumed: `N_UX_PAIRS` is not 0 (the code's is `TOKEN_MAX_COUNT * 2 + 10`).

`RwBufferProofs`: for memories, words and bytes of any size with `2 * Size < SIZE_T`,
`TypeOK` (`BufferTypes`), which is inductive as it stands under `Ordered`, and the refinement
`ActsAsQueue` (`BufferIsQueue`), call by call: what is queued is a window on the
memory, a write leaves the window's bytes alone, a read splits it, compacting copies
it. That the calls put bytes at all needs the loop of `gve_put_u64`, a recursive
function: `GvePut` shows by least counterexamples that the function exists and yields
byte strings. The same argument gives `GveTakesWhatWasPut`: all bytes of a number but
the last are marked, so the reader consumes exactly what the writer put, if that is no
longer than its rounds.

`NumbersProofs`: for bytes, groups and words of any size, `GveReadBack` (a number of a
word takes at most `Rounds` groups, and reading them gives the number back, whatever
follows) and `NumbersReadBack` (`NumbersComeBack`). For one number the argument is that
its digits to the base b, weighted by the powers of b, make the number modulo b^n
(`AllDigits`), for the bytes of a fixed width and the groups of a variable one alike;
decoding undoes zigzag on a word. `NumbersReadBack` speaks of the next number only and
is not inductive: a read uncovers the one behind it. `NumbersLaid` says that there are
cut points between the read and the write position, one for each number in `sent`, and
between two of them lie exactly the bytes of that number. A write adds a cut point, a
read drops the first, compacting moves them all. `NumberLemmas` has what the provers
lack: induction over a set of numbers, that a function defined by recursion exists,
and division with remainder. Assumed of the constants: `Rounds` groups are just enough
for a word, as ten of 7 bits are for 64.

Only model-checked:

- the liveness properties `AnswerComes`, `BecomesFree` and `UploadCompletes`: fairness
  is out of the prover's reach;
- the five runs that find a violation.

## 6. Not modelled

- Cryptography: number theory and hashing. A hash is the sequence of what was hashed,
  an HMAC is ideal, a key that cannot be derived is a failing call.
- base58, addresses and the recognition of trees: byte-level conversions without
  state; the models keep which kind of tree was found.
- How a path, an id, an amount is read and written out as text, and paging of a text.
- The 16- and 32-bit signed variable-length integers, which only tests use.
- Tests and fuzzing harnesses, read for what they expect.

`PROJECT.json` lists every component and every hazard, with the ones no property
covers. Of those, the overrun of the page array is a state of `Review` about which
nothing can be claimed; an output with an empty tree is excluded by a promise of
section 3; the repeated session id is described above; the stale application id on an
NBGL screen is a text.

## 7. What could come next

`Review` and `SignTx` share the operation state; a composition of the two would
discharge the order of calls `Review` takes from `SignTx`. Likewise `SigningSession` is
implemented by `ErgoApp` only: `SignTx`, which has no screens, lets a new session start
over a final transaction, which in the application the busy flag prevents.
