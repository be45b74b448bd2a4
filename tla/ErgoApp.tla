------------------------------ MODULE ErgoApp ------------------------------
(***************************************************************************)
(* The control of the Ergo application for Ledger devices: the APDU        *)
(* dispatcher, the four stateful commands (GetExtendedPublicKey,           *)
(* DeriveAddress, AttestInputBox, SignTransaction), the single command     *)
(* context they share, the "UI busy" flag, the screens and the menu.       *)
(*                                                                         *)
(* Three actors interleave: the host, which sends commands; the user, who  *)
(* presses buttons; the device, which may lose power.  On the BAGL devices *)
(* a prompt is asynchronous: the handler returns without an answer and a   *)
(* screen callback sends it later, while further commands keep arriving.   *)
(* On the NBGL devices the handler blocks in io_ui_process.                *)
(*                                                                         *)
(* What a command carries is abstracted to the outcome of checking it (an  *)
(* input of the action); the transaction serializer is in SignTx.          *)
(***************************************************************************)
EXTENDS Naturals, Sequences, FiniteSets

CONSTANTS
    AppTokens,             \* the non-zero authorization tokens hosts use
    SessionIds,            \* the values cx_rng_u8 can produce, 0 excluded
    Ui,                    \* "BAGL" or "NBGL": the screen library built in
    Disciplined,           \* see Discipline below
    MAX_NUMBER_OF_SCREENS  \* capacity of G_ux_flow_steps

ASSUME ConstantsAssumption ==
    /\ AppTokens \subseteq Nat \ {0}
    /\ SessionIds \subseteq Nat \ {0}
    /\ SessionIds # {}
    /\ Ui \in {"BAGL", "NBGL"}
    /\ Disciplined \in BOOLEAN
    /\ MAX_NUMBER_OF_SCREENS \in Nat
    /\ MAX_NUMBER_OF_SCREENS >= 10

VARIABLES
    current_command,       \* G_app_context.current_command
    ctx,                   \* G_app_context.commands_ctx, the shared union
    ui_busy,               \* G_app_context.is_ui_busy
    connected_app_id,      \* G_app_context.connected_app_id, 0 when none
    blind_signing_enabled, \* N_storage.blind_signing_enabled (persistent)
    screen,                \* what the display was last told to show
    steps,                 \* G_ux_flow_steps (BAGL)
    flow_len,              \* how many of them the running flow uses
    signtx_screen,         \* the static counter of stx_op_p2pk.c
    approve_cb,            \* G_ui_approve_reject_callback
    owed,                  \* commands received minus answers sent
    out,                   \* the last answer and the token it was asked with
    asked,                 \* history: the request the open prompt is about
    denied,                \* history: the signing session has been answered DENY
    approved,              \* history: tokens the user approved since power-on
    started                \* history: tokens that started signing since power-on

devVars   == <<current_command, ctx, ui_busy>>
flowVars  == <<steps, flow_len, signtx_screen, approve_cb>>
histVars  == <<approved, started>>
vars == <<devVars, connected_app_id, blind_signing_enabled, screen, flowVars,
          owed, out, asked, denied, histVars>>

----------------------------------------------------------------------------
(* The shared context.                                                     *)

NoToken == 0
Tokens == AppTokens \cup {NoToken}
Commands == {"NONE", "EXT_PUB_KEY", "DERIVE_ADDRESS", "ATTEST_INPUT", "SIGN_TX"}

OpStates == {"INITIALIZED", "TX_STARTED", "INPUTS_STARTED", "OUTPUTS_STARTED",
             "TX_FINISHED", "FINALIZED"}

\* One record stands for the union: `op` and `blind` are the fields of the
\* P2PK signing operation, `send` is DeriveAddress's, the others are common.
Contexts == [session : SessionIds \cup {0},
             state   : {"INITIALIZED", "APPROVED", "FINISHED"},
             token   : Tokens,
             send    : BOOLEAN,
             op      : OpStates,
             blind   : BOOLEAN]

ZeroCtx == [session |-> 0, state |-> "INITIALIZED", token |-> NoToken,
            send |-> FALSE, op |-> "INITIALIZED", blind |-> FALSE]

app_set_current_command(cmd) ==
    /\ current_command' = cmd
    /\ ctx' = ZeroCtx
    /\ ui_busy' = FALSE

\* Mutant: the zero checks of is_known_application are missing.
is_known_application_zero(saved, app_id) == app_id = saved

is_known_application(saved, app_id) ==
    saved # 0 /\ app_id # 0 /\ app_id = saved

\* The ids session_id_new_random(old) may return.
session_id_new_random(old) == SessionIds \ {0, old}

----------------------------------------------------------------------------
(* Answers.  A handler answers at once (Reply) or leaves the answer to a   *)
(* screen callback (Defer, then LateReply).                                *)

Answers == {"none", "ok", "pubkey", "address", "session", "frames", "frame",
            "signature", "deny", "busy", "error"}

Answer(what, token) == [what |-> what, token |-> token]

Reply(what, token) == out' = Answer(what, token) /\ owed' = owed
Defer              == out' = Answer("none", NoToken) /\ owed' = owed + 1
LateReply(what)    == out' = Answer(what, ctx.token) /\ owed' = owed - 1

NoRequest == [cmd |-> "NONE", token |-> NoToken, session |-> 0]

----------------------------------------------------------------------------
(* Screens.  On BAGL every flow, menus included, is laid out in the one    *)
(* array G_ux_flow_steps from index 0, or, while a transaction is being    *)
(* collected, from signtx_screen on.                                       *)

StepKinds == {"null", "text", "path", "app_id", "blind", "dynamic", "warn",
              "approve", "reject", "sign", "sign_reject",
              "blind_settings", "blind_reject",
              "settings", "about", "exit", "toggle", "back", "loop", "end"}

Positions == 0..MAX_NUMBER_OF_SCREENS

\* A run of ui_add_screen calls: each is refused once the array is full.
Write(st, pos, new) ==
    [i \in Positions |-> IF i >= pos /\ i < pos + Len(new) /\ i < MAX_NUMBER_OF_SCREENS
                         THEN new[i - pos + 1] ELSE st[i]]

Advance(pos, n) == IF pos + n < MAX_NUMBER_OF_SCREENS
                   THEN pos + n ELSE MAX_NUMBER_OF_SCREENS

\* ui_display_screens fits its two closing steps, or fails.
Fits(pos) == pos + 2 =< MAX_NUMBER_OF_SCREENS

Close(st, pos) == Write(st, pos, <<"loop", "end">>)

\* ux_flow_init takes the steps up to the first end marker.
FlowLength(st) ==
    CHOOSE n \in Positions : st[n] = "end" /\ \A i \in 0..(n - 1) : st[i] # "end"

\* Lay out `new` from index 0 and show it.
ShowFlow(new) ==
    /\ steps' = Close(Write(steps, 0, new), Len(new))
    /\ flow_len' = FlowLength(steps')

Menus == {"main", "settings", "about"}

MenuSteps(menu) ==
    CASE menu = "main"     -> <<"text", "settings", "about", "exit">>
      [] menu = "settings" -> <<"toggle", "back">>
      [] menu = "about"    -> <<"text", "text", "back">>

\* The end of ui_menu_main, ui_menu_settings and ui_menu_about.  The busy
\* flag they clear is set by the caller's conjunct on ui_busy.
ShowMenu(menu) ==
    /\ screen' = menu
    /\ UNCHANGED <<signtx_screen, approve_cb>>
    /\ IF Ui = "BAGL" THEN ShowFlow(MenuSteps(menu))
                      ELSE UNCHANGED <<steps, flow_len>>

AppIdStep(token) == IF token # NoToken THEN <<"app_id">> ELSE <<>>

\* Mutant: the approve callback is left as the previous prompt set it.
ShowPrompt_old_callback(cmd, head, token) ==
    /\ screen' = cmd
    /\ UNCHANGED <<signtx_screen, approve_cb>>
    /\ IF Ui = "BAGL"
       THEN ShowFlow(head \o AppIdStep(token) \o <<"approve", "reject">>)
       ELSE UNCHANGED <<steps, flow_len>>

\* A prompt with approve and reject buttons for the current command.
ShowPrompt(cmd, head, token) ==
    /\ screen' = cmd
    /\ UNCHANGED signtx_screen
    /\ IF Ui = "BAGL"
       THEN /\ ShowFlow(head \o AppIdStep(token) \o <<"approve", "reject">>)
            /\ approve_cb' = cmd
       ELSE UNCHANGED <<steps, flow_len, approve_cb>>

Prompts == {"EXT_PUB_KEY", "DERIVE_ADDRESS", "ATTEST_INPUT", "CONFIRM", "BLIND"}
Screens == Menus \cup Prompts \cup {"status", "stale"}

----------------------------------------------------------------------------
(* The host's side.                                                        *)

\* io_recv_command returns a command: always possible on BAGL, only outside
\* io_ui_process on NBGL.
Receive == Ui = "NBGL" => ~ui_busy

\* Environment assumption, made only where Disciplined is TRUE: the user does
\* not operate the menu while a signing session is open, and a host does not
\* continue a signing session the user has denied.
SessionOpen == current_command = "SIGN_TX" /\ ~denied
Discipline(p) == Disciplined => p

UiUnchanged == UNCHANGED <<screen, flowVars>>
OtherUnchanged == UNCHANGED <<connected_app_id, blind_signing_enabled>>

\* CLA, INS, P1/P2 and length errors, GetVersion, GetName: no state changes.
Stateless(what) ==
    /\ Receive
    /\ Reply(what, NoToken)
    /\ UNCHANGED <<devVars, asked, denied, histVars>>
    /\ UiUnchanged /\ OtherUnchanged

apdu_rejected == Stateless("error")
get_app_info == Stateless("ok")

\* The four other handlers first refuse to work while a prompt is open.
res_ui_busy ==
    /\ ui_busy
    /\ Stateless("busy")

\* COMMAND_ERROR_HANDLER: whatever command is current is dropped.
DropCommand ==
    /\ app_set_current_command("NONE")
    /\ denied' = FALSE
    /\ Reply("error", NoToken)
    /\ UNCHANGED <<asked, histVars>>
    /\ OtherUnchanged

handler_err == DropCommand /\ UiUnchanged

\* Mutant: the token is shown but not kept for the callback.
AskUser_token_lost(cmd, c, head) ==
    /\ current_command' = cmd
    /\ ctx' = [c EXCEPT !.token = NoToken]
    /\ ui_busy' = TRUE
    /\ denied' = FALSE
    /\ asked' = [cmd |-> cmd, token |-> c.token, session |-> c.session]
    /\ Defer
    /\ ShowPrompt(cmd, head, c.token)
    /\ OtherUnchanged

\* A handler that opens a prompt on a fresh context.
AskUser(cmd, c, head) ==
    /\ current_command' = cmd
    /\ ctx' = c
    /\ ui_busy' = TRUE
    /\ denied' = FALSE
    /\ asked' = [cmd |-> cmd, token |-> c.token, session |-> c.session]
    /\ Defer
    /\ ShowPrompt(cmd, head, c.token)
    /\ OtherUnchanged

----------------------------------------------------------------------------
(* GetExtendedPublicKey and DeriveAddress.                                 *)

Known(token) == is_known_application(token, connected_app_id)

\* The answer is sent at once and the command is over.
SendNow(what, token) ==
    /\ app_set_current_command("NONE")
    /\ denied' = FALSE
    /\ Reply(what, token)
    /\ UNCHANGED <<asked, histVars>>
    /\ UiUnchanged /\ OtherUnchanged

\* An error answered without dropping the command: it stays current, with what
\* its context c holds by then.
ErrorKeepsCommand(cmd, c) ==
    /\ current_command' = cmd /\ ctx' = c /\ ui_busy' = FALSE
    /\ denied' = FALSE
    /\ Reply("error", NoToken)
    /\ UNCHANGED <<asked, histVars>>
    /\ UiUnchanged /\ OtherUnchanged

\* An error in the middle of laying out a prompt: BAGL has by then overwritten
\* the first steps of the flow on display.
DropBegun(begun) ==
    /\ DropCommand
    /\ steps' = IF Ui = "BAGL" THEN Write(steps, 0, begun) ELSE steps
    /\ UNCHANGED <<screen, flow_len, signtx_screen, approve_cb>>

\* The path does not fit its text buffer: BAGL drops the command, NBGL keeps it.
PathTooLong(cmd, c) ==
    \/ Ui = "NBGL" /\ ErrorKeepsCommand(cmd, c)
    \/ Ui = "BAGL" /\ DropBegun(<<"text">>)

\* check: "bad" = malformed data, path not allowed or a crypto error.
handler_get_extended_public_key(token, check) ==
    /\ Receive /\ ~ui_busy
    /\ \/ check = "bad" /\ handler_err
       \/ check # "bad" /\ Known(token) /\ SendNow("pubkey", token)
       \/ check = "long_path" /\ ~Known(token) /\ PathTooLong("EXT_PUB_KEY", ZeroCtx)
       \/ /\ check = "ok" /\ ~Known(token)
          /\ AskUser("EXT_PUB_KEY", [ZeroCtx EXCEPT !.token = token],
                     <<"text", "path">>)
          /\ UNCHANGED histVars

\* check: "no_address" = ergo_address_from_pubkey failed, "no_text" =
\* base58_encode did.
handler_derive_address(display, token, check) ==
    /\ Receive /\ ~ui_busy
    /\ LET c == [ZeroCtx EXCEPT !.token = token, !.send = ~display]
       IN  \/ check = "bad" /\ handler_err
           \/ check = "no_address" /\ ErrorKeepsCommand("DERIVE_ADDRESS", ZeroCtx)
           \/ /\ check \in {"ok", "long_path"}
              /\ ~display /\ Known(token)
              /\ SendNow("address", token)
           \/ /\ check = "long_path" /\ (display \/ ~Known(token))
              /\ PathTooLong("DERIVE_ADDRESS", c)
           \/ check = "no_text" /\ display /\ DropBegun(<<"text", "path">>)
           \/ /\ check = "ok" /\ (display \/ ~Known(token))
              /\ AskUser("DERIVE_ADDRESS", c,
                         IF display THEN <<"text", "path", "text">> ELSE <<"text", "path">>)
              /\ UNCHANGED histVars

----------------------------------------------------------------------------
(* AttestInputBox.                                                         *)

\* check: "bad" = wrong P2, malformed data or a box header not accepted.
attest_init(token, check, id) ==
    /\ Receive /\ ~ui_busy
    /\ \/ check = "bad" /\ handler_err
       \/ /\ check = "ok"
          /\ id \in session_id_new_random(ZeroCtx.session)
          /\ UNCHANGED <<approved, started>>
          /\ \/ /\ Known(token)
                /\ current_command' = "ATTEST_INPUT"
                /\ ctx' = [ZeroCtx EXCEPT !.session = id, !.state = "APPROVED"]
                /\ ui_busy' = FALSE
                /\ denied' = FALSE
                /\ Reply("session", token)
                /\ UNCHANGED asked
                /\ UiUnchanged /\ OtherUnchanged
             \/ /\ ~Known(token)
                /\ AskUser("ATTEST_INPUT",
                           [ZeroCtx EXCEPT !.session = id, !.token = token],
                           <<"text">>)

\* CHECK_COMMAND, CHECK_SESSION and CHECK_PROPER_STATE of a sub-command.
Admitted(cmd, id, state) ==
    /\ current_command = cmd
    /\ ctx.session = id
    /\ ctx.state = state

\* An accepted sub-command that leaves the command current with context c.
Proceed(c, what) ==
    /\ ctx' = c
    /\ Reply(what, NoToken)
    /\ UNCHANGED <<current_command, ui_busy, asked, denied, histVars>>
    /\ UiUnchanged /\ OtherUnchanged

\* A tree, tokens or registers chunk.  result: what the box serializer made
\* of it ("more": the box is not complete yet).
attest_chunk(id, result) ==
    /\ Receive /\ ~ui_busy
    /\ \/ ~Admitted("ATTEST_INPUT", id, "APPROVED") /\ handler_err
       \/ /\ Admitted("ATTEST_INPUT", id, "APPROVED")
          /\ \/ result = "error" /\ handler_err
             \/ result = "more" /\ Proceed(ctx, "ok")
             \/ result = "finished" /\ Proceed([ctx EXCEPT !.state = "FINISHED"], "frames")

attest_get_frame(id, valid_index) ==
    /\ Receive /\ ~ui_busy
    /\ \/ ~(Admitted("ATTEST_INPUT", id, "FINISHED") /\ valid_index) /\ handler_err
       \/ Admitted("ATTEST_INPUT", id, "FINISHED") /\ valid_index /\ Proceed(ctx, "frame")

\* An unknown sub-command of AttestInputBox or of SignTransaction.
wrong_subcommand == Receive /\ ~ui_busy /\ handler_err

----------------------------------------------------------------------------
(* SignTransaction: start, upload, confirm.                                *)

\* Screens laid out for the transaction without being shown yet.
LayOut(st, pos) ==
    /\ steps' = st
    /\ signtx_screen' = pos
    /\ UNCHANGED <<screen, flow_len, approve_cb>>

\* Mutant: the path screen is only for applications not yet known.
SignHead_known_skips_path(token) ==
    IF Known(token) THEN <<>> ELSE <<"path">> \o AppIdStep(token)

\* The first screens of the review, added when the session starts (BAGL).
SignHead(token) == IF ~Known(token) /\ token # NoToken THEN <<"path", "app_id">>
                                                       ELSE <<"path">>

\* SIGN_PK.  The operation is approved by the code itself, and the token it
\* came with becomes the connected application.
sign_init(token, check, id) ==
    /\ Receive /\ ~ui_busy
    /\ \/ check = "wrong_p2" /\ Stateless("error")
       \/ check = "bad" /\ handler_err
       \/ /\ check = "long_path"
          /\ DropCommand
          /\ LayOut(steps, 0)
       \/ /\ check = "ok"
          /\ id \in session_id_new_random(ZeroCtx.session)
          /\ current_command' = "SIGN_TX"
          /\ ctx' = [ZeroCtx EXCEPT !.session = id, !.state = "APPROVED", !.token = token]
          /\ ui_busy' = FALSE
          /\ denied' = FALSE
          /\ connected_app_id' = token
          /\ started' = started \cup {token}
          /\ Reply("session", token)
          /\ UNCHANGED <<blind_signing_enabled, asked, approved>>
          /\ IF Ui = "BAGL" THEN LayOut(Write(steps, 0, SignHead(token)), Len(SignHead(token)))
                            ELSE LayOut(steps, 0)

\* Mutant: the stage of the operation is not checked.
SignAdmitted_any_stage(id, ops) == Admitted("SIGN_TX", id, "APPROVED")

SignAdmitted(id, ops) == Admitted("SIGN_TX", id, "APPROVED") /\ ctx.op \in ops

\* Mutant: sub-commands are let in while a prompt is open.
SignReceive_when_busy == Receive /\ Discipline(~denied)

SignReceive == Receive /\ ~ui_busy /\ Discipline(~denied)

\* A sub-command that only moves the operation on: ok is the serializer's and
\* the amounts' verdict on its data.
sign_upload(id, from, to, ok) ==
    /\ SignReceive
    /\ \/ ~(SignAdmitted(id, from) /\ ok) /\ handler_err
       \/ SignAdmitted(id, from) /\ ok /\ Proceed([ctx EXCEPT !.op = to], "ok")

sign_start_tx(id, ok)   == sign_upload(id, {"INITIALIZED"}, "TX_STARTED", ok)
sign_add_tokens(id, ok) == sign_upload(id, {"TX_STARTED"}, "TX_STARTED", ok)
sign_add_input(id, ok)  == sign_upload(id, {"TX_STARTED", "INPUTS_STARTED"},
                                       "INPUTS_STARTED", ok)
\* Further frames, context extension chunks and data inputs.
sign_more_input(id, ok) == sign_upload(id, {"INPUTS_STARTED"}, "INPUTS_STARTED", ok)
sign_add_output(id, ok) == sign_upload(id, {"INPUTS_STARTED", "OUTPUTS_STARTED"},
                                       "OUTPUTS_STARTED", ok)

\* A prompt of the signing session, kept in context c.
AskSigner(c, which) ==
    /\ ctx' = c
    /\ ui_busy' = TRUE
    /\ screen' = which
    /\ asked' = [cmd |-> "SIGN_TX", token |-> c.token, session |-> c.session]
    /\ Defer
    /\ UNCHANGED <<current_command, approve_cb, denied, histVars>>
    /\ OtherUnchanged

\* The steps st up to pos are closed and shown, if they fit.
ShowOrDrop(c, which, st, pos) ==
    \/ /\ ~Fits(pos)
       /\ DropCommand
       /\ LayOut(st, pos)
    \/ /\ Fits(pos)
       /\ AskSigner(c, which)
       /\ steps' = Close(st, pos)
       /\ flow_len' = FlowLength(steps')
       /\ signtx_screen' = pos

\* ui_stx_add_output_screens: stores the output's pairs, answers OK.
AddOutputScreens(c, st, pos) ==
    \/ /\ MAX_NUMBER_OF_SCREENS < pos + 6
       /\ DropCommand
       /\ LayOut(st, pos)
    \/ /\ MAX_NUMBER_OF_SCREENS >= pos + 6
       /\ ctx' = c
       /\ Reply("ok", NoToken)
       /\ UNCHANGED <<current_command, ui_busy, asked, denied, histVars>>
       /\ LayOut(st, pos) /\ OtherUnchanged

BlindWarning == <<"warn", "warn", "blind_settings", "blind_reject">>

\* Mutant: the blind signing setting is not looked at.
show_output_confirm_screen_always(c, blind) ==
    AddOutputScreens([c EXCEPT !.blind = c.blind \/ blind], steps, signtx_screen)

show_output_confirm_screen(c, blind) ==
    \/ ~blind /\ AddOutputScreens(c, steps, signtx_screen)
    \/ /\ blind /\ Ui = "NBGL"
       /\ AddOutputScreens([c EXCEPT !.blind = TRUE], steps, signtx_screen)
    \/ /\ blind /\ Ui = "BAGL" /\ blind_signing_enabled
       /\ AddOutputScreens([c EXCEPT !.blind = TRUE],
                           Write(steps, signtx_screen, <<"blind">>),
                           Advance(signtx_screen, 1))
    \/ /\ blind /\ Ui = "BAGL" /\ ~blind_signing_enabled
       /\ ShowOrDrop([c EXCEPT !.blind = TRUE], "BLIND",
                     Write(steps, signtx_screen, BlindWarning),
                     Advance(signtx_screen, Len(BlindWarning)))

\* A tree, fee, change, tokens or registers part of an output.  shape: the
\* output it leaves ("partial": not complete; "auto": complete, no screen
\* needed; "clear" and "blind": complete, to be shown).  last: the
\* transaction is complete.
sign_output_part(id, shape, last) ==
    /\ SignReceive
    /\ shape = "partial" => ~last
    /\ LET c == IF last THEN [ctx EXCEPT !.op = "TX_FINISHED"] ELSE ctx
           accepted == SignAdmitted(id, {"OUTPUTS_STARTED"}) /\ shape # "error"
       IN  \/ ~accepted /\ handler_err
           \/ accepted /\ shape \in {"partial", "auto"} /\ Proceed(c, "ok")
           \/ /\ accepted /\ shape \in {"clear", "blind"}
              /\ show_output_confirm_screen(c, shape = "blind")

ConfirmSteps == <<"dynamic", "dynamic", "dynamic", "sign", "sign_reject">>

\* Mutant: every transaction goes to the ordinary review.
NbglReview_always == "CONFIRM"

\* NBGL: the page ui_stx_add_transaction_screens waits on.
NbglReview == IF ctx.blind /\ ~blind_signing_enabled THEN "BLIND" ELSE "CONFIRM"

sign_confirm(id) ==
    /\ SignReceive
    /\ LET c == [ctx EXCEPT !.op = "FINALIZED"]
       IN  \/ ~SignAdmitted(id, {"TX_FINISHED"}) /\ handler_err
           \/ /\ SignAdmitted(id, {"TX_FINISHED"})
              /\ Ui = "NBGL"
              /\ AskSigner(c, NbglReview)
              /\ UNCHANGED <<steps, flow_len, signtx_screen>>
           \/ /\ SignAdmitted(id, {"TX_FINISHED"})
              /\ Ui = "BAGL"
              /\ MAX_NUMBER_OF_SCREENS < signtx_screen + 6
              /\ handler_err
           \/ /\ SignAdmitted(id, {"TX_FINISHED"})
              /\ Ui = "BAGL"
              /\ MAX_NUMBER_OF_SCREENS >= signtx_screen + 6
              /\ ShowOrDrop(c, "CONFIRM", Write(steps, signtx_screen, ConfirmSteps),
                            signtx_screen + Len(ConfirmSteps))

----------------------------------------------------------------------------
(* The user's side.  BAGL: press the button of a step of the running flow. *)
(* NBGL: choose on the page the handler is waiting for.                    *)

Press(kind) == Ui = "BAGL" /\ \E i \in 0..(flow_len - 1) : steps[i] = kind
Choose(which) == Ui = "NBGL" /\ screen = which /\ ui_busy

\* What the answer does to the context and the host, screens apart.
Grant(cmd) ==
    /\ connected_app_id' = ctx.token
    /\ approved' = approved \cup {ctx.token}
    /\ \/ /\ cmd = "EXT_PUB_KEY"
          /\ LateReply("pubkey")
          /\ current_command' = "NONE" /\ ctx' = ZeroCtx
       \/ /\ cmd = "DERIVE_ADDRESS"
          /\ LateReply(IF ctx.send THEN "address" ELSE "ok")
          /\ current_command' = "NONE" /\ ctx' = ZeroCtx
       \/ /\ cmd = "ATTEST_INPUT"
          /\ LateReply("session")
          /\ ctx' = [ctx EXCEPT !.state = "APPROVED"]
          /\ UNCHANGED current_command

\* Mutants: the refusal is not answered; is answered twice; keeps the command.
Refuse_unanswered ==
    /\ current_command' = "NONE" /\ ctx' = ZeroCtx
    /\ UNCHANGED <<connected_app_id, approved, owed, out>>

Refuse_twice ==
    /\ out' = Answer("deny", ctx.token) /\ owed' = owed - 2
    /\ current_command' = "NONE" /\ ctx' = ZeroCtx
    /\ UNCHANGED <<connected_app_id, approved>>

Refuse_keeps_command ==
    /\ LateReply("deny")
    /\ UNCHANGED <<current_command, ctx, connected_app_id, approved>>

Refuse ==
    /\ LateReply("deny")
    /\ current_command' = "NONE" /\ ctx' = ZeroCtx
    /\ UNCHANGED <<connected_app_id, approved>>

DecisionFrame == /\ asked' = NoRequest
                 /\ denied' = FALSE
                 /\ UNCHANGED <<blind_signing_enabled, started>>

\* Mutant: the handler does not wait for the page it shows.
ShowStatus_without_wait == screen' = "status" /\ ui_busy' = FALSE /\ UNCHANGED flowVars

\* A page the handler shows after its answer and waits on (NBGL only).
ShowStatus == screen' = "status" /\ ui_busy' = TRUE /\ UNCHANGED flowVars

\* ui_action_get_extended_pubkey, ui_action_derive_address and
\* ui_action_attest_input (BAGL).
bagl_decision(cmd, yes) ==
    /\ Press(IF yes THEN "approve" ELSE "reject")
    /\ approve_cb = cmd
    /\ IF yes THEN Grant(cmd) ELSE Refuse
    /\ ui_busy' = FALSE
    /\ ShowMenu("main")
    /\ DecisionFrame

nbgl_decision(cmd, yes) ==
    /\ Choose(cmd)
    /\ IF yes THEN Grant(cmd) ELSE Refuse
    /\ DecisionFrame
    /\ \/ cmd = "DERIVE_ADDRESS" /\ ShowStatus
       \/ /\ cmd = "ATTEST_INPUT" /\ yes
          /\ screen' = "stale" /\ ui_busy' = FALSE /\ UNCHANGED flowVars
       \/ /\ cmd = "EXT_PUB_KEY" \/ (cmd = "ATTEST_INPUT" /\ ~yes)
          /\ ui_busy' = FALSE /\ ShowMenu("main")

\* Mutant: the command outlives the answer, and can be continued.
SignDecision_keeps_session(yes, ok) ==
    /\ LateReply(IF ~yes THEN "deny"
                 ELSE IF ctx.op = "FINALIZED" /\ ok THEN "signature" ELSE "error")
    /\ UNCHANGED <<current_command, ctx, connected_app_id, approved>>
    /\ DecisionFrame

\* ui_stx_operation_execute_action.  ok: key derivation and signing succeed.
SignDecision(yes, ok) ==
    /\ LateReply(IF ~yes THEN "deny"
                 ELSE IF ctx.op = "FINALIZED" /\ ok THEN "signature" ELSE "error")
    /\ current_command' = "NONE" /\ ctx' = ZeroCtx
    /\ UNCHANGED <<connected_app_id, approved>>
    /\ DecisionFrame

bagl_sign_decision(yes, ok) ==
    /\ Press(IF yes THEN "sign" ELSE "sign_reject")
    /\ SignDecision(yes, ok)
    /\ ui_busy' = FALSE
    /\ ShowMenu("main")

nbgl_sign_decision(yes, ok) ==
    /\ Choose("CONFIRM")
    /\ SignDecision(yes, ok)
    /\ ShowStatus

\* Mutant: the menu the callback opens leaves the busy flag up.
bagl_blind_decision_stays_busy(settings) ==
    /\ Press(IF settings THEN "blind_settings" ELSE "blind_reject")
    /\ LateReply("deny")
    /\ asked' = NoRequest
    /\ denied' = TRUE
    /\ ShowMenu(IF settings THEN "settings" ELSE "main")
    /\ UNCHANGED <<devVars, histVars>> /\ OtherUnchanged

\* blind_signing_callback: answers DENY and opens a menu; the session stays.
bagl_blind_decision(settings) ==
    /\ Press(IF settings THEN "blind_settings" ELSE "blind_reject")
    /\ LateReply("deny")
    /\ ui_busy' = FALSE
    /\ asked' = NoRequest
    /\ denied' = TRUE
    /\ ShowMenu(IF settings THEN "settings" ELSE "main")
    /\ UNCHANGED <<current_command, ctx, histVars>> /\ OtherUnchanged

nbgl_blind_decision(settings) ==
    /\ Choose("BLIND")
    /\ Refuse
    /\ ui_busy' = FALSE
    /\ DecisionFrame
    /\ ShowMenu(IF settings THEN "about" ELSE "main")

\* Mutant: closing the page does not end the wait.
nbgl_status_closed_stays_busy ==
    /\ Choose("status")
    /\ ShowMenu("main")
    /\ UNCHANGED <<devVars, owed, out, asked, denied, histVars>>
    /\ OtherUnchanged

nbgl_status_closed ==
    /\ Choose("status")
    /\ ui_busy' = FALSE
    /\ ShowMenu("main")
    /\ UNCHANGED <<current_command, ctx, owed, out, asked, denied, histVars>>
    /\ OtherUnchanged

\* The menu.  Opening one of its flows clears the busy flag.
MenuStep == Discipline(~SessionOpen)

OpenMenu(menu) ==
    /\ MenuStep
    /\ ui_busy' = FALSE
    /\ ShowMenu(menu)
    /\ UNCHANGED <<current_command, ctx, connected_app_id, owed, out, asked, denied, histVars>>

open_menu(kind, menu) ==
    /\ Press(kind)
    /\ OpenMenu(menu)
    /\ UNCHANGED blind_signing_enabled

toggle_blind_signing ==
    /\ Press("toggle") \/ (Ui = "NBGL" /\ screen \in Menus)
    /\ blind_signing_enabled' = ~blind_signing_enabled
    /\ \/ Ui = "BAGL" /\ OpenMenu("settings")
       \/ /\ Ui = "NBGL" /\ MenuStep
          /\ UiUnchanged
          /\ UNCHANGED <<devVars, connected_app_id, owed, out, asked, denied, histVars>>

\* Power loss, or Quit followed by a new start: app_main from the top.  The
\* persistent setting survives; the host's open command dies with the link.
PowerOn ==
    /\ app_set_current_command("NONE")
    /\ connected_app_id' = 0
    /\ signtx_screen' = 0
    /\ approve_cb' = "NONE"
    /\ screen' = "main"
    /\ IF Ui = "BAGL"
       THEN /\ steps' = Close(Write([i \in Positions |-> "null"], 0, MenuSteps("main")), 4)
            /\ flow_len' = 5
       ELSE UNCHANGED <<steps, flow_len>>
    /\ owed' = 0
    /\ out' = Answer("none", NoToken)
    /\ asked' = NoRequest
    /\ denied' = FALSE
    /\ approved' = {} /\ started' = {}
    /\ UNCHANGED blind_signing_enabled

quit == (Press("exit") \/ (Ui = "NBGL" /\ screen \in Menus)) /\ MenuStep /\ PowerOn

----------------------------------------------------------------------------
Init ==
    /\ current_command = "NONE" /\ ctx = ZeroCtx /\ ui_busy = FALSE
    /\ connected_app_id = 0
    /\ blind_signing_enabled = FALSE
    /\ screen = "main"
    /\ steps = IF Ui = "BAGL"
               THEN Close(Write([i \in Positions |-> "null"], 0, MenuSteps("main")), 4)
               ELSE [i \in Positions |-> "null"]
    /\ flow_len = IF Ui = "BAGL" THEN 5 ELSE 0
    /\ signtx_screen = 0
    /\ approve_cb = "NONE"
    /\ owed = 0
    /\ out = Answer("none", NoToken)
    /\ asked = NoRequest
    /\ denied = FALSE
    /\ approved = {} /\ started = {}

KeyCommand ==
    \E token \in Tokens :
        \/ \E check \in {"ok", "bad", "long_path"} :
              handler_get_extended_public_key(token, check)
        \/ \E display \in BOOLEAN, check \in {"ok", "bad", "no_address", "long_path", "no_text"} :
              handler_derive_address(display, token, check)

AttestCommand ==
    \E id \in SessionIds :
        \/ \E token \in Tokens, check \in {"ok", "bad"} : attest_init(token, check, id)
        \/ \E result \in {"more", "finished", "error"} : attest_chunk(id, result)
        \/ \E valid_index \in BOOLEAN : attest_get_frame(id, valid_index)

SignCommand ==
    \E id \in SessionIds :
        \/ \E token \in Tokens, check \in {"ok", "bad", "wrong_p2", "long_path"} :
              sign_init(token, check, id)
        \/ \E ok \in BOOLEAN :
              \/ sign_start_tx(id, ok)
              \/ sign_add_tokens(id, ok)
              \/ sign_add_input(id, ok)
              \/ sign_more_input(id, ok)
              \/ sign_add_output(id, ok)
        \/ \E shape \in {"error", "partial", "auto", "clear", "blind"}, last \in BOOLEAN :
              sign_output_part(id, shape, last)
        \/ sign_confirm(id)

HostStep == apdu_rejected \/ get_app_info \/ res_ui_busy \/ wrong_subcommand
            \/ KeyCommand \/ AttestCommand \/ SignCommand

\* The user answers what is asked of them.
UserAnswers ==
    \/ \E cmd \in {"EXT_PUB_KEY", "DERIVE_ADDRESS", "ATTEST_INPUT"}, yes \in BOOLEAN :
          bagl_decision(cmd, yes) \/ nbgl_decision(cmd, yes)
    \/ \E yes, ok \in BOOLEAN : bagl_sign_decision(yes, ok) \/ nbgl_sign_decision(yes, ok)
    \/ \E settings \in BOOLEAN : bagl_blind_decision(settings) \/ nbgl_blind_decision(settings)
    \/ nbgl_status_closed

UserBrowses ==
    \/ open_menu("settings", "settings")
    \/ open_menu("about", "about")
    \/ open_menu("back", "main")
    \/ toggle_blind_signing
    \/ quit

Next == HostStep \/ UserAnswers \/ UserBrowses \/ PowerOn

Spec == Init /\ [][Next]_vars

\* The host, the menu and the power switch owe nothing; a user who is asked
\* answers in the end, and a status page closes.
FairSpec == Spec /\ WF_vars(UserAnswers)

----------------------------------------------------------------------------
(* Properties.                                                             *)

\* Every variable stays in its range (context.h, cmd contexts, ui_main.h).
TypeOK ==
    /\ current_command \in Commands
    /\ ctx \in Contexts
    /\ ui_busy \in BOOLEAN
    /\ connected_app_id \in Tokens
    /\ blind_signing_enabled \in BOOLEAN
    /\ screen \in Screens
    /\ steps \in [Positions -> StepKinds]
    /\ flow_len \in Positions
    /\ signtx_screen \in Positions
    /\ approve_cb \in Commands
    /\ owed \in Nat
    /\ out \in [what : Answers, token : Tokens]
    /\ asked \in [cmd : Commands, token : Tokens, session : SessionIds \cup {0}]
    /\ denied \in BOOLEAN
    /\ approved \in SUBSET Tokens
    /\ started \in SUBSET Tokens

\* Each command gets exactly one answer: the number of commands still
\* unanswered is one while a prompt that will answer it is on display and
\* zero otherwise.  The answer is sent by a handler, by a screen callback or
\* by neither, depending on the path taken through three files per command.
OneAnswerPerCommand ==
    owed = IF screen \in Prompts THEN 1 ELSE 0

\* The busy flag, set by ui_display_screens and io_ui_process and cleared in
\* a dozen places, is up exactly while a handler or a callback waits for the
\* user; otherwise the device would refuse every command or let a second one
\* into a context in use.
BusyWhileAsking ==
    ui_busy <=> screen \in Prompts \cup {"status"}

\* While a prompt is open, the shared context still belongs to the command
\* that opened it: the token and the session the user is asked about are the
\* ones the callback will act on, and a transaction under review is final.
PromptKeepsRequest ==
    screen \in Prompts =>
        /\ current_command = asked.cmd
        /\ ctx.token = asked.token
        /\ ctx.session = asked.session
        /\ screen = "CONFIRM" => ctx.op = "FINALIZED"
        /\ screen \in Commands => asked.cmd = screen

MenuButtons   == {"settings", "about", "exit", "toggle", "back"}
PromptButtons == {"approve", "reject", "sign", "sign_reject",
                  "blind_settings", "blind_reject"}

\* The button steps that answer each prompt.
Deciders(which) ==
    CASE which = "CONFIRM" -> {"sign", "sign_reject"}
      [] which = "BLIND"   -> {"blind_settings", "blind_reject"}
      [] OTHER             -> {"approve", "reject"}

Visible == {steps[i] : i \in 0..(flow_len - 1)}

\* BAGL: while a prompt is open the running flow offers both of its answers
\* and no button of a menu or of another prompt, although all of them share
\* G_ux_flow_steps; outside a prompt it offers none of them.
FlowAnswersPrompt ==
    Ui = "BAGL" =>
        IF screen \in Prompts
        THEN /\ Visible \cap (MenuButtons \cup PromptButtons) = Deciders(screen)
             /\ screen \in Commands => approve_cb = screen
        ELSE Visible \cap PromptButtons = {}

\* Key material leaves without a button press only for a token that was
\* granted to since power-on, by an approved prompt or by a signing session;
\* in particular never for a request without a token.
SilentReleaseWasGranted ==
    [][out'.what \in {"pubkey", "address"} /\ owed' = owed /\ out' # out
         => out'.token \in (approved \cup started) \ {NoToken}]_vars

\* A DENY ends the command it answers: nothing of it can be continued.
DenyEndsCommand ==
    [][out'.what = "deny" /\ out' # out => current_command' = "NONE"]_vars

\* A signature over a transaction with an output that could not be shown in
\* clear is given only while blind signing is enabled in the settings.
BlindNeedsSetting ==
    [][out'.what = "signature" /\ out' # out /\ ctx.blind => blind_signing_enabled]_vars

\* BAGL: the flow the user signs in shows the signing path and the pages with
\* the outputs, the fee and the tokens, although its screens were laid out in
\* G_ux_flow_steps over many commands.
ReviewShowsTransaction ==
    Ui = "BAGL" /\ screen = "CONFIRM" => {"path", "dynamic", "sign"} \subseteq Visible

\* Signing goes by sessions: see SigningSession.
Signing == current_command = "SIGN_TX"
Session == INSTANCE SigningSession WITH
    Owners <- SessionIds \X Tokens,
    stage <- IF Signing THEN ctx.op ELSE "NONE",
    owner <- IF Signing THEN <<ctx.session, ctx.token>> ELSE <<>>,
    signature <- IF out.what = "signature" THEN <<out.token>> ELSE <<>>

\* The sub-commands of SignTransaction, the callbacks of its screens and the
\* commands that share its context keep to one session at a time: its stages
\* come in order, and the id and token the device has for it stay; a final
\* transaction is left alone until the user answers; and the answer, which ends
\* the session, is the only thing that gives out a signature.  (Who sends a
\* sub-command is the business of Admitted and not seen here.)
SignsInSession == Session!Spec

\* A token becomes the connected application only after the user approved it.
ConnectedWasApproved ==
    connected_app_id # NoToken => connected_app_id \in approved

\* A command the user is asked about is answered in the end.
AnswerComes == (owed > 0) ~> (owed = 0)

\* The device does not stay busy for ever.
BecomesFree == ui_busy ~> ~ui_busy

============================================================================
