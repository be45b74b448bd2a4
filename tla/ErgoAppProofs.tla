--------------------------- MODULE ErgoAppProofs ---------------------------
(***************************************************************************)
(* Proofs about ErgoApp, for every set of tokens and session ids, every    *)
(* screen capacity and both screen libraries.                              *)
(***************************************************************************)
EXTENDS ErgoApp, TLAPS

Layout == [Positions -> StepKinds]

\* Laying out screens keeps the array well formed, changes the slots it is
\* meant to and no other (ui_add_screen).
LEMMA WriteFacts ==
    ASSUME NEW st \in Layout, NEW pos \in Nat, NEW new \in Seq(StepKinds)
    PROVE  /\ Write(st, pos, new) \in Layout
           /\ \A i \in Positions : i < pos => Write(st, pos, new)[i] = st[i]
           /\ \A i \in Positions : i >= pos + Len(new) => Write(st, pos, new)[i] = st[i]
           /\ \A i \in Positions :
                 i >= pos /\ i < pos + Len(new) /\ i < MAX_NUMBER_OF_SCREENS
                 => Write(st, pos, new)[i] = new[i - pos + 1]
<1>1. ASSUME NEW i \in Positions, i >= pos, i < pos + Len(new)
      PROVE  new[i - pos + 1] \in StepKinds
  BY <1>1, ConstantsAssumption DEF Positions
<1>2. Write(st, pos, new) \in Layout
  BY <1>1 DEF Write, Layout
<1>3. \A i \in Positions : i \in Nat /\ Len(new) \in Nat
  BY ConstantsAssumption DEF Positions
<1> QED
  BY <1>2, <1>3 DEF Write

\* ux_flow_init stops at the first end marker.
LEMMA FlowLengthIs ==
    ASSUME NEW st, NEW n \in Positions, st[n] = "end",
           \A i \in 0..(n - 1) : st[i] # "end"
    PROVE  FlowLength(st) = n
<1> DEFINE P(k) == st[k] = "end" /\ \A i \in 0..(k - 1) : st[i] # "end"
<1>1. \A k \in Positions : P(k) => k = n
  BY ConstantsAssumption DEF Positions
<1>2. P(n)
  OBVIOUS
<1>3. FlowLength(st) = CHOOSE k \in Positions : P(k)
  BY DEF FlowLength
<1> HIDE DEF P
<1>4. P(CHOOSE k \in Positions : P(k)) /\ (CHOOSE k \in Positions : P(k)) \in Positions
  BY <1>2
<1> QED
  BY <1>1, <1>3, <1>4

\* A flow closed at pos runs over the slots 0..pos, the last one its loop step.
LEMMA CloseFacts ==
    ASSUME NEW st \in Layout, NEW pos \in Nat, Fits(pos),
           \A i \in 0..(pos - 1) : st[i] # "end"
    PROVE  /\ Close(st, pos) \in Layout
           /\ FlowLength(Close(st, pos)) = pos + 1
           /\ \A i \in 0..(pos - 1) : Close(st, pos)[i] = st[i]
           /\ Close(st, pos)[pos] = "loop"
<1> DEFINE two == <<"loop", "end">>
<1>1. two \in Seq(StepKinds) /\ Len(two) = 2 /\ two[1] = "loop" /\ two[2] = "end"
  BY DEF StepKinds
<1>2. pos \in Positions /\ pos + 1 \in Positions /\ pos + 1 < MAX_NUMBER_OF_SCREENS
  BY ConstantsAssumption DEF Fits, Positions
<1> HIDE DEF two
<1>3. /\ Write(st, pos, two) \in Layout
      /\ \A i \in Positions : i < pos => Write(st, pos, two)[i] = st[i]
      /\ Write(st, pos, two)[pos] = "loop"
      /\ Write(st, pos, two)[pos + 1] = "end"
  <2>1. /\ pos - pos + 1 = 1 /\ pos + 1 - pos + 1 = 2
    OBVIOUS
  <2>2. \A i \in Positions :
           i >= pos /\ i < pos + Len(two) /\ i < MAX_NUMBER_OF_SCREENS
           => Write(st, pos, two)[i] = two[i - pos + 1]
    BY <1>1, WriteFacts
  <2>3. /\ pos >= pos /\ pos < pos + Len(two) /\ pos < MAX_NUMBER_OF_SCREENS
        /\ pos + 1 >= pos /\ pos + 1 < pos + Len(two)
    BY <1>1, <1>2, ConstantsAssumption
  <2> QED BY <1>1, <1>2, <2>1, <2>2, <2>3, WriteFacts
<1>4. Close(st, pos) = Write(st, pos, two)
  BY DEF Close, two
<1>5. \A i \in 0..(pos - 1) : i \in Positions /\ i < pos
  BY <1>2, ConstantsAssumption DEF Positions
<1>6. \A i \in 0..(pos + 1 - 1) : Write(st, pos, two)[i] # "end"
  BY <1>3, <1>5
<1>7. FlowLength(Write(st, pos, two)) = pos + 1
  BY <1>2, <1>3, <1>6, FlowLengthIs
<1> QED
  BY <1>3, <1>4, <1>5, <1>7

\* What ShowFlow leaves on display: the steps given and a loop step.
LEMMA ShowFlowFacts ==
    ASSUME steps \in Layout, NEW new \in Seq(StepKinds \ {"end"}),
           Len(new) =< 8, ShowFlow(new)
    PROVE  /\ steps' \in Layout
           /\ flow_len' = Len(new) + 1 /\ flow_len' \in Positions
           /\ \A i \in 0..(Len(new) - 1) : steps'[i] = new[i + 1]
           /\ steps'[Len(new)] = "loop"
           /\ Visible' = {new[i] : i \in 1..Len(new)} \cup {"loop"}
<1> DEFINE st == Write(steps, 0, new)
<1>1. Len(new) \in Nat /\ Fits(Len(new)) /\ new \in Seq(StepKinds)
      /\ \A i \in 1..Len(new) : new[i] # "end"
  BY ConstantsAssumption DEF Fits
<1>2. \A i \in 0..(Len(new) - 1) :
         i \in Positions /\ i >= 0 /\ i < 0 + Len(new) /\ i < MAX_NUMBER_OF_SCREENS
         /\ i + 1 \in 1..Len(new) /\ i - 0 + 1 = i + 1
  BY <1>1, ConstantsAssumption DEF Positions
<1>3. st \in Layout /\ \A i \in 0..(Len(new) - 1) : st[i] = new[i + 1]
  <2>1. /\ st \in Layout
        /\ \A i \in Positions :
              i >= 0 /\ i < 0 + Len(new) /\ i < MAX_NUMBER_OF_SCREENS
              => st[i] = new[i - 0 + 1]
    BY <1>1, WriteFacts
  <2> QED BY <1>2, <2>1
<1>4. \A i \in 0..(Len(new) - 1) : st[i] # "end"
  BY <1>1, <1>2, <1>3
<1> HIDE DEF st
<1>5. steps' = Close(st, Len(new)) /\ flow_len' = FlowLength(steps')
  BY DEF ShowFlow, st
<1>6. /\ steps' \in Layout
      /\ flow_len' = Len(new) + 1
      /\ \A i \in 0..(Len(new) - 1) : steps'[i] = new[i + 1]
      /\ steps'[Len(new)] = "loop"
  BY <1>1, <1>3, <1>4, <1>5, CloseFacts
<1>7. flow_len' \in Positions
  BY <1>1, <1>6, ConstantsAssumption DEF Positions
<1>8. Visible' = {new[i] : i \in 1..Len(new)} \cup {"loop"}
  <2>1. Visible' = {steps'[i] : i \in 0..Len(new)}
    BY <1>1, <1>6 DEF Visible
  <2>2. ASSUME NEW i \in 0..Len(new)
        PROVE  steps'[i] \in {new[j] : j \in 1..Len(new)} \cup {"loop"}
    <3>1. CASE i = Len(new) BY <3>1, <1>6
    <3>2. CASE i # Len(new)
      <4>1. i \in 0..(Len(new) - 1) /\ i + 1 \in 1..Len(new)
        BY <3>2, <1>1
      <4> QED BY <4>1, <1>6
    <3> QED BY <3>1, <3>2
  <2>3. ASSUME NEW j \in 1..Len(new)
        PROVE  new[j] \in {steps'[i] : i \in 0..Len(new)}
    <3>1. j - 1 \in 0..(Len(new) - 1) /\ j - 1 \in 0..Len(new) /\ j - 1 + 1 = j
      BY <1>1
    <3>2. steps'[j - 1] = new[j - 1 + 1]
      BY <3>1, <1>6
    <3> QED BY <3>1, <3>2
  <2>4. Len(new) \in 0..Len(new)
    BY <1>1
  <2> QED BY <1>6, <2>1, <2>2, <2>3, <2>4
<1> QED BY <1>6, <1>7, <1>8

\* The menus are short and hold no button that answers a prompt.
LEMMA MenuFlow ==
    ASSUME steps \in Layout, NEW menu \in Menus, ShowFlow(MenuSteps(menu))
    PROVE  /\ steps' \in Layout
           /\ flow_len' \in Positions /\ flow_len' =< 5
           /\ Visible' \cap PromptButtons = {}
<1> DEFINE new == MenuSteps(menu)
<1>1. new \in Seq(StepKinds \ {"end"}) /\ Len(new) =< 4
      /\ \A i \in 1..Len(new) : new[i] \in {"text", "settings", "about", "exit", "toggle", "back"}
  <2>0. {"text", "settings", "about", "exit", "toggle", "back"} \subseteq StepKinds \ {"end"}
    BY DEF StepKinds
  <2>1. CASE menu = "main"
    <3>1. new = <<"text", "settings", "about", "exit">>
      BY <2>1 DEF MenuSteps
    <3> QED BY <2>0, <3>1
  <2>2. CASE menu = "settings"
    <3>1. new = <<"toggle", "back">>
      BY <2>2 DEF MenuSteps
    <3> QED BY <2>0, <3>1
  <2>3. CASE menu = "about"
    <3>1. new = <<"text", "text", "back">>
      BY <2>3 DEF MenuSteps
    <3> QED BY <2>0, <3>1
  <2> QED BY <2>1, <2>2, <2>3 DEF Menus
<1> HIDE DEF new
<1>2. ShowFlow(new)
  BY DEF new
<1>3. Len(new) =< 8 /\ Len(new) \in Nat
  BY <1>1
<1>4. /\ steps' \in Layout
      /\ flow_len' = Len(new) + 1 /\ flow_len' \in Positions
      /\ Visible' = {new[i] : i \in 1..Len(new)} \cup {"loop"}
  BY <1>1, <1>2, <1>3, ShowFlowFacts
<1> QED BY <1>1, <1>3, <1>4 DEF PromptButtons

\* A prompt of a key command or of AttestInputBox offers its two answers and
\* no other button.
LEMMA PromptFlow ==
    ASSUME steps \in Layout, NEW token,
           NEW head \in {<<"text">>, <<"text", "path">>, <<"text", "path", "text">>},
           ShowFlow(head \o AppIdStep(token) \o <<"approve", "reject">>)
    PROVE  /\ steps' \in Layout
           /\ flow_len' \in Positions
           /\ Visible' \cap (MenuButtons \cup PromptButtons) = {"approve", "reject"}
<1> DEFINE K == StepKinds \ {"end"}
           mid == AppIdStep(token)
           new == (head \o mid) \o <<"approve", "reject">>
<1>1. head \in Seq(K) /\ Len(head) =< 3 /\ \A i \in 1..Len(head) : head[i] \in {"text", "path"}
  <2>0. {"text", "path"} \subseteq K
    BY DEF StepKinds
  <2>1. CASE head = <<"text">>
    BY <2>0, <2>1
  <2>2. CASE head = <<"text", "path">>
    BY <2>0, <2>2
  <2>3. CASE head = <<"text", "path", "text">>
    BY <2>0, <2>3
  <2> QED BY <2>1, <2>2, <2>3
<1>2. mid \in Seq(K) /\ Len(mid) =< 1 /\ \A i \in 1..Len(mid) : mid[i] = "app_id"
  BY DEF StepKinds, AppIdStep
<1> HIDE DEF mid
<1>3. /\ head \o mid \in Seq(K) /\ Len(head \o mid) =< 4
      /\ \A i \in 1..Len(head \o mid) : (head \o mid)[i] \in {"text", "path", "app_id"}
  BY <1>1, <1>2
<1> DEFINE front == head \o mid
<1> HIDE DEF front
<1>4. front \in Seq(K) /\ Len(front) =< 4 /\ Len(front) \in Nat
      /\ \A i \in 1..Len(front) : front[i] \in {"text", "path", "app_id"}
  BY <1>3 DEF front
<1>5. /\ front \o <<"approve", "reject">> \in Seq(K)
      /\ Len(front \o <<"approve", "reject">>) = Len(front) + 2
      /\ \A i \in 1..Len(front) : (front \o <<"approve", "reject">>)[i] = front[i]
      /\ (front \o <<"approve", "reject">>)[Len(front) + 1] = "approve"
      /\ (front \o <<"approve", "reject">>)[Len(front) + 2] = "reject"
  BY <1>4 DEF StepKinds
<1>6. /\ new \in Seq(K) /\ Len(new) = Len(front) + 2
      /\ \A i \in 1..Len(front) : new[i] \in {"text", "path", "app_id"}
      /\ new[Len(front) + 1] = "approve" /\ new[Len(front) + 2] = "reject"
      /\ ShowFlow(new)
  BY <1>4, <1>5 DEF front, mid
<1> HIDE DEF new
<1>7. Len(new) =< 8
  BY <1>4, <1>6
<1>8. /\ steps' \in Layout /\ flow_len' \in Positions
      /\ Visible' = {new[i] : i \in 1..Len(new)} \cup {"loop"}
  BY <1>6, <1>7, ShowFlowFacts
<1>9. {new[i] : i \in 1..Len(new)} \subseteq {"text", "path", "app_id", "approve", "reject"}
  BY <1>4, <1>6
<1>10. {"approve", "reject"} \subseteq {new[i] : i \in 1..Len(new)}
  BY <1>4, <1>6
<1> QED BY <1>8, <1>9, <1>10 DEF MenuButtons, PromptButtons

----------------------------------------------------------------------------
(* The inductive invariant.                                                *)

\* On BAGL the invariants need the environment assumption; on NBGL they do not.
SafeUi == Ui = "NBGL" \/ Disciplined

DataOK ==
    /\ current_command \in Commands
    /\ ctx \in Contexts
    /\ ui_busy \in BOOLEAN
    /\ connected_app_id \in Tokens
    /\ blind_signing_enabled \in BOOLEAN
    /\ owed \in Nat
    /\ out \in [what : Answers, token : Tokens]
    /\ asked \in [cmd : Commands, token : Tokens, session : SessionIds \cup {0}]
    /\ denied \in BOOLEAN
    /\ approved \in SUBSET Tokens
    /\ started \in SUBSET Tokens

UiOK ==
    /\ screen \in Screens
    /\ steps \in Layout
    /\ flow_len \in Positions
    /\ signtx_screen \in Positions
    /\ approve_cb \in Commands

ReviewKinds == {"path", "app_id", "blind"}

\* What makes FlowAnswersPrompt and ReviewShowsTransaction inductive: a menu is
\* short, and while a signing session is open the screens laid out so far are
\* the review's own, with room for the closing ones.
ReviewLaidOut ==
    Ui = "BAGL" =>
        /\ screen \in Menus \cup Prompts
        /\ screen \in Menus => flow_len =< 5
        /\ current_command = "SIGN_TX" /\ ~denied /\ screen \in Menus =>
              /\ signtx_screen >= 1 /\ signtx_screen + 6 =< MAX_NUMBER_OF_SCREENS
              /\ steps[0] = "path"
              /\ \A i \in 0..(signtx_screen - 1) : steps[i] \in ReviewKinds

GrantRecorded ==
    connected_app_id # NoToken => connected_app_id \in approved \cup started

FlowInv == FlowAnswersPrompt /\ ReviewShowsTransaction /\ ReviewLaidOut

AskInv == OneAnswerPerCommand /\ BusyWhileAsking /\ PromptKeepsRequest

IInv == DataOK /\ UiOK /\ AskInv /\ FlowInv /\ GrantRecorded

\* A step that leaves the screens alone while nobody is asked anything.
LEMMA QuietStep ==
    ASSUME IInv, DataOK', UiUnchanged, ~ui_busy, ui_busy' = FALSE, owed' = owed,
           current_command' = "SIGN_TX" /\ ~denied' => current_command = "SIGN_TX" /\ ~denied,
           GrantRecorded'
    PROVE  IInv'
<1>1. UiOK' /\ Visible' = Visible
  BY DEF IInv, UiOK, UiUnchanged, flowVars, Visible
<1>2. screen' = screen /\ screen \notin Prompts /\ screen # "status"
  BY DEF IInv, AskInv, BusyWhileAsking, DataOK, UiUnchanged
<1>3. AskInv'
  <2>1. OneAnswerPerCommand'
    BY <1>2 DEF IInv, AskInv, OneAnswerPerCommand
  <2>2. BusyWhileAsking'
    BY <1>2 DEF BusyWhileAsking
  <2>3. PromptKeepsRequest'
    BY <1>2 DEF PromptKeepsRequest
  <2> QED BY <2>1, <2>2, <2>3 DEF AskInv
<1>4. FlowInv'
  <2>1. FlowAnswersPrompt' /\ ReviewShowsTransaction'
    BY <1>1, <1>2 DEF IInv, FlowInv, FlowAnswersPrompt, ReviewShowsTransaction, Prompts
  <2>2. ReviewLaidOut'
    BY DEF IInv, FlowInv, ReviewLaidOut, UiUnchanged, flowVars
  <2> QED BY <2>1, <2>2 DEF FlowInv
<1> QED BY <1>1, <1>3, <1>4 DEF IInv

\* A step that opens a menu and leaves nobody to be asked.
LEMMA MenuStepKeeps ==
    ASSUME IInv, DataOK', NEW menu \in Menus, ShowMenu(menu),
           ui_busy' = FALSE, owed' = 0,
           Ui = "BAGL" => current_command' # "SIGN_TX" \/ denied',
           GrantRecorded'
    PROVE  IInv'
<1>1. screen' = menu /\ screen' \notin Prompts /\ screen' # "status" /\ screen' \in Screens
      /\ screen' # "CONFIRM"
  BY DEF ShowMenu, Menus, Prompts, Screens
<1>2. AskInv'
  <2>1. OneAnswerPerCommand'
    BY <1>1 DEF OneAnswerPerCommand
  <2>2. BusyWhileAsking'
    BY <1>1 DEF BusyWhileAsking
  <2>3. PromptKeepsRequest'
    BY <1>1 DEF PromptKeepsRequest
  <2> QED BY <2>1, <2>2, <2>3 DEF AskInv
<1>3. CASE Ui = "BAGL"
  <2>1. /\ steps' \in Layout /\ flow_len' \in Positions /\ flow_len' =< 5
        /\ Visible' \cap PromptButtons = {}
    BY <1>3, MenuFlow DEF IInv, UiOK, ShowMenu
  <2>2. UiOK'
    BY <1>1, <2>1 DEF IInv, UiOK, ShowMenu
  <2>3. FlowInv'
    BY <1>1, <1>3, <2>1 DEF FlowInv, FlowAnswersPrompt, ReviewShowsTransaction, ReviewLaidOut
  <2> QED BY <1>2, <2>2, <2>3 DEF IInv
<1>4. CASE Ui = "NBGL"
  <2>1. UiOK'
    BY <1>1, <1>4 DEF IInv, UiOK, ShowMenu
  <2>2. FlowInv'
    BY <1>4 DEF FlowInv, FlowAnswersPrompt, ReviewShowsTransaction, ReviewLaidOut
  <2> QED BY <1>2, <2>1, <2>2 DEF IInv
<1> QED BY <1>3, <1>4, ConstantsAssumption

\* A step that lays out screens without showing them.
LEMMA LayOutStep ==
    ASSUME IInv, DataOK', ~ui_busy, ui_busy' = FALSE, owed' = owed, GrantRecorded',
           NEW st \in Layout, NEW pos \in Positions, LayOut(st, pos),
           Ui = "BAGL" => \A i \in 0..4 : st[i] = steps[i] \/ st[i] \notin PromptButtons,
           Ui = "BAGL" /\ current_command' = "SIGN_TX" /\ ~denied' =>
              /\ pos >= 1 /\ pos + 6 =< MAX_NUMBER_OF_SCREENS
              /\ st[0] = "path"
              /\ \A i \in 0..(pos - 1) : st[i] \in ReviewKinds
    PROVE  IInv'
<1>1. screen' = screen /\ screen \notin Prompts /\ screen # "status" /\ screen # "CONFIRM"
  BY DEF IInv, AskInv, BusyWhileAsking, DataOK, LayOut, Prompts
<1>2. AskInv'
  <2>1. OneAnswerPerCommand'
    BY <1>1 DEF IInv, AskInv, OneAnswerPerCommand
  <2>2. BusyWhileAsking'
    BY <1>1 DEF BusyWhileAsking
  <2>3. PromptKeepsRequest'
    BY <1>1 DEF PromptKeepsRequest
  <2> QED BY <2>1, <2>2, <2>3 DEF AskInv
<1>3. UiOK'
  BY DEF IInv, UiOK, LayOut
<1>4. FlowInv'
  <2>1. CASE Ui = "NBGL"
    BY <2>1 DEF FlowInv, FlowAnswersPrompt, ReviewShowsTransaction, ReviewLaidOut
  <2>2. CASE Ui = "BAGL"
    <3>1. screen \in Menus /\ flow_len =< 5 /\ flow_len \in Nat
      BY <1>1, <2>2, ConstantsAssumption DEF IInv, UiOK, FlowInv, ReviewLaidOut, Positions
    <3>2. Visible \cap PromptButtons = {}
      BY <1>1, <2>2 DEF IInv, FlowInv, FlowAnswersPrompt
    <3>3. ASSUME NEW i \in 0..(flow_len - 1) PROVE st[i] \notin PromptButtons
      <4>1. i \in 0..4 BY <3>1
      <4>2. steps[i] \in Visible BY DEF Visible
      <4> QED BY <2>2, <3>2, <4>1, <4>2
    <3>4. Visible' = {st[i] : i \in 0..(flow_len - 1)}
      BY DEF Visible, LayOut
    <3>5. Visible' \cap PromptButtons = {}
      BY <3>3, <3>4
    <3> QED
      BY <1>1, <2>2, <3>1, <3>5
      DEF FlowInv, FlowAnswersPrompt, ReviewShowsTransaction, ReviewLaidOut, LayOut
  <2> QED BY <2>1, <2>2, ConstantsAssumption
<1> QED BY <1>2, <1>3, <1>4 DEF IInv

Heads == {<<"text">>, <<"text", "path">>, <<"text", "path", "text">>}
Askers == {"EXT_PUB_KEY", "DERIVE_ADDRESS", "ATTEST_INPUT"}

\* A handler that opens a prompt on a fresh context.
LEMMA AskUserStep ==
    ASSUME IInv, ~ui_busy, NEW cmd \in Askers, NEW c \in Contexts, NEW head \in Heads,
           AskUser(cmd, c, head),
           UNCHANGED <<approved, started>>
    PROVE  IInv'
<1>1. screen' = cmd /\ screen' \in Prompts /\ screen' \in Commands /\ screen' \in Screens
      /\ screen' # "CONFIRM" /\ screen' # "BLIND" /\ screen' # "SIGN_TX" /\ cmd # "SIGN_TX"
      /\ cmd \in Commands
  BY DEF AskUser, ShowPrompt, Askers, Prompts, Commands, Screens
<1>2. owed = 0
  BY DEF IInv, AskInv, OneAnswerPerCommand, BusyWhileAsking, DataOK
<1>3. DataOK'
  <2>1. /\ current_command' = cmd /\ ctx' = c /\ ui_busy' = TRUE /\ denied' = FALSE
        /\ asked' = [cmd |-> cmd, token |-> c.token, session |-> c.session]
        /\ out' = Answer("none", NoToken) /\ owed' = owed + 1
        /\ UNCHANGED <<connected_app_id, blind_signing_enabled>>
    BY DEF AskUser, Defer, OtherUnchanged
  <2>2. c.token \in Tokens /\ c.session \in SessionIds \cup {0}
    BY DEF Contexts
  <2>3. out' \in [what : Answers, token : Tokens]
    BY <2>1 DEF Answer, Answers, Tokens
  <2>4. asked' \in [cmd : Commands, token : Tokens, session : SessionIds \cup {0}]
    BY <1>1, <2>1, <2>2
  <2>5. owed' \in Nat
    BY <1>2, <2>1
  <2>6. ui_busy' \in BOOLEAN /\ denied' \in BOOLEAN /\ blind_signing_enabled' \in BOOLEAN
    BY <2>1 DEF IInv, DataOK
  <2> QED BY <1>1, <2>1, <2>3, <2>4, <2>5, <2>6 DEF IInv, DataOK
<1>4. AskInv'
  <2>1. OneAnswerPerCommand'
    BY <1>1, <1>2 DEF OneAnswerPerCommand, AskUser, Defer
  <2>2. BusyWhileAsking'
    BY <1>1 DEF BusyWhileAsking, AskUser
  <2>3. PromptKeepsRequest'
    BY <1>1 DEF PromptKeepsRequest, AskUser
  <2> QED BY <2>1, <2>2, <2>3 DEF AskInv
<1>5. GrantRecorded'
  BY DEF IInv, GrantRecorded, AskUser, OtherUnchanged
<1>6. UiOK' /\ FlowInv'
  <2>1. CASE Ui = "NBGL"
    <3>1. UiOK'
      BY <1>1, <2>1 DEF IInv, UiOK, AskUser, ShowPrompt
    <3>2. FlowInv'
      BY <2>1 DEF FlowInv, FlowAnswersPrompt, ReviewShowsTransaction, ReviewLaidOut
    <3> QED BY <3>1, <3>2
  <2>2. CASE Ui = "BAGL"
    <3>1. /\ ShowFlow(head \o AppIdStep(c.token) \o <<"approve", "reject">>)
          /\ approve_cb' = cmd /\ UNCHANGED signtx_screen
      BY <2>2 DEF AskUser, ShowPrompt
    <3>2. /\ steps' \in Layout /\ flow_len' \in Positions
          /\ Visible' \cap (MenuButtons \cup PromptButtons) = {"approve", "reject"}
      BY <3>1, PromptFlow DEF IInv, UiOK, Heads
    <3>3. UiOK'
      BY <1>1, <3>1, <3>2 DEF IInv, UiOK
    <3>4. Deciders(screen)' = {"approve", "reject"}
      BY <1>1 DEF Deciders
    <3>5. screen' \notin Menus
      BY <1>1 DEF Menus, Askers
    <3>6. FlowInv'
      BY <1>1, <3>1, <3>2, <3>4, <3>5
      DEF FlowInv, FlowAnswersPrompt, ReviewShowsTransaction, ReviewLaidOut
    <3> QED BY <3>3, <3>6
  <2> QED BY <2>1, <2>2, ConstantsAssumption
<1> QED BY <1>3, <1>4, <1>5, <1>6 DEF IInv

\* Screens added after a review's own ones and shown: the flow holds them all,
\* its buttons are the new ones.
LEMMA ReviewFlow ==
    ASSUME NEW st \in Layout, NEW base \in Nat, base >= 1,
           NEW new \in Seq(StepKinds \ {"end"}), Fits(base + Len(new)),
           st[0] = "path", \A i \in 0..(base - 1) : st[i] \in ReviewKinds,
           steps' = Close(Write(st, base, new), base + Len(new)),
           flow_len' = FlowLength(steps')
    PROVE  /\ steps' \in Layout
           /\ flow_len' \in Positions /\ base + Len(new) \in Positions
           /\ Visible' \cap (MenuButtons \cup PromptButtons)
                 = {new[i] : i \in 1..Len(new)} \cap (MenuButtons \cup PromptButtons)
           /\ {new[i] : i \in 1..Len(new)} \subseteq Visible'
           /\ "path" \in Visible'
<1> DEFINE mid == Write(st, base, new)
           pos == base + Len(new)
<1>1. Len(new) \in Nat /\ new \in Seq(StepKinds) /\ \A i \in 1..Len(new) : new[i] # "end"
  OBVIOUS
<1>2. pos \in Nat /\ pos \in Positions /\ pos + 1 \in Positions /\ pos + 2 =< MAX_NUMBER_OF_SCREENS
  BY <1>1, ConstantsAssumption DEF Fits, Positions
<1>3. /\ mid \in Layout
      /\ \A i \in Positions : i < base => mid[i] = st[i]
      /\ \A i \in Positions :
            i >= base /\ i < base + Len(new) /\ i < MAX_NUMBER_OF_SCREENS
            => mid[i] = new[i - base + 1]
  BY <1>1, WriteFacts
<1>4. ASSUME NEW i \in 0..(base - 1)
      PROVE  mid[i] = st[i] /\ mid[i] \in ReviewKinds /\ mid[i] # "end"
  <2>1. i \in Positions /\ i < base
    BY <1>1, <1>2, ConstantsAssumption DEF Positions
  <2> QED BY <1>3, <2>1 DEF ReviewKinds
<1>5. ASSUME NEW j \in 1..Len(new)
      PROVE  mid[base + j - 1] = new[j] /\ base + j - 1 \in 0..(pos - 1)
  <2>1. /\ base + j - 1 \in Positions /\ base + j - 1 >= base
        /\ base + j - 1 < base + Len(new) /\ base + j - 1 < MAX_NUMBER_OF_SCREENS
        /\ (base + j - 1) - base + 1 = j
        /\ base + j - 1 \in 0..(pos - 1)
    BY <1>1, <1>2, ConstantsAssumption DEF Positions
  <2>2. mid[base + j - 1] = new[(base + j - 1) - base + 1]
    BY <1>3, <2>1
  <2> QED BY <2>1, <2>2
<1>6. ASSUME NEW i \in 0..(pos - 1)
      PROVE  \/ i \in 0..(base - 1)
             \/ \E j \in 1..Len(new) : i = base + j - 1
  <2>1. CASE i < base BY <2>1, <1>1
  <2>2. CASE i >= base
    <3>1. i - base + 1 \in 1..Len(new) /\ i = base + (i - base + 1) - 1
      BY <2>2, <1>1, <1>2
    <3> QED BY <3>1
  <2> QED BY <2>1, <2>2, <1>2
<1>7. \A i \in 0..(pos - 1) : mid[i] # "end"
  BY <1>1, <1>4, <1>5, <1>6
<1> HIDE DEF mid
<1>8. steps' = Close(mid, pos)
  BY DEF mid
<1> HIDE DEF pos
<1>9. /\ steps' \in Layout
      /\ flow_len' = pos + 1
      /\ \A i \in 0..(pos - 1) : steps'[i] = mid[i]
      /\ steps'[pos] = "loop"
  <2>1. Fits(pos)
    BY DEF pos
  <2> QED BY <1>2, <1>3, <1>7, <1>8, <2>1, CloseFacts
<1>10. Visible' = {steps'[i] : i \in 0..pos}
  BY <1>2, <1>9 DEF Visible
<1>11. {new[j] : j \in 1..Len(new)} \subseteq Visible'
  <2>1. ASSUME NEW j \in 1..Len(new) PROVE new[j] \in Visible'
    <3>1. base + j - 1 \in 0..(pos - 1) /\ mid[base + j - 1] = new[j]
      BY <1>5
    <3>2. base + j - 1 \in 0..pos
      BY <3>1, <1>2
    <3> QED BY <1>9, <1>10, <3>1, <3>2
  <2> QED BY <2>1
<1>12. "path" \in Visible'
  <2>1. 0 \in 0..(base - 1)
    OBVIOUS
  <2>2. 0 \in 0..(pos - 1) /\ 0 \in 0..pos
    BY <1>1, <1>2 DEF pos
  <2>3. mid[0] = "path"
    BY <1>4, <2>1
  <2> QED BY <1>9, <1>10, <2>2, <2>3
<1>13. Visible' \subseteq ReviewKinds \cup {"loop"} \cup {new[j] : j \in 1..Len(new)}
  <2>1. ASSUME NEW i \in 0..pos
        PROVE  steps'[i] \in ReviewKinds \cup {"loop"} \cup {new[j] : j \in 1..Len(new)}
    <3>1. CASE i = pos BY <3>1, <1>9
    <3>2. CASE i # pos
      <4>1. i \in 0..(pos - 1) BY <3>2, <1>2
      <4>2. steps'[i] = mid[i] BY <4>1, <1>9
      <4> QED BY <4>1, <4>2, <1>4, <1>5, <1>6
    <3> QED BY <3>1, <3>2
  <2> QED BY <2>1, <1>10
<1>14. (ReviewKinds \cup {"loop"}) \cap (MenuButtons \cup PromptButtons) = {}
  BY DEF ReviewKinds, MenuButtons, PromptButtons
<1>15. flow_len' \in Positions
  BY <1>2, <1>9
<1> QED BY <1>2, <1>9, <1>11, <1>12, <1>13, <1>14, <1>15 DEF pos

\* A prompt of the signing session.
LEMMA AskSignerStep ==
    ASSUME IInv, ~ui_busy, current_command = "SIGN_TX", NEW c \in Contexts,
           NEW which \in {"CONFIRM", "BLIND"}, which = "CONFIRM" => c.op = "FINALIZED",
           AskSigner(c, which),
           steps' \in Layout, flow_len' \in Positions, signtx_screen' \in Positions,
           Ui = "BAGL" =>
              /\ Visible' \cap (MenuButtons \cup PromptButtons) = Deciders(which)
              /\ which = "CONFIRM" => {"path", "dynamic", "sign"} \subseteq Visible'
    PROVE  IInv'
<1>1. screen' = which /\ screen' \in Prompts /\ screen' \notin Commands /\ screen' \in Screens
      /\ screen' \notin Menus
  BY DEF AskSigner, Prompts, Commands, Screens, Menus
<1>2. owed = 0
  BY DEF IInv, AskInv, OneAnswerPerCommand, BusyWhileAsking, DataOK
<1>3. DataOK'
  <2>1. /\ current_command' = current_command /\ ctx' = c /\ ui_busy' = TRUE /\ denied' = denied
        /\ asked' = [cmd |-> "SIGN_TX", token |-> c.token, session |-> c.session]
        /\ out' = Answer("none", NoToken) /\ owed' = owed + 1
        /\ UNCHANGED <<connected_app_id, blind_signing_enabled, approved, started>>
    BY DEF AskSigner, Defer, OtherUnchanged, histVars
  <2>2. c.token \in Tokens /\ c.session \in SessionIds \cup {0} /\ "SIGN_TX" \in Commands
    BY DEF Contexts, Commands
  <2>3. out' \in [what : Answers, token : Tokens]
    BY <2>1 DEF Answer, Answers, Tokens
  <2>4. asked' \in [cmd : Commands, token : Tokens, session : SessionIds \cup {0}]
    BY <1>1, <2>1, <2>2
  <2>5. owed' \in Nat
    BY <1>2, <2>1
  <2>6. ui_busy' \in BOOLEAN /\ denied' \in BOOLEAN /\ blind_signing_enabled' \in BOOLEAN
    BY <2>1 DEF IInv, DataOK
  <2> QED BY <2>1, <2>3, <2>4, <2>5, <2>6 DEF IInv, DataOK
<1>4. AskInv'
  <2>1. OneAnswerPerCommand'
    BY <1>1, <1>2 DEF OneAnswerPerCommand, AskSigner, Defer
  <2>2. BusyWhileAsking'
    BY <1>1 DEF BusyWhileAsking, AskSigner
  <2>3. PromptKeepsRequest'
    BY <1>1 DEF PromptKeepsRequest, AskSigner
  <2> QED BY <2>1, <2>2, <2>3 DEF AskInv
<1>5. GrantRecorded'
  BY DEF IInv, GrantRecorded, AskSigner, OtherUnchanged, histVars
<1>6. UiOK'
  BY <1>1 DEF IInv, UiOK, AskSigner
<1>7. FlowInv'
  BY <1>1 DEF FlowInv, FlowAnswersPrompt, ReviewShowsTransaction, ReviewLaidOut
<1> QED BY <1>3, <1>4, <1>5, <1>6, <1>7 DEF IInv

----------------------------------------------------------------------------
(* Every step keeps the invariant: the host's steps.                       *)

\* The context app_set_current_command leaves is a context.
LEMMA ZeroCtxOK == ZeroCtx \in Contexts
BY DEF ZeroCtx, Contexts, Tokens, OpStates

\* A step that changes nothing but the last answer.
LEMMA OnlyAnswers ==
    ASSUME IInv, out' \in [what : Answers, token : Tokens],
           UNCHANGED <<devVars, connected_app_id, blind_signing_enabled, screen, flowVars,
                       owed, asked, denied, histVars>>
    PROVE  IInv'
<1>1. DataOK'
  BY DEF IInv, DataOK, devVars, histVars
<1>2. UiOK' /\ Visible' = Visible
  BY DEF IInv, UiOK, flowVars, Visible
<1>3. AskInv'
  BY DEF IInv, AskInv, OneAnswerPerCommand, BusyWhileAsking, PromptKeepsRequest, devVars
<1>4. FlowInv'
  BY <1>2 DEF IInv, FlowInv, FlowAnswersPrompt, ReviewShowsTransaction, ReviewLaidOut,
              flowVars, devVars, Deciders
<1>5. GrantRecorded'
  BY DEF IInv, GrantRecorded, histVars
<1> QED BY <1>1, <1>2, <1>3, <1>4, <1>5 DEF IInv

\* An answer of a known kind with a known token is well formed.
LEMMA AnswerOK ==
    ASSUME NEW what \in Answers, NEW token \in Tokens
    PROVE  Answer(what, token) \in [what : Answers, token : Tokens]
BY DEF Answer

\* A request without a token counts as one with token 0.
LEMMA NoTokenOK == NoToken \in Tokens
BY DEF Tokens

\* Rejected APDUs, GetVersion, GetName and busy answers change no state.
LEMMA StatelessStep ==
    ASSUME IInv, NEW what \in {"error", "ok", "busy"}, Stateless(what)
    PROVE  IInv'
<1>1. out' \in [what : Answers, token : Tokens]
  BY AnswerOK, NoTokenOK DEF Stateless, Reply, Answers
<1> QED
  BY <1>1, OnlyAnswers
  DEF Stateless, Reply, UiUnchanged, OtherUnchanged

\* Dropping the current command, or starting one, on a fresh context.
LEMMA FreshCommand ==
    ASSUME IInv, NEW cmd \in Commands, app_set_current_command(cmd), denied' = FALSE,
           NEW what \in Answers, NEW token \in Tokens, Reply(what, token),
           UNCHANGED <<asked, histVars>>, OtherUnchanged
    PROVE  /\ DataOK' /\ ui_busy' = FALSE /\ owed' = owed /\ current_command' = cmd
           /\ GrantRecorded'
<1>1. out' \in [what : Answers, token : Tokens]
  BY AnswerOK DEF Reply
<1>2. DataOK'
  BY <1>1, ZeroCtxOK
  DEF IInv, DataOK, app_set_current_command, Reply, OtherUnchanged, histVars
<1> QED
  BY <1>2 DEF IInv, GrantRecorded, app_set_current_command, Reply, OtherUnchanged, histVars

\* COMMAND_ERROR_HANDLER drops the command and answers once.
LEMMA DropFacts ==
    ASSUME IInv, DropCommand
    PROVE  /\ DataOK' /\ ui_busy' = FALSE /\ owed' = owed /\ current_command' = "NONE"
           /\ GrantRecorded'
<1>1. "NONE" \in Commands /\ "error" \in Answers
  BY DEF Commands, Answers
<1> QED BY <1>1, NoTokenOK, FreshCommand DEF DropCommand

\* An error of a handler that is not busy keeps the invariant.
LEMMA HandlerErrStep ==
    ASSUME IInv, ~ui_busy, handler_err
    PROVE  IInv'
<1>1. DropCommand /\ UiUnchanged
  BY DEF handler_err
<1> QED BY <1>1, DropFacts, QuietStep

\* An answer sent at once to a known application keeps the invariant.
LEMMA SendNowStep ==
    ASSUME IInv, ~ui_busy, NEW what \in Answers, NEW token \in Tokens, SendNow(what, token)
    PROVE  IInv'
<1>1. "NONE" \in Commands
  BY DEF Commands
<1>2. /\ DataOK' /\ ui_busy' = FALSE /\ owed' = owed /\ current_command' = "NONE"
      /\ GrantRecorded'
  BY <1>1, FreshCommand DEF SendNow
<1> QED BY <1>2, QuietStep DEF SendNow

\* An error that leaves the command current keeps the invariant.
LEMMA ErrorKeepsCommandStep ==
    ASSUME IInv, ~ui_busy, NEW cmd \in Askers, NEW c \in Contexts,
           ErrorKeepsCommand(cmd, c)
    PROVE  IInv'
<1>1. cmd \in Commands /\ cmd # "SIGN_TX" /\ "error" \in Answers
  BY DEF Commands, Askers, Answers
<1>2. out' \in [what : Answers, token : Tokens]
  BY <1>1, AnswerOK, NoTokenOK DEF ErrorKeepsCommand, Reply
<1>3. DataOK'
  BY <1>1, <1>2 DEF IInv, DataOK, ErrorKeepsCommand, Reply, OtherUnchanged, histVars
<1>4. ui_busy' = FALSE /\ owed' = owed /\ current_command' = cmd /\ GrantRecorded'
  BY DEF IInv, GrantRecorded, ErrorKeepsCommand, Reply, OtherUnchanged, histVars
<1> QED BY <1>1, <1>3, <1>4, QuietStep DEF ErrorKeepsCommand

\* An accepted sub-command without a screen keeps the invariant.
LEMMA ProceedStep ==
    ASSUME IInv, ~ui_busy, NEW c \in Contexts, NEW what \in Answers, Proceed(c, what)
    PROVE  IInv'
<1>1. out' \in [what : Answers, token : Tokens]
  BY AnswerOK, NoTokenOK DEF Proceed, Reply
<1>2. DataOK'
  BY <1>1 DEF IInv, DataOK, Proceed, Reply, OtherUnchanged, histVars
<1>3. GrantRecorded'
  BY DEF IInv, GrantRecorded, Proceed, OtherUnchanged, histVars
<1>4. ui_busy' = FALSE
  BY DEF IInv, DataOK, Proceed
<1> QED BY <1>2, <1>3, <1>4, QuietStep DEF Proceed, Reply

\* Dropping the command after laying out screens that hold no prompt button
\* where a menu could show it.
LEMMA DropLayOutStep ==
    ASSUME IInv, ~ui_busy, DropCommand,
           NEW st \in Layout, NEW pos \in Positions, LayOut(st, pos),
           Ui = "BAGL" => \A i \in 0..4 : st[i] = steps[i] \/ st[i] \notin PromptButtons
    PROVE  IInv'
BY DropFacts, LayOutStep

\* A prompt given up: BAGL has already overwritten the first steps of the menu
\* on display, which adds no button to it.
LEMMA DropBegunStep ==
    ASSUME IInv, ~ui_busy, NEW begun \in Seq({"text", "path"}), Len(begun) =< 2,
           DropBegun(begun)
    PROVE  IInv'
<1>0. steps \in Layout /\ signtx_screen \in Positions
  BY DEF IInv, UiOK
<1>1. CASE Ui # "BAGL"
  <2>1. DropCommand /\ LayOut(steps, signtx_screen)
    BY <1>1 DEF DropBegun, LayOut
  <2> QED BY <1>0, <1>1, <2>1, DropLayOutStep
<1>2. CASE Ui = "BAGL"
  <2> DEFINE st == Write(steps, 0, begun)
  <2>1. DropCommand /\ LayOut(st, signtx_screen)
    BY <1>2 DEF DropBegun, LayOut
  <2>2. begun \in Seq(StepKinds) /\ Len(begun) \in Nat
    BY DEF StepKinds
  <2>3. \A k \in 1..Len(begun) : begun[k] \notin PromptButtons
    <3>1. \A k \in 1..Len(begun) : begun[k] \in {"text", "path"}
      OBVIOUS
    <3> QED BY <3>1 DEF PromptButtons
  <2>4. \A i \in 0..4 : i \in Positions /\ i < MAX_NUMBER_OF_SCREENS /\ i \in Nat
    BY ConstantsAssumption DEF Positions
  <2>5. /\ st \in Layout
        /\ \A i \in Positions : i >= 0 + Len(begun) => st[i] = steps[i]
        /\ \A i \in Positions : i >= 0 /\ i < 0 + Len(begun) /\ i < MAX_NUMBER_OF_SCREENS
                                => st[i] = begun[i - 0 + 1]
    <3>1. 0 \in Nat /\ steps \in Layout /\ begun \in Seq(StepKinds)
      BY <1>0, <2>2
    <3> QED BY ONLY <3>1, WriteFacts
  <2>6. ASSUME NEW i \in 0..4 PROVE st[i] = steps[i] \/ st[i] \notin PromptButtons
    <3>1. CASE i < Len(begun)
      <4>1. i - 0 + 1 \in 1..Len(begun)
        BY <2>2, <3>1
      <4>2. st[i] = begun[i - 0 + 1]
        BY <2>2, <2>4, <2>5, <3>1
      <4> QED BY <2>3, <4>1, <4>2
    <3>2. CASE i >= Len(begun)
      BY <2>2, <2>4, <2>5, <3>2
    <3> QED BY <2>2, <3>1, <3>2
  <2> HIDE DEF st
  <2> QED BY <1>0, <2>1, <2>5, <2>6, DropLayOutStep
<1> QED BY <1>1, <1>2

\* A path that does not fit its buffer.
LEMMA PathTooLongStep ==
    ASSUME IInv, ~ui_busy, NEW cmd \in Askers, NEW c \in Contexts, PathTooLong(cmd, c)
    PROVE  IInv'
<1>1. CASE ErrorKeepsCommand(cmd, c)
  BY <1>1, ErrorKeepsCommandStep
<1>2. CASE DropBegun(<<"text">>)
  <2>1. <<"text">> \in Seq({"text", "path"}) /\ Len(<<"text">>) =< 2
    OBVIOUS
  <2> QED BY <1>2, <2>1, DropBegunStep
<1> QED BY <1>1, <1>2 DEF PathTooLong

\* handler_get_extended_public_key keeps the invariant.
LEMMA ExtPubKeyStep ==
    ASSUME IInv, NEW token \in Tokens, NEW check,
           handler_get_extended_public_key(token, check)
    PROVE  IInv'
<1>1. ~ui_busy /\ "EXT_PUB_KEY" \in Askers /\ "pubkey" \in Answers
  BY DEF handler_get_extended_public_key, Askers, Answers
<1>2. CASE handler_err
  BY <1>1, <1>2, HandlerErrStep
<1>3. CASE SendNow("pubkey", token)
  BY <1>1, <1>3, SendNowStep
<1>4. CASE PathTooLong("EXT_PUB_KEY", ZeroCtx)
  BY <1>1, <1>4, ZeroCtxOK, PathTooLongStep
<1>5. CASE /\ AskUser("EXT_PUB_KEY", [ZeroCtx EXCEPT !.token = token], <<"text", "path">>)
           /\ UNCHANGED histVars
  <2>1. [ZeroCtx EXCEPT !.token = token] \in Contexts
    BY ZeroCtxOK DEF Contexts
  <2>2. <<"text", "path">> \in Heads
    BY DEF Heads
  <2>3. UNCHANGED <<approved, started>>
    BY <1>5 DEF IInv, DataOK, histVars
  <2> QED BY <1>1, <1>5, <2>1, <2>2, <2>3, AskUserStep
<1> QED BY <1>2, <1>3, <1>4, <1>5 DEF handler_get_extended_public_key

\* handler_derive_address keeps the invariant.
LEMMA DeriveAddressStep ==
    ASSUME IInv, NEW display \in BOOLEAN, NEW token \in Tokens, NEW check,
           handler_derive_address(display, token, check)
    PROVE  IInv'
<1> DEFINE c == [ZeroCtx EXCEPT !.token = token, !.send = ~display]
           head == IF display THEN <<"text", "path", "text">> ELSE <<"text", "path">>
<1>1. ~ui_busy /\ "DERIVE_ADDRESS" \in Askers /\ "address" \in Answers
  BY DEF handler_derive_address, Askers, Answers
<1>2. CASE handler_err
  BY <1>1, <1>2, HandlerErrStep
<1>3. CASE SendNow("address", token)
  BY <1>1, <1>3, SendNowStep
<1>c. c \in Contexts
  BY ZeroCtxOK DEF Contexts
<1>4. CASE PathTooLong("DERIVE_ADDRESS", c)
  <2> HIDE DEF c
  <2> QED BY <1>1, <1>c, <1>4, PathTooLongStep
<1>5. CASE ErrorKeepsCommand("DERIVE_ADDRESS", ZeroCtx)
  BY <1>1, <1>5, ZeroCtxOK, ErrorKeepsCommandStep
<1>7. CASE DropBegun(<<"text", "path">>)
  <2>1. <<"text", "path">> \in Seq({"text", "path"}) /\ Len(<<"text", "path">>) =< 2
    OBVIOUS
  <2> QED BY <1>1, <1>7, <2>1, DropBegunStep
<1>6. CASE AskUser("DERIVE_ADDRESS", c, head) /\ UNCHANGED histVars
  <2>2. head \in Heads
    BY DEF Heads
  <2>3. UNCHANGED <<approved, started>>
    BY <1>6 DEF IInv, DataOK, histVars
  <2> HIDE DEF c, head
  <2> QED BY <1>1, <1>c, <1>6, <2>2, <2>3, AskUserStep
<1> QED BY <1>2, <1>3, <1>4, <1>5, <1>6, <1>7 DEF handler_derive_address

\* AttestInputBox, start: keeps the invariant.
LEMMA AttestInitStep ==
    ASSUME IInv, NEW token \in Tokens, NEW check, NEW id \in SessionIds,
           attest_init(token, check, id)
    PROVE  IInv'
<1>1. ~ui_busy /\ "ATTEST_INPUT" \in Askers /\ "session" \in Answers
      /\ "ATTEST_INPUT" \in Commands /\ "ATTEST_INPUT" # "SIGN_TX"
  BY DEF attest_init, Askers, Answers, Commands
<1>2. CASE handler_err
  BY <1>1, <1>2, HandlerErrStep
<1>3. CASE /\ UNCHANGED <<approved, started>>
           /\ AskUser("ATTEST_INPUT", [ZeroCtx EXCEPT !.session = id, !.token = token],
                      <<"text">>)
  <2>1. [ZeroCtx EXCEPT !.session = id, !.token = token] \in Contexts
    BY ZeroCtxOK DEF Contexts
  <2>2. <<"text">> \in Heads
    BY DEF Heads
  <2> QED BY <1>1, <1>3, <2>1, <2>2, AskUserStep
<1>4. CASE /\ UNCHANGED <<approved, started>>
           /\ current_command' = "ATTEST_INPUT"
           /\ ctx' = [ZeroCtx EXCEPT !.session = id, !.state = "APPROVED"]
           /\ ui_busy' = FALSE /\ denied' = FALSE
           /\ Reply("session", token)
           /\ UNCHANGED asked /\ UiUnchanged /\ OtherUnchanged
  <2>1. ctx' \in Contexts
    BY <1>4, ZeroCtxOK DEF Contexts
  <2>2. out' \in [what : Answers, token : Tokens]
    BY <1>1, <1>4, AnswerOK DEF Reply
  <2>3. DataOK'
    BY <1>1, <1>4, <2>1, <2>2 DEF IInv, DataOK, OtherUnchanged, Reply
  <2>4. GrantRecorded'
    BY <1>4 DEF IInv, GrantRecorded, OtherUnchanged
  <2> QED BY <1>1, <1>4, <2>3, <2>4, QuietStep DEF Reply
<1> QED BY <1>2, <1>3, <1>4 DEF attest_init

\* AttestInputBox, tree, tokens and registers chunks: keep the invariant.
LEMMA AttestChunkStep ==
    ASSUME IInv, NEW id, NEW result, attest_chunk(id, result)
    PROVE  IInv'
<1>1. ~ui_busy /\ "ok" \in Answers /\ "frames" \in Answers
  BY DEF attest_chunk, Answers
<1>2. ctx \in Contexts /\ [ctx EXCEPT !.state = "FINISHED"] \in Contexts
  BY DEF IInv, DataOK, Contexts
<1>3. CASE handler_err
  BY <1>1, <1>3, HandlerErrStep
<1>4. CASE Proceed(ctx, "ok")
  BY <1>1, <1>2, <1>4, ProceedStep
<1>5. CASE Proceed([ctx EXCEPT !.state = "FINISHED"], "frames")
  BY <1>1, <1>2, <1>5, ProceedStep
<1> QED BY <1>3, <1>4, <1>5 DEF attest_chunk

\* AttestInputBox, get frame: keeps the invariant.
LEMMA AttestFrameStep ==
    ASSUME IInv, NEW id, NEW valid_index, attest_get_frame(id, valid_index)
    PROVE  IInv'
<1>1. ~ui_busy /\ "frame" \in Answers /\ ctx \in Contexts
  BY DEF attest_get_frame, Answers, IInv, DataOK
<1>2. CASE handler_err
  BY <1>1, <1>2, HandlerErrStep
<1>3. CASE Proceed(ctx, "frame")
  BY <1>1, <1>3, ProceedStep
<1> QED BY <1>2, <1>3 DEF attest_get_frame

\* The review starts with the path, then perhaps the application id.
LEMMA SignHeadFacts ==
    ASSUME NEW token
    PROVE  /\ SignHead(token) \in Seq(StepKinds)
           /\ Len(SignHead(token)) \in 1..2
           /\ SignHead(token)[1] = "path"
           /\ \A i \in 1..Len(SignHead(token)) : SignHead(token)[i] \in ReviewKinds
<1>0. ReviewKinds \subseteq StepKinds /\ "path" \in ReviewKinds /\ "app_id" \in ReviewKinds
  BY DEF ReviewKinds, StepKinds
<1>2. SignHead(token) = <<"path">> \/ SignHead(token) = <<"path", "app_id">>
  BY DEF SignHead
<1>3. CASE SignHead(token) = <<"path">>
  BY <1>0, <1>3
<1>4. CASE SignHead(token) = <<"path", "app_id">>
  BY <1>0, <1>4
<1> QED BY <1>2, <1>3, <1>4

\* SignTransaction, start: resets signtx_screen and lays out the review head.
LEMMA SignInitStep ==
    ASSUME IInv, NEW token \in Tokens, NEW check, NEW id \in SessionIds,
           sign_init(token, check, id)
    PROVE  IInv'
<1>1. ~ui_busy /\ "session" \in Answers /\ "SIGN_TX" \in Commands
      /\ steps \in Layout /\ 0 \in Positions
  BY ConstantsAssumption DEF sign_init, Answers, Commands, IInv, UiOK, Positions
<1>2. CASE Stateless("error")
  BY <1>2, StatelessStep
<1>3. CASE handler_err
  BY <1>1, <1>3, HandlerErrStep
<1>4. CASE DropCommand /\ LayOut(steps, 0)
  BY <1>1, <1>4, DropLayOutStep
<1>5. CASE /\ current_command' = "SIGN_TX"
           /\ ctx' = [ZeroCtx EXCEPT !.session = id, !.state = "APPROVED", !.token = token]
           /\ ui_busy' = FALSE /\ denied' = FALSE
           /\ connected_app_id' = token
           /\ started' = started \cup {token}
           /\ Reply("session", token)
           /\ UNCHANGED <<blind_signing_enabled, asked, approved>>
           /\ IF Ui = "BAGL" THEN LayOut(Write(steps, 0, SignHead(token)), Len(SignHead(token)))
                             ELSE LayOut(steps, 0)
  <2>1. ctx' \in Contexts
    BY <1>5, ZeroCtxOK DEF Contexts
  <2>2. out' \in [what : Answers, token : Tokens]
    BY <1>1, <1>5, AnswerOK DEF Reply
  <2>3. DataOK'
    BY <1>1, <1>5, <2>1, <2>2 DEF IInv, DataOK, Reply
  <2>4. GrantRecorded'
    BY <1>5 DEF GrantRecorded
  <2>5. owed' = owed
    BY <1>5 DEF Reply
  <2>6. CASE Ui # "BAGL"
    BY <1>1, <1>5, <2>3, <2>4, <2>5, <2>6, LayOutStep
  <2>7. CASE Ui = "BAGL"
    <3> DEFINE new == SignHead(token)
               st == Write(steps, 0, new)
    <3>1. /\ new \in Seq(StepKinds) /\ Len(new) \in 1..2 /\ new[1] = "path"
          /\ \A i \in 1..Len(new) : new[i] \in ReviewKinds
      BY SignHeadFacts
    <3>2. LayOut(st, Len(new))
      BY <1>5, <2>7
    <3> HIDE DEF new
    <3>3. /\ st \in Layout
          /\ \A i \in Positions : i >= 0 + Len(new) => st[i] = steps[i]
          /\ \A i \in Positions : i >= 0 /\ i < 0 + Len(new) /\ i < MAX_NUMBER_OF_SCREENS
                                  => st[i] = new[i - 0 + 1]
      <4>1. 0 \in Nat /\ steps \in Layout /\ new \in Seq(StepKinds)
        BY <1>1, <3>1
      <4> QED BY ONLY <4>1, WriteFacts
    <3>4. \A i \in 0..4 : i \in Positions /\ i < MAX_NUMBER_OF_SCREENS /\ i \in Nat
      BY ConstantsAssumption DEF Positions
    <3>5. ASSUME NEW i \in 0..(Len(new) - 1) PROVE st[i] = new[i + 1] /\ i + 1 \in 1..Len(new)
      <4>1. i \in 0..4 /\ i >= 0 /\ i < 0 + Len(new) /\ i - 0 + 1 = i + 1 /\ i + 1 \in 1..Len(new)
        BY <3>1
      <4> QED BY <3>3, <3>4, <4>1
    <3>6. \A i \in 0..(Len(new) - 1) : st[i] \in ReviewKinds
      BY <3>1, <3>5
    <3>7. st[0] = "path"
      <4>1. 0 \in 0..(Len(new) - 1) /\ 0 + 1 = 1
        BY <3>1
      <4>2. st[0] = new[0 + 1]
        BY <3>5, <4>1
      <4> QED BY <3>1, <4>1, <4>2
    <3>8. ASSUME NEW i \in 0..4 PROVE st[i] = steps[i] \/ st[i] \notin PromptButtons
      <4>1. CASE i \in 0..(Len(new) - 1)
        BY <3>6, <4>1 DEF ReviewKinds, PromptButtons
      <4>2. CASE i \notin 0..(Len(new) - 1)
        <5>1. i >= 0 + Len(new) BY <3>1, <4>2
        <5> QED BY <3>3, <3>4, <5>1
      <4> QED BY <4>1, <4>2
    <3>9. Len(new) \in Positions /\ Len(new) >= 1 /\ Len(new) + 6 =< MAX_NUMBER_OF_SCREENS
      BY <3>1, ConstantsAssumption DEF Positions
    <3> HIDE DEF st
    <3> QED
      BY <1>1, <1>5, <2>3, <2>4, <2>5, <3>2, <3>3, <3>6, <3>7, <3>8, <3>9, LayOutStep
  <2> QED BY <2>6, <2>7
<1> QED BY <1>2, <1>3, <1>4, <1>5 DEF sign_init

\* SignTransaction, uploads that only move the operation on.
LEMMA SignUploadStep ==
    ASSUME IInv, NEW id, NEW from, NEW to \in OpStates, NEW ok, sign_upload(id, from, to, ok)
    PROVE  IInv'
<1>1. ~ui_busy /\ "ok" \in Answers /\ [ctx EXCEPT !.op = to] \in Contexts
  BY DEF sign_upload, SignReceive, Answers, IInv, DataOK, Contexts
<1>2. CASE handler_err
  BY <1>1, <1>2, HandlerErrStep
<1>3. CASE Proceed([ctx EXCEPT !.op = to], "ok")
  BY <1>1, <1>3, ProceedStep
<1> QED BY <1>2, <1>3 DEF sign_upload

\* What the open signing session has laid out so far (BAGL).
LEMMA SessionScreens ==
    ASSUME IInv, SafeUi, SignReceive, current_command = "SIGN_TX", Ui = "BAGL"
    PROVE  /\ ~denied
           /\ signtx_screen \in Nat /\ signtx_screen >= 1
           /\ signtx_screen + 6 =< MAX_NUMBER_OF_SCREENS
           /\ steps \in Layout /\ steps[0] = "path"
           /\ \A i \in 0..(signtx_screen - 1) : steps[i] \in ReviewKinds
<1>1. ~denied
  BY DEF SafeUi, SignReceive, Discipline
<1>2. screen \in Menus
  BY DEF SignReceive, IInv, AskInv, BusyWhileAsking, DataOK, FlowInv, ReviewLaidOut
<1>3. signtx_screen \in Nat
  BY ConstantsAssumption DEF IInv, UiOK, Positions
<1> QED BY <1>1, <1>2, <1>3 DEF IInv, UiOK, FlowInv, ReviewLaidOut

\* ui_stx_add_output_screens, or the overflow error.
LEMMA AddOutputScreensStep ==
    ASSUME IInv, ~ui_busy, NEW c \in Contexts,
           NEW st \in Layout, NEW pos \in Positions, AddOutputScreens(c, st, pos),
           Ui = "BAGL" =>
              /\ \A i \in 0..4 : st[i] = steps[i] \/ st[i] \notin PromptButtons
              /\ pos >= 1 /\ st[0] = "path"
              /\ \A i \in 0..(pos - 1) : st[i] \in ReviewKinds
    PROVE  IInv'
<1>1. CASE DropCommand /\ LayOut(st, pos)
  BY <1>1, DropLayOutStep
<1>2. CASE /\ MAX_NUMBER_OF_SCREENS >= pos + 6 /\ ctx' = c /\ Reply("ok", NoToken)
           /\ UNCHANGED <<current_command, ui_busy, asked, denied, histVars>>
           /\ LayOut(st, pos) /\ OtherUnchanged
  <2>1. out' \in [what : Answers, token : Tokens]
    BY <1>2, AnswerOK, NoTokenOK DEF Reply, Answers
  <2>2. DataOK'
    BY <1>2, <2>1 DEF IInv, DataOK, Reply, OtherUnchanged, histVars
  <2>3. GrantRecorded'
    BY <1>2 DEF IInv, GrantRecorded, OtherUnchanged, histVars
  <2>4. ui_busy' = FALSE /\ owed' = owed
    BY <1>2 DEF IInv, DataOK, Reply
  <2>5. pos + 6 =< MAX_NUMBER_OF_SCREENS
    BY <1>2, ConstantsAssumption DEF Positions
  <2> QED BY <1>2, <2>2, <2>3, <2>4, <2>5, LayOutStep
<1> QED BY <1>1, <1>2 DEF AddOutputScreens

\* The closing steps of a prompt of the session, on BAGL.
LEMMA ShowOrDropStep ==
    ASSUME IInv, SafeUi, SignReceive, current_command = "SIGN_TX", Ui = "BAGL",
           NEW c \in Contexts, NEW which \in {"CONFIRM", "BLIND"},
           which = "CONFIRM" => c.op = "FINALIZED",
           NEW new \in Seq(StepKinds \ {"end"}), Len(new) \in 4..5,
           {new[i] : i \in 1..Len(new)} \cap (MenuButtons \cup PromptButtons) = Deciders(which),
           which = "CONFIRM" => {"dynamic", "sign"} \subseteq {new[i] : i \in 1..Len(new)},
           \A i \in 1..2 : new[i] \notin PromptButtons,
           ShowOrDrop(c, which, Write(steps, signtx_screen, new), signtx_screen + Len(new))
    PROVE  IInv'
<1> DEFINE base == signtx_screen
           st == Write(steps, base, new)
           pos == base + Len(new)
<1>1. ~ui_busy
  BY DEF SignReceive
<1>2. /\ ~denied /\ base \in Nat /\ base >= 1 /\ base + 6 =< MAX_NUMBER_OF_SCREENS
      /\ steps \in Layout /\ steps[0] = "path"
      /\ \A i \in 0..(base - 1) : steps[i] \in ReviewKinds
  BY SessionScreens
<1>3. new \in Seq(StepKinds) /\ Len(new) \in Nat
  OBVIOUS
<1>4. /\ st \in Layout
      /\ \A i \in Positions : i < base => st[i] = steps[i]
      /\ \A i \in Positions : i >= base + Len(new) => st[i] = steps[i]
      /\ \A i \in Positions :
            i >= base /\ i < base + Len(new) /\ i < MAX_NUMBER_OF_SCREENS
            => st[i] = new[i - base + 1]
  BY ONLY <1>2, <1>3, WriteFacts
<1>5. pos \in Positions
  <2>1. ASSUME NEW b \in Nat, NEW n \in 4..5, b + 6 =< MAX_NUMBER_OF_SCREENS
        PROVE  b + n \in Positions
    BY <2>1, ConstantsAssumption DEF Positions
  <2> QED BY ONLY <1>2, <2>1, Len(new) \in 4..5
<1>6. CASE ~Fits(pos) /\ DropCommand /\ LayOut(st, pos)
  <2>1. base + Len(new) + 2 > MAX_NUMBER_OF_SCREENS
    BY <1>2, <1>3, <1>6, ConstantsAssumption DEF Fits
  <2>2. base >= 4 /\ Len(new) = 5
    <3>1. ASSUME NEW b \in Nat, NEW n \in 4..5, b + 6 =< MAX_NUMBER_OF_SCREENS,
                 b + n + 2 > MAX_NUMBER_OF_SCREENS
          PROVE  b >= 4 /\ n = 5
      BY <3>1, ConstantsAssumption
    <3> QED BY ONLY <1>2, <2>1, <3>1, Len(new) \in 4..5
  <2>3. ASSUME NEW i \in 0..4 PROVE st[i] = steps[i] \/ st[i] \notin PromptButtons
    <3>1. i \in Positions /\ i < MAX_NUMBER_OF_SCREENS
      BY ConstantsAssumption DEF Positions
    <3>2. CASE i < base
      BY <1>4, <3>1, <3>2
    <3>3. CASE i >= base
      <4>1. i - base + 1 = 1 /\ i < base + Len(new)
        BY <1>2, <2>2, <3>3
      <4>2. st[i] = new[i - base + 1]
        BY <1>4, <3>1, <3>3, <4>1
      <4>3. st[i] = new[1]
        BY <4>1, <4>2
      <4> QED BY <4>3
    <3> QED BY <1>2, <3>2, <3>3
  <2> HIDE DEF st, pos, base
  <2> QED BY <1>1, <1>4, <1>5, <1>6, <2>3, DropLayOutStep
<1>7. CASE /\ Fits(pos) /\ AskSigner(c, which)
           /\ steps' = Close(st, pos) /\ flow_len' = FlowLength(steps')
           /\ signtx_screen' = pos
  <2>1. /\ steps' \in Layout /\ flow_len' \in Positions
        /\ Visible' \cap (MenuButtons \cup PromptButtons)
              = {new[i] : i \in 1..Len(new)} \cap (MenuButtons \cup PromptButtons)
        /\ {new[i] : i \in 1..Len(new)} \subseteq Visible'
        /\ "path" \in Visible'
    BY <1>2, <1>7, ReviewFlow
  <2>2. /\ Visible' \cap (MenuButtons \cup PromptButtons) = Deciders(which)
        /\ which = "CONFIRM" => {"path", "dynamic", "sign"} \subseteq Visible'
    BY <2>1
  <2> HIDE DEF st, pos, base
  <2> QED BY <1>1, <1>5, <1>7, <2>1, <2>2, AskSignerStep
<1> QED BY <1>6, <1>7 DEF ShowOrDrop

\* The steps of the blind signing warning.
LEMMA BlindWarningFacts ==
    /\ BlindWarning \in Seq(StepKinds \ {"end"}) /\ Len(BlindWarning) = 4
    /\ {BlindWarning[i] : i \in 1..4} = {"warn", "blind_settings", "blind_reject"}
    /\ \A i \in 1..2 : BlindWarning[i] = "warn"
<1>1. {"warn", "blind_settings", "blind_reject"} \subseteq StepKinds \ {"end"}
  BY DEF StepKinds
<1> QED BY <1>1 DEF BlindWarning

\* The closing steps of the transaction review.
LEMMA ConfirmStepsFacts ==
    /\ ConfirmSteps \in Seq(StepKinds \ {"end"}) /\ Len(ConfirmSteps) = 5
    /\ {ConfirmSteps[i] : i \in 1..5} = {"dynamic", "sign", "sign_reject"}
    /\ \A i \in 1..2 : ConfirmSteps[i] = "dynamic"
<1>1. {"dynamic", "sign", "sign_reject"} \subseteq StepKinds \ {"end"}
  BY DEF StepKinds
<1> QED BY <1>1 DEF ConfirmSteps

\* ui_stx_operation_p2pk_show_output_confirm_screen, all four branches.
LEMMA ShowOutputStep ==
    ASSUME IInv, SafeUi, SignReceive, current_command = "SIGN_TX", NEW c \in Contexts,
           NEW blind \in BOOLEAN, show_output_confirm_screen(c, blind)
    PROVE  IInv'
<1> DEFINE cb == [c EXCEPT !.blind = TRUE]
<1>1. ~ui_busy /\ cb \in Contexts /\ steps \in Layout /\ signtx_screen \in Positions
  BY DEF SignReceive, Contexts, IInv, UiOK
<1>2. ASSUME NEW d \in Contexts, AddOutputScreens(d, steps, signtx_screen) PROVE IInv'
  <2>1. Ui = "BAGL" =>
          /\ \A i \in 0..4 : steps[i] = steps[i] \/ steps[i] \notin PromptButtons
          /\ signtx_screen >= 1 /\ steps[0] = "path"
          /\ \A i \in 0..(signtx_screen - 1) : steps[i] \in ReviewKinds
    BY SessionScreens
  <2> QED BY <1>1, <1>2, <2>1, AddOutputScreensStep
<1>3. CASE /\ Ui = "BAGL"
           /\ AddOutputScreens(cb, Write(steps, signtx_screen, <<"blind">>),
                               Advance(signtx_screen, 1))
  <2> DEFINE one == <<"blind">>
             st == Write(steps, signtx_screen, one)
             pos == signtx_screen + 1
  <2>1. /\ signtx_screen \in Nat /\ signtx_screen >= 1
        /\ signtx_screen + 6 =< MAX_NUMBER_OF_SCREENS
        /\ steps[0] = "path"
        /\ \A i \in 0..(signtx_screen - 1) : steps[i] \in ReviewKinds
    BY <1>3, SessionScreens
  <2>2. Advance(signtx_screen, 1) = pos /\ pos \in Positions /\ pos >= 1
    BY <2>1, ConstantsAssumption DEF Advance, Positions
  <2>3. one \in Seq(StepKinds) /\ Len(one) = 1 /\ one[1] = "blind"
    BY DEF StepKinds
  <2> HIDE DEF one
  <2>4. /\ st \in Layout
        /\ \A i \in Positions : i < signtx_screen => st[i] = steps[i]
        /\ \A i \in Positions : i >= signtx_screen + Len(one) => st[i] = steps[i]
        /\ \A i \in Positions :
              i >= signtx_screen /\ i < signtx_screen + Len(one) /\ i < MAX_NUMBER_OF_SCREENS
              => st[i] = one[i - signtx_screen + 1]
    BY ONLY <1>1, <2>1, <2>3, WriteFacts
  <2>5. ASSUME NEW i \in Positions
        PROVE  st[i] = steps[i] \/ (i = signtx_screen /\ st[i] = "blind")
    <3>1. i \in Nat
      BY ConstantsAssumption DEF Positions
    <3>2. CASE i < signtx_screen
      BY <2>4, <3>2
    <3>3. CASE i >= signtx_screen + Len(one)
      BY <2>4, <3>3
    <3>4. CASE i = signtx_screen
      <4>1. /\ i >= signtx_screen /\ i < signtx_screen + Len(one) /\ i < MAX_NUMBER_OF_SCREENS
            /\ i - signtx_screen + 1 = 1
        BY <2>1, <2>3, <3>4, ConstantsAssumption
      <4> QED BY <2>3, <2>4, <3>4, <4>1
    <3> QED BY <2>1, <2>3, <3>1, <3>2, <3>3, <3>4
  <2>6. \A i \in 0..4 : st[i] = steps[i] \/ st[i] \notin PromptButtons
    <3>1. \A i \in 0..4 : i \in Positions
      BY ConstantsAssumption DEF Positions
    <3> QED BY <2>5, <3>1 DEF PromptButtons
  <2>7. st[0] = "path" /\ \A i \in 0..(pos - 1) : st[i] \in ReviewKinds
    <3>1. \A i \in 0..(pos - 1) : i \in Positions /\ (i \in 0..(signtx_screen - 1) \/ i = signtx_screen)
      BY <2>1, ConstantsAssumption DEF Positions
    <3>2. 0 \in Positions /\ 0 # signtx_screen
      BY <2>1, ConstantsAssumption DEF Positions
    <3>3. ASSUME NEW i \in 0..(pos - 1) PROVE st[i] \in ReviewKinds
      <4>1. CASE st[i] = "blind"
        BY <4>1 DEF ReviewKinds
      <4>2. CASE i # signtx_screen
        <5>1. st[i] = steps[i] /\ i \in 0..(signtx_screen - 1)
          BY <2>5, <3>1, <4>2
        <5> QED BY <2>1, <5>1
      <4>3. CASE i = signtx_screen
        <5>1. st[i] = "blind"
          <6>1. /\ i >= signtx_screen /\ i < signtx_screen + Len(one) /\ i < MAX_NUMBER_OF_SCREENS
                /\ i - signtx_screen + 1 = 1 /\ i \in Positions
            BY <2>1, <2>3, <3>1, <4>3, ConstantsAssumption
          <6> QED BY <2>3, <2>4, <6>1
        <5> QED BY <4>1, <5>1
      <4> QED BY <4>2, <4>3
    <3> QED BY <2>1, <2>5, <3>2, <3>3
  <2>8. AddOutputScreens(cb, st, pos)
    BY <1>3, <2>2 DEF one
  <2> HIDE DEF st, pos, cb
  <2> QED BY <1>1, <2>2, <2>4, <2>6, <2>7, <2>8, AddOutputScreensStep
<1>4. CASE /\ Ui = "BAGL"
           /\ ShowOrDrop(cb, "BLIND", Write(steps, signtx_screen, BlindWarning),
                         Advance(signtx_screen, Len(BlindWarning)))
  <2>1. signtx_screen \in Nat /\ signtx_screen + 6 =< MAX_NUMBER_OF_SCREENS
    BY <1>4, SessionScreens
  <2>2. Advance(signtx_screen, Len(BlindWarning)) = signtx_screen + Len(BlindWarning)
    BY <2>1, BlindWarningFacts, ConstantsAssumption DEF Advance
  <2>3. ShowOrDrop(cb, "BLIND", Write(steps, signtx_screen, BlindWarning),
                   signtx_screen + Len(BlindWarning))
    BY <1>4, <2>2
  <2>4. {"warn", "blind_settings", "blind_reject"} \cap (MenuButtons \cup PromptButtons)
            = Deciders("BLIND") /\ "warn" \notin PromptButtons
    BY DEF MenuButtons, PromptButtons, Deciders
  <2> DEFINE new == BlindWarning
  <2> HIDE DEF new, cb
  <2>5. /\ new \in Seq(StepKinds \ {"end"}) /\ Len(new) \in 4..5
        /\ {new[i] : i \in 1..Len(new)} \cap (MenuButtons \cup PromptButtons) = Deciders("BLIND")
        /\ \A i \in 1..2 : new[i] \notin PromptButtons
    BY <2>4, BlindWarningFacts DEF new
  <2>6. ShowOrDrop(cb, "BLIND", Write(steps, signtx_screen, new), signtx_screen + Len(new))
    BY <2>3 DEF new
  <2> QED BY <1>1, <1>4, <2>5, <2>6, ShowOrDropStep
<1>5. \/ AddOutputScreens(c, steps, signtx_screen)
      \/ AddOutputScreens(cb, steps, signtx_screen)
      \/ /\ Ui = "BAGL"
         /\ AddOutputScreens(cb, Write(steps, signtx_screen, <<"blind">>),
                             Advance(signtx_screen, 1))
      \/ /\ Ui = "BAGL"
         /\ ShowOrDrop(cb, "BLIND", Write(steps, signtx_screen, BlindWarning),
                       Advance(signtx_screen, Len(BlindWarning)))
  BY DEF show_output_confirm_screen
<1> HIDE DEF cb
<1> QED BY <1>1, <1>2, <1>3, <1>4, <1>5

\* SignTransaction, a part of an output: keeps the invariant.
LEMMA SignOutputPartStep ==
    ASSUME IInv, SafeUi, NEW id, NEW shape, NEW last \in BOOLEAN,
           sign_output_part(id, shape, last)
    PROVE  IInv'
<1> DEFINE c == IF last THEN [ctx EXCEPT !.op = "TX_FINISHED"] ELSE ctx
<1>1. SignReceive /\ ~ui_busy /\ c \in Contexts /\ "ok" \in Answers
  BY DEF sign_output_part, SignReceive, IInv, DataOK, Contexts, OpStates, Answers
<1>2. CASE handler_err
  BY <1>1, <1>2, HandlerErrStep
<1>3. CASE Proceed(c, "ok")
  BY <1>1, <1>3, ProceedStep
<1>4. CASE /\ SignAdmitted(id, {"OUTPUTS_STARTED"})
           /\ show_output_confirm_screen(c, shape = "blind")
  <2>1. current_command = "SIGN_TX"
    BY <1>4 DEF SignAdmitted, Admitted
  <2>2. (shape = "blind") \in BOOLEAN
    OBVIOUS
  <2> HIDE DEF c
  <2> QED BY <1>1, <1>4, <2>1, <2>2, ShowOutputStep
<1>5. handler_err \/ Proceed(c, "ok") \/ (/\ SignAdmitted(id, {"OUTPUTS_STARTED"})
                                          /\ show_output_confirm_screen(c, shape = "blind"))
  BY DEF sign_output_part
<1> QED BY <1>2, <1>3, <1>4, <1>5

\* SignTransaction, confirm: keeps the invariant.
LEMMA SignConfirmStep ==
    ASSUME IInv, SafeUi, NEW id, sign_confirm(id)
    PROVE  IInv'
<1> DEFINE c == [ctx EXCEPT !.op = "FINALIZED"]
<1>1. SignReceive /\ ~ui_busy /\ c \in Contexts /\ c.op = "FINALIZED"
  BY DEF sign_confirm, SignReceive, IInv, DataOK, Contexts, OpStates
<1>2. CASE handler_err
  BY <1>1, <1>2, HandlerErrStep
<1>3. CASE /\ SignAdmitted(id, {"TX_FINISHED"}) /\ Ui = "NBGL"
           /\ AskSigner(c, NbglReview)
           /\ UNCHANGED <<steps, flow_len, signtx_screen>>
  <2>1. current_command = "SIGN_TX" /\ NbglReview \in {"CONFIRM", "BLIND"}
    BY <1>3 DEF SignAdmitted, Admitted, NbglReview
  <2>2. steps' \in Layout /\ flow_len' \in Positions /\ signtx_screen' \in Positions
    BY <1>3 DEF IInv, UiOK
  <2> HIDE DEF c
  <2> QED BY <1>1, <1>3, <2>1, <2>2, AskSignerStep
<1>4. CASE /\ SignAdmitted(id, {"TX_FINISHED"}) /\ Ui = "BAGL"
           /\ ShowOrDrop(c, "CONFIRM", Write(steps, signtx_screen, ConfirmSteps),
                         signtx_screen + Len(ConfirmSteps))
  <2>1. current_command = "SIGN_TX"
    BY <1>4 DEF SignAdmitted, Admitted
  <2>2. {"dynamic", "sign", "sign_reject"} \cap (MenuButtons \cup PromptButtons)
            = Deciders("CONFIRM") /\ "dynamic" \notin PromptButtons
    BY DEF MenuButtons, PromptButtons, Deciders
  <2> DEFINE new == ConfirmSteps
  <2> HIDE DEF new, c
  <2>3. /\ new \in Seq(StepKinds \ {"end"}) /\ Len(new) \in 4..5
        /\ {new[i] : i \in 1..Len(new)} \cap (MenuButtons \cup PromptButtons) = Deciders("CONFIRM")
        /\ {"dynamic", "sign"} \subseteq {new[i] : i \in 1..Len(new)}
        /\ \A i \in 1..2 : new[i] \notin PromptButtons
    <3>1. /\ new \in Seq(StepKinds \ {"end"}) /\ Len(new) = 5
          /\ {new[i] : i \in 1..Len(new)} = {"dynamic", "sign", "sign_reject"}
          /\ \A i \in 1..2 : new[i] = "dynamic"
      BY ConfirmStepsFacts DEF new
    <3>2. Len(new) \in 4..5
      BY <3>1
    <3> QED BY <2>2, <3>1, <3>2
  <2>4. ShowOrDrop(c, "CONFIRM", Write(steps, signtx_screen, new), signtx_screen + Len(new))
    BY <1>4 DEF new
  <2> QED BY <1>1, <1>4, <2>1, <2>3, <2>4, ShowOrDropStep
<1> QED BY <1>2, <1>3, <1>4 DEF sign_confirm

----------------------------------------------------------------------------
(* The user's steps.                                                       *)

\* BAGL: a button that can be pressed tells which prompt is open.
LEMMA PressedPrompt ==
    ASSUME IInv, NEW kind \in PromptButtons, Press(kind)
    PROVE  /\ Ui = "BAGL" /\ screen \in Prompts /\ kind \in Deciders(screen)
           /\ screen \in Commands => approve_cb = screen
<1>1. Ui = "BAGL" /\ kind \in Visible
  BY DEF Press, Visible
<1> QED BY <1>1 DEF IInv, FlowInv, FlowAnswersPrompt

\* BAGL: while a prompt is open no menu button can be pressed.
LEMMA PressedMenu ==
    ASSUME IInv, NEW kind \in MenuButtons, Press(kind)
    PROVE  Ui = "BAGL" /\ screen \in Menus
<1>1. Ui = "BAGL" /\ kind \in Visible
  BY DEF Press, Visible
<1>2. \A which : kind \notin Deciders(which)
  BY DEF Deciders, MenuButtons
<1>3. screen \notin Prompts
  BY <1>1, <1>2 DEF IInv, FlowInv, FlowAnswersPrompt
<1> QED BY <1>1, <1>3 DEF IInv, FlowInv, ReviewLaidOut

\* While a prompt is open exactly one command waits for its answer.
LEMMA Waiting ==
    ASSUME IInv, screen \in Prompts
    PROVE  owed = 1 /\ owed - 1 = 0 /\ ui_busy
BY DEF IInv, AskInv, OneAnswerPerCommand, BusyWhileAsking

\* What an answer by the user leaves, whichever screen it opens next.
LEMMA DecisionFacts ==
    ASSUME IInv, screen \in Prompts, NEW what \in Answers, LateReply(what),
           current_command' \in Commands, ctx' \in Contexts, ui_busy' \in BOOLEAN,
           asked' = NoRequest, denied' \in BOOLEAN,
           UNCHANGED <<blind_signing_enabled, started>>,
           \/ UNCHANGED <<connected_app_id, approved>>
           \/ connected_app_id' = ctx.token /\ approved' = approved \cup {ctx.token}
    PROVE  DataOK' /\ owed' = 0 /\ GrantRecorded'
<1>1. owed' = 0
  BY Waiting DEF LateReply
<1>2. ctx.token \in Tokens
  BY DEF IInv, DataOK, Contexts
<1>3. out' \in [what : Answers, token : Tokens]
  BY <1>2, AnswerOK DEF LateReply
<1>4. asked' \in [cmd : Commands, token : Tokens, session : SessionIds \cup {0}]
  BY NoTokenOK DEF NoRequest, Commands
<1>5. approved' \in SUBSET Tokens /\ connected_app_id' \in Tokens
  BY <1>2 DEF IInv, DataOK
<1>6. GrantRecorded'
  BY DEF IInv, GrantRecorded
<1> QED BY <1>1, <1>3, <1>4, <1>5, <1>6 DEF IInv, DataOK

\* The answer to a key or attestation prompt leaves a well-formed state.
LEMMA GrantFacts ==
    ASSUME IInv, screen \in Prompts, NEW cmd \in Askers, NEW yes \in BOOLEAN,
           IF yes THEN Grant(cmd) ELSE Refuse, DecisionFrame, ui_busy' \in BOOLEAN,
           current_command = cmd
    PROVE  DataOK' /\ owed' = 0 /\ GrantRecorded' /\ current_command' # "SIGN_TX"
<1>1. \E what \in Answers : LateReply(what)
  <2>1. {"pubkey", "address", "ok", "session", "deny"} \subseteq Answers
    BY DEF Answers
  <2> QED BY <2>1 DEF Grant, Refuse
<1>2. current_command' \in Commands /\ current_command' # "SIGN_TX"
  BY DEF Grant, Refuse, Commands, Askers
<1>3. ctx' \in Contexts
  <2>1. [ctx EXCEPT !.state = "APPROVED"] \in Contexts
    BY DEF IInv, DataOK, Contexts
  <2> QED BY <2>1, ZeroCtxOK DEF Grant, Refuse
<1>4. \/ UNCHANGED <<connected_app_id, approved>>
      \/ connected_app_id' = ctx.token /\ approved' = approved \cup {ctx.token}
  BY DEF Grant, Refuse
<1>5. PICK what \in Answers : LateReply(what)
  BY <1>1
<1> QED BY <1>2, <1>3, <1>4, <1>5, DecisionFacts DEF DecisionFrame

\* NBGL: the handler shows a status page after its answer and waits on it.
LEMMA StatusStep ==
    ASSUME IInv, DataOK', Ui = "NBGL", screen' \in {"status", "stale"},
           ui_busy' = (screen' = "status"), UNCHANGED flowVars, owed' = 0, GrantRecorded'
    PROVE  IInv'
<1>1. screen' \notin Prompts /\ screen' \in Screens
  BY DEF Prompts, Screens
<1>2. AskInv'
  <2>1. OneAnswerPerCommand'
    BY <1>1 DEF OneAnswerPerCommand
  <2>2. BusyWhileAsking'
    BY <1>1 DEF BusyWhileAsking
  <2>3. PromptKeepsRequest'
    BY <1>1 DEF PromptKeepsRequest
  <2> QED BY <2>1, <2>2, <2>3 DEF AskInv
<1>3. UiOK'
  BY <1>1 DEF IInv, UiOK, flowVars
<1>4. FlowInv'
  BY DEF FlowInv, FlowAnswersPrompt, ReviewShowsTransaction, ReviewLaidOut
<1> QED BY <1>2, <1>3, <1>4 DEF IInv

\* BAGL: an approve or reject button reaches the callback of the command that
\* opened the prompt.
LEMMA BaglDecisionStep ==
    ASSUME IInv, NEW cmd \in Askers, NEW yes \in BOOLEAN, bagl_decision(cmd, yes)
    PROVE  IInv'
<1>1. /\ Ui = "BAGL" /\ screen \in Prompts
      /\ screen \in Commands => approve_cb = screen
      /\ screen \notin {"CONFIRM", "BLIND"}
  <2>1. "approve" \in PromptButtons /\ "reject" \in PromptButtons
    BY DEF PromptButtons
  <2>2. PICK kind \in {"approve", "reject"} : Press(kind)
    BY DEF bagl_decision
  <2>3. /\ Ui = "BAGL" /\ screen \in Prompts /\ kind \in Deciders(screen)
        /\ screen \in Commands => approve_cb = screen
    BY <2>1, <2>2, PressedPrompt
  <2>4. screen \notin {"CONFIRM", "BLIND"}
    BY <2>2, <2>3 DEF Deciders
  <2> QED BY <2>3, <2>4
<1>2. screen = cmd /\ current_command = cmd
  <2>1. screen \in Commands
    BY <1>1 DEF Prompts, Commands
  <2>2. screen = cmd
    BY <1>1, <2>1 DEF bagl_decision
  <2> QED BY <1>1, <2>1, <2>2 DEF IInv, AskInv, PromptKeepsRequest
<1>3. "main" \in Menus /\ ui_busy' = FALSE /\ ShowMenu("main")
  BY DEF bagl_decision, Menus
<1>4. DataOK' /\ owed' = 0 /\ GrantRecorded' /\ current_command' # "SIGN_TX"
  BY <1>1, <1>2, <1>3, GrantFacts DEF bagl_decision
<1> QED BY <1>3, <1>4, MenuStepKeeps

\* NBGL: the choice on a key or attestation page.
LEMMA NbglDecisionStep ==
    ASSUME IInv, NEW cmd \in Askers, NEW yes \in BOOLEAN, nbgl_decision(cmd, yes)
    PROVE  IInv'
<1>1. Ui = "NBGL" /\ screen = cmd /\ screen \in Prompts /\ screen \in Commands
  BY DEF nbgl_decision, Choose, Askers, Prompts, Commands
<1>2. current_command = cmd
  BY <1>1 DEF IInv, AskInv, PromptKeepsRequest
<1>3. ui_busy' \in BOOLEAN
  BY DEF nbgl_decision, ShowStatus
<1>4. DataOK' /\ owed' = 0 /\ GrantRecorded' /\ current_command' # "SIGN_TX"
  BY <1>1, <1>2, <1>3, GrantFacts DEF nbgl_decision
<1>5. CASE ShowStatus
  BY <1>1, <1>4, <1>5, StatusStep DEF ShowStatus
<1>6. CASE screen' = "stale" /\ ui_busy' = FALSE /\ UNCHANGED flowVars
  BY <1>1, <1>4, <1>6, StatusStep
<1>7. CASE ui_busy' = FALSE /\ ShowMenu("main")
  BY <1>1, <1>4, <1>7, MenuStepKeeps DEF Menus
<1> QED BY <1>5, <1>6, <1>7 DEF nbgl_decision

\* ui_stx_operation_execute_action ends the signing session.
LEMMA SignDecisionFacts ==
    ASSUME IInv, screen \in Prompts, NEW yes, NEW ok, SignDecision(yes, ok), ui_busy' \in BOOLEAN
    PROVE  DataOK' /\ owed' = 0 /\ GrantRecorded' /\ current_command' = "NONE"
<1>1. {"deny", "signature", "error"} \subseteq Answers /\ "NONE" \in Commands
  BY DEF Answers, Commands
<1>2. PICK what \in Answers : LateReply(what)
  BY <1>1 DEF SignDecision
<1>3. current_command' = "NONE" /\ ctx' = ZeroCtx
  BY DEF SignDecision
<1> QED BY <1>1, <1>2, <1>3, ZeroCtxOK, DecisionFacts DEF SignDecision, DecisionFrame

\* BAGL: the sign and reject buttons.
LEMMA BaglSignDecisionStep ==
    ASSUME IInv, NEW yes \in BOOLEAN, NEW ok, bagl_sign_decision(yes, ok)
    PROVE  IInv'
<1>1. screen \in Prompts
  <2>1. "sign" \in PromptButtons /\ "sign_reject" \in PromptButtons
    BY DEF PromptButtons
  <2>2. PICK kind \in {"sign", "sign_reject"} : Press(kind)
    BY DEF bagl_sign_decision
  <2> QED BY <2>1, <2>2, PressedPrompt
<1>2. "main" \in Menus /\ ui_busy' = FALSE /\ ShowMenu("main") /\ SignDecision(yes, ok)
  BY DEF bagl_sign_decision, Menus
<1> QED BY <1>1, <1>2, SignDecisionFacts, MenuStepKeeps

\* NBGL: the choice on the transaction review.
LEMMA NbglSignDecisionStep ==
    ASSUME IInv, NEW yes \in BOOLEAN, NEW ok, nbgl_sign_decision(yes, ok)
    PROVE  IInv'
<1>1. Ui = "NBGL" /\ screen \in Prompts
  BY DEF nbgl_sign_decision, Choose, Prompts
<1>2. screen' = "status" /\ ui_busy' = TRUE /\ UNCHANGED flowVars /\ SignDecision(yes, ok)
  BY DEF nbgl_sign_decision, ShowStatus
<1> QED BY <1>1, <1>2, SignDecisionFacts, StatusStep

\* BAGL: the buttons of the blind signing warning; the session stays, denied.
LEMMA BaglBlindDecisionStep ==
    ASSUME IInv, NEW settings \in BOOLEAN, bagl_blind_decision(settings)
    PROVE  IInv'
<1>1. screen \in Prompts
  <2>1. "blind_settings" \in PromptButtons /\ "blind_reject" \in PromptButtons
    BY DEF PromptButtons
  <2>2. PICK kind \in {"blind_settings", "blind_reject"} : Press(kind)
    BY DEF bagl_blind_decision
  <2> QED BY <2>1, <2>2, PressedPrompt
<1>2. PICK menu \in Menus : ShowMenu(menu)
  BY DEF bagl_blind_decision, Menus
<1>3. /\ "deny" \in Answers /\ LateReply("deny") /\ ui_busy' = FALSE
      /\ asked' = NoRequest /\ denied' = TRUE
      /\ UNCHANGED <<current_command, ctx, histVars>> /\ OtherUnchanged
  BY DEF bagl_blind_decision, Answers
<1>4. current_command' \in Commands /\ ctx' \in Contexts
  BY <1>3 DEF IInv, DataOK
<1>5. DataOK' /\ owed' = 0 /\ GrantRecorded'
  BY <1>1, <1>3, <1>4, DecisionFacts DEF OtherUnchanged, histVars
<1> QED BY <1>2, <1>3, <1>5, MenuStepKeeps

\* NBGL: the choice on the blind signing warning.
LEMMA NbglBlindDecisionStep ==
    ASSUME IInv, NEW settings \in BOOLEAN, nbgl_blind_decision(settings)
    PROVE  IInv'
<1>1. Ui = "NBGL" /\ screen \in Prompts
  BY DEF nbgl_blind_decision, Choose, Prompts
<1>2. PICK menu \in Menus : ShowMenu(menu)
  BY DEF nbgl_blind_decision, Menus
<1>3. /\ "deny" \in Answers /\ "NONE" \in Commands /\ LateReply("deny") /\ ui_busy' = FALSE
      /\ current_command' = "NONE" /\ ctx' = ZeroCtx
      /\ UNCHANGED <<connected_app_id, approved>> /\ DecisionFrame
  BY DEF nbgl_blind_decision, Refuse, Answers, Commands
<1>4. DataOK' /\ owed' = 0 /\ GrantRecorded'
  BY <1>1, <1>3, ZeroCtxOK, DecisionFacts DEF DecisionFrame
<1> QED BY <1>1, <1>2, <1>3, <1>4, MenuStepKeeps

\* Opening a menu, from a menu or from a status page.
LEMMA OpenFromMenu ==
    ASSUME IInv, screen \notin Prompts, NEW menu \in Menus, ShowMenu(menu), ui_busy' = FALSE,
           Ui = "BAGL" => current_command # "SIGN_TX" \/ denied,
           blind_signing_enabled' \in BOOLEAN,
           UNCHANGED <<current_command, ctx, connected_app_id, owed, out, asked, denied, histVars>>
    PROVE  IInv'
<1>1. DataOK'
  BY DEF IInv, DataOK, histVars
<1>2. owed' = 0
  BY DEF IInv, AskInv, OneAnswerPerCommand
<1>3. GrantRecorded'
  BY DEF IInv, GrantRecorded, histVars
<1> QED BY <1>1, <1>2, <1>3, MenuStepKeeps

\* NBGL: a status page closes.
LEMMA StatusClosedStep ==
    ASSUME IInv, nbgl_status_closed
    PROVE  IInv'
<1>1. Ui = "NBGL" /\ screen \notin Prompts /\ "main" \in Menus /\ ShowMenu("main")
  BY DEF nbgl_status_closed, Choose, Prompts, Menus
<1>2. blind_signing_enabled' \in BOOLEAN
  BY DEF nbgl_status_closed, OtherUnchanged, IInv, DataOK
<1> QED BY <1>1, <1>2, OpenFromMenu DEF nbgl_status_closed, OtherUnchanged

\* BAGL: a menu button is pressed.
LEMMA OpenMenuStep ==
    ASSUME IInv, SafeUi, NEW kind \in MenuButtons, Press(kind), NEW menu \in Menus,
           OpenMenu(menu), blind_signing_enabled' \in BOOLEAN
    PROVE  IInv'
<1>1. Ui = "BAGL" /\ screen \in Menus
  BY PressedMenu
<1>2. screen \notin Prompts
  BY <1>1 DEF Menus, Prompts
<1>3. current_command # "SIGN_TX" \/ denied
  BY <1>1 DEF SafeUi, OpenMenu, MenuStep, Discipline, SessionOpen
<1> QED BY <1>1, <1>2, <1>3, OpenFromMenu DEF OpenMenu

\* The blind signing setting is toggled.
LEMMA ToggleStep ==
    ASSUME IInv, SafeUi, toggle_blind_signing
    PROVE  IInv'
<1>1. blind_signing_enabled' \in BOOLEAN
  BY DEF toggle_blind_signing
<1>2. CASE Ui = "BAGL" /\ Press("toggle") /\ OpenMenu("settings")
  BY <1>1, <1>2, OpenMenuStep DEF MenuButtons, Menus
<1>3. CASE Ui = "NBGL" /\ screen \in Menus /\ UiUnchanged
           /\ UNCHANGED <<devVars, connected_app_id, owed, out, asked, denied, histVars>>
  <2>1. DataOK'
    BY <1>1, <1>3 DEF IInv, DataOK, devVars, histVars
  <2>2. ~ui_busy
    BY <1>3 DEF IInv, AskInv, BusyWhileAsking, Menus, Prompts
  <2>3. ui_busy' = FALSE
    BY <1>3, <2>2 DEF IInv, DataOK, devVars
  <2>4. GrantRecorded'
    BY <1>3 DEF IInv, GrantRecorded, histVars
  <2> QED BY <1>3, <2>1, <2>2, <2>3, <2>4, QuietStep DEF devVars
<1>4. Ui # "BAGL" => ~Press("toggle")
  BY DEF Press
<1> QED BY <1>2, <1>3, <1>4, ConstantsAssumption DEF toggle_blind_signing

----------------------------------------------------------------------------
(* Power on, and the theorems.                                             *)

\* The main menu laid out on a cleared array.
LEMMA FirstMenu ==
    LET st == Close(Write([i \in Positions |-> "null"], 0, MenuSteps("main")), 4)
    IN  /\ st \in Layout
        /\ {st[i] : i \in 0..(5 - 1)} \cap PromptButtons = {}
<1> DEFINE blank == [i \in Positions |-> "null"]
           new == MenuSteps("main")
           mid == Write(blank, 0, new)
<1>1. blank \in Layout
  BY DEF Layout, StepKinds
<1>2. /\ new \in Seq(StepKinds) /\ Len(new) = 4
      /\ \A i \in 1..Len(new) : new[i] \in {"text", "settings", "about", "exit"}
  <2>0. {"text", "settings", "about", "exit"} \subseteq StepKinds
    BY DEF StepKinds
  <2>1. new = <<"text", "settings", "about", "exit">>
    BY DEF MenuSteps
  <2> HIDE DEF new
  <2>2. new \in Seq(StepKinds)
    BY <2>0, <2>1
  <2>3. Len(new) = 4
    BY <2>1
  <2> QED BY <2>1, <2>2, <2>3
<1> HIDE DEF blank, new
<1>3. /\ mid \in Layout
      /\ \A i \in Positions : i >= 0 /\ i < 0 + Len(new) /\ i < MAX_NUMBER_OF_SCREENS
                              => mid[i] = new[i - 0 + 1]
  BY <1>1, <1>2, WriteFacts
<1>4. ASSUME NEW i \in 0..3 PROVE mid[i] \in {"text", "settings", "about", "exit"}
  <2>1. /\ i \in Positions /\ i >= 0 /\ i < 0 + Len(new) /\ i < MAX_NUMBER_OF_SCREENS
        /\ i - 0 + 1 \in 1..Len(new)
    BY <1>2, ConstantsAssumption DEF Positions
  <2> QED BY <1>2, <1>3, <2>1
<1> HIDE DEF mid
<1>5. /\ Close(mid, 4) \in Layout
      /\ \A i \in 0..3 : Close(mid, 4)[i] = mid[i]
      /\ Close(mid, 4)[4] = "loop"
  <2>1. Fits(4) /\ \A i \in 0..(4 - 1) : mid[i] # "end"
    BY <1>4, ConstantsAssumption DEF Fits
  <2> QED BY <1>3, <2>1, CloseFacts
<1>6. \A i \in 0..(5 - 1) : i \in 0..3 \/ i = 4
  OBVIOUS
<1>7. \A i \in 0..(5 - 1) : Close(mid, 4)[i] \notin PromptButtons
  BY <1>4, <1>5, <1>6 DEF PromptButtons
<1> QED BY <1>5, <1>7 DEF mid, blank, new

\* The invariant holds at power-on.
LEMMA InitOK == Init => IInv
<1> SUFFICES ASSUME Init PROVE IInv
  OBVIOUS
<1>0. screen = "main" /\ screen \in Menus /\ screen \notin Prompts /\ screen \in Screens
  BY DEF Init, Menus, Prompts, Screens
<1>1. DataOK
  <2>1. out \in [what : Answers, token : Tokens]
    BY AnswerOK, NoTokenOK DEF Init, Answers
  <2>2. asked \in [cmd : Commands, token : Tokens, session : SessionIds \cup {0}]
    BY NoTokenOK DEF Init, NoRequest, Commands
  <2> QED BY <2>1, <2>2, ZeroCtxOK DEF Init, DataOK, Commands, Tokens, NoToken
<1>2. UiOK
  <2>1. steps \in Layout
    <3>1. [i \in Positions |-> "null"] \in Layout
      BY DEF Layout, StepKinds
    <3> QED BY <3>1, FirstMenu DEF Init
  <2> QED BY <1>0, <2>1, ConstantsAssumption DEF Init, UiOK, Positions, Commands
<1>3. AskInv
  BY <1>0 DEF Init, AskInv, OneAnswerPerCommand, BusyWhileAsking, PromptKeepsRequest, Menus
<1>4. FlowInv
  <2>1. Ui = "BAGL" => Visible \cap PromptButtons = {} /\ flow_len =< 5
    BY FirstMenu DEF Init, Visible
  <2> QED BY <1>0, <2>1 DEF Init, FlowInv, FlowAnswersPrompt, ReviewShowsTransaction, ReviewLaidOut
<1>5. GrantRecorded
  BY DEF Init, GrantRecorded, NoToken
<1> QED BY <1>1, <1>2, <1>3, <1>4, <1>5 DEF IInv

\* Power loss and restart at any point re-establish the invariant.
LEMMA PowerOnStep ==
    ASSUME IInv, PowerOn
    PROVE  IInv'
<1>0. screen' = "main" /\ screen' \in Menus /\ screen' \notin Prompts /\ screen' \in Screens
  BY DEF PowerOn, Menus, Prompts, Screens
<1>1. DataOK'
  <2>1. out' \in [what : Answers, token : Tokens]
    BY AnswerOK, NoTokenOK DEF PowerOn, Answers
  <2>2. asked' \in [cmd : Commands, token : Tokens, session : SessionIds \cup {0}]
    BY NoTokenOK DEF PowerOn, NoRequest, Commands
  <2> QED
    BY <2>1, <2>2, ZeroCtxOK
    DEF IInv, PowerOn, app_set_current_command, DataOK, Commands, Tokens, NoToken
<1>2. UiOK'
  <2>1. steps' \in Layout /\ flow_len' \in Positions
    BY FirstMenu, ConstantsAssumption DEF PowerOn, IInv, UiOK, Positions
  <2> QED BY <1>0, <2>1, ConstantsAssumption DEF PowerOn, UiOK, Positions, Commands
<1>3. AskInv'
  <2>1. OneAnswerPerCommand'
    BY <1>0 DEF OneAnswerPerCommand, PowerOn
  <2>2. BusyWhileAsking'
    BY <1>0 DEF BusyWhileAsking, PowerOn, app_set_current_command
  <2>3. PromptKeepsRequest'
    BY <1>0 DEF PromptKeepsRequest
  <2> QED BY <2>1, <2>2, <2>3 DEF AskInv
<1>4. FlowInv'
  <2>1. Ui = "BAGL" => Visible' \cap PromptButtons = {} /\ flow_len' =< 5
    BY FirstMenu DEF PowerOn, Visible
  <2>2. current_command' = "NONE"
    BY DEF PowerOn, app_set_current_command
  <2> QED BY <1>0, <2>1, <2>2 DEF FlowInv, FlowAnswersPrompt, ReviewShowsTransaction, ReviewLaidOut
<1>5. GrantRecorded'
  BY DEF PowerOn, GrantRecorded, NoToken
<1> QED BY <1>1, <1>2, <1>3, <1>4, <1>5 DEF IInv

\* Every step of the host, the user and the power switch keeps the invariant.
LEMMA NextOK == IInv /\ SafeUi /\ [Next]_vars => IInv'
<1> SUFFICES ASSUME IInv, SafeUi, [Next]_vars PROVE IInv'
  OBVIOUS
<1>1. CASE UNCHANGED vars
  <2>1. out' \in [what : Answers, token : Tokens]
    BY <1>1 DEF vars, IInv, DataOK
  <2> QED BY <1>1, <2>1, OnlyAnswers DEF vars
<1>2. CASE apdu_rejected \/ get_app_info \/ res_ui_busy
  BY <1>2, StatelessStep DEF apdu_rejected, get_app_info, res_ui_busy
<1>3. CASE wrong_subcommand
  BY <1>3, HandlerErrStep DEF wrong_subcommand
<1>4. CASE KeyCommand
  BY <1>4, ExtPubKeyStep, DeriveAddressStep DEF KeyCommand
<1>5. CASE AttestCommand
  BY <1>5, AttestInitStep, AttestChunkStep, AttestFrameStep DEF AttestCommand
<1>6. CASE SignCommand
  <2>1. PICK id \in SessionIds :
          \/ \E token \in Tokens, check \in {"ok", "bad", "wrong_p2", "long_path"} :
                sign_init(token, check, id)
          \/ \E ok \in BOOLEAN :
                \/ sign_start_tx(id, ok) \/ sign_add_tokens(id, ok) \/ sign_add_input(id, ok)
                \/ sign_more_input(id, ok) \/ sign_add_output(id, ok)
          \/ \E shape \in {"error", "partial", "auto", "clear", "blind"}, last \in BOOLEAN :
                sign_output_part(id, shape, last)
          \/ sign_confirm(id)
    BY <1>6 DEF SignCommand
  <2>2. {"TX_STARTED", "INPUTS_STARTED", "OUTPUTS_STARTED"} \subseteq OpStates
    BY DEF OpStates
  <2>3. ASSUME NEW ok \in BOOLEAN,
               \/ sign_start_tx(id, ok) \/ sign_add_tokens(id, ok) \/ sign_add_input(id, ok)
               \/ sign_more_input(id, ok) \/ sign_add_output(id, ok)
        PROVE  IInv'
    BY <2>2, <2>3, SignUploadStep
    DEF sign_start_tx, sign_add_tokens, sign_add_input, sign_more_input, sign_add_output
  <2> QED BY <2>1, <2>3, SignInitStep, SignOutputPartStep, SignConfirmStep
<1>7. CASE UserAnswers
  <2>1. CASE \E cmd \in {"EXT_PUB_KEY", "DERIVE_ADDRESS", "ATTEST_INPUT"}, yes \in BOOLEAN :
                bagl_decision(cmd, yes) \/ nbgl_decision(cmd, yes)
    BY <2>1, BaglDecisionStep, NbglDecisionStep DEF Askers
  <2>2. CASE \E yes, ok \in BOOLEAN : bagl_sign_decision(yes, ok) \/ nbgl_sign_decision(yes, ok)
    BY <2>2, BaglSignDecisionStep, NbglSignDecisionStep
  <2>3. CASE \E settings \in BOOLEAN :
                bagl_blind_decision(settings) \/ nbgl_blind_decision(settings)
    BY <2>3, BaglBlindDecisionStep, NbglBlindDecisionStep
  <2>4. CASE nbgl_status_closed
    BY <2>4, StatusClosedStep
  <2> QED BY <1>7, <2>1, <2>2, <2>3, <2>4 DEF UserAnswers
<1>8. CASE UserBrowses
  <2>1. ASSUME NEW kind \in MenuButtons, NEW menu \in Menus, open_menu(kind, menu)
        PROVE  IInv'
    <3>1. blind_signing_enabled' \in BOOLEAN
      BY <2>1 DEF open_menu, IInv, DataOK
    <3> QED BY <2>1, <3>1, OpenMenuStep DEF open_menu
  <2>2. CASE \/ open_menu("settings", "settings") \/ open_menu("about", "about")
             \/ open_menu("back", "main")
    BY <2>1, <2>2 DEF MenuButtons, Menus
  <2>3. CASE toggle_blind_signing
    BY <2>3, ToggleStep
  <2>4. CASE quit
    BY <2>4, PowerOnStep DEF quit
  <2> QED BY <1>8, <2>2, <2>3, <2>4 DEF UserBrowses
<1>9. CASE PowerOn
  BY <1>9, PowerOnStep
<1> QED BY <1>1, <1>2, <1>3, <1>4, <1>5, <1>6, <1>7, <1>8, <1>9 DEF Next, HostStep

\* The inductive invariant holds throughout, on NBGL for every host and user,
\* on BAGL for disciplined ones.
THEOREM Invariance == SafeUi /\ Spec => []IInv
<1> SUFFICES ASSUME SafeUi PROVE Spec => []IInv
  OBVIOUS
<1>1. Init => IInv
  BY InitOK
<1>2. IInv /\ [Next]_vars => IInv'
  BY NextOK
<1> QED BY <1>1, <1>2, PTL DEF Spec

\* Every variable of the device keeps its type, in particular answers are never
\* sent without a command (owed stays a natural number).
THEOREM TypeCorrect == SafeUi /\ Spec => []TypeOK
<1>1. IInv => TypeOK
  BY DEF IInv, DataOK, UiOK, Layout, TypeOK
<1> QED BY <1>1, Invariance, PTL

\* Each command is answered exactly once, by its handler or by the callback of
\* the one prompt it opened.
THEOREM AnsweredOnce == SafeUi /\ Spec => []OneAnswerPerCommand
<1>1. IInv => OneAnswerPerCommand
  BY DEF IInv, AskInv
<1> QED BY <1>1, Invariance, PTL

\* The busy flag is up exactly while the user is asked.
THEOREM BusyIsAsking == SafeUi /\ Spec => []BusyWhileAsking
<1>1. IInv => BusyWhileAsking
  BY DEF IInv, AskInv
<1> QED BY <1>1, Invariance, PTL

\* The callback of a prompt acts on the request the user was shown.
THEOREM RequestKept == SafeUi /\ Spec => []PromptKeepsRequest
<1>1. IInv => PromptKeepsRequest
  BY DEF IInv, AskInv
<1> QED BY <1>1, Invariance, PTL

\* Prompts and menus share one array of steps without ever mixing buttons.
THEOREM ButtonsMatchPrompt == SafeUi /\ Spec => []FlowAnswersPrompt
<1>1. IInv => FlowAnswersPrompt
  BY DEF IInv, FlowInv
<1> QED BY <1>1, Invariance, PTL

\* The flow a transaction is signed in shows its path and its pages.
THEOREM ReviewComplete == SafeUi /\ Spec => []ReviewShowsTransaction
<1>1. IInv => ReviewShowsTransaction
  BY DEF IInv, FlowInv
<1> QED BY <1>1, Invariance, PTL

\* A step that gives key material without a button being pressed.
SilentRelease ==
    out'.what \in {"pubkey", "address"} /\ owed' = owed /\ out' # out

\* The fields of an answer.
LEMMA AnswerFields ==
    ASSUME NEW what, NEW token
    PROVE  Answer(what, token).what = what /\ Answer(what, token).token = token
BY DEF Answer

\* is_known_application accepts only a token that was granted to.
LEMMA KnownWasGranted ==
    ASSUME IInv, NEW token, Known(token)
    PROVE  token \in (approved \cup started) \ {NoToken}
BY DEF IInv, GrantRecorded, Known, is_known_application, NoToken

\* A callback's answer follows a button press.
LEMMA LateIsNotSilent ==
    ASSUME IInv, NEW what, LateReply(what)
    PROVE  ~SilentRelease
<1>1. owed' # owed
  BY DEF IInv, DataOK, LateReply
<1> QED BY <1>1 DEF SilentRelease

\* No other answer carries key material.
LEMMA OtherAnswersNotSilent ==
    ASSUME NEW what \in Answers \ {"pubkey", "address"}, NEW token, out' = Answer(what, token)
    PROVE  ~SilentRelease
BY AnswerFields DEF SilentRelease

\* Of the host's commands only a key command of a known application releases
\* key material at once.
LEMMA HostReleases ==
    ASSUME IInv, HostStep, SilentRelease
    PROVE  out'.token \in (approved \cup started) \ {NoToken}
<1> DEFINE Quiet == Answers \ {"pubkey", "address"}
<1>0. {"none", "ok", "session", "frames", "frame", "busy", "error"} \subseteq Quiet
  BY DEF Answers
<1> HIDE DEF Quiet
<1>1. ASSUME NEW what \in Quiet, NEW token, out' = Answer(what, token) PROVE FALSE
  BY <1>1, OtherAnswersNotSilent DEF Quiet
<1>2. ~Stateless("error") /\ ~Stateless("ok") /\ ~Stateless("busy")
  BY <1>0, <1>1 DEF Stateless, Reply
<1>3. /\ ~DropCommand /\ ~handler_err /\ \A begun : ~DropBegun(begun)
      /\ \A cmd, c : ~ErrorKeepsCommand(cmd, c) /\ ~PathTooLong(cmd, c)
  BY <1>0, <1>1 DEF DropCommand, handler_err, ErrorKeepsCommand, DropBegun, PathTooLong, Reply
<1>4. \A cmd, c, head : ~AskUser(cmd, c, head)
  BY <1>0, <1>1 DEF AskUser, Defer
<1>5. \A c : \A what \in Quiet : ~Proceed(c, what)
  BY <1>1 DEF Proceed, Reply
<1>6. \A c, which : ~AskSigner(c, which)
  BY <1>0, <1>1 DEF AskSigner, Defer
<1>7. \A c, st, pos : ~AddOutputScreens(c, st, pos)
  BY <1>0, <1>1, <1>3 DEF AddOutputScreens, Reply
<1>8. \A c, which, st, pos : ~ShowOrDrop(c, which, st, pos)
  BY <1>3, <1>6 DEF ShowOrDrop
<1>9. CASE KeyCommand
  <2>1. PICK token \in Tokens, what \in {"pubkey", "address"} :
           Known(token) /\ SendNow(what, token)
    BY <1>3, <1>4, <1>9
    DEF KeyCommand, handler_get_extended_public_key, handler_derive_address
  <2>2. out'.token = token
    BY <2>1, AnswerFields DEF SendNow, Reply
  <2> QED BY <2>1, <2>2, KnownWasGranted
<1>10. ~AttestCommand
  <2>1. \A id, token, check : ~attest_init(token, check, id)
    BY <1>0, <1>1, <1>3, <1>4 DEF attest_init, Reply
  <2>2. \A id, result : ~attest_chunk(id, result)
    BY <1>0, <1>3, <1>5 DEF attest_chunk
  <2>3. \A id, valid_index : ~attest_get_frame(id, valid_index)
    BY <1>0, <1>3, <1>5 DEF attest_get_frame
  <2> QED BY <2>1, <2>2, <2>3 DEF AttestCommand
<1>11. ~SignCommand
  <2>1. \A token, check, id : ~sign_init(token, check, id)
    BY <1>0, <1>1, <1>2, <1>3 DEF sign_init, Reply
  <2>2. \A id, from, to, ok : ~sign_upload(id, from, to, ok)
    BY <1>0, <1>3, <1>5 DEF sign_upload
  <2>3. \A c, blind : ~show_output_confirm_screen(c, blind)
    BY <1>7, <1>8 DEF show_output_confirm_screen
  <2>4. \A id, shape, last : ~sign_output_part(id, shape, last)
    BY <1>0, <1>3, <1>5, <2>3 DEF sign_output_part
  <2>5. \A id : ~sign_confirm(id)
    BY <1>3, <1>6, <1>8 DEF sign_confirm
  <2> QED
    BY <2>1, <2>2, <2>4, <2>5
    DEF SignCommand, sign_start_tx, sign_add_tokens, sign_add_input, sign_more_input,
        sign_add_output
<1> QED
  BY <1>2, <1>3, <1>9, <1>10, <1>11
  DEF HostStep, apdu_rejected, get_app_info, res_ui_busy, wrong_subcommand

\* The user's steps and power loss release nothing silently.
LEMMA OthersDoNotRelease ==
    ASSUME IInv, UserAnswers \/ UserBrowses \/ PowerOn \/ UNCHANGED vars
    PROVE  ~SilentRelease
<1>1. CASE UserAnswers
  <2>1. \A cmd, yes : ~(bagl_decision(cmd, yes) \/ nbgl_decision(cmd, yes)) \/ ~SilentRelease
    BY LateIsNotSilent DEF bagl_decision, nbgl_decision, Grant, Refuse
  <2>2. \A yes, ok : ~(bagl_sign_decision(yes, ok) \/ nbgl_sign_decision(yes, ok)) \/ ~SilentRelease
    BY LateIsNotSilent DEF bagl_sign_decision, nbgl_sign_decision, SignDecision
  <2>3. \A settings : ~(bagl_blind_decision(settings) \/ nbgl_blind_decision(settings))
                      \/ ~SilentRelease
    BY LateIsNotSilent DEF bagl_blind_decision, nbgl_blind_decision, Refuse
  <2>4. ~nbgl_status_closed \/ ~SilentRelease
    BY DEF nbgl_status_closed, SilentRelease
  <2> QED BY <1>1, <2>1, <2>2, <2>3, <2>4 DEF UserAnswers
<1>2. ~PowerOn \/ ~SilentRelease
  BY OtherAnswersNotSilent DEF PowerOn, Answers
<1>3. CASE UserBrowses
  <2>1. \A menu : ~OpenMenu(menu) \/ ~SilentRelease
    BY DEF OpenMenu, SilentRelease
  <2>2. ~toggle_blind_signing \/ ~SilentRelease
    BY <2>1 DEF toggle_blind_signing, SilentRelease
  <2> QED BY <1>2, <1>3, <2>1, <2>2 DEF UserBrowses, open_menu, quit
<1>4. CASE UNCHANGED vars
  BY <1>4 DEF vars, SilentRelease
<1> QED BY <1>1, <1>2, <1>3, <1>4

\* Key material leaves without a button press only for a token that was granted
\* to since power-on, whatever the interleaving of host, user and power loss.
THEOREM ReleaseWasGranted == SafeUi /\ Spec => SilentReleaseWasGranted
<1>1. IInv /\ [Next]_vars =>
        [out'.what \in {"pubkey", "address"} /\ owed' = owed /\ out' # out
           => out'.token \in (approved \cup started) \ {NoToken}]_vars
  <2> SUFFICES ASSUME IInv, [Next]_vars, SilentRelease
               PROVE  out'.token \in (approved \cup started) \ {NoToken}
    BY DEF SilentRelease
  <2> QED BY HostReleases, OthersDoNotRelease DEF Next
<1> QED BY <1>1, Invariance, PTL DEF SilentReleaseWasGranted, Spec

----------------------------------------------------------------------------
(* Denials and blind signing.                                              *)

\* The handlers answer with neither a denial nor a signature: those are left
\* to the screen callbacks.
LEMMA HostAnswers ==
    ASSUME HostStep
    PROVE  out'.what \notin {"deny", "signature"}
<1> DEFINE Quiet == Answers \ {"deny", "signature"}
           Q == out'.what \in Quiet
<1>0. {"none", "ok", "session", "frames", "frame", "busy", "error", "pubkey", "address"}
        \subseteq Quiet
  BY DEF Answers
<1> HIDE DEF Quiet
<1>1. ASSUME NEW what \in Quiet, NEW token, out' = Answer(what, token) PROVE Q
  BY <1>1, AnswerFields
<1> HIDE DEF Q
<1>2. Stateless("error") \/ Stateless("ok") \/ Stateless("busy") => Q
  BY <1>0, <1>1 DEF Stateless, Reply
<1>3. /\ DropCommand => Q
      /\ handler_err => Q
      /\ \A begun : DropBegun(begun) => Q
      /\ \A cmd, c : ErrorKeepsCommand(cmd, c) \/ PathTooLong(cmd, c) => Q
  BY <1>0, <1>1 DEF DropCommand, handler_err, ErrorKeepsCommand, DropBegun, PathTooLong, Reply
<1>4. \A cmd, c, head : AskUser(cmd, c, head) => Q
  BY <1>0, <1>1 DEF AskUser, Defer
<1>5. \A c : \A what \in Quiet : Proceed(c, what) => Q
  BY <1>1 DEF Proceed, Reply
<1>6. \A c, which : AskSigner(c, which) => Q
  BY <1>0, <1>1 DEF AskSigner, Defer
<1>7. \A c, st, pos : AddOutputScreens(c, st, pos) => Q
  BY <1>0, <1>1, <1>3 DEF AddOutputScreens, Reply
<1>8. \A c, which, st, pos : ShowOrDrop(c, which, st, pos) => Q
  BY <1>3, <1>6 DEF ShowOrDrop
<1>9. \A token : SendNow("pubkey", token) \/ SendNow("address", token) => Q
  BY <1>0, <1>1 DEF SendNow, Reply
<1>10. KeyCommand => Q
  BY <1>3, <1>4, <1>9
  DEF KeyCommand, handler_get_extended_public_key, handler_derive_address
<1>11. AttestCommand => Q
  <2>1. \A id, token, check : attest_init(token, check, id) => Q
    BY <1>0, <1>1, <1>3, <1>4 DEF attest_init, Reply
  <2>2. \A id, result : attest_chunk(id, result) => Q
    BY <1>0, <1>3, <1>5 DEF attest_chunk
  <2>3. \A id, valid_index : attest_get_frame(id, valid_index) => Q
    BY <1>0, <1>3, <1>5 DEF attest_get_frame
  <2> QED BY <2>1, <2>2, <2>3 DEF AttestCommand
<1>12. SignCommand => Q
  <2>1. \A token, check, id : sign_init(token, check, id) => Q
    BY <1>0, <1>1, <1>2, <1>3 DEF sign_init, Reply
  <2>2. \A id, from, to, ok : sign_upload(id, from, to, ok) => Q
    BY <1>0, <1>3, <1>5 DEF sign_upload
  <2>3. \A c, blind : show_output_confirm_screen(c, blind) => Q
    BY <1>7, <1>8 DEF show_output_confirm_screen
  <2>4. \A id, shape, last : sign_output_part(id, shape, last) => Q
    BY <1>0, <1>3, <1>5, <2>3 DEF sign_output_part
  <2>5. \A id : sign_confirm(id) => Q
    BY <1>3, <1>6, <1>8 DEF sign_confirm
  <2> QED
    BY <2>1, <2>2, <2>4, <2>5
    DEF SignCommand, sign_start_tx, sign_add_tokens, sign_add_input, sign_more_input,
        sign_add_output
<1>13. Q
  BY <1>2, <1>3, <1>10, <1>11, <1>12
  DEF HostStep, apdu_rejected, get_app_info, res_ui_busy, wrong_subcommand
<1> QED BY <1>13 DEF Q, Quiet

\* The menu and the power switch answer nothing.
LEMMA BrowsingAnswers ==
    ASSUME UserBrowses \/ PowerOn \/ nbgl_status_closed \/ UNCHANGED vars
    PROVE  out' = out \/ out'.what = "none"
<1>1. \A menu : OpenMenu(menu) => out' = out
  BY DEF OpenMenu
<1>2. PowerOn => out'.what = "none"
  BY AnswerFields DEF PowerOn
<1>3. UserBrowses => out' = out \/ out'.what = "none"
  BY <1>1, <1>2 DEF UserBrowses, open_menu, quit, toggle_blind_signing
<1> QED BY <1>2, <1>3 DEF nbgl_status_closed, vars

\* On NBGL a DENY ends the command it answers: none of the three places that
\* send one leaves a context a sub-command could go on with.  (On BAGL the
\* blind signing prompt does: run BlindAfterDeny.)
THEOREM DenyIsFinal == Ui = "NBGL" /\ Spec => DenyEndsCommand
<1>1. ASSUME Ui = "NBGL", Next, out'.what = "deny", out' # out
      PROVE  current_command' = "NONE"
  <2>1. CASE HostStep
    BY <1>1, <2>1, HostAnswers
  <2>2. CASE UserBrowses \/ PowerOn
    BY <1>1, <2>2, BrowsingAnswers
  <2>3. CASE UserAnswers
    <3>1. ASSUME NEW cmd, NEW yes \in BOOLEAN,
                 bagl_decision(cmd, yes) \/ nbgl_decision(cmd, yes)
          PROVE  current_command' = "NONE"
      <4>1. nbgl_decision(cmd, yes)
        BY <1>1, <3>1 DEF bagl_decision, Press
      <4>2. CASE yes
        <5>1. Grant(cmd)
          BY <4>1, <4>2 DEF nbgl_decision
        <5> QED BY <1>1, <5>1, AnswerFields DEF Grant, LateReply
      <4>3. CASE ~yes
        BY <4>1, <4>3 DEF nbgl_decision, Refuse
      <4> QED BY <4>2, <4>3
    <3>2. \A yes, ok : bagl_sign_decision(yes, ok) \/ nbgl_sign_decision(yes, ok)
             => current_command' = "NONE"
      BY DEF bagl_sign_decision, nbgl_sign_decision, SignDecision
    <3>3. \A settings : bagl_blind_decision(settings) \/ nbgl_blind_decision(settings)
             => current_command' = "NONE"
      BY <1>1 DEF bagl_blind_decision, nbgl_blind_decision, Press, Refuse
    <3>4. ~nbgl_status_closed
      BY <1>1, BrowsingAnswers
    <3> QED BY <2>3, <3>1, <3>2, <3>3, <3>4 DEF UserAnswers
  <2> QED BY <1>1, <2>1, <2>2, <2>3 DEF Next
<1>2. Ui = "NBGL" /\ [Next]_vars =>
        [out'.what = "deny" /\ out' # out => current_command' = "NONE"]_vars
  BY <1>1
<1>3. SUFFICES ASSUME Ui = "NBGL" PROVE Spec => DenyEndsCommand
  OBVIOUS
<1> QED BY <1>2, <1>3, PTL DEF Spec, DenyEndsCommand

\* What makes BlindNeedsSetting inductive: the transaction under review is one
\* the setting allows, and on BAGL, where an output is refused when it is
\* uploaded, so is the one being collected.
BlindInv ==
    /\ screen = "CONFIRM" /\ ctx.blind => blind_signing_enabled
    /\ Ui = "BAGL" /\ SessionOpen /\ screen # "BLIND" /\ ctx.blind => blind_signing_enabled

\* A step after which no output is blind, or no session goes on.
LEMMA NotBlind ==
    ASSUME \/ ctx'.blind = FALSE
           \/ screen' # "CONFIRM" /\ (Ui = "BAGL" => ~SessionOpen')
           \/ screen' = "BLIND"
    PROVE  BlindInv'
  BY DEF BlindInv

\* A step that only moves an open session on.
LEMMA BlindKept ==
    ASSUME BlindInv, ctx'.blind = ctx.blind, screen' = screen,
           UNCHANGED <<current_command, denied, blind_signing_enabled>>
    PROVE  BlindInv'
  BY DEF BlindInv, SessionOpen

LEMMA FreshNotBlind ==
    ASSUME ctx' = ZeroCtx
    PROVE  BlindInv'
  BY NotBlind DEF ZeroCtx

LEMMA DroppedNotBlind ==
    /\ DropCommand => BlindInv'
    /\ handler_err => BlindInv'
    /\ \A what, token : SendNow(what, token) => BlindInv'
    /\ \A begun : DropBegun(begun) => BlindInv'
    /\ \A cmd, c : c.blind = FALSE /\ (ErrorKeepsCommand(cmd, c) \/ PathTooLong(cmd, c))
                     => BlindInv'
  BY FreshNotBlind, NotBlind
  DEF DropCommand, handler_err, SendNow, ErrorKeepsCommand, DropBegun, PathTooLong,
      app_set_current_command

LEMMA ProceedKeepsBlind ==
    ASSUME BlindInv, NEW c, NEW what, Proceed(c, what), c.blind = ctx.blind
    PROVE  BlindInv'
  BY BlindKept DEF Proceed, UiUnchanged, OtherUnchanged

LEMMA StatelessKeepsBlind ==
    ASSUME BlindInv, NEW what, Stateless(what)
    PROVE  BlindInv'
  BY BlindKept DEF Stateless, devVars, UiUnchanged, OtherUnchanged

LEMMA AskUserNotBlind ==
    ASSUME NEW cmd, NEW c, NEW head, AskUser(cmd, c, head), c.blind = FALSE
    PROVE  BlindInv'
  BY NotBlind DEF AskUser

LEMMA KeyCommandBlind ==
    ASSUME KeyCommand
    PROVE  BlindInv'
<1>1. \A token, send : ZeroCtx.blind = FALSE
                       /\ [ZeroCtx EXCEPT !.token = token].blind = FALSE
                       /\ [ZeroCtx EXCEPT !.token = token, !.send = send].blind = FALSE
  BY DEF ZeroCtx
<1>2. \A token, check : handler_get_extended_public_key(token, check) => BlindInv'
  BY <1>1, DroppedNotBlind, AskUserNotBlind DEF handler_get_extended_public_key
<1>3. \A display, token, check : handler_derive_address(display, token, check) => BlindInv'
  BY <1>1, DroppedNotBlind, AskUserNotBlind DEF handler_derive_address
<1> QED BY <1>2, <1>3 DEF KeyCommand

LEMMA AttestCommandBlind ==
    ASSUME IInv, BlindInv, AttestCommand
    PROVE  BlindInv'
<1>1. \A id, token : /\ [ZeroCtx EXCEPT !.session = id, !.token = token].blind = FALSE
                     /\ [ZeroCtx EXCEPT !.session = id, !.state = "APPROVED"].blind = FALSE
  BY DEF ZeroCtx
<1>2. \A id, token, check : attest_init(token, check, id) => BlindInv'
  BY <1>1, DroppedNotBlind, AskUserNotBlind, NotBlind DEF attest_init
<1>3. [ctx EXCEPT !.state = "FINISHED"].blind = ctx.blind
  BY DEF IInv, DataOK, Contexts
<1>4. \A id, result : attest_chunk(id, result) => BlindInv'
  BY <1>3, DroppedNotBlind, ProceedKeepsBlind DEF attest_chunk
<1>5. \A id, valid_index : attest_get_frame(id, valid_index) => BlindInv'
  BY DroppedNotBlind, ProceedKeepsBlind DEF attest_get_frame
<1> QED BY <1>2, <1>4, <1>5 DEF AttestCommand

\* While no prompt is open, none is on display.
LEMMA FreeScreen ==
    ASSUME IInv, ~ui_busy
    PROVE  screen # "CONFIRM" /\ screen # "BLIND"
  BY DEF IInv, AskInv, BusyWhileAsking, DataOK, Prompts

LEMMA AddOutputBlind ==
    ASSUME IInv, BlindInv, ~ui_busy, NEW c, NEW st, NEW pos, AddOutputScreens(c, st, pos),
           c.blind = ctx.blind \/ Ui = "NBGL" \/ blind_signing_enabled
    PROVE  BlindInv'
<1>1. CASE DropCommand
  BY <1>1, DroppedNotBlind
<1>2. CASE /\ ctx' = c /\ LayOut(st, pos) /\ OtherUnchanged
           /\ UNCHANGED <<current_command, ui_busy, asked, denied, histVars>>
  <2>1. screen' = screen /\ screen # "CONFIRM"
    BY <1>2, FreeScreen DEF LayOut
  <2>2. UNCHANGED <<current_command, denied, blind_signing_enabled>>
    BY <1>2 DEF OtherUnchanged
  <2>3. CASE c.blind = ctx.blind
    BY <1>2, <2>1, <2>2, <2>3, BlindKept
  <2>4. CASE Ui = "NBGL"
    BY <2>1, <2>4, NotBlind
  <2>5. CASE blind_signing_enabled
    BY <2>2, <2>5 DEF BlindInv
  <2> QED BY <2>3, <2>4, <2>5
<1> QED BY <1>1, <1>2 DEF AddOutputScreens

LEMMA OutputPartBlind ==
    ASSUME IInv, BlindInv, NEW id, NEW shape, NEW last \in BOOLEAN,
           sign_output_part(id, shape, last)
    PROVE  BlindInv'
<1> DEFINE c == IF last THEN [ctx EXCEPT !.op = "TX_FINISHED"] ELSE ctx
           b == [c EXCEPT !.blind = TRUE]
<1>1. c.blind = ctx.blind
  BY DEF IInv, DataOK, Contexts
<1>2. ~ui_busy
  BY DEF sign_output_part, SignReceive
<1>3. \/ handler_err \/ Proceed(c, "ok") \/ show_output_confirm_screen(c, TRUE)
      \/ show_output_confirm_screen(c, FALSE)
  BY DEF sign_output_part
<1> HIDE DEF c
<1>4. \A st, pos : ShowOrDrop(b, "BLIND", st, pos) => BlindInv'
  BY NotBlind, DroppedNotBlind DEF ShowOrDrop, AskSigner
<1>5. \A blind \in BOOLEAN : show_output_confirm_screen(c, blind) => BlindInv'
  BY <1>1, <1>2, <1>4, AddOutputBlind DEF show_output_confirm_screen
<1> QED BY <1>1, <1>3, <1>5, DroppedNotBlind, ProceedKeepsBlind

LEMMA ConfirmBlind ==
    ASSUME IInv, SafeUi, BlindInv, NEW id, sign_confirm(id)
    PROVE  BlindInv'
<1> DEFINE c == [ctx EXCEPT !.op = "FINALIZED"]
<1>1. c.blind = ctx.blind
  BY DEF IInv, DataOK, Contexts
<1> HIDE DEF c
<1>2. ~ui_busy
  BY DEF sign_confirm, SignReceive
<1>3. CASE handler_err
  BY <1>3, DroppedNotBlind
<1>4. CASE Ui = "NBGL" /\ AskSigner(c, NbglReview)
  <2>1. ctx' = c /\ screen' = NbglReview /\ blind_signing_enabled' = blind_signing_enabled
    BY <1>4 DEF AskSigner, OtherUnchanged
  <2>2. CASE ctx.blind /\ ~blind_signing_enabled
    BY <2>1, <2>2, NotBlind DEF NbglReview
  <2>3. CASE ~(ctx.blind /\ ~blind_signing_enabled)
    BY <1>1, <1>4, <2>1, <2>3 DEF BlindInv
  <2> QED BY <2>2, <2>3
<1>5. ASSUME NEW st, NEW pos, Ui = "BAGL", SignAdmitted(id, {"TX_FINISHED"}),
             ShowOrDrop(c, "CONFIRM", st, pos)
      PROVE  BlindInv'
  <2>1. CASE DropCommand
    BY <2>1, DroppedNotBlind
  <2>2. CASE AskSigner(c, "CONFIRM")
    <3>1. SessionOpen
      BY <1>5 DEF SafeUi, SessionOpen, SignAdmitted, Admitted, sign_confirm, SignReceive, Discipline
    <3>2. ctx.blind => blind_signing_enabled
      BY <1>2, <1>5, <3>1, FreeScreen DEF BlindInv
    <3>3. ctx' = c /\ blind_signing_enabled' = blind_signing_enabled
      BY <2>2 DEF AskSigner, OtherUnchanged
    <3> QED BY <1>1, <3>2, <3>3 DEF BlindInv
  <2> QED BY <1>5, <2>1, <2>2 DEF ShowOrDrop
<1> QED BY <1>3, <1>4, <1>5 DEF sign_confirm, c

LEMMA SignCommandBlind ==
    ASSUME IInv, SafeUi, BlindInv, SignCommand
    PROVE  BlindInv'
<1>1. \A token, check, id : sign_init(token, check, id) => BlindInv'
  <2>1. \A id, token : [ZeroCtx EXCEPT !.session = id, !.state = "APPROVED",
                                       !.token = token].blind = FALSE
    BY DEF ZeroCtx
  <2> QED BY <2>1, NotBlind, DroppedNotBlind, StatelessKeepsBlind DEF sign_init
<1>2. \A id, from, to, ok : sign_upload(id, from, to, ok) => BlindInv'
  <2>1. \A to : [ctx EXCEPT !.op = to].blind = ctx.blind
    BY DEF IInv, DataOK, Contexts
  <2> QED BY <2>1, DroppedNotBlind, ProceedKeepsBlind DEF sign_upload
<1> QED
  BY <1>1, <1>2, OutputPartBlind, ConfirmBlind
  DEF SignCommand, sign_start_tx, sign_add_tokens, sign_add_input, sign_more_input,
      sign_add_output

LEMMA AnswersBlind ==
    ASSUME IInv, BlindInv, UserAnswers
    PROVE  BlindInv'
<1>1. ASSUME NEW cmd \in Askers, NEW yes \in BOOLEAN,
             bagl_decision(cmd, yes) \/ nbgl_decision(cmd, yes)
      PROVE  BlindInv'
  <2>1. screen' \in {"main", "status", "stale"}
    BY <1>1 DEF bagl_decision, nbgl_decision, ShowMenu, ShowStatus
  <2>2. IF yes THEN Grant(cmd) ELSE Refuse
    BY <1>1 DEF bagl_decision, nbgl_decision
  <2>3. CASE ctx' = ZeroCtx
    BY <2>3, FreshNotBlind
  <2>4. CASE cmd = "ATTEST_INPUT" /\ current_command' = current_command
    <3>1. CASE bagl_decision(cmd, yes)
      <4>1. screen \in Prompts /\ {"approve", "reject"} \cap Deciders(screen) # {}
        <5>1. {"approve", "reject"} \subseteq PromptButtons
          BY DEF PromptButtons
        <5> QED BY <3>1, <5>1, PressedPrompt DEF bagl_decision
      <4>2. screen \in Commands
        BY <4>1 DEF Prompts, Commands, Deciders
      <4>3. approve_cb = screen
        <5>1. {"approve", "reject"} \subseteq PromptButtons
          BY DEF PromptButtons
        <5> QED BY <3>1, <4>2, <5>1, PressedPrompt DEF bagl_decision
      <4>4. current_command = "ATTEST_INPUT"
        BY <2>4, <3>1, <4>1, <4>2, <4>3 DEF bagl_decision, IInv, AskInv, PromptKeepsRequest
      <4> QED BY <2>1, <2>4, <4>4, NotBlind DEF SessionOpen
    <3>2. CASE nbgl_decision(cmd, yes)
      BY <2>1, <3>2, NotBlind DEF nbgl_decision, Choose
    <3> QED BY <1>1, <3>1, <3>2
  <2> QED BY <2>2, <2>3, <2>4 DEF Grant, Refuse
<1>2. \A yes, ok : bagl_sign_decision(yes, ok) \/ nbgl_sign_decision(yes, ok) => BlindInv'
  BY FreshNotBlind DEF bagl_sign_decision, nbgl_sign_decision, SignDecision
<1>3. \A settings : nbgl_blind_decision(settings) => BlindInv'
  BY FreshNotBlind DEF nbgl_blind_decision, Refuse
<1>4. \A settings : bagl_blind_decision(settings) => BlindInv'
  <2>1. \A settings : bagl_blind_decision(settings) => screen' \in {"main", "settings"} /\ denied' = TRUE
    BY DEF bagl_blind_decision, ShowMenu
  <2> QED BY <2>1, NotBlind DEF SessionOpen
<1>5. nbgl_status_closed => BlindInv'
  BY NotBlind DEF nbgl_status_closed, Choose, ShowMenu
<1> QED BY <1>1, <1>2, <1>3, <1>4, <1>5 DEF UserAnswers, Askers

LEMMA BrowsingBlind ==
    ASSUME IInv, SafeUi, BlindInv, UserBrowses \/ PowerOn
    PROVE  BlindInv'
<1>1. PowerOn => BlindInv'
  BY FreshNotBlind DEF PowerOn, app_set_current_command
<1>2. ASSUME NEW menu \in Menus, OpenMenu(menu), Ui = "BAGL"
      PROVE  BlindInv'
  <2>1. screen' # "CONFIRM"
    BY <1>2 DEF OpenMenu, ShowMenu, Menus
  <2>2. ~SessionOpen
    BY <1>2 DEF OpenMenu, MenuStep, Discipline, SafeUi
  <2>3. SessionOpen' <=> SessionOpen
    BY <1>2 DEF OpenMenu, SessionOpen
  <2> QED BY <2>1, <2>2, <2>3, NotBlind
<1>3. \A kind : \A menu \in Menus : open_menu(kind, menu) => BlindInv'
  BY <1>2 DEF open_menu, Press
<1>4. toggle_blind_signing => BlindInv'
  <2>1. CASE Ui = "BAGL" /\ OpenMenu("settings")
    BY <1>2, <2>1 DEF Menus
  <2>2. CASE toggle_blind_signing /\ Ui = "NBGL" /\ UiUnchanged
    <3>1. screen' = screen /\ screen \in Menus
      BY <2>2 DEF toggle_blind_signing, Press, UiUnchanged
    <3>2. screen' # "CONFIRM"
      BY <3>1 DEF Menus
    <3> QED BY <2>2, <3>2, NotBlind
  <2> QED BY <2>1, <2>2 DEF toggle_blind_signing
<1> QED BY <1>1, <1>3, <1>4 DEF UserBrowses, quit, Menus

LEMMA BlindStep == IInv /\ SafeUi /\ BlindInv /\ [Next]_vars => BlindInv'
<1> SUFFICES ASSUME IInv, SafeUi, BlindInv, [Next]_vars PROVE BlindInv'
  OBVIOUS
<1>1. CASE UNCHANGED vars
  BY <1>1, BlindKept DEF vars, devVars
<1>2. CASE HostStep
  BY <1>2, StatelessKeepsBlind, DroppedNotBlind, KeyCommandBlind, AttestCommandBlind, SignCommandBlind
  DEF HostStep, apdu_rejected, get_app_info, res_ui_busy, wrong_subcommand
<1> QED BY <1>1, <1>2, AnswersBlind, BrowsingBlind DEF Next

\* A signature over a transaction with an output that could not be shown in
\* clear is given only while the setting allows it: whenever the setting was
\* turned on or off, whichever outputs were uploaded before, and on NBGL for
\* every host and user.
THEOREM BlindIsAllowed == SafeUi /\ Spec => BlindNeedsSetting
<1> SUFFICES ASSUME SafeUi PROVE Spec => BlindNeedsSetting
  OBVIOUS
<1>1. Init => BlindInv
  BY DEF Init, ZeroCtx, BlindInv
<1>2. ASSUME IInv, BlindInv, Next, out'.what = "signature", out' # out, ctx.blind
      PROVE  blind_signing_enabled
  <2>1. UserAnswers
    BY <1>2, HostAnswers, BrowsingAnswers DEF Next
  <2>2. \A cmd, yes : ~(bagl_decision(cmd, yes) \/ nbgl_decision(cmd, yes))
    BY <1>2, AnswerFields DEF bagl_decision, nbgl_decision, Grant, Refuse, LateReply
  <2>3. \A settings : ~(bagl_blind_decision(settings) \/ nbgl_blind_decision(settings))
    BY <1>2, AnswerFields DEF bagl_blind_decision, nbgl_blind_decision, Refuse, LateReply
  <2>4. PICK yes \in BOOLEAN, ok \in BOOLEAN : bagl_sign_decision(yes, ok) \/ nbgl_sign_decision(yes, ok)
    BY <1>2, <2>1, <2>2, <2>3, BrowsingAnswers DEF UserAnswers
  <2>5. CASE bagl_sign_decision(yes, ok)
    <3>1. PICK kind \in {"sign", "sign_reject"} : Press(kind)
      BY <2>5 DEF bagl_sign_decision
    <3>2. screen \in Prompts /\ kind \in Deciders(screen)
      BY <1>2, <3>1, PressedPrompt DEF PromptButtons
    <3>3. screen = "CONFIRM"
      BY <3>1, <3>2 DEF Deciders
    <3> QED BY <1>2, <3>3 DEF BlindInv
  <2>6. CASE nbgl_sign_decision(yes, ok)
    BY <1>2, <2>6 DEF nbgl_sign_decision, Choose, BlindInv
  <2> QED BY <2>4, <2>5, <2>6
<1>3. IInv /\ BlindInv /\ [Next]_vars =>
        [out'.what = "signature" /\ out' # out /\ ctx.blind => blind_signing_enabled]_vars
  BY <1>2
<1>4. IInv /\ BlindInv /\ [Next]_vars => BlindInv'
  BY BlindStep
<1> QED BY <1>1, <1>3, <1>4, Invariance, PTL DEF Spec, BlindNeedsSetting

----------------------------------------------------------------------------
(* Signing goes by sessions.                                               *)

\* What the refinement needs: the review belongs to a signing session, and a
\* final transaction is one whose review, or whose refusal, is on display.
SessionInv ==
    /\ screen = "CONFIRM" => Signing
    /\ Signing /\ ctx.op = "FINALIZED" =>
         screen = "CONFIRM" \/ (Ui = "NBGL" /\ screen = "BLIND")

\* A step that does to the session what SigningSession allows.
InSession == SessionInv' /\ [Session!Next]_(Session!vars)

\* A step that leaves no signing session, whether there was one or not.
LEMMA SessionGone ==
    ASSUME current_command' # "SIGN_TX", screen' # "CONFIRM", out'.what # "signature"
    PROVE  InSession
<1>1. ~Signing'
  BY DEF Signing
<1>2. Session!End
  BY <1>1 DEF Session!End, Session!Nothing
<1> QED BY <1>1, <1>2 DEF InSession, SessionInv, Session!Next

\* A step that leaves the context alone and answers something else or nothing.
LEMMA SessionKept ==
    ASSUME SessionInv, UNCHANGED <<current_command, ctx>>,
           screen' = screen \/ (screen' # "CONFIRM" /\ ~(Signing /\ ctx.op = "FINALIZED")),
           out' = out \/ out'.what # "signature"
    PROVE  InSession
<1>1. UNCHANGED Signing
  BY DEF Signing
<1>2. SessionInv'
  BY <1>1 DEF SessionInv
<1>3. CASE out' = out
  BY <1>1, <1>2, <1>3 DEF InSession, Session!vars
<1>4. CASE out'.what # "signature"
  <2>1. Session!Other
    BY <1>1, <1>4 DEF Session!Other, Session!Nothing
  <2> QED BY <1>2, <2>1 DEF InSession, Session!Next
<1> QED BY <1>3, <1>4

\* A step that moves the session to the next stage, or leaves it where it is.
LEMMA SessionMoved ==
    ASSUME Signing, current_command' = current_command,
           ctx'.session = ctx.session, ctx'.token = ctx.token,
           ctx'.op = ctx.op \/ <<ctx.op, ctx'.op>> \in Session!Following,
           ctx'.op = "FINALIZED" => screen' = "CONFIRM" \/ (Ui = "NBGL" /\ screen' = "BLIND"),
           out'.what # "signature"
    PROVE  InSession
<1>1. Signing' /\ SessionInv'
  BY DEF Signing, SessionInv
<1>2. CASE ctx'.op = ctx.op
  <2>1. Session!Other
    BY <1>1, <1>2 DEF Session!Other, Session!Nothing
  <2> QED BY <1>1, <2>1 DEF InSession, Session!Next
<1>3. CASE <<ctx.op, ctx'.op>> \in Session!Following
  <2>1. Session!Advance
    BY <1>1, <1>3 DEF Session!Advance, Session!Nothing
  <2> QED BY <1>1, <2>1 DEF InSession, Session!Next
<1> QED BY <1>2, <1>3

\* While no prompt is open, no transaction is final.
LEMMA NoneFinal ==
    ASSUME IInv, SessionInv, ~ui_busy
    PROVE  screen # "CONFIRM" /\ ~(Signing /\ ctx.op = "FINALIZED")
  BY FreeScreen DEF SessionInv

LEMMA StatelessInSession ==
    ASSUME SessionInv, NEW what, Stateless(what), out'.what # "signature"
    PROVE  InSession
  BY SessionKept DEF Stateless, devVars, UiUnchanged

LEMMA DroppedInSession ==
    ASSUME screen # "CONFIRM", out'.what # "signature"
    PROVE  /\ DropCommand /\ screen' = screen => InSession
           /\ handler_err => InSession
           /\ \A what, token : SendNow(what, token) => InSession
           /\ \A begun : DropBegun(begun) => InSession
           /\ \A cmd \in Askers : \A c :
                 ErrorKeepsCommand(cmd, c) \/ PathTooLong(cmd, c) => InSession
<1>1. \A cmd \in Askers \cup {"NONE"} :
        current_command' = cmd /\ screen' = screen => InSession
  BY SessionGone DEF Askers
<1> QED
  BY <1>1 DEF DropCommand, handler_err, SendNow, ErrorKeepsCommand, DropBegun, PathTooLong,
              UiUnchanged, app_set_current_command

LEMMA AskUserInSession ==
    ASSUME NEW cmd \in Askers, NEW c, NEW head, AskUser(cmd, c, head), out'.what # "signature"
    PROVE  InSession
  BY SessionGone DEF AskUser, ShowPrompt, Askers

LEMMA KeyCommandInSession ==
    ASSUME IInv, KeyCommand, out'.what # "signature"
    PROVE  InSession
<1>1. {"EXT_PUB_KEY", "DERIVE_ADDRESS"} \subseteq Askers
  BY DEF Askers
<1>2. \A token, check : handler_get_extended_public_key(token, check) => InSession
  BY <1>1, FreeScreen, DroppedInSession, AskUserInSession DEF handler_get_extended_public_key
<1>3. \A display, token, check : handler_derive_address(display, token, check) => InSession
  BY <1>1, FreeScreen, DroppedInSession, AskUserInSession DEF handler_derive_address
<1> QED BY <1>2, <1>3 DEF KeyCommand

LEMMA AttestCommandInSession ==
    ASSUME IInv, AttestCommand, out'.what # "signature"
    PROVE  InSession
<1>0. "ATTEST_INPUT" \in Askers /\ "ATTEST_INPUT" # "SIGN_TX"
  BY DEF Askers
<1>1. \A id, token, check : attest_init(token, check, id) => InSession
  BY <1>0, FreeScreen, DroppedInSession, AskUserInSession, SessionGone
  DEF attest_init, UiUnchanged
<1>2. ASSUME screen # "CONFIRM", current_command = "ATTEST_INPUT",
             NEW c, NEW what, Proceed(c, what)
      PROVE  InSession
  BY <1>2, SessionGone DEF Proceed, UiUnchanged
<1>3. \A id, result : attest_chunk(id, result) => InSession
  BY <1>2, FreeScreen, DroppedInSession DEF attest_chunk, Admitted
<1>4. \A id, valid_index : attest_get_frame(id, valid_index) => InSession
  BY <1>2, FreeScreen, DroppedInSession DEF attest_get_frame, Admitted
<1> QED BY <1>1, <1>3, <1>4 DEF AttestCommand

\* A sub-command, or the answer to it, that moves the session to context c.
LEMMA ProceedInSession ==
    ASSUME IInv, Signing, NEW c, NEW what, Proceed(c, what),
           c.session = ctx.session, c.token = ctx.token, c.op # "FINALIZED",
           c.op = ctx.op \/ <<ctx.op, c.op>> \in Session!Following, out'.what # "signature"
    PROVE  InSession
  BY SessionMoved DEF Proceed

LEMMA UploadInSession ==
    ASSUME IInv, NEW id, NEW from, NEW to, NEW ok, sign_upload(id, from, to, ok),
           to # "FINALIZED", \A op \in from : op = to \/ <<op, to>> \in Session!Following,
           out'.what # "signature"
    PROVE  InSession
<1> DEFINE c == [ctx EXCEPT !.op = to]
<1>1. c.session = ctx.session /\ c.token = ctx.token /\ c.op = to
  BY DEF IInv, DataOK, Contexts
<1> HIDE DEF c
<1>2. screen # "CONFIRM"
  BY FreeScreen DEF sign_upload, SignReceive
<1>3. CASE SignAdmitted(id, from) /\ Proceed(c, "ok")
  BY <1>1, <1>3, ProceedInSession DEF SignAdmitted, Admitted, Signing
<1> QED BY <1>2, <1>3, DroppedInSession DEF sign_upload, c

LEMMA SignInitInSession ==
    ASSUME IInv, SessionInv, NEW token \in Tokens, NEW check, NEW id \in SessionIds,
           sign_init(token, check, id), out'.what # "signature"
    PROVE  InSession
<1>1. screen # "CONFIRM" /\ ~(Signing /\ ctx.op = "FINALIZED")
  BY NoneFinal DEF sign_init
<1>2. CASE Stateless("error") \/ handler_err \/ (DropCommand /\ LayOut(steps, 0))
  BY <1>1, <1>2, StatelessInSession, DroppedInSession DEF LayOut
<1>3. CASE /\ current_command' = "SIGN_TX"
           /\ ctx' = [ZeroCtx EXCEPT !.session = id, !.state = "APPROVED", !.token = token]
           /\ screen' = screen
  <2>1. ctx'.op = "INITIALIZED" /\ ctx'.session = id /\ ctx'.token = token
    BY <1>3 DEF ZeroCtx
  <2>2. Signing' /\ SessionInv'
    BY <1>1, <1>3, <2>1 DEF Signing, SessionInv
  <2>3. Session!Open(<<id, token>>)
    BY <1>1, <2>1, <2>2 DEF Session!Open, Session!Nothing
  <2>4. <<id, token>> \in SessionIds \X Tokens
    OBVIOUS
  <2> QED BY <2>2, <2>3, <2>4 DEF InSession, Session!Next
<1> QED BY <1>2, <1>3 DEF sign_init, LayOut

\* A prompt of the session, or no room for it.
LEMMA ShowOrDropInSession ==
    ASSUME screen # "CONFIRM", Signing, NEW c, NEW which, NEW st, NEW pos,
           ShowOrDrop(c, which, st, pos) \/ AskSigner(c, which),
           c.session = ctx.session, c.token = ctx.token,
           c.op = ctx.op \/ <<ctx.op, c.op>> \in Session!Following,
           c.op = "FINALIZED" => which = "CONFIRM" \/ (Ui = "NBGL" /\ which = "BLIND"),
           out'.what # "signature"
    PROVE  InSession
<1>1. AskSigner(c, which) => InSession
  BY SessionMoved DEF AskSigner
<1>2. DropCommand /\ LayOut(st, pos) => InSession
  BY DroppedInSession DEF LayOut
<1> QED BY <1>1, <1>2 DEF ShowOrDrop

LEMMA OutputPartInSession ==
    ASSUME IInv, SessionInv, NEW id, NEW shape, NEW last \in BOOLEAN,
           sign_output_part(id, shape, last), out'.what # "signature"
    PROVE  InSession
<1> DEFINE c == IF last THEN [ctx EXCEPT !.op = "TX_FINISHED"] ELSE ctx
           b == [c EXCEPT !.blind = TRUE]
           Part(d) == /\ d.session = ctx.session /\ d.token = ctx.token /\ d.op # "FINALIZED"
                      /\ d.op = ctx.op \/ <<ctx.op, d.op>> \in Session!Following
<1>1. screen # "CONFIRM"
  BY FreeScreen DEF sign_output_part, SignReceive
<1>2. CASE handler_err
  BY <1>1, <1>2, DroppedInSession
<1>3. CASE /\ SignAdmitted(id, {"OUTPUTS_STARTED"})
           /\ Proceed(c, "ok") \/ (\E blind \in BOOLEAN : show_output_confirm_screen(c, blind))
  <2>1. Signing /\ ctx.op = "OUTPUTS_STARTED"
    BY <1>3 DEF SignAdmitted, Admitted, Signing
  <2>2. c \in Contexts
    BY DEF IInv, DataOK, Contexts, OpStates
  <2>3. Part(c)
    BY <2>1 DEF IInv, DataOK, Contexts, Session!Following
  <2> HIDE DEF c
  <2>4. Part(b)
    BY <2>2, <2>3 DEF Contexts
  <2> HIDE DEF b
  <2>5. Proceed(c, "ok") => InSession
    BY <2>1, <2>3, ProceedInSession
  <2>6. ASSUME NEW d, Part(d), NEW st, NEW pos, AddOutputScreens(d, st, pos)
        PROVE  InSession
    <3>1. CASE DropCommand /\ LayOut(st, pos)
      BY <1>1, <3>1, DroppedInSession DEF LayOut
    <3>2. CASE ctx' = d /\ current_command' = current_command
      BY <2>1, <2>6, <3>2, SessionMoved
    <3> QED BY <2>6, <3>1, <3>2 DEF AddOutputScreens
  <2> HIDE DEF Part
  <2>7. \A st, pos : ShowOrDrop(b, "BLIND", st, pos) => InSession
    BY <1>1, <2>1, <2>4, ShowOrDropInSession DEF Part
  <2>8. \A blind \in BOOLEAN : show_output_confirm_screen(c, blind) => InSession
    BY <2>3, <2>4, <2>6, <2>7 DEF show_output_confirm_screen, b
  <2> QED BY <1>3, <2>5, <2>8
<1> QED BY <1>2, <1>3 DEF sign_output_part

LEMMA ConfirmInSession ==
    ASSUME IInv, SessionInv, NEW id, sign_confirm(id), out'.what # "signature"
    PROVE  InSession
<1> DEFINE c == [ctx EXCEPT !.op = "FINALIZED"]
<1>1. c.session = ctx.session /\ c.token = ctx.token /\ c.op = "FINALIZED"
  BY DEF IInv, DataOK, Contexts
<1> HIDE DEF c
<1>2. screen # "CONFIRM"
  BY FreeScreen DEF sign_confirm, SignReceive
<1>3. CASE handler_err
  BY <1>2, <1>3, DroppedInSession
<1>4. ASSUME SignAdmitted(id, {"TX_FINISHED"}), NEW which, NEW st, NEW pos,
             ShowOrDrop(c, which, st, pos) \/ AskSigner(c, which),
             which = "CONFIRM" \/ (Ui = "NBGL" /\ which = "BLIND")
      PROVE  InSession
  <2>1. Signing /\ <<ctx.op, c.op>> \in Session!Following
    BY <1>1, <1>4 DEF SignAdmitted, Admitted, Signing, Session!Following
  <2> QED BY <1>1, <1>2, <1>4, <2>1, ShowOrDropInSession
<1>5. NbglReview \in {"CONFIRM", "BLIND"}
  BY DEF NbglReview
<1>6. CASE Ui = "NBGL" /\ SignAdmitted(id, {"TX_FINISHED"}) /\ AskSigner(c, NbglReview)
  BY <1>4, <1>5, <1>6
<1> QED BY <1>3, <1>4, <1>6 DEF sign_confirm, c

LEMMA SignCommandInSession ==
    ASSUME IInv, SessionInv, SignCommand, out'.what # "signature"
    PROVE  InSession
<1>1. ASSUME NEW id, NEW ok,
             \/ sign_start_tx(id, ok) \/ sign_add_tokens(id, ok) \/ sign_add_input(id, ok)
             \/ sign_more_input(id, ok) \/ sign_add_output(id, ok)
      PROVE  InSession
  BY <1>1, UploadInSession
  DEF sign_start_tx, sign_add_tokens, sign_add_input, sign_more_input, sign_add_output,
      Session!Following
<1> QED
  BY <1>1, SignInitInSession, OutputPartInSession, ConfirmInSession DEF SignCommand

LEMMA AnswersInSession ==
    ASSUME IInv, SessionInv, UserAnswers
    PROVE  InSession
<1>1. ASSUME NEW cmd \in Askers, NEW yes \in BOOLEAN,
             bagl_decision(cmd, yes) \/ nbgl_decision(cmd, yes)
      PROVE  InSession
  <2>1. screen' # "CONFIRM"
    BY <1>1 DEF bagl_decision, nbgl_decision, ShowMenu, ShowStatus
  <2>2. IF yes THEN Grant(cmd) ELSE Refuse
    BY <1>1 DEF bagl_decision, nbgl_decision
  <2>3. out'.what # "signature"
    BY <2>2, AnswerFields DEF Grant, Refuse, LateReply
  <2>4. current_command' = "NONE" \/ (cmd = "ATTEST_INPUT" /\ current_command' = current_command)
    BY <2>2 DEF Grant, Refuse
  <2>5. current_command = cmd
    <3>1. CASE bagl_decision(cmd, yes)
      <4>1. PICK kind \in {"approve", "reject"} : Press(kind)
        BY <3>1 DEF bagl_decision
      <4>2. kind \in PromptButtons
        BY DEF PromptButtons
      <4>3. screen \in Prompts /\ kind \in Deciders(screen)
            /\ (screen \in Commands => approve_cb = screen)
        BY <4>1, <4>2, PressedPrompt
      <4>4. screen \in Commands
        BY <4>3 DEF Prompts, Commands, Deciders
      <4> QED BY <3>1, <4>3, <4>4 DEF bagl_decision, IInv, AskInv, PromptKeepsRequest
    <3>2. CASE nbgl_decision(cmd, yes)
      <4>1. screen = cmd /\ cmd \in Prompts /\ cmd \in Commands
        BY <3>2 DEF nbgl_decision, Choose, Askers, Prompts, Commands
      <4> QED BY <4>1 DEF IInv, AskInv, PromptKeepsRequest
    <3> QED BY <1>1, <3>1, <3>2
  <2>6. current_command' # "SIGN_TX"
    BY <2>4, <2>5 DEF Askers
  <2> QED BY <2>1, <2>3, <2>6, SessionGone
<1>2. ASSUME NEW yes \in BOOLEAN, NEW ok \in BOOLEAN,
             bagl_sign_decision(yes, ok) \/ nbgl_sign_decision(yes, ok)
      PROVE  InSession
  <2>1. screen = "CONFIRM"
    <3>1. CASE bagl_sign_decision(yes, ok)
      <4>1. PICK kind \in {"sign", "sign_reject"} : Press(kind)
        BY <3>1 DEF bagl_sign_decision
      <4>2. screen \in Prompts /\ kind \in Deciders(screen)
        BY <4>1, PressedPrompt DEF PromptButtons
      <4> QED BY <4>1, <4>2 DEF Deciders
    <3> QED BY <1>2, <3>1 DEF nbgl_sign_decision, Choose
  <2>2. Signing /\ ctx.op = "FINALIZED"
    BY <2>1 DEF SessionInv, IInv, AskInv, PromptKeepsRequest, Prompts
  <2>3. screen' # "CONFIRM" /\ current_command' = "NONE"
    BY <1>2 DEF bagl_sign_decision, nbgl_sign_decision, SignDecision, ShowMenu, ShowStatus
  <2>4. CASE out'.what = "signature"
    <3>1. out'.token = ctx.token
      BY <1>2, AnswerFields DEF bagl_sign_decision, nbgl_sign_decision, SignDecision, LateReply
    <3>2. ~Signing' /\ SessionInv'
      BY <2>3 DEF Signing, SessionInv
    <3>3. Session!Sign
      BY <2>2, <2>4, <3>1, <3>2 DEF Session!Sign
    <3> QED BY <3>2, <3>3 DEF InSession, Session!Next
  <2> QED BY <2>3, <2>4, SessionGone
<1>3. ASSUME NEW settings \in BOOLEAN,
             bagl_blind_decision(settings) \/ nbgl_blind_decision(settings)
      PROVE  InSession
  <2>1. screen' # "CONFIRM" /\ out'.what # "signature"
    BY <1>3, AnswerFields
    DEF bagl_blind_decision, nbgl_blind_decision, Refuse, LateReply, ShowMenu
  <2>2. CASE bagl_blind_decision(settings)
    <3>1. PICK kind \in {"blind_settings", "blind_reject"} : Press(kind)
      BY <2>2 DEF bagl_blind_decision
    <3>2. Ui = "BAGL" /\ screen \in Prompts /\ kind \in Deciders(screen)
      BY <3>1, PressedPrompt DEF PromptButtons
    <3>3. Ui = "BAGL" /\ screen # "CONFIRM"
      BY <3>1, <3>2 DEF Deciders
    <3>4. ~(Signing /\ ctx.op = "FINALIZED")
      BY <3>3 DEF SessionInv
    <3> QED BY <2>1, <2>2, <3>4, SessionKept DEF bagl_blind_decision
  <2>3. CASE nbgl_blind_decision(settings)
    BY <2>1, <2>3, SessionGone DEF nbgl_blind_decision, Refuse
  <2> QED BY <1>3, <2>2, <2>3
<1>4. nbgl_status_closed => InSession
  <2>1. nbgl_status_closed => screen = "status" /\ screen' = "main"
    BY DEF nbgl_status_closed, Choose, ShowMenu
  <2> QED BY <2>1, SessionKept DEF nbgl_status_closed, SessionInv
<1> QED BY <1>1, <1>2, <1>3, <1>4 DEF UserAnswers, Askers

LEMMA BrowsingInSession ==
    ASSUME IInv, SessionInv, UserBrowses \/ PowerOn
    PROVE  InSession
<1>1. PowerOn => InSession
  BY SessionGone, AnswerFields DEF PowerOn, app_set_current_command
<1>2. ASSUME NEW kind \in MenuButtons, Press(kind), NEW menu \in Menus, OpenMenu(menu)
      PROVE  InSession
  <2>1. screen \in Menus
    BY <1>2, PressedMenu
  <2>2. ~(Signing /\ ctx.op = "FINALIZED") /\ screen' # "CONFIRM"
    BY <1>2, <2>1 DEF SessionInv, OpenMenu, ShowMenu, Menus
  <2> QED BY <1>2, <2>2, SessionKept DEF OpenMenu
<1>3. \A kind \in MenuButtons : \A menu \in Menus : open_menu(kind, menu) => InSession
  BY <1>2 DEF open_menu
<1>4. toggle_blind_signing => InSession
  <2>1. CASE Press("toggle") /\ OpenMenu("settings")
    BY <1>2, <2>1 DEF Menus, MenuButtons
  <2>2. CASE UiUnchanged /\ UNCHANGED <<devVars, out>>
    BY <2>2, SessionKept DEF UiUnchanged, devVars
  <2> QED BY <2>1, <2>2 DEF toggle_blind_signing
<1> QED BY <1>1, <1>3, <1>4 DEF UserBrowses, quit, Menus, MenuButtons

LEMMA SessionStep == IInv /\ SessionInv /\ [Next]_vars => InSession
<1> SUFFICES ASSUME IInv, SessionInv, [Next]_vars PROVE InSession
  OBVIOUS
<1>1. CASE UNCHANGED vars
  BY <1>1, SessionKept DEF vars, devVars
<1>2. CASE HostStep
  <2>1. out'.what # "signature"
    BY <1>2, HostAnswers
  <2>2. wrong_subcommand => InSession
    BY <2>1, FreeScreen, DroppedInSession DEF wrong_subcommand
  <2> QED
    BY <1>2, <2>1, <2>2, StatelessInSession, KeyCommandInSession, AttestCommandInSession,
       SignCommandInSession
    DEF HostStep, apdu_rejected, get_app_info, res_ui_busy
<1> QED BY <1>1, <1>2, AnswersInSession, BrowsingInSession DEF Next

\* The application signs in sessions, for every number of hosts, tokens and
\* session ids: stages in order and under one id and token, a final transaction
\* left alone until the user answers, one signature at most and only as the
\* answer that ends the session.
THEOREM SessionsKept == SafeUi /\ Spec => SignsInSession
<1> SUFFICES ASSUME SafeUi PROVE Spec => SignsInSession
  OBVIOUS
<1>1. Init => SessionInv /\ Session!Init
  <2> SUFFICES ASSUME Init PROVE SessionInv /\ Session!Init
    OBVIOUS
  <2>1. ~Signing /\ screen = "main" /\ out.what = "none"
    BY AnswerFields DEF Init, Signing
  <2> QED BY <2>1 DEF SessionInv, Session!Init
<1>2. IInv /\ SessionInv /\ [Next]_vars => SessionInv' /\ [Session!Next]_(Session!vars)
  BY SessionStep DEF InSession
<1> QED BY <1>1, <1>2, Invariance, PTL DEF Spec, SignsInSession, Session!Spec
============================================================================
