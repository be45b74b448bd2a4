-------------------------- MODULE SigningSession ---------------------------
(***************************************************************************)
(* What the application promises about signing: a session goes through its *)
(* stages in order, under one session id and token of the device's         *)
(* choosing; once the transaction is final nothing happens to it but the   *)
(* user's answer or its end; and it gives out one signature at most.       *)
(* Screens, prompts and the other commands, which use the same context,    *)
(* are the business of ErgoApp, which implements this.                     *)
(***************************************************************************)
EXTENDS Sequences

CONSTANT Owners          \* a session's id and the token of its application

VARIABLES stage,         \* how far the session is, "NONE" when there is none
          owner,         \* whose it is: <<>>, or <<id, token>>
          signature      \* what the last answer gave out: <<>>, or <<token>>

vars == <<stage, owner, signature>>

Following == {<<"INITIALIZED", "TX_STARTED">>, <<"TX_STARTED", "INPUTS_STARTED">>,
              <<"INPUTS_STARTED", "OUTPUTS_STARTED">>, <<"OUTPUTS_STARTED", "TX_FINISHED">>,
              <<"TX_FINISHED", "FINALIZED">>}

Nothing == signature' = <<>>

Init == stage = "NONE" /\ owner = <<>> /\ signature = <<>>

Open(o) == stage # "FINALIZED" /\ stage' = "INITIALIZED" /\ owner' = o /\ Nothing
Advance == <<stage, stage'>> \in Following /\ UNCHANGED owner /\ Nothing
Sign    == /\ stage = "FINALIZED" /\ signature' = <<owner[2]>>
           /\ stage' = "NONE" /\ owner' = <<>>
End     == stage' = "NONE" /\ owner' = <<>> /\ Nothing

\* An answer that is not about the session.
Other   == UNCHANGED <<stage, owner>> /\ Nothing

Next == (\E o \in Owners : Open(o)) \/ Advance \/ Sign \/ End \/ Other

Spec == Init /\ [][Next]_vars
============================================================================
