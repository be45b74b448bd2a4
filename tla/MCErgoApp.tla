----------------------------- MODULE MCErgoApp -----------------------------
(* Small instances of ErgoApp for TLC.                                     *)
EXTENDS ErgoApp

\* Where the next screen of the transaction goes; sign_init sets it before
\* any use, so its value outside a signing session is read by nobody.
LiveScreen == IF current_command = "SIGN_TX" THEN signtx_screen ELSE 0

\* A step that is neither part of the running flow nor below LiveScreen is
\* written before it is read again: states that differ only there behave alike.
LiveSteps == [i \in Positions |->
                 IF i < LiveScreen \/ i =< flow_len THEN steps[i] ELSE "null"]

\* What the future of a BAGL device and the properties of its runs depend on.
LiveState == <<devVars, connected_app_id, blind_signing_enabled, screen,
               LiveSteps, flow_len, LiveScreen, approve_cb,
               owed, out, asked, denied, approved, started>>
============================================================================
