------------------------------ MODULE MCSignTx ------------------------------
(* Small instances of SignTx for TLC.                                      *)
EXTENDS SignTx
============================================================================
