----------------------------- MODULE MCNetConnect -----------------------------
(***************************************************************************)
(* Instances of NetConnect for TLC.                                        *)
(***************************************************************************)
EXTENDS NetConnect

\* Every board, with the samples' one call and with the tracker's rounds.
MCBuilds == Build

WifiOnly == {[board |-> "wifi", retries |-> FALSE]}
===============================================================================
