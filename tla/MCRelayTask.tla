----------------------------- MODULE MCRelayTask -----------------------------
(***************************************************************************)
(* RelayTask for TLC: both boards, whatever begin() managed to create.     *)
(***************************************************************************)
EXTENDS RelayTask
=============================================================================
