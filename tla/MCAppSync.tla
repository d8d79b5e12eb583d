------------------------------ MODULE MCAppSync ------------------------------
(***************************************************************************)
(* AppSync for TLC with one sync at a time, with the inductive invariant   *)
(* of its proof.                                                           *)
(***************************************************************************)
EXTENDS AppSyncProofs
=============================================================================
