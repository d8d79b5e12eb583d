------------------------------ MODULE MCScreens ------------------------------
(***************************************************************************)
(* Screens for TLC, with the invariants of its proofs.                     *)
(***************************************************************************)
EXTENDS ScreensProofs
=============================================================================
