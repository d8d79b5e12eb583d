------------------------------ MODULE MCPairing ------------------------------
(***************************************************************************)
(* Pairing for TLC: three codes.                                           *)
(***************************************************************************)
EXTENDS Pairing
=============================================================================
