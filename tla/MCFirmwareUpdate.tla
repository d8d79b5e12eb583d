-------------------------- MODULE MCFirmwareUpdate --------------------------
(***************************************************************************)
(* FirmwareUpdate for TLC, with the definitions of its proofs.             *)
(***************************************************************************)
EXTENDS FirmwareUpdateProofs
=============================================================================
