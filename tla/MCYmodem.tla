------------------------------ MODULE MCYmodem ------------------------------
(***************************************************************************)
(* Model checking of Ymodem: batches for the .cfg files.                   *)
(***************************************************************************)
EXTENDS Ymodem

TwoFiles == <<2, 1>>
=============================================================================
