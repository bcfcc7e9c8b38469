------------------------------ MODULE MCZmodem ------------------------------
(***************************************************************************)
(* Model checking of Zmodem: batches for the .cfg files.                   *)
(***************************************************************************)
EXTENDS Zmodem

ThreeFiles == <<2, 2, 1>>
=============================================================================
