------------------------- MODULE MCZmodemAnySender -------------------------
(***************************************************************************)
(* Model checking of ZmodemAnySender: the names a sender may use.          *)
(***************************************************************************)
EXTENDS ZmodemAnySender

TwoNames == <<1, 1>>
=============================================================================
