------------------------ MODULE MCSessionDispatcher ------------------------
(***************************************************************************)
(* Model checking of SessionDispatcher: three threads on two channels      *)
(* compete for the slots.                                                  *)
(***************************************************************************)
EXTENDS SessionDispatcher

CONSTANTS t1, t2, t3

ThreeThreads == {t1, t2, t3}
ChannelOf == [t \in ThreeThreads |-> IF t = t3 THEN "ble" ELSE "uart"]
=============================================================================
