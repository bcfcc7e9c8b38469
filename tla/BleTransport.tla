---------------------------- MODULE BleTransport ----------------------------
(***************************************************************************)
(* The Bluetooth adapter: the same ring, filled by the callback of the     *)
(* Nordic UART service.  read_byte does not wait, nothing is counted when  *)
(* the ring is full, and write_bytes returns 0 and does nothing else.      *)
(***************************************************************************)
EXTENDS RxRing

\* ble_nus_transport_init, again
BleReset == RingReset \/ ZeroTail \/ ZeroCount("idle")

\* ble_nus_transport_rx_callback
BleData(payload) == CbStart(payload)

BleRead == RdStart \/ RdFound \/ Reader

\* -1, at once
BleNoByte == count = 0 /\ RdGivesUp

\* write_bytes and is_connected change nothing.
BleWrite == rdAt = "idle" /\ UNCHANGED ringVars

=============================================================================
