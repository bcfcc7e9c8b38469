------------------------------ MODULE Transports ------------------------------
(***************************************************************************)
(* An engine over one of the radio adapters of the library.                *)
(***************************************************************************)
EXTENDS NfcTransport, BleTransport

VARIABLE adapter      \* "nfc" or "ble": the one the engine reads from

vars == <<ringVars, nfcVars, adapter>>

Init == RingInit /\ NfcInit /\ adapter \in {"nfc", "ble"}

BleNext ==
    \/ BleReset /\ UNCHANGED nfcVars
    \/ \E n \in 1 .. Size + 1 :
          /\ received + n <= MaxBytes
          /\ received' = received + n
          /\ BleData(Numbered(received, n))
          /\ UNCHANGED <<field, framing, txVars>>
    \/ (BleRead \/ BleNoByte \/ Callback \/ BleWrite) /\ UNCHANGED nfcVars

Next ==
    /\ \/ adapter = "nfc" /\ NfcNext
       \/ adapter = "ble" /\ BleNext
    /\ UNCHANGED adapter

Spec == Init /\ [][Next]_vars

\* Types of the ring and of the adapter around it.
TypeOK == RingTypeOK /\ NfcTypeOK /\ adapter \in {"nfc", "ble"}

=============================================================================
