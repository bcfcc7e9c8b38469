---------------------------- MODULE FileDelivery ----------------------------
(***************************************************************************)
(* What the two calls of a transfer promise their callers: blocks 1 .. N   *)
(* reach the receiver's storage in order; the receiver returns "OK" only   *)
(* with the complete file, the transmitter only after the receiver did;    *)
(* and a call that has returned does nothing more.                         *)
(***************************************************************************)
EXTENDS Naturals, Sequences

CONSTANTS
    N,          \* length of the file in blocks
    Failures    \* the results other than "OK" a call may return

VARIABLES
    stored,     \* the blocks handed to the receiver's storage
    rx,         \* "RUN", or what the receiver returned
    tx          \* "RUN", or what the transmitter returned

vars == <<stored, rx, tx>>

Init ==
    /\ stored = <<>>
    /\ rx = "RUN"
    /\ tx = "RUN"

Deliver ==
    /\ rx = "RUN"
    /\ Len(stored) < N
    /\ stored' = Append(stored, Len(stored) + 1)
    /\ UNCHANGED <<rx, tx>>

RxReturns ==
    /\ rx = "RUN"
    /\ rx' \in Failures \cup (IF Len(stored) = N THEN {"OK"} ELSE {})
    /\ UNCHANGED <<stored, tx>>

TxReturns ==
    /\ tx = "RUN"
    /\ tx' \in Failures \cup (IF rx = "OK" THEN {"OK"} ELSE {})
    /\ UNCHANGED <<stored, rx>>

Next == Deliver \/ RxReturns \/ TxReturns

Spec == Init /\ [][Next]_vars

\* Both calls return in the end.
FairSpec == Spec /\ WF_vars(RxReturns) /\ WF_vars(TxReturns)

=============================================================================
