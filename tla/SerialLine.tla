----------------------------- MODULE SerialLine -----------------------------
(***************************************************************************)
(* The serial line between the two ends of a transfer, as the callbacks    *)
(* read_byte and write_bytes show it to a protocol engine.                 *)
(*                                                                         *)
(* An item on the line is what the engine writes without reading in        *)
(* between and reads as a unit: one control byte, header or whole packet.  *)
(* Items are records with a field type.  "bad" is a packet whose length,   *)
(* number or check the reader will refuse, "junk" starts with a byte that  *)
(* means nothing to the reader, "brk" is a byte for which read_byte        *)
(* returns -2 (the abort key of the console).                              *)
(*                                                                         *)
(* Each direction is FIFO and holds at most LineCap items; the line may    *)
(* lose or damage what it carries, but damage never turns an item into     *)
(* another valid one.  read_byte may give up at any moment, even with a    *)
(* late answer on its way (Timely = FALSE), or, where the timeouts exceed  *)
(* every delay of the peer, only when nothing is on its way.               *)
(***************************************************************************)
EXTENDS Integers, Sequences

CONSTANTS
    LineCap,      \* items a direction can hold; what is sent beyond is lost
    Timely,       \* TRUE: read_byte times out only on a silent line
    MaxFaults,    \* bound on lost or damaged items
    MaxAborts     \* bound on presses of the abort key

ASSUME SerialLineAssumption ==
    /\ LineCap \in Nat \ {0}
    /\ Timely \in BOOLEAN
    /\ MaxFaults \in Nat /\ MaxAborts \in Nat

VARIABLES
    toRx,     \* items on their way to the receiver
    toTx,     \* items on their way to the transmitter
    faults,   \* items lost or damaged so far
    aborts    \* abort keys pressed so far

lineVars == <<toRx, toTx, faults, aborts>>

Send(q, item) == IF Len(q) < LineCap THEN Append(q, item) ELSE q

SendTwice(q, item) == Send(Send(q, item), item)

\* read_byte may return -1: nothing arrived before the deadline.
MayTimeOut(in, out, peerDone) ==
    Timely => in = <<>> /\ (out = <<>> \/ peerDone)

\* What may be left of q after purge_rx: it reads until a 100 ms gap or
\* until read_byte fails, and the abort key is such a failure.
Purged(q) ==
    {SubSeq(q, k + 1, Len(q)) : k \in
        {k \in 0 .. Len(q) :
            /\ \A j \in 1 .. k - 1 : q[j].type # "brk"
            /\ Timely => k = Len(q) \/ (k > 0 /\ q[k].type = "brk")}}

\* The item at the head of q damaged in one of the ways that are noticed.
Damaged(q, types) ==
    {<<[Head(q) EXCEPT !.type = ty]>> \o Tail(q) : ty \in types}

-----------------------------------------------------------------------------

Fault ==
    /\ faults < MaxFaults
    /\ faults' = faults + 1
    /\ UNCHANGED aborts

LoseToRx ==
    /\ Fault
    /\ toRx # <<>> /\ Head(toRx).type # "brk"
    /\ toRx' = Tail(toRx)
    /\ UNCHANGED toTx

LoseToTx ==
    /\ Fault
    /\ toTx # <<>> /\ Head(toTx).type # "brk"
    /\ toTx' = Tail(toTx)
    /\ UNCHANGED toRx

\* Items of the types in packets carry a check and may become "bad".
DamageToRx(packets) ==
    /\ Fault
    /\ toRx # <<>> /\ Head(toRx).type \notin {"bad", "junk", "brk"}
    /\ toRx' \in Damaged(toRx, IF Head(toRx).type \in packets
                                  THEN {"bad", "junk"} ELSE {"junk"})
    /\ UNCHANGED toTx

DamageToTx(packets) ==
    /\ Fault
    /\ toTx # <<>> /\ Head(toTx).type \notin {"bad", "junk", "brk"}
    /\ toTx' \in Damaged(toTx, IF Head(toTx).type \in packets
                                  THEN {"bad", "junk"} ELSE {"junk"})
    /\ UNCHANGED toRx

\* The user presses the abort key at the terminal of either end.
PressAbort(rxKey, txKey) ==
    /\ aborts < MaxAborts
    /\ aborts' = aborts + 1
    /\ \/ toRx' = Send(toRx, rxKey) /\ UNCHANGED toTx
       \/ toTx' = Send(toTx, txKey) /\ UNCHANGED toRx
    /\ UNCHANGED faults

LineNext(packets, rxKey, txKey) ==
    \/ LoseToRx \/ LoseToTx \/ DamageToRx(packets) \/ DamageToTx(packets)
    \/ PressAbort(rxKey, txKey)

=============================================================================
