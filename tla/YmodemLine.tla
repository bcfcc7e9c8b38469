----------------------------- MODULE YmodemLine -----------------------------
(***************************************************************************)
(* What a YMODEM batch puts on the line, and its parameters.  A packet     *)
(* carries the identity of its payload and the number num it shows on the  *)
(* wire.  Block 0 of file NFiles + 1 is the one with the empty name that   *)
(* ends the batch.                                                         *)
(***************************************************************************)
EXTENDS BatchFiles

CONSTANTS
    BlockMod,     \* block numbers are uint8_t: 256 in the code
    MaxRetries,   \* MAX_RETRIES, 10 in the code
    Renumber      \* TRUE: a fault may change the number of a packet

ASSUME YmodemAssumption ==
    /\ BlockMod \in Nat /\ BlockMod > 2
    /\ MaxRetries \in Nat \ {0}
    /\ Renumber \in BOOLEAN

Status == {"RUN", "OK", "TIMEOUT", "CANCEL", "SEQUENCE"}

BlockNum(k) == k % BlockMod

RxItem == [type : {"blk", "bad", "junk", "eot", "can", "brk"},
           load : Payload, num : 0 .. BlockMod - 1]

TxItem == [type : {"ack", "nak", "can", "c", "junk", "brk"}]

RxByte(ty) == [type |-> ty, load |-> Padding, num |-> 0]
TxByte(ty) == [type |-> ty]
Packet(k, load) == [type |-> "blk", load |-> load, num |-> BlockNum(k)]

LineTypeOK ==
    /\ toRx \in Seq(RxItem)
    /\ toTx \in Seq(TxItem)
    /\ faults \in 0 .. MaxFaults
    /\ aborts \in 0 .. MaxAborts

\* ymodem_receive reads the complement of the number but never compares it,
\* and the CRC covers the payload only: a damaged number goes unnoticed.
RenumberToRx ==
    /\ Renumber
    /\ Fault
    /\ toRx # <<>> /\ Head(toRx).type = "blk"
    /\ \E n \in 0 .. BlockMod - 1 \ {Head(toRx).num} :
          toRx' = <<[Head(toRx) EXCEPT !.num = n]>> \o Tail(toRx)
    /\ UNCHANGED toTx

YmodemLineNext == LineNext({"blk"}, RxByte("brk"), TxByte("brk"))

=============================================================================
