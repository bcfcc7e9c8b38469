---------------------------- MODULE XmodemLine ----------------------------
(***************************************************************************)
(* What an XMODEM transfer puts on the line, and the parameters of a       *)
(* transfer.  A packet carries idx, the identity of its payload; the       *)
(* number on the wire is BlockNum(idx).                                    *)
(***************************************************************************)
EXTENDS SerialLine

CONSTANTS
    NBlocks,      \* payload blocks of the file
    BlockMod,     \* block numbers are uint8_t: 256 in the code
    RetryMod,     \* the retry counters are uint8_t: 256 in the code
    MaxRetries,   \* cfg.max_retries
    RxMode,       \* the receiver's cfg.mode
    KnownLength,  \* FALSE: xmodem_transmit is called with total_len = 0
    DataFails     \* TRUE: data_cb may fail

ASSUME XmodemAssumption ==
    /\ NBlocks \in Nat \ {0}
    /\ BlockMod \in Nat /\ BlockMod > 2
    /\ RetryMod \in Nat \ {0}
    /\ MaxRetries \in 0 .. RetryMod - 1
    /\ RxMode \in {"STANDARD", "CRC", "1K"}
    /\ {KnownLength, DataFails} \subseteq BOOLEAN

Status == {"RUN", "OK", "ERROR", "TIMEOUT", "CANCEL", "SEQUENCE", "IO"}

CheckKind == {"crc", "sum"}

RxItem == [type : {"blk", "bad", "junk", "eot", "can", "brk"},
           idx : Nat, chk : CheckKind]

\* The serial number sn of an ACK is a history field: no action reads it.
TxItem == [type : {"ack", "nak", "can", "c", "junk", "brk"}, sn : Nat]

BlockNum(k) == k % BlockMod

\* Seeded fault: the retry is not counted.
NextRetryStuck(r) == r

NextRetry(r) == (r + 1) % RetryMod

RxByte(ty) == [type |-> ty, idx |-> 0, chk |-> "crc"]
TxByte(ty) == [type |-> ty, sn |-> 0]
Packet(k, c) == [type |-> "blk", idx |-> k, chk |-> c]
Ack(n) == [type |-> "ack", sn |-> n]

LineTypeOK ==
    /\ toRx \in Seq(RxItem)
    /\ toTx \in Seq(TxItem)
    /\ faults \in 0 .. MaxFaults
    /\ aborts \in 0 .. MaxAborts

XmodemLineNext == LineNext({"blk"}, RxByte("brk"), TxByte("brk"))

=============================================================================
