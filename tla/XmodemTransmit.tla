-------------------------- MODULE XmodemTransmit --------------------------
(***************************************************************************)
(* xmodem_transmit().  The transmitter reads in three places: waiting for  *)
(* the start byte, for the answer to a packet, for the answer to EOT.  One *)
(* action is the outcome of such a read and everything the code does until *)
(* the next one.  bytes_sent is counted in blocks: it is txBlock - 1, and  *)
(* block_num is BlockNum(txBlock).                                         *)
(***************************************************************************)
EXTENDS XmodemLine

VARIABLES
    txPhase,    \* where the code reads: "start", "data", "eot"
    txStatus,   \* "RUN", then the value xmodem_transmit returns
    txBlock,    \* the block being sent
    txRetries,  \* retries
    txCrc       \* crc_mode

txVars == <<txPhase, txStatus, txBlock, txRetries, txCrc>>

TxTypeOK ==
    /\ txPhase \in {"start", "data", "eot"}
    /\ txStatus \in Status
    /\ txBlock \in Nat \ {0}
    /\ txRetries \in 0 .. RetryMod - 1
    /\ txCrc \in BOOLEAN

TxInit ==
    /\ txPhase = "start"
    /\ txStatus = "RUN"
    /\ txBlock = 1
    /\ txRetries = 0
    /\ txCrc = TRUE

Chk(crc) == IF crc THEN "crc" ELSE "sum"

-----------------------------------------------------------------------------

\* return st, having left q on the line
TxReturn(st, q) ==
    /\ txStatus' = st
    /\ toRx' = q
    /\ UNCHANGED <<txPhase, txRetries, faults, aborts>>

\* Seeded fault: off by one block.
MoreDataShort(k) == k < NBlocks

\* The data loop goes on with block k.  data_cb returns 0 on success, so a
\* transfer of unknown length ends at the second block whatever the stream
\* still holds.
MoreData(k) == IF KnownLength THEN k <= NBlocks ELSE k = 1

\* data_cb is asked for block k before an unknown length ends the loop.
AsksData(k) == KnownLength => k <= NBlocks

\* From the top of the data loop, for block k, to the next read.  With
\* max_retries = 0 the first block is given up before it is sent.
TxContinue(k, crc) ==
    /\ txCrc' = crc
    /\ txBlock' = k
    /\ \/ /\ AsksData(k) /\ DataFails
          /\ TxReturn("IO", Send(toRx, RxByte("can")))
       \/ /\ MoreData(k) /\ MaxRetries = 0
          /\ TxReturn("TIMEOUT", Send(toRx, RxByte("can")))
       \/ /\ MoreData(k) /\ MaxRetries > 0
          /\ txPhase' = "data"
          /\ txRetries' = 0
          /\ toRx' = Send(toRx, Packet(k, Chk(crc)))
          /\ UNCHANGED <<txStatus, faults, aborts>>
       \/ /\ ~ MoreData(k) /\ MaxRetries > 0
          /\ txPhase' = "eot"
          /\ txRetries' = 0
          /\ toRx' = Send(toRx, RxByte("eot"))
          /\ UNCHANGED <<txStatus, faults, aborts>>

TxAt(phase) == txStatus = "RUN" /\ txPhase = phase

TxReads(phase, types) ==
    /\ TxAt(phase)
    /\ toTx # <<>> /\ Head(toTx).type \in types
    /\ toTx' = Tail(toTx)

\* The read timed out, or gave something the code has no use for there.
TxUseless(phase, types, rxDone) ==
    \/ TxReads(phase, types)
    \/ TxAt(phase) /\ MayTimeOut(toTx, toRx, rxDone) /\ UNCHANGED toTx

TxStart ==
    /\ TxReads("start", {"c", "nak"})
    /\ TxContinue(1, Head(toTx).type = "c")

TxStartCan ==
    /\ TxReads("start", {"can"})
    /\ TxReturn("CANCEL", toRx)
    /\ UNCHANGED <<txBlock, txCrc>>

TxStartRetry(rxDone) ==
    /\ TxUseless("start", {"ack", "junk", "brk"}, rxDone)
    /\ UNCHANGED <<txBlock, txCrc>>
    /\ \/ /\ NextRetry(txRetries) > MaxRetries
          /\ TxReturn("TIMEOUT", toRx)
       \/ /\ NextRetry(txRetries) <= MaxRetries
          /\ txRetries' = NextRetry(txRetries)
          /\ UNCHANGED <<txPhase, txStatus, toRx, faults, aborts>>

TxAcked ==
    /\ TxReads("data", {"ack"})
    /\ TxContinue(txBlock + 1, txCrc)

TxCancelled ==
    /\ TxReads("data", {"can"})
    /\ TxReturn("CANCEL", toRx)
    /\ UNCHANGED <<txBlock, txCrc>>

TxAbortKey ==
    /\ TxReads("data", {"brk"})
    /\ TxReturn("CANCEL", SendTwice(toRx, RxByte("can")))
    /\ UNCHANGED <<txBlock, txCrc>>

TxResend(rxDone) ==
    /\ TxUseless("data", {"nak", "c", "junk"}, rxDone)
    /\ UNCHANGED <<txBlock, txCrc>>
    /\ \/ /\ txRetries + 1 < MaxRetries
          /\ txRetries' = txRetries + 1
          /\ toRx' = Send(toRx, Packet(txBlock, Chk(txCrc)))
          /\ UNCHANGED <<txPhase, txStatus, faults, aborts>>
       \/ /\ txRetries + 1 >= MaxRetries
          /\ TxReturn("TIMEOUT", Send(toRx, RxByte("can")))

TxEotAcked ==
    /\ TxReads("eot", {"ack"})
    /\ TxReturn("OK", toRx)
    /\ UNCHANGED <<txBlock, txCrc>>

\* Every other answer, CAN and the abort key included, only costs a retry.
TxEotRetry(rxDone) ==
    /\ TxUseless("eot", {"nak", "can", "c", "junk", "brk"}, rxDone)
    /\ UNCHANGED <<txBlock, txCrc>>
    /\ \/ /\ txRetries + 1 < MaxRetries
          /\ txRetries' = txRetries + 1
          /\ toRx' = Send(toRx, RxByte("eot"))
          /\ UNCHANGED <<txPhase, txStatus, faults, aborts>>
       \/ /\ txRetries + 1 >= MaxRetries
          /\ TxReturn("TIMEOUT", toRx)

TxStep(rxDone) ==
    \/ TxStart \/ TxStartCan \/ TxStartRetry(rxDone)
    \/ TxAcked \/ TxCancelled \/ TxAbortKey \/ TxResend(rxDone)
    \/ TxEotAcked \/ TxEotRetry(rxDone)

=============================================================================
