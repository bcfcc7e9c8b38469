-------------------------- MODULE YmodemTransmit --------------------------
(***************************************************************************)
(* ymodem_transmit().  One action is the outcome of a read, at the place   *)
(* txPhase names, and everything the code does until the next one.  The    *)
(* abort key (-2) is a failed read like a timeout everywhere.              *)
(***************************************************************************)
EXTENDS YmodemLine

VARIABLES
    txPhase,    \* "start", "block0", "go", "data", "eot", "eot2"
    txStatus,   \* "RUN", then the value ymodem_transmit returns
    txFile,     \* file_idx + 1
    txBlock,    \* the packet being sent: its block and payload
    txRetries   \* retries

txVars == <<txPhase, txStatus, txFile, txBlock, txRetries>>

TxTypeOK ==
    /\ txPhase \in {"start", "block0", "go", "data", "eot", "eot2"}
    /\ txStatus \in Status
    /\ txFile \in 1 .. NFiles + 1
    /\ txBlock \in [idx : Nat, load : Payload]
    /\ txRetries \in 0 .. MaxRetries

NoBlock == [idx |-> 0, load |-> Padding]

TxInit ==
    /\ txPhase = "start"
    /\ txStatus = "RUN"
    /\ txFile = 1
    /\ txBlock = NoBlock
    /\ txRetries = 0

-----------------------------------------------------------------------------

TxAt(phase) == txStatus = "RUN" /\ txPhase = phase

TxReads(phase, types) ==
    /\ TxAt(phase)
    /\ toTx # <<>> /\ Head(toTx).type \in types
    /\ toTx' = Tail(toTx)

TxItemTypes == {"ack", "nak", "can", "c", "junk", "brk"}

\* The read gave nothing, or none of the useful bytes.
TxReadsOther(phase, useful, rxDone) ==
    \/ TxReads(phase, TxItemTypes \ useful)
    \/ TxAt(phase) /\ MayTimeOut(toTx, toRx, rxDone) /\ UNCHANGED toTx

TxReturn(st) ==
    /\ txStatus' = st
    /\ UNCHANGED <<txPhase, txFile, txBlock, txRetries, toRx, faults, aborts>>

TxGoTo(phase, q) ==
    /\ txPhase' = phase
    /\ toRx' = q
    /\ txRetries' = 0
    /\ UNCHANGED <<txStatus, faults, aborts>>

\* Seeded fault: file_idx is incremented twice.
NextFileSkip ==
    /\ txFile' = txFile + 2
    /\ txBlock' = NoBlock
    /\ TxGoTo("start", toRx)

\* From the top of the loop over files to the wait for 'C'.
NextFile ==
    /\ txFile' = txFile + 1
    /\ txBlock' = NoBlock
    /\ TxGoTo("start", toRx)

\* The packet for block k; the result of read_data is not looked at.
SendBlock(k) ==
    \E load \in ReadOutcomes(<<txFile, k>>) :
       /\ txBlock' = [idx |-> k, load |-> load]
       /\ TxGoTo("data", Send(toRx, Packet(k, load)))

\* Seeded fault: off by one block.
SendFromShort(k) ==
    /\ UNCHANGED txFile
    /\ \/ k < Files[txFile] /\ SendBlock(k)
       \/ /\ k >= Files[txFile]
          /\ TxGoTo("eot", Send(toRx, RxByte("eot")))
          /\ txBlock' = NoBlock

\* The data loop goes on with block k, or sends EOT.
SendFrom(k) ==
    /\ UNCHANGED txFile
    /\ \/ k <= Files[txFile] /\ SendBlock(k)
       \/ /\ k > Files[txFile]
          /\ TxGoTo("eot", Send(toRx, RxByte("eot")))
          /\ txBlock' = NoBlock

TxStart ==
    /\ TxReads("start", {"c"})
    /\ TxGoTo("block0", Send(toRx, Packet(0, <<txFile, 0>>)))
    /\ UNCHANGED <<txFile, txBlock>>

TxStartRetry(rxDone) ==
    /\ TxReadsOther("start", {"c", "can"}, rxDone)
    /\ \/ txRetries + 1 >= MaxRetries /\ TxReturn("TIMEOUT")
       \/ /\ txRetries + 1 < MaxRetries
          /\ txRetries' = txRetries + 1
          /\ UNCHANGED <<txPhase, txStatus, txFile, txBlock, toRx, faults, aborts>>

TxCancelled ==
    /\ TxReads("start", {"can"}) \/ TxReads("data", {"can"})
    /\ TxReturn("CANCEL")

TxBlock0Acked ==
    /\ TxReads("block0", {"ack"})
    /\ \/ txFile > NFiles /\ TxReturn("OK")
       \/ /\ txFile <= NFiles
          /\ TxGoTo("go", toRx)
          /\ UNCHANGED <<txFile, txBlock>>

\* Block 0 is sent once, and the 'C' behind its ACK is awaited once.
TxNoStart(rxDone) ==
    /\ \/ TxReadsOther("block0", {"ack"}, rxDone)
       \/ TxReadsOther("go", {"c"}, rxDone)
    /\ TxReturn("TIMEOUT")

TxGo == TxReads("go", {"c"}) /\ SendFrom(1)

TxAcked == TxReads("data", {"ack"}) /\ SendFrom(txBlock.idx + 1)

\* Seeded fault: the retry is not counted.
TxResendForever(rxDone) ==
    /\ TxReadsOther("data", {"ack", "can"}, rxDone)
    /\ toRx' = Send(toRx, Packet(txBlock.idx, txBlock.load))
    /\ UNCHANGED <<txVars, faults, aborts>>

TxResend(rxDone) ==
    /\ TxReadsOther("data", {"ack", "can"}, rxDone)
    /\ \/ txRetries + 1 >= MaxRetries /\ TxReturn("TIMEOUT")
       \/ /\ txRetries + 1 < MaxRetries
          /\ txRetries' = txRetries + 1
          /\ toRx' = Send(toRx, Packet(txBlock.idx, txBlock.load))
          /\ UNCHANGED <<txPhase, txStatus, txFile, txBlock, faults, aborts>>

TxEotNaked ==
    /\ TxReads("eot", {"nak"})
    /\ TxGoTo("eot2", Send(toRx, RxByte("eot")))
    /\ UNCHANGED <<txFile, txBlock>>

\* The answers are not waited for any longer, whatever they are.
TxFileSent(rxDone) ==
    /\ \/ TxReadsOther("eot", {"nak"}, rxDone)
       \/ TxReadsOther("eot2", {}, rxDone)
    /\ NextFile

TxStep(rxDone) ==
    \/ TxStart \/ TxStartRetry(rxDone) \/ TxCancelled \/ TxBlock0Acked
    \/ TxNoStart(rxDone) \/ TxGo \/ TxAcked \/ TxResend(rxDone)
    \/ TxEotNaked \/ TxFileSent(rxDone)

=============================================================================
