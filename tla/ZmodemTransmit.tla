--------------------------- MODULE ZmodemTransmit ---------------------------
(***************************************************************************)
(* zmodem_transmit().  The transmitter waits for a header in four places,  *)
(* and streams the subpackets of a file in between.  One action is the     *)
(* outcome of a read and what the code sends before the next one, or one   *)
(* subpacket of the stream.  Every outcome but the awaited header ends the *)
(* session: nothing is ever sent twice.                                    *)
(***************************************************************************)
EXTENDS ZmodemLine

VARIABLES
    txPhase,    \* "init", "pos", "send", "end" (of a file), "fin"
    txStatus,   \* "OFF", "RUN", then the value zmodem_transmit returns
    txFile,     \* file_idx + 1
    txBlock     \* blocks of the file sent: file_offset

txVars == <<txPhase, txStatus, txFile, txBlock>>

TxTypeOK ==
    /\ txPhase \in {"init", "pos", "send", "end", "fin"}
    /\ txStatus \in Status
    /\ txFile \in 1 .. NFiles + 1
    /\ txBlock \in Nat

TxInit ==
    /\ txPhase = "init"
    /\ txStatus = "OFF"
    /\ txFile = 1
    /\ txBlock = 0

-----------------------------------------------------------------------------

TxAt(phase) == txStatus = "RUN" /\ txPhase = phase

TxReads(phase, types) ==
    /\ TxAt(phase)
    /\ toTx # <<>> /\ Head(toTx).type \in types
    /\ toTx' = Tail(toTx)

TxReturn(st) ==
    /\ txStatus' = st
    /\ UNCHANGED <<txPhase, txFile, txBlock>>

TxStart ==
    /\ txStatus = "OFF"
    /\ txStatus' = "RUN"
    /\ toRx' = Send(toRx, RxHeader("rqinit"))
    /\ toTx' \in Waiting(toTx)
    /\ UNCHANGED <<txPhase, txFile, txBlock>>

\* The next file is announced, or the end of the session.
Announce(f) ==
    /\ txFile' = f
    /\ txBlock' = 0
    /\ UNCHANGED txStatus
    /\ \/ /\ f <= NFiles
          /\ txPhase' = "pos"
          /\ toRx' = Send(Send(toRx, RxHeader("file")), Subpacket(<<f, 0>>, TRUE))
       \/ /\ f > NFiles
          /\ txPhase' = "fin"
          /\ toRx' = Send(toRx, RxHeader("fin"))

TxReady == TxReads("init", {"rinit"}) /\ Announce(txFile)

\* Seeded fault: off by one block.
TxPositionBefore ==
    /\ TxReads("pos", {"rpos"})
    /\ txBlock' = Head(toTx).pos - 1
    /\ toRx' = Send(toRx, RxHeader("data"))
    /\ txPhase' = "send"
    /\ UNCHANGED <<txStatus, txFile>>

\* The position is the receiver's; ZDATA repeats it.
TxPosition ==
    /\ TxReads("pos", {"rpos"})
    /\ txBlock' = Head(toTx).pos
    /\ toRx' = Send(toRx, RxHeader("data"))
    /\ txPhase' = "send"
    /\ UNCHANGED <<txStatus, txFile>>

\* Seeded fault: the offset given to read_data is stale.
TxDataFromStart ==
    /\ TxAt("send")
    /\ txBlock < Files[txFile]
    /\ \E load \in ReadOutcomes(<<txFile, 1>>) :
          toRx' = Send(toRx, Subpacket(load, txBlock + 1 >= Files[txFile]))
    /\ txBlock' = txBlock + 1
    /\ UNCHANGED <<toTx, txPhase, txStatus, txFile>>

\* The result of read_data is not looked at.
TxData ==
    /\ TxAt("send")
    /\ txBlock < Files[txFile]
    /\ \E load \in ReadOutcomes(<<txFile, txBlock + 1>>) :
          toRx' = Send(toRx, Subpacket(load, txBlock + 1 >= Files[txFile]))
    /\ txBlock' = txBlock + 1
    /\ UNCHANGED <<toTx, txPhase, txStatus, txFile>>

TxEof ==
    /\ TxAt("send")
    /\ txBlock >= Files[txFile]
    /\ toRx' = Send(toRx, RxHeader("eof"))
    /\ txPhase' = "end"
    /\ UNCHANGED <<toTx, txStatus, txFile, txBlock>>

TxFileDone == TxReads("end", {"rinit"}) /\ Announce(txFile + 1)

\* The header awaited in each place
Awaited == [p \in {"init", "pos", "end"} |-> IF p = "pos" THEN "rpos" ELSE "rinit"]

\* read_header skips bytes that are no header.
TxSkip ==
    /\ \E p \in {"init", "pos", "end", "fin"} : TxReads(p, {"junk"})
    /\ UNCHANGED <<toRx, txVars>>

TxFails(silent) ==
    /\ \E p \in DOMAIN Awaited :
          \/ TxReads(p, (ToTxHeaders \cup {"bad", "brk"}) \ {Awaited[p]})
          \/ TxAt(p) /\ silent /\ UNCHANGED toTx
    /\ TxReturn("TIMEOUT")
    /\ UNCHANGED toRx

\* Whatever follows ZFIN, the session ends well; "OO" means nothing to the
\* receiver, which has returned.
TxFin(silent) ==
    /\ \/ TxReads("fin", ToTxHeaders \cup {"bad", "brk"})
       \/ TxAt("fin") /\ silent /\ UNCHANGED toTx
    /\ TxReturn("OK")
    /\ UNCHANGED toRx

TxStep(silent) ==
    /\ \/ TxStart \/ TxReady \/ TxPosition \/ TxData \/ TxEof \/ TxFileDone
       \/ TxSkip \/ TxFails(silent) \/ TxFin(silent)
    /\ UNCHANGED <<faults, aborts>>

=============================================================================
