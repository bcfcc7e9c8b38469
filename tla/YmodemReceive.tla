--------------------------- MODULE YmodemReceive ---------------------------
(***************************************************************************)
(* ymodem_receive().  The receiver reads in three places: waiting for a    *)
(* block 0, for the packets of a file, for the answer to its NAK of an     *)
(* EOT.  One action is the outcome of such a read and everything the code  *)
(* does until the next one.                                                *)
(***************************************************************************)
EXTENDS YmodemLine

VARIABLES
    rxPhase,    \* where the code reads: "header", "data", "eot"
    rxStatus,   \* "RUN", then the value ymodem_receive returns
    rxFiles,    \* the files started: name, stored payloads, reported end
    rxBlocks,   \* blocks accepted of the current file (expected_blk - 1)
    rxRetries,  \* retries
    dups        \* history: ACKs sent for packets that were not accepted

rxVars == <<rxPhase, rxStatus, rxFiles, rxBlocks, rxRetries, dups>>

RxTypeOK ==
    /\ rxPhase \in {"header", "data", "eot"}
    /\ rxStatus \in Status
    /\ rxFiles \in Seq(FileRecord)
    /\ rxBlocks \in Nat
    /\ rxRetries \in 0 .. MaxRetries
    /\ dups \in Nat

RxInit ==
    /\ rxPhase = "header"
    /\ rxStatus = "RUN"
    /\ rxFiles = <<>>
    /\ rxBlocks = 0
    /\ rxRetries = 0
    /\ dups = 0

-----------------------------------------------------------------------------

RxAt(phase) == rxStatus = "RUN" /\ rxPhase = phase

RxReads(phase, types) ==
    /\ RxAt(phase)
    /\ toRx # <<>> /\ Head(toRx).type \in types

RxQuiet(phase, txDone) ==
    /\ RxAt(phase)
    /\ MayTimeOut(toRx, toTx, txDone)
    /\ UNCHANGED toRx

\* return st, having left q on the line
RxReturn(st, q) ==
    /\ rxStatus' = st
    /\ toTx' = q
    /\ UNCHANGED <<rxPhase, rxBlocks, rxRetries, dups, faults, aborts>>

\* on_file_end of the current file
FileEnd(st) == rxFiles' = Ended(rxFiles, st)

\* Another attempt at block 0: 'C' is sent even when no attempt is left.
HeaderRetry ==
    /\ UNCHANGED rxFiles
    /\ \/ /\ rxRetries + 1 < MaxRetries
          /\ rxRetries' = rxRetries + 1
          /\ toTx' = Send(toTx, TxByte("c"))
          /\ UNCHANGED <<rxPhase, rxStatus, rxBlocks, dups, faults, aborts>>
       \/ /\ rxRetries + 1 >= MaxRetries
          /\ RxReturn("TIMEOUT", Send(Send(toTx, TxByte("c")), TxByte("can")))

HeaderTimeout(txDone) == RxQuiet("header", txDone) /\ HeaderRetry

IsBlock0(p) == p.type = "blk" /\ p.num = 0

HeaderRefuse ==
    /\ RxReads("header", {"blk", "bad", "junk", "eot"})
    /\ ~ IsBlock0(Head(toRx))
    /\ toRx' \in Purged(Tail(toRx))
    /\ HeaderRetry

HeaderCancel ==
    /\ RxReads("header", {"can", "brk"})
    /\ toRx' = Tail(toRx)
    /\ UNCHANGED rxFiles
    /\ RxReturn("CANCEL", IF Head(toRx).type = "can" THEN toTx
                          ELSE SendTwice(toTx, TxByte("can")))

\* parse_block0: the name in a payload; data parses to some other name.
NameIn(load) == IF load[2] = 0 THEN load[1] ELSE NFiles + 2

BatchEnd ==
    /\ RxReads("header", {"blk"}) /\ IsBlock0(Head(toRx))
    /\ NameIn(Head(toRx).load) = NFiles + 1
    /\ toRx' = Tail(toRx)
    /\ UNCHANGED rxFiles
    /\ RxReturn("OK", Send(toTx, TxByte("ack")))

\* The result of on_file_start is not looked at.
FileStart ==
    /\ RxReads("header", {"blk"}) /\ IsBlock0(Head(toRx))
    /\ NameIn(Head(toRx).load) # NFiles + 1
    /\ toRx' = Tail(toRx)
    /\ toTx' = Send(Send(toTx, TxByte("ack")), TxByte("c"))
    /\ rxFiles' \in Started(rxFiles, NameIn(Head(toRx).load))
    /\ rxPhase' = "data"
    /\ rxBlocks' = 0
    /\ UNCHANGED <<rxStatus, rxRetries, dups, faults, aborts>>

-----------------------------------------------------------------------------

\* Seeded fault: the bound is tested off by one.
DataTimeoutLate(txDone) ==
    /\ RxQuiet("data", txDone)
    /\ \/ /\ rxRetries <= MaxRetries
          /\ rxRetries' = rxRetries + 1
          /\ toTx' = Send(toTx, TxByte("nak"))
          /\ UNCHANGED <<rxPhase, rxStatus, rxFiles, rxBlocks, dups, faults, aborts>>
       \/ /\ rxRetries > MaxRetries
          /\ FileEnd("TIMEOUT")
          /\ RxReturn("TIMEOUT", Send(toTx, TxByte("can")))

\* retries still holds what the wait for block 0 used up.
DataTimeout(txDone) ==
    /\ RxQuiet("data", txDone)
    /\ \/ /\ rxRetries < MaxRetries
          /\ rxRetries' = rxRetries + 1
          /\ toTx' = Send(toTx, TxByte("nak"))
          /\ UNCHANGED <<rxPhase, rxStatus, rxFiles, rxBlocks, dups, faults, aborts>>
       \/ /\ rxRetries >= MaxRetries
          /\ FileEnd("TIMEOUT")
          /\ RxReturn("TIMEOUT", Send(toTx, TxByte("can")))

DataCancel ==
    /\ RxReads("data", {"can", "brk"})
    /\ toRx' = Tail(toRx)
    /\ FileEnd("CANCEL")
    /\ RxReturn("CANCEL", IF Head(toRx).type = "can" THEN toTx
                          ELSE SendTwice(toTx, TxByte("can")))

\* A refused packet costs no retry.
DataRefuse ==
    /\ RxReads("data", {"bad", "junk"})
    /\ toRx' \in Purged(Tail(toRx))
    /\ toTx' = Send(toTx, TxByte("nak"))
    /\ UNCHANGED <<rxVars, faults, aborts>>

\* Seeded fault: the number is not compared.
DataAcceptAny ==
    /\ RxReads("data", {"blk"})
    /\ toRx' = Tail(toRx)
    /\ toTx' = Send(toTx, TxByte("ack"))
    /\ rxFiles' \in Stored(rxFiles, Head(toRx).load)
    /\ rxBlocks' = rxBlocks + 1
    /\ rxRetries' = 0
    /\ UNCHANGED <<rxPhase, rxStatus, dups, faults, aborts>>

\* The result of on_data is not looked at.
DataAccept ==
    /\ RxReads("data", {"blk"})
    /\ Head(toRx).num = BlockNum(rxBlocks + 1)
    /\ toRx' = Tail(toRx)
    /\ toTx' = Send(toTx, TxByte("ack"))
    /\ rxFiles' \in Stored(rxFiles, Head(toRx).load)
    /\ rxBlocks' = rxBlocks + 1
    /\ rxRetries' = 0
    /\ UNCHANGED <<rxPhase, rxStatus, dups, faults, aborts>>

DataDuplicate ==
    /\ RxReads("data", {"blk"})
    /\ Head(toRx).num = BlockNum(rxBlocks)
    /\ toRx' = Tail(toRx)
    /\ toTx' = Send(toTx, TxByte("ack"))
    /\ dups' = dups + 1
    /\ UNCHANGED <<rxPhase, rxStatus, rxFiles, rxBlocks, rxRetries, faults, aborts>>

DataSequence ==
    /\ RxReads("data", {"blk"})
    /\ Head(toRx).num \notin {BlockNum(rxBlocks), BlockNum(rxBlocks + 1)}
    /\ toRx' = Tail(toRx)
    /\ FileEnd("SEQUENCE")
    /\ RxReturn("SEQUENCE", Send(toTx, TxByte("can")))

DataEot ==
    /\ RxReads("data", {"eot"})
    /\ toRx' = Tail(toRx)
    /\ toTx' = Send(toTx, TxByte("nak"))
    /\ rxPhase' = "eot"
    /\ UNCHANGED <<rxStatus, rxFiles, rxBlocks, rxRetries, dups, faults, aborts>>

\* The first byte of an item is taken off the line; what follows the first
\* byte of a packet stays there.
WithoutFirstByte(q) ==
    IF Head(q).type \in {"blk", "bad"} THEN <<RxByte("junk")>> \o Tail(q)
                                       ELSE Tail(q)

\* Whatever the second read gives, the file ends well and the code asks for
\* the next block 0.
SecondEot(txDone) ==
    /\ \/ RxQuiet("eot", txDone)
       \/ RxAt("eot") /\ toRx # <<>> /\ toRx' = WithoutFirstByte(toRx)
    /\ FileEnd("OK")
    /\ toTx' = Send(Send(toTx, TxByte("ack")), TxByte("c"))
    /\ rxPhase' = "header"
    /\ rxRetries' = 0
    /\ UNCHANGED <<rxStatus, rxBlocks, dups, faults, aborts>>

RxStep(txDone) ==
    \/ HeaderTimeout(txDone) \/ HeaderRefuse \/ HeaderCancel \/ BatchEnd
    \/ FileStart \/ DataTimeout(txDone) \/ DataCancel \/ DataRefuse
    \/ DataAccept \/ DataDuplicate \/ DataSequence \/ DataEot
    \/ SecondEot(txDone)

=============================================================================
