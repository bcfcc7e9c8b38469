--------------------------- MODULE XmodemReceive ---------------------------
(***************************************************************************)
(* xmodem_receive().  One action is one pass of the receive loop: the      *)
(* outcome of reading a header (and the packet behind it) and everything   *)
(* the code does until it reads the next header.  total_bytes is counted   *)
(* in blocks: it is Len(rxFile).  expected_block starts at 1 and is        *)
(* incremented only where a block is stored: it is Expected.               *)
(***************************************************************************)
EXTENDS XmodemLine

VARIABLES
    rxStatus,   \* "RUN", then the value xmodem_receive returns
    rxFile,     \* payloads handed to data_cb, in order
    rxRetries,  \* retries
    rxCrc,      \* crc_mode
    dups        \* history: ACKs sent for packets that were not stored

rxVars == <<rxStatus, rxFile, rxRetries, rxCrc, dups>>

RxTypeOK ==
    /\ rxStatus \in Status
    /\ rxFile \in Seq(Nat)
    /\ rxRetries \in 0 .. RetryMod - 1
    /\ rxCrc \in BOOLEAN
    /\ dups \in Nat

Expected == BlockNum(Len(rxFile) + 1)

RxChk == IF rxCrc THEN "crc" ELSE "sum"

\* req, as long as no block has been stored
Request(crc) == TxByte(IF crc THEN "c" ELSE "nak")

RxInit ==
    /\ rxStatus = "RUN"
    /\ rxFile = <<>>
    /\ rxRetries = 0
    /\ rxCrc = (RxMode # "STANDARD")
    /\ dups = 0

-----------------------------------------------------------------------------

\* return st, having left q on the line
RxReturn(st, q) ==
    /\ rxStatus' = st
    /\ toTx' = q
    /\ UNCHANGED <<rxFile, rxRetries, rxCrc, dups, faults, aborts>>

RxHas(types) == rxStatus = "RUN" /\ toRx # <<>> /\ Head(toRx).type \in types

\* Seeded fault: the fallback also in mid-file.
FallBackAnyTime(retries) ==
    retries > MaxRetries \div 2 /\ RxMode # "CRC"

\* The fallback from CRC to checksum, before the first block is stored.
FallBack(retries) ==
    /\ Len(rxFile) = 0
    /\ retries > MaxRetries \div 2
    /\ RxMode # "CRC"

RxTimeout(txDone) ==
    /\ rxStatus = "RUN"
    /\ MayTimeOut(toRx, toTx, txDone)
    /\ UNCHANGED toRx
    /\ \/ /\ NextRetry(rxRetries) > MaxRetries
          /\ RxReturn("TIMEOUT", SendTwice(toTx, TxByte("can")))
       \/ /\ NextRetry(rxRetries) <= MaxRetries
          /\ rxRetries' = NextRetry(rxRetries)
          /\ rxCrc' = (rxCrc /\ ~ FallBack(rxRetries'))
          /\ toTx' = Send(toTx, IF Len(rxFile) = 0 THEN Request(rxCrc')
                                                   ELSE TxByte("nak"))
          /\ UNCHANGED <<rxStatus, rxFile, dups, faults, aborts>>

RxAbortKey ==
    /\ RxHas({"brk"})
    /\ toRx' = Tail(toRx)
    /\ RxReturn("CANCEL", SendTwice(toTx, TxByte("can")))

\* Seeded fault: any unknown header ends the file.
RxEotOrJunk ==
    /\ RxHas({"eot", "junk"})
    /\ toRx' = Tail(toRx)
    /\ RxReturn("OK", Send(toTx, Ack(0)))

RxEot ==
    /\ RxHas({"eot"})
    /\ toRx' = Tail(toRx)
    /\ RxReturn("OK", Send(toTx, Ack(0)))

\* The second byte is read, but every outcome of that read is a cancel.
RxCan ==
    /\ RxHas({"can"})
    /\ toRx' = IF Len(toRx) > 1 /\ toRx[2].type = "can"
                 THEN Tail(Tail(toRx)) ELSE Tail(toRx)
    /\ RxReturn("CANCEL", toTx)

RxJunk ==
    /\ RxHas({"junk"})
    /\ toRx' \in Purged(Tail(toRx))
    /\ \/ /\ NextRetry(rxRetries) > MaxRetries
          /\ RxReturn("ERROR", Send(toTx, TxByte("can")))
       \/ /\ NextRetry(rxRetries) <= MaxRetries
          /\ rxRetries' = NextRetry(rxRetries)
          /\ toTx' = Send(toTx, TxByte("nak"))
          /\ UNCHANGED <<rxStatus, rxFile, rxCrc, dups, faults, aborts>>

\* A packet that fails a check is refused; the retry is counted, but unlike
\* in RxTimeout and RxJunk the count is not compared with max_retries.  A check
\* finds every error here; a checksum of one byte misses one in 256.
Rejected(p) == p.type = "bad" \/ p.chk # RxChk

RxReject ==
    /\ RxHas({"blk", "bad"}) /\ Rejected(Head(toRx))
    /\ toRx' \in Purged(Tail(toRx))
    /\ rxRetries' = NextRetry(rxRetries)
    /\ toTx' = Send(toTx, TxByte("nak"))
    /\ UNCHANGED <<rxStatus, rxFile, rxCrc, dups, faults, aborts>>

RxValid == RxHas({"blk"}) /\ ~ Rejected(Head(toRx)) /\ toRx' = Tail(toRx)

IsDuplicate(p) == BlockNum(p.idx) = BlockNum(Len(rxFile))

\* Seeded fault: whatever is not a duplicate is stored.
NotDuplicate(p) == ~ IsDuplicate(p)

IsExpected(p) == BlockNum(p.idx) = Expected

RxAccept ==
    /\ RxValid
    /\ IsExpected(Head(toRx))
    /\ rxFile' = Append(rxFile, Head(toRx).idx)
    /\ rxRetries' = 0
    /\ toTx' = Send(toTx, Ack(Len(rxFile) + 1 + dups))
    /\ UNCHANGED <<rxStatus, rxCrc, dups, faults, aborts>>

RxStoreFails ==
    /\ DataFails
    /\ RxValid
    /\ IsExpected(Head(toRx))
    /\ RxReturn("IO", SendTwice(toTx, TxByte("can")))

RxDuplicate ==
    /\ RxValid
    /\ IsDuplicate(Head(toRx))
    /\ dups' = dups + 1
    /\ toTx' = Send(toTx, Ack(Len(rxFile) + dups + 1))
    /\ UNCHANGED <<rxStatus, rxFile, rxRetries, rxCrc, faults, aborts>>

RxSequence ==
    /\ RxValid
    /\ ~ IsExpected(Head(toRx))
    /\ ~ IsDuplicate(Head(toRx))
    /\ RxReturn("SEQUENCE", SendTwice(toTx, TxByte("can")))

RxStep(txDone) ==
    \/ RxTimeout(txDone) \/ RxAbortKey \/ RxEot \/ RxCan \/ RxJunk
    \/ RxReject \/ RxAccept \/ RxStoreFails \/ RxDuplicate \/ RxSequence

=============================================================================
