------------------------------- MODULE Xmodem -------------------------------
(***************************************************************************)
(* One XMODEM transfer: a receiver and a transmitter of this library at    *)
(* the two ends of a line.                                                 *)
(***************************************************************************)
EXTENDS XmodemReceive, XmodemTransmit

vars == <<lineVars, rxVars, txVars>>

rxDone == rxStatus # "RUN"
txDone == txStatus # "RUN"

\* xmodem_receive has sent its first request when the transfer begins.
Init ==
    /\ RxInit
    /\ TxInit
    /\ toRx = <<>>
    /\ toTx = <<Request(RxMode # "STANDARD")>>
    /\ faults = 0
    /\ aborts = 0

Rx == RxStep(txDone) /\ UNCHANGED txVars
Tx == TxStep(rxDone) /\ UNCHANGED rxVars
Line == XmodemLineNext /\ UNCHANGED <<rxVars, txVars>>

\* Both calls have returned.
Returned == rxDone /\ txDone /\ UNCHANGED vars

Next == Rx \/ Tx \/ Line \/ Returned

Spec == Init /\ [][Next]_vars

\* Every read_byte returns (a byte, a timeout or the abort key), so each end
\* keeps making steps until its function returns.
FairSpec == Spec /\ WF_vars(Rx) /\ WF_vars(Tx)

-----------------------------------------------------------------------------

\* Types of the line, the receiver and the transmitter.
TypeOK == LineTypeOK /\ RxTypeOK /\ TxTypeOK

\* What the receiver hands to data_cb is the file's blocks in order, none
\* missing, repeated or swapped, although block numbers wrap: two blocks with
\* the same number are confused only after BlockMod - 1 duplicate ACKs.
InOrder ==
    dups < BlockMod - 1 => \A i \in 1 .. Len(rxFile) : rxFile[i] = i

\* The transmitter believes every block delivered once it sends EOT; the
\* blocks the receiver lacks by then are at most the duplicate ACKs it sent.
LossBounded ==
    (KnownLength /\ txPhase = "eot") => NBlocks <= Len(rxFile) + dups

\* xmodem_receive returns XMODEM_OK only when the transmitter had every
\* block acknowledged and went on to EOT.
OkAfterLastBlock == rxStatus = "OK" => txPhase = "eot"

\* Once a block is stored, both ends use the same check (CRC or checksum)
\* although the receiver may fall back while the transmitter starts.
SameCheck == rxFile # <<>> => rxCrc = txCrc

Complete == rxFile = [i \in 1 .. NBlocks |-> i]

\* XMODEM_OK at both ends means that the file was delivered in full.
BothOkComplete == (rxStatus = "OK" /\ txStatus = "OK") => Complete

\* The packets in q are in the order of their blocks, none older than the last
\* stored block, none newer than the one being sent; EOT follows the data.
PacketsInOrder(q) ==
    /\ \A i \in 1 .. Len(q) :
          /\ q[i].type = "blk" => /\ Len(rxFile) <= q[i].idx
                                  /\ q[i].idx <= txBlock
                                  /\ q[i].chk = Chk(txCrc)
                                  /\ txPhase # "start"
          /\ q[i].type = "eot" => txPhase = "eot"
    /\ \A i, j \in 1 .. Len(q) :
          (i < j /\ q[i].type = "blk" /\ q[j].type = "blk")
             => q[i].idx <= q[j].idx

\* Until EOT is sent, no ACK in q is older than the block it would confirm.
AcksInOrder(q) ==
    txPhase # "eot" =>
       /\ \A i \in 1 .. Len(q) :
             q[i].type = "ack" => /\ txBlock <= q[i].sn
                                  /\ q[i].sn <= Len(rxFile) + dups
       /\ \A i, j \in 1 .. Len(q) :
             (i < j /\ q[i].type = "ack" /\ q[j].type = "ack")
                => q[i].sn < q[j].sn

\* The transmitter is ahead of the receiver by the duplicate ACKs at most.
AheadByDups ==
    /\ txBlock <= Len(rxFile) + dups + 1
    /\ txPhase = "start" => txBlock = 1 /\ rxFile = <<>>
    /\ txPhase = "eot" => ~ MoreData(txBlock)

\* The receiver never holds more than the transmitter has sent.
RxBehind == Len(rxFile) <= txBlock

\* The inductive invariant behind InOrder, LossBounded, OkAfterLastBlock and
\* SameCheck: what is in flight agrees with what both ends remember.
IInv ==
    /\ TypeOK
    /\ PacketsInOrder(toRx)
    /\ AcksInOrder(toTx)
    /\ AheadByDups
    /\ RxBehind
    /\ OkAfterLastBlock
    /\ SameCheck
    /\ InOrder

Delivery ==
    INSTANCE FileDelivery WITH
        N <- NBlocks, Failures <- Status \ {"RUN", "OK"},
        stored <- rxFile, rx <- rxStatus, tx <- txStatus

\* Under timeouts that exceed every delay a transfer implements the abstract
\* delivery of a file: blocks in order, success only for the whole file and
\* at the receiver first, and both functions return.
ImplementsDelivery == Delivery!FairSpec

=============================================================================
