------------------------------- MODULE Zmodem -------------------------------
(***************************************************************************)
(* One ZMODEM session: a receiver and a transmitter of this library at the *)
(* two ends of a line, started in either order.                            *)
(***************************************************************************)
EXTENDS ZmodemReceive, ZmodemTransmit

VARIABLES
    hurt,     \* history: something failed, was lost, damaged or late
    kept      \* history: the header sent before an end was started was kept for it

vars == <<lineVars, rxVars, txVars, hurt, kept>>

rxDone == rxStatus \notin {"OFF", "RUN"}
txDone == txStatus \notin {"OFF", "RUN"}

Init ==
    /\ RxInit
    /\ TxInit
    /\ toRx = <<>>
    /\ toTx = <<>>
    /\ faults = 0
    /\ aborts = 0
    /\ hurt = FALSE
    /\ kept = FALSE

\* Nothing is on its way to the end that reads, nor will be; the transmitter
\* is not in the middle of its stream.
RxQuiet == toRx = <<>> /\ (toTx = <<>> \/ txDone) /\ txPhase # "send"
TxQuiet == toTx = <<>> /\ (toRx = <<>> \/ rxDone)

\* An end gave up too early.
Untimely(status, in, quiet) == status = "RUN" /\ in' = in /\ ~ quiet

\* An end was started with a header waiting for it.
Keeps(status, in) == status = "OFF" /\ in' # <<>>

\* A file was not opened, or a block not stored.
NotStored ==
    \/ Len(rxFiles') > Len(rxFiles) /\ ~ rxFiles'[Len(rxFiles')].open
    \/ rxStatus' = "RUN" /\ rxPhase = "data" /\ rxFiles' = rxFiles

Rx ==
    /\ RxStep(Timely => RxQuiet)
    /\ hurt' = (hurt \/ Untimely(rxStatus, toRx, RxQuiet) \/ NotStored)
    /\ kept' = (kept \/ Keeps(rxStatus, toRx))
    /\ UNCHANGED txVars

\* A block is sent that could not be read.
NotRead ==
    /\ txPhase = "send" /\ toRx' # toRx
    /\ toRx'[Len(toRx')].type = "sub" /\ toRx'[Len(toRx')].load = Padding

Tx ==
    /\ TxStep(Timely => TxQuiet)
    /\ hurt' = \/ hurt \/ NotRead
               \/ Untimely(txStatus, toTx, TxQuiet \/ txPhase = "send")
    /\ kept' = (kept \/ Keeps(txStatus, toTx))
    /\ UNCHANGED rxVars

\* The keys of an end that has not started yet go elsewhere.
Line ==
    /\ "OFF" \notin {rxStatus, txStatus}
    /\ ZmodemLineNext
    /\ hurt' = TRUE
    /\ UNCHANGED <<rxVars, txVars, kept>>

\* Both calls have returned.
Returned == rxDone /\ txDone /\ UNCHANGED vars

Next == Rx \/ Tx \/ Line \/ Returned

Spec == Init /\ [][Next]_vars

\* Both ends are started, and every read returns.
FairSpec == Spec /\ WF_vars(Rx) /\ WF_vars(Tx)

-----------------------------------------------------------------------------

\* Types of the line, the receiver and the transmitter.
TypeOK == LineTypeOK /\ RxTypeOK /\ TxTypeOK

\* Whatever is lost, the files arrive in the order of the batch, none skipped
\* or started twice, and the blocks stored in a file are blocks of this file,
\* in order and none twice, although no offset is ever checked; where a block
\* could not be read, the padding sent in its place is stored.
StoredInOrder ==
    \A i \in 1 .. Len(rxFiles) :
       LET data == rxFiles[i].data
       IN  /\ rxFiles[i].name = i
           /\ \A k \in 1 .. Len(data) : data[k] = Padding \/ data[k][1] = i
           /\ \A j, k \in 1 .. Len(data) :
                 j < k /\ Padding \notin {data[j], data[k]} => data[j][2] < data[k][2]

\* The transmitter announces file n only when the receiver has reported the
\* end of the n - 1 files before it, each with ZMODEM_OK; and an end returns
\* ZMODEM_OK only when the receiver has reported all files of the batch so.
EarlierFilesEnded ==
    /\ txStatus = "RUN" =>
          \A f \in 1 .. txFile - 1 : f <= Len(rxFiles) /\ rxFiles[f].end = "OK"
    /\ "OK" \in {rxStatus, txStatus} =>
          /\ Len(rxFiles) = NFiles
          /\ \A f \in 1 .. NFiles : rxFiles[f].end = "OK"

\* What the history hurt names harms every file.
Batch ==
    INSTANCE BatchDelivery WITH
        Sizes <- Files, Failures <- Status \ {"OFF", "RUN", "OK"},
        files <- rxFiles,
        rx <- IF rxStatus = "OFF" THEN "RUN" ELSE rxStatus,
        tx <- IF txStatus = "OFF" THEN "RUN" ELSE txStatus,
        harmed <- IF hurt THEN 1 .. NFiles ELSE {},
        line <- {toRx[i].load : i \in DOMAIN toRx}

\* On a line with room for a file a session implements the abstract delivery
\* of a batch: the files in order, each ended before the next starts, complete
\* where nothing was hurt, and ended with the result the session fails with.
ImplementsBatch == Batch!Spec

\* The whole batch was delivered, and both ends say so.
WholeBatch ==
    /\ rxStatus = "OK" /\ txStatus = "OK"
    /\ Len(rxFiles) = NFiles
    /\ \A f \in 1 .. NFiles : Complete(rxFiles[f]) /\ rxFiles[f].end = "OK"

\* The transmitter took a second ZRINIT for the answer to its first ZFILE and
\* gave up; the receiver has an empty file, which it ends when it hears no more.
TakenForAnswer ==
    /\ txStatus = "TIMEOUT" /\ txPhase = "pos" /\ txFile = 1
    /\ rxStatus = "TIMEOUT"
    /\ Len(rxFiles) = 1 /\ rxFiles[1].data = <<>> /\ rxFiles[1].end = "TIMEOUT"

\* Both functions return whatever happens.  Where no read or callback fails,
\* nothing is lost and nobody gives up too early, one of two things has happened
\* by then: the header sent before the other end was started was thrown away,
\* and the batch is delivered; or it was kept, the receiver sent ZRINIT both at
\* its start and for ZRQINIT, and not even the first file is transferred.
Delivered ==
    <>(rxDone /\ txDone
       /\ (~ hurt => IF kept /\ NFiles > 0 THEN TakenForAnswer ELSE WholeBatch))

=============================================================================
