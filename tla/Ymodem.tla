------------------------------- MODULE Ymodem -------------------------------
(***************************************************************************)
(* One YMODEM batch: a receiver and a transmitter of this library at the   *)
(* two ends of a line.                                                     *)
(***************************************************************************)
EXTENDS YmodemReceive, YmodemTransmit

VARIABLE spoilt    \* history: files that a callback or a damaged number harmed

vars == <<lineVars, rxVars, txVars, spoilt>>

rxDone == rxStatus # "RUN"
txDone == txStatus # "RUN"

\* ymodem_receive has sent its first 'C' when the batch begins.
Init ==
    /\ RxInit
    /\ TxInit
    /\ toRx = <<>>
    /\ toTx = <<TxByte("c")>>
    /\ faults = 0
    /\ aborts = 0
    /\ spoilt = {}

\* A block was accepted that was not stored.
NotStored == rxBlocks' > rxBlocks /\ rxFiles' = rxFiles

Rx ==
    /\ RxStep(txDone)
    /\ spoilt' = IF NotStored THEN spoilt \cup {Len(rxFiles)} ELSE spoilt
    /\ UNCHANGED txVars

\* A block is sent that could not be read.
NotRead == txBlock'.idx > 0 /\ txBlock'.load = Padding

Tx ==
    /\ TxStep(rxDone)
    /\ spoilt' = IF NotRead THEN spoilt \cup {txFile} ELSE spoilt
    /\ UNCHANGED rxVars

Line ==
    /\ \/ YmodemLineNext /\ UNCHANGED spoilt
       \/ RenumberToRx /\ spoilt' = 1 .. NFiles
    /\ UNCHANGED <<rxVars, txVars>>

\* Both calls have returned.
Returned == rxDone /\ txDone /\ UNCHANGED vars

Next == Rx \/ Tx \/ Line \/ Returned

Spec == Init /\ [][Next]_vars

\* Every read_byte returns, so each end keeps making steps.
FairSpec == Spec /\ WF_vars(Rx) /\ WF_vars(Tx)

-----------------------------------------------------------------------------

\* Types of the line, the receiver and the transmitter.
TypeOK == LineTypeOK /\ RxTypeOK /\ TxTypeOK /\ spoilt \subseteq 1 .. NFiles

\* Every file holds its own blocks in order, none of another file, none past
\* its announced size, although numbers wrap and restart with each file, unless
\* one of its own blocks was not read or stored, or a number was damaged; two
\* blocks are confused only after BlockMod - 1 duplicate ACKs.
FilesIntact ==
    dups < BlockMod - 1 =>
       \A i \in DOMAIN rxFiles : i \notin spoilt => Intact(rxFiles[i])

\* The receiver follows the batch: files arrive in its order, none skipped or
\* started twice; YMODEM_OK at the receiver means that every file was started
\* and ended with YMODEM_OK, at the transmitter that the receiver returned it.
BatchFollowed ==
    /\ \A i \in 1 .. Len(rxFiles) : rxFiles[i].name = i
    /\ rxStatus = "OK" => /\ Len(rxFiles) = NFiles
                          /\ \A i \in 1 .. NFiles : rxFiles[i].end = "OK"
    /\ txStatus = "OK" => rxStatus = "OK"

\* Where timeouts exceed every delay, a file ended with YMODEM_OK was stored
\* completely, unless it is one of those: neither callback's result is looked
\* at, and the harm stays within the file.
OkFileComplete ==
    \A i \in DOMAIN rxFiles :
       rxFiles[i].end = "OK" /\ i \notin spoilt => Complete(rxFiles[i])

\* The harm a file comes to stays within it; the abort key harms them all.
Batch ==
    INSTANCE BatchDelivery WITH
        Sizes <- Files, Failures <- Status \ {"RUN", "OK"},
        files <- rxFiles, rx <- rxStatus, tx <- txStatus,
        harmed <- IF aborts = 0 THEN spoilt ELSE 1 .. NFiles,
        line <- {toRx[i].load : i \in DOMAIN toRx}

\* Where timeouts exceed every delay a batch implements the abstract delivery
\* of a batch: a file that ends with YMODEM_OK was stored completely, unless
\* one of its blocks was not read or stored (neither callback's result is
\* looked at), a number was damaged or the abort key was pressed.
ImplementsBatch == Batch!Spec

\* Both functions return.
Termination == <>(rxDone /\ txDone)

=============================================================================
