------------------------- MODULE ZmodemReceiveProofs -------------------------
(***************************************************************************)
(* The receiver keeps to its callback protocol against every sender: any   *)
(* number of headers and subpackets in any order, on a line of any length. *)
(***************************************************************************)
EXTENDS ZmodemAnySender, TLAPS

\* The first n files were reported to the console as ended.
EndedUpTo(n) == \A i \in 1 .. n : rxFiles[i].end # "none"

\* Between on_file_start and on_file_end
InFile == rxStatus = "RUN" /\ rxPhase \in {"file", "data"}

\* The inductive invariant: the last file has not been ended where the code is
\* inside a file, or has left it by ZFIN, and nowhere else.
ReceiverInv ==
    /\ toRx \in Seq(RxItem)
    /\ RxTypeOK
    /\ EndedUpTo(Len(rxFiles) - 1)
    /\ InFile => rxFiles # <<>> /\ rxFiles[Len(rxFiles)].end = "none"
    /\ InFile \/ rxStatus = "OK" \/ EndedUpTo(Len(rxFiles))
    /\ rxStatus = "OFF" => rxPhase = "idle"

\* What a step may do to the files
KeepsEnded ==
    \A i \in 1 .. Len(rxFiles) : rxFiles[i].end # "none" => rxFiles'[i] = rxFiles[i]

-----------------------------------------------------------------------------
(* The helpers *)

LEMMA SendType == ASSUME NEW item \in RxItem, NEW q \in Seq(RxItem)
                  PROVE  Send(q, item) \in Seq(RxItem)
BY DEF Send

LEMMA ItemTypes == AnyItem \subseteq RxItem
<1>1. \A ty \in ToRxHeaders \cup {"bad", "junk", "brk"} : RxHeader(ty) \in RxItem
    BY DEF RxHeader, RxItem, Padding, Payload
<1>2. (1 .. NFiles) \X (0 .. 1) \subseteq Payload
    BY DEF Payload
<1>3. [type : {"sub"}, load : (1 .. NFiles) \X (0 .. 1), last : BOOLEAN] \subseteq RxItem
    BY <1>2 DEF RxItem
<1> QED
    BY <1>1, <1>3 DEF AnyItem

LEMMA HeadType == ASSUME toRx \in Seq(RxItem), toRx # <<>>
                  PROVE  Head(toRx).load \in Payload /\ Tail(toRx) \in Seq(RxItem)
<1>1. Head(toRx) \in RxItem
    OBVIOUS
<1> QED
    BY <1>1 DEF RxItem

\* A read takes the head of the queue, if anything.
LEMMA ReadType == ASSUME toRx \in Seq(RxItem),
                         \/ toRx # <<>> /\ toRx' = Tail(toRx)
                         \/ UNCHANGED toRx
                  PROVE  toRx' \in Seq(RxItem)
OBVIOUS

\* on_file_end leaves every file ended, if only the last was not.
LEMMA EndedFiles ==
    ASSUME rxFiles \in Seq(FileRecord), rxFiles # <<>>,
           NEW st \in {"OK", "TIMEOUT", "IO"},
           EndedUpTo(Len(rxFiles) - 1),
           rxFiles[Len(rxFiles)].end = "none",
           rxFiles' = Ended(rxFiles, st)
    PROVE  /\ rxFiles' \in Seq(FileRecord) /\ Len(rxFiles') = Len(rxFiles)
           /\ EndedUpTo(Len(rxFiles))'
           /\ KeepsEnded
<1> DEFINE n == Len(rxFiles)
<1>1. n \in Nat \ {0} /\ n \in DOMAIN rxFiles /\ DOMAIN rxFiles = 1 .. n
    OBVIOUS
<1>2. rxFiles' = [rxFiles EXCEPT ![n] = [rxFiles[n] EXCEPT !.end = st]]
    BY DEF Ended
<1>3. rxFiles[n] \in FileRecord
    BY <1>1
<1>4. [rxFiles[n] EXCEPT !.end = st] \in FileRecord /\ [rxFiles[n] EXCEPT !.end = st].end = st
    BY <1>3 DEF FileRecord
<1>5. /\ rxFiles' \in Seq(FileRecord) /\ Len(rxFiles') = n
      /\ rxFiles'[n].end = st
      /\ \A i \in 1 .. n - 1 : rxFiles'[i] = rxFiles[i]
    BY <1>1, <1>2, <1>4
<1>6. EndedUpTo(Len(rxFiles))'
    BY <1>1, <1>5 DEF EndedUpTo
<1>7. KeepsEnded
    BY <1>1, <1>5 DEF KeepsEnded
<1> QED
    BY <1>5, <1>6, <1>7

\* on_file_start adds a file, on_data changes the last one only.
LEMMA StartedFiles ==
    ASSUME rxFiles \in Seq(FileRecord), EndedUpTo(Len(rxFiles)),
           NEW name \in Nat, rxFiles' \in Started(rxFiles, name)
    PROVE  /\ rxFiles' \in Seq(FileRecord) /\ rxFiles' # <<>>
           /\ EndedUpTo(Len(rxFiles) - 1)'
           /\ (rxFiles[Len(rxFiles)].end = "none")'
           /\ KeepsEnded
<1> USE BatchAssumption
<1>1. PICK o \in {TRUE, ~ StoreFails} :
         rxFiles' = Append(rxFiles, [name |-> name, data |-> <<>>, open |-> o, end |-> "none"])
    BY DEF Started
<1> DEFINE r == [name |-> name, data |-> <<>>, open |-> o, end |-> "none"]
<1>2. r \in FileRecord /\ r.end = "none"
    <2>1. o \in BOOLEAN
        BY Zenon
    <2>2. <<>> \in Seq(Payload)
        OBVIOUS
    <2> QED
        BY <2>1, <2>2 DEF FileRecord
<1>3. rxFiles' = Append(rxFiles, r)
    BY <1>1, Zenon
<1> HIDE DEF r
<1>4. /\ rxFiles' \in Seq(FileRecord) /\ rxFiles' # <<>>
      /\ Len(rxFiles') = Len(rxFiles) + 1
      /\ rxFiles'[Len(rxFiles) + 1] = r
      /\ \A i \in 1 .. Len(rxFiles) : rxFiles'[i] = rxFiles[i]
    BY <1>2, <1>3
<1>5. EndedUpTo(Len(rxFiles) - 1)'
    BY <1>4 DEF EndedUpTo
<1>6. KeepsEnded
    BY <1>4 DEF KeepsEnded
<1> QED
    BY <1>2, <1>4, <1>5, <1>6

LEMMA StoredFiles ==
    ASSUME rxFiles \in Seq(FileRecord), rxFiles # <<>>,
           EndedUpTo(Len(rxFiles) - 1), rxFiles[Len(rxFiles)].end = "none",
           NEW load \in Payload, rxFiles' \in Stored(rxFiles, load)
    PROVE  /\ rxFiles' \in Seq(FileRecord) /\ rxFiles' # <<>>
           /\ EndedUpTo(Len(rxFiles) - 1)'
           /\ (rxFiles[Len(rxFiles)].end = "none")'
           /\ KeepsEnded
<1> DEFINE n == Len(rxFiles)
           r == [rxFiles[n] EXCEPT !.data = Append(@, load)]
<1>1. n \in Nat \ {0} /\ n \in DOMAIN rxFiles /\ DOMAIN rxFiles = 1 .. n
    OBVIOUS
<1>2. CASE rxFiles' = rxFiles
    BY <1>1, <1>2 DEF EndedUpTo, KeepsEnded
<1>3. CASE rxFiles' = [rxFiles EXCEPT ![n].data = Append(@, load)]
    <2>1. rxFiles[n] \in FileRecord
        BY <1>1
    <2>2. r \in FileRecord /\ r.end = "none"
        <3>1. Append(rxFiles[n].data, load) \in Seq(Payload)
            BY <2>1 DEF FileRecord
        <3> QED
            BY <2>1, <3>1 DEF FileRecord
    <2>3. rxFiles' = [rxFiles EXCEPT ![n] = r]
        BY <1>3, <1>1
    <2> HIDE DEF r
    <2>4. rxFiles' \in Seq(FileRecord) /\ Len(rxFiles') = n
        BY <1>1, <2>2, <2>3
    <2>5. rxFiles'[n] = r /\ \A i \in 1 .. n - 1 : rxFiles'[i] = rxFiles[i]
        <3>1. rxFiles'[n] = r
            BY <1>1, <2>3
        <3>2. \A i \in DOMAIN rxFiles : i # n => rxFiles'[i] = rxFiles[i]
            BY <2>3
        <3> QED
            BY <1>1, <3>1, <3>2
    <2>6. rxFiles' # <<>>
        BY <1>1, <2>4
    <2> QED
        BY <1>1, <2>2, <2>4, <2>5, <2>6 DEF EndedUpTo, KeepsEnded
<1> QED
    BY <1>2, <1>3, Zenon DEF Stored

-----------------------------------------------------------------------------
(* The steps *)

\* A step that leaves the files alone and enters no file
LEMMA SameFiles ==
    ASSUME ReceiverInv, toRx' \in Seq(RxItem), UNCHANGED rxFiles,
           rxPhase' \in {"idle", "name", "file", "data"}, rxStatus' \in Status,
           InFile' => InFile,
           InFile => InFile' \/ rxStatus' = "OK",
           ~ InFile => rxStatus # "OK" \/ rxStatus' = "OK",
           rxStatus' = "OFF" => rxPhase' = "idle"
    PROVE  ReceiverInv' /\ KeepsEnded
<1>1. RxTypeOK'
    BY DEF ReceiverInv, RxTypeOK
<1>2. EndedUpTo(Len(rxFiles) - 1)'
    BY DEF ReceiverInv, EndedUpTo
<1>3. EndedUpTo(Len(rxFiles)) => EndedUpTo(Len(rxFiles))'
    BY DEF EndedUpTo
<1>4. (InFile => rxFiles # <<>> /\ rxFiles[Len(rxFiles)].end = "none")'
    BY DEF ReceiverInv
<1>5. (InFile \/ rxStatus = "OK" \/ EndedUpTo(Len(rxFiles)))'
    BY <1>3 DEF ReceiverInv
<1> QED
    BY <1>1, <1>2, <1>4, <1>5 DEF ReceiverInv, KeepsEnded

\* A step that ends the file the receiver is in and leaves it
LEMMA FileEnds ==
    ASSUME ReceiverInv, InFile, toRx' \in Seq(RxItem),
           NEW st \in {"OK", "TIMEOUT", "IO"}, rxFiles' = Ended(rxFiles, st),
           rxPhase' \in {"idle", "name", "file", "data"}, rxStatus' \in Status,
           ~ InFile', rxStatus' # "OFF"
    PROVE  ReceiverInv' /\ KeepsEnded
<1>1. /\ rxFiles' \in Seq(FileRecord) /\ Len(rxFiles') = Len(rxFiles)
      /\ EndedUpTo(Len(rxFiles))'
      /\ KeepsEnded
    BY EndedFiles DEF ReceiverInv, RxTypeOK
<1>2. EndedUpTo(Len(rxFiles) - 1)'
    BY <1>1 DEF EndedUpTo
<1> QED
    BY <1>1, <1>2 DEF ReceiverInv, RxTypeOK

\* A step after which the receiver is in the last file
LEMMA FileGoesOn ==
    ASSUME toRx' \in Seq(RxItem), rxFiles' \in Seq(FileRecord),
           rxFiles' # <<>>, EndedUpTo(Len(rxFiles) - 1)',
           (rxFiles[Len(rxFiles)].end = "none")',
           rxPhase' \in {"file", "data"}, rxStatus' = "RUN"
    PROVE  ReceiverInv'
BY DEF ReceiverInv, RxTypeOK, InFile, Status

LEMMA ReceiverStarts == Init => ReceiverInv
<1> SUFFICES ASSUME Init PROVE ReceiverInv
    OBVIOUS
<1>1. toRx \in Seq(RxItem) /\ rxFiles \in Seq(FileRecord) /\ Len(rxFiles) = 0
    BY DEF Init, RxInit
<1>2. EndedUpTo(Len(rxFiles)) /\ EndedUpTo(Len(rxFiles) - 1)
    BY <1>1 DEF EndedUpTo
<1> QED
    BY <1>1, <1>2 DEF Init, RxInit, ReceiverInv, RxTypeOK, InFile, Status

LEMMA RxStepInv ==
    ASSUME ReceiverInv, Rx PROVE ReceiverInv' /\ KeepsEnded
<1> DEFINE silent == toRx = <<>>
<1> USE DEF RxAt, RxReturn, RxGoTo, rxVars
<1>1. /\ toRx \in Seq(RxItem) /\ rxFiles \in Seq(FileRecord)
      /\ rxPhase \in {"idle", "name", "file", "data"} /\ rxStatus \in Status
    BY DEF ReceiverInv, RxTypeOK
<1>2. ASSUME NEW phases, NEW types, RxReads(phases, types)
      PROVE  toRx' \in Seq(RxItem) /\ Head(toRx).load \in Payload
    BY <1>1, <1>2, HeadType DEF RxReads
<1>3. ASSUME RxStart PROVE ReceiverInv' /\ KeepsEnded
    <2>1. toRx' \in {toRx, <<>>}
        BY <1>3, Zenon DEF RxStart, Waiting
    <2>2. toRx' \in Seq(RxItem)
        <3>1. <<>> \in Seq(RxItem)
            OBVIOUS
        <3> QED
            BY <1>1, <2>1, <3>1, Zenon
    <2>3. /\ rxStatus = "OFF" /\ rxPhase = "idle" /\ rxPhase' = "idle"
          /\ rxStatus' = "RUN" /\ UNCHANGED rxFiles
        BY <1>3 DEF RxStart, ReceiverInv
    <2>4. ~ InFile /\ ~ InFile'
        BY <2>3 DEF InFile
    <2> QED
        BY <2>2, <2>3, <2>4, SameFiles DEF Status
<1>4. ASSUME NEW phases, RxNoHeader(phases, silent)
      PROVE  rxStatus = "RUN" /\ rxPhase \in phases /\ toRx' \in Seq(RxItem)
    <2>1. rxStatus = "RUN" /\ rxPhase \in phases
        BY <1>4 DEF RxNoHeader, RxReads
    <2>2. CASE RxReads(phases, {"bad", "brk"})
        BY <2>1, <2>2, <1>2
    <2>3. CASE UNCHANGED toRx
        BY <2>1, <2>3, <1>1
    <2> QED
        BY <1>4, <2>2, <2>3 DEF RxNoHeader
<1>5. ASSUME NEW phase, RxNoSubpacket(phase, silent)
      PROVE  rxStatus = "RUN" /\ rxPhase = phase /\ toRx' \in Seq(RxItem)
    <2>1. rxStatus = "RUN" /\ rxPhase = phase
        BY <1>5 DEF RxNoSubpacket, RxReads
    <2>2. CASE RxReads({phase}, ToRxHeaders \cup {"bad", "junk", "brk"})
        BY <2>1, <2>2, <1>2
    <2>3. CASE UNCHANGED toRx
        BY <2>1, <2>3, <1>1
    <2> QED
        BY <1>5, <2>2, <2>3 DEF RxNoSubpacket
<1>6. ASSUME RxIdleFails(silent) PROVE ReceiverInv' /\ KeepsEnded
    BY <1>1, <1>4, <1>6, SameFiles DEF RxIdleFails, InFile, Status
<1>7. ASSUME RxFileFails(silent) PROVE ReceiverInv' /\ KeepsEnded
    BY <1>1, <1>4, <1>7, FileEnds DEF RxFileFails, InFile, Status
<1>8. ASSUME RxSkip PROVE ReceiverInv' /\ KeepsEnded
    <2>1. toRx' \in Seq(RxItem) /\ rxStatus = "RUN"
        BY <1>2, <1>8 DEF RxSkip, RxReads
    <2> QED
        BY <1>1, <1>8, <2>1, SameFiles DEF RxSkip, InFile, Status
<1>9. ASSUME RxRqinit PROVE ReceiverInv' /\ KeepsEnded
    BY <1>1, <1>2, <1>9, SameFiles DEF RxRqinit, RxReads, InFile, Status
<1>10. ASSUME RxFile PROVE ReceiverInv' /\ KeepsEnded
    BY <1>1, <1>2, <1>10, SameFiles DEF RxFile, RxReads, InFile, Status
<1>11. ASSUME RxName PROVE ReceiverInv' /\ KeepsEnded
    <2>1. toRx' \in Seq(RxItem) /\ Head(toRx).load[1] \in Nat
        BY <1>2, <1>11 DEF RxName, Payload
    <2>2. EndedUpTo(Len(rxFiles))
        BY <1>11 DEF ReceiverInv, InFile, RxName, RxReads
    <2>3. /\ rxFiles' \in Seq(FileRecord) /\ rxFiles' # <<>>
          /\ EndedUpTo(Len(rxFiles) - 1)'
          /\ (rxFiles[Len(rxFiles)].end = "none")'
          /\ KeepsEnded
        BY <1>1, <1>11, <2>1, <2>2, StartedFiles DEF RxName
    <2> QED
        BY <1>11, <2>1, <2>3, FileGoesOn DEF RxName, RxReads
<1>12. ASSUME RxNameFails(silent) PROVE ReceiverInv' /\ KeepsEnded
    BY <1>1, <1>5, <1>12, SameFiles DEF RxNameFails, InFile, Status
<1>13. ASSUME RxDataFails(silent) PROVE ReceiverInv' /\ KeepsEnded
    BY <1>1, <1>5, <1>13, FileEnds DEF RxDataFails, InFile, Status
<1>14. ASSUME RxDataHeader PROVE ReceiverInv' /\ KeepsEnded
    BY <1>1, <1>2, <1>14, SameFiles DEF RxDataHeader, RxReads, InFile, Status
<1>15. ASSUME RxData PROVE ReceiverInv' /\ KeepsEnded
    <2>1. toRx' \in Seq(RxItem) /\ Head(toRx).load \in Payload
        BY <1>2, <1>15 DEF RxData
    <2>2. /\ rxFiles # <<>> /\ EndedUpTo(Len(rxFiles) - 1)
          /\ rxFiles[Len(rxFiles)].end = "none"
        BY <1>15 DEF ReceiverInv, InFile, RxData, RxReads
    <2>3. /\ rxFiles' \in Seq(FileRecord) /\ rxFiles' # <<>>
          /\ EndedUpTo(Len(rxFiles) - 1)'
          /\ (rxFiles[Len(rxFiles)].end = "none")'
          /\ KeepsEnded
        BY <1>1, <1>15, <2>1, <2>2, StoredFiles DEF RxData
    <2> QED
        BY <1>15, <2>1, <2>3, FileGoesOn DEF RxData, RxReads
<1>16. ASSUME RxEof PROVE ReceiverInv' /\ KeepsEnded
    BY <1>1, <1>2, <1>16, FileEnds DEF RxEof, RxReads, InFile, Status
<1>17. ASSUME RxFin PROVE ReceiverInv' /\ KeepsEnded
    BY <1>1, <1>2, <1>17, SameFiles DEF RxFin, RxReads, InFile, Status
<1> QED
    BY <1>3, <1>6, <1>7, <1>8, <1>9, <1>10, <1>11, <1>12, <1>13, <1>14, <1>15,
       <1>16, <1>17, Zenon
    DEF Rx, RxStep

LEMMA OtherStepInv ==
    ASSUME ReceiverInv, Sender \/ Returned \/ UNCHANGED vars
    PROVE  ReceiverInv' /\ KeepsEnded
<1>1. UNCHANGED rxVars
    BY DEF Sender, Returned, vars
<1>2. toRx' \in Seq(RxItem)
    <2>1. CASE Sender
        BY <2>1, ItemTypes, SendType DEF Sender, ReceiverInv
    <2>2. CASE UNCHANGED vars
        BY <2>2 DEF vars, lineVars, ReceiverInv
    <2> QED
        BY <2>1, <2>2 DEF Returned
<1> QED
    BY <1>1, <1>2, SameFiles DEF rxVars, InFile, ReceiverInv, RxTypeOK

LEMMA ReceiverSteps == ReceiverInv /\ [Next]_vars => ReceiverInv' /\ KeepsEnded
BY RxStepInv, OtherStepInv DEF Next

-----------------------------------------------------------------------------

\* The inductive invariant of the receiver holds whatever a sender sends.
THEOREM ReceiverInvariance == Spec => []ReceiverInv
<1>1. Init => ReceiverInv
    BY ReceiverStarts
<1>2. ReceiverInv /\ [Next]_vars => ReceiverInv'
    BY ReceiverSteps
<1> QED
    BY <1>1, <1>2, PTL DEF Spec

\* on_file_end is called for every file before another starts and before a
\* session fails: no sender makes the console lose a file handle but by a ZFIN
\* inside a file.
THEOREM FilesAreAllEnded == Spec => []FilesAreEnded
<1>1. ReceiverInv => FilesAreEnded
    <2> SUFFICES ASSUME ReceiverInv PROVE FilesAreEnded
        OBVIOUS
    <2>1. rxFiles \in Seq(FileRecord) /\ EndedUpTo(Len(rxFiles) - 1)
        BY DEF ReceiverInv, RxTypeOK
    <2>2. rxStatus \in {"TIMEOUT", "IO"} => EndedUpTo(Len(rxFiles))
        BY DEF ReceiverInv, InFile
    <2> QED
        BY <2>1, <2>2 DEF FilesAreEnded, EndedUpTo
<1> QED
    BY <1>1, ReceiverInvariance, PTL

\* Nothing is stored in a file or reported of it once it has ended, whatever a
\* sender sends.
THEOREM EndsAreFinal == Spec => EndIsFinal
<1>1. ReceiverInv /\ [Next]_vars =>
         [\A i \in 1 .. Len(rxFiles) :
             rxFiles[i].end # "none" => rxFiles'[i] = rxFiles[i]]_vars
    BY ReceiverSteps DEF KeepsEnded
<1> QED
    BY <1>1, ReceiverInvariance, PTL DEF Spec, EndIsFinal

=============================================================================
