--------------------------- MODULE ZmodemReceive ---------------------------
(***************************************************************************)
(* zmodem_receive().  The receiver reads in four places: a header outside  *)
(* a file, the subpacket with the name of a file, a header inside a file,  *)
(* a data subpacket.  One action is the outcome of such a read and         *)
(* everything the code does until the next one.                            *)
(***************************************************************************)
EXTENDS ZmodemLine

VARIABLES
    rxPhase,    \* where the code reads: "idle", "name", "file", "data"
    rxStatus,   \* "OFF", "RUN", then the value zmodem_receive returns
    rxFiles     \* the files started: name, stored payloads, reported end

rxVars == <<rxPhase, rxStatus, rxFiles>>

RxTypeOK ==
    /\ rxPhase \in {"idle", "name", "file", "data"}
    /\ rxStatus \in Status
    /\ rxFiles \in Seq(FileRecord)

RxInit ==
    /\ rxPhase = "idle"
    /\ rxStatus = "OFF"
    /\ rxFiles = <<>>

-----------------------------------------------------------------------------

RxAt(phases) == rxStatus = "RUN" /\ rxPhase \in phases

RxReads(phases, types) ==
    /\ RxAt(phases)
    /\ toRx # <<>> /\ Head(toRx).type \in types
    /\ toRx' = Tail(toRx)

RxReturn(st) ==
    /\ rxStatus' = st
    /\ UNCHANGED rxPhase

RxGoTo(phase) ==
    /\ rxPhase' = phase
    /\ UNCHANGED rxStatus

RxStart ==
    /\ rxStatus = "OFF"
    /\ rxStatus' = "RUN"
    /\ toTx' = Send(toTx, TxHeader("rinit"))
    /\ toRx' \in Waiting(toRx)
    /\ UNCHANGED <<rxPhase, rxFiles>>

\* read_header fails at the first byte that does not come.
RxNoHeader(phases, silent) ==
    \/ RxReads(phases, {"bad", "brk"})
    \/ RxAt(phases) /\ silent /\ UNCHANGED toRx

RxIdleFails(silent) ==
    /\ RxNoHeader({"idle"}, silent)
    /\ RxReturn("TIMEOUT")
    /\ UNCHANGED <<toTx, rxFiles>>

RxFileFails(silent) ==
    /\ RxNoHeader({"file"}, silent)
    /\ RxReturn("TIMEOUT")
    /\ rxFiles' = Ended(rxFiles, "TIMEOUT")
    /\ UNCHANGED toTx

\* Bytes that are no header, and headers that mean nothing here.
RxSkip ==
    /\ \/ RxReads({"idle"}, {"sub", "junk", "data", "eof"})
       \/ RxReads({"file"}, {"sub", "junk", "rqinit", "file"})
    /\ UNCHANGED <<toTx, rxVars>>

RxRqinit ==
    /\ RxReads({"idle"}, {"rqinit"})
    /\ toTx' = Send(toTx, TxHeader("rinit"))
    /\ UNCHANGED rxVars

RxFile ==
    /\ RxReads({"idle"}, {"file"})
    /\ RxGoTo("name")
    /\ UNCHANGED <<toTx, rxFiles>>

\* The result of on_file_start is not looked at; the offset asked for is 0.
RxName ==
    /\ RxReads({"name"}, {"sub"})
    /\ rxFiles' \in Started(rxFiles, Head(toRx).load[1])
    /\ toTx' = Send(toTx, TxHeader("rpos"))
    /\ RxGoTo("file")

\* read_subpacket takes a header for data with a wrong check.
RxNoSubpacket(phase, silent) ==
    \/ RxReads({phase}, ToRxHeaders \cup {"bad", "junk", "brk"})
    \/ RxAt({phase}) /\ silent /\ UNCHANGED toRx

RxNameFails(silent) ==
    /\ RxNoSubpacket("name", silent)
    /\ RxReturn("IO")
    /\ UNCHANGED <<toTx, rxFiles>>

\* Seeded fault: on_file_end is not called.
RxDataFailsQuietly(silent) ==
    /\ RxNoSubpacket("data", silent)
    /\ RxReturn("IO")
    /\ UNCHANGED <<toTx, rxFiles>>

RxDataFails(silent) ==
    /\ RxNoSubpacket("data", silent)
    /\ RxReturn("IO")
    /\ rxFiles' = Ended(rxFiles, "IO")
    /\ UNCHANGED toTx

\* The offset in ZDATA is not compared with file_offset.
RxDataHeader ==
    /\ RxReads({"file"}, {"data"})
    /\ RxGoTo("data")
    /\ UNCHANGED <<toTx, rxFiles>>

RxData ==
    /\ RxReads({"data"}, {"sub"})
    /\ rxFiles' \in Stored(rxFiles, Head(toRx).load)
    /\ RxGoTo(IF Head(toRx).last THEN "file" ELSE "data")
    /\ UNCHANGED toTx

\* Seeded fault: on_file_end is not called.
RxEofUnreported ==
    /\ RxReads({"file"}, {"eof"})
    /\ toTx' = Send(toTx, TxHeader("rinit"))
    /\ RxGoTo("idle")
    /\ UNCHANGED rxFiles

\* Seeded fault: ZRINIT is not sent.
RxEofUnanswered ==
    /\ RxReads({"file"}, {"eof"})
    /\ rxFiles' = Ended(rxFiles, "OK")
    /\ RxGoTo("idle")
    /\ UNCHANGED toTx

\* Seeded fault: the loop over headers is not left.
RxEofStays ==
    /\ RxReads({"file"}, {"eof"})
    /\ rxFiles' = Ended(rxFiles, "OK")
    /\ toTx' = Send(toTx, TxHeader("rinit"))
    /\ RxGoTo("file")

\* The offset in ZEOF is not compared with file_offset or the size.
RxEof ==
    /\ RxReads({"file"}, {"eof"})
    /\ rxFiles' = Ended(rxFiles, "OK")
    /\ toTx' = Send(toTx, TxHeader("rinit"))
    /\ RxGoTo("idle")

\* Inside a file too the session ends well, without on_file_end.
RxFin ==
    /\ RxReads({"idle", "file"}, {"fin"})
    /\ toTx' = Send(toTx, TxHeader("fin"))
    /\ RxReturn("OK")
    /\ UNCHANGED rxFiles

\* silent: the line lets a read time out.
RxStep(silent) ==
    /\ \/ RxStart \/ RxIdleFails(silent) \/ RxFileFails(silent) \/ RxSkip
       \/ RxRqinit \/ RxFile \/ RxName \/ RxNameFails(silent)
       \/ RxDataFails(silent) \/ RxDataHeader \/ RxData \/ RxEof \/ RxFin
    /\ UNCHANGED <<faults, aborts>>

=============================================================================
