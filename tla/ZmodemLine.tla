----------------------------- MODULE ZmodemLine -----------------------------
(***************************************************************************)
(* What a ZMODEM session puts on the line.  A header and a data subpacket  *)
(* are items of their own: the reader asks for one or for the other, and   *)
(* while it looks for a header it skips everything else.                   *)
(***************************************************************************)
EXTENDS BatchFiles

Status == {"OFF", "RUN", "OK", "TIMEOUT", "IO"}

ToRxHeaders == {"rqinit", "file", "data", "eof", "fin"}
ToTxHeaders == {"rinit", "rpos", "fin"}

\* "bad" is a header whose check fails; last is TRUE for the enders ZCRCE
\* and ZCRCW, which end the subpackets of a header.
RxItem == [type : ToRxHeaders \cup {"sub", "bad", "junk", "brk"},
           load : Payload, last : BOOLEAN]

\* pos is the offset in a ZRPOS, in blocks.
TxItem == [type : ToTxHeaders \cup {"bad", "junk", "brk"}, pos : Nat]

RxHeader(ty) == [type |-> ty, load |-> Padding, last |-> TRUE]
TxHeader(ty) == [type |-> ty, pos |-> 0]
Subpacket(load, end) == [type |-> "sub", load |-> load, last |-> end]

\* What is left of q when the end that reads it is started: it arrived before
\* anybody read the console, which may have kept it or not.
Waiting(q) == {q, <<>>}

LineTypeOK ==
    /\ toRx \in Seq(RxItem)
    /\ toTx \in Seq(TxItem)
    /\ faults \in 0 .. MaxFaults
    /\ aborts \in 0 .. MaxAborts

ZmodemLineNext ==
    LineNext(ToRxHeaders \cup ToTxHeaders, RxHeader("brk"), TxHeader("brk"))

=============================================================================
