-------------------------- MODULE ZmodemAnySender --------------------------
(***************************************************************************)
(* zmodem_receive() against a sender that may send any header or           *)
(* subpacket at any time: another implementation, a restarted one, or what *)
(* noise leaves of one.                                                    *)
(***************************************************************************)
EXTENDS ZmodemReceive

CONSTANT MaxSent      \* bound on the items the sender sends

ASSUME AnySenderAssumption == MaxSent \in Nat

VARIABLE sent         \* items sent so far

vars == <<lineVars, rxVars, sent>>

Init ==
    /\ RxInit
    /\ toRx = <<>>
    /\ toTx = <<>>
    /\ faults = 0
    /\ aborts = 0
    /\ sent = 0

\* A subpacket of file f, block k; block 0 names the file.
AnyItem ==
    {RxHeader(ty) : ty \in ToRxHeaders \cup {"bad", "junk", "brk"}}
        \cup [type : {"sub"}, load : (1 .. NFiles) \X (0 .. 1), last : BOOLEAN]

Sender ==
    /\ sent < MaxSent
    /\ sent' = sent + 1
    /\ \E item \in AnyItem : toRx' = Send(toRx, item)
    /\ UNCHANGED <<toTx, faults, aborts, rxVars>>

Rx == RxStep(toRx = <<>>) /\ UNCHANGED sent

Returned == rxStatus \notin {"OFF", "RUN"} /\ UNCHANGED vars

Next == Rx \/ Sender \/ Returned

Spec == Init /\ [][Next]_vars

-----------------------------------------------------------------------------

\* What was stored and reported of a file that has ended never changes.
EndIsFinal ==
    [][\A i \in 1 .. Len(rxFiles) :
          rxFiles[i].end # "none" => rxFiles'[i] = rxFiles[i]]_vars

\* The console keeps a single file handle and closes it in on_file_end, which
\* is called for every file before another one starts and before a session
\* fails: only a ZFIN inside a file leaves that file without it.
FilesAreEnded ==
    \A i \in 1 .. Len(rxFiles) :
       i < Len(rxFiles) \/ rxStatus \in {"TIMEOUT", "IO"} => rxFiles[i].end # "none"

=============================================================================
