---------------------------- MODULE BatchDelivery ----------------------------
(***************************************************************************)
(* What the two calls of a batch transfer (YMODEM, ZMODEM) promise: files  *)
(* are started in the order of the batch, each after the one before was    *)
(* ended well; what is stored in a file are its own blocks in order, and   *)
(* one that ends well is complete, unless it was harmed; a file that ends  *)
(* badly ends the call with the same result; success at either end means   *)
(* that every file ended well.  The line and the harm done to files are    *)
(* the environment's.                                                      *)
(***************************************************************************)
EXTENDS Naturals, Sequences

CONSTANTS
    Sizes,      \* Sizes[f]: blocks of file f
    Failures    \* the results other than "OK" of a call, or of a file

VARIABLES
    files,      \* the files started: name, data, open, end
    rx,         \* "RUN", or what the receiver returned
    tx,         \* "RUN", or what the transmitter returned
    harmed,     \* files of which nothing more is promised than their order
    line        \* the payloads on their way to the receiver

vars == <<files, rx, tx, harmed, line>>

N == Len(Sizes)
Current == Len(files)
Data == files[Current].data

\* Outside a file, the last one ended well
Outside == Current > 0 => files[Current].end = "OK"

Inside == Current > 0 /\ files[Current].end = "none"

Init ==
    /\ files = <<>>
    /\ rx = "RUN" /\ tx = "RUN"
    /\ harmed = {}
    /\ line = {}

Start ==
    /\ rx = "RUN" /\ Outside /\ Current < N
    /\ \E open \in BOOLEAN :
          files' = Append(files, [name |-> Current + 1, data |-> <<>>,
                                  open |-> open, end |-> "none"])
    /\ UNCHANGED <<rx, tx>>

Deliver ==
    /\ rx = "RUN" /\ Inside
    /\ \E b \in line :
          /\ \/ Current \in harmed
             \/ b = <<Current, Len(Data) + 1>> /\ Len(Data) < Sizes[Current]
          /\ files' = [files EXCEPT ![Current].data = Append(@, b)]
    /\ UNCHANGED <<rx, tx>>

End ==
    /\ rx = "RUN" /\ Inside
    /\ \E st \in Failures \cup {"OK"} :
          /\ st = "OK" => Current \in harmed \/ Len(Data) = Sizes[Current]
          /\ files' = [files EXCEPT ![Current].end = st]
          /\ rx' = IF st = "OK" THEN "RUN" ELSE st
    /\ UNCHANGED tx

Succeeded == IF Current = N /\ Outside THEN {"OK"} ELSE {}

RxReturns ==
    /\ rx = "RUN" /\ Outside
    /\ rx' \in Failures \cup Succeeded
    /\ UNCHANGED <<files, tx>>

TxReturns ==
    /\ tx = "RUN"
    /\ tx' \in Failures \cup Succeeded
    /\ UNCHANGED <<files, rx>>

\* What the environment does meanwhile
Next ==
    /\ \/ Start \/ Deliver \/ End \/ RxReturns \/ TxReturns
       \/ UNCHANGED <<files, rx, tx>>
    /\ harmed \subseteq harmed' /\ harmed' \subseteq 1 .. N

Spec == Init /\ [][Next]_vars

=============================================================================
