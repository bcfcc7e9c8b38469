----------------------------- MODULE BatchFiles -----------------------------
(***************************************************************************)
(* The files of a batch (YMODEM, ZMODEM): what the transmitter reads, and  *)
(* what the receiver's callbacks have made of it.  A payload is a pair     *)
(* <<file, block>>, block 0 being the name and size of the file.           *)
(***************************************************************************)
EXTENDS SerialLine

CONSTANTS
    Files,        \* Files[f]: data blocks of file f
    StoreFails,   \* TRUE: on_file_start and on_data may fail
    ReadFails     \* TRUE: read_data may fail

ASSUME BatchAssumption ==
    /\ Files \in Seq(Nat)
    /\ {StoreFails, ReadFails} \subseteq BOOLEAN

NFiles == Len(Files)

Payload == Nat \X Nat

\* What is left in the buffer when the file could not be read.
Padding == <<0, 0>>

ReadOutcomes(load) == {load} \cup (IF ReadFails THEN {Padding} ELSE {})

FileRecord == [name : Nat, data : Seq(Payload), open : BOOLEAN,
               end : {"none", "OK", "TIMEOUT", "CANCEL", "SEQUENCE", "IO"}]

\* on_file_start: the file may fail to open.
Started(files, name) ==
    {Append(files, [name |-> name, data |-> <<>>, open |-> o, end |-> "none"]) :
        o \in {TRUE, ~ StoreFails}}

\* on_data: nothing is stored in a file that is not open.
Stored(files, load) ==
    LET f == Len(files)
        done == [files EXCEPT ![f].data = Append(@, load)]
    IN  IF ~ files[f].open THEN {files}
        ELSE {done} \cup (IF StoreFails THEN {files} ELSE {})

\* on_file_end
Ended(files, st) == [files EXCEPT ![Len(files)].end = st]

-----------------------------------------------------------------------------

\* The record holds a part of its own file, in order and without gaps.
Intact(r) ==
    /\ r.name \in 1 .. NFiles
    /\ Len(r.data) <= Files[r.name]
    /\ \A i \in 1 .. Len(r.data) : r.data[i] = <<r.name, i>>

Complete(r) == Intact(r) /\ Len(r.data) = Files[r.name]

=============================================================================
