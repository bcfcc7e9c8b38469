------------------------ MODULE ConsoleStorageProofs ------------------------
(***************************************************************************)
(* Handles, the work queue and the contents of the files, for any paths,   *)
(* any number of files and blocks and every change of the settings.        *)
(***************************************************************************)
EXTENDS ConsoleStorage, SequenceTheorems, TLAPS

CtxType == [open : BOOLEAN, path : Paths \cup {Closed.path}, pos : Nat]

ItemType == [state : {"none", "queued", "stored", "failed"}, block : Nat \X Nat]

Receiving == engine \in {"x", "y", "z"}

\* Handles the command that runs has to close
Held == (IF engine # "idle" /\ ctx.open THEN 1 ELSE 0)
            + (IF engine = "dir" THEN 1 ELSE 0)

ControlTypes ==
    /\ handles \in Int /\ abandoned \in Nat
    /\ started \in Nat /\ handed \in Nat
    /\ engine \in {"idle", "x", "y", "z", "tx", "dir"}
    /\ ctx \in CtxType
    /\ item \in ItemType

\* While write_file_data waits, the engine is inside a file that is open, and
\* what is on the work queue is the block handed over last.
WriterInv ==
    /\ inWrite <=> item.state # "none"
    /\ inWrite => /\ Receiving /\ inFile /\ ctx.open
                  /\ item.block = <<started, handed + 1>>

HandlesInv == handles <= Held + abandoned

PhaseInv ==
    /\ inFile => Receiving
    /\ engine = "x" => inFile /\ ctx.open
    /\ engine \in {"y", "z"} /\ ~ inFile => ~ ctx.open

\* The inductive invariant of the handles: nothing is open but what the command
\* that runs will close and what was abandoned.
ControlInv == ControlTypes /\ WriterInv /\ HandlesInv /\ PhaseInv

-----------------------------------------------------------------------------

LEMMA ClosedCtx == Closed \in CtxType /\ Closed.open = FALSE
BY Zenon DEF Closed, CtxType

LEMMA OpenedCtx == \A p \in Paths :
                      /\ [open |-> TRUE, path |-> p, pos |-> 0] \in CtxType
                      /\ [open |-> TRUE, path |-> p, pos |-> 0].open = TRUE
BY DEF CtxType

LEMMA MovedCtx == \A c \in CtxType :
                     /\ [c EXCEPT !.pos = @ + 1] \in CtxType
                     /\ [c EXCEPT !.pos = @ + 1].open = c.open
BY DEF CtxType

LEMMA NoItemOne == NoItem \in ItemType /\ NoItem.state = "none"
BY DEF NoItem, ItemType

LEMMA OpenOrNot == ctx \in CtxType => ctx.open \in BOOLEAN
BY DEF CtxType

LEMMA ControlStarts == Init => ControlInv
<1>1. Init => ControlTypes
    BY ClosedCtx, NoItemOne DEF Init, ControlTypes
<1>2. Init => WriterInv
    BY NoItemOne DEF Init, WriterInv
<1>3. Init => HandlesInv
    BY DEF Init, HandlesInv, Held
<1>4. Init => PhaseInv
    BY DEF Init, PhaseInv, Receiving
<1> QED
    BY <1>1, <1>2, <1>3, <1>4 DEF ControlInv

\* The facts a step uses
LEMMA ControlFacts ==
    ASSUME ControlInv PROVE ControlTypes /\ WriterInv /\ HandlesInv /\ PhaseInv /\ ctx.open \in BOOLEAN
BY OpenOrNot DEF ControlInv, ControlTypes

LEMMA CallStep ==
    ASSUME ControlInv, ~ inWrite, Call, UNCHANGED <<inWrite, item>>
    PROVE  ControlInv'
<1>0. ControlTypes /\ WriterInv /\ HandlesInv /\ PhaseInv /\ ctx.open \in BOOLEAN
    BY ControlFacts
<1>14. WriterInv'
    BY <1>0, Zenon DEF WriterInv
<1>1. ASSUME NEW p \in Paths, RxXmodem(p) PROVE ControlTypes' /\ HandlesInv' /\ PhaseInv'
    <2>1. ControlTypes'
        BY <1>0, <1>1, ClosedCtx, OpenedCtx DEF RxXmodem, NextFile, Open, ControlTypes
    <2>2. HandlesInv'
        BY <1>0, <1>1, ClosedCtx, OpenedCtx DEF RxXmodem, NextFile, Open, HandlesInv, Held, PhaseInv, ControlTypes
    <2>3. PhaseInv'
        BY <1>0, <1>1, ClosedCtx, OpenedCtx DEF RxXmodem, NextFile, Open, PhaseInv, Receiving
    <2> QED
        BY <2>1, <2>2, <2>3
<1>2. ASSUME NEW p \in Paths, FileStart(p) PROVE ControlTypes' /\ HandlesInv' /\ PhaseInv'
    <2>1. ControlTypes'
        BY <1>0, <1>2, ClosedCtx, OpenedCtx DEF FileStart, NextFile, Open, ControlTypes
    <2>2. HandlesInv'
        BY <1>0, <1>2, ClosedCtx, OpenedCtx DEF FileStart, NextFile, Open, HandlesInv, Held, PhaseInv, ControlTypes
    <2>3. PhaseInv'
        BY <1>0, <1>2, ClosedCtx, OpenedCtx DEF FileStart, NextFile, Open, PhaseInv, Receiving
    <2> QED
        BY <2>1, <2>2, <2>3
<1>3. ASSUME RxBatch PROVE ControlTypes' /\ HandlesInv' /\ PhaseInv'
    <2>1. ControlTypes'
        BY <1>0, <1>3, ClosedCtx, OpenedCtx DEF RxBatch, ControlTypes
    <2>2. HandlesInv'
        BY <1>0, <1>3, ClosedCtx, OpenedCtx DEF RxBatch, HandlesInv, Held, PhaseInv, ControlTypes
    <2>3. PhaseInv'
        BY <1>0, <1>3, ClosedCtx, OpenedCtx DEF RxBatch, PhaseInv, Receiving
    <2> QED
        BY <2>1, <2>2, <2>3
<1>4. ASSUME FileEnd PROVE ControlTypes' /\ HandlesInv' /\ PhaseInv'
    <2>1. ControlTypes'
        BY <1>0, <1>4, ClosedCtx, OpenedCtx DEF FileEnd, Close, ControlTypes
    <2>2. HandlesInv'
        BY <1>0, <1>4, ClosedCtx, OpenedCtx DEF FileEnd, Close, HandlesInv, Held, PhaseInv, ControlTypes
    <2>3. PhaseInv'
        BY <1>0, <1>4, ClosedCtx, OpenedCtx DEF FileEnd, Close, PhaseInv, Receiving
    <2> QED
        BY <2>1, <2>2, <2>3
<1>5. ASSUME XmodemReturns PROVE ControlTypes' /\ HandlesInv' /\ PhaseInv'
    <2>1. ControlTypes'
        BY <1>0, <1>5, ClosedCtx, OpenedCtx DEF XmodemReturns, Close, ControlTypes
    <2>2. HandlesInv'
        BY <1>0, <1>5, ClosedCtx, OpenedCtx DEF XmodemReturns, Close, HandlesInv, Held, PhaseInv, ControlTypes
    <2>3. PhaseInv'
        BY <1>0, <1>5, ClosedCtx, OpenedCtx DEF XmodemReturns, Close, PhaseInv, Receiving
    <2> QED
        BY <2>1, <2>2, <2>3
<1>6. ASSUME BatchReturns PROVE ControlTypes' /\ HandlesInv' /\ PhaseInv'
    <2>1. ControlTypes'
        BY <1>0, <1>6, ClosedCtx, OpenedCtx DEF BatchReturns, ControlTypes
    <2>2. HandlesInv'
        BY <1>0, <1>6, ClosedCtx, OpenedCtx DEF BatchReturns, HandlesInv, Held, PhaseInv, ControlTypes
    <2>3. PhaseInv'
        BY <1>0, <1>6, ClosedCtx, OpenedCtx DEF BatchReturns, PhaseInv, Receiving
    <2> QED
        BY <2>1, <2>2, <2>3
<1>7. ASSUME NEW p \in Paths, TxFile(p) PROVE ControlTypes' /\ HandlesInv' /\ PhaseInv'
    <2>1. ControlTypes'
        BY <1>0, <1>7, ClosedCtx, OpenedCtx DEF TxFile, OpenInput, ControlTypes
    <2>2. HandlesInv'
        BY <1>0, <1>7, ClosedCtx, OpenedCtx DEF TxFile, OpenInput, HandlesInv, Held, PhaseInv, ControlTypes
    <2>3. PhaseInv'
        BY <1>0, <1>7, ClosedCtx, OpenedCtx DEF TxFile, OpenInput, PhaseInv, Receiving
    <2> QED
        BY <2>1, <2>2, <2>3
<1>8. ASSUME NEW p \in Paths, DirFile(p) PROVE ControlTypes' /\ HandlesInv' /\ PhaseInv'
    <2>1. ControlTypes'
        BY <1>0, <1>8, ClosedCtx, OpenedCtx DEF DirFile, OpenInput, ControlTypes
    <2>2. HandlesInv'
        BY <1>0, <1>8, ClosedCtx, OpenedCtx DEF DirFile, OpenInput, HandlesInv, Held, PhaseInv, ControlTypes
    <2>3. PhaseInv'
        BY <1>0, <1>8, ClosedCtx, OpenedCtx DEF DirFile, OpenInput, PhaseInv, Receiving
    <2> QED
        BY <2>1, <2>2, <2>3
<1>9. ASSUME TxReturns PROVE ControlTypes' /\ HandlesInv' /\ PhaseInv'
    <2>1. ControlTypes'
        BY <1>0, <1>9, ClosedCtx, OpenedCtx DEF TxReturns, Close, ControlTypes
    <2>2. HandlesInv'
        BY <1>0, <1>9, ClosedCtx, OpenedCtx DEF TxReturns, Close, HandlesInv, Held, PhaseInv, ControlTypes
    <2>3. PhaseInv'
        BY <1>0, <1>9, ClosedCtx, OpenedCtx DEF TxReturns, Close, PhaseInv, Receiving
    <2> QED
        BY <2>1, <2>2, <2>3
<1>10. ASSUME TxDirectory PROVE ControlTypes' /\ HandlesInv' /\ PhaseInv'
    <2>1. ControlTypes'
        BY <1>0, <1>10, ClosedCtx, OpenedCtx DEF TxDirectory, ControlTypes
    <2>2. HandlesInv'
        BY <1>0, <1>10, ClosedCtx, OpenedCtx DEF TxDirectory, HandlesInv, Held, PhaseInv, ControlTypes
    <2>3. PhaseInv'
        BY <1>0, <1>10, ClosedCtx, OpenedCtx DEF TxDirectory, PhaseInv, Receiving
    <2> QED
        BY <2>1, <2>2, <2>3
<1>11. ASSUME NotDone PROVE ControlTypes' /\ HandlesInv' /\ PhaseInv'
    <2>1. ControlTypes'
        BY <1>0, <1>11, ClosedCtx, OpenedCtx DEF NotDone, ControlTypes
    <2>2. HandlesInv'
        BY <1>0, <1>11, ClosedCtx, OpenedCtx DEF NotDone, HandlesInv, Held, PhaseInv, ControlTypes
    <2>3. PhaseInv'
        BY <1>0, <1>11, ClosedCtx, OpenedCtx DEF NotDone, PhaseInv, Receiving
    <2> QED
        BY <2>1, <2>2, <2>3
<1>12. ASSUME DirFileSent PROVE ControlTypes' /\ HandlesInv' /\ PhaseInv'
    <2>1. ControlTypes'
        BY <1>0, <1>12, ClosedCtx, OpenedCtx DEF DirFileSent, Close, ControlTypes
    <2>2. HandlesInv'
        BY <1>0, <1>12, ClosedCtx, OpenedCtx DEF DirFileSent, Close, HandlesInv, Held, PhaseInv, ControlTypes
    <2>3. PhaseInv'
        BY <1>0, <1>12, ClosedCtx, OpenedCtx DEF DirFileSent, Close, PhaseInv, Receiving
    <2> QED
        BY <2>1, <2>2, <2>3
<1>13. ASSUME DirReturns PROVE ControlTypes' /\ HandlesInv' /\ PhaseInv'
    <2>1. ControlTypes'
        BY <1>0, <1>13, ClosedCtx, OpenedCtx DEF DirReturns, ControlTypes
    <2>2. HandlesInv'
        BY <1>0, <1>13, ClosedCtx, OpenedCtx DEF DirReturns, HandlesInv, Held, PhaseInv, ControlTypes
    <2>3. PhaseInv'
        BY <1>0, <1>13, ClosedCtx, OpenedCtx DEF DirReturns, PhaseInv, Receiving
    <2> QED
        BY <2>1, <2>2, <2>3
<1> QED
    BY <1>14, <1>1, <1>2, <1>3, <1>4, <1>5, <1>6, <1>7, <1>8, <1>9, <1>10, <1>11, <1>12, <1>13, Zenon
    DEF Call, ControlInv

LEMMA WriteStep ==
    ASSUME ControlInv, Submit \/ WorkerWrites \/ Data \/ DataLost \/ XmodemDataFails
    PROVE  ControlInv'
<1>0. ControlTypes /\ WriterInv /\ HandlesInv /\ PhaseInv /\ ctx.open \in BOOLEAN
    BY ControlFacts
<1>1. ASSUME Submit PROVE ControlInv'
    <2>1. ControlTypes'
        BY <1>0, <1>1, ClosedCtx, MovedCtx, NoItemOne DEF Submit, Handing, ControlTypes, ItemType
    <2>2. HandlesInv'
        BY <1>0, <1>1, ClosedCtx, MovedCtx DEF Submit, Handing, HandlesInv, Held, PhaseInv, ControlTypes
    <2>3. PhaseInv'
        BY <1>0, <1>1, ClosedCtx, MovedCtx DEF Submit, Handing, PhaseInv, Receiving, ControlTypes
    <2>4. WriterInv'
        BY <1>0, <1>1, ClosedCtx, MovedCtx, NoItemOne DEF Submit, Handing, WriterInv, Receiving, ControlTypes, ItemType
    <2> QED
        BY <2>1, <2>2, <2>3, <2>4 DEF ControlInv
<1>2. ASSUME WorkerWrites PROVE ControlInv'
    <2>1. ControlTypes'
        BY <1>0, <1>2, ClosedCtx, MovedCtx, NoItemOne DEF WorkerWrites, Store, ControlTypes, ItemType
    <2>2. HandlesInv'
        BY <1>0, <1>2, ClosedCtx, MovedCtx DEF WorkerWrites, Store, HandlesInv, Held, PhaseInv, ControlTypes
    <2>3. PhaseInv'
        BY <1>0, <1>2, ClosedCtx, MovedCtx DEF WorkerWrites, Store, PhaseInv, Receiving, ControlTypes
    <2>4. WriterInv'
        BY <1>0, <1>2, ClosedCtx, MovedCtx, NoItemOne DEF WorkerWrites, Store, WriterInv, Receiving, ControlTypes, ItemType
    <2> QED
        BY <2>1, <2>2, <2>3, <2>4 DEF ControlInv
<1>3. ASSUME Data PROVE ControlInv'
    <2>1. ControlTypes'
        BY <1>0, <1>3, ClosedCtx, MovedCtx, NoItemOne DEF Data, HandOver, Handing, Stores, Flushed, Store, ControlTypes, ItemType
    <2>2. HandlesInv'
        BY <1>0, <1>3, ClosedCtx, MovedCtx DEF Data, HandOver, Handing, Stores, Flushed, Store, HandlesInv, Held, PhaseInv, ControlTypes
    <2>3. PhaseInv'
        BY <1>0, <1>3, ClosedCtx, MovedCtx DEF Data, HandOver, Handing, Stores, Flushed, Store, PhaseInv, Receiving, ControlTypes
    <2>4. WriterInv'
        BY <1>0, <1>3, ClosedCtx, MovedCtx, NoItemOne DEF Data, HandOver, Handing, Stores, Flushed, Store, WriterInv, Receiving, ControlTypes, ItemType
    <2> QED
        BY <2>1, <2>2, <2>3, <2>4 DEF ControlInv
<1>4. ASSUME DataLost PROVE ControlInv'
    <2>1. ControlTypes'
        BY <1>0, <1>4, ClosedCtx, MovedCtx, NoItemOne DEF DataLost, HandOver, Handing, CannotStore, Flushed, ControlTypes, ItemType
    <2>2. HandlesInv'
        BY <1>0, <1>4, ClosedCtx, MovedCtx DEF DataLost, HandOver, Handing, CannotStore, Flushed, HandlesInv, Held, PhaseInv, ControlTypes
    <2>3. PhaseInv'
        BY <1>0, <1>4, ClosedCtx, MovedCtx DEF DataLost, HandOver, Handing, CannotStore, Flushed, PhaseInv, Receiving, ControlTypes
    <2>4. WriterInv'
        BY <1>0, <1>4, ClosedCtx, MovedCtx, NoItemOne DEF DataLost, HandOver, Handing, CannotStore, Flushed, WriterInv, Receiving, ControlTypes, ItemType
    <2> QED
        BY <2>1, <2>2, <2>3, <2>4 DEF ControlInv
<1>5. ASSUME XmodemDataFails PROVE ControlInv'
    <2>1. ControlTypes'
        BY <1>0, <1>5, ClosedCtx, MovedCtx, NoItemOne DEF XmodemDataFails, Handing, CannotStore, Flushed, Close, ControlTypes, ItemType
    <2>2. HandlesInv'
        BY <1>0, <1>5, ClosedCtx, MovedCtx DEF XmodemDataFails, Handing, CannotStore, Flushed, Close, HandlesInv, Held, PhaseInv, ControlTypes
    <2>3. PhaseInv'
        BY <1>0, <1>5, ClosedCtx, MovedCtx DEF XmodemDataFails, Handing, CannotStore, Flushed, Close, PhaseInv, Receiving, ControlTypes
    <2>4. WriterInv'
        BY <1>0, <1>5, ClosedCtx, MovedCtx, NoItemOne DEF XmodemDataFails, Handing, CannotStore, Flushed, Close, WriterInv, Receiving, ControlTypes, ItemType
    <2> QED
        BY <2>1, <2>2, <2>3, <2>4 DEF ControlInv
<1> QED
    BY <1>1, <1>2, <1>3, <1>4, <1>5

LEMMA ControlSteps == ControlInv /\ [Next]_vars => ControlInv'
<1> SUFFICES ASSUME ControlInv, [Next]_vars PROVE ControlInv'
    OBVIOUS
<1>1. CASE Next /\ ~ SetSettings
    BY <1>1, CallStep, WriteStep, Zenon DEF Next
<1>2. ASSUME UNCHANGED <<handles, engine, inFile, ctx, started, handed, abandoned, inWrite, item>>
      PROVE  ControlInv'
    BY <1>2 DEF ControlInv, ControlTypes, WriterInv, HandlesInv, PhaseInv, Held, Receiving
<1>3. CASE SetSettings
    BY <1>2, <1>3, Zenon DEF SetSettings
<1>4. CASE UNCHANGED vars
    BY <1>2, <1>4, Zenon DEF vars
<1> QED
    BY <1>1, <1>3, <1>4

-----------------------------------------------------------------------------

\* The inductive invariant of handles and work queue holds in every state.
THEOREM ControlInvariance == Spec => []ControlInv
BY ControlStarts, ControlSteps, PTL DEF Spec

\* When no command runs, no more files are open than batches left behind inside
\* a file: every other path out of a command closes what it opened.
THEOREM HandlesAreBalanced == Spec => []HandlesBalanced
<1>1. ControlInv => HandlesBalanced
    <2> SUFFICES ASSUME ControlInv, engine = "idle" PROVE handles <= abandoned
        BY DEF HandlesBalanced
    <2>1. Held = 0
        BY DEF Held
    <2> QED
        BY <2>1 DEF ControlInv, ControlTypes, HandlesInv
<1> QED
    BY <1>1, ControlInvariance, PTL

\* The work queue writes the last block, to a file that is still open: the
\* engine is not called back before the handler has returned.
THEOREM WorkerIsInTime == Spec => []WorkerInTime
<1>1. ControlInv => WorkerInTime
    <2> SUFFICES ASSUME ControlInv, item.state = "queued"
                 PROVE  ctx.open /\ inFile /\ item.block = <<started, handed + 1>>
        BY DEF WorkerInTime
    <2>1. inWrite
        BY DEF ControlInv, WriterInv
    <2> QED
        BY <2>1 DEF ControlInv, WriterInv
<1> QED
    BY <1>1, ControlInvariance, PTL

-----------------------------------------------------------------------------
(* What the files hold *)

Block == Nat \X Nat

Contents == Seq(Block)

Writing == Receiving /\ inFile /\ ctx.open

\* Blocks of the current file that were stored
Written == handed + (IF item.state = "stored" THEN 1 ELSE 0)

\* The file that is written is there, and the handle not past its end.
PlaceInv ==
    Writing => /\ ctx.path \in Paths /\ fs[ctx.path] \in Contents
               /\ ctx.pos <= Len(fs[ctx.path])

\* NoMixing, block by block
Unmixed ==
    \A p \in Paths \ reused : fs[p] \in Contents =>
       \A i, j \in 1 .. Len(fs[p]) : fs[p][i][1] = fs[p][j][1]

\* A file that is new holds blocks of the file that is received only.
OwnBlocks ==
    Writing /\ ctx.path \notin reused =>
       \A i \in 1 .. Len(fs[ctx.path]) : fs[ctx.path][i][1] = started

\* XMODEM has stored what it acknowledged.
XmodemInv ==
    engine = "x" =>
       /\ ctx.pos = Written
       /\ \A k \in 1 .. Written : fs[ctx.path][k] = <<started, k>>
       /\ ctx.path \notin reused => Len(fs[ctx.path]) = Written

\* The inductive invariant of the contents
ContentInv ==
    /\ fs \in [Paths -> Contents \cup {NoFile}]
    /\ PlaceInv
    /\ Unmixed
    /\ OwnBlocks
    /\ XmodemInv

-----------------------------------------------------------------------------

\* What fs_write makes of a file
Put(s, pos, b) ==
    [i \in 1 .. Len(s) \cup {pos + 1} |-> IF i = pos + 1 THEN b ELSE s[i]]

\* It replaces the block at the position, or adds one at the end.
LEMMA Overwritten ==
    ASSUME NEW s \in Contents, NEW pos \in Nat, pos <= Len(s), NEW b \in Block,
           NEW t, t = Put(s, pos, b)
    PROVE  /\ t \in Contents
           /\ Len(t) = IF pos = Len(s) THEN Len(s) + 1 ELSE Len(s)
           /\ t[pos + 1] = b
           /\ \A i \in 1 .. Len(s) : i # pos + 1 => t[i] = s[i]
<1> DEFINE n == IF pos = Len(s) THEN Len(s) + 1 ELSE Len(s)
<1>1. n \in Nat /\ 1 .. Len(s) \cup {pos + 1} = 1 .. n
    BY DEF Contents
<1>2. \A i \in 1 .. Len(s) : s[i] \in Block
    BY DEF Contents
<1>3. t = [i \in 1 .. n |-> IF i = pos + 1 THEN b ELSE s[i]]
    BY <1>1 DEF Put
<1>4. \A i \in 1 .. n : i = pos + 1 \/ i \in 1 .. Len(s)
    BY <1>1
<1> HIDE DEF n
<1>5. t \in [1 .. n -> Block]
    BY <1>2, <1>3, <1>4
<1>6. t \in Contents
    BY <1>1, <1>5, SeqDef DEF Contents
<1>7. Len(t) = n
    <2>1. DOMAIN t = 1 .. n
        BY <1>3
    <2>2. Len(t) \in Nat /\ DOMAIN t = 1 .. Len(t)
        BY <1>6, LenProperties DEF Contents
    <2> QED
        BY <1>1, <2>1, <2>2
<1>8. pos + 1 \in 1 .. n /\ 1 .. Len(s) \subseteq 1 .. n
    BY <1>1
<1> QED
    BY <1>3, <1>6, <1>7, <1>8 DEF n

LEMMA ContentStarts == Init => ContentInv
<1> SUFFICES ASSUME Init PROVE ContentInv
    OBVIOUS
<1>1. engine = "idle" /\ fs = [p \in Paths |-> NoFile]
    BY DEF Init
<1>2. ~ Writing
    BY <1>1 DEF Writing, Receiving
<1>3. Unmixed
    <2> SUFFICES ASSUME NEW p \in Paths, NEW i \in 1 .. Len(fs[p]), NEW j \in 1 .. Len(fs[p])
                 PROVE  fs[p][i][1] = fs[p][j][1]
        BY DEF Unmixed
    <2>1. Len(fs[p]) = 1
        BY <1>1 DEF NoFile
    <2>2. i = 1 /\ j = 1
        BY <2>1
    <2> QED
        BY <2>2
<1> QED
    BY <1>1, <1>2, <1>3 DEF ContentInv, PlaceInv, OwnBlocks, XmodemInv

\* A step that does not write and opens nothing
LEMMA KeepStep ==
    ASSUME ContentInv, fs' = fs, reused \subseteq reused',
           Writing' => Writing /\ ctx' = ctx /\ started' = started,
           engine' = "x" => /\ engine = "x" /\ ctx' = ctx /\ started' = started
                            /\ Written' = Written
    PROVE  ContentInv'
<1>1. PlaceInv'
    BY DEF ContentInv, PlaceInv
<1>2. Unmixed'
    BY DEF ContentInv, Unmixed
<1>3. OwnBlocks'
    BY DEF ContentInv, OwnBlocks
<1>4. XmodemInv'
    BY DEF ContentInv, XmodemInv
<1> QED
    BY <1>1, <1>2, <1>3, <1>4 DEF ContentInv

\* A file is opened to be written.
LEMMA OpenStep ==
    ASSUME ContentInv, NEW p \in Paths, Open(p), handles \in Int,
           started \in Nat, started' = started + 1, reused' = reused \cup Reopened,
           Written' = 0
    PROVE  ContentInv'
<1>1. ctx' = [open |-> TRUE, path |-> p, pos |-> 0] /\ handles' = handles + 1
    BY DEF Open
<1>2. ctx'.path = p /\ ctx'.pos = 0
    BY <1>1
<1>3. fs \in [Paths -> Contents \cup {NoFile}]
    BY DEF ContentInv
<1>4. /\ \A q \in Paths : q # p => fs'[q] = fs[q]
      /\ fs[p] = NoFile => fs'[p] = <<>>
      /\ fs[p] # NoFile => fs'[p] = fs[p]
      /\ DOMAIN fs' = Paths /\ fs' = [q \in Paths |-> fs'[q]]
    BY <1>3 DEF Open
<1>5. fs'[p] \in Contents
    <2>1. <<>> \in Contents
        BY DEF Contents
    <2>2. CASE fs[p] = NoFile
        BY <1>4, <2>1, <2>2
    <2>3. CASE fs[p] # NoFile
        BY <1>3, <1>4, <2>3
    <2> QED
        BY <2>2, <2>3
<1>6. fs' \in [Paths -> Contents \cup {NoFile}]
    BY <1>3, <1>4, <1>5
<1>7. fs[p] # NoFile => p \in reused'
    <2>1. started' > started /\ handles' > handles
        BY <1>1
    <2> QED
        BY <1>2, <2>1 DEF Reopened
<1>8. reused \subseteq reused'
    OBVIOUS
<1>9. p \notin reused' => fs'[p] = <<>> /\ Len(fs'[p]) = 0
    BY <1>4, <1>7
<1>10. PlaceInv'
    BY <1>2, <1>5 DEF PlaceInv, Contents
<1>11. Unmixed'
    BY <1>4, <1>8, <1>9 DEF ContentInv, Unmixed
<1>12. OwnBlocks'
    BY <1>2, <1>9 DEF OwnBlocks
<1>13. XmodemInv'
    BY <1>2, <1>9 DEF XmodemInv
<1> QED
    BY <1>6, <1>10, <1>11, <1>12, <1>13 DEF ContentInv

\* The block that was handed over is written.
LEMMA StoreStep ==
    ASSUME ControlInv, ContentInv, Writing, Store(<<started, handed + 1>>),
           UNCHANGED <<engine, started, reused>>,
           Written = handed, Written' = handed + 1
    PROVE  ContentInv'
<1> DEFINE p == ctx.path
           b == <<started, handed + 1>>
           t == Put(fs[p], ctx.pos, b)
<1>1. /\ p \in Paths /\ fs[p] \in Contents /\ ctx.pos <= Len(fs[p])
      /\ ctx \in CtxType /\ ctx.pos \in Nat /\ started \in Nat /\ handed \in Nat
      /\ fs \in [Paths -> Contents \cup {NoFile}]
    BY DEF ContentInv, PlaceInv, ControlInv, ControlTypes, CtxType
<1>2. b \in Block /\ b[1] = started
    BY <1>1 DEF Block
<1>3. fs' = [fs EXCEPT ![p] = t] /\ ctx' = [ctx EXCEPT !.pos = @ + 1]
    BY DEF Store, Put
<1>4. ctx'.path = p /\ ctx'.pos = ctx.pos + 1
    BY <1>1, <1>3 DEF CtxType
<1> HIDE DEF b
<1>5. /\ t \in Contents
      /\ Len(t) = IF ctx.pos = Len(fs[p]) THEN Len(fs[p]) + 1 ELSE Len(fs[p])
      /\ t[ctx.pos + 1] = b
      /\ \A i \in 1 .. Len(fs[p]) : i # ctx.pos + 1 => t[i] = fs[p][i]
    <2>1. fs[p] \in Contents /\ ctx.pos \in Nat /\ ctx.pos <= Len(fs[p])
        BY <1>1
    <2>2. b \in Block
        BY <1>2
    <2>3. t = Put(fs[p], ctx.pos, b)
        OBVIOUS
    <2> HIDE DEF t, p
    <2>4. t \in Contents
        BY <2>1, <2>2, <2>3, Overwritten
    <2>5. Len(t) = IF ctx.pos = Len(fs[p]) THEN Len(fs[p]) + 1 ELSE Len(fs[p])
        BY <2>1, <2>2, <2>3, Overwritten
    <2>6. t[ctx.pos + 1] = b
        BY <2>1, <2>2, <2>3, Overwritten
    <2>7. ASSUME NEW i \in 1 .. Len(fs[p]), i # ctx.pos + 1 PROVE t[i] = fs[p][i]
        BY <2>1, <2>2, <2>3, <2>7, Overwritten
    <2> QED
        BY <2>4, <2>5, <2>6, <2>7
<1> HIDE DEF t
<1>6. fs'[p] = t /\ \A q \in Paths : q # p => fs'[q] = fs[q]
    BY <1>1, <1>3
<1>7. fs' \in [Paths -> Contents \cup {NoFile}]
    BY <1>1, <1>3, <1>5
<1>8. Len(fs[p]) \in Nat
    BY <1>1 DEF Contents
<1>9. PlaceInv'
    BY <1>1, <1>4, <1>5, <1>6, <1>8 DEF PlaceInv
<1>10. ASSUME p \notin reused, NEW i \in 1 .. Len(t) PROVE t[i][1] = started
    <2>1. \A k \in 1 .. Len(fs[p]) : fs[p][k][1] = started
        BY <1>10 DEF ContentInv, OwnBlocks
    <2>2. i = ctx.pos + 1 \/ (i \in 1 .. Len(fs[p]) /\ i # ctx.pos + 1)
        BY <1>1, <1>5, <1>8
    <2> QED
        BY <1>2, <1>5, <2>1, <2>2
<1>11. Unmixed'
    <2> SUFFICES ASSUME NEW q \in Paths \ reused, fs'[q] \in Contents,
                        NEW i \in 1 .. Len(fs'[q]), NEW j \in 1 .. Len(fs'[q])
                 PROVE  fs'[q][i][1] = fs'[q][j][1]
        BY DEF Unmixed
    <2>1. CASE q = p
        BY <1>6, <1>10, <2>1
    <2>2. CASE q # p
        BY <1>6, <2>2 DEF ContentInv, Unmixed
    <2> QED
        BY <2>1, <2>2
<1>12. OwnBlocks'
    BY <1>4, <1>6, <1>10 DEF OwnBlocks
<1>13. XmodemInv'
    <2> SUFFICES ASSUME engine = "x" PROVE XmodemInv'
        BY DEF XmodemInv
    <2>1. /\ ctx.pos = handed
          /\ \A k \in 1 .. handed : fs[p][k] = <<started, k>>
          /\ p \notin reused => Len(fs[p]) = handed
        BY DEF ContentInv, XmodemInv
    <2>2. \A k \in 1 .. handed : t[k] = <<started, k>>
        BY <1>1, <1>5, <1>8, <2>1
    <2>3. t[handed + 1] = <<started, handed + 1>>
        BY <1>5, <2>1 DEF b
    <2>4. \A k \in 1 .. handed + 1 : t[k] = <<started, k>>
        BY <1>1, <2>2, <2>3
    <2>5. p \notin reused => Len(t) = handed + 1
        BY <1>5, <2>1
    <2> QED
        BY <1>4, <1>6, <2>1, <2>4, <2>5 DEF XmodemInv
<1> QED
    BY <1>7, <1>9, <1>11, <1>12, <1>13 DEF ContentInv

LEMMA CallContent ==
    ASSUME ControlInv, ContentInv, ~ inWrite, Call, UNCHANGED <<inWrite, item>>,
           reused' = reused \cup Reopened
    PROVE  ContentInv'
<1>0. /\ ControlTypes /\ PhaseInv /\ item.state = "none" /\ item' = item
      /\ handles \in Int /\ started \in Nat
    BY DEF ControlInv, WriterInv, ControlTypes
<1>1. reused \subseteq reused'
    OBVIOUS
<1>2. ASSUME NEW p \in Paths, Open(p), NextFile PROVE ContentInv'
    <2>1. Written' = 0
        BY <1>0, <1>2 DEF Written, NextFile
    <2> QED
        BY <1>0, <1>2, <2>1, OpenStep DEF NextFile
<1>3. ASSUME fs' = fs, ~ Writing', engine' # "x" PROVE ContentInv'
    BY <1>1, <1>3, KeepStep
<1>4. ASSUME NEW p \in Paths, RxXmodem(p) PROVE ContentInv'
    <2>1. CASE Open(p)
        BY <1>2, <1>4, <2>1 DEF RxXmodem
    <2>2. CASE UNCHANGED <<fs, handles, ctx, engine, inFile>>
        BY <1>3, <1>4, <2>2 DEF RxXmodem, Writing, Receiving
    <2> QED
        BY <1>4, <2>1, <2>2 DEF RxXmodem
<1>5. ASSUME NEW p \in Paths, FileStart(p) PROVE ContentInv'
    <2>1. CASE Open(p)
        BY <1>2, <1>5, <2>1 DEF FileStart
    <2>2. CASE UNCHANGED <<fs, handles, ctx>>
        BY <1>0, <1>3, <1>5, <2>2 DEF FileStart, Writing, PhaseInv
    <2> QED
        BY <1>5, <2>1, <2>2 DEF FileStart
<1>6. ASSUME RxBatch PROVE ContentInv'
    BY <1>3, <1>6, ClosedCtx DEF RxBatch, Writing
<1>7. ASSUME FileEnd PROVE ContentInv'
    BY <1>3, <1>7, ClosedCtx DEF FileEnd, Close, Writing
<1>8. ASSUME XmodemReturns \/ BatchReturns \/ TxReturns PROVE ContentInv'
    BY <1>3, <1>8 DEF XmodemReturns, BatchReturns, TxReturns, Writing, Receiving
<1>9. ASSUME NEW p \in Paths, TxFile(p) \/ DirFile(p) PROVE ContentInv'
    BY <1>3, <1>9 DEF TxFile, DirFile, Writing, Receiving
<1>10. ASSUME TxDirectory \/ NotDone \/ DirFileSent \/ DirReturns PROVE ContentInv'
    BY <1>3, <1>10 DEF TxDirectory, NotDone, DirFileSent, DirReturns, Writing, Receiving
<1> QED
    BY <1>4, <1>5, <1>6, <1>7, <1>8, <1>9, <1>10, Zenon DEF Call

LEMMA WriteContent ==
    ASSUME ControlInv, ContentInv, reused' = reused \cup Reopened,
           Submit \/ WorkerWrites \/ Data \/ DataLost \/ XmodemDataFails
    PROVE  ContentInv'
<1>0. /\ ControlTypes /\ PhaseInv /\ WriterInv
      /\ ctx \in CtxType /\ ctx.open \in BOOLEAN /\ handed \in Nat /\ started \in Nat
    BY ControlFacts DEF ControlInv, ControlTypes
<1>1. reused \subseteq reused'
    OBVIOUS
<1>2. started' = started => reused' = reused
    BY <1>0 DEF Reopened
<1>3. ASSUME Submit PROVE ContentInv'
    <2>1. Written' = Written
        BY <1>0, <1>3 DEF Submit, WriterInv, Written
    <2> QED
        BY <1>1, <1>3, <2>1, KeepStep DEF Submit, Writing, Receiving
<1>4. ASSUME WorkerWrites PROVE ContentInv'
    <2>1. /\ inWrite /\ Writing /\ item.block = <<started, handed + 1>>
          /\ Written = handed
        BY <1>0, <1>4 DEF WorkerWrites, WriterInv, Writing, Written
    <2>2. CASE Store(item.block) /\ item' = [item EXCEPT !.state = "stored"]
        <3>1. item'.state = "stored" /\ handed' = handed
            BY <1>0, <1>4, <2>2 DEF WorkerWrites, ControlTypes, ItemType
        <3>2. Written' = handed + 1
            BY <3>1 DEF Written
        <3> QED
            BY <1>2, <1>4, <2>1, <2>2, <3>2, StoreStep DEF WorkerWrites
    <2>3. CASE UNCHANGED <<fs, ctx>> /\ item' = [item EXCEPT !.state = "failed"]
        <3>1. item'.state = "failed" /\ handed' = handed
            BY <1>0, <1>4, <2>3 DEF WorkerWrites, ControlTypes, ItemType
        <3>2. Written' = handed
            BY <1>0, <3>1 DEF Written
        <3> QED
            BY <1>1, <1>4, <2>1, <2>3, <3>2, KeepStep DEF WorkerWrites, Writing, Receiving
    <2> QED
        BY <1>4, <2>2, <2>3 DEF WorkerWrites
<1>5. ASSUME Data PROVE ContentInv'
    <2>1. handed' = handed + 1 /\ UNCHANGED <<engine, inFile, started>> /\ Receiving /\ inFile
        BY <1>5 DEF Data, HandOver, Handing, Receiving
    <2>2. CASE ~ inWrite /\ Store(<<started, handed + 1>>) /\ UNCHANGED <<inWrite, item>>
        <3>1. Written = handed /\ Written' = handed + 1
            BY <1>0, <2>1, <2>2 DEF WriterInv, Written
        <3>2. Writing
            BY <2>1, <2>2 DEF Store, Writing
        <3> QED
            BY <1>2, <2>1, <2>2, <3>1, <3>2, StoreStep
    <2>3. CASE Flushed("stored") /\ UNCHANGED <<fs, ctx>>
        <3>1. Written = handed + 1 /\ Written' = handed + 1
            BY <1>0, <2>1, <2>3, NoItemOne DEF Flushed, Written
        <3> QED
            BY <1>1, <2>1, <2>3, <3>1, KeepStep DEF Writing, Receiving
    <2> QED
        BY <1>5, <2>2, <2>3 DEF Data, Stores
<1>6. ASSUME DataLost PROVE ContentInv'
    BY <1>1, <1>6, KeepStep DEF DataLost, HandOver, Writing, Receiving
<1>7. ASSUME XmodemDataFails PROVE ContentInv'
    BY <1>1, <1>7, KeepStep DEF XmodemDataFails, Writing, Receiving
<1> QED
    BY <1>3, <1>4, <1>5, <1>6, <1>7

LEMMA ContentSteps == ControlInv /\ ContentInv /\ [Next]_vars => ContentInv'
<1> SUFFICES ASSUME ControlInv, ContentInv, [Next]_vars PROVE ContentInv'
    OBVIOUS
<1>1. CASE Next /\ ~ SetSettings
    BY <1>1, CallContent, WriteContent, Zenon DEF Next
<1>2. ASSUME UNCHANGED <<fs, engine, inFile, ctx, started, handed, item, reused>>
      PROVE  ContentInv'
    BY <1>2, KeepStep DEF Writing, Receiving, Written
<1>3. CASE SetSettings
    BY <1>2, <1>3, Zenon DEF SetSettings
<1>4. CASE UNCHANGED vars
    BY <1>2, <1>4, Zenon DEF vars
<1> QED
    BY <1>1, <1>3, <1>4

-----------------------------------------------------------------------------

\* The inductive invariant of the contents holds in every state.
THEOREM ContentInvariance == Spec => []ContentInv
BY ContentStarts, ContentSteps, ControlInvariance, PTL DEF Spec

\* A file that was not opened over another holds blocks of one received file,
\* with any settings at any time and whatever fails.
THEOREM FilesDoNotMix == Spec => []NoMixing
<1>1. ContentInv => NoMixing
    <2> SUFFICES ASSUME ContentInv, NEW p \in Paths \ reused,
                        NEW a \in Blocks(p), NEW b \in Blocks(p)
                 PROVE  a[1] = b[1]
        BY DEF NoMixing
    <2>1. fs[p] # NoFile
        BY DEF Blocks
    <2>2. fs[p] \in Contents
        BY <2>1 DEF ContentInv
    <2>3. PICK i \in 1 .. Len(fs[p]), j \in 1 .. Len(fs[p]) : a = fs[p][i] /\ b = fs[p][j]
        BY <2>1 DEF Blocks
    <2> QED
        BY <2>2, <2>3 DEF ContentInv, Unmixed
<1> QED
    BY <1>1, ContentInvariance, PTL

\* An XMODEM receive that reports success has stored every block the engine
\* acknowledged, in order and from the beginning of its file.
THEOREM XmodemSuccessIsStored == Spec => XmodemOkStored
<1>1. ControlInv /\ ContentInv /\ [Next]_vars =>
         [(engine = "x" /\ engine' = "idle" /\ result' = "OK")
             => /\ handed <= Len(fs[ctx.path])
                /\ \A k \in 1 .. handed : fs[ctx.path][k] = <<started, k>>
                /\ ctx.path \notin reused => Len(fs[ctx.path]) = handed]_vars
    <2> SUFFICES ASSUME ControlInv, ContentInv, Next,
                        engine = "x", engine' = "idle", result' = "OK"
                 PROVE  /\ handed <= Len(fs[ctx.path])
                        /\ \A k \in 1 .. handed : fs[ctx.path][k] = <<started, k>>
                        /\ ctx.path \notin reused => Len(fs[ctx.path]) = handed
        OBVIOUS
    <2>1. ~ inWrite
        <3>1. ~ (Submit \/ WorkerWrites \/ Data \/ DataLost \/ XmodemDataFails \/ SetSettings)
            BY DEF Submit, WorkerWrites, Data, DataLost, XmodemDataFails, SetSettings, HandOver
        <3> QED
            BY <3>1, Zenon DEF Next
    <2>2. Written = handed
        BY <2>1 DEF ControlInv, ControlTypes, WriterInv, Written
    <2>3. Writing
        BY DEF ControlInv, PhaseInv, Writing, Receiving
    <2> QED
        BY <2>2, <2>3 DEF ContentInv, PlaceInv, XmodemInv
<1> QED
    BY <1>1, ControlInvariance, ContentInvariance, PTL DEF Spec, XmodemOkStored

-----------------------------------------------------------------------------
(* Types and bounds *)

\* Every file that was abandoned was started, and one inside a batch is not yet
\* abandoned; what the command that runs has to close is open.
CountInv ==
    /\ started <= MaxFiles /\ abandoned <= started
    /\ engine \in {"y", "z"} /\ inFile => abandoned < started
    /\ Held <= handles

\* The handle is not behind the blocks handed over, of which there is room for
\* one more while write_file_data waits.
BoundInv ==
    /\ handed <= MaxBlocks /\ (inWrite => handed < MaxBlocks)
    /\ ctx.pos <= MaxBlocks /\ (Writing => ctx.pos <= Written)
    /\ ctx.open => ctx.path \in Paths
    /\ \A p \in Paths : fs[p] = NoFile \/ Len(fs[p]) <= MaxBlocks
    /\ item.block \in (0 .. MaxFiles) \X (0 .. MaxBlocks)

\* What takes its values from a set whatever happens
DomainInv ==
    /\ result \in {"none", "OK", "FAIL"}
    /\ inFile \in BOOLEAN /\ inWrite \in BOOLEAN
    /\ toSend \subseteq Paths /\ reused \subseteq Paths
    /\ settings \in [overwrite : Modes, async : BOOLEAN]

ExtentInv == CountInv /\ BoundInv /\ DomainInv

LEMMA ClosedPos == Closed.pos = 0
BY Zenon DEF Closed

LEMMA OpenedPos == \A p \in Paths :
                      /\ [open |-> TRUE, path |-> p, pos |-> 0].pos = 0
                      /\ [open |-> TRUE, path |-> p, pos |-> 0].path = p
OBVIOUS

LEMMA MovedPos == \A c \in CtxType :
                     /\ [c EXCEPT !.pos = @ + 1].pos = c.pos + 1
                     /\ [c EXCEPT !.pos = @ + 1].path = c.path
BY DEF CtxType

LEMMA CallCounts ==
    ASSUME ControlInv, CountInv, Call
    PROVE  CountInv'
<1>0. ControlTypes /\ PhaseInv /\ ctx.open \in BOOLEAN /\ MaxFiles \in Nat
    BY ControlFacts, ConsoleAssumption
<1>1. ASSUME NEW p \in Paths, RxXmodem(p) PROVE CountInv'
    BY <1>0, <1>1, ClosedCtx, OpenedCtx DEF RxXmodem, NextFile, Open, CountInv, Held, PhaseInv, ControlTypes, Receiving
<1>2. ASSUME NEW p \in Paths, FileStart(p) PROVE CountInv'
    BY <1>0, <1>2, ClosedCtx, OpenedCtx DEF FileStart, NextFile, Open, CountInv, Held, PhaseInv, ControlTypes, Receiving
<1>3. ASSUME RxBatch PROVE CountInv'
    BY <1>0, <1>3, ClosedCtx, OpenedCtx DEF RxBatch, CountInv, Held, PhaseInv, ControlTypes, Receiving
<1>4. ASSUME FileEnd PROVE CountInv'
    BY <1>0, <1>4, ClosedCtx, OpenedCtx DEF FileEnd, Close, CountInv, Held, PhaseInv, ControlTypes, Receiving
<1>5. ASSUME XmodemReturns PROVE CountInv'
    BY <1>0, <1>5, ClosedCtx, OpenedCtx DEF XmodemReturns, Close, CountInv, Held, PhaseInv, ControlTypes, Receiving
<1>6. ASSUME BatchReturns PROVE CountInv'
    BY <1>0, <1>6, ClosedCtx, OpenedCtx DEF BatchReturns, CountInv, Held, PhaseInv, ControlTypes, Receiving
<1>7. ASSUME NEW p \in Paths, TxFile(p) PROVE CountInv'
    BY <1>0, <1>7, ClosedCtx, OpenedCtx DEF TxFile, OpenInput, CountInv, Held, PhaseInv, ControlTypes, Receiving
<1>8. ASSUME NEW p \in Paths, DirFile(p) PROVE CountInv'
    BY <1>0, <1>8, ClosedCtx, OpenedCtx DEF DirFile, OpenInput, CountInv, Held, PhaseInv, ControlTypes, Receiving
<1>9. ASSUME TxReturns PROVE CountInv'
    BY <1>0, <1>9, ClosedCtx, OpenedCtx DEF TxReturns, Close, CountInv, Held, PhaseInv, ControlTypes, Receiving
<1>10. ASSUME TxDirectory PROVE CountInv'
    BY <1>0, <1>10, ClosedCtx, OpenedCtx DEF TxDirectory, CountInv, Held, PhaseInv, ControlTypes, Receiving
<1>11. ASSUME NotDone PROVE CountInv'
    BY <1>0, <1>11, ClosedCtx, OpenedCtx DEF NotDone, CountInv, Held, PhaseInv, ControlTypes, Receiving
<1>12. ASSUME DirFileSent PROVE CountInv'
    BY <1>0, <1>12, ClosedCtx, OpenedCtx DEF DirFileSent, Close, CountInv, Held, PhaseInv, ControlTypes, Receiving
<1>13. ASSUME DirReturns PROVE CountInv'
    BY <1>0, <1>13, ClosedCtx, OpenedCtx DEF DirReturns, CountInv, Held, PhaseInv, ControlTypes, Receiving
<1> QED
    BY <1>1, <1>2, <1>3, <1>4, <1>5, <1>6, <1>7, <1>8, <1>9, <1>10, <1>11, <1>12, <1>13, Zenon DEF Call

LEMMA WriteCounts ==
    ASSUME ControlInv, CountInv, Submit \/ WorkerWrites \/ Data \/ DataLost \/ XmodemDataFails
    PROVE  CountInv'
<1>0. ControlTypes /\ PhaseInv /\ ctx \in CtxType /\ ctx.open \in BOOLEAN /\ MaxFiles \in Nat
    BY ControlFacts, ConsoleAssumption DEF ControlTypes
<1>1. ASSUME UNCHANGED <<handles, engine, inFile, started, abandoned>>, ctx'.open = ctx.open
      PROVE  CountInv'
    BY <1>1 DEF CountInv, Held
<1>2. ASSUME Submit PROVE CountInv'
    BY <1>1, <1>2 DEF Submit
<1>3. ASSUME WorkerWrites PROVE CountInv'
    BY <1>0, <1>1, <1>3, MovedCtx DEF WorkerWrites, Store
<1>4. ASSUME Data PROVE CountInv'
    BY <1>0, <1>1, <1>4, MovedCtx DEF Data, HandOver, Stores, Store
<1>5. ASSUME DataLost PROVE CountInv'
    BY <1>1, <1>5 DEF DataLost, HandOver
<1>6. ASSUME XmodemDataFails PROVE CountInv'
    BY <1>0, <1>6, ClosedCtx DEF XmodemDataFails, Close, CountInv, Held, PhaseInv, ControlTypes
<1> QED
    BY <1>2, <1>3, <1>4, <1>5, <1>6

\* A step that writes nothing and begins no file
LEMMA BoundKept ==
    ASSUME BoundInv, fs' = fs, item' = item, handed' = handed, inWrite' => inWrite,
           ctx'.pos = 0 \/ (ctx'.pos = ctx.pos /\ (Writing' => Writing)),
           ctx'.open => ctx'.path \in Paths,
           handed \in Nat, MaxBlocks \in Nat
    PROVE  BoundInv'
<1>1. Written' = Written /\ 0 <= Written /\ 0 <= MaxBlocks
    BY DEF Written
<1>2. ctx'.pos <= MaxBlocks /\ (Writing' => ctx'.pos <= Written')
    BY <1>1 DEF BoundInv
<1> QED
    BY <1>2 DEF BoundInv

LEMMA BeginsFile ==
    ASSUME ContentInv, BoundInv, ~ inWrite, NextFile, UNCHANGED <<inWrite, item>>,
           item.state # "stored",
           (\E p \in Paths : Open(p)) \/ (UNCHANGED <<fs, ctx>> /\ ~ Writing')
    PROVE  BoundInv'
<1>0. MaxBlocks \in Nat /\ fs \in [Paths -> Contents \cup {NoFile}]
    BY ConsoleAssumption DEF ContentInv
<1>1. handed' = 0 /\ 0 <= MaxBlocks /\ ~ inWrite' /\ item' = item
    BY <1>0 DEF NextFile
<1>2. CASE UNCHANGED <<fs, ctx>> /\ ~ Writing'
    BY <1>1, <1>2 DEF BoundInv
<1>3. ASSUME NEW p \in Paths, Open(p) PROVE BoundInv'
    <2>1. ctx' = [open |-> TRUE, path |-> p, pos |-> 0]
        BY <1>3 DEF Open
    <2>2. ctx'.pos = 0 /\ ctx'.path \in Paths
        BY <2>1, OpenedPos
    <2>3. Written' = 0
        BY <1>1 DEF Written
    <2>4. ASSUME NEW q \in Paths PROVE fs'[q] = NoFile \/ Len(fs'[q]) <= MaxBlocks
        <3>1. fs'[q] = fs[q] \/ fs'[q] = <<>>
            BY <1>0, <1>3 DEF Open
        <3>2. Len(<<>>) = 0
            OBVIOUS
        <3> QED
            BY <1>1, <3>1, <3>2 DEF BoundInv
    <2> QED
        BY <1>1, <2>2, <2>3, <2>4 DEF BoundInv
<1> QED
    BY <1>2, <1>3

LEMMA CallBounds ==
    ASSUME ControlInv, ContentInv, BoundInv, ~ inWrite, Call, UNCHANGED <<inWrite, item>>
    PROVE  BoundInv'
<1>0. /\ ControlTypes /\ PhaseInv /\ ctx.open \in BOOLEAN /\ item.state = "none"
      /\ handed \in Nat /\ MaxBlocks \in Nat
    BY ControlFacts, ConsoleAssumption DEF WriterInv, ControlTypes
<1>1. ASSUME fs' = fs, handed' = handed, ctx' = Closed PROVE BoundInv'
    BY <1>0, <1>1, ClosedCtx, ClosedPos, BoundKept
<1>2. ASSUME fs' = fs, handed' = handed, ctx' = ctx, ~ Writing' PROVE BoundInv'
    BY <1>0, <1>2, BoundKept DEF BoundInv
<1>3. ASSUME NEW p \in Paths, fs' = fs, handed' = handed, OpenInput(p) PROVE BoundInv'
    <2>1. ctx'.pos = 0 /\ ctx'.path \in Paths
        BY <1>3, OpenedPos DEF OpenInput
    <2> QED
        BY <1>0, <1>3, <2>1, BoundKept
<1>4. ASSUME NEW p \in Paths, RxXmodem(p) PROVE BoundInv'
    <2>1. CASE Open(p)
        BY <1>0, <1>4, <2>1, BeginsFile DEF RxXmodem
    <2>2. CASE UNCHANGED <<fs, handles, ctx, engine, inFile>>
        <3>1. ~ Writing'
            BY <1>4, <2>2 DEF RxXmodem, Writing, Receiving
        <3> QED
            BY <1>0, <1>4, <2>2, <3>1, BeginsFile DEF RxXmodem
    <2> QED
        BY <1>4, <2>1, <2>2 DEF RxXmodem
<1>5. ASSUME NEW p \in Paths, FileStart(p) PROVE BoundInv'
    <2>1. CASE Open(p)
        BY <1>0, <1>5, <2>1, BeginsFile DEF FileStart
    <2>2. CASE UNCHANGED <<fs, handles, ctx>>
        <3>1. ~ Writing'
            BY <1>0, <1>5, <2>2 DEF FileStart, Writing, PhaseInv
        <3> QED
            BY <1>0, <1>5, <2>2, <3>1, BeginsFile DEF FileStart
    <2> QED
        BY <1>5, <2>1, <2>2 DEF FileStart
<1>6. ASSUME RxBatch \/ FileEnd \/ XmodemReturns \/ TxReturns \/ TxDirectory \/ DirFileSent
      PROVE  BoundInv'
    BY <1>1, <1>6 DEF RxBatch, FileEnd, XmodemReturns, TxReturns, TxDirectory, DirFileSent, Close
<1>7. ASSUME BatchReturns \/ NotDone \/ DirReturns PROVE BoundInv'
    BY <1>2, <1>7 DEF BatchReturns, NotDone, DirReturns, Writing, Receiving
<1>8. ASSUME NEW p \in Paths, TxFile(p) PROVE BoundInv'
    <2>1. CASE OpenInput(p)
        BY <1>3, <1>8, <2>1 DEF TxFile
    <2>2. CASE UNCHANGED <<handles, engine, ctx>>
        BY <1>2, <1>8, <2>2 DEF TxFile, Writing, Receiving
    <2> QED
        BY <1>8, <2>1, <2>2 DEF TxFile
<1>9. ASSUME NEW p \in Paths, DirFile(p) PROVE BoundInv'
    <2>1. CASE OpenInput(p)
        BY <1>3, <1>9, <2>1 DEF DirFile
    <2>2. CASE UNCHANGED <<handles, ctx>>
        BY <1>2, <1>9, <2>2 DEF DirFile, Writing, Receiving
    <2> QED
        BY <1>9, <2>1, <2>2 DEF DirFile
<1> QED
    BY <1>4, <1>5, <1>6, <1>7, <1>8, <1>9, Zenon DEF Call

\* A block is written: one more than the handle was behind, within the bound.
LEMMA StoreBounds ==
    ASSUME ControlInv, ContentInv, BoundInv, Writing, NEW b \in Block, Store(b),
           handed < MaxBlocks, Written = handed, Written' = handed + 1,
           handed' <= MaxBlocks, inWrite' => handed' < MaxBlocks,
           item'.block \in (0 .. MaxFiles) \X (0 .. MaxBlocks)
    PROVE  BoundInv'
<1> DEFINE p == ctx.path
           t == Put(fs[p], ctx.pos, b)
<1>1. /\ p \in Paths /\ fs[p] \in Contents /\ ctx.pos <= Len(fs[p])
      /\ ctx \in CtxType /\ ctx.pos \in Nat /\ handed \in Nat /\ MaxBlocks \in Nat
      /\ fs \in [Paths -> Contents \cup {NoFile}]
    BY ConsoleAssumption DEF ContentInv, PlaceInv, ControlInv, ControlTypes, CtxType
<1>2. fs' = [fs EXCEPT ![p] = t] /\ ctx' = [ctx EXCEPT !.pos = @ + 1]
    BY DEF Store, Put
<1>3. ctx'.path = p /\ ctx'.pos = ctx.pos + 1
    BY <1>1, <1>2, MovedPos
<1>4. Len(t) = IF ctx.pos = Len(fs[p]) THEN Len(fs[p]) + 1 ELSE Len(fs[p])
    <2>1. fs[p] \in Contents /\ ctx.pos \in Nat /\ ctx.pos <= Len(fs[p]) /\ t = Put(fs[p], ctx.pos, b)
        BY <1>1
    <2> HIDE DEF t, p
    <2> QED
        BY <2>1, Overwritten
<1>5. ctx.pos < MaxBlocks /\ ctx.pos <= handed
    BY <1>1 DEF BoundInv
<1> HIDE DEF t
<1>6. Len(t) <= MaxBlocks \/ fs[p] = NoFile
    <2>1. CASE ctx.pos = Len(fs[p])
        BY <1>1, <1>4, <1>5, <2>1
    <2>2. CASE ctx.pos # Len(fs[p])
        BY <1>1, <1>4, <2>2 DEF BoundInv
    <2> QED
        BY <2>1, <2>2
<1>7. Len(t) <= MaxBlocks
    <2>1. CASE fs[p] = NoFile
        <3>1. Len(fs[p]) = 1
            BY <2>1 DEF NoFile
        <3> QED
            BY <1>1, <1>4, <1>5, <3>1
    <2> QED
        BY <1>6, <2>1
<1>8. \A q \in Paths : fs'[q] = NoFile \/ Len(fs'[q]) <= MaxBlocks
    BY <1>1, <1>2, <1>7 DEF BoundInv
<1>9. ctx'.pos <= MaxBlocks /\ ctx'.pos <= Written' /\ ctx'.path \in Paths
    BY <1>1, <1>3, <1>5
<1> QED
    BY <1>8, <1>9 DEF BoundInv

LEMMA WriteBounds ==
    ASSUME ControlInv, ContentInv, BoundInv, CountInv,
           Submit \/ WorkerWrites \/ Data \/ DataLost \/ XmodemDataFails
    PROVE  BoundInv'
<1>0. /\ ControlTypes /\ PhaseInv /\ WriterInv
      /\ ctx \in CtxType /\ ctx.open \in BOOLEAN /\ handed \in Nat /\ started \in Nat
      /\ item \in ItemType /\ ctx.pos \in Nat
      /\ MaxBlocks \in Nat /\ MaxFiles \in Nat /\ started <= MaxFiles
    BY ControlFacts, ConsoleAssumption DEF ControlInv, ControlTypes, CtxType, CountInv
<1>1. <<started, handed + 1>> \in Block
    BY <1>0 DEF Block
<1>2. NoItem.block \in (0 .. MaxFiles) \X (0 .. MaxBlocks)
    BY <1>0 DEF NoItem
<1>3. ASSUME Submit PROVE BoundInv'
    <2>1. /\ handed < MaxBlocks /\ ~ inWrite /\ item.state = "none"
          /\ item' = [state |-> "queued", block |-> <<started, handed + 1>>]
          /\ UNCHANGED <<fs, ctx, handed, engine, inFile>>
        BY <1>0, <1>3 DEF Submit, Handing, WriterInv
    <2>2. item'.state = "queued" /\ item'.block = <<started, handed + 1>>
        BY <2>1
    <2>3. item'.block \in (0 .. MaxFiles) \X (0 .. MaxBlocks)
        BY <1>0, <2>1, <2>2
    <2>4. Written' = Written /\ (Writing' <=> Writing)
        BY <2>1, <2>2 DEF Written, Writing, Receiving
    <2> QED
        BY <2>1, <2>3, <2>4 DEF BoundInv
<1>4. ASSUME WorkerWrites PROVE BoundInv'
    <2>1. /\ inWrite /\ Writing /\ item.block = <<started, handed + 1>>
          /\ Written = handed /\ handed < MaxBlocks
          /\ UNCHANGED <<handed, inWrite, engine, inFile>>
        BY <1>0, <1>4 DEF WorkerWrites, WriterInv, Writing, Written, BoundInv
    <2>2. CASE Store(item.block) /\ item' = [item EXCEPT !.state = "stored"]
        <3>1. item'.state = "stored" /\ item'.block = item.block
            BY <1>0, <2>2 DEF ItemType
        <3>2. Written' = handed + 1
            BY <2>1, <3>1 DEF Written
        <3>3. item'.block \in (0 .. MaxFiles) \X (0 .. MaxBlocks)
            BY <3>1 DEF BoundInv
        <3> QED
            BY <1>0, <1>1, <2>1, <2>2, <3>2, <3>3, StoreBounds
    <2>3. CASE UNCHANGED <<fs, ctx>> /\ item' = [item EXCEPT !.state = "failed"]
        <3>1. item'.state = "failed" /\ item'.block = item.block
            BY <1>0, <2>3 DEF ItemType
        <3>2. Written' = handed
            BY <1>0, <2>1, <3>1 DEF Written
        <3>3. Writing' <=> Writing
            BY <2>1, <2>3, Zenon DEF Writing, Receiving
        <3> QED
            BY <2>1, <2>3, <3>1, <3>2, <3>3 DEF BoundInv
    <2> QED
        BY <1>4, <2>2, <2>3 DEF WorkerWrites
<1>5. ASSUME Data PROVE BoundInv'
    <2>1. /\ handed' = handed + 1 /\ handed < MaxBlocks
          /\ UNCHANGED <<engine, inFile>> /\ Receiving /\ inFile
        BY <1>5 DEF Data, HandOver, Handing, Receiving
    <2>2. CASE ~ inWrite /\ Store(<<started, handed + 1>>) /\ UNCHANGED <<inWrite, item>>
        <3>1. Written = handed /\ Written' = handed + 1
            BY <1>0, <2>1, <2>2 DEF WriterInv, Written
        <3>2. Writing
            BY <2>1, <2>2 DEF Store, Writing
        <3>3. item'.block \in (0 .. MaxFiles) \X (0 .. MaxBlocks)
            BY <2>2 DEF BoundInv
        <3>4. handed' <= MaxBlocks /\ ~ inWrite'
            BY <1>0, <2>1, <2>2
        <3> QED
            BY <1>1, <2>1, <2>2, <3>1, <3>2, <3>3, <3>4, StoreBounds
    <2>3. CASE Flushed("stored") /\ UNCHANGED <<fs, ctx>>
        <3>1. Written = handed + 1 /\ Written' = handed + 1
            BY <1>0, <2>1, <2>3, NoItemOne DEF Flushed, Written
        <3>2. (Writing' <=> Writing) /\ handed' <= MaxBlocks /\ ~ inWrite' /\ item' = NoItem
            BY <1>0, <2>1, <2>3 DEF Flushed, Writing, Receiving
        <3> QED
            BY <1>2, <2>3, <3>1, <3>2 DEF BoundInv
    <2> QED
        BY <1>5, <2>2, <2>3 DEF Data, Stores
<1>6. ASSUME DataLost PROVE BoundInv'
    <2>1. /\ handed' = handed + 1 /\ handed < MaxBlocks
          /\ UNCHANGED <<fs, ctx, engine, inFile>>
        BY <1>6 DEF DataLost, HandOver, Handing
    <2>2. CannotStore
        BY <1>6 DEF DataLost
    <2>3. ~ inWrite' /\ item'.state = "none" /\ Written = handed
          /\ item'.block \in (0 .. MaxFiles) \X (0 .. MaxBlocks)
        <3>1. CASE ~ inWrite /\ UNCHANGED <<inWrite, item>>
            BY <1>0, <3>1 DEF WriterInv, Written, BoundInv
        <3>2. CASE Flushed("failed")
            BY <1>0, <1>2, <3>2, NoItemOne DEF Flushed, Written
        <3> QED
            BY <2>2, <3>1, <3>2 DEF CannotStore
    <2>4. Written' = handed + 1 /\ (Writing' <=> Writing) /\ handed' <= MaxBlocks
        BY <1>0, <2>1, <2>3 DEF Written, Writing, Receiving
    <2>5. Writing => ctx.pos <= handed + 1
        BY <1>0, <2>3 DEF BoundInv
    <2> QED
        BY <2>1, <2>3, <2>4, <2>5 DEF BoundInv
<1>7. ASSUME XmodemDataFails PROVE BoundInv'
    <2>1. UNCHANGED <<fs, handed>> /\ ctx' = Closed /\ CannotStore
        BY <1>7 DEF XmodemDataFails, Close
    <2>2. ~ inWrite' /\ item'.block \in (0 .. MaxFiles) \X (0 .. MaxBlocks)
        <3>1. CASE ~ inWrite /\ UNCHANGED <<inWrite, item>>
            BY <3>1 DEF BoundInv
        <3>2. CASE Flushed("failed")
            BY <1>2, <3>2 DEF Flushed
        <3> QED
            BY <2>1, <3>1, <3>2 DEF CannotStore
    <2>3. ctx'.pos = 0 /\ ctx'.open = FALSE /\ ~ Writing'
        BY <2>1, ClosedCtx, ClosedPos DEF Writing
    <2> QED
        BY <1>0, <2>1, <2>2, <2>3 DEF BoundInv
<1> QED
    BY <1>3, <1>4, <1>5, <1>6, <1>7

LEMMA CallDomains ==
    ASSUME DomainInv, Call
    PROVE  /\ result' \in {"none", "OK", "FAIL"} /\ inFile' \in BOOLEAN
           /\ toSend' \subseteq Paths
<1>0. /\ result \in {"none", "OK", "FAIL"} /\ inFile \in BOOLEAN
      /\ toSend \subseteq Paths
    BY DEF DomainInv
<1> DEFINE Goal == /\ result' \in {"none", "OK", "FAIL"} /\ inFile' \in BOOLEAN
                   /\ toSend' \subseteq Paths
<1>1. ASSUME NEW p \in Paths, RxXmodem(p) \/ FileStart(p) PROVE Goal
    BY <1>0, <1>1, Zenon DEF RxXmodem, FileStart
<1>2. ASSUME RxBatch \/ FileEnd \/ XmodemReturns PROVE Goal
    BY <1>0, <1>2, Zenon DEF RxBatch, FileEnd, XmodemReturns
<1>3. ASSUME BatchReturns PROVE Goal
    <2>1. result' \in {"none", "OK", "FAIL"}
        BY <1>3 DEF BatchReturns
    <2> QED
        BY <1>0, <1>3, <2>1, Zenon DEF BatchReturns
<1>4. ASSUME NEW p \in Paths, TxFile(p) \/ DirFile(p) PROVE Goal
    BY <1>0, <1>4, Zenon DEF TxFile, DirFile
<1>5. ASSUME TxReturns \/ NotDone \/ DirFileSent \/ DirReturns PROVE Goal
    BY <1>0, <1>5, Zenon DEF TxReturns, NotDone, DirFileSent, DirReturns
<1>6. ASSUME TxDirectory PROVE Goal
    BY <1>0, <1>6, Zenon DEF TxDirectory
<1> QED
    BY <1>1, <1>2, <1>3, <1>4, <1>5, <1>6, Zenon DEF Call

LEMMA WriteDomains ==
    ASSUME DomainInv, Submit \/ WorkerWrites \/ Data \/ DataLost \/ XmodemDataFails
    PROVE  /\ result' \in {"none", "OK", "FAIL"}
           /\ inFile' \in BOOLEAN /\ inWrite' \in BOOLEAN
           /\ toSend' \subseteq Paths
<1>0. /\ result \in {"none", "OK", "FAIL"} /\ toSend \subseteq Paths
      /\ inFile \in BOOLEAN /\ inWrite \in BOOLEAN
    BY DEF DomainInv
<1>1. CASE Submit \/ WorkerWrites
    BY <1>0, <1>1, Zenon DEF Submit, WorkerWrites
<1>2. CASE Data \/ DataLost
    BY <1>0, <1>2, Zenon DEF Data, DataLost, HandOver, Stores, CannotStore, Flushed
<1>3. CASE XmodemDataFails
    BY <1>0, <1>3, Zenon DEF XmodemDataFails, CannotStore, Flushed
<1> QED
    BY <1>1, <1>2, <1>3

LEMMA ExtentSteps == ControlInv /\ ContentInv /\ ExtentInv /\ [Next]_vars => ExtentInv'
<1> SUFFICES ASSUME ControlInv, ContentInv, CountInv, BoundInv, DomainInv, [Next]_vars
             PROVE  CountInv' /\ BoundInv' /\ DomainInv'
    BY DEF ExtentInv
<1>1. CASE ~ inWrite /\ Call /\ UNCHANGED <<inWrite, item>>
           /\ reused' = reused \cup Reopened /\ UNCHANGED settings
    <2>1. DomainInv'
        <3>1. reused' \subseteq Paths
            BY <1>1 DEF DomainInv, Reopened
        <3> QED
            BY <1>1, <3>1, CallDomains, Zenon DEF DomainInv
    <2> QED
        BY <1>1, <2>1, CallCounts, CallBounds
<1>2. CASE (Submit \/ WorkerWrites \/ Data \/ DataLost \/ XmodemDataFails)
           /\ reused' = reused \cup Reopened /\ UNCHANGED settings
    <2>1. DomainInv'
        <3>1. reused' \subseteq Paths
            BY <1>2 DEF DomainInv, Reopened
        <3> QED
            BY <1>2, <3>1, WriteDomains, Zenon DEF DomainInv
    <2> QED
        BY <1>2, <2>1, WriteCounts, WriteBounds
<1>3. ASSUME UNCHANGED <<fs, handles, engine, result, inFile, ctx, started, handed,
                         toSend, abandoned, inWrite, item, reused>>
      PROVE  CountInv' /\ BoundInv'
    BY <1>3, Zenon DEF CountInv, BoundInv, Held, Writing, Written, Receiving
<1>4. CASE SetSettings
    <2>1. DomainInv'
        BY <1>4, Zenon DEF SetSettings, DomainInv
    <2> QED
        BY <1>3, <1>4, <2>1, Zenon DEF SetSettings
<1>5. CASE UNCHANGED vars
    <2>1. DomainInv'
        BY <1>5, Zenon DEF vars, DomainInv
    <2> QED
        BY <1>3, <1>5, <2>1, Zenon DEF vars
<1> QED
    BY <1>1, <1>2, <1>4, <1>5, Zenon DEF Next

LEMMA ExtentStarts == Init => ExtentInv
<1> SUFFICES ASSUME Init PROVE CountInv /\ BoundInv /\ DomainInv
    BY DEF ExtentInv
<1>1. /\ fs = [p \in Paths |-> NoFile] /\ handles = 0 /\ engine = "idle"
      /\ result = "none" /\ ctx = Closed /\ started = 0 /\ handed = 0
      /\ toSend = {} /\ abandoned = 0 /\ item = NoItem /\ reused = {}
      /\ settings \in [overwrite : Modes, async : BOOLEAN]
      /\ MaxFiles \in Nat /\ MaxBlocks \in Nat
    BY ConsoleAssumption DEF Init
<1>2. inFile = FALSE /\ inWrite = FALSE
    BY DEF Init
<1>3. CountInv
    BY <1>1 DEF CountInv, Held
<1>4. ctx.pos = 0 /\ ctx.open = FALSE /\ ~ Writing
    BY <1>1, ClosedCtx, ClosedPos, Zenon DEF Writing, Receiving
<1>5. item.block \in (0 .. MaxFiles) \X (0 .. MaxBlocks)
    BY <1>1 DEF NoItem
<1>6. BoundInv
    BY <1>1, <1>2, <1>4, <1>5 DEF BoundInv
<1>7. DomainInv
    <2>1. toSend \subseteq Paths /\ reused \subseteq Paths /\ result \in {"none", "OK", "FAIL"}
        BY <1>1
    <2> QED
        BY <1>1, <1>2, <2>1, Zenon DEF DomainInv
<1> QED
    BY <1>3, <1>6, <1>7

\* The counts are within their bounds, handles are neither lost nor returned
\* twice, and no write goes past what the engine handed over.
THEOREM StorageTypes == Spec => []TypeOK
<1>1. ASSUME ControlInv, ExtentInv PROVE TypeOK
    <2>1. /\ handles \in Int /\ abandoned \in Nat /\ started \in Nat /\ handed \in Nat
          /\ engine \in {"idle", "x", "y", "z", "tx", "dir"}
          /\ ctx \in CtxType /\ ctx.open \in BOOLEAN /\ ctx.pos \in Nat
          /\ item \in ItemType /\ MaxFiles \in Nat /\ MaxBlocks \in Nat
        BY <1>1, ControlFacts, ConsoleAssumption DEF ControlTypes, CtxType
    <2>2. Held \in 0 .. 2
        BY DEF Held
    <2>3. /\ started <= MaxFiles /\ abandoned <= started /\ Held <= handles
          /\ handles <= Held + abandoned
        BY <1>1 DEF ExtentInv, CountInv, ControlInv, HandlesInv
    <2>4. handles \in 0 .. MaxFiles + 2 /\ started \in 0 .. MaxFiles /\ abandoned \in 0 .. MaxFiles
        BY <2>1, <2>2, <2>3
    <2>5. handed \in 0 .. MaxBlocks /\ ctx.pos \in 0 .. MaxBlocks
        BY <1>1, <2>1 DEF ExtentInv, BoundInv
    <2>6. item.state \in {"none", "queued", "stored", "failed"}
        BY <2>1 DEF ItemType
    <2>7. BoundInv /\ DomainInv
        BY <1>1 DEF ExtentInv
    <2>8. {inFile, ctx.open} \subseteq BOOLEAN
        BY <2>1, <2>7, Zenon DEF DomainInv
    <2> QED
        BY <2>1, <2>4, <2>5, <2>6, <2>7, <2>8, Zenon DEF TypeOK, BoundInv, DomainInv
<1> QED
    BY <1>1, ExtentStarts, ExtentSteps, ControlInvariance, ContentInvariance, PTL DEF Spec

=============================================================================
