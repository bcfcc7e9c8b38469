--------------------------- MODULE ConsoleStorage ---------------------------
(***************************************************************************)
(* What "modem rx" and "modem tx" do to the file system: the storage       *)
(* callbacks the console gives to the engines, and the commands around it. *)
(* The engines are seen through their callbacks: XMODEM hands over the     *)
(* blocks of one file and stops at the first block that is not stored;     *)
(* YMODEM and ZMODEM start, fill and end any number of files, and look at  *)
(* no result.  Block k of the n-th file ever started is <<n, k>>.  A work   *)
(* queue may do the writing, and another thread may change the settings at *)
(* any time.                                                               *)
(***************************************************************************)
EXTENDS Integers, Sequences

CONSTANTS
    Paths,        \* the paths files are stored under
    Modes,        \* values overwrite_mode may be set to
    FsFails,      \* TRUE: fs_open and fs_write may fail
    FinInFile,    \* TRUE: a ZMODEM sender may send ZFIN inside a file
    MaxFiles,     \* bound on the files started
    MaxBlocks     \* bound on the blocks of a file

ASSUME ConsoleAssumption ==
    /\ Modes \subseteq {"OVERWRITE", "SKIP", "ABORT"}
    /\ {FsFails, FinInFile} \subseteq BOOLEAN
    /\ MaxFiles \in Nat /\ MaxBlocks \in Nat

VARIABLES
    fs,         \* fs[p]: the blocks stored under p, NoFile when there is none
    handles,    \* files and directories the file system holds open
    engine,     \* what runs: "idle", a receiving engine "x", "y" or "z",
                \* "tx" for a file, "dir" for the files of a directory
    result,     \* what the last command returned, "none" before it does
    inFile,     \* between on_file_start and on_file_end
    ctx,        \* console_modem_ctx_t: open handle, path, write position
    started,    \* files started so far
    handed,     \* blocks of the current file handed over by the engine
    toSend,     \* entries of the directory fs_readdir has not returned yet
    abandoned,  \* history: files left open by a batch that returned inside them
    settings,   \* g_modem_settings: overwrite_mode and async_storage
    inWrite,    \* write_file_data waits for the work queue
    item,       \* g_async_work: "none", "queued", "stored" or "failed"; its block
    reused      \* history: paths opened for a file although there was one

vars == <<fs, handles, engine, result, inFile, ctx, started, handed,
          toSend, abandoned, settings, inWrite, item, reused>>

NoFile == <<"none">>

NoItem == [state |-> "none", block |-> <<0, 0>>]

Closed == [open |-> FALSE, path |-> "", pos |-> 0]

TypeOK ==
    /\ \A p \in Paths : fs[p] = NoFile \/ Len(fs[p]) <= MaxBlocks
    /\ handles \in 0 .. MaxFiles + 2
    /\ engine \in {"idle", "x", "y", "z", "tx", "dir"}
    /\ result \in {"none", "OK", "FAIL"}
    /\ {inFile, ctx.open} \subseteq BOOLEAN
    /\ ctx.open => ctx.path \in Paths
    /\ ctx.pos \in 0 .. MaxBlocks
    /\ started \in 0 .. MaxFiles
    /\ handed \in 0 .. MaxBlocks
    /\ toSend \subseteq Paths
    /\ abandoned \in 0 .. MaxFiles
    /\ settings \in [overwrite : Modes, async : BOOLEAN]
    /\ inWrite \in BOOLEAN
    /\ item.state \in {"none", "queued", "stored", "failed"}
    /\ item.block \in (0 .. MaxFiles) \X (0 .. MaxBlocks)
    /\ reused \subseteq Paths

Init ==
    /\ fs = [p \in Paths |-> NoFile]
    /\ handles = 0
    /\ engine = "idle"
    /\ result = "none"
    /\ inFile = FALSE
    /\ ctx = Closed
    /\ started = 0
    /\ handed = 0
    /\ toSend = {}
    /\ abandoned = 0
    /\ settings \in [overwrite : Modes, async : BOOLEAN]
    /\ inWrite = FALSE
    /\ item = NoItem
    /\ reused = {}

-----------------------------------------------------------------------------

Refuses(p) == settings.overwrite # "OVERWRITE" /\ fs[p] # NoFile

\* The policy is read twice: where it is not SKIP yet the first time and not
\* ABORT any more the second, an existing file is opened under neither.
Passes(p) == ~ Refuses(p) \/ ("ABORT" \in Modes /\ settings.overwrite = "SKIP")

CannotOpen(p) == Refuses(p) \/ FsFails

\* open_output_file: an existing file is opened without being truncated.
Open(p) ==
    /\ fs' = [fs EXCEPT ![p] = IF @ = NoFile THEN <<>> ELSE @]
    /\ handles' = handles + 1
    /\ ctx' = [open |-> TRUE, path |-> p, pos |-> 0]

\* open_input_file
OpenInput(p) ==
    /\ handles' = handles + 1
    /\ ctx' = [open |-> TRUE, path |-> p, pos |-> 0]

\* Seeded fault: the count of blocks is not reset.
NextFileEarly ==
    /\ started < MaxFiles
    /\ started' = started + 1
    /\ handed' = handed + 1

NextFile ==
    /\ started < MaxFiles
    /\ started' = started + 1
    /\ handed' = 0

\* console_modem_rx_xmodem opens its file before the engine runs.
RxXmodem(p) ==
    /\ engine = "idle"
    /\ NextFile
    /\ UNCHANGED <<toSend, abandoned>>
    /\ \/ /\ Passes(p)
          /\ Open(p)
          /\ engine' = "x" /\ result' = "none" /\ inFile' = TRUE
       \/ /\ CannotOpen(p)
          /\ result' = "FAIL"
          /\ UNCHANGED <<fs, handles, ctx, engine, inFile>>

\* console_modem_rx_ymodem, console_modem_rx_zmodem
RxBatch ==
    /\ engine = "idle"
    /\ engine' \in {"y", "z"}
    /\ result' = "none"
    /\ ctx' = Closed
    /\ UNCHANGED <<fs, handles, inFile, started, handed, toSend, abandoned>>

\* on_file_start: the engine goes on whether or not the file was opened.
FileStart(p) ==
    /\ engine \in {"y", "z"} /\ ~ inFile
    /\ NextFile
    /\ inFile' = TRUE
    /\ \/ Passes(p) /\ Open(p)
       \/ CannotOpen(p) /\ UNCHANGED <<fs, handles, ctx>>
    /\ UNCHANGED <<engine, result, toSend, abandoned>>

\* write_file_data at the position of the handle
Store(block) ==
    /\ ctx.open
    /\ fs' = [fs EXCEPT ![ctx.path] =
                [i \in 1 .. Len(@) \cup {ctx.pos + 1} |->
                    IF i = ctx.pos + 1 THEN block ELSE @[i]]]
    /\ ctx' = [ctx EXCEPT !.pos = @ + 1]

Handing == engine \in {"x", "y", "z"} /\ inFile /\ handed < MaxBlocks

\* write_file_data, async_storage on: the block is put on the work queue.
Submit ==
    /\ Handing /\ ~ inWrite
    /\ settings.async /\ ctx.open
    /\ item' = [state |-> "queued", block |-> <<started, handed + 1>>]
    /\ inWrite' = TRUE
    /\ UNCHANGED <<fs, handles, engine, result, inFile, ctx, started, handed,
                   toSend, abandoned>>

\* async_write_handler, in the thread of the work queue
WorkerWrites ==
    /\ item.state = "queued"
    /\ \/ Store(item.block) /\ item' = [item EXCEPT !.state = "stored"]
       \/ FsFails /\ UNCHANGED <<fs, ctx>> /\ item' = [item EXCEPT !.state = "failed"]
    /\ UNCHANGED <<handles, engine, result, inFile, started, handed,
                   toSend, abandoned, inWrite>>

\* Seeded fault: the work queue is not waited for, and res is still -1.
FlushedAtOnce(outcome) ==
    /\ inWrite /\ inWrite' = FALSE
    /\ \/ item.state = outcome /\ item' = NoItem
       \/ item.state = "queued" /\ outcome = "failed" /\ UNCHANGED item

\* k_work_flush returns when the handler has.
Flushed(outcome) ==
    /\ inWrite /\ inWrite' = FALSE
    /\ item.state = outcome /\ item' = NoItem

\* write_file_data returns 0.
Stores ==
    \/ /\ ~ inWrite /\ ~ settings.async
       /\ Store(<<started, handed + 1>>)
       /\ UNCHANGED <<inWrite, item>>
    \/ Flushed("stored") /\ UNCHANGED <<fs, ctx>>

\* write_file_data returns -1.
CannotStore ==
    \/ /\ ~ inWrite
       /\ ~ ctx.open \/ (FsFails /\ ~ settings.async)
       /\ UNCHANGED <<inWrite, item>>
    \/ Flushed("failed")

\* Seeded fault: zfile_open is not reset.
CloseStillOpen ==
    /\ handles' = IF ctx.open THEN handles - 1 ELSE handles
    /\ UNCHANGED ctx

\* close_file
Close ==
    /\ ctx' = Closed
    /\ handles' = IF ctx.open THEN handles - 1 ELSE handles

HandOver ==
    /\ Handing
    /\ handed' = handed + 1
    /\ UNCHANGED <<handles, engine, result, inFile, started, toSend, abandoned>>

Data == HandOver /\ Stores

DataLost == HandOver /\ engine # "x" /\ CannotStore /\ UNCHANGED <<fs, ctx>>

\* Seeded fault: the result of data_cb is not looked at.
XmodemDataIgnored ==
    HandOver /\ engine = "x" /\ CannotStore /\ UNCHANGED <<fs, ctx>>

\* XMODEM ends the transfer when data_cb fails.
XmodemDataFails ==
    /\ Handing /\ engine = "x"
    /\ CannotStore
    /\ Close
    /\ engine' = "idle" /\ result' = "FAIL" /\ inFile' = FALSE
    /\ UNCHANGED <<fs, started, handed, toSend, abandoned>>

\* on_file_end
FileEnd ==
    /\ engine \in {"y", "z"} /\ inFile
    /\ Close
    /\ inFile' = FALSE
    /\ UNCHANGED <<fs, engine, result, started, handed, toSend, abandoned>>

\* Seeded fault: the file is not closed.
XmodemReturnsOpen ==
    /\ engine = "x"
    /\ engine' = "idle" /\ inFile' = FALSE
    /\ result' \in {"OK", "FAIL"}
    /\ UNCHANGED <<fs, handles, ctx, started, handed, toSend, abandoned>>

XmodemReturns ==
    /\ engine = "x"
    /\ Close
    /\ engine' = "idle" /\ inFile' = FALSE
    /\ result' \in {"OK", "FAIL"}
    /\ UNCHANGED <<fs, started, handed, toSend, abandoned>>

\* Nothing closes the file of a batch when the engine returns inside it.
BatchReturns ==
    /\ engine \in {"y", "z"}
    /\ inFile => FinInFile /\ engine = "z"
    /\ result' \in {"OK"} \cup (IF inFile THEN {} ELSE {"FAIL"})
    /\ engine' = "idle" /\ inFile' = FALSE
    /\ abandoned' = IF inFile THEN abandoned + 1 ELSE abandoned
    /\ UNCHANGED <<fs, handles, ctx, started, handed, toSend>>

\* console_modem_tx_xmodem, _ymodem and _zmodem: fs_open finds the file or not.
TxFile(p) ==
    /\ engine = "idle"
    /\ \/ /\ fs[p] # NoFile
          /\ engine' = "tx" /\ result' = "none"
          /\ OpenInput(p)
       \/ /\ fs[p] = NoFile \/ FsFails
          /\ result' = "FAIL"
          /\ UNCHANGED <<handles, engine, ctx>>
    /\ UNCHANGED <<fs, inFile, started, handed, toSend, abandoned>>

TxReturns ==
    /\ engine = "tx"
    /\ Close
    /\ engine' = "idle" /\ result' \in {"OK", "FAIL"}
    /\ UNCHANGED <<fs, inFile, started, handed, toSend, abandoned>>

\* console_modem_tx_directory holds the directory open while it sends the
\* files in it, drops what each call returns, and returns 0.
TxDirectory ==
    /\ engine = "idle"
    /\ engine' = "dir" /\ result' = "none"
    /\ toSend' = {p \in Paths : fs[p] # NoFile}
    /\ handles' = handles + 1
    /\ ctx' = Closed
    /\ UNCHANGED <<fs, inFile, started, handed, abandoned>>

\* directory_transfers or mcuboot_update is off, or there is no such directory.
NotDone ==
    /\ engine = "idle"
    /\ result' = "FAIL"
    /\ UNCHANGED <<fs, handles, engine, inFile, ctx, started, handed, toSend, abandoned>>

DirFile(p) ==
    /\ engine = "dir" /\ ~ ctx.open /\ p \in toSend
    /\ toSend' = toSend \ {p}
    /\ OpenInput(p) \/ (FsFails /\ UNCHANGED <<handles, ctx>>)
    /\ UNCHANGED <<fs, engine, result, inFile, started, handed, abandoned>>

DirFileSent ==
    /\ engine = "dir" /\ ctx.open
    /\ Close
    /\ UNCHANGED <<fs, engine, result, inFile, started, handed, toSend, abandoned>>

DirReturns ==
    /\ engine = "dir" /\ ~ ctx.open /\ toSend = {}
    /\ handles' = handles - 1
    /\ engine' = "idle" /\ result' = "OK"
    /\ UNCHANGED <<fs, ctx, inFile, started, handed, toSend, abandoned>>

\* A file is being received into a path that had one.
Reopened ==
    {p \in Paths : started' > started /\ handles' > handles
                     /\ ctx'.path = p /\ fs[p] # NoFile}

\* What the commands and the engines do outside write_file_data
Call ==
    \/ \E p \in Paths : RxXmodem(p) \/ FileStart(p)
    \/ RxBatch \/ FileEnd \/ XmodemReturns \/ BatchReturns
    \/ \E p \in Paths : TxFile(p) \/ DirFile(p)
    \/ TxReturns \/ TxDirectory \/ NotDone \/ DirFileSent \/ DirReturns

\* console_modem_settings_set or "modem config", in any thread
SetSettings ==
    /\ settings' \in [overwrite : Modes, async : BOOLEAN]
    /\ UNCHANGED <<fs, handles, engine, result, inFile, ctx, started, handed,
                   toSend, abandoned, inWrite, item, reused>>

Next ==
    \/ /\ \/ ~ inWrite /\ Call /\ UNCHANGED <<inWrite, item>>
          \/ Submit \/ WorkerWrites \/ Data \/ DataLost \/ XmodemDataFails
       /\ reused' = reused \cup Reopened
       /\ UNCHANGED settings
    \/ SetSettings

Spec == Init /\ [][Next]_vars

-----------------------------------------------------------------------------

Blocks(p) == IF fs[p] = NoFile THEN {} ELSE {fs[p][i] : i \in 1 .. Len(fs[p])}

\* A stored file holds blocks of one received file only, unless it was opened
\* over another file; no policy set in the meantime, no abandoned handle and no
\* write of the work queue brings blocks of two files together otherwise.
NoMixing == \A p \in Paths \ reused : \A a, b \in Blocks(p) : a[1] = b[1]

\* The thread of the work queue writes to a file only while it is open, and
\* the block that the engine handed over last.
WorkerInTime ==
    item.state = "queued" => ctx.open /\ inFile /\ item.block = <<started, handed + 1>>

\* When no command runs, the only files open are those a batch left behind
\* when its engine returned inside a file.
HandlesBalanced == engine = "idle" => handles <= abandoned

\* When an XMODEM receive reports success its file begins with the blocks the
\* engine acknowledged, in order, whoever wrote them and even where writes may
\* fail; what is behind them is left of an earlier file.
XmodemOkStored ==
    [][(engine = "x" /\ engine' = "idle" /\ result' = "OK")
          => /\ handed <= Len(fs[ctx.path])
             /\ \A k \in 1 .. handed : fs[ctx.path][k] = <<started, k>>
             /\ ctx.path \notin reused => Len(fs[ctx.path]) = handed]_vars

=============================================================================
