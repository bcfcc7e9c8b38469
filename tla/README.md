# TLA+ models of the Zephyr XYZ modem library

This directory holds TLA+ modules that model the protocol engines of the
library (XMODEM, YMODEM, ZMODEM), the storage layer of its console commands,
its session dispatcher, its radio transports and its stream helpers; the TLC
configurations that check them on small instances; and proofs, checked by
TLAPS, that hold for every instance. Paths below are relative to the repository
root; `src/xmodem.c` is the file of that name in its source directory.

## 1. The system

A transfer is one call of a function of an engine. The call blocks: it reads
bytes through the callback `read_byte` (0 and a byte, negative for a timeout,
-2 for the abort key), writes through `write_bytes` and hands data over through
storage callbacks. The peer runs its own call at the other end of the line.
Within one engine there is no concurrency. The difficulty is between the two
ends, each acting on what it believes about the other while the line delays,
loses and damages what they say; and around the engine, where threads and
radio callbacks share tables, rings and settings with it.

| Component | State | Operations | Talks to |
|---|---|---|---|
| XMODEM engine (`xmodem.c`) | expected block number, retries, check (CRC or checksum); at the sender block, retries, phase | `xmodem_receive`, `xmodem_transmit` | line, `data_cb` |
| YMODEM engine (`ymodem.c`) | as XMODEM, per file, plus the batch: file index, first and second EOT, name and size | `ymodem_receive`, `ymodem_transmit` | line, `on_file_start`, `on_data`, `on_file_end`, `read_data` |
| ZMODEM engine (`zmodem.c`) | position in the session: idle, in a file, in data; inside a frame the escape and the check | `zmodem_receive`, `zmodem_transmit` | line, the same callbacks |
| Console (`zephyr_console_modem.c`) | open file, path, write position, work item, settings, CAN counter | `modem rx/tx ...`, storage callbacks, work queue, `read_byte` | engines, file system, shell |
| Session dispatcher | table of slots: active, channel | init, create, close, count | any thread |
| NFC and BLE transports | receive ring, field, transmit ring | events of the radio stack, `read_byte`, `write_bytes`, flush | engines, radio stack |
| Stream codecs (run-length, XOR cipher, delta) | position in a stream | process a chunk | the application |
| Log rotation, flash helper | chunk index and bytes; written and erased offset | init, write | the application |
| Auto-start detection | last eight bytes | check a byte | shell input |
| Settings, statistics, CRC, signature and image checks, socket and USB stubs | a structure, or nothing | store, compute, test | shell, engines |

What makes each correct:

- engines: what is handed to storage is the file, in order and nothing else; a
  success at either end is a success at both; the ends agree on the check and
  on the file they are in; each call returns;
- frames: what the sender encoded is what the receiver decodes, and nothing in
  the data is taken for the user's wish to stop;
- console: a file on disk is one received file, a reported success is stored,
  what is opened is closed, and the work queue never writes too late;
- dispatcher: one owner per session, no slot lost, a sensible count;
- transports: bytes come out in the order they went in, and the count of a ring
  is the number of bytes in it;
- streams: the output does not depend on how the input is cut into chunks, and
  what is written lies where room was made for it.

What is hard to test is listed, each at its line, in `PROJECT.json` under
"hazards", with the properties that would catch it. The ones that shaped the
models: late answers taken for the answer to something else, numbers that wrap
(blocks at 256, retries in a `uint8_t`), results of callbacks nobody looks at,
headers whose offsets nobody compares, bytes of data taken for keys, settings
read again at every use, and tables and counts that threads share without a lock.

## 2. The modules

    SerialLine   queues, loss, damage, abort key
      XmodemLine - XmodemReceive, XmodemTransmit - Xmodem
                                                   |  \_ XmodemProofs
                                                   \_ implements FileDelivery
      BatchFiles   the files of a batch
        YmodemLine - YmodemReceive, YmodemTransmit - Ymodem     - MCYmodem
                                                     |  \_ YmodemProofs
                                                     \_ implements BatchDelivery
        ZmodemLine - ZmodemReceive, ZmodemTransmit - Zmodem     - MCZmodem
                     |                               |  \_ ZmodemProofs
                     |                               \_ implements BatchDelivery
                     ZmodemReceive - ZmodemAnySender            - MCZmodemAnySender
                                        \_ ZmodemReceiveProofs
    ConsoleStorage - ConsoleStorageProofs
    SessionDispatcher - SessionDispatcherProofs                 - MCSessionDispatcher
    RxRing - NfcTransport, BleTransport - Transports
                                             \_ TransportsProofs
    ConsoleInput - ZmodemFrames
                     \
    StreamDecompress, EncryptedStream, DeltaUpdate,
    LogRotation, FlashHelper, Autostart  -------------- Streams - MCStreams
                                                           \_ StreamsProofs

A module is checked by itself where its constants can be written in a .cfg, and
through an MC module where they need a definition. Names follow the code; the
"map" of `PROJECT.json` gives the lines each definition translates.

**Steps of an engine.** Between two calls of `read_byte` that decide something
an engine touches only its own state, so one action runs from one such read to
the next: it takes the item read (or the timeout, or the abort key), does
everything the code does with it, sends what the code sends, and stops in front
of the next read. An engine is the disjunction of its handlers: `RxAccept`,
`RxDuplicate`, `RxReject`, `TxAcked`, `TxResend`, and so on.

**The line** (`SerialLine`). Two queues, `toRx` and `toTx`. An item is a whole
packet, header or control byte. Items are lost or damaged (`Fault`, at most
`MaxFaults` in a behaviour), a full queue drops what is sent (`LineCap`), and a
press of the abort key puts `brk` where an end reads next (at most
`MaxAborts`). `purge_rx` empties any prefix of the queue, because bytes may
still arrive behind it. A damaged packet is `bad` (framed, check wrong) or
`junk` (not a packet). With `Timely = FALSE` a read may time out at any moment,
as when the answer is late; with `Timely = TRUE` it times out only when nothing
it could read is on its way: the timeouts exceed every delay.

**XMODEM.** Block `k` of the file is the packet `[idx |-> k]`; the number the
receiver compares is `k % BlockMod` (256 in the code). A real ACK carries no
number: the field `sn` of an ACK is a history value that no guard of the
transmitter reads. `dups` counts the ACKs sent for repeated blocks, also a
history. Retries are `uint8_t`, so they count modulo `RetryMod` (256).

**YMODEM.** As XMODEM per file, with block 0 (name and size), the second `C`,
the EOT, NAK, EOT, ACK closing and the empty block 0 that ends the batch. Each
file the receiver starts is a record of `BatchFiles`: name, data, open, end.
Storing and reading may fail (`StoreFails`, `ReadFails`), and block numbers may
be damaged unnoticed (`Renumber`), since the complement is never compared. The
history `spoilt` holds the files that such a failure or damage may have harmed,
and the properties of contents are about all the others. A failed store or read
harms its own file only. A damaged number counts as harm to every file of the
batch, because the packet may be taken for another and put the ends out of step:
behind one only the order of the files and of the calls is checked.

**ZMODEM.** Headers (`zrqinit`, `zrinit`, `zfile`, `zrpos`, `zdata`, `zeof`,
`zfin`) and subpackets, each an item. The ends are started in either order;
what arrived at an end before it was started is kept by the console or not
(`Waiting`); the history `kept` says that it was. The history `hurt` says that
something was lost in transit, damaged, aborted, not read or not stored, or that
an end gave up too early.
`ZmodemAnySender` puts the receiver opposite a sender that may send any header
or subpacket at any time.

**ZMODEM frames** (`ZmodemFrames`, over `ConsoleInput`). The level below:
headers in their three forms and subpackets as bytes, with ZDLE escapes, the
hunt for a header, the check, and `console_read_byte`, which looks at every
byte it hands over for the abort key and for two CANs, and whose count an
earlier transfer may have left at one. The four flag bytes of a header are one
and the check is a sum of one byte (two in a 32-bit frame): what matters of them
is that they may have any value and must be escaped.

**BatchDelivery.** What the two calls of a batch promise, without a line and
without answers: files are started in the order of the batch, each after the one
before has ended well; what is stored in a file are its own blocks in order, and
one that ends well is complete, unless it was harmed; a file that ends badly ends
the call with the same result; success at either end means that every file
ended well. YMODEM implements it with `harmed` read as the files in `spoilt`
(all of them once the abort key was pressed), ZMODEM with all files harmed once
`hurt` is true: even then no file starts inside another, nothing is stored that
is not on its way, and no session fails without ending the file it is in.

**ConsoleStorage.** What the `modem rx` and `modem tx` commands do to the file
system: the overwrite policy, directories that are sent file by file,
`open_output_file`, `write_file_data`, `close_file` and the storage callbacks,
with an engine that hands over any number of files and blocks. With
`async_storage` a block goes through the work queue, a thread of its own
(`Submit`, `WorkerWrites`, `Flushed`); the settings may change at any time in
any thread (`SetSettings`), and opening and writing may fail (`FsFails`). The
policy is read twice for an existing file: set from ABORT to SKIP in between, it
lets the file be opened (`Passes`). Stored
block `<<n, k>>` is block `k` of the `n`-th file started, so two files under one
path can be told apart. The history `reused` holds the paths that were opened
for a file although there was one.

**SessionDispatcher.** Every read or write of the table is a step of its own:
`ProbeBusy` and `ProbeFree` (active tested), `Claim` (active set), `SetType`
(channel set), `Close`; one more thread counts, slot by slot. Nothing
serialises the threads. A thread may close an id again that it has kept
(`CloseAgain`). Two histories record the two things the code leaves to its
callers: `raced` (two threads were inside `create` at a time) and `strayed` (a
kept id has closed the session of another).

**Transports.** `RxRing` is the receive ring that both adapters contain in the
same form. The callback interrupts the reader and init between any two stores:
the slot (`CbPut`), `head` (`CbAdvance`) and the count are steps of their own,
and so are the three stores of init (`RingReset`, `ZeroTail`, `ZeroCount`).
`count++` and `count--` are a load and a store, and what is stored may come from
the load of the test in front of it, because nothing here is volatile and the
build may keep what it has read; `head` likewise. The history `torn` says that
an update of the count was lost (what was stored came from a value that had
changed since), or that a put, from its slot on, overlapped an init. Both happen
in the code; the properties say what holds until they do.
`NfcTransport` adds the field, the framing of events and messages, and the
transmit ring; `BleTransport` has a `write_bytes` that sends nothing.

**Streams.** What processes a stream piece by piece, one module per part. Each
is stated against a definition over the whole stream: the decoder against one
that remembers (`Expanded`), the matcher against the last three bytes, the patch
against the base. The parts share no state; `Streams` uses one of them in a
behaviour, so that one run and one proof module hold them all. What a part
cannot promise is a history: a chunk cut inside a run (`runCut`), a buffer too
small (`roomCut`, `shortOut`), a stream cut anew (`recut`, `ragged`).

**Seeded faults.** Operators under a comment `Seeded fault:` are plausible
mistakes in the code (`NotDuplicate` accepts a block whatever its number). No
specification uses them: they exist to be put in the place of a definition, to
see that the property the mistake would break does fail.

## 3. What is checked

| Run | Question | What it shows |
|---|---|---|
| `x_async` | late answers, early timeouts, a fault, a full line | blocks in order; at most one block lost per duplicate ACK; success only behind the last block; the ends agree on the check |
| `x_timely` | timeouts exceed every delay, four faults, failing storage, an abort key | the transfer implements `FileDelivery`: success means a complete file, at the receiver first, and both calls return |
| `x_stale_ack` | what `XMODEM_OK` at both ends is worth with early timeouts | violated: both report success and a block is missing (section 5) |
| `y_async` | late answers, a fault, an unnoticed damage, an abort key | until a number is damaged the files hold their own blocks in order; whatever happens the ends follow the batch file by file and both calls return |
| `y_timely` | timeouts exceed every delay, three faults, callbacks that fail, an abort key | the batch implements `BatchDelivery`: a file ended with success is complete unless it was spoilt or the key was pressed |
| `z_async` | two faults, an abort key, failing storage, any order of starting | nothing stored in a wrong file or out of order; no file announced before the last was ended; the session implements `BatchDelivery`; both calls return, and where nothing was hurt they have delivered the whole batch if the first header was thrown away, and failed at the first file if it was kept |
| `z_any` | any sequence of headers and subpackets | every file is ended before the next is started and before a session fails; what was reported of a file is final |
| `c_storage` | any sequence of commands, failing storage, the work queue, settings that change | no file with blocks of two unless opened over one; an XMODEM success is stored; the work queue writes in time; only a batch that returns inside a file leaves a handle open |
| `d_sharing` | three threads, two slots, one count | exclusive sessions that stay open unless threads raced or an id strayed; no slot lost; the count lies between its bounds |
| `n_transports` | callback and reader, every access a step; NFC and BLE | bytes in order and a right count until an update of the count is lost or a put overlaps an init; the count stays in its range after that; what is written leaves in order, at once if it is short |
| `s_streams` | every part on all its short inputs, cut in every way | each part does what its definition over the whole stream says |
| `k_abort` | what a -2 of `console_read_byte` is worth | violated: a byte of a subpacket is taken for the key (section 5) |

**Bounds.** The properties of the engines are about neighbours: a block and the
one before or after it, a file and the next, an answer and the packet it was
meant for. Three blocks (or files of two and one) give an item a neighbour on
both sides, and `BlockMod = 3` makes numbers wrap inside the file, which 256
would never do in a checkable instance. `RetryMod` is small but above
`MaxRetries`, as 256 is above every limit but 255. One fault in `x_async` and
`y_async` is enough, since early timeouts already give duplicates and late
answers without any; the timely runs have three or four, `z_async` two in a
batch of three files (2, 2 and 1 blocks) of which any block may fail to be
read, so that padding is in flight among the blocks. `LineCap = 3` lets a duplicate, an
original and a control byte be in flight together and makes sends fail; the
other runs have room for all that can be in flight. `z_any` sends up to six
items in all orders: a file takes two, so a second is started inside, behind and
across the first. `c_storage` has two paths for four files of two blocks, so that a
path is used again after success, failure and an abandoned batch. `d_sharing` has
more threads than slots. `n_transports` has a ring of two bytes that fills,
wraps and overflows within the four bytes that arrive, and records of one byte
so that a write of two is long. The streams have a key of two bits, sectors of
four bytes, a matcher of four slots whose index wraps at eight: several times the
length of each is in the inputs. Frames are sent up to three at a time: a
header, its subpacket, and what follows. The proofs take over where bounds end.

`BlockMod` cannot be smaller than the behaviour needs: once the receiver has
sent `BlockMod - 1` duplicate ACKs in one transfer the transmitter may be that
far ahead, and the next packet has the number of a block the receiver took
before. With 256 that is 255 late answers. `InOrder` and `FilesIntact` state
this limit, and without it TLC finds a misplaced block in a small instance.

**Fairness.** `FairSpec` of the three engines asks weak fairness of each end's
steps only. `read_byte` always returns: a byte, a timeout or the abort key. So a
call that has not returned can always go on and does. No fairness is asked of
the line: it need not lose anything, nor repair anything. Losses are bounded by
`MaxFaults`; the proofs of safety do not depend on the bound. For ZMODEM the
same fairness says that both ends are started in the end.

**Deadlock** is checked in every run but those of the streams, which come to an
end (`s_streams`, `k_abort`); `Returned` is the explicit step of a system whose
calls have both returned.

## 4. What is proved

Each result holds for every value of the constants, from the assumptions named
in the modules (`XmodemAssumption`, `RingAssumption`, ...), which only say what
the constants are (`NfcAssumption`: a record, of 255 bytes, fits into the ring).

**XMODEM** (`XmodemProofs`). `IInv` is inductive for every file length, block
modulus of three or more, retry limit, line capacity and number of faults.
`InOrder` alone is not: it says nothing of what is in flight. `IInv` adds

- `PacketsInOrder`: packets on the line go up, none older than the last stored
  block, none newer than the one being sent, and EOT only behind the last;
- `AcksInOrder`: by the history number no ACK is older than the block it would
  confirm, nor newer than what the receiver has answered;
- `AheadByDups`: the transmitter is ahead by the duplicate ACKs at most;
- `RxBehind`: the receiver never has more than was sent.

The key step is `RxAcceptStep`: the packet accepted has the expected number
modulo `BlockMod`; `PacketsInOrder` and `AheadByDups` put its index less than
`BlockMod` from the expected one; so (`ModGap`) it is the expected block. All
that may happen to a queue in flight (a read, a purge, a loss, damage) thins it
(`Thinned`), and thinning keeps both orders, so most actions need only
`QuietStep` or `TxQuietStep`.

With `Timely` and `KnownLength` the transfer implements the abstract one:
`DeliversFile` proves the safety part of `ImplementsDelivery`, step by step,
and `BothOkMeansComplete` that success at both ends means the whole file, which
`x_stale_ack` refutes without timeliness. `TimelyInv` carries it: a packet or
its answer is in flight, never both (`OneInFlight`, abort keys aside, which are
no part of the dialogue); the packet is the block being sent
(`PacketsAreCurrent`); an ACK in flight means that this block is stored
(`AcksAreCurrent`); so the ends differ by one block at most (`InStep`).

**YMODEM** (`YmodemProofs`), for every batch, block modulus, retry limit, line
capacity, number of faults and choice of timeouts, in two layers. `BatchInv` is
about the course of the batch. `BatchFollowed` says nothing of what is in
flight, and no packet or answer but block 0 says which file it is about, so
`Course` names the six positions the two ends can stand in to each other: the
receiver waits for a block 0 (`Between`), one is on its way (`Offered`), the
receiver has opened the file and the transmitter does not know (`Taken`), it
waits for the second 'C' (`Going`), blocks are sent (`Sending`), all are sent
and the receiver is still in the file (`Closing`). Each says which items can be
in flight and in what order; that is what rules out a late 'C' that starts a
file twice, or a late ACK that skips one. It gives the types and
`BatchFollowed`.

`ContentInv` needs it, and is about the file the receiver is in: its packets are
true to their block and in order, and the ACKs in flight can be given a number
each (`AcksNumbered`), rising, none above the blocks accepted and the duplicates
answered. In XMODEM a history carries that number; here the proof carries it
as an existential, because ACKs of several files follow each other. Then the
packet accepted is the next block (`NextBlock`, by `ModGap` as in XMODEM), and
`FilesIntact` follows.

With `Timely`, `OkFilesAreComplete` proves `OkFileComplete` as long as nobody has
pressed the abort key. `OneUnit` says that a packet or its answer is in flight,
never both, where the answer to block 0 and to EOT is an ACK and a 'C'; `Exact`
that the receiver holds the blocks before the one being sent, or that one too,
and that an ACK it can still send for it means the latter. The condition on the
key is needed (section 5). `DeliversBatch` then proves `ImplementsBatch`, action
by action: a step of the receiver is `Start`, `Deliver`, `End` or `RxReturns` of
`BatchDelivery`, a step of the transmitter is `TxReturns`, everything else changes
only what is harmed and what is in flight. `ContentInv` gives that the block
accepted is the next one, `OkFileComplete` that a file ended well is complete,
`BatchFollowed` that success at an end comes behind the last file.

**ZMODEM session** (`ZmodemProofs`), for every batch, line capacity, number of
faults and choice of timeouts. The invariant says that what is in flight to the
receiver is a stretch of the stream of one file, in its order (`Ordered`:
header, name, data header, blocks that rise, end), and which of six positions the
two ends stand in (`Course`). `StoredInOrder` is not inductive: no header names a
file, and nothing in a state where a `ZRPOS` or a `ZRINIT` is late tells for which
file it was, but the position does. From it follow the types,
`StoredInOrder` and `EarlierFilesEnded`. `DeliversBatch` proves `ImplementsBatch` on a
line that takes all headers and subpackets of a file (`Roomy`: the transmitter sends
them without awaiting an answer). As long as nothing is hurt, `Gapless` says of a file
that is being sent that what is in flight is exactly what was sent of it and not yet
read, item by item; so the file that ends is complete. A header that was kept
hurts nothing here: it can end the session, not leave a gap. Afterwards only the order
of the calls is promised, and that follows from `Course`.

**ZMODEM receiver** (`ZmodemReceiveProofs`), against any sender, on a line of any
length. `ReceiverInv` ties the files to the position in the code: every file but
the last was ended, and the last was not exactly where the code is inside a file
or has left it through ZFIN. From it follow `FilesAreEnded` and, since only
the last file is ever changed, the action property `EndIsFinal`.

**Console** (`ConsoleStorageProofs`), for any paths and any number of files,
blocks, failures and changes of the settings, in two layers. `ControlInv` is
about handles, context and work item: nothing is open but what the running
command will close and what was abandoned, and while `write_file_data` waits,
the file is open and the item is the block handed over last. That gives
`HandlesBalanced` and `WorkerInTime`. `ContentInv` needs it, and adds the contents:
the write position lies inside the file, blocks of a path never reused come
from one file, and during an XMODEM receive the file begins with exactly the
blocks handed over. That gives `NoMixing` and `XmodemOkStored`. `ExtentInv` adds
what the types need: files started and abandoned are counted one for one
(`CountInv`), and no write goes past what the engine handed over (`BoundInv`).

**Dispatcher** (`SessionDispatcherProofs`), for any threads, slots and
interleaving. `NoLostSlot` and the types hold whatever happens (`TableInv`). Exclusive
and lasting sessions hold as long as nothing raced or strayed: `DispatcherInv`
adds that at most one thread is inside `create` and that the slot it is about to
claim stays free, which no close can change. Closing needs no lock. `CountBetween`
is an induction over the slots the count has passed.

**Transports** (`TransportsProofs`), for every size of the ring. `RingInv` has two
parts. `RingBounds` holds whatever was lost: a side that has passed its test finds
the count as it left it, up to what the other side does, and so does a count it
kept from the test; so the count never leaves `0 .. Size`. `IsQueue`, until the
ring is torn, says that head and tail are the lengths of what was put and taken
(tail once init has cleared it), that the count is their difference but for what
either side adds late (once init has cleared it too), that while init clears them
nothing was put or taken, and that the slots between hold what was put. It is
taken up anew by the first store of an init that finds no put under way.
`CountRight` and `ReadInOrder` follow; `SentInOrder` needs only the
transmit ring, `ShortWritesLeave` also that a record fits into it.

**Streams** (`StreamsProofs`). `ErasedAhead` for every sector size, `ChunksUsed` for
every configuration, `PatchedInPlace` for every base and every cut. `StartsOnRz`
for every length of buffer and index: `AutoInv` says that the last three bytes
lie in the three slots before the index, and that the index counts them until
there are three. `RoundTrip` for keys of bits, chunks and cuts of any lengths:
`EncInv` keeps two accounts of the cipher text on its way, one that holds while
chunks are decrypted as they were encrypted (`CutBy`: each begins with the key),
one that holds while every chunk begins where the key does (`PadRunsOn`: the
key runs through the whole stream).

`CutsDoNotShow` (`ChunksInvisible`), `AbortsHaveCause` (`AbortHasCause`) and
`FramesComeOutWhole` (`FramesIntact`) are about functions defined by recursion
over bytes. The library's induction theorems cannot be used (they take an
operator as a parameter), so the module has its own:
`LeastNumber`, from the well-founded order of the numbers, `Counting`, induction
over a set of numbers, and `Recursion`, which constructs the function that a
recursive equation defines and so shows that there is one. From it follow the
facts about `FlattenSeq` that everything else rests on.

`ChunksInvisible` is about streams of which no run is cut and none begins a
chunk (`runCut`), where the decoder, which starts each chunk without memory,
must fail; it says that no other cut shows. For it the decoder of the code and
the one that remembers are compared byte by byte: `Piece` is what one place of
the stream expands to, `UnpackedIsExpanded` says that the loop over a chunk
yields the expansion of the chunk, `ExpandedJoint` that two streams whose joint
cuts no run expand to the two expansions one behind the other. For
`AbortHasCause`, `Tame` says that bytes hold no two CANs in a row and none at
the end. Every escape of a byte is tame, tame sequences put together are tame,
and so is every frame (`FramesTame`); `Quiet` carries it through the queue,
together with the count that an earlier transfer left: it is safe because every
header begins with ZPAD.

`FramesComeOutWhole` (`FramesIntact`) ties the bytes on their way to the frame
they belong to. `Later(sent, k)` are the bytes of the frames behind the first
`k`; `IntactInv` says that the input is what is left of the frame being read,
followed by `Later`: the receiver is between frames, with bytes in front that
are no `ZPAD` (`Between`), awaits a subpacket (`Awaiting`), is inside a frame
(`Middle`), has failed at a subpacket that its buffer does not hold (`Failed`),
or has the abort key next (`KeyWaits`). `Inside` says for each place in the code
what is left of a frame there: `InLead`, `InHex`, `InBin`, `InText`, `InEnd` and
`InCheck`, where `Left` is what is left of escaped bytes of which the first may
be half read. Each read takes one byte of it (`LeadRead`, `DigitRead`,
`WordRead`, `TextRead`, `EndRead`, `CheckRead`) and goes on inside the frame,
has the frame, or finds that it does not fit; no check ever fails. The order of
the frames (`SentOK`: subpackets follow a frame behind which they go on, and
nothing else does) is needed: it says whether the next byte is looked for as a
header or decoded as data, and by which check.

**Only model-checked.** Everything with fairness: `Termination`, `Delivered` and
the part of `ImplementsDelivery` that says that both calls return, all out of the
prover's reach. Every other property of the passing runs is proved.

## 5. Where the code and its documents part

Shown by a run:

- `x_stale_ack`: an ACK carries no block number, so the late ACK of a resent
  block confirms the next one; if that packet is lost, both ends report
  `XMODEM_OK` with a block missing. `LossBounded` says how far this can go.
- `k_abort`: `console_read_byte` cannot tell the user's key from the sender's data,
  yet its -2 is commented "Transfer cancelled by user". In the run nothing turns up
  on the line but a `ZDATA` header and a subpacket with the one data byte 0x03:
  reading it ends the transfer. (Not in the run, but by the same test: under XMODEM
  and YMODEM block number 3 does, in every file that has one.) `AbortHasCause` says
  what remains true: ZDLE itself, a CAN, never trips the watch.
- `z_async`: `docs/protocols.md:173` shows one `ZRINIT`, then `ZFILE` and `ZRPOS`. The
  receiver sends `ZRINIT` at its start and again for `ZRQINIT`. Unless the first of
  the two headers that open the session was thrown away, because nobody read the
  console yet, the transmitter reads one `ZRINIT` for the answer to `ZRQINIT` and the
  other for the answer to `ZFILE`, and fails. `Delivered` says that this is what
  happens then, and the only thing that can when nothing is hurt.

Visible in the models with other values of the constants, or in a history that a
property has to mention:

- XMODEM with `KnownLength = FALSE` (`total_len` 0, "0 if unknown"): `data_cb`
  returns 0 on success, which the loop takes for the end, so one block is sent.
- XMODEM with `MaxRetries = RetryMod - 1` (255): `retries > max_retries` is never
  true and the calls need not return.
- YMODEM: a file (after a damaged number, any file) may be ended with success and
  lack a block, because the complement of the number and the results of `on_data`
  and `read_data` are never looked at (`spoilt`). Another may once the abort key
  was pressed, which is why `ImplementsBatch` counts every file as harmed from
  then on: the transmitter takes the abort key for a failed read, sends the packet
  again, and takes its second ACK for the answer to the next.
- ZMODEM: a lost subpacket leaves a gap in a file ended with success, since
  offsets are never compared. `StoredInOrder` is what remains. With a file of size
  0 `ZDATA` has no subpacket and the receiver reads the `ZEOF` header as one, so
  `Delivered` fails. ZFIN inside a file ends the session with success and without
  `on_file_end`; `FilesAreEnded` makes an exception of it.
- ZMODEM frames: a ZPAD that turns up in front of a hexadecimal header hides it
  (`FramesIntact` excepts it), and a CAN that turns up may complete a pair with one
  that an earlier transfer left counted (`AbortHasCause` allows it as a cause).
- Console: an existing file is not truncated, so a shorter one keeps the tail of
  the old (`reused`). The policy "ABORT" acts as "SKIP" in a batch, which goes on
  and succeeds, because the engines drop the result of `on_file_start`. A batch that
  ends by ZFIN inside a file leaves the file open (`abandoned`).
- Dispatcher: `create` tests and sets `active` in two steps, and an id that is
  closed twice closes the session of its next owner (`raced`, `strayed`).
- Transports: once an update of the count is lost, or a put overlaps an init
  (`torn`), bytes are read twice, overwritten, or left behind in a ring that says it
  is empty. A flush takes bytes out of the transmit ring before it tests whether the
  buffer has room for them (`flushLost`). `write_bytes` drops what the ring has no
  room for and returns 0, and a write of more than 255 bytes leaves bytes in the ring
  for which no record is made until the next write (`longWrite`).
- Streams: a run that is cut, or begins a chunk, is decoded differently (`runCut`), and a
  stream cut anew is decrypted with the wrong part of the key (`recut`, `ragged`).
  The matcher misses "rz" at the first calls after its index has wrapped.

## 6. What is not modelled

- Bytes inside the packets of XMODEM and YMODEM: a packet is received whole,
  damaged or not at all. Left out with them is the loss of only the SOH of block
  4 or 24, whose number is then read as EOT or CAN. Sizes are counted in blocks,
  so the underflow of `write_len` under a sender that exceeds its announced size
  is left out too.
- CRC and checksum: polynomials without state. An error they detect is an item
  `bad` or `junk`, and one they do not detect is not modelled. That matters most
  where XMODEM falls back to checksums: one byte misses an error in 256, and lets one
  in 256 packets through that carry a CRC instead (`Rejected` refuses them all, and
  `SameCheck` is about those).
- Offsets in ZMODEM headers: they are sent and read but decide nothing.
- Signature and image checks: `signature_verify_final` accepts every signature
  that is not empty, and the header check is three comparisons of one buffer;
  there is no behaviour to state a property of. The command `modem update` is
  `cmd_modem_rx` under another name.
- Statistics (a transfer is counted in a copy that is dropped), progress output, parsing and
  printing in the shell, of which only the changes to the settings are kept.
- The socket and USB stubs, where every read fails and every write is dropped;
  `g_uart_ring_buf`, which nothing fills.
- Two shells that run a transfer at the same time. Each command has its own context
  on its stack, but they would share the work item `g_async_work` and the count
  `g_can_count`, which are static.
- Of the transports: a flush by an application thread in the middle of
  `write_bytes` (flush and write are calls of one thread), a count that the build
  keeps in a register over the whole loop of the callback, and a callback that runs
  in the middle of another.

## 7. What is left

In the order of importance:

1. `ConsoleStorage` under the ZMODEM receiver instead of under any engine.
2. XMODEM packets as bytes over `ConsoleInput`, as `ZmodemFrames` is for ZMODEM, for
   the lost SOH.
