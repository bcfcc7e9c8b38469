---------------------------- MODULE YmodemProofs ----------------------------
(***************************************************************************)
(* Proofs about a YMODEM batch of two ends of this library: the types, the *)
(* course of the batch and the contents of the files, for every batch,     *)
(* block modulus, retry limit, line capacity and number of faults.         *)
(*                                                                         *)
(* The argument: the two ends stand in one of six positions to each other  *)
(* (Course), and each position says which items may be in flight and in    *)
(* which order.  Inside a file the packets are a stretch of its blocks, in *)
(* order, and every ACK in flight can be given a number of its own (Flow). *)
(* Where timeouts exceed every delay, one of them is in flight at a time.  *)
(***************************************************************************)
EXTENDS Ymodem, TLAPS

NoRx(types) == \A i \in 1 .. Len(toRx) : toRx[i].type \notin types
NoTx(types) == \A i \in 1 .. Len(toTx) : toTx[i].type \notin types

\* The file the receiver is in, or was in last.
Current == Len(rxFiles)

-----------------------------------------------------------------------------
(* The six positions *)

\* The file whose end is reported or being reported
Closed == IF txPhase = "start" THEN txFile - 1 ELSE txFile

AtEnd == txPhase \in {"start", "eot", "eot2"} /\ Current = Closed

LastEnded == Current > 0 => rxFiles[Current].end = "OK"

\* No ACK is behind a 'C'.
AcksFirst ==
    \A i, j \in 1 .. Len(toTx) :
       i < j /\ toTx[i].type = "c" => toTx[j].type # "ack"

\* The receiver has ended the file and waits for the next block 0.
Between ==
    /\ AtEnd /\ rxPhase = "header" /\ LastEnded
    /\ NoRx({"blk"}) /\ AcksFirst

BlocksBeforeEot ==
    \A i, j \in 1 .. Len(toRx) :
       i < j /\ toRx[i].type = "eot" => toRx[j].type # "blk"

\* The transmitter has sent the whole file, the receiver is still in it.
Closing ==
    /\ AtEnd /\ rxPhase \in {"data", "eot"} /\ Current > 0
    /\ BlocksBeforeEot
    /\ rxPhase = "eot" => NoRx({"blk"})
    /\ NoTx({"c"})

\* Of blocks only the next block 0 is in flight, as the last valid item.
Block0Last ==
    \A i \in 1 .. Len(toRx) : toRx[i].type = "blk" =>
       /\ toRx[i].load = <<txFile, 0>>
       /\ \A j \in 1 .. Len(toRx) : i < j => toRx[j].type \notin {"blk", "eot"}

\* The next block 0 is sent, the receiver has not taken it for a file.
Offered ==
    /\ txPhase = "block0" /\ Current = txFile - 1
    /\ rxPhase = "header" /\ LastEnded
    /\ Block0Last
    /\ rxStatus # "OK" => NoTx({"ack"})

\* Behind an ACK at most one 'C', and no other ACK
OneGo ==
    /\ \A i, j \in 1 .. Len(toTx) :
          i < j /\ toTx[i].type = "ack" => toTx[j].type # "ack"
    /\ \A i, j, k \in 1 .. Len(toTx) :
          i < j /\ j < k /\ toTx[i].type = "ack" /\ toTx[j].type = "c" =>
             toTx[k].type # "c"

\* The receiver has started the file, the transmitter does not know yet.
Taken ==
    /\ txPhase = "block0" /\ Current = txFile /\ txFile <= NFiles
    /\ rxPhase = "data"
    /\ NoRx({"blk", "eot"}) /\ OneGo

OneC ==
    \A i, j \in 1 .. Len(toTx) :
       i < j /\ toTx[i].type = "c" => toTx[j].type # "c"

\* The transmitter waits for the 'C' behind the ACK.
Going ==
    /\ txPhase = "go" /\ Current = txFile
    /\ rxPhase = "data"
    /\ NoRx({"blk", "eot"}) /\ NoTx({"ack"}) /\ OneC

\* Blocks are sent and acknowledged.
Sending ==
    /\ txPhase = "data" /\ Current = txFile
    /\ rxPhase = "data"
    /\ NoRx({"eot"}) /\ NoTx({"c"})

Course == Between \/ Closing \/ Offered \/ Taken \/ Going \/ Sending

FilesFollow ==
    \A i \in 1 .. Len(rxFiles) :
       rxFiles[i].name = i /\ (i < Len(rxFiles) => rxFiles[i].end = "OK")

TxFits ==
    /\ txPhase \in {"go", "data", "eot", "eot2"} => txFile <= NFiles
    /\ txPhase = "data" => txBlock.idx \in 1 .. Files[txFile]
    /\ txPhase # "data" => txBlock = NoBlock

StatusFits ==
    /\ rxStatus = "OK" => txPhase = "block0" /\ rxPhase = "header" /\ txFile = NFiles + 1
    /\ txStatus = "OK" => rxStatus = "OK"

BatchFits == FilesFollow /\ TxFits /\ StatusFits /\ Course

\* The inductive invariant of the course of a batch
BatchInv == TypeOK /\ BatchFits

-----------------------------------------------------------------------------
(* Inside a file *)

\* The newest block sent, and the blocks the transmitter has ACKs for
Newest ==
    CASE txPhase = "data" -> txBlock.idx
      [] txPhase \in {"block0", "go"} -> 0
      [] OTHER -> Files[Current]

Acked == IF txPhase = "data" THEN txBlock.idx - 1 ELSE Newest

\* A packet shows its block's number and carries its block.
TruePackets ==
    \A i \in 1 .. Len(toRx) : toRx[i].type = "blk" =>
       /\ toRx[i].load = <<Current, toRx[i].load[2]>>
       /\ toRx[i].load[2] \in rxBlocks .. Newest
       /\ toRx[i].num = BlockNum(toRx[i].load[2])

PacketsInOrder ==
    \A i, j \in 1 .. Len(toRx) :
       i < j /\ toRx[i].type = "blk" /\ toRx[j].type = "blk" =>
          toRx[i].load[2] <= toRx[j].load[2]

\* The ACKs in flight are numbered n; none confirms more than was answered.
Numbered(n) ==
    /\ \A i \in 1 .. Len(toTx) :
          toTx[i].type = "ack" => n[i] \in Acked + 1 .. rxBlocks + dups
    /\ \A i, j \in 1 .. Len(toTx) :
          i < j /\ toTx[i].type = "ack" /\ toTx[j].type = "ack" => n[i] < n[j]

AcksNumbered ==
    \E n \in [1 .. Len(toTx) -> 0 .. rxBlocks + dups] : Numbered(n)

Flow ==
    /\ Len(rxFiles[Current].data) = rxBlocks
    /\ rxBlocks <= Newest
    /\ Acked <= rxBlocks + dups
    /\ TruePackets /\ PacketsInOrder
    /\ txPhase = "data" => txBlock.load = <<txFile, txBlock.idx>> /\ AcksNumbered

\* Few enough duplicate ACKs that numbers do not come round
Few == dups < BlockMod - 1

InFile == rxPhase \in {"data", "eot"} /\ Current \notin spoilt

\* The inductive invariant of the contents of the files
ContentInv == FilesIntact /\ (Few /\ InFile => Flow)

-----------------------------------------------------------------------------
(* The queues *)

\* The items whose order the positions speak of
Matters == {"blk", "eot", "ack", "c"}

\* Those of r were in q, in the same order and without gaps between.
Kept(r, q) ==
    \E k \in Nat : \A i \in 1 .. Len(r) :
       r[i].type \in Matters => i + k \in 1 .. Len(q) /\ r[i] = q[i + k]

KeptRx == toRx' \in Seq(RxItem) /\ Kept(toRx', toRx)
KeptTx == toTx' \in Seq(TxItem) /\ Kept(toTx', toTx)

LEMMA SameKept ==
  ASSUME NEW S, NEW q \in Seq(S)
  PROVE  Kept(q, q)
<1>1. \A i \in 1 .. Len(q) : i + 0 \in 1 .. Len(q) /\ q[i] = q[i + 0]
  OBVIOUS
<1> QED BY <1>1, Zenon DEF Kept

LEMMA TailKept ==
  ASSUME NEW S, NEW q \in Seq(S), q # <<>>
  PROVE  Tail(q) \in Seq(S) /\ Kept(Tail(q), q)
<1>1. /\ Tail(q) \in Seq(S)
      /\ \A i \in 1 .. Len(Tail(q)) : i + 1 \in 1 .. Len(q) /\ Tail(q)[i] = q[i + 1]
  OBVIOUS
<1> QED BY <1>1 DEF Kept

\* A purge leaves the end of what is behind the item read.
LEMMA PurgedKept ==
  ASSUME NEW S, NEW q \in Seq(S), q # <<>>, NEW r \in Purged(Tail(q))
  PROVE  r \in Seq(S) /\ Kept(r, q)
<1> DEFINE t == Tail(q)
<1>1. t \in Seq(S) /\ Len(t) = Len(q) - 1 /\ \A i \in 1 .. Len(t) : t[i] = q[i + 1]
  OBVIOUS
<1> HIDE DEF t
<1>2. PICK k \in 0 .. Len(t) : r = SubSeq(t, k + 1, Len(t))
  BY DEF Purged, t
<1>3. /\ r \in Seq(S)
      /\ Len(r) = Len(t) - k
      /\ \A i \in 1 .. Len(r) : r[i] = t[i + k]
  BY <1>1, <1>2
<1>4. \A i \in 1 .. Len(r) : i + (k + 1) \in 1 .. Len(q) /\ r[i] = q[i + (k + 1)]
  BY <1>1, <1>3
<1>5. k + 1 \in Nat
  BY <1>1
<1> QED BY <1>3, <1>4, <1>5 DEF Kept

\* Damage puts an item that does not matter in the place of the first.
LEMMA DamagedKept ==
  ASSUME NEW S, NEW q \in Seq(S), q # <<>>, NEW b \in S, b.type \notin Matters
  PROVE  <<b>> \o Tail(q) \in Seq(S) /\ Kept(<<b>> \o Tail(q), q)
<1> DEFINE r == <<b>> \o Tail(q)
<1>1. r \in Seq(S) /\ Len(r) = Len(q) /\ r[1] = b
  OBVIOUS
<1>2. \A i \in 1 .. Len(r) : i # 1 => r[i] = q[i]
  OBVIOUS
<1> HIDE DEF r
<1>3. \A i \in 1 .. Len(r) :
         r[i].type \in Matters => i + 0 \in 1 .. Len(q) /\ r[i] = q[i + 0]
  BY <1>1, <1>2
<1>4. Kept(r, q)
  BY <1>3 DEF Kept
<1> QED BY <1>1, <1>4 DEF r

\* What a queue holds after one more item is sent
LEMMA Sent ==
  ASSUME NEW S, NEW q \in Seq(S), NEW b \in S
  PROVE  /\ Send(q, b) \in Seq(S)
         /\ Len(Send(q, b)) \in Len(q) .. Len(q) + 1
         /\ \A i \in 1 .. Len(Send(q, b)) :
               Send(q, b)[i] = IF i <= Len(q) THEN q[i] ELSE b
BY SerialLineAssumption DEF Send

\* Sending what does not matter keeps the order too.
LEMMA SentKept ==
  ASSUME NEW S, NEW q \in Seq(S), NEW r \in Seq(S), Kept(r, q),
         NEW b \in S, b.type \notin Matters
  PROVE  Send(r, b) \in Seq(S) /\ Kept(Send(r, b), q)
<1> DEFINE s == Send(r, b)
<1>1. /\ s \in Seq(S) /\ Len(s) \in Len(r) .. Len(r) + 1
      /\ \A i \in 1 .. Len(s) : s[i] = IF i <= Len(r) THEN r[i] ELSE b
  BY Sent
<1> HIDE DEF s
<1>2. PICK k \in Nat : \A i \in 1 .. Len(r) :
         r[i].type \in Matters => i + k \in 1 .. Len(q) /\ r[i] = q[i + k]
  BY DEF Kept
<1>3. ASSUME NEW i \in 1 .. Len(s), s[i].type \in Matters
      PROVE  i + k \in 1 .. Len(q) /\ s[i] = q[i + k]
  <2>1. i <= Len(r)
    BY <1>1, <1>3
  <2>2. i \in 1 .. Len(r) /\ s[i] = r[i]
    BY <1>1, <2>1
  <2> QED BY <1>2, <1>3, <2>2
<1>4. Kept(s, q)
  BY <1>3 DEF Kept
<1> QED BY <1>1, <1>4 DEF s

\* What the positions say of a queue still holds when it was kept.
LEMMA RxKeeps ==
  ASSUME toRx \in Seq(RxItem), KeptRx, UNCHANGED txFile
  PROVE  /\ NoRx({"blk"}) => NoRx({"blk"})'
         /\ NoRx({"eot"}) => NoRx({"eot"})'
         /\ NoRx({"blk", "eot"}) => NoRx({"blk", "eot"})'
         /\ BlocksBeforeEot => BlocksBeforeEot'
         /\ Block0Last => Block0Last'
<1>1. PICK k \in Nat : \A i \in 1 .. Len(toRx') :
         toRx'[i].type \in Matters => i + k \in 1 .. Len(toRx) /\ toRx'[i] = toRx[i + k]
  BY DEF KeptRx, Kept
<1>2. \A i, j \in 1 .. Len(toRx') : i < j => i + k < j + k
  BY DEF KeptRx
<1>3. NoRx({"blk"}) => NoRx({"blk"})'
  BY <1>1 DEF NoRx, Matters
<1>4. NoRx({"eot"}) => NoRx({"eot"})'
  BY <1>1 DEF NoRx, Matters
<1>5. NoRx({"blk", "eot"}) => NoRx({"blk", "eot"})'
  BY <1>1 DEF NoRx, Matters
<1>6. BlocksBeforeEot => BlocksBeforeEot'
  BY <1>1, <1>2 DEF BlocksBeforeEot, Matters
<1>7. Block0Last => Block0Last'
  <2> SUFFICES ASSUME Block0Last, NEW i \in 1 .. Len(toRx'), toRx'[i].type = "blk"
               PROVE  /\ toRx'[i].load = <<txFile, 0>>
                      /\ \A j \in 1 .. Len(toRx') :
                            i < j => toRx'[j].type \notin {"blk", "eot"}
    BY DEF Block0Last
  <2>1. i + k \in 1 .. Len(toRx) /\ toRx'[i] = toRx[i + k]
    BY <1>1 DEF Matters
  <2>2. toRx'[i].load = <<txFile, 0>>
    BY <2>1 DEF Block0Last
  <2>3. \A j \in 1 .. Len(toRx) : i + k < j => toRx[j].type \notin {"blk", "eot"}
    BY <2>1 DEF Block0Last
  <2> QED BY <1>1, <1>2, <2>2, <2>3 DEF Matters
<1> QED BY <1>3, <1>4, <1>5, <1>6, <1>7

LEMMA TxKeeps ==
  ASSUME toTx \in Seq(TxItem), KeptTx
  PROVE  /\ NoTx({"ack"}) => NoTx({"ack"})'
         /\ NoTx({"c"}) => NoTx({"c"})'
         /\ AcksFirst => AcksFirst'
         /\ OneGo => OneGo'
         /\ OneC => OneC'
<1>1. PICK k \in Nat : \A i \in 1 .. Len(toTx') :
         toTx'[i].type \in Matters => i + k \in 1 .. Len(toTx) /\ toTx'[i] = toTx[i + k]
  BY DEF KeptTx, Kept
<1>2. \A i, j \in 1 .. Len(toTx') : i < j => i + k < j + k
  BY DEF KeptTx
<1>3. NoTx({"ack"}) => NoTx({"ack"})'
  BY <1>1 DEF NoTx, Matters
<1>4. NoTx({"c"}) => NoTx({"c"})'
  BY <1>1 DEF NoTx, Matters
<1>5. AcksFirst => AcksFirst'
  BY <1>1, <1>2 DEF AcksFirst, Matters
<1>6. OneC => OneC'
  BY <1>1, <1>2 DEF OneC, Matters
<1>7. OneGo => OneGo'
  <2> SUFFICES ASSUME OneGo PROVE OneGo'
    OBVIOUS
  <2>1. ASSUME NEW i \in 1 .. Len(toTx'), NEW j \in 1 .. Len(toTx'),
               i < j, toTx'[i].type = "ack"
        PROVE  toTx'[j].type # "ack"
    BY <1>1, <1>2, <2>1 DEF OneGo, Matters
  <2>2. ASSUME NEW i \in 1 .. Len(toTx'), NEW j \in 1 .. Len(toTx'),
               NEW m \in 1 .. Len(toTx'), i < j, j < m,
               toTx'[i].type = "ack", toTx'[j].type = "c"
        PROVE  toTx'[m].type # "c"
    <3>1. i + k < j + k /\ j + k < m + k
      BY <1>2, <2>2
    <3>2. toTx'[m].type = "c" =>
             /\ {i + k, j + k, m + k} \subseteq 1 .. Len(toTx)
             /\ toTx[i + k].type = "ack" /\ toTx[j + k].type = "c"
             /\ toTx[m + k].type = "c"
      BY <1>1, <2>2 DEF Matters
    <3> QED BY <3>1, <3>2 DEF OneGo
  <2> QED BY <2>1, <2>2 DEF OneGo
<1> QED BY <1>3, <1>4, <1>5, <1>6, <1>7

LEMMA RxBytes ==
  ASSUME NEW ty \in {"blk", "bad", "junk", "eot", "can", "brk"}
  PROVE  RxByte(ty) \in RxItem /\ RxByte(ty).type = ty
<1>1. 0 \in 0 .. BlockMod - 1
  BY YmodemAssumption
<1> QED BY <1>1 DEF RxByte, RxItem, Padding, Payload

LEMMA TxBytes ==
  ASSUME NEW ty \in TxItemTypes
  PROVE  TxByte(ty) \in TxItem /\ TxByte(ty).type = ty
BY DEF TxByte, TxItem, TxItemTypes

LEMMA BlockNums ==
  ASSUME NEW k \in Nat
  PROVE  BlockNum(k) \in 0 .. BlockMod - 1
BY YmodemAssumption DEF BlockNum

LEMMA Packets ==
  ASSUME NEW k \in Nat, NEW load \in Payload
  PROVE  /\ Packet(k, load) \in RxItem
         /\ Packet(k, load).type = "blk" /\ Packet(k, load).load = load
         /\ Packet(k, load).num = BlockNum(k)
BY BlockNums DEF Packet, RxItem

-----------------------------------------------------------------------------
(* The files *)

\* on_file_end changes nothing but the reported end of the last file.
LEMMA EndedFacts ==
  ASSUME NEW files \in Seq(FileRecord), files # <<>>,
         NEW st \in {"OK", "TIMEOUT", "CANCEL", "SEQUENCE"}
  PROVE  /\ Ended(files, st) \in Seq(FileRecord)
         /\ Len(Ended(files, st)) = Len(files)
         /\ \A i \in 1 .. Len(files) - 1 : Ended(files, st)[i] = files[i]
         /\ Ended(files, st)[Len(files)].end = st
         /\ Ended(files, st)[Len(files)].name = files[Len(files)].name
         /\ Ended(files, st)[Len(files)].data = files[Len(files)].data
<1> DEFINE n == Len(files)
           r == [files[n] EXCEPT !.end = st]
<1>1. n \in Nat \ {0} /\ n \in DOMAIN files /\ files[n] \in FileRecord
  OBVIOUS
<1>2. /\ r \in FileRecord /\ r.end = st
      /\ r.name = files[n].name /\ r.data = files[n].data
  BY <1>1 DEF FileRecord
<1>3. Ended(files, st) = [files EXCEPT ![n] = r]
  BY DEF Ended
<1> HIDE DEF r
<1> QED BY <1>1, <1>2, <1>3

\* on_file_start adds a file without data.
LEMMA StartedFacts ==
  ASSUME NEW files \in Seq(FileRecord), NEW name \in Nat,
         NEW after \in Started(files, name)
  PROVE  /\ after \in Seq(FileRecord)
         /\ Len(after) = Len(files) + 1
         /\ \A i \in 1 .. Len(files) : after[i] = files[i]
         /\ after[Len(files) + 1].name = name
         /\ after[Len(files) + 1].data = <<>>
         /\ after[Len(files) + 1].end = "none"
<1>1. PICK o \in {TRUE, ~ StoreFails} :
         after = Append(files, [name |-> name, data |-> <<>>, open |-> o, end |-> "none"])
  BY DEF Started
<1> DEFINE r == [name |-> name, data |-> <<>>, open |-> o, end |-> "none"]
<1>2. r \in FileRecord /\ r.name = name /\ r.data = <<>> /\ r.end = "none"
  <2>1. o \in BOOLEAN
    BY BatchAssumption, Zenon
  <2>2. <<>> \in Seq(Payload)
    OBVIOUS
  <2> QED BY <2>1, <2>2 DEF FileRecord
<1>3. after = Append(files, r)
  BY <1>1, Zenon
<1> HIDE DEF r
<1> QED BY <1>2, <1>3

\* on_data appends a payload to the last file, or changes nothing.
LEMMA StoredFacts ==
  ASSUME NEW files \in Seq(FileRecord), files # <<>>, NEW load \in Payload,
         NEW after \in Stored(files, load)
  PROVE  \/ after = files
         \/ /\ after \in Seq(FileRecord)
            /\ Len(after) = Len(files)
            /\ \A i \in 1 .. Len(files) - 1 : after[i] = files[i]
            /\ after[Len(files)].name = files[Len(files)].name
            /\ after[Len(files)].end = files[Len(files)].end
            /\ after[Len(files)].data = Append(files[Len(files)].data, load)
<1> DEFINE n == Len(files)
           r == [files[n] EXCEPT !.data = Append(@, load)]
<1>1. n \in Nat \ {0} /\ n \in DOMAIN files /\ files[n] \in FileRecord
  OBVIOUS
<1>2. /\ r \in FileRecord /\ r.end = files[n].end
      /\ r.name = files[n].name /\ r.data = Append(files[n].data, load)
  <2>1. files[n].data \in Seq(Payload)
    BY <1>1 DEF FileRecord
  <2>2. Append(files[n].data, load) \in Seq(Payload)
    BY <2>1
  <2> QED BY <1>1, <2>2 DEF FileRecord
<1>3. after = files \/ after = [files EXCEPT ![n] = r]
  BY <1>1, Zenon DEF Stored
<1> HIDE DEF r
<1>4. CASE after = [files EXCEPT ![n] = r]
  BY <1>1, <1>2, <1>4
<1> QED BY <1>3, <1>4

-----------------------------------------------------------------------------
(* The course: steps that keep the positions *)

LEMMA Shapes ==
  ASSUME TypeOK
  PROVE  /\ toRx \in Seq(RxItem) /\ toTx \in Seq(TxItem)
         /\ rxFiles \in Seq(FileRecord)
         /\ Current \in Nat /\ NFiles \in Nat
         /\ txFile \in 1 .. NFiles + 1
BY BatchAssumption DEF TypeOK, LineTypeOK, RxTypeOK, TxTypeOK, Current, NFiles

\* The files are those of before, but for the end of the last and its data.
SameFiles ==
    /\ Len(rxFiles') = Len(rxFiles)
    /\ \A i \in 1 .. Len(rxFiles) : rxFiles'[i].name = rxFiles[i].name
    /\ \A i \in 1 .. Len(rxFiles) - 1 : rxFiles'[i].end = rxFiles[i].end

\* A step that neither end takes for progress keeps the position.
LEMMA QuietStep ==
  ASSUME TypeOK, BatchFits, KeptRx, KeptTx, SameFiles,
         UNCHANGED <<rxPhase, txPhase, txFile, txBlock>>,
         rxPhase = "header" => UNCHANGED rxFiles,
         rxStatus' = "OK" <=> rxStatus = "OK",
         txStatus' = "OK" => txStatus = "OK"
  PROVE  BatchFits'
<1> USE DEF BatchFits
<1>1. toRx \in Seq(RxItem) /\ toTx \in Seq(TxItem) /\ Current \in Nat
  BY Shapes
<1>2. /\ NoRx({"blk"}) => NoRx({"blk"})'
      /\ NoRx({"eot"}) => NoRx({"eot"})'
      /\ NoRx({"blk", "eot"}) => NoRx({"blk", "eot"})'
      /\ BlocksBeforeEot => BlocksBeforeEot'
      /\ Block0Last => Block0Last'
  BY <1>1, RxKeeps
<1>3. /\ NoTx({"ack"}) => NoTx({"ack"})'
      /\ NoTx({"c"}) => NoTx({"c"})'
      /\ AcksFirst => AcksFirst'
      /\ OneGo => OneGo'
      /\ OneC => OneC'
  BY <1>1, TxKeeps
<1>4. Current' = Current
  BY DEF SameFiles, Current
<1>5. FilesFollow' /\ TxFits' /\ StatusFits'
  <2>1. FilesFollow'
    BY <1>1 DEF FilesFollow, SameFiles, Current
  <2>2. TxFits'
    BY DEF TxFits
  <2>3. StatusFits'
    BY DEF StatusFits
  <2> QED BY <2>1, <2>2, <2>3
<1>6. Course'
  <2>1. CASE Between
    BY <1>2, <1>3, <1>4, <2>1 DEF Between, AtEnd, Closed, LastEnded, Course
  <2>2. CASE Closing
    BY <1>2, <1>3, <1>4, <2>2 DEF Closing, AtEnd, Closed, Course
  <2>3. CASE Offered
    BY <1>2, <1>3, <1>4, <2>3 DEF Offered, LastEnded, Course
  <2>4. CASE Taken
    BY <1>2, <1>3, <1>4, <2>4 DEF Taken, Course
  <2>5. CASE Going
    BY <1>2, <1>3, <1>4, <2>5 DEF Going, Course
  <2>6. CASE Sending
    BY <1>2, <1>3, <1>4, <2>6 DEF Sending, Course
  <2> QED BY <2>1, <2>2, <2>3, <2>4, <2>5, <2>6 DEF Course
<1> QED BY <1>5, <1>6

\* Inside a file there is one.
LEMMA InsideFile ==
  ASSUME TypeOK, BatchFits, rxPhase \in {"data", "eot"}
  PROVE  Current \in 1 .. NFiles /\ rxFiles # <<>>
<1>1. /\ txFile \in 1 .. NFiles + 1 /\ NFiles \in Nat /\ Current \in Nat
      /\ rxFiles \in Seq(FileRecord)
  BY Shapes
<1>2. Current \in 1 .. NFiles
  <2>1. CASE Closing
    BY <1>1, <2>1 DEF Closing, AtEnd, Closed, BatchFits, TxFits
  <2>2. CASE Taken
    BY <1>1, <2>2 DEF Taken
  <2>3. CASE Going
    BY <1>1, <2>3 DEF Going, BatchFits, TxFits
  <2>4. CASE Sending
    BY <1>1, <2>4 DEF Sending, BatchFits, TxFits
  <2> QED BY <2>1, <2>2, <2>3, <2>4 DEF BatchFits, Course, Between, Offered
<1> QED BY <1>1, <1>2 DEF Current

LEMMA FileEnded ==
  ASSUME rxFiles \in Seq(FileRecord), rxFiles # <<>>,
         NEW st \in {"OK", "TIMEOUT", "CANCEL", "SEQUENCE"}, FileEnd(st)
  PROVE  /\ rxFiles' \in Seq(FileRecord) /\ SameFiles
         /\ rxFiles'[Current].end = st
         /\ rxFiles'[Current].name = rxFiles[Current].name
         /\ rxFiles'[Current].data = rxFiles[Current].data
         /\ \A i \in 1 .. Current - 1 : rxFiles'[i] = rxFiles[i]
<1> DEFINE n == Len(rxFiles)
<1>1. /\ rxFiles' \in Seq(FileRecord) /\ Len(rxFiles') = n
      /\ \A i \in 1 .. n - 1 : rxFiles'[i] = rxFiles[i]
      /\ rxFiles'[n].end = st
      /\ rxFiles'[n].name = rxFiles[n].name
      /\ rxFiles'[n].data = rxFiles[n].data
  BY EndedFacts, Zenon DEF FileEnd
<1>2. n \in Nat \ {0}
  OBVIOUS
<1> HIDE DEF n
<1>3. SameFiles
  BY <1>1, <1>2 DEF SameFiles, n
<1> QED BY <1>1, <1>3 DEF Current, n

LEMMA ReadRx ==
  ASSUME toRx \in Seq(RxItem),
         \/ UNCHANGED toRx
         \/ toRx # <<>> /\ toRx' = Tail(toRx)
         \/ toRx # <<>> /\ toRx' \in Purged(Tail(toRx))
  PROVE  KeptRx
BY SameKept, TailKept, PurgedKept DEF KeptRx

\* NAKs and CANs change nothing for the transmitter's place.
LEMMA AnswerTx ==
  ASSUME toTx \in Seq(TxItem),
         \/ UNCHANGED toTx
         \/ \E ty \in {"nak", "can"} : toTx' = Send(toTx, TxByte(ty))
         \/ toTx' = SendTwice(toTx, TxByte("can"))
  PROVE  KeptTx
<1>1. Kept(toTx, toTx)
  BY SameKept
<1>2. CASE UNCHANGED toTx
  BY <1>1, <1>2 DEF KeptTx
<1>3. ASSUME NEW ty \in {"nak", "can"}, toTx' = Send(toTx, TxByte(ty))
      PROVE  KeptTx
  <2>1. TxByte(ty) \in TxItem /\ TxByte(ty).type \notin Matters
    BY TxBytes DEF TxItemTypes, Matters
  <2> QED BY <1>1, <1>3, <2>1, SentKept DEF KeptTx
<1>4. CASE toTx' = SendTwice(toTx, TxByte("can"))
  <2>1. TxByte("can") \in TxItem /\ TxByte("can").type \notin Matters
    BY TxBytes DEF TxItemTypes, Matters
  <2> DEFINE s == Send(toTx, TxByte("can"))
  <2>2. s \in Seq(TxItem) /\ Kept(s, toTx)
    BY <1>1, <2>1, SentKept
  <2>3. toTx' = Send(s, TxByte("can"))
    BY <1>4 DEF SendTwice
  <2> HIDE DEF s
  <2> QED BY <2>1, <2>2, <2>3, SentKept DEF KeptTx
<1> QED BY <1>2, <1>3, <1>4

\* The receive steps that leave the two ends where they are
LEMMA RxQuietStep ==
  ASSUME TypeOK, BatchFits, NEW silent,
         \/ HeaderCancel \/ DataTimeout(silent) \/ DataCancel \/ DataRefuse
         \/ DataSequence,
         UNCHANGED txVars
  PROVE  BatchFits'
<1>1. toRx \in Seq(RxItem) /\ toTx \in Seq(TxItem) /\ rxFiles \in Seq(FileRecord)
  BY Shapes
<1>2. rxStatus = "RUN" /\ rxStatus' # "OK" /\ UNCHANGED rxPhase
  BY DEF HeaderCancel, DataTimeout, DataCancel, DataRefuse, DataSequence, RxReads,
         RxQuiet, RxAt, RxReturn, rxVars
<1>3. KeptRx
  BY <1>1, ReadRx
  DEF HeaderCancel, DataTimeout, DataCancel, DataRefuse, DataSequence, RxReads, RxQuiet
<1>4. KeptTx
  BY <1>1, AnswerTx
  DEF HeaderCancel, DataTimeout, DataCancel, DataRefuse, DataSequence, RxReturn
<1>5. \/ UNCHANGED rxFiles
      \/ /\ rxPhase = "data"
         /\ \E st \in {"TIMEOUT", "CANCEL", "SEQUENCE"} : FileEnd(st)
  BY DEF HeaderCancel, DataTimeout, DataCancel, DataRefuse, DataSequence, RxReads,
         RxQuiet, RxAt, rxVars
<1>6. SameFiles
  <2>1. CASE UNCHANGED rxFiles
    BY <2>1 DEF SameFiles
  <2>2. CASE rxPhase = "data" /\ \E st \in {"TIMEOUT", "CANCEL", "SEQUENCE"} : FileEnd(st)
    <3>1. rxFiles # <<>>
      BY <2>2, InsideFile
    <3> QED BY <1>1, <2>2, <3>1, FileEnded
  <2> QED BY <1>5, <2>1, <2>2
<1> QED BY <1>2, <1>3, <1>4, <1>5, <1>6, QuietStep DEF txVars

-----------------------------------------------------------------------------
(* The course: the steps of the receiver *)

\* What has been read is at the front of the queue.
LEMMA HeadFirst ==
  ASSUME NEW S, NEW q \in Seq(S), q # <<>>
  PROVE  /\ 1 \in 1 .. Len(q) /\ Head(q) = q[1] /\ Head(q) \in S
         /\ Len(Tail(q)) = Len(q) - 1
         /\ \A i \in 1 .. Len(Tail(q)) :
               i + 1 \in 1 .. Len(q) /\ 1 < i + 1 /\ Tail(q)[i] = q[i + 1]
OBVIOUS

\* Another 'C' and perhaps a CAN
LEMMA HeaderRetryStep ==
  ASSUME TypeOK, BatchFits, NEW silent, HeaderTimeout(silent) \/ HeaderRefuse,
         UNCHANGED txVars
  PROVE  BatchFits'
<1> USE DEF txVars
<1>1. toRx \in Seq(RxItem) /\ toTx \in Seq(TxItem)
  BY Shapes
<1>2. /\ rxStatus = "RUN" /\ rxStatus' # "OK" /\ rxPhase = "header"
      /\ UNCHANGED <<rxPhase, rxFiles>>
  BY DEF HeaderTimeout, HeaderRefuse, HeaderRetry, RxReads, RxQuiet, RxAt, RxReturn
<1>3. KeptRx
  BY <1>1, ReadRx DEF HeaderTimeout, HeaderRefuse, RxReads, RxQuiet
<1>4. /\ NoRx({"blk"}) => NoRx({"blk"})'
      /\ Block0Last => Block0Last'
  BY <1>1, <1>3, RxKeeps
<1>5. \A i \in 1 .. Len(toTx') :
         \/ i \in 1 .. Len(toTx) /\ toTx'[i] = toTx[i]
         \/ i > Len(toTx) /\ toTx'[i].type \in {"c", "can"}
  <2> DEFINE c == TxByte("c")
             s == Send(toTx, c)
             can == TxByte("can")
  <2>1. toTx' = s \/ toTx' = Send(s, can)
    BY DEF HeaderTimeout, HeaderRefuse, HeaderRetry, RxReturn
  <2>2. c \in TxItem /\ c.type = "c" /\ can \in TxItem /\ can.type = "can"
    BY TxBytes DEF TxItemTypes
  <2> HIDE DEF c, can
  <2>3. /\ s \in Seq(TxItem) /\ Len(s) \in Len(toTx) .. Len(toTx) + 1
        /\ \A i \in 1 .. Len(s) : s[i] = IF i <= Len(toTx) THEN toTx[i] ELSE c
    BY <1>1, <2>2, Sent
  <2> HIDE DEF s
  <2>4. \A i \in 1 .. Len(s) :
           \/ i \in 1 .. Len(toTx) /\ s[i] = toTx[i]
           \/ i > Len(toTx) /\ s[i].type = "c"
    BY <1>1, <2>2, <2>3
  <2>5. CASE toTx' = s
    BY <2>4, <2>5
  <2>6. CASE toTx' = Send(s, can)
    <3> DEFINE t == Send(s, can)
    <3>0. /\ Len(t) \in Len(s) .. Len(s) + 1
          /\ \A i \in 1 .. Len(t) : t[i] = IF i <= Len(s) THEN s[i] ELSE can
      BY <2>2, <2>3, Sent
    <3>1. /\ Len(toTx') \in Len(s) .. Len(s) + 1
          /\ \A i \in 1 .. Len(toTx') : toTx'[i] = IF i <= Len(s) THEN s[i] ELSE can
      BY <2>6, <3>0, Zenon
    <3>2. \A i \in 1 .. Len(toTx') :
             \/ i \in 1 .. Len(s) /\ toTx'[i] = s[i]
             \/ i > Len(toTx) /\ toTx'[i].type = "can"
      BY <2>2, <2>3, <3>1
    <3> QED BY <2>4, <3>2
  <2> QED BY <2>1, <2>5, <2>6
<1>6. Current' = Current
  BY <1>2 DEF Current
<1>7. FilesFollow' /\ TxFits' /\ StatusFits'
  BY <1>2 DEF BatchFits, FilesFollow, TxFits, StatusFits
<1>8. CASE Between
  <2>1. AcksFirst'
    <3> SUFFICES ASSUME NEW i \in 1 .. Len(toTx'), NEW j \in 1 .. Len(toTx'),
                        i < j, toTx'[i].type = "c", toTx'[j].type = "ack"
                 PROVE  FALSE
      BY DEF AcksFirst
    <3>1. j \in 1 .. Len(toTx) /\ toTx'[j] = toTx[j]
      BY <1>5
    <3>2. i \in 1 .. Len(toTx) /\ ~ (i > Len(toTx))
      BY <3>1
    <3>3. toTx'[i] = toTx[i]
      BY <1>5, <3>2
    <3> QED BY <1>8, <3>1, <3>2, <3>3 DEF Between, AcksFirst
  <2>2. Between'
    BY <1>2, <1>4, <1>6, <1>8, <2>1 DEF Between, AtEnd, Closed, LastEnded
  <2> QED BY <1>7, <2>2 DEF BatchFits, Course
<1>9. CASE Offered
  <2>1. NoTx({"ack"})'
    BY <1>2, <1>5, <1>9 DEF Offered, NoTx
  <2>2. Offered'
    BY <1>2, <1>4, <1>6, <1>9, <2>1 DEF Offered, LastEnded
  <2> QED BY <1>7, <2>2 DEF BatchFits, Course
<1> QED BY <1>2, <1>8, <1>9 DEF BatchFits, Course, Closing, Taken, Going, Sending

\* A block 0 that is read is the one the transmitter sends.
LEMMA Block0Read ==
  ASSUME TypeOK, BatchFits, RxReads("header", {"blk"}), toRx' = Tail(toRx)
  PROVE  /\ Offered /\ rxStatus = "RUN"
         /\ Head(toRx).load = <<txFile, 0>> /\ NameIn(Head(toRx).load) = txFile
         /\ NoRx({"blk", "eot"})'
<1>1. toRx \in Seq(RxItem)
  BY Shapes
<1>2. toRx # <<>> /\ Head(toRx).type = "blk" /\ rxPhase = "header" /\ rxStatus = "RUN"
  BY DEF RxReads, RxAt
<1>3. /\ 1 \in 1 .. Len(toRx) /\ Head(toRx) = toRx[1]
      /\ \A i \in 1 .. Len(toRx') :
            i + 1 \in 1 .. Len(toRx) /\ 1 < i + 1 /\ toRx'[i] = toRx[i + 1]
  BY <1>1, <1>2, HeadFirst
<1>4. Offered
  BY <1>2, <1>3 DEF BatchFits, Course, Between, Closing, Taken, Going, Sending, NoRx
<1>5. /\ Head(toRx).load = <<txFile, 0>>
      /\ \A j \in 1 .. Len(toRx) : 1 < j => toRx[j].type \notin {"blk", "eot"}
  BY <1>2, <1>3, <1>4 DEF Offered, Block0Last
<1>6. NameIn(Head(toRx).load) = txFile
  BY <1>5 DEF NameIn
<1>7. NoRx({"blk", "eot"})'
  BY <1>3, <1>5 DEF NoRx
<1> QED BY <1>2, <1>4, <1>5, <1>6, <1>7

LEMMA BatchEndStep ==
  ASSUME TypeOK, BatchFits, BatchEnd, UNCHANGED txVars
  PROVE  BatchFits'
<1> USE DEF txVars
<1>1. /\ RxReads("header", {"blk"}) /\ toRx' = Tail(toRx)
      /\ NameIn(Head(toRx).load) = NFiles + 1
      /\ rxStatus' = "OK" /\ UNCHANGED <<rxPhase, rxFiles>>
  BY DEF BatchEnd, RxReturn
<1>2. /\ Offered /\ rxStatus = "RUN" /\ txFile = NFiles + 1
      /\ NoRx({"blk", "eot"})'
  BY <1>1, Block0Read
<1>3. Block0Last'
  BY <1>2 DEF NoRx, Block0Last
<1>4. FilesFollow' /\ TxFits' /\ StatusFits'
  BY <1>1, <1>2 DEF BatchFits, FilesFollow, TxFits, StatusFits, Offered
<1>5. Offered'
  BY <1>1, <1>2, <1>3 DEF Offered, LastEnded, Current
<1> QED BY <1>4, <1>5 DEF BatchFits, Course

\* An ACK and a 'C'
LEMMA AckAndC ==
  ASSUME toTx \in Seq(TxItem), toTx' = Send(Send(toTx, TxByte("ack")), TxByte("c"))
  PROVE  /\ toTx' \in Seq(TxItem)
         /\ \A i \in 1 .. Len(toTx') : \/ i \in 1 .. Len(toTx) /\ toTx'[i] = toTx[i]
                                       \/ i > Len(toTx)
         /\ \A i, j \in 1 .. Len(toTx') :
               Len(toTx) < i /\ i < j => toTx'[i].type = "ack" /\ toTx'[j].type = "c"
<1> DEFINE a == TxByte("ack")
           c == TxByte("c")
           s == Send(toTx, a)
<1>1. toTx' = Send(s, c)
  OBVIOUS
<1>2. c \in TxItem /\ c.type = "c" /\ a \in TxItem /\ a.type = "ack"
  BY TxBytes DEF TxItemTypes
<1> HIDE DEF a, c
<1>3. /\ s \in Seq(TxItem) /\ Len(s) \in Len(toTx) .. Len(toTx) + 1
      /\ \A i \in 1 .. Len(s) : s[i] = IF i <= Len(toTx) THEN toTx[i] ELSE a
  BY <1>2, Sent
<1> HIDE DEF s
<1>4. /\ toTx' \in Seq(TxItem) /\ Len(toTx') \in Len(s) .. Len(s) + 1
      /\ \A i \in 1 .. Len(toTx') : toTx'[i] = IF i <= Len(s) THEN s[i] ELSE c
  <2> DEFINE t == Send(s, c)
  <2>1. /\ t \in Seq(TxItem) /\ Len(t) \in Len(s) .. Len(s) + 1
        /\ \A i \in 1 .. Len(t) : t[i] = IF i <= Len(s) THEN s[i] ELSE c
    BY <1>2, <1>3, Sent
  <2> QED BY <1>1, <2>1, Zenon
<1>5. ASSUME NEW i \in 1 .. Len(toTx')
      PROVE  \/ i \in 1 .. Len(toTx) /\ toTx'[i] = toTx[i]
             \/ i > Len(toTx)
  BY <1>3, <1>4
<1>6. ASSUME NEW i \in 1 .. Len(toTx'), NEW j \in 1 .. Len(toTx'),
             Len(toTx) < i, i < j
      PROVE  toTx'[i].type = "ack" /\ toTx'[j].type = "c"
  <2>1. i = Len(s) /\ j = Len(s) + 1 /\ i = Len(toTx) + 1
    BY <1>3, <1>4, <1>6
  <2> QED BY <1>2, <1>3, <1>4, <2>1
<1> QED BY <1>4, <1>5, <1>6

LEMMA FileStartStep ==
  ASSUME TypeOK, BatchFits, FileStart, UNCHANGED txVars
  PROVE  BatchFits'
<1> USE DEF txVars
<1>1. /\ RxReads("header", {"blk"}) /\ toRx' = Tail(toRx)
      /\ NameIn(Head(toRx).load) # NFiles + 1
      /\ toTx' = Send(Send(toTx, TxByte("ack")), TxByte("c"))
      /\ rxFiles' \in Started(rxFiles, NameIn(Head(toRx).load))
      /\ rxPhase' = "data" /\ UNCHANGED rxStatus
  BY DEF FileStart
<1>2. /\ Offered /\ rxStatus = "RUN"
      /\ NameIn(Head(toRx).load) = txFile
      /\ NoRx({"blk", "eot"})'
  BY <1>1, Block0Read
<1>3. /\ toTx \in Seq(TxItem) /\ rxFiles \in Seq(FileRecord)
      /\ NFiles \in Nat /\ txFile \in 1 .. NFiles + 1
  BY Shapes
<1>4. /\ \A i \in 1 .. Len(toTx') : \/ i \in 1 .. Len(toTx) /\ toTx'[i] = toTx[i]
                                    \/ i > Len(toTx)
      /\ \A i, j \in 1 .. Len(toTx') :
            Len(toTx) < i /\ i < j => toTx'[i].type = "ack" /\ toTx'[j].type = "c"
      /\ toTx' \in Seq(TxItem)
  BY <1>1, <1>3, AckAndC
<1>5. NoTx({"ack"})
  BY <1>2 DEF Offered
<1>6. \A i \in 1 .. Len(toTx') : toTx'[i].type = "ack" => i > Len(toTx)
  BY <1>4, <1>5 DEF NoTx
<1>7. OneGo'
  <2>1. ASSUME NEW i \in 1 .. Len(toTx'), NEW j \in 1 .. Len(toTx'),
               i < j, toTx'[i].type = "ack"
        PROVE  toTx'[j].type = "c"
    BY <1>4, <1>6, <2>1
  <2>2. ASSUME NEW i \in 1 .. Len(toTx'), NEW j \in 1 .. Len(toTx'),
               NEW k \in 1 .. Len(toTx'), i < j, j < k, toTx'[i].type = "ack"
        PROVE  toTx'[j].type # "c"
    <3>1. Len(toTx) < i
      BY <1>6, <2>2
    <3>2. Len(toTx) < j
      BY <1>3, <1>4, <2>2, <3>1
    <3> QED BY <1>4, <2>2, <3>2
  <2> QED BY <2>1, <2>2 DEF OneGo
<1>8. /\ Len(rxFiles') = Len(rxFiles) + 1
      /\ \A i \in 1 .. Len(rxFiles) : rxFiles'[i] = rxFiles[i]
      /\ rxFiles'[Len(rxFiles) + 1].name = txFile
  BY <1>1, <1>2, <1>3, StartedFacts
<1>9. Len(rxFiles) = txFile - 1 /\ Len(rxFiles) \in Nat
  BY <1>2, <1>3 DEF Offered, Current
<1>10. FilesFollow'
  <2>1. \A i \in 1 .. Len(rxFiles) : rxFiles[i].name = i /\ rxFiles[i].end = "OK"
    BY <1>2, <1>9 DEF BatchFits, FilesFollow, Offered, LastEnded, Current
  <2> QED BY <1>3, <1>8, <1>9, <2>1 DEF FilesFollow
<1>11. TxFits' /\ StatusFits'
  BY <1>1, <1>2 DEF BatchFits, TxFits, StatusFits
<1>12. txFile <= NFiles
  BY <1>1, <1>2, <1>3
<1>13. Taken'
  BY <1>1, <1>2, <1>3, <1>7, <1>8, <1>9, <1>12 DEF Taken, Current, Offered
<1> QED BY <1>10, <1>11, <1>13 DEF BatchFits, Course

\* A packet inside a file comes while blocks or EOT are on their way.
LEMMA PacketRead ==
  ASSUME TypeOK, BatchFits, RxReads("data", {"blk"})
  PROVE  /\ rxPhase = "data" /\ rxStatus = "RUN"
         /\ (Closing \/ Sending)
         /\ Head(toRx) \in RxItem /\ Head(toRx) = toRx[1] /\ 1 \in 1 .. Len(toRx)
         /\ Head(toRx).type = "blk" /\ toRx # <<>>
<1>1. toRx \in Seq(RxItem)
  BY Shapes
<1>2. toRx # <<>> /\ Head(toRx).type = "blk" /\ rxPhase = "data" /\ rxStatus = "RUN"
  BY DEF RxReads, RxAt
<1>3. 1 \in 1 .. Len(toRx) /\ Head(toRx) = toRx[1] /\ Head(toRx) \in RxItem
  BY <1>1, <1>2, HeadFirst
<1>4. Closing \/ Sending
  BY <1>2, <1>3 DEF BatchFits, Course, Between, Offered, Taken, Going, NoRx
<1> QED BY <1>2, <1>3, <1>4

\* A packet is acknowledged, stored or not.
LEMMA PacketStep ==
  ASSUME TypeOK, BatchFits, DataAccept \/ DataDuplicate, UNCHANGED txVars
  PROVE  BatchFits'
<1> USE DEF txVars
<1>1. /\ RxReads("data", {"blk"}) /\ toRx' = Tail(toRx)
      /\ toTx' = Send(toTx, TxByte("ack"))
      /\ (rxFiles' = rxFiles \/ rxFiles' \in Stored(rxFiles, Head(toRx).load))
      /\ UNCHANGED <<rxPhase, rxStatus>>
  BY DEF DataAccept, DataDuplicate
<1>2. /\ toRx \in Seq(RxItem) /\ toTx \in Seq(TxItem) /\ rxFiles \in Seq(FileRecord)
      /\ Current \in Nat
  BY Shapes
<1>3. /\ rxPhase = "data" /\ rxStatus = "RUN" /\ (Closing \/ Sending)
      /\ Head(toRx) \in RxItem /\ toRx # <<>>
  BY <1>1, PacketRead
<1>4. KeptRx
  BY <1>1, <1>2, <1>3, ReadRx
<1>5. /\ NoRx({"eot"}) => NoRx({"eot"})'
      /\ BlocksBeforeEot => BlocksBeforeEot'
  BY <1>2, <1>4, RxKeeps
<1>6. NoTx({"c"})'
  <2> DEFINE a == TxByte("ack")
             s == Send(toTx, a)
  <2>1. a \in TxItem /\ a.type = "ack"
    BY TxBytes DEF TxItemTypes
  <2> HIDE DEF a
  <2> USE <1>2
  <2>2. /\ s \in Seq(TxItem) /\ Len(s) \in Len(toTx) .. Len(toTx) + 1
        /\ \A i \in 1 .. Len(s) : s[i] = IF i <= Len(toTx) THEN toTx[i] ELSE a
    BY <2>1, Sent
  <2>3. toTx' = s
    BY <1>1 DEF a
  <2> HIDE DEF s
  <2>4. NoTx({"c"})
    BY <1>3 DEF Closing, Sending
  <2>5. \A i \in 1 .. Len(s) : s[i].type # "c"
    BY <1>2, <2>1, <2>2, <2>4 DEF NoTx
  <2> QED BY <2>3, <2>5 DEF NoTx
<1>7. SameFiles
  <2>1. CASE rxFiles' = rxFiles
    BY <2>1 DEF SameFiles
  <2>2. CASE rxFiles' \in Stored(rxFiles, Head(toRx).load)
    <3>1. rxFiles # <<>> /\ Head(toRx).load \in Payload
      BY <1>3, InsideFile DEF RxItem
    <3>2. \/ rxFiles' = rxFiles
          \/ /\ Len(rxFiles') = Len(rxFiles)
             /\ \A i \in 1 .. Len(rxFiles) - 1 : rxFiles'[i] = rxFiles[i]
             /\ rxFiles'[Len(rxFiles)].name = rxFiles[Len(rxFiles)].name
      BY <1>2, <2>2, <3>1, StoredFacts
    <3>3. \A i \in 1 .. Len(rxFiles) : i # Len(rxFiles) => i \in 1 .. Len(rxFiles) - 1
      BY <1>2
    <3> QED BY <2>1, <3>2, <3>3 DEF SameFiles
  <2> QED BY <1>1, <2>1, <2>2
<1>8. Current' = Current
  BY <1>7 DEF SameFiles, Current
<1>9. FilesFollow' /\ TxFits' /\ StatusFits'
  <2>1. FilesFollow'
    BY <1>2, <1>7 DEF BatchFits, FilesFollow, SameFiles, Current
  <2> QED BY <1>1, <2>1 DEF BatchFits, TxFits, StatusFits
<1>10. CASE Closing
  <2>1. Closing'
    BY <1>1, <1>3, <1>5, <1>6, <1>8, <1>10 DEF Closing, AtEnd, Closed
  <2> QED BY <1>9, <2>1 DEF BatchFits, Course
<1>11. CASE Sending
  <2>1. Sending'
    BY <1>1, <1>5, <1>6, <1>8, <1>11 DEF Sending
  <2> QED BY <1>9, <2>1 DEF BatchFits, Course
<1> QED BY <1>3, <1>10, <1>11

\* The first EOT of a file is refused.
LEMMA DataEotStep ==
  ASSUME TypeOK, BatchFits, DataEot, UNCHANGED txVars
  PROVE  BatchFits'
<1> USE DEF txVars
<1>1. /\ toRx # <<>> /\ Head(toRx).type = "eot" /\ toRx' = Tail(toRx)
      /\ rxPhase = "data" /\ rxPhase' = "eot" /\ rxStatus = "RUN"
      /\ toTx' = Send(toTx, TxByte("nak"))
      /\ UNCHANGED <<rxStatus, rxFiles>>
  BY DEF DataEot, RxReads, RxAt
<1>2. toRx \in Seq(RxItem) /\ toTx \in Seq(TxItem)
  BY Shapes
<1>3. /\ 1 \in 1 .. Len(toRx) /\ Head(toRx) = toRx[1]
      /\ \A i \in 1 .. Len(toRx') :
            i + 1 \in 1 .. Len(toRx) /\ 1 < i + 1 /\ toRx'[i] = toRx[i + 1]
  BY <1>1, <1>2, HeadFirst
<1>4. Closing
  BY <1>1, <1>3 DEF BatchFits, Course, Between, Offered, Taken, Going, Sending, NoRx
<1>5. KeptRx /\ KeptTx
  BY <1>1, <1>2, ReadRx, AnswerTx
<1>6. BlocksBeforeEot' /\ NoTx({"c"})'
  BY <1>2, <1>4, <1>5, RxKeeps, TxKeeps DEF Closing
<1>7. NoRx({"blk"})'
  BY <1>1, <1>3, <1>4 DEF Closing, BlocksBeforeEot, NoRx
<1>8. FilesFollow' /\ TxFits' /\ StatusFits'
  BY <1>1 DEF BatchFits, FilesFollow, TxFits, StatusFits
<1>9. Closing'
  BY <1>1, <1>4, <1>6, <1>7 DEF Closing, AtEnd, Closed, Current
<1> QED BY <1>8, <1>9 DEF BatchFits, Course

\* The second read after an EOT ends the file, whatever it gives.
LEMMA SecondEotStep ==
  ASSUME TypeOK, BatchFits, NEW silent, SecondEot(silent), UNCHANGED txVars
  PROVE  BatchFits'
<1> USE DEF txVars
<1>1. /\ rxPhase = "eot" /\ rxPhase' = "header" /\ rxStatus = "RUN"
      /\ FileEnd("OK")
      /\ toTx' = Send(Send(toTx, TxByte("ack")), TxByte("c"))
      /\ UNCHANGED rxStatus
      /\ (UNCHANGED toRx \/ (toRx # <<>> /\ toRx' = WithoutFirstByte(toRx)))
  BY DEF SecondEot, RxQuiet, RxAt
<1>2. /\ toRx \in Seq(RxItem) /\ toTx \in Seq(TxItem) /\ rxFiles \in Seq(FileRecord)
      /\ Current \in Nat
  BY Shapes
<1>3. Closing
  BY <1>1 DEF BatchFits, Course, Between, Offered, Taken, Going, Sending
<1>4. KeptRx
  <2>1. RxByte("junk") \in RxItem /\ RxByte("junk").type \notin Matters
    BY RxBytes DEF Matters
  <2>2. \/ UNCHANGED toRx
        \/ toRx # <<>> /\ toRx' = Tail(toRx)
        \/ toRx # <<>> /\ toRx' = <<RxByte("junk")>> \o Tail(toRx)
    BY <1>1 DEF WithoutFirstByte
  <2> QED BY <1>2, <2>1, <2>2, SameKept, TailKept, DamagedKept DEF KeptRx
<1>5. NoRx({"blk"})'
  BY <1>1, <1>2, <1>3, <1>4, RxKeeps DEF Closing
<1>6. AcksFirst'
  <2>1. /\ \A i \in 1 .. Len(toTx') : \/ i \in 1 .. Len(toTx) /\ toTx'[i] = toTx[i]
                                      \/ i > Len(toTx)
        /\ \A i, j \in 1 .. Len(toTx') :
              Len(toTx) < i /\ i < j => toTx'[i].type = "ack" /\ toTx'[j].type = "c"
    BY <1>1, <1>2, AckAndC
  <2>2. \A i \in 1 .. Len(toTx') : toTx'[i].type = "c" => Len(toTx) < i
    BY <1>2, <1>3, <2>1 DEF Closing, NoTx
  <2> QED BY <2>1, <2>2 DEF AcksFirst
<1>7. /\ SameFiles /\ rxFiles'[Current].end = "OK"
  <2>1. rxFiles # <<>>
    BY <1>1, InsideFile
  <2> QED BY <1>1, <1>2, <2>1, FileEnded
<1>8. Current' = Current
  BY <1>7 DEF SameFiles, Current
<1>9. FilesFollow' /\ TxFits' /\ StatusFits'
  <2>1. FilesFollow'
    BY <1>2, <1>7 DEF BatchFits, FilesFollow, SameFiles, Current
  <2> QED BY <1>1, <2>1 DEF BatchFits, TxFits, StatusFits
<1>10. Between'
  BY <1>1, <1>3, <1>5, <1>6, <1>7, <1>8
  DEF Between, Closing, AtEnd, Closed, LastEnded
<1> QED BY <1>9, <1>10 DEF BatchFits, Course

-----------------------------------------------------------------------------
(* The course: the steps of the transmitter *)

LEMMA ReadTx ==
  ASSUME toTx \in Seq(TxItem), UNCHANGED toTx \/ (toTx # <<>> /\ toTx' = Tail(toTx))
  PROVE  KeptTx
BY SameKept, TailKept DEF KeptTx

\* The transmit steps that leave the two ends where they are
LEMMA TxQuietStep ==
  ASSUME TypeOK, BatchFits, NEW silent,
         \/ TxStartRetry(silent) \/ TxCancelled \/ TxNoStart(silent)
         \/ (TxResend(silent) /\ UNCHANGED toRx),
         UNCHANGED rxVars
  PROVE  BatchFits'
<1>1. toRx \in Seq(RxItem) /\ toTx \in Seq(TxItem)
  BY Shapes
<1>2. /\ UNCHANGED <<txPhase, txFile, txBlock, toRx>>
      /\ txStatus' = "OK" => txStatus = "OK"
      /\ (UNCHANGED toTx \/ (toTx # <<>> /\ toTx' = Tail(toTx)))
  BY DEF TxStartRetry, TxCancelled, TxNoStart, TxResend, TxReadsOther, TxReads,
         TxReturn
<1>3. KeptRx /\ KeptTx
  BY <1>1, <1>2, ReadRx, ReadTx
<1>4. SameFiles
  BY DEF SameFiles, rxVars
<1> QED BY <1>2, <1>3, <1>4, QuietStep DEF rxVars

\* The transmitter answers 'C' with a block 0 only between two files.
LEMMA TxStartStep ==
  ASSUME TypeOK, BatchFits, TxStart, UNCHANGED rxVars
  PROVE  BatchFits'
<1> USE DEF rxVars
<1> DEFINE b == Packet(0, <<txFile, 0>>)
<1>1. /\ txPhase = "start" /\ txPhase' = "block0" /\ txStatus = "RUN"
      /\ toTx # <<>> /\ Head(toTx).type = "c" /\ toTx' = Tail(toTx)
      /\ toRx' = Send(toRx, b)
      /\ UNCHANGED <<txStatus, txFile, txBlock>>
  BY DEF TxStart, TxReads, TxAt, TxGoTo
<1>2. /\ toRx \in Seq(RxItem) /\ toTx \in Seq(TxItem) /\ txFile \in 1 .. NFiles + 1
      /\ NFiles \in Nat
  BY Shapes
<1>3. /\ 1 \in 1 .. Len(toTx) /\ Head(toTx) = toTx[1]
      /\ \A i \in 1 .. Len(toTx') :
            i + 1 \in 1 .. Len(toTx) /\ 1 < i + 1 /\ toTx'[i] = toTx[i + 1]
  BY <1>1, <1>2, HeadFirst
<1>4. Between
  BY <1>1, <1>3 DEF BatchFits, Course, Closing, Offered, Taken, Going, Sending, NoTx
<1>5. NoTx({"ack"})'
  BY <1>1, <1>3, <1>4 DEF Between, AcksFirst, NoTx
<1>6. <<txFile, 0>> \in Payload
  BY <1>2 DEF Payload
<1>7. b \in RxItem /\ b.type = "blk" /\ b.load = <<txFile, 0>>
  BY <1>6, Packets
<1> HIDE DEF b
<1> DEFINE s == Send(toRx, b)
<1>8. /\ Len(s) \in Len(toRx) .. Len(toRx) + 1
      /\ \A i \in 1 .. Len(s) : s[i] = IF i <= Len(toRx) THEN toRx[i] ELSE b
  BY <1>2, <1>7, Sent
<1>9. toRx' = s
  BY <1>1
<1> HIDE DEF s
<1>10. \A i \in 1 .. Len(s) : s[i].type = "blk" => i = Len(s) /\ s[i] = b
  <2> SUFFICES ASSUME NEW i \in 1 .. Len(s), s[i].type = "blk"
               PROVE  i = Len(s) /\ s[i] = b
    OBVIOUS
  <2>1. ~ (i <= Len(toRx))
    BY <1>2, <1>4, <1>8 DEF Between, NoRx
  <2> QED BY <1>2, <1>8, <2>1
<1>11. Block0Last'
  BY <1>1, <1>7, <1>9, <1>10 DEF Block0Last
<1>12. FilesFollow' /\ TxFits' /\ StatusFits'
  BY <1>1, <1>4 DEF BatchFits, FilesFollow, TxFits, StatusFits, Between
<1>13. Offered'
  BY <1>1, <1>4, <1>5, <1>11
  DEF Offered, Between, AtEnd, Closed, LastEnded, Current
<1> QED BY <1>12, <1>13 DEF BatchFits, Course

\* What is on its way to the receiver after one more item
LEMMA RxSent ==
  ASSUME toRx \in Seq(RxItem), NEW b \in RxItem, toRx' = Send(toRx, b)
  PROVE  /\ toRx' \in Seq(RxItem)
         /\ \A i \in 1 .. Len(toRx') :
               \/ i \in 1 .. Len(toRx) /\ toRx'[i] = toRx[i]
               \/ i = Len(toRx') /\ i > Len(toRx) /\ toRx'[i] = b
<1> DEFINE s == Send(toRx, b)
<1>1. /\ s \in Seq(RxItem) /\ Len(s) \in Len(toRx) .. Len(toRx) + 1
      /\ \A i \in 1 .. Len(s) : s[i] = IF i <= Len(toRx) THEN toRx[i] ELSE b
  BY Sent, Zenon
<1>2. toRx' = s
  OBVIOUS
<1> HIDE DEF s
<1>3. ASSUME NEW i \in 1 .. Len(s)
      PROVE  \/ i \in 1 .. Len(toRx) /\ s[i] = toRx[i]
             \/ i = Len(s) /\ i > Len(toRx) /\ s[i] = b
  BY <1>1
<1> QED BY <1>1, <1>2, <1>3

LEMMA TxBlock0AckedStep ==
  ASSUME TypeOK, BatchFits, TxBlock0Acked, UNCHANGED rxVars
  PROVE  BatchFits'
<1> USE DEF rxVars
<1>1. /\ txPhase = "block0" /\ txStatus = "RUN"
      /\ toTx # <<>> /\ Head(toTx).type = "ack" /\ toTx' = Tail(toTx)
      /\ UNCHANGED <<txFile, txBlock, toRx>>
      /\ \/ txFile > NFiles /\ txStatus' = "OK" /\ UNCHANGED txPhase
         \/ txFile <= NFiles /\ txPhase' = "go" /\ UNCHANGED txStatus
  BY DEF TxBlock0Acked, TxReads, TxAt, TxGoTo, TxReturn
<1>2. /\ toRx \in Seq(RxItem) /\ toTx \in Seq(TxItem) /\ txFile \in 1 .. NFiles + 1
      /\ NFiles \in Nat
  BY Shapes
<1>3. /\ 1 \in 1 .. Len(toTx) /\ Head(toTx) = toTx[1]
      /\ \A i \in 1 .. Len(toTx') :
            i + 1 \in 1 .. Len(toTx) /\ 1 < i + 1 /\ toTx'[i] = toTx[i + 1]
  BY <1>1, <1>2, HeadFirst
<1>4. FilesFollow'
  BY DEF BatchFits, FilesFollow
<1>5. CASE Offered
  <2>1. rxStatus = "OK"
    BY <1>1, <1>3, <1>5 DEF Offered, NoTx
  <2>2. txFile = NFiles + 1
    BY <2>1 DEF BatchFits, StatusFits
  <2>3. txStatus' = "OK" /\ UNCHANGED txPhase
    BY <1>1, <1>2, <2>2
  <2>4. TxFits' /\ StatusFits'
    BY <1>1, <2>1, <2>3 DEF BatchFits, TxFits, StatusFits
  <2>5. Offered'
    BY <1>1, <1>5, <2>1, <2>3 DEF Offered, Block0Last, LastEnded, Current
  <2> QED BY <1>4, <2>4, <2>5 DEF BatchFits, Course
<1>6. CASE Taken
  <2>1. txPhase' = "go" /\ UNCHANGED txStatus /\ txFile <= NFiles
    BY <1>1, <1>2, <1>6 DEF Taken
  <2>2. NoTx({"ack"})'
    BY <1>1, <1>3, <1>6 DEF Taken, OneGo, NoTx
  <2>3. OneC'
    <3> SUFFICES ASSUME NEW i \in 1 .. Len(toTx'), NEW j \in 1 .. Len(toTx'),
                        i < j, toTx'[i].type = "c"
                 PROVE  toTx'[j].type # "c"
      BY DEF OneC
    <3>1. i + 1 < j + 1
      OBVIOUS
    <3> QED BY <1>1, <1>3, <1>6, <3>1 DEF Taken, OneGo
  <2>4. rxStatus # "OK"
    BY <1>6 DEF BatchFits, StatusFits, Taken
  <2>5. TxFits' /\ StatusFits'
    BY <1>1, <2>1, <2>4 DEF BatchFits, TxFits, StatusFits
  <2>6. Going'
    BY <1>1, <1>6, <2>1, <2>2, <2>3 DEF Taken, Going, NoRx, Current
  <2> QED BY <1>4, <2>5, <2>6 DEF BatchFits, Course
<1> QED BY <1>1, <1>5, <1>6
        DEF BatchFits, Course, Between, Closing, AtEnd, Going, Sending

\* Where a block or EOT may be sent
Streams == (Going \/ Sending) /\ NoTx({"c"})'

\* Both of the reads that let the transmitter go on
LEMMA GoesOn ==
  ASSUME TypeOK, BatchFits, TxGo \/ TxAcked
  PROVE  /\ Streams
         /\ \E k \in Nat \ {0} : SendFrom(k) /\ (txPhase = "data" => k = txBlock.idx + 1)
                                             /\ (txPhase = "go" => k = 1)
         /\ txStatus = "RUN"
<1>1. /\ toTx # <<>> /\ toTx' = Tail(toTx) /\ txStatus = "RUN"
      /\ \/ txPhase = "go" /\ Head(toTx).type = "c" /\ SendFrom(1)
         \/ txPhase = "data" /\ SendFrom(txBlock.idx + 1)
  BY DEF TxGo, TxAcked, TxReads, TxAt
<1>2. toTx \in Seq(TxItem) /\ txBlock.idx \in Nat
  BY Shapes DEF TypeOK, TxTypeOK
<1>3. /\ 1 \in 1 .. Len(toTx) /\ Head(toTx) = toTx[1]
      /\ \A i \in 1 .. Len(toTx') :
            i + 1 \in 1 .. Len(toTx) /\ 1 < i + 1 /\ toTx'[i] = toTx[i + 1]
  BY <1>1, <1>2, HeadFirst
<1>4. CASE txPhase = "go" /\ Head(toTx).type = "c" /\ SendFrom(1)
  <2>1. Going
    BY <1>4 DEF BatchFits, Course, Between, Closing, AtEnd, Offered, Taken, Sending
  <2>2. NoTx({"c"})'
    BY <1>3, <1>4, <2>1 DEF Going, OneC, NoTx
  <2>3. 1 \in Nat \ {0}
    OBVIOUS
  <2> QED BY <1>1, <1>4, <2>1, <2>2, <2>3 DEF Streams
<1>5. CASE txPhase = "data" /\ SendFrom(txBlock.idx + 1)
  <2>1. Sending
    BY <1>5 DEF BatchFits, Course, Between, Closing, AtEnd, Offered, Taken, Going
  <2>2. NoTx({"c"})'
    BY <1>3, <2>1 DEF Sending, NoTx
  <2>3. txBlock.idx + 1 \in Nat \ {0}
    BY <1>2
  <2> QED BY <1>1, <1>5, <2>1, <2>2, <2>3 DEF Streams
<1> QED BY <1>1, <1>4, <1>5

\* A packet more
LEMMA BlockSentStep ==
  ASSUME TypeOK, BatchFits, Streams, NEW b \in RxItem, b.type = "blk",
         toRx' = Send(toRx, b), txPhase' = "data",
         txBlock'.idx \in 1 .. Files[txFile],
         UNCHANGED <<rxVars, txStatus, txFile>>
  PROVE  BatchFits'
<1> USE DEF rxVars
<1>1. \A i \in 1 .. Len(toRx') :
         \/ i \in 1 .. Len(toRx) /\ toRx'[i] = toRx[i]
         \/ toRx'[i] = b
  BY Shapes, RxSent
<1>2. NoRx({"eot"})
  BY DEF Streams, Going, Sending, NoRx
<1>3. NoRx({"eot"})'
  BY <1>1, <1>2 DEF NoRx
<1>4. Sending'
  BY <1>3 DEF Streams, Going, Sending, Current
<1>5. FilesFollow' /\ TxFits' /\ StatusFits'
  BY DEF BatchFits, Streams, Going, Sending, FilesFollow, TxFits, StatusFits
<1> QED BY <1>4, <1>5 DEF BatchFits, Course

\* EOT, behind all blocks
LEMMA EotSentStep ==
  ASSUME TypeOK, BatchFits, Streams,
         toRx' = Send(toRx, RxByte("eot")), txPhase' = "eot", txBlock' = NoBlock,
         UNCHANGED <<rxVars, txStatus, txFile>>
  PROVE  BatchFits'
<1> USE DEF rxVars
<1>1. RxByte("eot") \in RxItem
  BY RxBytes
<1>2. \A i \in 1 .. Len(toRx') :
         \/ i \in 1 .. Len(toRx) /\ toRx'[i] = toRx[i]
         \/ i = Len(toRx') /\ i > Len(toRx)
  BY <1>1, Shapes, RxSent
<1>3. NoRx({"eot"})
  BY DEF Streams, Going, Sending, NoRx
<1>4. BlocksBeforeEot'
  <2> SUFFICES ASSUME NEW i \in 1 .. Len(toRx'), NEW j \in 1 .. Len(toRx'),
                      i < j, toRx'[i].type = "eot"
               PROVE  FALSE
    BY DEF BlocksBeforeEot
  <2>1. i = Len(toRx')
    BY <1>2, <1>3 DEF NoRx
  <2> QED BY <2>1
<1>5. Current > 0
  <2>1. rxPhase \in {"data", "eot"}
    BY DEF Streams, Going, Sending
  <2> QED BY <2>1, InsideFile, Shapes
<1>6. Closing'
  BY <1>4, <1>5 DEF Streams, Going, Sending, Closing, AtEnd, Closed, Current
<1>7. FilesFollow' /\ TxFits' /\ StatusFits'
  BY DEF BatchFits, Streams, Going, Sending, FilesFollow, TxFits, StatusFits
<1> QED BY <1>6, <1>7 DEF BatchFits, Course

\* The data loop: the next block, read or not, or EOT
LEMMA TxGoesOnStep ==
  ASSUME TypeOK, BatchFits, TxGo \/ TxAcked, UNCHANGED rxVars
  PROVE  BatchFits'
<1>1. PICK k \in Nat \ {0} : SendFrom(k)
  BY GoesOn
<1>2. Streams
  BY GoesOn
<1>3. txFile \in 1 .. NFiles + 1 /\ NFiles \in Nat
  BY Shapes
<1>4. UNCHANGED txFile
  BY <1>1 DEF SendFrom
<1>5. CASE k <= Files[txFile] /\ SendBlock(k)
  <2>1. PICK load \in ReadOutcomes(<<txFile, k>>) :
           /\ txBlock' = [idx |-> k, load |-> load]
           /\ TxGoTo("data", Send(toRx, Packet(k, load)))
    BY <1>5 DEF SendBlock
  <2>2. load \in Payload
    BY <1>3, <2>1 DEF ReadOutcomes, Payload, Padding
  <2>3. Packet(k, load) \in RxItem /\ Packet(k, load).type = "blk"
    BY <1>1, <2>2, Packets
  <2>4. txFile \in 1 .. NFiles
    BY <1>2, <1>3 DEF Streams, Going, Sending, BatchFits, TxFits
  <2>5. Files[txFile] \in Nat
    BY <2>4, BatchAssumption DEF NFiles
  <2>6. txBlock'.idx \in 1 .. Files[txFile]
    BY <1>1, <1>5, <2>1, <2>5
  <2>7. /\ toRx' = Send(toRx, Packet(k, load)) /\ txPhase' = "data"
        /\ UNCHANGED txStatus
    BY <2>1 DEF TxGoTo
  <2> QED BY <1>2, <1>4, <2>3, <2>6, <2>7, BlockSentStep
<1>6. CASE /\ TxGoTo("eot", Send(toRx, RxByte("eot")))
           /\ txBlock' = NoBlock
  BY <1>2, <1>4, <1>6, EotSentStep DEF TxGoTo
<1> QED BY <1>1, <1>5, <1>6 DEF SendFrom

LEMMA TxResendStep ==
  ASSUME TypeOK, BatchFits, NEW silent, TxResend(silent), UNCHANGED rxVars
  PROVE  BatchFits'
<1>1. /\ txPhase = "data" /\ UNCHANGED <<txPhase, txFile, txBlock>>
      /\ (UNCHANGED toTx \/ (toTx # <<>> /\ toTx' = Tail(toTx)))
      /\ \/ UNCHANGED toRx
         \/ /\ toRx' = Send(toRx, Packet(txBlock.idx, txBlock.load))
            /\ UNCHANGED txStatus
  BY DEF TxResend, TxReadsOther, TxReads, TxAt, TxReturn
<1>2. CASE UNCHANGED toRx
  BY <1>2, TxQuietStep
<1>3. CASE /\ toRx' = Send(toRx, Packet(txBlock.idx, txBlock.load))
           /\ UNCHANGED txStatus
  <2>1. txBlock.idx \in Nat /\ txBlock.load \in Payload /\ toTx \in Seq(TxItem)
    BY Shapes DEF TypeOK, TxTypeOK
  <2>2. /\ Packet(txBlock.idx, txBlock.load) \in RxItem
        /\ Packet(txBlock.idx, txBlock.load).type = "blk"
    BY <2>1, Packets
  <2>3. Sending
    BY <1>1 DEF BatchFits, Course, Between, Closing, AtEnd, Offered, Taken, Going
  <2>4. KeptTx
    BY <1>1, <2>1, ReadTx
  <2>5. NoTx({"c"})'
    BY <2>1, <2>3, <2>4, TxKeeps DEF Sending
  <2>6. txBlock'.idx \in 1 .. Files[txFile]
    BY <1>1 DEF BatchFits, TxFits
  <2>7. Streams
    BY <2>3, <2>5 DEF Streams
  <2> QED BY <1>1, <1>3, <2>2, <2>6, <2>7, BlockSentStep
<1> QED BY <1>1, <1>2, <1>3

\* The refused EOT is sent again.
LEMMA TxEotNakedStep ==
  ASSUME TypeOK, BatchFits, TxEotNaked, UNCHANGED rxVars
  PROVE  BatchFits'
<1> USE DEF rxVars
<1> DEFINE b == RxByte("eot")
<1>1. /\ txPhase = "eot" /\ txPhase' = "eot2" /\ txStatus = "RUN"
      /\ toTx # <<>> /\ toTx' = Tail(toTx) /\ toRx' = Send(toRx, b)
      /\ UNCHANGED <<txStatus, txFile, txBlock>>
  BY DEF TxEotNaked, TxReads, TxAt, TxGoTo
<1>2. toRx \in Seq(RxItem) /\ toTx \in Seq(TxItem)
  BY Shapes
<1>3. b \in RxItem /\ b.type = "eot"
  BY RxBytes
<1> HIDE DEF b
<1>4. \A i \in 1 .. Len(toRx') :
         \/ i \in 1 .. Len(toRx) /\ toRx'[i] = toRx[i]
         \/ i = Len(toRx') /\ i > Len(toRx) /\ toRx'[i] = b
  BY <1>1, <1>2, <1>3, RxSent
<1>5. KeptTx
  BY <1>1, <1>2, ReadTx
<1>6. (AcksFirst => AcksFirst') /\ (NoTx({"c"}) => NoTx({"c"})')
  BY <1>2, <1>5, TxKeeps
<1>7. NoRx({"blk"}) => NoRx({"blk"})'
  BY <1>3, <1>4 DEF NoRx
<1>8. BlocksBeforeEot => BlocksBeforeEot'
  <2> SUFFICES ASSUME BlocksBeforeEot,
                      NEW i \in 1 .. Len(toRx'), NEW j \in 1 .. Len(toRx'),
                      i < j, toRx'[i].type = "eot", toRx'[j].type = "blk"
               PROVE  FALSE
    BY DEF BlocksBeforeEot
  <2>1. j \in 1 .. Len(toRx) /\ toRx'[j] = toRx[j]
    BY <1>3, <1>4
  <2>2. i \in 1 .. Len(toRx) /\ ~ (i > Len(toRx))
    BY <2>1
  <2>3. toRx'[i] = toRx[i]
    BY <1>4, <2>2
  <2> QED BY <2>1, <2>2, <2>3 DEF BlocksBeforeEot
<1>9. FilesFollow' /\ TxFits' /\ StatusFits'
  BY <1>1 DEF BatchFits, FilesFollow, TxFits, StatusFits
<1>10. CASE Between
  <2>1. Between'
    BY <1>1, <1>6, <1>7, <1>10 DEF Between, AtEnd, Closed, LastEnded, Current
  <2> QED BY <1>9, <2>1 DEF BatchFits, Course
<1>11. CASE Closing
  <2>1. Closing'
    BY <1>1, <1>6, <1>7, <1>8, <1>11 DEF Closing, AtEnd, Closed, Current
  <2> QED BY <1>9, <2>1 DEF BatchFits, Course
<1> QED BY <1>1, <1>10, <1>11 DEF BatchFits, Course, Offered, Taken, Going, Sending

\* The next file is begun whether or not the receiver has ended this one.
LEMMA TxFileSentStep ==
  ASSUME TypeOK, BatchFits, NEW silent, TxFileSent(silent), UNCHANGED rxVars
  PROVE  BatchFits'
<1> USE DEF rxVars
<1>1. /\ txPhase \in {"eot", "eot2"} /\ txPhase' = "start"
      /\ txFile' = txFile + 1 /\ txBlock' = NoBlock
      /\ (UNCHANGED toTx \/ (toTx # <<>> /\ toTx' = Tail(toTx)))
      /\ UNCHANGED <<toRx, txStatus>>
  BY DEF TxFileSent, TxReadsOther, TxReads, TxAt, NextFile, TxGoTo
<1>2. /\ toRx \in Seq(RxItem) /\ toTx \in Seq(TxItem) /\ txFile \in 1 .. NFiles + 1
      /\ NFiles \in Nat
  BY Shapes
<1>3. KeptTx
  BY <1>1, <1>2, ReadTx
<1>4. (AcksFirst => AcksFirst') /\ (NoTx({"c"}) => NoTx({"c"})')
  BY <1>2, <1>3, TxKeeps
<1>5. Closed' = Closed
  BY <1>1, <1>2 DEF Closed
<1>6. AtEnd => AtEnd'
  BY <1>1, <1>5 DEF AtEnd, Current
<1>7. FilesFollow' /\ TxFits' /\ StatusFits'
  BY <1>1 DEF BatchFits, FilesFollow, TxFits, StatusFits
<1>8. CASE Between
  <2>1. Between'
    BY <1>1, <1>4, <1>6, <1>8 DEF Between, LastEnded, Current, NoRx
  <2> QED BY <1>7, <2>1 DEF BatchFits, Course
<1>9. CASE Closing
  <2>1. Closing'
    BY <1>1, <1>4, <1>6, <1>9 DEF Closing, Current, BlocksBeforeEot, NoRx
  <2> QED BY <1>7, <2>1 DEF BatchFits, Course
<1> QED BY <1>1, <1>8, <1>9 DEF BatchFits, Course, Offered, Taken, Going, Sending

-----------------------------------------------------------------------------
(* The course: the line *)

\* What the line loses or damages, and the keys pressed at it
LEMMA LineKeeps ==
  ASSUME LineTypeOK, YmodemLineNext
  PROVE  KeptRx /\ KeptTx
<1>1. toRx \in Seq(RxItem) /\ toTx \in Seq(TxItem)
  BY DEF LineTypeOK
<1>2. UNCHANGED toRx => KeptRx
  BY <1>1, SameKept DEF KeptRx
<1>3. UNCHANGED toTx => KeptTx
  BY <1>1, SameKept DEF KeptTx
<1>4. CASE LoseToRx
  BY <1>1, <1>3, <1>4, TailKept DEF LoseToRx, KeptRx
<1>5. CASE LoseToTx
  BY <1>1, <1>2, <1>5, TailKept DEF LoseToTx, KeptTx
<1>6. CASE DamageToRx({"blk"})
  <2>1. PICK ty \in {"bad", "junk"} :
           toRx' = <<[Head(toRx) EXCEPT !.type = ty]>> \o Tail(toRx)
    BY <1>6 DEF DamageToRx, Damaged
  <2>2. toRx # <<>> /\ UNCHANGED toTx
    BY <1>6 DEF DamageToRx
  <2>3. Head(toRx) \in RxItem
    BY <1>1, <2>2
  <2>4. /\ [Head(toRx) EXCEPT !.type = ty] \in RxItem
        /\ [Head(toRx) EXCEPT !.type = ty].type = ty
    BY <2>3 DEF RxItem
  <2>5. [Head(toRx) EXCEPT !.type = ty].type \notin Matters
    BY <2>4 DEF Matters
  <2> QED BY <1>1, <1>3, <2>1, <2>2, <2>4, <2>5, DamagedKept DEF KeptRx
<1>7. CASE DamageToTx({"blk"})
  <2>1. toTx # <<>> /\ UNCHANGED toRx
    BY <1>7 DEF DamageToTx
  <2>2. Head(toTx) \in TxItem
    BY <1>1, <2>1
  <2>3. Head(toTx).type \notin {"blk"}
    BY <2>2 DEF TxItem
  <2>4. toTx' = <<[Head(toTx) EXCEPT !.type = "junk"]>> \o Tail(toTx)
    BY <1>7, <2>3 DEF DamageToTx, Damaged
  <2>5. /\ [Head(toTx) EXCEPT !.type = "junk"] \in TxItem
        /\ [Head(toTx) EXCEPT !.type = "junk"].type = "junk"
    BY <2>2 DEF TxItem
  <2>6. [Head(toTx) EXCEPT !.type = "junk"].type \notin Matters
    BY <2>5 DEF Matters
  <2> QED BY <1>1, <1>2, <2>1, <2>4, <2>5, <2>6, DamagedKept DEF KeptTx
<1>8. CASE PressAbort(RxByte("brk"), TxByte("brk"))
  <2>1. RxByte("brk") \in RxItem /\ RxByte("brk").type \notin Matters
    BY RxBytes DEF Matters
  <2>2. TxByte("brk") \in TxItem /\ TxByte("brk").type \notin Matters
    BY TxBytes DEF Matters, TxItemTypes
  <2>3. CASE toRx' = Send(toRx, RxByte("brk")) /\ UNCHANGED toTx
    BY <1>1, <1>3, <2>1, <2>3, SameKept, SentKept DEF KeptRx
  <2>4. CASE toTx' = Send(toTx, TxByte("brk")) /\ UNCHANGED toRx
    BY <1>1, <1>2, <2>2, <2>4, SameKept, SentKept DEF KeptTx
  <2> QED BY <1>8, <2>3, <2>4 DEF PressAbort
<1> QED BY <1>4, <1>5, <1>6, <1>7, <1>8 DEF YmodemLineNext, LineNext

LEMMA LineStep ==
  ASSUME TypeOK, BatchFits, YmodemLineNext, UNCHANGED <<rxVars, txVars>>
  PROVE  BatchFits'
<1>1. KeptRx /\ KeptTx
  BY LineKeeps DEF TypeOK
<1>2. SameFiles
  BY DEF SameFiles, rxVars
<1> QED BY <1>1, <1>2, QuietStep DEF rxVars, txVars

\* A changed number is in no place the positions speak of.
LEMMA RenumberStep ==
  ASSUME TypeOK, BatchFits, RenumberToRx, UNCHANGED <<rxVars, txVars>>
  PROVE  BatchFits' /\ toRx' \in Seq(RxItem)
<1> USE DEF rxVars, txVars
<1>1. toRx \in Seq(RxItem) /\ toTx \in Seq(TxItem)
  BY Shapes
<1>2. PICK n \in 0 .. BlockMod - 1 :
         toRx' = <<[Head(toRx) EXCEPT !.num = n]>> \o Tail(toRx)
  BY DEF RenumberToRx
<1>3. toRx # <<>> /\ UNCHANGED toTx
  BY DEF RenumberToRx
<1> DEFINE b == [Head(toRx) EXCEPT !.num = n]
<1>4. Head(toRx) \in RxItem /\ Head(toRx) = toRx[1]
  BY <1>1, <1>3
<1>5. b \in RxItem /\ b.type = toRx[1].type /\ b.load = toRx[1].load
  BY <1>4 DEF RxItem
<1>6. toRx' = <<b>> \o Tail(toRx)
  BY <1>2
<1> HIDE DEF b
<1>7. /\ toRx' \in Seq(RxItem) /\ Len(toRx') = Len(toRx)
      /\ \A i \in 1 .. Len(toRx) : toRx'[i] = IF i = 1 THEN b ELSE toRx[i]
  BY <1>1, <1>3, <1>5, <1>6
<1>8. \A i \in 1 .. Len(toRx) :
         toRx'[i].type = toRx[i].type /\ toRx'[i].load = toRx[i].load
  BY <1>5, <1>7
<1>9. /\ NoRx({"blk"}) => NoRx({"blk"})'
      /\ NoRx({"eot"}) => NoRx({"eot"})'
      /\ NoRx({"blk", "eot"}) => NoRx({"blk", "eot"})'
      /\ BlocksBeforeEot => BlocksBeforeEot'
      /\ Block0Last => Block0Last'
  BY <1>7, <1>8 DEF NoRx, BlocksBeforeEot, Block0Last
<1>10. Current' = Current
  BY DEF Current
<1>11. FilesFollow' /\ TxFits' /\ StatusFits'
  BY DEF BatchFits, FilesFollow, TxFits, StatusFits
<1>12. Course'
  <2>1. CASE Between
    BY <1>3, <1>9, <1>10, <2>1
    DEF Between, AtEnd, Closed, LastEnded, AcksFirst, Course
  <2>2. CASE Closing
    BY <1>3, <1>9, <1>10, <2>2 DEF Closing, AtEnd, Closed, NoTx, Course
  <2>3. CASE Offered
    BY <1>3, <1>9, <1>10, <2>3 DEF Offered, LastEnded, NoTx, Course
  <2>4. CASE Taken
    BY <1>3, <1>9, <1>10, <2>4 DEF Taken, OneGo, Course
  <2>5. CASE Going
    BY <1>3, <1>9, <1>10, <2>5 DEF Going, OneC, NoTx, Course
  <2>6. CASE Sending
    BY <1>3, <1>9, <1>10, <2>6 DEF Sending, NoTx, Course
  <2> QED BY <2>1, <2>2, <2>3, <2>4, <2>5, <2>6 DEF BatchFits, Course
<1> QED BY <1>7, <1>11, <1>12 DEF BatchFits

-----------------------------------------------------------------------------
(* The types *)

LEMMA RxTypes ==
  ASSUME TypeOK, BatchFits, NEW silent, RxStep(silent)
  PROVE  LineTypeOK' /\ RxTypeOK'
<1>1. toRx \in Seq(RxItem) /\ toTx \in Seq(TxItem) /\ rxFiles \in Seq(FileRecord)
  BY Shapes
<1>2. toRx' \in Seq(RxItem)
  <2>1. \/ UNCHANGED toRx
        \/ toRx # <<>> /\ toRx' = Tail(toRx)
        \/ toRx # <<>> /\ toRx' \in Purged(Tail(toRx))
        \/ toRx # <<>> /\ toRx' = <<RxByte("junk")>> \o Tail(toRx)
    BY DEF RxStep, HeaderTimeout, HeaderRefuse, HeaderCancel, BatchEnd, FileStart,
           DataTimeout, DataCancel, DataRefuse, DataAccept, DataDuplicate,
           DataSequence, DataEot, SecondEot, RxReads, RxQuiet, WithoutFirstByte
  <2>2. RxByte("junk") \in RxItem
    BY RxBytes
  <2>3. CASE toRx # <<>> /\ toRx' \in Purged(Tail(toRx))
    BY <1>1, <2>3, PurgedKept
  <2>4. CASE toRx # <<>> /\ toRx' = Tail(toRx)
    BY <1>1, <2>4
  <2>5. CASE toRx # <<>> /\ toRx' = <<RxByte("junk")>> \o Tail(toRx)
    BY <1>1, <2>2, <2>5
  <2> QED BY <1>1, <2>1, <2>3, <2>4, <2>5
<1>3. toTx' \in Seq(TxItem)
  <2>1. \A ty \in TxItemTypes : TxByte(ty) \in TxItem
    BY TxBytes
  <2>2. \/ UNCHANGED toTx
        \/ \E ty \in TxItemTypes : toTx' = Send(toTx, TxByte(ty))
        \/ \E t1, t2 \in TxItemTypes : toTx' = Send(Send(toTx, TxByte(t1)), TxByte(t2))
    BY DEF RxStep, HeaderTimeout, HeaderRefuse, HeaderRetry, HeaderCancel, BatchEnd,
           FileStart, DataTimeout, DataCancel, DataRefuse, DataAccept, DataDuplicate,
           DataSequence, DataEot, SecondEot, RxReturn, SendTwice, TxItemTypes
  <2>3. \A q \in Seq(TxItem), b \in TxItem : Send(q, b) \in Seq(TxItem)
    BY DEF Send
  <2> QED BY <1>1, <2>1, <2>2, <2>3
<1>4. UNCHANGED <<faults, aborts>>
  BY DEF RxStep, HeaderTimeout, HeaderRefuse, HeaderRetry, HeaderCancel, BatchEnd,
         FileStart, DataTimeout, DataCancel, DataRefuse, DataAccept, DataDuplicate,
         DataSequence, DataEot, SecondEot, RxReturn
<1>5. rxFiles' \in Seq(FileRecord)
  <2>1. CASE UNCHANGED rxFiles
    BY <1>1, <2>1
  <2>2. CASE /\ rxPhase \in {"data", "eot"}
             /\ \E st \in {"OK", "TIMEOUT", "CANCEL", "SEQUENCE"} : FileEnd(st)
    <3>1. rxFiles # <<>>
      BY <2>2, InsideFile
    <3> QED BY <1>1, <2>2, <3>1, FileEnded
  <2>3. CASE FileStart
    <3>1. /\ RxReads("header", {"blk"}) /\ toRx' = Tail(toRx)
          /\ rxFiles' \in Started(rxFiles, NameIn(Head(toRx).load))
      BY <2>3 DEF FileStart
    <3>2. NameIn(Head(toRx).load) = txFile /\ txFile \in Nat
      BY <3>1, Block0Read, Shapes
    <3> QED BY <1>1, <3>1, <3>2, StartedFacts
  <2>4. CASE DataAccept
    <3>1. rxFiles' \in Stored(rxFiles, Head(toRx).load) /\ RxReads("data", {"blk"})
      BY <2>4 DEF DataAccept
    <3>2. Head(toRx).load \in Payload /\ rxFiles # <<>>
      BY <3>1, PacketRead, InsideFile DEF RxItem
    <3> QED BY <1>1, <3>1, <3>2, StoredFacts
  <2> QED BY <2>1, <2>2, <2>3, <2>4
          DEF RxStep, HeaderTimeout, HeaderRefuse, HeaderRetry, HeaderCancel, BatchEnd,
              DataTimeout, DataCancel, DataRefuse, DataDuplicate, DataSequence,
              DataEot, SecondEot, RxReads, RxQuiet, RxAt, rxVars
<1>6. rxPhase' \in {"header", "data", "eot"}
  BY DEF TypeOK, RxTypeOK, RxStep, HeaderTimeout, HeaderRefuse, HeaderRetry,
         HeaderCancel, BatchEnd, FileStart, DataTimeout, DataCancel, DataRefuse,
         DataAccept, DataDuplicate, DataSequence, DataEot, SecondEot, RxReturn, rxVars
<1>7. rxStatus' \in Status
  BY DEF TypeOK, RxTypeOK, RxStep, HeaderTimeout, HeaderRefuse, HeaderRetry,
         HeaderCancel, BatchEnd, FileStart, DataTimeout, DataCancel, DataRefuse,
         DataAccept, DataDuplicate, DataSequence, DataEot, SecondEot, RxReturn, rxVars,
         Status
<1>8. rxBlocks' \in Nat /\ dups' \in Nat
  <2>1. rxBlocks \in Nat /\ dups \in Nat
    BY DEF TypeOK, RxTypeOK
  <2>2. rxBlocks' \in {rxBlocks, 0, rxBlocks + 1} /\ dups' \in {dups, dups + 1}
    BY DEF RxStep, HeaderTimeout, HeaderRefuse, HeaderRetry,
           HeaderCancel, BatchEnd, FileStart, DataTimeout, DataCancel, DataRefuse,
           DataAccept, DataDuplicate, DataSequence, DataEot, SecondEot, RxReturn, rxVars
  <2> QED BY <2>1, <2>2
<1>9. rxRetries' \in 0 .. MaxRetries
  <2>1. rxRetries \in 0 .. MaxRetries /\ MaxRetries \in Nat
    BY YmodemAssumption DEF TypeOK, RxTypeOK
  <2>2. \/ rxRetries' \in {rxRetries, 0}
        \/ rxRetries' = rxRetries + 1 /\ rxRetries < MaxRetries
        \/ rxRetries' = rxRetries + 1 /\ rxRetries + 1 < MaxRetries
    BY DEF RxStep, HeaderTimeout, HeaderRefuse, HeaderRetry,
           HeaderCancel, BatchEnd, FileStart, DataTimeout, DataCancel, DataRefuse,
           DataAccept, DataDuplicate, DataSequence, DataEot, SecondEot, RxReturn, rxVars
  <2> QED BY <2>1, <2>2
<1> QED BY <1>2, <1>3, <1>4, <1>5, <1>6, <1>7, <1>8, <1>9
        DEF TypeOK, LineTypeOK, RxTypeOK

\* A block that is not stored is one of a file of the batch.
LEMMA RxSpoils ==
  ASSUME TypeOK, BatchFits, Rx
  PROVE  spoilt' \subseteq 1 .. NFiles
<1>1. PICK silent : RxStep(silent)
  BY DEF Rx
<1>2. CASE NotStored
  <2>1. rxPhase = "data"
    <3>1. rxBlocks \in Nat /\ rxBlocks' > rxBlocks
      BY <1>2 DEF TypeOK, RxTypeOK, NotStored
    <3> HIDE <1>2
    <3>2. DataAccept \/ rxBlocks' \in {rxBlocks, 0}
      BY <1>1 DEF RxStep, HeaderTimeout, HeaderRefuse, HeaderRetry,
           HeaderCancel, BatchEnd, FileStart, DataTimeout, DataCancel, DataRefuse,
           DataDuplicate, DataSequence, DataEot, SecondEot, RxReturn, rxVars
    <3>3. DataAccept
      BY <3>1, <3>2
    <3> QED BY <3>3 DEF DataAccept, RxReads, RxAt
  <2>2. Len(rxFiles) \in 1 .. NFiles
    BY <2>1, InsideFile DEF Current
  <2> QED BY <1>2, <2>2 DEF Rx, TypeOK
<1> QED BY <1>2 DEF Rx, TypeOK

LEMMA TxTypes ==
  ASSUME TypeOK, BatchFits, NEW silent, TxStep(silent), UNCHANGED rxVars
  PROVE  LineTypeOK' /\ TxTypeOK'
<1>1. /\ toRx \in Seq(RxItem) /\ toTx \in Seq(TxItem)
      /\ txFile \in 1 .. NFiles + 1 /\ NFiles \in Nat
  BY Shapes
<1>2. toTx' \in Seq(TxItem)
  <2>1. UNCHANGED toTx \/ (toTx # <<>> /\ toTx' = Tail(toTx))
    BY DEF TxStep, TxStart, TxStartRetry, TxCancelled, TxBlock0Acked, TxNoStart, TxGo,
           TxAcked, TxResend, TxEotNaked, TxFileSent, TxReadsOther, TxReads
  <2> QED BY <1>1, <2>1, TailKept
<1>3. UNCHANGED <<faults, aborts>>
  BY DEF TxStep, TxStart, TxStartRetry, TxCancelled, TxBlock0Acked, TxNoStart, TxGo,
         TxAcked, TxResend, TxEotNaked, TxFileSent, TxReturn, TxGoTo, SendFrom,
         SendBlock, NextFile
<1>4. ASSUME NEW k \in Nat, SendFrom(k)
      PROVE  /\ toRx' \in Seq(RxItem) /\ txBlock' \in [idx : Nat, load : Payload]
             /\ UNCHANGED txFile
  <2>1. UNCHANGED txFile
    BY <1>4 DEF SendFrom
  <2>2. CASE SendBlock(k)
    <3>1. PICK load \in ReadOutcomes(<<txFile, k>>) :
             /\ txBlock' = [idx |-> k, load |-> load]
             /\ toRx' = Send(toRx, Packet(k, load))
      BY <2>2 DEF SendBlock, TxGoTo
    <3>2. load \in Payload
      BY <1>1, <1>4, <3>1 DEF ReadOutcomes, Payload, Padding
    <3>3. Packet(k, load) \in RxItem
      BY <1>4, <3>2, Packets
    <3> QED BY <1>1, <2>1, <3>1, <3>2, <3>3, RxSent
  <2>3. CASE /\ toRx' = Send(toRx, RxByte("eot"))
             /\ txBlock' = NoBlock
    <3>1. RxByte("eot") \in RxItem
      BY RxBytes
    <3>2. NoBlock \in [idx : Nat, load : Payload]
      BY DEF NoBlock, Padding, Payload
    <3> QED BY <1>1, <2>1, <2>3, <3>1, <3>2, RxSent
  <2> QED BY <1>4, <2>2, <2>3 DEF SendFrom, TxGoTo
<1>5. /\ toRx' \in Seq(RxItem) /\ txBlock' \in [idx : Nat, load : Payload]
      /\ txFile' \in 1 .. NFiles + 1
  <2>1. CASE TxGo \/ TxAcked
    <3>1. PICK k \in Nat \ {0} : SendFrom(k)
      BY <2>1, GoesOn
    <3> QED BY <1>1, <1>4, <3>1
  <2>2. CASE TxFileSent(silent)
    <3>1. /\ txPhase \in {"eot", "eot2"} /\ txFile' = txFile + 1
          /\ txBlock' = NoBlock /\ UNCHANGED toRx
      BY <2>2 DEF TxFileSent, TxReadsOther, TxReads, TxAt, NextFile, TxGoTo
    <3>2. txFile <= NFiles
      BY <3>1 DEF BatchFits, TxFits
    <3>3. NoBlock \in [idx : Nat, load : Payload]
      BY DEF NoBlock, Padding, Payload
    <3> QED BY <1>1, <3>1, <3>2, <3>3
  <2>3. CASE \/ UNCHANGED <<toRx, txBlock, txFile>>
             \/ /\ \E b \in RxItem : toRx' = Send(toRx, b)
                /\ UNCHANGED <<txBlock, txFile>>
    BY <1>1, <2>3, RxSent DEF TypeOK, TxTypeOK
  <2>4. /\ Packet(0, <<txFile, 0>>) \in RxItem
        /\ Packet(txBlock.idx, txBlock.load) \in RxItem
        /\ RxByte("eot") \in RxItem
    <3>1. <<txFile, 0>> \in Payload /\ txBlock.idx \in Nat /\ txBlock.load \in Payload
      BY <1>1 DEF Payload, TypeOK, TxTypeOK
    <3> QED BY <3>1, Packets, RxBytes
  <2> QED BY <2>1, <2>2, <2>3, <2>4
          DEF TxStep, TxStart, TxStartRetry, TxCancelled, TxBlock0Acked, TxNoStart,
              TxResend, TxEotNaked, TxReturn, TxGoTo
<1>6. txPhase' \in {"start", "block0", "go", "data", "eot", "eot2"}
  BY DEF TypeOK, TxTypeOK, TxStep, TxStart, TxStartRetry, TxCancelled, TxBlock0Acked,
         TxNoStart, TxGo, TxAcked, TxResend, TxEotNaked, TxFileSent, TxReturn, TxGoTo,
         SendFrom, SendBlock, NextFile
<1>7. txStatus' \in Status
  BY DEF TypeOK, TxTypeOK, TxStep, TxStart, TxStartRetry, TxCancelled, TxBlock0Acked,
         TxNoStart, TxGo, TxAcked, TxResend, TxEotNaked, TxFileSent, TxReturn, TxGoTo,
         SendFrom, SendBlock, NextFile, Status
<1>8. txRetries' \in 0 .. MaxRetries
  <2>1. txRetries \in 0 .. MaxRetries /\ MaxRetries \in Nat
    BY YmodemAssumption DEF TypeOK, TxTypeOK
  <2>2. \/ txRetries' \in {txRetries, 0}
        \/ txRetries' = txRetries + 1 /\ txRetries + 1 < MaxRetries
    BY DEF TxStep, TxStart, TxStartRetry, TxCancelled, TxBlock0Acked,
         TxNoStart, TxGo, TxAcked, TxResend, TxEotNaked, TxFileSent, TxReturn, TxGoTo,
         SendFrom, SendBlock, NextFile
  <2> QED BY <2>1, <2>2
<1> QED BY <1>2, <1>3, <1>5, <1>6, <1>7, <1>8 DEF TypeOK, LineTypeOK, TxTypeOK

\* A block that is not read is one of a file of the batch.
LEMMA TxSpoils ==
  ASSUME TypeOK, BatchFits, BatchFits', Tx
  PROVE  spoilt' \subseteq 1 .. NFiles
<1>1. PICK silent : TxStep(silent)
  BY DEF Tx
<1>2. CASE NotRead
  <2>1. txFile \in 1 .. NFiles + 1 /\ NFiles \in Nat
    BY Shapes
  <2>2. txPhase' = "data"
    BY <1>2 DEF NotRead, BatchFits, TxFits, NoBlock
  <2>3. txFile' <= NFiles
    BY <2>2 DEF BatchFits, TxFits
  <2>4. UNCHANGED txFile
    BY <1>1, <2>2
    DEF TxStep, TxStart, TxStartRetry, TxCancelled, TxBlock0Acked, TxNoStart, TxGo,
        TxAcked, TxResend, TxEotNaked, TxFileSent, TxReturn, TxGoTo, SendFrom, NextFile
  <2> QED BY <1>2, <2>1, <2>3, <2>4 DEF Tx, TypeOK
<1> QED BY <1>2 DEF Tx, TypeOK

LEMMA LineTypes ==
  ASSUME LineTypeOK, YmodemLineNext \/ RenumberToRx
  PROVE  faults' \in 0 .. MaxFaults /\ aborts' \in 0 .. MaxAborts
BY SerialLineAssumption
DEF LineTypeOK, YmodemLineNext, RenumberToRx, LineNext, LoseToRx, LoseToTx, DamageToRx,
    DamageToTx, PressAbort, Fault

-----------------------------------------------------------------------------
(* The theorems about the course of a batch *)

LEMMA BatchInit == Init => BatchInv
<1> SUFFICES ASSUME Init PROVE BatchInv
  OBVIOUS
<1> USE DEF Init, RxInit, TxInit
<1>1. TypeOK
  <2>1. /\ toRx \in Seq(RxItem) /\ rxFiles \in Seq(FileRecord)
        /\ spoilt \subseteq 1 .. NFiles
    OBVIOUS
  <2>2. toTx \in Seq(TxItem)
    BY TxBytes DEF TxItemTypes
  <2>3. 1 \in 1 .. NFiles + 1 /\ MaxRetries \in Nat
    BY BatchAssumption, YmodemAssumption DEF NFiles
  <2>4. NoBlock \in [idx : Nat, load : Payload]
    BY DEF NoBlock, Padding, Payload
  <2> QED BY <2>1, <2>2, <2>3, <2>4, SerialLineAssumption
          DEF TypeOK, LineTypeOK, RxTypeOK, TxTypeOK, Status
<1>2. FilesFollow /\ TxFits /\ StatusFits
  BY DEF FilesFollow, TxFits, StatusFits
<1>3. Between
  BY DEF Between, AtEnd, Closed, LastEnded, Current, NoRx, AcksFirst
<1> QED BY <1>1, <1>2, <1>3 DEF BatchInv, BatchFits, Course

LEMMA BatchStep == BatchInv /\ [Next]_vars => BatchInv'
<1> SUFFICES ASSUME TypeOK, BatchFits, [Next]_vars PROVE TypeOK' /\ BatchFits'
  BY DEF BatchInv
<1>1. CASE Rx
  <2>1. PICK silent : RxStep(silent)
    BY <1>1 DEF Rx
  <2>2. UNCHANGED txVars
    BY <1>1 DEF Rx
  <2>3. BatchFits'
    BY <2>1, <2>2, HeaderRetryStep, RxQuietStep, BatchEndStep, FileStartStep,
       PacketStep, DataEotStep, SecondEotStep DEF RxStep
  <2>4. LineTypeOK' /\ RxTypeOK'
    BY <2>1, RxTypes
  <2>5. TxTypeOK'
    BY <2>2 DEF TypeOK, TxTypeOK, txVars
  <2>6. spoilt' \subseteq 1 .. NFiles
    BY <1>1, RxSpoils
  <2> QED BY <2>3, <2>4, <2>5, <2>6 DEF TypeOK
<1>2. CASE Tx
  <2>1. PICK silent : TxStep(silent)
    BY <1>2 DEF Tx
  <2>2. UNCHANGED rxVars
    BY <1>2 DEF Tx
  <2>3. BatchFits'
    BY <2>1, <2>2, TxQuietStep, TxStartStep, TxBlock0AckedStep, TxGoesOnStep,
       TxResendStep, TxEotNakedStep, TxFileSentStep DEF TxStep
  <2>4. LineTypeOK' /\ TxTypeOK'
    BY <2>1, <2>2, TxTypes
  <2>5. RxTypeOK'
    BY <2>2 DEF TypeOK, RxTypeOK, rxVars
  <2>6. spoilt' \subseteq 1 .. NFiles
    BY <1>2, <2>3, TxSpoils
  <2> QED BY <2>3, <2>4, <2>5, <2>6 DEF TypeOK
<1>3. CASE Line
  <2>1. UNCHANGED <<rxVars, txVars>>
    BY <1>3 DEF Line
  <2>2. RxTypeOK' /\ TxTypeOK'
    BY <2>1 DEF TypeOK, RxTypeOK, TxTypeOK, rxVars, txVars
  <2>3. /\ spoilt' \subseteq 1 .. NFiles
        /\ YmodemLineNext \/ RenumberToRx
    BY <1>3 DEF Line, TypeOK
  <2>4. faults' \in 0 .. MaxFaults /\ aborts' \in 0 .. MaxAborts
    BY <2>3, LineTypes DEF TypeOK
  <2>5. CASE YmodemLineNext
    <3>1. toRx' \in Seq(RxItem) /\ toTx' \in Seq(TxItem)
      BY <2>5, LineKeeps DEF TypeOK, KeptRx, KeptTx
    <3> QED BY <2>1, <2>2, <2>3, <2>4, <2>5, <3>1, LineStep DEF TypeOK, LineTypeOK
  <2>6. CASE RenumberToRx
    <3>1. toRx' \in Seq(RxItem) /\ toTx' \in Seq(TxItem)
      BY <2>1, <2>6, RenumberStep, Shapes DEF RenumberToRx
    <3> QED BY <2>1, <2>2, <2>3, <2>4, <2>6, <3>1, RenumberStep DEF TypeOK, LineTypeOK
  <2> QED BY <2>3, <2>5, <2>6
<1>4. CASE UNCHANGED vars
  <2>1. KeptRx /\ KeptTx /\ SameFiles
    BY <1>4, Shapes, SameKept DEF vars, lineVars, rxVars, KeptRx, KeptTx, SameFiles
  <2>2. TypeOK'
    BY <1>4 DEF vars, lineVars, rxVars, txVars, TypeOK, LineTypeOK, RxTypeOK, TxTypeOK
  <2> QED BY <1>4, <2>1, <2>2, QuietStep DEF vars, rxVars, txVars
<1> QED BY <1>1, <1>2, <1>3, <1>4 DEF Next, Returned

\* In every behaviour of a batch the two ends stand in one of the six
\* positions, with what may be in flight in each.
THEOREM CourseOfBatch == Spec => []BatchInv
<1>1. Init => BatchInv
  BY BatchInit
<1>2. BatchInv /\ [Next]_vars => BatchInv'
  BY BatchStep
<1> QED BY <1>1, <1>2, PTL DEF Spec

\* Every variable keeps its type: no retry beyond the limit, no file beyond the
\* one that ends the batch.
THEOREM BatchTypes == Spec => []TypeOK
<1>1. BatchInv => TypeOK
  BY DEF BatchInv
<1> QED BY <1>1, CourseOfBatch, PTL

LEMMA BatchShows == BatchInv => BatchFollowed
<1> SUFFICES ASSUME TypeOK, BatchFits PROVE BatchFollowed
  BY DEF BatchInv
<1>1. /\ NFiles \in Nat /\ Current \in Nat
      /\ \A i \in 1 .. Len(rxFiles) : rxFiles[i].name = i
      /\ txStatus = "OK" => rxStatus = "OK"
  BY Shapes DEF BatchFits, FilesFollow, StatusFits
<1>2. ASSUME rxStatus = "OK"
      PROVE  /\ Len(rxFiles) = NFiles
             /\ \A i \in 1 .. NFiles : rxFiles[i].end = "OK"
  <2>1. Offered /\ txFile = NFiles + 1
    BY <1>2 DEF BatchFits, StatusFits, Course, Between, Closing, AtEnd, Taken, Going,
                Sending
  <2>2. Len(rxFiles) = NFiles /\ LastEnded
    BY <1>1, <2>1 DEF Offered, Current
  <2>3. \A i \in 1 .. NFiles : i < NFiles \/ (i = NFiles /\ NFiles > 0)
    BY <1>1
  <2> QED BY <2>2, <2>3 DEF BatchFits, FilesFollow, LastEnded, Current
<1> QED BY <1>1, <1>2 DEF BatchFollowed

\* Files arrive in the order of the batch, none skipped or started twice;
\* YMODEM_OK at the receiver means that all were ended with it, at the
\* transmitter that the receiver returned it.
THEOREM BatchIsFollowed == Spec => []BatchFollowed
BY BatchShows, CourseOfBatch, PTL

-----------------------------------------------------------------------------
(* The contents: what a step leaves of the flow inside a file *)

\* Numbers that are equal modulo M and less than M apart are equal: what makes
\* a wrapped block number identify its block.
LEMMA ModGap ==
  ASSUME NEW x \in Int, NEW y \in Int, NEW M \in Nat \ {0},
         x <= y, y < x + M, x % M = y % M
  PROVE  x = y
<1> DEFINE p == x \div M
           q == y \div M
<1>1. x = M * p + (x % M) /\ p \in Int
  BY SMT
<1>2. y = M * q + (y % M) /\ q \in Int
  BY SMT
<1>3. y - x = M * (q - p)
  BY <1>1, <1>2, SMT
<1> HIDE DEF p, q
<1>4. q - p >= 1 => M * (q - p) >= M
  BY <1>1, <1>2, SMT
<1>5. q - p <= -1 => M * (q - p) <= -M
  BY <1>1, <1>2, SMT
<1>6. q - p = 0
  BY <1>1, <1>2, <1>3, <1>4, <1>5, SMT
<1> QED BY <1>1, <1>2, <1>3, <1>6, SMT

\* The packets of r were in q, in the same order.
SamePackets(r, q) ==
    \E k \in Nat : \A i \in 1 .. Len(r) :
       r[i].type = "blk" => i + k \in 1 .. Len(q) /\ r[i] = q[i + k]

LEMMA KeptPackets ==
  ASSUME NEW r, NEW q, Kept(r, q)
  PROVE  SamePackets(r, q)
BY DEF Kept, SamePackets, Matters

\* The numbers the flow is made of
LEMMA FlowTypes ==
  ASSUME TypeOK, BatchFits, rxPhase \in {"data", "eot"}
  PROVE  /\ Newest \in Nat /\ Acked \in Nat
         /\ rxBlocks \in Nat /\ dups \in Nat
         /\ Current \in 1 .. NFiles /\ Files[Current] \in Nat
         /\ Newest <= Files[Current]
         /\ \A i \in 1 .. Len(toRx) : toRx[i].load[2] \in Nat
         /\ txPhase \notin {"start", "eot", "eot2"} => Current = txFile
<1>1. Current \in 1 .. NFiles
  BY InsideFile
<1>2. Files[Current] \in Nat
  BY <1>1, BatchAssumption DEF NFiles
<1>3. txPhase \notin {"start", "eot", "eot2"} => Current = txFile
  BY DEF BatchFits, Course, Between, Closing, AtEnd, Offered, Taken, Going, Sending
<1>4. txPhase = "data" => txBlock.idx \in 1 .. Files[Current]
  BY <1>3 DEF BatchFits, TxFits
<1>5. Newest \in Nat /\ Newest <= Files[Current]
  BY <1>2, <1>4 DEF Newest
<1>6. Acked \in Nat
  BY <1>2, <1>4, <1>5 DEF Acked
<1>7. rxBlocks \in Nat /\ dups \in Nat
  BY DEF TypeOK, RxTypeOK
<1>8. ASSUME NEW i \in 1 .. Len(toRx) PROVE toRx[i].load[2] \in Nat
  <2>0. toRx \in Seq(RxItem)
    BY Shapes
  <2>1. toRx[i] \in RxItem
    BY <2>0
  <2>2. toRx[i].load \in Payload
    BY <2>1 DEF RxItem
  <2> QED BY <2>2 DEF Payload
<1> QED BY <1>1, <1>2, <1>3, <1>5, <1>6, <1>7, <1>8

\* Packets that were in flight before stay true and in order.
LEMMA PacketsStay ==
  ASSUME TypeOK, BatchFits, rxPhase \in {"data", "eot"},
         TruePackets, PacketsInOrder, toRx' \in Seq(RxItem), SamePackets(toRx', toRx),
         Current' = Current, UNCHANGED rxBlocks,
         Newest' \in Nat, Newest <= Newest'
  PROVE  TruePackets' /\ PacketsInOrder'
<1>1. PICK k \in Nat : \A i \in 1 .. Len(toRx') :
         toRx'[i].type = "blk" => i + k \in 1 .. Len(toRx) /\ toRx'[i] = toRx[i + k]
  BY DEF SamePackets
<1>2. \A i, j \in 1 .. Len(toRx') : i < j => i + k < j + k
  OBVIOUS
<1>3. PacketsInOrder'
  BY <1>1, <1>2 DEF PacketsInOrder
<1>4. Newest \in Nat /\ rxBlocks \in Nat
  BY FlowTypes
<1>5. TruePackets'
  <2> SUFFICES ASSUME NEW i \in 1 .. Len(toRx'), toRx'[i].type = "blk"
               PROVE  /\ toRx'[i].load = <<Current, toRx'[i].load[2]>>
                      /\ toRx'[i].load[2] \in rxBlocks .. Newest'
                      /\ toRx'[i].num = BlockNum(toRx'[i].load[2])
    BY DEF TruePackets
  <2>1. i + k \in 1 .. Len(toRx) /\ toRx'[i] = toRx[i + k]
    BY <1>1
  <2>2. /\ toRx'[i].load = <<Current, toRx'[i].load[2]>>
        /\ toRx'[i].load[2] \in rxBlocks .. Newest
        /\ toRx'[i].num = BlockNum(toRx'[i].load[2])
    BY <2>1 DEF TruePackets
  <2> QED BY <1>4, <2>2
<1> QED BY <1>3, <1>5

LEMMA Wider ==
  ASSUME NEW a \in Nat, NEW b \in Nat, NEW c \in Nat, a <= b
  PROVE  0 .. a \subseteq 0 .. b /\ c .. a \subseteq c .. b /\ 0 \in 0 .. b
OBVIOUS

LEMMA Sums ==
  ASSUME NEW a \in Nat, NEW b \in Nat
  PROVE  a + b \in Nat /\ a + 1 \in Nat
OBVIOUS

\* ACKs that were in flight before keep their numbers.
LEMMA AcksStay ==
  ASSUME AcksNumbered, KeptTx, Acked' = Acked, Acked \in Nat,
         rxBlocks \in Nat, dups \in Nat, rxBlocks' \in Nat, dups' \in Nat,
         rxBlocks + dups <= rxBlocks' + dups'
  PROVE  AcksNumbered'
<1>0. /\ 0 .. rxBlocks + dups \subseteq 0 .. rxBlocks' + dups'
      /\ Acked + 1 .. rxBlocks + dups \subseteq Acked' + 1 .. rxBlocks' + dups'
      /\ 0 \in 0 .. rxBlocks' + dups'
  <2>1. rxBlocks + dups \in Nat /\ rxBlocks' + dups' \in Nat /\ Acked + 1 \in Nat
    BY Sums
  <2> QED BY <2>1, Wider
<1>1. PICK n \in [1 .. Len(toTx) -> 0 .. rxBlocks + dups] : Numbered(n)
  BY DEF AcksNumbered
<1>2. PICK k \in Nat : \A i \in 1 .. Len(toTx') :
         toTx'[i].type \in Matters => i + k \in 1 .. Len(toTx) /\ toTx'[i] = toTx[i + k]
  BY DEF KeptTx, Kept
<1> DEFINE m == [i \in 1 .. Len(toTx') |->
                    IF i + k \in 1 .. Len(toTx) THEN n[i + k] ELSE 0]
<1>3. m \in [1 .. Len(toTx') -> 0 .. rxBlocks' + dups']
  <2>1. ASSUME NEW i \in 1 .. Len(toTx') PROVE m[i] \in 0 .. rxBlocks' + dups'
    <3>1. CASE i + k \in 1 .. Len(toTx)
      <4>1. n[i + k] \in 0 .. rxBlocks + dups
        BY <1>1, <3>1
      <4> QED BY <1>0, <3>1, <4>1, Zenon
    <3>2. CASE i + k \notin 1 .. Len(toTx)
      BY <1>0, <3>2, Zenon
    <3> QED BY <3>1, <3>2
  <2> QED BY <2>1
<1>4. \A i \in 1 .. Len(toTx') : toTx'[i].type = "ack" =>
         /\ i + k \in 1 .. Len(toTx) /\ toTx[i + k].type = "ack"
         /\ m[i] = n[i + k]
  BY <1>2 DEF Matters
<1> HIDE DEF m
<1>5. ASSUME NEW i \in 1 .. Len(toTx'), toTx'[i].type = "ack"
      PROVE  m[i] \in Acked' + 1 .. rxBlocks' + dups'
  <2>1. n[i + k] \in Acked + 1 .. rxBlocks + dups
    BY <1>1, <1>4, <1>5 DEF Numbered
  <2>2. m[i] = n[i + k]
    BY <1>4, <1>5
  <2> QED BY <1>0, <2>1, <2>2, Zenon
<1>6. ASSUME NEW i \in 1 .. Len(toTx'), NEW j \in 1 .. Len(toTx'), i < j,
             toTx'[i].type = "ack", toTx'[j].type = "ack"
      PROVE  m[i] < m[j]
  <2>1. i + k < j + k
    BY <1>6
  <2> QED BY <1>1, <1>4, <1>6, <2>1 DEF Numbered
<1>7. \E h \in [1 .. Len(toTx') -> 0 .. rxBlocks' + dups'] :
         /\ \A i \in 1 .. Len(toTx') :
               toTx'[i].type = "ack" => h[i] \in Acked' + 1 .. rxBlocks' + dups'
         /\ \A i, j \in 1 .. Len(toTx') :
               i < j /\ toTx'[i].type = "ack" /\ toTx'[j].type = "ack" => h[i] < h[j]
  BY <1>3, <1>5, <1>6
<1> QED BY <1>7 DEF AcksNumbered, Numbered

\* What changes neither the file nor the block keeps the flow.
LEMMA FlowStays ==
  ASSUME TypeOK, BatchFits, rxPhase \in {"data", "eot"}, Flow,
         toRx' \in Seq(RxItem), SamePackets(toRx', toRx),
         Current' = Current, UNCHANGED rxBlocks,
         rxFiles'[Current].data = rxFiles[Current].data,
         Newest' = Newest, Acked' = Acked, dups' = dups,
         txPhase' = "data" => txPhase = "data" /\ KeptTx /\ UNCHANGED <<txBlock, txFile>>
  PROVE  Flow'
<1>1. /\ Newest \in Nat /\ Acked \in Nat /\ rxBlocks \in Nat /\ dups \in Nat
  BY FlowTypes
<1>2. TruePackets' /\ PacketsInOrder'
  BY <1>1, PacketsStay DEF Flow
<1>3. txPhase' = "data" => txBlock'.load = <<txFile', txBlock'.idx>> /\ AcksNumbered'
  BY <1>1, AcksStay DEF Flow
<1>4. Len(rxFiles'[Current'].data) = rxBlocks' /\ rxBlocks' <= Newest'
  BY DEF Flow
<1>5. Acked' <= rxBlocks' + dups'
  BY DEF Flow
<1> QED BY <1>2, <1>3, <1>4, <1>5 DEF Flow

-----------------------------------------------------------------------------
(* The contents: steps that store nothing *)

\* Names and contents of the files are those of before.
SameData ==
    /\ Len(rxFiles') = Len(rxFiles)
    /\ \A i \in 1 .. Len(rxFiles) :
          rxFiles'[i].name = rxFiles[i].name /\ rxFiles'[i].data = rxFiles[i].data

LEMMA SameIntact ==
  ASSUME NEW r, NEW s, Intact(r), s.name = r.name, s.data = r.data
  PROVE  Intact(s)
BY DEF Intact

LEMMA NothingStored ==
  ASSUME TypeOK, TypeOK', FilesIntact, SameData, spoilt \subseteq spoilt', dups <= dups'
  PROVE  FilesIntact'
<1>1. /\ rxFiles \in Seq(FileRecord) /\ rxFiles' \in Seq(FileRecord)
      /\ dups \in Nat /\ dups' \in Nat /\ BlockMod \in Nat
  BY YmodemAssumption DEF TypeOK, RxTypeOK
<1> SUFFICES ASSUME dups' < BlockMod - 1, NEW i \in DOMAIN rxFiles', i \notin spoilt'
             PROVE  Intact(rxFiles'[i])
  BY DEF FilesIntact
<1>2. dups < BlockMod - 1
  BY <1>1
<1>3. DOMAIN rxFiles = 1 .. Len(rxFiles) /\ DOMAIN rxFiles' = 1 .. Len(rxFiles')
  BY <1>1
<1>4. i \in 1 .. Len(rxFiles) /\ i \in DOMAIN rxFiles /\ i \notin spoilt
  BY <1>3 DEF SameData
<1>5. Intact(rxFiles[i])
  BY <1>2, <1>4 DEF FilesIntact
<1>6. rxFiles'[i].name = rxFiles[i].name /\ rxFiles'[i].data = rxFiles[i].data
  BY <1>4 DEF SameData
<1> QED BY <1>5, <1>6, SameIntact

\* What stores nothing, acknowledges nothing and sends no new packet keeps the
\* contents and the flow.
LEMMA ContentKept ==
  ASSUME TypeOK, TypeOK', BatchFits, ContentInv, SameData,
         UNCHANGED <<rxBlocks, dups>>, spoilt \subseteq spoilt',
         rxPhase' \in {"data", "eot"} =>
            /\ rxPhase \in {"data", "eot"}
            /\ SamePackets(toRx', toRx)
            /\ Newest' = Newest /\ Acked' = Acked
            /\ txPhase' = "data" =>
                  txPhase = "data" /\ KeptTx /\ UNCHANGED <<txBlock, txFile>>
  PROVE  ContentInv'
<1>1. dups \in Nat /\ toRx' \in Seq(RxItem)
  BY DEF TypeOK, LineTypeOK, RxTypeOK
<1>2. FilesIntact'
  BY <1>1, NothingStored DEF ContentInv
<1>3. Current' = Current
  BY DEF SameData, Current
<1>4. ASSUME Few', InFile' PROVE Flow'
  <2>1. rxPhase' \in {"data", "eot"} /\ Current \notin spoilt
    BY <1>3, <1>4 DEF InFile
  <2>2. rxPhase \in {"data", "eot"}
    BY <2>1
  <2>3. Flow
    BY <1>4, <2>1, <2>2 DEF ContentInv, Few, InFile
  <2>4. Current \in 1 .. Len(rxFiles)
    BY <2>2, InsideFile DEF Current
  <2>5. rxFiles'[Current].data = rxFiles[Current].data
    BY <2>4 DEF SameData
  <2> QED BY <1>1, <1>3, <2>1, <2>2, <2>3, <2>5, FlowStays
<1> QED BY <1>2, <1>4 DEF ContentInv

LEMMA EndKeepsData ==
  ASSUME TypeOK, rxFiles # <<>>,
         NEW st \in {"OK", "TIMEOUT", "CANCEL", "SEQUENCE"}, FileEnd(st)
  PROVE  SameData
<1>1. rxFiles \in Seq(FileRecord)
  BY Shapes
<1>2. /\ SameFiles
      /\ rxFiles'[Current].name = rxFiles[Current].name
      /\ rxFiles'[Current].data = rxFiles[Current].data
      /\ \A i \in 1 .. Current - 1 : rxFiles'[i] = rxFiles[i]
  BY <1>1, FileEnded
<1>3. \A i \in 1 .. Len(rxFiles) : i = Current \/ i \in 1 .. Current - 1
  BY <1>1 DEF Current
<1> QED BY <1>2, <1>3 DEF SameData, SameFiles

\* The receive steps outside a file, and those that end one
LEMMA RxOutsideContent ==
  ASSUME TypeOK, TypeOK', BatchFits, ContentInv, NEW silent,
         \/ HeaderTimeout(silent) \/ HeaderRefuse \/ HeaderCancel \/ BatchEnd
         \/ SecondEot(silent),
         spoilt \subseteq spoilt'
  PROVE  ContentInv'
<1>1. rxPhase' = "header" /\ UNCHANGED <<rxBlocks, dups>>
  BY DEF HeaderTimeout, HeaderRefuse, HeaderRetry, HeaderCancel, BatchEnd, SecondEot,
         RxReads, RxQuiet, RxAt, RxReturn
<1>2. CASE UNCHANGED rxFiles
  BY <1>1, <1>2, ContentKept DEF SameData
<1>3. CASE rxPhase = "eot" /\ FileEnd("OK")
  <2>1. rxFiles # <<>>
    BY <1>3, InsideFile
  <2>2. SameData
    BY <1>3, <2>1, EndKeepsData
  <2> QED BY <1>1, <2>2, ContentKept
<1> QED BY <1>2, <1>3
        DEF HeaderTimeout, HeaderRefuse, HeaderRetry, HeaderCancel, BatchEnd, SecondEot,
            RxQuiet, RxAt

\* The receive steps inside a file that neither store nor acknowledge
LEMMA RxInsideContent ==
  ASSUME TypeOK, TypeOK', BatchFits, ContentInv, NEW silent,
         DataTimeout(silent) \/ DataCancel \/ DataRefuse \/ DataSequence \/ DataEot,
         UNCHANGED txVars, spoilt \subseteq spoilt'
  PROVE  ContentInv'
<1>1. toRx \in Seq(RxItem) /\ toTx \in Seq(TxItem)
  BY Shapes
<1>2. rxPhase = "data" /\ UNCHANGED <<rxBlocks, dups>>
  BY DEF DataTimeout, DataCancel, DataRefuse, DataSequence, DataEot, RxReads, RxQuiet,
         RxAt, RxReturn, rxVars
<1>3. KeptRx
  BY <1>1, ReadRx
  DEF DataTimeout, DataCancel, DataRefuse, DataSequence, DataEot, RxReads, RxQuiet
<1>4. KeptTx
  BY <1>1, AnswerTx
  DEF DataTimeout, DataCancel, DataRefuse, DataSequence, DataEot, RxReturn
<1>5. \/ UNCHANGED rxFiles
      \/ \E st \in {"TIMEOUT", "CANCEL", "SEQUENCE"} : FileEnd(st)
  BY DEF DataTimeout, DataCancel, DataRefuse, DataSequence, DataEot, rxVars
<1>6. SameData
  <2>1. rxFiles # <<>>
    BY <1>2, InsideFile
  <2> QED BY <1>5, <2>1, EndKeepsData DEF SameData
<1>7. Newest' = Newest /\ Acked' = Acked
  <2>1. Current' = Current
    BY <1>6 DEF SameData, Current
  <2> QED BY <2>1 DEF Newest, Acked, txVars
<1>8. SamePackets(toRx', toRx)
  BY <1>3, KeptPackets DEF KeptRx
<1> QED BY <1>2, <1>4, <1>6, <1>7, <1>8, ContentKept DEF txVars

\* The transmit steps that send no packet
LEMMA TxQuietContent ==
  ASSUME TypeOK, TypeOK', BatchFits, ContentInv, NEW silent,
         \/ TxStartRetry(silent) \/ TxCancelled \/ TxNoStart(silent)
         \/ (TxResend(silent) /\ UNCHANGED toRx)
         \/ TxBlock0Acked,
         UNCHANGED rxVars, spoilt \subseteq spoilt'
  PROVE  ContentInv'
<1> USE DEF rxVars
<1>1. toRx \in Seq(RxItem) /\ toTx \in Seq(TxItem)
  BY Shapes
<1>2. /\ UNCHANGED <<txFile, txBlock, toRx>>
      /\ (UNCHANGED toTx \/ (toTx # <<>> /\ toTx' = Tail(toTx)))
      /\ UNCHANGED txPhase \/ (txPhase = "block0" /\ txPhase' = "go")
  BY DEF TxStartRetry, TxCancelled, TxNoStart, TxResend, TxBlock0Acked, TxReadsOther,
         TxReads, TxAt, TxGoTo, TxReturn
<1>3. KeptRx /\ KeptTx
  BY <1>1, <1>2, ReadRx, ReadTx
<1>4. SamePackets(toRx', toRx)
  BY <1>3, KeptPackets DEF KeptRx
<1>5. Newest' = Newest /\ Acked' = Acked
  BY <1>2 DEF Newest, Acked, Current
<1> QED BY <1>2, <1>3, <1>4, <1>5, ContentKept DEF SameData

\* A block 0 is sent between two files only.
LEMMA TxStartContent ==
  ASSUME TypeOK, TypeOK', BatchFits, BatchFits', ContentInv, TxStart,
         UNCHANGED rxVars, spoilt \subseteq spoilt'
  PROVE  ContentInv'
<1> USE DEF rxVars
<1>1. /\ txPhase = "start" /\ txPhase' = "block0" /\ toTx # <<>>
      /\ Head(toTx).type = "c"
  BY DEF TxStart, TxReads, TxAt, TxGoTo
<1>2. 1 \in 1 .. Len(toTx) /\ Head(toTx) = toTx[1]
  BY <1>1, Shapes, HeadFirst
<1>3. rxPhase = "header"
  BY <1>1, <1>2
  DEF BatchFits, Course, Between, Closing, Offered, Taken, Going, Sending, NoTx
<1> QED BY <1>3, ContentKept DEF SameData

\* The transmit steps behind the last block of a file
LEMMA TxEotContent ==
  ASSUME TypeOK, TypeOK', BatchFits, ContentInv, NEW silent,
         TxEotNaked \/ TxFileSent(silent),
         UNCHANGED rxVars, spoilt \subseteq spoilt'
  PROVE  ContentInv'
<1> USE DEF rxVars
<1>1. toRx \in Seq(RxItem) /\ toTx \in Seq(TxItem)
  BY Shapes
<1>2. /\ txPhase \in {"eot", "eot2"} /\ txPhase' \in {"eot2", "start"}
      /\ UNCHANGED toRx \/ toRx' = Send(toRx, RxByte("eot"))
  BY DEF TxEotNaked, TxFileSent, TxReadsOther, TxReads, TxAt, NextFile, TxGoTo
<1>3. Newest' = Newest /\ Acked' = Acked
  BY <1>2 DEF Newest, Acked, Current
<1>4. SamePackets(toRx', toRx)
  <2>1. CASE UNCHANGED toRx
    BY <1>1, <2>1, SameKept, KeptPackets
  <2>2. CASE toRx' = Send(toRx, RxByte("eot"))
    <3>1. RxByte("eot") \in RxItem /\ RxByte("eot").type = "eot"
      BY RxBytes
    <3>2. \A i \in 1 .. Len(toRx') : toRx'[i].type = "blk" =>
             i + 0 \in 1 .. Len(toRx) /\ toRx'[i] = toRx[i + 0]
      BY <1>1, <2>2, <3>1, RxSent
    <3> QED BY <3>2, Zenon DEF SamePackets
  <2> QED BY <1>2, <2>1, <2>2
<1> QED BY <1>2, <1>3, <1>4, ContentKept DEF SameData

\* The line and the keys pressed at it
LEMMA LineContent ==
  ASSUME TypeOK, TypeOK', BatchFits, ContentInv,
         YmodemLineNext \/ UNCHANGED lineVars,
         UNCHANGED <<rxVars, txVars, spoilt>>
  PROVE  ContentInv'
<1> USE DEF rxVars, txVars
<1>1. KeptRx /\ KeptTx
  BY LineKeeps, Shapes, SameKept DEF TypeOK, KeptRx, KeptTx, lineVars
<1>2. SamePackets(toRx', toRx)
  BY <1>1, KeptPackets DEF KeptRx
<1>3. Newest' = Newest /\ Acked' = Acked
  BY DEF Newest, Acked, Current
<1> QED BY <1>1, <1>2, <1>3, ContentKept DEF SameData

\* Where a number is damaged nothing is said of any file.
LEMMA RenumberContent ==
  ASSUME TypeOK, TypeOK', BatchFits, spoilt' = 1 .. NFiles,
         UNCHANGED <<rxVars, txVars>>
  PROVE  ContentInv'
<1> USE DEF rxVars, txVars
<1>1. /\ txFile \in 1 .. NFiles + 1 /\ NFiles \in Nat /\ Current \in Nat
      /\ rxFiles \in Seq(FileRecord)
  BY Shapes
<1>2. Current <= NFiles
  <2>1. AtEnd \/ Current = txFile - 1 \/ rxPhase \in {"data", "eot"}
    BY DEF BatchFits, Course, Between, Closing, Offered, Taken, Going, Sending
  <2>2. AtEnd => Current <= NFiles
    BY <1>1 DEF AtEnd, Closed, BatchFits, TxFits
  <2> QED BY <1>1, <2>1, <2>2, InsideFile
<1>3. DOMAIN rxFiles' \subseteq spoilt'
  BY <1>1, <1>2 DEF Current
<1>4. rxPhase' \in {"data", "eot"} => Current' \in spoilt'
  BY InsideFile DEF Current
<1> QED BY <1>3, <1>4 DEF ContentInv, FilesIntact, InFile

-----------------------------------------------------------------------------
(* The contents: steps of the receiver *)

\* A file is started empty, with none of its blocks in flight.
LEMMA FileStartContent ==
  ASSUME TypeOK, TypeOK', BatchFits, ContentInv, FileStart,
         UNCHANGED txVars, spoilt \subseteq spoilt'
  PROVE  ContentInv'
<1> USE DEF txVars
<1>1. /\ RxReads("header", {"blk"}) /\ toRx' = Tail(toRx)
      /\ NameIn(Head(toRx).load) # NFiles + 1
      /\ rxFiles' \in Started(rxFiles, NameIn(Head(toRx).load))
      /\ rxPhase' = "data" /\ rxBlocks' = 0 /\ UNCHANGED dups
  BY DEF FileStart
<1>2. /\ Offered /\ NameIn(Head(toRx).load) = txFile
      /\ NoRx({"blk", "eot"})'
  BY <1>1, Block0Read
<1>3. /\ rxFiles \in Seq(FileRecord) /\ rxFiles' \in Seq(FileRecord)
      /\ NFiles \in Nat /\ txFile \in 1 .. NFiles
      /\ dups \in Nat
  BY <1>1, <1>2, Shapes DEF TypeOK, RxTypeOK
<1> DEFINE n == Len(rxFiles)
<1>4. /\ Len(rxFiles') = n + 1
      /\ \A i \in 1 .. n : rxFiles'[i] = rxFiles[i]
      /\ rxFiles'[n + 1].name = txFile /\ rxFiles'[n + 1].data = <<>>
  <2>1. rxFiles' \in Started(rxFiles, txFile) /\ txFile \in Nat
    BY <1>1, <1>2, <1>3
  <2> HIDE DEF n
  <2>2. /\ Len(rxFiles') = Len(rxFiles) + 1
        /\ \A i \in 1 .. Len(rxFiles) : rxFiles'[i] = rxFiles[i]
        /\ rxFiles'[Len(rxFiles) + 1].name = txFile
        /\ rxFiles'[Len(rxFiles) + 1].data = <<>>
    BY <1>3, <2>1, StartedFacts
  <2> QED BY <2>2 DEF n
<1>5. n \in Nat /\ DOMAIN rxFiles = 1 .. n /\ DOMAIN rxFiles' = 1 .. n + 1
  BY <1>3, <1>4
<1>6. Files[txFile] \in Nat
  BY <1>3, BatchAssumption DEF NFiles
<1>7. Intact(rxFiles'[n + 1])
  BY <1>3, <1>4, <1>6 DEF Intact
<1>8. FilesIntact'
  <2> SUFFICES ASSUME dups < BlockMod - 1, NEW i \in 1 .. n + 1, i \notin spoilt
               PROVE  Intact(rxFiles'[i])
    BY <1>1, <1>5 DEF FilesIntact
  <2>1. CASE i = n + 1
    BY <1>7, <2>1
  <2>2. CASE i \in 1 .. n
    BY <1>4, <1>5, <2>2 DEF ContentInv, FilesIntact
  <2> QED BY <1>5, <2>1, <2>2
<1>9. Flow'
  <2>1. txPhase' = "block0"
    BY <1>2 DEF Offered
  <2>2. Newest' = 0 /\ Acked' = 0
    BY <2>1 DEF Newest, Acked
  <2>3. TruePackets' /\ PacketsInOrder'
    BY <1>2 DEF NoRx, TruePackets, PacketsInOrder
  <2>4. Len(rxFiles'[Current'].data) = 0
    BY <1>4 DEF Current
  <2> QED BY <1>1, <1>3, <2>1, <2>2, <2>3, <2>4 DEF Flow
<1> QED BY <1>8, <1>9 DEF ContentInv

\* The packet read is a true one, and no older one is behind it.
LEMMA PacketFound ==
  ASSUME TypeOK, BatchFits, Flow, RxReads("data", {"blk"})
  PROVE  \E k \in Nat :
            /\ Head(toRx).load = <<Current, k>> /\ Head(toRx).num = BlockNum(k)
            /\ rxBlocks <= k /\ k <= Newest
            /\ \A i \in 1 .. Len(toRx) : toRx[i].type = "blk" => k <= toRx[i].load[2]
<1>1. /\ rxPhase = "data" /\ 1 \in 1 .. Len(toRx) /\ Head(toRx) = toRx[1]
      /\ Head(toRx).type = "blk"
  BY PacketRead
<1> DEFINE k == toRx[1].load[2]
<1>2. k \in Nat /\ Newest \in Nat /\ rxBlocks \in Nat
  BY <1>1, FlowTypes
<1>3. /\ toRx[1].load = <<Current, k>>
      /\ k \in rxBlocks .. Newest
      /\ toRx[1].num = BlockNum(k)
  BY <1>1 DEF Flow, TruePackets
<1>4. \A i \in 1 .. Len(toRx) : toRx[i].type = "blk" => 1 < i \/ i = 1
  OBVIOUS
<1>5. ASSUME NEW i \in 1 .. Len(toRx), toRx[i].type = "blk"
      PROVE  k <= toRx[i].load[2]
  <2>1. CASE i = 1
    BY <1>2, <2>1
  <2>2. CASE 1 < i
    BY <1>1, <1>5, <2>2 DEF Flow, PacketsInOrder
  <2> QED BY <1>4, <1>5, <2>1, <2>2
<1> HIDE DEF k
<1>6. rxBlocks <= k /\ k <= Newest
  BY <1>2, <1>3
<1> QED BY <1>1, <1>2, <1>3, <1>5, <1>6

\* What is behind the packet read is true for the next block too.
LEMMA PacketsBehind ==
  ASSUME TypeOK, BatchFits, Flow, RxReads("data", {"blk"}), toRx' = Tail(toRx),
         NEW k \in Nat,
         \A i \in 1 .. Len(toRx) : toRx[i].type = "blk" => k <= toRx[i].load[2],
         rxBlocks' \in Nat, rxBlocks' <= k, Current' = Current, Newest' = Newest
  PROVE  TruePackets' /\ PacketsInOrder'
<1>1. rxPhase = "data" /\ toRx # <<>>
  BY PacketRead
<1>2. toRx \in Seq(RxItem)
  BY Shapes
<1>3. \A i \in 1 .. Len(toRx') :
         i + 1 \in 1 .. Len(toRx) /\ 1 < i + 1 /\ toRx'[i] = toRx[i + 1]
  BY <1>1, <1>2, HeadFirst
<1>4. \A i, j \in 1 .. Len(toRx') : i < j => i + 1 < j + 1
  OBVIOUS
<1>5. PacketsInOrder'
  BY <1>3, <1>4 DEF Flow, PacketsInOrder
<1>6. Newest \in Nat /\ \A i \in 1 .. Len(toRx) : toRx[i].load[2] \in Nat
  BY <1>1, FlowTypes
<1>7. ASSUME NEW i \in 1 .. Len(toRx), toRx[i].type = "blk"
      PROVE  /\ toRx[i].load = <<Current', toRx[i].load[2]>>
             /\ toRx[i].load[2] \in rxBlocks' .. Newest'
             /\ toRx[i].num = BlockNum(toRx[i].load[2])
  <2>1. /\ toRx[i].load = <<Current, toRx[i].load[2]>>
        /\ toRx[i].load[2] \in rxBlocks .. Newest
        /\ toRx[i].num = BlockNum(toRx[i].load[2])
    BY <1>7 DEF Flow, TruePackets
  <2>2. rxBlocks' <= toRx[i].load[2]
    BY <1>6, <1>7
  <2> QED BY <1>6, <2>1, <2>2
<1>8. TruePackets'
  BY <1>3, <1>7 DEF TruePackets
<1> QED BY <1>5, <1>8

\* One more ACK is in flight, numbered behind all others.
LEMMA AckAdded ==
  ASSUME AcksNumbered, toTx \in Seq(TxItem), toTx' = Send(toTx, TxByte("ack")),
         Acked' = Acked, NEW t \in Nat, t = rxBlocks + dups, Acked \in Nat,
         Acked <= t, rxBlocks' + dups' = t + 1
  PROVE  AcksNumbered'
<1> DEFINE s == Send(toTx, TxByte("ack"))
<1>1. PICK n \in [1 .. Len(toTx) -> 0 .. t] :
         /\ \A i \in 1 .. Len(toTx) : toTx[i].type = "ack" => n[i] \in Acked + 1 .. t
         /\ \A i, j \in 1 .. Len(toTx) :
               i < j /\ toTx[i].type = "ack" /\ toTx[j].type = "ack" => n[i] < n[j]
  BY DEF AcksNumbered, Numbered
<1>2. /\ Len(s) \in Len(toTx) .. Len(toTx) + 1
      /\ \A i \in 1 .. Len(s) : i <= Len(toTx) => s[i] = toTx[i]
  <2>1. TxByte("ack") \in TxItem
    BY TxBytes DEF TxItemTypes
  <2> QED BY <2>1, Sent
<1>3. Len(toTx) \in Nat
  OBVIOUS
<1>4. toTx' = s
  OBVIOUS
<1> HIDE DEF s
<1> DEFINE h == [i \in 1 .. Len(s) |-> IF i <= Len(toTx) THEN n[i] ELSE t + 1]
<1>5. \A i \in 1 .. Len(s) :
         \/ i \in 1 .. Len(toTx) /\ s[i] = toTx[i] /\ h[i] = n[i] /\ n[i] \in 0 .. t
         \/ i = Len(s) /\ i > Len(toTx) /\ h[i] = t + 1
  <2> SUFFICES ASSUME NEW i \in 1 .. Len(s)
               PROVE  \/ i \in 1 .. Len(toTx) /\ s[i] = toTx[i] /\ h[i] = n[i]
                                               /\ n[i] \in 0 .. t
                      \/ i = Len(s) /\ i > Len(toTx) /\ h[i] = t + 1
    OBVIOUS
  <2>1. CASE i <= Len(toTx)
    <3>1. h[i] = n[i] /\ i \in 1 .. Len(toTx)
      BY <1>3, <2>1
    <3> HIDE DEF h
    <3>2. s[i] = toTx[i] /\ n[i] \in 0 .. t
      BY <1>1, <1>2, <2>1, <3>1
    <3> QED BY <3>1, <3>2
  <2>2. CASE ~ (i <= Len(toTx))
    <3>1. h[i] = t + 1
      BY <2>2
    <3> HIDE DEF h
    <3> QED BY <1>2, <1>3, <2>2, <3>1
  <2> QED BY <2>1, <2>2
<1>6. h \in [1 .. Len(s) -> 0 .. t + 1]
  <2>1. \A i \in 1 .. Len(s) : h[i] \in 0 .. t + 1
    <3> HIDE DEF h
    <3> QED BY <1>5
  <2> QED BY <2>1
<1> HIDE DEF h
<1>7. ASSUME NEW i \in 1 .. Len(s), s[i].type = "ack"
      PROVE  h[i] \in Acked + 1 .. t + 1
  <2>1. CASE i \in 1 .. Len(toTx) /\ s[i] = toTx[i] /\ h[i] = n[i]
    <3>1. n[i] \in Acked + 1 .. t
      BY <1>1, <1>7, <2>1
    <3> QED BY <2>1, <3>1
  <2>2. CASE h[i] = t + 1
    BY <2>2
  <2> QED BY <1>5, <2>1, <2>2
<1>8. ASSUME NEW i \in 1 .. Len(s), NEW j \in 1 .. Len(s), i < j,
             s[i].type = "ack", s[j].type = "ack"
      PROVE  h[i] < h[j]
  <2>1. i \in 1 .. Len(toTx) /\ s[i] = toTx[i] /\ h[i] = n[i] /\ n[i] \in 0 .. t
    BY <1>2, <1>3, <1>5, <1>8
  <2>2. CASE j \in 1 .. Len(toTx) /\ s[j] = toTx[j] /\ h[j] = n[j]
    BY <1>1, <1>8, <2>1, <2>2
  <2>3. CASE h[j] = t + 1
    BY <2>1, <2>3
  <2> QED BY <1>5, <2>2, <2>3
<1>9. \E g \in [1 .. Len(s) -> 0 .. t + 1] :
         /\ \A i \in 1 .. Len(s) : s[i].type = "ack" => g[i] \in Acked + 1 .. t + 1
         /\ \A i, j \in 1 .. Len(s) :
               i < j /\ s[i].type = "ack" /\ s[j].type = "ack" => g[i] < g[j]
  BY <1>6, <1>7, <1>8
<1>10. \E g \in [1 .. Len(toTx') -> 0 .. rxBlocks' + dups'] :
         /\ \A i \in 1 .. Len(toTx') :
               toTx'[i].type = "ack" => g[i] \in Acked' + 1 .. rxBlocks' + dups'
         /\ \A i, j \in 1 .. Len(toTx') :
               i < j /\ toTx'[i].type = "ack" /\ toTx'[j].type = "ack" => g[i] < g[j]
  BY <1>4, <1>9
<1> QED BY <1>10 DEF AcksNumbered, Numbered

\* A packet is acknowledged and what is behind it is as true as before.
LEMMA FlowAnswered ==
  ASSUME TypeOK, BatchFits, Flow, RxReads("data", {"blk"}), toRx' = Tail(toRx),
         toTx' = Send(toTx, TxByte("ack")),
         UNCHANGED txVars, Current' = Current,
         NEW k \in Nat,
         \A i \in 1 .. Len(toRx) : toRx[i].type = "blk" => k <= toRx[i].load[2],
         rxBlocks' \in Nat, dups' \in Nat, rxBlocks' <= k, k <= Newest,
         rxBlocks' + dups' = rxBlocks + dups + 1,
         Len(rxFiles'[Current].data) = rxBlocks'
  PROVE  Flow'
<1> USE DEF txVars
<1>1. rxPhase = "data"
  BY PacketRead
<1>2. Newest \in Nat /\ Acked \in Nat /\ rxBlocks \in Nat /\ dups \in Nat
  BY <1>1, FlowTypes
<1>3. Newest' = Newest /\ Acked' = Acked
  BY DEF Newest, Acked
<1>4. TruePackets' /\ PacketsInOrder'
  BY <1>3, PacketsBehind
<1>5. Acked <= rxBlocks + dups /\ rxBlocks + dups \in Nat
  BY <1>2 DEF Flow
<1>6. rxBlocks' <= Newest' /\ Acked' <= rxBlocks' + dups'
  <2>1. rxBlocks' <= Newest
    BY <1>2
  <2>2. Acked <= rxBlocks + dups + 1
    BY <1>2, <1>5
  <2>3. Acked <= rxBlocks' + dups'
    BY <2>2, Zenon
  <2> QED BY <1>3, <2>1, <2>3, Zenon
<1>7. txPhase = "data" => AcksNumbered'
  <2>1. toTx \in Seq(TxItem)
    BY Shapes
  <2> QED BY <1>2, <1>3, <1>5, <2>1, AckAdded DEF Flow
<1>8. txPhase' = "data" => txBlock'.load = <<txFile', txBlock'.idx>> /\ AcksNumbered'
  BY <1>7 DEF Flow
<1> QED BY <1>4, <1>6, <1>8 DEF Flow

LEMMA DuplicateContent ==
  ASSUME TypeOK, TypeOK', BatchFits, ContentInv, DataDuplicate,
         UNCHANGED txVars, spoilt \subseteq spoilt'
  PROVE  ContentInv'
<1>1. /\ RxReads("data", {"blk"}) /\ toRx' = Tail(toRx)
      /\ toTx' = Send(toTx, TxByte("ack"))
      /\ dups' = dups + 1 /\ UNCHANGED <<rxFiles, rxBlocks>>
  BY DEF DataDuplicate
<1>2. rxPhase = "data"
  BY <1>1, PacketRead
<1>3. rxBlocks \in Nat /\ dups \in Nat /\ BlockMod \in Nat
  BY YmodemAssumption DEF TypeOK, RxTypeOK
<1>4. FilesIntact'
  BY <1>1, <1>3, NothingStored DEF ContentInv, SameData
<1>5. Current' = Current
  BY <1>1 DEF Current
<1>6. ASSUME Few', InFile' PROVE Flow'
  <2>1. Few /\ InFile
    BY <1>1, <1>2, <1>3, <1>5, <1>6 DEF Few, InFile
  <2>2. Flow
    BY <2>1 DEF ContentInv
  <2>3. PICK k \in Nat :
            /\ rxBlocks <= k /\ k <= Newest
            /\ \A i \in 1 .. Len(toRx) : toRx[i].type = "blk" => k <= toRx[i].load[2]
    BY <1>1, <2>2, PacketFound
  <2>4. /\ rxBlocks' \in Nat /\ dups' \in Nat /\ rxBlocks' <= k
        /\ rxBlocks' + dups' = rxBlocks + dups + 1
    BY <1>1, <1>3, <2>3
  <2>5. Len(rxFiles'[Current].data) = rxBlocks'
    BY <1>1, <2>2 DEF Flow
  <2> QED BY <1>1, <1>5, <2>2, <2>3, <2>4, <2>5, FlowAnswered
<1> QED BY <1>4, <1>6 DEF ContentInv

\* With few duplicate ACKs the number of the next block is shown by that block.
LEMMA NextBlock ==
  ASSUME NEW k \in Nat, NEW blocks \in Nat, NEW more \in Nat, NEW newest \in Nat,
         NEW acked \in Nat,
         blocks <= k, k <= newest, newest <= acked + 1, acked <= blocks + more,
         more < BlockMod - 1, BlockNum(k) = BlockNum(blocks + 1)
  PROVE  k = blocks + 1
<1>1. BlockMod \in Nat \ {0} /\ BlockMod > 2
  BY YmodemAssumption
<1>2. k % BlockMod = (blocks + 1) % BlockMod
  BY DEF BlockNum
<1> DEFINE b == blocks + 1
<1>3. b \in Int /\ k \in Int /\ b < k + BlockMod /\ k < b + BlockMod
  BY <1>1
<1>4. k % BlockMod = b % BlockMod
  BY <1>2
<1> HIDE DEF b
<1>5. CASE k <= b
  BY <1>1, <1>3, <1>4, <1>5, ModGap, Zenon DEF b
<1>6. CASE b <= k
  BY <1>1, <1>3, <1>4, <1>6, ModGap, Zenon DEF b
<1> QED BY <1>3, <1>5, <1>6

\* The packet that is accepted carries the next block of the file.
LEMMA AcceptedBlock ==
  ASSUME TypeOK, BatchFits, Flow, Few, RxReads("data", {"blk"}),
         Head(toRx).num = BlockNum(rxBlocks + 1)
  PROVE  /\ Head(toRx).load = <<Current, rxBlocks + 1>>
         /\ rxBlocks + 1 <= Newest
         /\ \A i \in 1 .. Len(toRx) :
               toRx[i].type = "blk" => rxBlocks + 1 <= toRx[i].load[2]
<1>1. PICK k \in Nat :
         /\ Head(toRx).load = <<Current, k>> /\ Head(toRx).num = BlockNum(k)
         /\ rxBlocks <= k /\ k <= Newest
         /\ \A i \in 1 .. Len(toRx) : toRx[i].type = "blk" => k <= toRx[i].load[2]
  BY PacketFound
<1>2. rxPhase = "data"
  BY PacketRead
<1>3. Newest \in Nat /\ Acked \in Nat /\ rxBlocks \in Nat /\ dups \in Nat
  BY <1>2, FlowTypes
<1>4. Newest <= Acked + 1
  <2>1. txPhase = "data" => txBlock.idx \in Nat
    BY DEF TypeOK, TxTypeOK
  <2> QED BY <1>3, <2>1 DEF Acked, Newest
<1>5. Acked <= rxBlocks + dups /\ dups < BlockMod - 1
  BY DEF Flow, Few
<1>6. k = rxBlocks + 1
  BY <1>1, <1>3, <1>4, <1>5, NextBlock
<1> QED BY <1>1, <1>6

\* on_data adds the next block to the file, or the file is spoilt.
LEMMA AcceptContent ==
  ASSUME TypeOK, TypeOK', BatchFits, ContentInv, DataAccept, UNCHANGED txVars,
         spoilt' = IF NotStored THEN spoilt \cup {Len(rxFiles)} ELSE spoilt
  PROVE  ContentInv'
<1>1. /\ RxReads("data", {"blk"}) /\ toRx' = Tail(toRx)
      /\ Head(toRx).num = BlockNum(rxBlocks + 1)
      /\ toTx' = Send(toTx, TxByte("ack"))
      /\ rxFiles' \in Stored(rxFiles, Head(toRx).load)
      /\ rxBlocks' = rxBlocks + 1 /\ UNCHANGED <<rxPhase, dups>>
  BY DEF DataAccept
<1>2. /\ rxPhase = "data" /\ Head(toRx).load \in Payload
  BY <1>1, PacketRead DEF RxItem
<1>3. /\ rxBlocks \in Nat /\ rxBlocks' \in Nat /\ dups \in Nat /\ BlockMod \in Nat
      /\ rxFiles \in Seq(FileRecord) /\ rxFiles' \in Seq(FileRecord)
  BY YmodemAssumption DEF TypeOK, RxTypeOK
<1>4. /\ Current \in 1 .. NFiles /\ rxFiles # <<>> /\ Current = Len(rxFiles)
  BY <1>2, InsideFile DEF Current
<1>5. CASE rxFiles' = rxFiles
  <2>1. spoilt' = spoilt \cup {Current}
    BY <1>1, <1>3, <1>4, <1>5 DEF NotStored
  <2>2. FilesIntact'
    BY <1>1, <1>3, <1>5, <2>1, NothingStored DEF ContentInv, SameData
  <2>3. ~ InFile'
    BY <1>5, <2>1 DEF InFile, Current
  <2> QED BY <2>2, <2>3 DEF ContentInv
<1>6. CASE /\ Len(rxFiles') = Len(rxFiles)
           /\ \A i \in 1 .. Len(rxFiles) - 1 : rxFiles'[i] = rxFiles[i]
           /\ rxFiles'[Current].name = rxFiles[Current].name
           /\ rxFiles'[Current].data = Append(rxFiles[Current].data, Head(toRx).load)
           /\ rxFiles' # rxFiles
  <2>1. spoilt' = spoilt
    BY <1>6 DEF NotStored
  <2>2. Current' = Current
    BY <1>6 DEF Current
  <2> DEFINE r == rxFiles[Current]
             r2 == rxFiles'[Current]
  <2>3. r \in FileRecord /\ r.data \in Seq(Payload)
    <3>1. Current \in 1 .. Len(rxFiles)
      BY <1>3, <1>4
    <3>2. r \in FileRecord
      BY <1>3, <3>1
    <3> QED BY <3>2 DEF FileRecord
  <2>4. ASSUME Few, Current \notin spoilt
        PROVE  /\ Flow /\ Len(r.data) = rxBlocks
               /\ Head(toRx).load = <<Current, rxBlocks + 1>>
               /\ rxBlocks + 1 <= Newest
               /\ \A i \in 1 .. Len(toRx) :
                     toRx[i].type = "blk" => rxBlocks + 1 <= toRx[i].load[2]
    <3>1. Flow
      BY <1>2, <2>4 DEF ContentInv, InFile
    <3> QED BY <1>1, <2>4, <3>1, AcceptedBlock DEF Flow
  <2>5. ASSUME Few, Current \notin spoilt PROVE Intact(r2)
    <3>1. /\ Len(r.data) = rxBlocks
          /\ r2.data = Append(r.data, <<Current, rxBlocks + 1>>)
          /\ rxBlocks + 1 <= Files[Current]
      <4>1. Newest <= Files[Current] /\ Newest \in Nat /\ Files[Current] \in Nat
        BY <1>2, FlowTypes
      <4>2. rxBlocks + 1 <= Newest
        BY <2>4, <2>5
      <4>3. rxBlocks + 1 <= Files[Current]
        BY <1>3, <4>1, <4>2
      <4>4. Len(r.data) = rxBlocks /\ Head(toRx).load = <<Current, rxBlocks + 1>>
        BY <2>4, <2>5
      <4>5. r2.data = Append(r.data, Head(toRx).load)
        BY <1>6
      <4> QED BY <4>3, <4>4, <4>5, Zenon
    <3>2. Intact(r) /\ r.name = Current /\ r2.name = Current
      <4>1. Current \in DOMAIN rxFiles
        BY <1>3, <1>4
      <4>2. Intact(r)
        BY <2>5, <4>1 DEF ContentInv, FilesIntact, Few
      <4>3. r.name = Current
        BY <1>3, <1>4 DEF BatchFits, FilesFollow
      <4> QED BY <1>6, <4>2, <4>3
    <3> HIDE DEF r, r2
    <3>3. Len(r2.data) = rxBlocks + 1
      BY <2>3, <3>1
    <3>4. \A i \in 1 .. Len(r2.data) : r2.data[i] = <<Current, i>>
      <4> SUFFICES ASSUME NEW i \in 1 .. rxBlocks + 1 PROVE r2.data[i] = <<Current, i>>
        BY <3>3
      <4>1. CASE i \in 1 .. rxBlocks
        <5>1. r2.data[i] = r.data[i]
          BY <2>3, <3>1, <4>1
        <5> QED BY <3>1, <3>2, <4>1, <5>1 DEF Intact
      <4>2. CASE i = rxBlocks + 1
        BY <1>3, <2>3, <3>1, <4>2
      <4> QED BY <1>3, <4>1, <4>2
    <3> QED BY <1>3, <1>4, <3>1, <3>2, <3>3, <3>4 DEF Intact
  <2>6. FilesIntact'
    <3> SUFFICES ASSUME Few, NEW i \in 1 .. Len(rxFiles), i \notin spoilt
                 PROVE  Intact(rxFiles'[i])
      <4>1. DOMAIN rxFiles' = 1 .. Len(rxFiles)
        BY <1>3, <1>6
      <4>2. Few' <=> Few
        BY <1>1 DEF Few
      <4> QED BY <2>1, <4>1, <4>2, Zenon DEF FilesIntact, Few
    <3>1. CASE i = Current
      BY <2>5, <3>1
    <3>2. CASE i # Current
      <4>1. i \in 1 .. Len(rxFiles) - 1 /\ i \in DOMAIN rxFiles
        BY <1>3, <1>4, <3>2
      <4> QED BY <1>6, <4>1 DEF ContentInv, FilesIntact, Few
    <3> QED BY <3>1, <3>2
  <2>7. ASSUME Few', InFile' PROVE Flow'
    <3>1. Few /\ Current \notin spoilt
      BY <1>1, <2>1, <2>2, <2>7 DEF Few, InFile
    <3>2. Len(rxFiles'[Current].data) = rxBlocks'
      BY <1>1, <1>6, <2>3, <2>4, <3>1
    <3>3. /\ rxBlocks' \in Nat /\ dups' \in Nat /\ rxBlocks + 1 \in Nat
          /\ rxBlocks' <= rxBlocks + 1
          /\ rxBlocks' + dups' = rxBlocks + dups + 1
      BY <1>1, <1>3
    <3> QED BY <1>1, <2>2, <2>4, <3>1, <3>2, <3>3, FlowAnswered
  <2> QED BY <2>6, <2>7 DEF ContentInv
<1> QED BY <1>1, <1>2, <1>3, <1>4, <1>5, <1>6, StoredFacts

-----------------------------------------------------------------------------
(* The contents: steps of the transmitter *)

\* A packet with the newest block, sent again or for the first time
LEMMA PacketAdded ==
  ASSUME TypeOK, BatchFits, rxPhase \in {"data", "eot"}, TruePackets, PacketsInOrder,
         NEW k \in Nat, Newest <= k, rxBlocks <= k,
         toRx' = Send(toRx, Packet(k, <<Current, k>>)),
         UNCHANGED rxBlocks, Current' = Current, Newest' = k
  PROVE  TruePackets' /\ PacketsInOrder'
<1> DEFINE b == Packet(k, <<Current, k>>)
<1>1. Newest \in Nat /\ rxBlocks \in Nat /\ Current \in Nat
  BY FlowTypes
<1>2. <<Current, k>> \in Payload
  BY <1>1 DEF Payload
<1>3. /\ b \in RxItem /\ b.type = "blk" /\ b.load = <<Current, k>>
      /\ b.num = BlockNum(k) /\ b.load[2] = k
  BY <1>2, Packets
<1>4. toRx \in Seq(RxItem) /\ toRx' = Send(toRx, b)
  BY Shapes
<1> HIDE DEF b
<1>5. \A i \in 1 .. Len(toRx') :
         \/ i \in 1 .. Len(toRx) /\ toRx'[i] = toRx[i]
         \/ i = Len(toRx') /\ i > Len(toRx) /\ toRx'[i] = b
  BY <1>3, <1>4, RxSent
<1>6. ASSUME NEW i \in 1 .. Len(toRx), toRx[i].type = "blk"
      PROVE  /\ toRx[i].load = <<Current, toRx[i].load[2]>>
             /\ toRx[i].load[2] \in rxBlocks .. k
             /\ toRx[i].num = BlockNum(toRx[i].load[2])
  <2>1. toRx[i].load[2] \in rxBlocks .. Newest
    BY <1>6 DEF TruePackets
  <2> QED BY <1>1, <1>6, <2>1 DEF TruePackets
<1>7. k \in rxBlocks .. k
  BY <1>1
<1>8. TruePackets'
  BY <1>3, <1>5, <1>6, <1>7 DEF TruePackets
<1>9. PacketsInOrder'
  <2> SUFFICES ASSUME NEW i \in 1 .. Len(toRx'), NEW j \in 1 .. Len(toRx'), i < j,
                      toRx'[i].type = "blk", toRx'[j].type = "blk"
               PROVE  toRx'[i].load[2] <= toRx'[j].load[2]
    BY DEF PacketsInOrder
  <2>1. i \in 1 .. Len(toRx) /\ toRx'[i] = toRx[i]
    BY <1>5
  <2>2. CASE j \in 1 .. Len(toRx) /\ toRx'[j] = toRx[j]
    BY <2>1, <2>2 DEF PacketsInOrder
  <2>3. CASE toRx'[j] = b
    BY <1>1, <1>3, <1>6, <2>1, <2>3
  <2> QED BY <1>5, <2>2, <2>3
<1> QED BY <1>8, <1>9

\* The ACK read has the lowest number of those in flight.
LEMMA AckTaken ==
  ASSUME AcksNumbered, toTx \in Seq(TxItem), toTx # <<>>, Head(toTx).type = "ack",
         toTx' = Tail(toTx), UNCHANGED <<rxBlocks, dups>>,
         Acked \in Nat, rxBlocks + dups \in Nat
  PROVE  /\ Acked + 1 <= rxBlocks + dups
         /\ Acked' = Acked + 1 => AcksNumbered'
<1> DEFINE t == rxBlocks + dups
<1>1. PICK n \in [1 .. Len(toTx) -> 0 .. t] :
         /\ \A i \in 1 .. Len(toTx) : toTx[i].type = "ack" => n[i] \in Acked + 1 .. t
         /\ \A i, j \in 1 .. Len(toTx) :
               i < j /\ toTx[i].type = "ack" /\ toTx[j].type = "ack" => n[i] < n[j]
  BY DEF AcksNumbered, Numbered
<1>2. /\ 1 \in 1 .. Len(toTx) /\ Head(toTx) = toTx[1]
      /\ \A i \in 1 .. Len(toTx') :
            i + 1 \in 1 .. Len(toTx) /\ 1 < i + 1 /\ toTx'[i] = toTx[i + 1]
  BY HeadFirst
<1>3. t \in Nat
  OBVIOUS
<1> HIDE DEF t
<1>4. n[1] \in Acked + 1 .. t
  BY <1>1, <1>2
<1>5. Acked + 1 <= t
  BY <1>3, <1>4
<1>6. ASSUME Acked' = Acked + 1 PROVE AcksNumbered'
  <2> DEFINE h == [i \in 1 .. Len(toTx') |-> n[i + 1]]
  <2>1. h \in [1 .. Len(toTx') -> 0 .. t]
    BY <1>1, <1>2
  <2>2. \A i \in 1 .. Len(toTx') : h[i] = n[i + 1]
    OBVIOUS
  <2> HIDE DEF h
  <2>3. ASSUME NEW i \in 1 .. Len(toTx'), toTx'[i].type = "ack"
        PROVE  h[i] \in (Acked + 1) + 1 .. t
    <3>1. n[i + 1] \in Acked + 1 .. t /\ n[1] < n[i + 1]
      BY <1>1, <1>2, <2>3
    <3>2. n[i + 1] \in (Acked + 1) + 1 .. t
      BY <1>3, <1>4, <3>1
    <3> QED BY <2>2, <3>2
  <2>4. ASSUME NEW i \in 1 .. Len(toTx'), NEW j \in 1 .. Len(toTx'), i < j,
               toTx'[i].type = "ack", toTx'[j].type = "ack"
        PROVE  h[i] < h[j]
    <3>1. i + 1 < j + 1
      BY <2>4
    <3> QED BY <1>1, <1>2, <2>2, <2>4, <3>1
  <2>5. rxBlocks' + dups' = t
    BY DEF t
  <2>6. \E g \in [1 .. Len(toTx') -> 0 .. rxBlocks' + dups'] :
           /\ \A i \in 1 .. Len(toTx') :
                 toTx'[i].type = "ack" => g[i] \in Acked' + 1 .. rxBlocks' + dups'
           /\ \A i, j \in 1 .. Len(toTx') :
                 i < j /\ toTx'[i].type = "ack" /\ toTx'[j].type = "ack" => g[i] < g[j]
    BY <1>6, <2>1, <2>3, <2>4, <2>5
  <2> QED BY <2>6 DEF AcksNumbered, Numbered
<1> QED BY <1>5, <1>6 DEF t

LEMMA NoAcks ==
  ASSUME NoTx({"ack"})', rxBlocks' + dups' \in Nat
  PROVE  AcksNumbered'
<1> DEFINE h == [i \in 1 .. Len(toTx') |-> 0]
<1>1. 0 \in 0 .. rxBlocks' + dups'
  OBVIOUS
<1>2. h \in [1 .. Len(toTx') -> 0 .. rxBlocks' + dups']
  BY <1>1
<1> HIDE DEF h
<1>3. \E g \in [1 .. Len(toTx') -> 0 .. rxBlocks' + dups'] :
         /\ \A i \in 1 .. Len(toTx') :
               toTx'[i].type = "ack" => g[i] \in Acked' + 1 .. rxBlocks' + dups'
         /\ \A i, j \in 1 .. Len(toTx') :
               i < j /\ toTx'[i].type = "ack" /\ toTx'[j].type = "ack" => g[i] < g[j]
  BY <1>2 DEF NoTx
<1> QED BY <1>3 DEF AcksNumbered, Numbered

\* When the transmitter goes on, the receiver has answered all it sent.
LEMMA LastAcked ==
  ASSUME TypeOK, BatchFits, Flow, TxGo \/ TxAcked, UNCHANGED <<rxBlocks, dups>>
  PROVE  /\ Newest <= rxBlocks + dups
         /\ Acked' = Newest => AcksNumbered'
         /\ \E k \in Nat \ {0} : SendFrom(k) /\ Newest = k - 1
         /\ rxPhase = "data" /\ Current = txFile
<1>1. /\ toTx # <<>> /\ toTx' = Tail(toTx)
      /\ \/ txPhase = "go" /\ Head(toTx).type = "c" /\ SendFrom(1)
         \/ txPhase = "data" /\ Head(toTx).type = "ack" /\ SendFrom(txBlock.idx + 1)
  BY DEF TxGo, TxAcked, TxReads, TxAt
<1>2. Streams
  BY GoesOn
<1>3. rxPhase = "data" /\ Current = txFile
  BY <1>2 DEF Streams, Going, Sending
<1>4. Newest \in Nat /\ Acked \in Nat /\ rxBlocks \in Nat /\ dups \in Nat
  BY <1>3, FlowTypes
<1>5. rxBlocks + dups \in Nat
  BY <1>4
<1>6. toTx \in Seq(TxItem) /\ txBlock.idx \in Nat
  BY Shapes DEF TypeOK, TxTypeOK
<1>7. CASE txPhase = "go" /\ SendFrom(1)
  <2>1. Newest = 0
    BY <1>7 DEF Newest
  <2>2. NoTx({"ack"})
    BY <1>2, <1>7 DEF Streams, Going, Sending
  <2>3. KeptTx
    BY <1>1, <1>6, ReadTx
  <2>4. NoTx({"ack"})'
    BY <1>6, <2>2, <2>3, TxKeeps
  <2>5. AcksNumbered'
    BY <1>5, <2>4, NoAcks
  <2>6. 1 \in Nat \ {0} /\ Newest = 1 - 1 /\ Newest <= rxBlocks + dups
    BY <1>5, <2>1
  <2> QED BY <1>3, <1>7, <2>5, <2>6
<1>8. CASE txPhase = "data" /\ Head(toTx).type = "ack" /\ SendFrom(txBlock.idx + 1)
  <2>1. Newest = txBlock.idx /\ Acked = txBlock.idx - 1
    BY <1>8 DEF Newest, Acked
  <2>2. Newest = Acked + 1
    BY <1>4, <1>6, <2>1
  <2>3. AcksNumbered
    BY <1>8 DEF Flow
  <2>4. /\ Acked + 1 <= rxBlocks + dups
        /\ Acked' = Acked + 1 => AcksNumbered'
    BY <1>1, <1>4, <1>5, <1>6, <1>8, <2>3, AckTaken
  <2>5. txBlock.idx + 1 \in Nat \ {0} /\ Newest = (txBlock.idx + 1) - 1
    BY <1>6, <2>1
  <2>6. /\ Newest <= rxBlocks + dups
        /\ Acked' = Newest => AcksNumbered'
    BY <2>2, <2>4, Zenon
  <2> QED BY <1>3, <1>8, <2>5, <2>6
<1> QED BY <1>1, <1>7, <1>8

\* The next block that could be read, in a packet of its own
LEMMA BlockContent ==
  ASSUME TypeOK, BatchFits, Flow, TxGo \/ TxAcked, UNCHANGED rxVars,
         NEW k \in Nat \ {0}, Newest = k - 1,
         txBlock' = [idx |-> k, load |-> <<txFile, k>>], txPhase' = "data",
         toRx' = Send(toRx, Packet(k, <<txFile, k>>)), UNCHANGED txFile
  PROVE  Flow'
<1> USE DEF rxVars
<1>1. /\ Newest <= rxBlocks + dups
      /\ Acked' = Newest => AcksNumbered'
      /\ rxPhase = "data" /\ Current = txFile
  BY LastAcked
<1>2. Newest \in Nat /\ rxBlocks \in Nat
  BY <1>1, FlowTypes
<1>3. Newest' = k /\ Acked' = k - 1 /\ Current' = Current
  BY DEF Newest, Acked, Current
<1>4. Acked' = Newest
  BY <1>3
<1>5. rxBlocks <= Newest /\ TruePackets /\ PacketsInOrder
      /\ Len(rxFiles[Current].data) = rxBlocks
  BY DEF Flow
<1>6. Newest <= k /\ rxBlocks <= k
  BY <1>2, <1>5
<1>7. toRx' = Send(toRx, Packet(k, <<Current, k>>))
  BY <1>1
<1>8. TruePackets' /\ PacketsInOrder'
  BY <1>1, <1>3, <1>5, <1>6, <1>7, PacketAdded
<1>9. rxBlocks' <= Newest' /\ Acked' <= rxBlocks' + dups'
  <2>1. rxBlocks <= Newest'
    BY <1>3, <1>6
  <2>2. Acked' <= rxBlocks + dups
    BY <1>1, <1>4
  <2> QED BY <2>1, <2>2
<1>10. txBlock'.load = <<txFile', txBlock'.idx>> /\ AcksNumbered'
  BY <1>1, <1>4
<1>11. Len(rxFiles'[Current'].data) = rxBlocks'
  BY <1>3, <1>5
<1> QED BY <1>8, <1>9, <1>10, <1>11 DEF Flow

\* EOT, when the receiver has answered the last block
LEMMA EotContent ==
  ASSUME TypeOK, BatchFits, Flow, TxGo \/ TxAcked, UNCHANGED rxVars,
         NEW k \in Nat \ {0}, Newest = k - 1, k > Files[txFile],
         txPhase' = "eot", toRx' = Send(toRx, RxByte("eot")), UNCHANGED txFile
  PROVE  Flow'
<1> USE DEF rxVars
<1>1. /\ Newest <= rxBlocks + dups
      /\ rxPhase = "data" /\ Current = txFile
  BY LastAcked
<1>2. /\ Newest \in Nat /\ Newest <= Files[Current] /\ Files[Current] \in Nat
  BY <1>1, FlowTypes
<1>3. Current' = Current
  BY DEF Current
<1>4. Newest' = Files[Current] /\ Acked' = Files[Current]
  BY <1>3 DEF Newest, Acked
<1>5. Files[Current] = Newest
  BY <1>1, <1>2
<1>6. toRx \in Seq(RxItem)
  BY Shapes
<1>7. RxByte("eot") \in RxItem /\ RxByte("eot").type = "eot"
  BY RxBytes
<1>8. toRx' \in Seq(RxItem) /\ SamePackets(toRx', toRx)
  <2>1. /\ toRx' \in Seq(RxItem)
        /\ \A i \in 1 .. Len(toRx') : toRx'[i].type = "blk" =>
              i + 0 \in 1 .. Len(toRx) /\ toRx'[i] = toRx[i + 0]
    BY <1>6, <1>7, RxSent
  <2> QED BY <2>1, Zenon DEF SamePackets
<1>9. rxBlocks <= Newest /\ TruePackets /\ PacketsInOrder
      /\ Len(rxFiles[Current].data) = rxBlocks
  BY DEF Flow
<1>10. Newest' \in Nat /\ Newest <= Newest'
  BY <1>2, <1>4, <1>5
<1>11. TruePackets' /\ PacketsInOrder'
  BY <1>1, <1>3, <1>8, <1>9, <1>10, PacketsStay
<1>12. rxBlocks' <= Newest' /\ Acked' <= rxBlocks' + dups'
  BY <1>1, <1>4, <1>5, <1>9
<1>13. Len(rxFiles'[Current'].data) = rxBlocks'
  BY <1>3, <1>9
<1> QED BY <1>11, <1>12, <1>13 DEF Flow

LEMMA TxGoesOnContent ==
  ASSUME TypeOK, TypeOK', BatchFits, ContentInv, TxGo \/ TxAcked, UNCHANGED rxVars,
         spoilt' = IF NotRead THEN spoilt \cup {txFile} ELSE spoilt
  PROVE  ContentInv'
<1> USE DEF rxVars
<1>1. spoilt \subseteq spoilt' /\ dups \in Nat
  BY DEF TypeOK, RxTypeOK
<1>2. FilesIntact'
  BY <1>1, NothingStored DEF ContentInv, SameData
<1>3. ASSUME Few', InFile' PROVE Flow'
  <2>1. Few /\ InFile /\ Current' = Current /\ Current \notin spoilt'
    BY <1>1, <1>3 DEF Few, InFile, Current
  <2>2. Flow
    BY <2>1 DEF ContentInv
  <2>3. PICK k \in Nat \ {0} : SendFrom(k) /\ Newest = k - 1
    BY <2>2, LastAcked
  <2>4. Current = txFile
    BY <2>2, LastAcked
  <2>5. UNCHANGED txFile
    BY <2>3 DEF SendFrom
  <2>6. CASE SendBlock(k)
    <3>1. PICK load \in ReadOutcomes(<<txFile, k>>) :
             /\ txBlock' = [idx |-> k, load |-> load]
             /\ TxGoTo("data", Send(toRx, Packet(k, load)))
      BY <2>6 DEF SendBlock
    <3>2. load # Padding
      <4>1. ASSUME load = Padding PROVE NotRead
        BY <2>3, <3>1, <4>1 DEF NotRead
      <4> QED BY <2>1, <2>4, <4>1
    <3>3. load = <<txFile, k>>
      BY <3>1, <3>2 DEF ReadOutcomes
    <3> QED BY <2>2, <2>3, <2>5, <3>1, <3>3, BlockContent DEF TxGoTo
  <2>7. CASE k > Files[txFile] /\ TxGoTo("eot", Send(toRx, RxByte("eot")))
    BY <2>2, <2>3, <2>5, <2>7, EotContent DEF TxGoTo
  <2> QED BY <2>3, <2>6, <2>7 DEF SendFrom
<1> QED BY <1>2, <1>3 DEF ContentInv

LEMMA TxResendContent ==
  ASSUME TypeOK, TypeOK', BatchFits, ContentInv, NEW silent, TxResend(silent),
         UNCHANGED rxVars, spoilt \subseteq spoilt'
  PROVE  ContentInv'
<1> USE DEF rxVars
<1>1. CASE UNCHANGED toRx
  BY <1>1, TxQuietContent
<1>2. CASE ~ UNCHANGED toRx
  <2>1. /\ txPhase = "data" /\ UNCHANGED <<txPhase, txFile, txBlock>>
        /\ (UNCHANGED toTx \/ (toTx # <<>> /\ toTx' = Tail(toTx)))
        /\ toRx' = Send(toRx, Packet(txBlock.idx, txBlock.load))
    BY <1>2 DEF TxResend, TxReadsOther, TxReads, TxAt, TxReturn
  <2>2. dups \in Nat /\ toTx \in Seq(TxItem)
    BY Shapes DEF TypeOK, RxTypeOK
  <2>3. FilesIntact'
    BY <2>2, NothingStored DEF ContentInv, SameData
  <2>4. ASSUME Few', InFile' PROVE Flow'
    <3>1. Few /\ InFile /\ Current' = Current
      BY <2>4 DEF Few, InFile, Current
    <3>2. Flow
      BY <3>1 DEF ContentInv
    <3>3. rxPhase = "data" /\ Current = txFile
      BY <2>1 DEF BatchFits, Course, Between, Closing, AtEnd, Offered, Taken, Going,
                  Sending
    <3>4. /\ Newest \in Nat /\ Acked \in Nat /\ rxBlocks \in Nat
          /\ rxBlocks' \in Nat /\ dups' \in Nat
      BY <2>2, <3>3, FlowTypes
    <3>5. Newest = txBlock.idx /\ Newest' = Newest /\ Acked' = Acked
      BY <2>1 DEF Newest, Acked
    <3>6. txBlock.load = <<Current, Newest>> /\ rxBlocks <= Newest /\ Newest <= Newest
      BY <2>1, <3>2, <3>3, <3>4, <3>5 DEF Flow
    <3>7. toRx' = Send(toRx, Packet(Newest, <<Current, Newest>>))
      BY <2>1, <3>5, <3>6
    <3>8. TruePackets' /\ PacketsInOrder'
      BY <3>1, <3>2, <3>3, <3>4, <3>5, <3>6, <3>7, PacketAdded DEF Flow
    <3>9. AcksNumbered'
      <4>1. KeptTx
        BY <2>1, <2>2, ReadTx
      <4>2. rxBlocks + dups <= rxBlocks' + dups'
        BY <2>2, <3>4
      <4> QED BY <2>1, <2>2, <3>2, <3>4, <3>5, <4>1, <4>2, AcksStay DEF Flow
    <3>10. txBlock'.load = <<txFile', txBlock'.idx>>
      BY <2>1, <3>2 DEF Flow
    <3> QED BY <3>1, <3>2, <3>5, <3>8, <3>9, <3>10 DEF Flow
  <2> QED BY <2>3, <2>4 DEF ContentInv
<1> QED BY <1>1, <1>2

-----------------------------------------------------------------------------
(* The theorem about the contents *)

LEMMA ContentInit == Init => ContentInv
BY DEF Init, RxInit, ContentInv, FilesIntact, InFile

LEMMA ContentStep ==
  ASSUME TypeOK, TypeOK', BatchFits, BatchFits', ContentInv, [Next]_vars
  PROVE  ContentInv'
<1>1. CASE Rx
  <2>1. PICK silent : RxStep(silent)
    BY <1>1 DEF Rx
  <2>2. /\ UNCHANGED txVars /\ spoilt \subseteq spoilt'
        /\ spoilt' = IF NotStored THEN spoilt \cup {Len(rxFiles)} ELSE spoilt
    BY <1>1 DEF Rx
  <2> QED BY <2>1, <2>2, RxOutsideContent, RxInsideContent, FileStartContent,
             AcceptContent, DuplicateContent DEF RxStep
<1>2. CASE Tx
  <2>1. PICK silent : TxStep(silent)
    BY <1>2 DEF Tx
  <2>2. /\ UNCHANGED rxVars /\ spoilt \subseteq spoilt'
        /\ spoilt' = IF NotRead THEN spoilt \cup {txFile} ELSE spoilt
    BY <1>2 DEF Tx
  <2> QED BY <2>1, <2>2, TxQuietContent, TxStartContent, TxEotContent,
             TxGoesOnContent, TxResendContent DEF TxStep
<1>3. CASE Line
  <2>1. UNCHANGED <<rxVars, txVars>>
    BY <1>3 DEF Line
  <2>2. CASE YmodemLineNext /\ UNCHANGED spoilt
    BY <2>1, <2>2, LineContent
  <2>3. CASE RenumberToRx /\ spoilt' = 1 .. NFiles
    BY <2>1, <2>3, RenumberContent
  <2> QED BY <1>3, <2>2, <2>3 DEF Line
<1>4. CASE UNCHANGED vars
  BY <1>4, LineContent DEF vars
<1> QED BY <1>1, <1>2, <1>3, <1>4 DEF Next, Returned

\* Every file the receiver has started holds its own blocks, in order and
\* without gaps, up to BlockMod - 2 duplicate ACKs, unless a callback failed for
\* one of its blocks or a number was damaged: for every number of files and
\* blocks, though block numbers wrap and start anew with each file.
THEOREM ContentsIntact == Spec => []FilesIntact
<1>1. Init => BatchInv /\ ContentInv
  BY BatchInit, ContentInit
<1>2. (BatchInv /\ ContentInv) /\ [Next]_vars => (BatchInv /\ ContentInv)'
  <2> SUFFICES ASSUME BatchInv, ContentInv, [Next]_vars PROVE BatchInv' /\ ContentInv'
    OBVIOUS
  <2>1. BatchInv'
    BY BatchStep
  <2> QED BY <2>1, ContentStep DEF BatchInv
<1>3. ContentInv => FilesIntact
  BY DEF ContentInv
<1> QED BY <1>1, <1>2, <1>3, PTL DEF Spec

-----------------------------------------------------------------------------
(***************************************************************************)
(* Timeouts that exceed every delay.  As long as nobody presses the abort  *)
(* key, one packet or its answer is in flight at a time, so a file that    *)
(* ends with YMODEM_OK was received in full.                               *)
(***************************************************************************)

\* A packet or an answer is in flight; the answer to a block 0 or to the end
\* of a file is an ACK and a 'C'.
OneUnit ==
    ~ rxDone =>
       /\ Len(toRx) <= 1
       /\ rxPhase = "eot" => NoRx({"blk", "bad"})
       /\ ~ txDone =>
            /\ toRx = <<>> \/ toTx = <<>>
            /\ Len(toTx) <= 2
            /\ Len(toTx) = 2 => /\ toTx[1].type \in {"ack", "junk"}
                                /\ txPhase \notin {"go", "data"}

\* The current file is open and holds the blocks accepted of it.
Stocked ==
    /\ Len(rxFiles[Current].data) = rxBlocks
    /\ \A i \in 1 .. rxBlocks : rxFiles[Current].data[i] = <<Current, i>>
    /\ rxFiles[Current].end # "OK"

OnlyThisBlock ==
    \A i \in 1 .. Len(toRx) : toRx[i].type = "blk" =>
       toRx[i].load = txBlock.load /\ toRx[i].num = BlockNum(txBlock.idx)

\* The receiver has the blocks before the one being sent, or that one too,
\* and an ACK it can still read tells the transmitter so.
OnBlock ==
    /\ rxBlocks \in {txBlock.idx - 1, txBlock.idx}
    /\ txBlock.load = <<Current, txBlock.idx>>
    /\ OnlyThisBlock
    /\ txDone \/ NoTx({"ack"}) \/ rxBlocks = txBlock.idx

\* What is left to do inside a file
InPlace ==
    /\ txPhase \in {"block0", "go"} => rxBlocks = 0
    /\ txPhase = "data" => OnBlock
    /\ txPhase \in {"start", "eot", "eot2"} =>
          rxBlocks = Files[Current] /\ NoRx({"blk"})

Exact == ~ rxDone /\ InFile => Stocked /\ InPlace

\* As long as nobody presses the abort key
TimelyInv == aborts = 0 => OneUnit /\ Exact /\ OkFileComplete

\* The receiver is never behind the last file.
LEMMA CurrentBound ==
  ASSUME TypeOK, BatchFits
  PROVE  Current \in 0 .. NFiles
<1>1. txFile \in 1 .. NFiles + 1 /\ NFiles \in Nat /\ Current \in Nat
  BY Shapes
<1>2. CASE AtEnd
  BY <1>1, <1>2 DEF AtEnd, Closed, BatchFits, TxFits
<1>3. CASE Offered
  BY <1>1, <1>3 DEF Offered
<1>4. CASE Taken \/ Going \/ Sending
  BY <1>1, <1>4, InsideFile DEF Taken, Going, Sending
<1> QED BY <1>2, <1>3, <1>4 DEF BatchFits, Course, Between, Closing

\* One item or none sent on an idle line, and two
LEMMA SentOnIdle ==
  ASSUME NEW S, NEW a \in S, NEW b \in S
  PROVE  /\ Send(<<>>, a) = <<a>>
         /\ Len(Send(Send(<<>>, a), b)) \in 1 .. 2
         /\ Send(Send(<<>>, a), b)[1] = a
<1>1. Send(<<>>, a) = <<a>>
  <2>1. Len(<<>>) < LineCap /\ Append(<<>>, a) = <<a>>
    BY SerialLineAssumption
  <2> QED BY <2>1 DEF Send
<1> DEFINE q == <<a>>
           s == Send(q, b)
<1>2. q \in Seq(S) /\ Len(q) = 1 /\ q[1] = a
  OBVIOUS
<1> HIDE DEF q
<1>3. /\ Len(s) \in Len(q) .. Len(q) + 1
      /\ \A i \in 1 .. Len(s) : s[i] = IF i <= Len(q) THEN q[i] ELSE b
  BY <1>2, Sent, Zenon
<1> HIDE DEF s
<1>4. Len(s) \in 1 .. 2 /\ s[1] = a
  BY <1>2, <1>3
<1>5. Send(Send(<<>>, a), b) = s
  BY <1>1 DEF s, q
<1> QED BY <1>1, <1>4, <1>5

\* The tail of a queue of one, or what a purge leaves of it, is empty.
LEMMA NothingBehind ==
  ASSUME NEW S, NEW q \in Seq(S), q # <<>>, Len(q) <= 1
  PROVE  /\ Tail(q) = <<>>
         /\ \A r \in Purged(Tail(q)) : r = <<>>
<1>1. Tail(q) = <<>>
  OBVIOUS
<1>2. ASSUME NEW r \in Purged(<<>>)
      PROVE  r = <<>>
  <2>1. PICK k \in 0 .. Len(<<>>) : r = SubSeq(<<>>, k + 1, Len(<<>>))
    BY DEF Purged
  <2>2. k = 0
    BY <2>1
  <2> QED BY <2>1, <2>2
<1> QED BY <1>1, <1>2

\* The receiver takes what is in flight; it answers on an idle line.
LEMMA RxDrains ==
  ASSUME Timely, TypeOK, OneUnit, RxStep(txDone)
  PROVE  /\ ~ rxDone
         /\ toRx' = <<>>
         /\ ~ txDone => toTx = <<>>
<1>1. toRx \in Seq(RxItem) /\ toTx \in Seq(TxItem)
  BY Shapes
<1>2. ~ rxDone
  BY DEF RxStep, HeaderTimeout, HeaderRefuse, HeaderCancel, BatchEnd, FileStart,
         DataTimeout, DataCancel, DataRefuse, DataAccept, DataDuplicate,
         DataSequence, DataEot, SecondEot, RxQuiet, RxReads, RxAt, rxDone
<1>3. CASE toRx # <<>> /\ (toRx' = Tail(toRx) \/ toRx' \in Purged(Tail(toRx)))
  <2>1. Len(toRx) <= 1
    BY <1>2 DEF OneUnit
  <2>2. toRx' = <<>>
    BY <1>1, <1>3, <2>1, NothingBehind
  <2> QED BY <1>2, <1>3, <2>2 DEF OneUnit
<1>4. CASE toRx' = toRx /\ MayTimeOut(toRx, toTx, txDone)
  BY <1>2, <1>4 DEF MayTimeOut
<1>5. CASE rxPhase = "eot" /\ toRx # <<>> /\ toRx' = WithoutFirstByte(toRx)
  <2>1. 1 \in 1 .. Len(toRx) /\ Head(toRx) = toRx[1]
    BY <1>1, <1>5, HeadFirst
  <2>2. Head(toRx).type \notin {"blk", "bad"}
    BY <1>2, <1>5, <2>1 DEF OneUnit, NoRx
  <2>3. toRx' = Tail(toRx)
    BY <1>5, <2>2 DEF WithoutFirstByte
  <2> QED BY <1>3, <1>5, <2>3
<1> QED BY <1>3, <1>4, <1>5
        DEF RxStep, HeaderTimeout, HeaderRefuse, HeaderCancel, BatchEnd,
            FileStart, DataTimeout, DataCancel, DataRefuse, DataAccept,
            DataDuplicate, DataSequence, DataEot, SecondEot, RxQuiet, RxReads,
            RxAt

\* After a step of the receiver its answer is the one unit in flight.
LEMMA RxOneUnit ==
  ASSUME Timely, TypeOK, BatchFits, OneUnit, RxStep(txDone), UNCHANGED txVars
  PROVE  OneUnit'
<1>1. /\ ~ rxDone /\ toRx' = <<>> /\ (~ txDone => toTx = <<>>)
      /\ UNCHANGED <<txPhase, txStatus>>
  BY RxDrains DEF txVars
<1>2. toRx \in Seq(RxItem) /\ toTx \in Seq(TxItem)
  BY Shapes
<1>3. \A ty \in TxItemTypes : TxByte(ty) \in TxItem /\ TxByte(ty).type = ty
  BY TxBytes
<1>4. /\ Len(toRx') <= 1
      /\ NoRx({"blk", "bad"})'
  BY <1>1 DEF NoRx
<1>5. SUFFICES ASSUME ~ rxDone', ~ txDone
               PROVE  /\ Len(toTx') <= 2
                      /\ Len(toTx') = 2 => /\ toTx'[1].type \in {"ack", "junk"}
                                           /\ txPhase \notin {"go", "data"}
  BY <1>1, <1>4 DEF OneUnit, txDone
<1>6. toTx = <<>>
  BY <1>1, <1>5
<1>7. CASE \E ty \in {"c", "nak", "ack"} : toTx' = Send(toTx, TxByte(ty))
  <2>1. PICK ty \in {"c", "nak", "ack"} : toTx' = Send(toTx, TxByte(ty))
    BY <1>7
  <2>2. TxByte(ty) \in TxItem
    BY <1>3 DEF TxItemTypes
  <2>3. toTx' = <<TxByte(ty)>>
    BY <1>6, <2>1, <2>2, SentOnIdle
  <2> QED BY <2>3
<1>8. CASE /\ FileStart \/ SecondEot(txDone)
           /\ toTx' = Send(Send(toTx, TxByte("ack")), TxByte("c"))
  <2>1. /\ TxByte("ack") \in TxItem /\ TxByte("ack").type = "ack"
        /\ TxByte("c") \in TxItem
    BY <1>3 DEF TxItemTypes
  <2>2. Len(toTx') \in 1 .. 2 /\ toTx'[1] = TxByte("ack")
    BY <1>6, <1>8, <2>1, SentOnIdle
  <2>3. txPhase \notin {"go", "data"}
    <3>1. CASE FileStart
      <4>1. Offered
        BY <3>1, Block0Read DEF FileStart
      <4> QED BY <4>1 DEF Offered
    <3>2. CASE SecondEot(txDone)
      <4>1. rxPhase = "eot"
        BY <3>2 DEF SecondEot, RxQuiet, RxAt
      <4>2. Closing
        BY <4>1 DEF BatchFits, Course, Between, Offered, Taken, Going, Sending
      <4> QED BY <4>2 DEF Closing, AtEnd
    <3> QED BY <1>8, <3>1, <3>2
  <2>4. Len(toTx') <= 2
    <3> DEFINE n == Len(toTx')
    <3>1. n \in 1 .. 2
      BY <2>2
    <3> HIDE DEF n
    <3>2. n <= 2
      BY <3>1
    <3> QED BY <3>2 DEF n
  <2>5. toTx'[1].type \in {"ack", "junk"}
    BY <2>1, <2>2
  <2> QED BY <2>3, <2>4, <2>5
<1> QED BY <1>5, <1>7, <1>8
        DEF rxDone, RxStep, HeaderTimeout, HeaderRefuse, HeaderRetry,
            HeaderCancel, BatchEnd, FileStart, DataTimeout, DataCancel,
            DataRefuse, DataAccept, DataDuplicate, DataSequence, DataEot,
            SecondEot, RxReturn

\* Files that have not changed, or not to be called complete, and whether
\* they are judged
LEMMA OkStays ==
  ASSUME rxFiles \in Seq(FileRecord), rxFiles' \in Seq(FileRecord),
         OkFileComplete, spoilt \subseteq spoilt',
         \A i \in 1 .. Len(rxFiles') :
            \/ i \in 1 .. Len(rxFiles) /\ rxFiles'[i] = rxFiles[i]
            \/ rxFiles'[i].end # "OK"
            \/ i \in spoilt'
            \/ Complete(rxFiles'[i])
  PROVE  OkFileComplete'
<1> SUFFICES ASSUME NEW i \in DOMAIN rxFiles', rxFiles'[i].end = "OK", i \notin spoilt'
             PROVE  Complete(rxFiles'[i])
  BY Zenon DEF OkFileComplete
<1>1. i \in 1 .. Len(rxFiles') /\ DOMAIN rxFiles = 1 .. Len(rxFiles)
  OBVIOUS
<1>2. i \notin spoilt
  OBVIOUS
<1>3. CASE i \in 1 .. Len(rxFiles) /\ rxFiles'[i] = rxFiles[i]
  BY <1>1, <1>2, <1>3, Zenon DEF OkFileComplete
<1> QED BY <1>1, <1>3, Zenon

\* A file that the receiver ends is complete when it holds all its blocks.
LEMMA AllHere ==
  ASSUME TypeOK, BatchFits, Exact, SecondEot(txDone), Current \notin spoilt
  PROVE  Complete(rxFiles'[Current])
<1>1. /\ rxPhase = "eot" /\ rxStatus = "RUN" /\ FileEnd("OK")
  BY DEF SecondEot, RxQuiet, RxAt
<1>2. rxFiles \in Seq(FileRecord) /\ Current \in 1 .. NFiles /\ rxFiles # <<>>
  BY <1>1, Shapes, InsideFile
<1>3. /\ rxFiles'[Current].name = rxFiles[Current].name
      /\ rxFiles'[Current].data = rxFiles[Current].data
  BY <1>1, <1>2, FileEnded
<1>4. rxFiles[Current].name = Current
  BY <1>2 DEF BatchFits, FilesFollow, Current
<1>5. Stocked /\ InPlace
  BY <1>1 DEF Exact, InFile, rxDone
<1>6. rxBlocks = Files[Current]
  BY <1>1, <1>5 DEF InPlace, BatchFits, Course, Between, Closing, Offered, Taken,
                    Going, Sending, AtEnd
<1> DEFINE r == rxFiles'[Current]
<1>7. /\ r.name = Current /\ Len(r.data) = Files[Current]
      /\ \A i \in 1 .. Files[Current] : r.data[i] = <<Current, i>>
  BY <1>3, <1>4, <1>5, <1>6 DEF Stocked
<1>8. Files[Current] \in Nat
  BY <1>2, BatchAssumption DEF NFiles
<1> HIDE DEF r
<1>9. Complete(r)
  BY <1>2, <1>7, <1>8 DEF Complete, Intact
<1> QED BY <1>9 DEF r

\* Two blocks one apart show different numbers.
LEMMA NextNumber ==
  ASSUME NEW k \in Nat
  PROVE  BlockNum(k) # BlockNum(k + 1)
<1>1. BlockMod \in Nat \ {0} /\ k \in Int /\ k + 1 \in Int
  BY YmodemAssumption
<1>2. k <= k + 1 /\ k + 1 < k + BlockMod /\ k # k + 1
  BY YmodemAssumption
<1> QED BY <1>1, <1>2, ModGap DEF BlockNum

\* The packet read is the block being sent.
LEMMA OnBlockRead ==
  ASSUME TypeOK, BatchFits, Exact, RxReads("data", {"blk"}), Current \notin spoilt
  PROVE  /\ Stocked /\ OnBlock /\ txPhase = "data"
         /\ Head(toRx).load = txBlock.load
         /\ Head(toRx).num = BlockNum(txBlock.idx)
         /\ rxBlocks \in Nat /\ txBlock.idx \in Nat \ {0}
<1>1. /\ rxPhase = "data" /\ rxStatus = "RUN" /\ (Closing \/ Sending)
      /\ Head(toRx) = toRx[1] /\ 1 \in 1 .. Len(toRx)
      /\ Head(toRx).type = "blk"
  BY PacketRead
<1>2. Stocked /\ InPlace
  BY <1>1 DEF Exact, InFile, rxDone
<1>3. txPhase = "data"
  <2>1. CASE Closing
    BY <1>1, <1>2, <2>1 DEF Closing, AtEnd, InPlace, NoRx
  <2>2. CASE Sending
    BY <2>2 DEF Sending
  <2> QED BY <1>1, <2>1, <2>2
<1>4. OnBlock
  BY <1>2, <1>3 DEF InPlace
<1>5. Head(toRx).load = txBlock.load /\ Head(toRx).num = BlockNum(txBlock.idx)
  BY <1>1, <1>4 DEF OnBlock, OnlyThisBlock
<1>6. txBlock.idx \in Nat /\ rxBlocks \in Nat
  BY DEF TypeOK, TxTypeOK, RxTypeOK
<1>7. txBlock.idx # 0
  BY <1>3, <1>6 DEF BatchFits, TxFits
<1> QED BY <1>2, <1>3, <1>4, <1>5, <1>6, <1>7

\* A packet is answered: the receiver has the block now.
LEMMA RxExactPacket ==
  ASSUME TypeOK, BatchFits, Exact, DataAccept \/ DataDuplicate,
         Current \notin spoilt', toRx' = <<>>, UNCHANGED txVars,
         spoilt' = IF NotStored THEN spoilt \cup {Len(rxFiles)} ELSE spoilt
  PROVE  (Stocked /\ InPlace)'
<1> USE DEF txVars
<1>1. RxReads("data", {"blk"})
  BY DEF DataAccept, DataDuplicate
<1>2. Current \notin spoilt
  OBVIOUS
<1>3. /\ Stocked /\ OnBlock /\ txPhase = "data"
      /\ Head(toRx).load = txBlock.load
      /\ Head(toRx).num = BlockNum(txBlock.idx)
      /\ rxBlocks \in Nat /\ txBlock.idx \in Nat \ {0}
  BY <1>1, <1>2, OnBlockRead
<1>4. /\ rxBlocks \in {txBlock.idx - 1, txBlock.idx}
      /\ txBlock.load = <<Current, txBlock.idx>>
  BY <1>3 DEF OnBlock
<1>5. OnlyThisBlock'
  BY DEF OnlyThisBlock
<1>6. CASE DataDuplicate
  <2>1. Head(toRx).num = BlockNum(rxBlocks) /\ UNCHANGED <<rxFiles, rxBlocks>>
    BY <1>6 DEF DataDuplicate
  <2>2. rxBlocks = txBlock.idx
    <3>1. CASE rxBlocks = txBlock.idx - 1
      <4>1. txBlock.idx = rxBlocks + 1
        BY <1>3, <3>1
      <4> QED BY <1>3, <2>1, <4>1, NextNumber
    <3> QED BY <1>4, <3>1
  <2>3. Stocked'
    BY <1>3, <2>1 DEF Stocked, Current
  <2>4. OnBlock'
    BY <1>3, <1>4, <1>5, <2>1, <2>2 DEF OnBlock, Current
  <2> QED BY <1>3, <2>3, <2>4 DEF InPlace
<1>7. CASE DataAccept
  <2>1. /\ Head(toRx).num = BlockNum(rxBlocks + 1) /\ rxBlocks' = rxBlocks + 1
        /\ rxFiles' \in Stored(rxFiles, Head(toRx).load)
    BY <1>7 DEF DataAccept
  <2>2. txBlock.idx = rxBlocks + 1
    <3>1. CASE rxBlocks = txBlock.idx
      BY <1>3, <2>1, <3>1, NextNumber
    <3> QED BY <1>3, <1>4, <3>1
  <2>3. /\ rxFiles \in Seq(FileRecord) /\ rxFiles # <<>>
        /\ Current \in Nat \ {0}
    <3>1. rxPhase = "data"
      BY <1>1, PacketRead
    <3> QED BY <3>1, InsideFile, Shapes
  <2>4. rxFiles' # rxFiles
    <3>1. rxFiles' = rxFiles => NotStored
      BY <1>3, <2>1 DEF NotStored
    <3> QED BY <3>1 DEF Current
  <2>5. txBlock.load \in Payload
    BY DEF TypeOK, TxTypeOK
  <2>6. /\ Len(rxFiles') = Current
        /\ rxFiles'[Current].end = rxFiles[Current].end
        /\ rxFiles'[Current].data = Append(rxFiles[Current].data, txBlock.load)
    BY <1>3, <2>1, <2>3, <2>4, <2>5, StoredFacts DEF Current
  <2>7. rxFiles[Current].data \in Seq(Payload)
    <3>1. rxFiles[Len(rxFiles)] \in FileRecord
      BY <2>3
    <3> QED BY <3>1 DEF FileRecord, Current
  <2> DEFINE d == rxFiles[Current].data
             e == rxFiles'[Current].data
  <2>8. /\ Len(d) = rxBlocks /\ d \in Seq(Payload)
        /\ \A i \in 1 .. rxBlocks : d[i] = <<Current, i>>
        /\ e = Append(d, <<Current, rxBlocks + 1>>)
    BY <1>3, <1>4, <2>2, <2>6, <2>7 DEF Stocked
  <2> HIDE DEF d, e
  <2>9. /\ Len(e) = rxBlocks + 1
        /\ \A i \in 1 .. rxBlocks + 1 : e[i] = <<Current, i>>
    BY <1>3, <2>8
  <2>10. Current' = Current
    BY <2>6 DEF Current
  <2>11. Stocked'
    BY <1>3, <2>1, <2>6, <2>9, <2>10 DEF Stocked, e
  <2>12. OnBlock'
    BY <1>3, <1>4, <1>5, <2>1, <2>2, <2>10 DEF OnBlock
  <2> QED BY <1>3, <2>11, <2>12 DEF InPlace
<1> QED BY <1>6, <1>7

\* The receiver keeps the file exact.
LEMMA RxExact ==
  ASSUME TypeOK, BatchFits, Exact, RxStep(txDone), toRx' = <<>>,
         ~ txDone => toTx = <<>>, UNCHANGED txVars,
         spoilt' = IF NotStored THEN spoilt \cup {Len(rxFiles)} ELSE spoilt
  PROVE  Exact'
<1> USE DEF txVars
<1> SUFFICES ASSUME ~ rxDone', rxPhase' \in {"data", "eot"}, Current' \notin spoilt'
             PROVE  (Stocked /\ InPlace)'
  BY DEF Exact, InFile
<1>1. txDone' = txDone
  BY DEF txDone
<1>2. CASE FileStart
  <2>1. /\ RxReads("header", {"blk"}) /\ rxBlocks' = 0 /\ toRx' = Tail(toRx)
        /\ rxFiles' \in Started(rxFiles, NameIn(Head(toRx).load))
    BY <1>2 DEF FileStart
  <2>2. Offered /\ NameIn(Head(toRx).load) = txFile
    BY <2>1, Block0Read
  <2>3. rxFiles \in Seq(FileRecord) /\ txFile \in Nat /\ Current \in Nat
    BY Shapes
  <2>4. /\ Len(rxFiles') = Len(rxFiles) + 1
        /\ rxFiles'[Len(rxFiles) + 1].data = <<>>
        /\ rxFiles'[Len(rxFiles) + 1].end = "none"
    BY <2>1, <2>2, <2>3, StartedFacts
  <2>5. Stocked'
    BY <2>1, <2>4 DEF Stocked, Current
  <2>6. InPlace'
    BY <2>1, <2>2 DEF InPlace, Offered
  <2> QED BY <2>5, <2>6
<1>3. CASE /\ rxPhase \in {"data", "eot"} /\ ~ rxDone
           /\ UNCHANGED <<rxFiles, rxBlocks>>
           /\ \/ UNCHANGED toTx
              \/ toTx' = Send(toTx, TxByte("nak"))
  <2>1. ~ NotStored
    BY <1>3 DEF NotStored, TypeOK, RxTypeOK
  <2>2. Stocked /\ InPlace
    BY <1>3, <2>1 DEF Exact, InFile, Current
  <2>3. Current' = Current
    BY <1>3 DEF Current
  <2>4. Stocked'
    BY <1>3, <2>2, <2>3 DEF Stocked
  <2>5. OnlyThisBlock' /\ NoRx({"blk"})'
    BY DEF OnlyThisBlock, NoRx
  <2>6. ~ txDone => NoTx({"ack"})'
    <3> SUFFICES ASSUME ~ txDone PROVE NoTx({"ack"})'
      OBVIOUS
    <3>1. TxByte("nak") \in TxItem /\ TxByte("nak").type = "nak"
      BY TxBytes DEF TxItemTypes
    <3>2. toTx' = <<>> \/ toTx' = <<TxByte("nak")>>
      BY <1>3, <3>1, SentOnIdle
    <3> QED BY <3>1, <3>2 DEF NoTx
  <2>7. OnBlock => OnBlock'
    BY <1>1, <1>3, <2>3, <2>5, <2>6 DEF OnBlock
  <2>8. InPlace'
    BY <1>3, <2>2, <2>3, <2>5, <2>7 DEF InPlace
  <2> QED BY <2>4, <2>8
<1>4. CASE DataAccept \/ DataDuplicate
  <2>1. rxPhase = "data" /\ UNCHANGED rxPhase
    BY <1>4 DEF DataAccept, DataDuplicate, RxReads, RxAt
  <2>2. Current' = Current
    <3>1. rxFiles' = rxFiles \/ rxFiles' \in Stored(rxFiles, Head(toRx).load)
      BY <1>4 DEF DataAccept, DataDuplicate
    <3>2. RxReads("data", {"blk"})
      BY <1>4 DEF DataAccept, DataDuplicate
    <3>3. Head(toRx).load \in Payload
      BY <3>2, PacketRead DEF RxItem
    <3>4. rxFiles \in Seq(FileRecord) /\ rxFiles # <<>>
      BY <2>1, InsideFile, Shapes
    <3> QED BY <3>1, <3>3, <3>4, StoredFacts DEF Current
  <2>3. Current \notin spoilt'
    BY <2>2
  <2> QED BY <1>4, <2>3, RxExactPacket
<1>5. \/ FileStart
      \/ /\ rxPhase \in {"data", "eot"} /\ ~ rxDone
         /\ UNCHANGED <<rxFiles, rxBlocks>>
         /\ \/ UNCHANGED toTx
            \/ toTx' = Send(toTx, TxByte("nak"))
      \/ DataAccept \/ DataDuplicate
  <2>1. CASE HeaderTimeout(txDone) \/ HeaderRefuse \/ HeaderCancel \/ BatchEnd
    <3>1. rxPhase' = "header"
      BY <2>1 DEF HeaderTimeout, HeaderRefuse, HeaderCancel, BatchEnd, HeaderRetry,
                  RxQuiet, RxReads, RxAt, RxReturn
    <3> QED BY <3>1
  <2>2. CASE SecondEot(txDone)
    BY <2>2 DEF SecondEot
  <2>3. CASE DataTimeout(txDone) \/ DataRefuse \/ DataEot
    <3>1. rxPhase = "data" /\ ~ rxDone
      BY <2>3 DEF DataTimeout, DataRefuse, DataEot, RxQuiet, RxReads, RxAt, rxDone
    <3>2. UNCHANGED <<rxFiles, rxBlocks>> /\ toTx' = Send(toTx, TxByte("nak"))
      BY <2>3 DEF DataTimeout, DataRefuse, DataEot, RxReturn, rxVars, rxDone
    <3> QED BY <3>1, <3>2
  <2>4. CASE DataCancel \/ DataSequence
    <3>1. rxDone'
      BY <2>4 DEF DataCancel, DataSequence, RxReturn, rxDone
    <3> QED BY <3>1
  <2> QED BY <2>1, <2>2, <2>3, <2>4 DEF RxStep
<1> QED BY <1>2, <1>3, <1>4, <1>5, Zenon

\* No step of the receiver calls a file well ended that is not complete.
LEMMA RxOk ==
  ASSUME TypeOK, BatchFits, Exact, OkFileComplete, RxStep(txDone),
         rxFiles' \in Seq(FileRecord),
         spoilt' = IF NotStored THEN spoilt \cup {Len(rxFiles)} ELSE spoilt
  PROVE  OkFileComplete'
<1> DEFINE Unjudged ==
             \A i \in 1 .. Len(rxFiles') :
                \/ i \in 1 .. Len(rxFiles) /\ rxFiles'[i] = rxFiles[i]
                \/ rxFiles'[i].end # "OK"
                \/ i \in spoilt'
                \/ Complete(rxFiles'[i])
<1>1. /\ rxFiles \in Seq(FileRecord) /\ spoilt \subseteq spoilt'
      /\ Current \in Nat /\ Current = Len(rxFiles)
  BY Shapes DEF Current
<1>2. ASSUME UNCHANGED rxFiles
      PROVE  Unjudged
  <2>1. Len(rxFiles') = Len(rxFiles)
    BY <1>2
  <2> QED BY <1>2, <2>1
<1>3. ASSUME FileStart
      PROVE  Unjudged
  <2>1. /\ RxReads("header", {"blk"}) /\ toRx' = Tail(toRx)
        /\ rxFiles' \in Started(rxFiles, NameIn(Head(toRx).load))
    BY <1>3 DEF FileStart
  <2>2. NameIn(Head(toRx).load) = txFile /\ txFile \in Nat
    BY <2>1, Block0Read, Shapes
  <2>3. /\ Len(rxFiles') = Len(rxFiles) + 1
        /\ \A i \in 1 .. Len(rxFiles) : rxFiles'[i] = rxFiles[i]
        /\ rxFiles'[Len(rxFiles) + 1].end = "none"
    BY <1>1, <2>1, <2>2, StartedFacts
  <2>4. \A i \in 1 .. Len(rxFiles') : i \in 1 .. Len(rxFiles) \/ i = Len(rxFiles) + 1
    BY <1>1, <2>3
  <2>5. ASSUME NEW i \in 1 .. Len(rxFiles')
        PROVE  \/ i \in 1 .. Len(rxFiles) /\ rxFiles'[i] = rxFiles[i]
               \/ rxFiles'[i].end # "OK"
    BY <2>3, <2>4
  <2> QED BY <2>5
<1>4. ASSUME rxPhase \in {"data", "eot"},
             NEW st \in {"OK", "TIMEOUT", "CANCEL", "SEQUENCE"}, FileEnd(st),
             st = "OK" => SecondEot(txDone) /\ UNCHANGED rxBlocks
      PROVE  Unjudged
  <2>1. rxFiles # <<>>
    BY <1>4, InsideFile
  <2>2. /\ SameFiles /\ rxFiles'[Current].end = st
        /\ \A i \in 1 .. Current - 1 : rxFiles'[i] = rxFiles[i]
    BY <1>1, <1>4, <2>1, FileEnded
  <2>3. Len(rxFiles') = Current
    BY <1>1, <2>2 DEF SameFiles
  <2>4. st = "OK" => Current \in spoilt' \/ Complete(rxFiles'[Current])
    BY <1>1, <1>4, AllHere
  <2>5. \A i \in 1 .. Len(rxFiles') :
           i = Current \/ (i \in 1 .. Current - 1 /\ i \in 1 .. Len(rxFiles))
    BY <1>1, <2>3
  <2>6. ASSUME NEW i \in 1 .. Len(rxFiles')
        PROVE  \/ i \in 1 .. Len(rxFiles) /\ rxFiles'[i] = rxFiles[i]
               \/ rxFiles'[i].end # "OK"
               \/ i \in spoilt'
               \/ Complete(rxFiles'[i])
    <3>1. CASE i = Current
      BY <2>2, <2>4, <3>1, Zenon
    <3> QED BY <2>2, <2>5, <3>1, Zenon
  <2> QED BY <2>6
<1>5. ASSUME DataAccept
      PROVE  Unjudged
  <2>1. RxReads("data", {"blk"}) /\ rxFiles' \in Stored(rxFiles, Head(toRx).load)
    BY <1>5 DEF DataAccept
  <2>2. rxPhase = "data" /\ ~ rxDone /\ Head(toRx).load \in Payload
    BY <2>1, PacketRead DEF RxItem, rxDone
  <2>3. rxFiles # <<>>
    BY <2>2, InsideFile
  <2>4. CASE rxFiles' # rxFiles
    <3>1. /\ Len(rxFiles') = Current
          /\ \A i \in 1 .. Current - 1 : rxFiles'[i] = rxFiles[i]
          /\ rxFiles'[Current].end = rxFiles[Current].end
      BY <1>1, <2>1, <2>2, <2>3, <2>4, StoredFacts
    <3>2. Current \in spoilt' \/ rxFiles'[Current].end # "OK"
      BY <1>1, <2>2, <3>1 DEF Exact, InFile, Stocked
    <3>3. \A i \in 1 .. Len(rxFiles') :
             i = Current \/ (i \in 1 .. Current - 1 /\ i \in 1 .. Len(rxFiles))
      BY <1>1, <3>1
    <3>4. ASSUME NEW i \in 1 .. Len(rxFiles')
          PROVE  \/ i \in 1 .. Len(rxFiles) /\ rxFiles'[i] = rxFiles[i]
                 \/ rxFiles'[i].end # "OK"
                 \/ i \in spoilt'
      <4>1. CASE i = Current
        BY <3>2, <4>1, Zenon
      <4> QED BY <3>1, <3>3, <4>1, Zenon
    <3> QED BY <3>4
  <2> QED BY <1>2, <2>4
<1>6. Unjudged
  <2>1. CASE DataTimeout(txDone)
    <3>1. CASE FileEnd("TIMEOUT")
      BY <1>4, <2>1, <3>1 DEF DataTimeout, RxQuiet, RxAt
    <3> QED BY <1>2, <2>1, <3>1 DEF DataTimeout
  <2>2. CASE DataCancel
    BY <1>4, <2>2 DEF DataCancel, RxReads, RxAt
  <2>3. CASE DataSequence
    BY <1>4, <2>3 DEF DataSequence, RxReads, RxAt
  <2>4. CASE SecondEot(txDone)
    BY <1>4, <2>4 DEF SecondEot, RxQuiet, RxAt
  <2>5. CASE \/ HeaderTimeout(txDone) \/ HeaderRefuse \/ HeaderCancel
             \/ BatchEnd \/ DataRefuse \/ DataDuplicate \/ DataEot
    BY <1>2, <2>5 DEF HeaderTimeout, HeaderRefuse, HeaderRetry, HeaderCancel,
                      BatchEnd, DataRefuse, DataDuplicate, DataEot, rxVars
  <2> QED BY <1>3, <1>5, <2>1, <2>2, <2>3, <2>4, <2>5 DEF RxStep
<1> QED BY <1>1, <1>6, OkStays

LEMMA AtMostTwo ==
  ASSUME NEW S, NEW q \in Seq(S), Len(q) <= 2
  PROVE  /\ Len(q) # 2 => Len(q) <= 1
         /\ q # <<>> => Len(Tail(q)) <= 1
<1> DEFINE n == Len(q)
<1>1. n \in Nat /\ n <= 2 /\ (q # <<>> => Len(Tail(q)) = n - 1)
  OBVIOUS
<1> HIDE DEF n
<1>2. (n # 2 => n <= 1) /\ n - 1 <= 1
  BY <1>1
<1> QED BY <1>1, <1>2 DEF n

\* What the transmitter sends on the drained line
Sends(b) == toRx' = Send(toRx, b) /\ toRx = <<>> /\ toTx' = <<>>

\* The transmitter goes on only when nothing else is in flight.
LEMMA TxIdle ==
  ASSUME Timely, TypeOK, OneUnit, TxStep(rxDone), ~ rxDone,
         \/ txPhase \in {"go", "data"}
         \/ toTx # <<>> /\ Head(toTx).type \in {"c", "nak"}
  PROVE  toRx = <<>> /\ toTx' = <<>>
<1>1. toTx \in Seq(TxItem)
  BY Shapes
<1>2. ~ txDone
  BY DEF TxStep, TxStart, TxStartRetry, TxCancelled, TxBlock0Acked, TxNoStart, TxGo,
         TxAcked, TxResend, TxEotNaked, TxFileSent, TxReadsOther, TxReads, TxAt, txDone
<1>3. \/ toTx' = toTx /\ toTx = <<>> /\ toRx = <<>>
      \/ toTx # <<>> /\ toTx' = Tail(toTx)
  BY DEF TxStep, TxStart, TxStartRetry, TxCancelled, TxBlock0Acked, TxNoStart, TxGo,
         TxAcked, TxResend, TxEotNaked, TxFileSent, TxReadsOther, TxReads, MayTimeOut
<1>4. /\ toRx = <<>> \/ toTx = <<>>
      /\ Len(toTx) <= 2
      /\ Len(toTx) = 2 => /\ toTx[1].type \in {"ack", "junk"}
                          /\ txPhase \notin {"go", "data"}
  BY <1>2 DEF OneUnit
<1>5. CASE toTx' = toTx /\ toTx = <<>> /\ toRx = <<>>
  BY <1>5
<1>6. CASE toTx # <<>> /\ toTx' = Tail(toTx)
  <2>1. toRx = <<>> /\ Head(toTx) = toTx[1]
    BY <1>1, <1>4, <1>6, HeadFirst
  <2>2. Len(toTx) # 2
    BY <1>4, <2>1
  <2>3. Len(toTx) <= 1
    BY <1>1, <1>4, <2>2, AtMostTwo
  <2>4. Tail(toTx) = <<>>
    BY <1>1, <1>6, <2>3, NothingBehind
  <2> QED BY <1>6, <2>1, <2>4
<1> QED BY <1>3, <1>5, <1>6

\* The transmitter takes what is in flight; it sends on an idle line.
LEMMA TxDrains ==
  ASSUME Timely, TypeOK, BatchFits, OneUnit, TxStep(rxDone), ~ rxDone
  PROVE  /\ ~ txDone
         /\ (toTx' = toTx /\ toTx = <<>>) \/ (toTx # <<>> /\ toTx' = Tail(toTx))
         /\ \/ UNCHANGED toRx
            \/ \E b \in RxItem : Sends(b) /\ (b.type \in {"blk", "bad"} => rxPhase # "eot")
<1>1. toRx \in Seq(RxItem) /\ toTx \in Seq(TxItem) /\ txFile \in Nat
  BY Shapes
<1>2. ~ txDone
  BY DEF TxStep, TxStart, TxStartRetry, TxCancelled, TxBlock0Acked, TxNoStart, TxGo,
         TxAcked, TxResend, TxEotNaked, TxFileSent, TxReadsOther, TxReads, TxAt, txDone
<1>3. \/ toTx' = toTx /\ toTx = <<>> /\ toRx = <<>>
      \/ toTx # <<>> /\ toTx' = Tail(toTx)
  BY DEF TxStep, TxStart, TxStartRetry, TxCancelled, TxBlock0Acked, TxNoStart, TxGo,
         TxAcked, TxResend, TxEotNaked, TxFileSent, TxReadsOther, TxReads, MayTimeOut
<1>5. ASSUME \/ txPhase \in {"go", "data"}
             \/ toTx # <<>> /\ Head(toTx).type \in {"c", "nak"}
      PROVE  toRx = <<>> /\ toTx' = <<>>
  BY <1>5, TxIdle
<1>6. CASE TxStart
  <2> DEFINE b == Packet(0, <<txFile, 0>>)
  <2>1. /\ toTx # <<>> /\ Head(toTx).type = "c" /\ toRx' = Send(toRx, b)
    BY <1>6 DEF TxStart, TxReads, TxGoTo
  <2>2. b \in RxItem
    <3>1. <<txFile, 0>> \in Payload /\ 0 \in Nat
      BY <1>1 DEF Payload
    <3> QED BY <3>1, Packets
  <2>3. rxPhase # "eot"
    <3>1. ~ NoTx({"c"})
      BY <1>1, <2>1, HeadFirst DEF NoTx
    <3> QED BY <3>1 DEF BatchFits, Course, Between, Closing, Offered, Taken, Going, Sending
  <2> HIDE DEF b
  <2>4. Sends(b)
    BY <1>5, <2>1 DEF Sends
  <2> QED BY <1>2, <1>3, <2>2, <2>3, <2>4
<1>7. CASE TxEotNaked
  <2>1. /\ toTx # <<>> /\ Head(toTx).type = "nak" /\ toRx' = Send(toRx, RxByte("eot"))
    BY <1>7 DEF TxEotNaked, TxReads, TxGoTo
  <2>2. RxByte("eot") \in RxItem /\ RxByte("eot").type = "eot"
    BY RxBytes
  <2>3. Sends(RxByte("eot"))
    BY <1>5, <2>1 DEF Sends
  <2> QED BY <1>2, <1>3, <2>2, <2>3
<1>8. CASE TxGo \/ TxAcked \/ TxResend(rxDone)
  <2>1. txPhase \in {"go", "data"}
    BY <1>8 DEF TxGo, TxAcked, TxResend, TxReadsOther, TxReads, TxAt
  <2>2. rxPhase = "data"
    BY <2>1 DEF BatchFits, Course, Between, Closing, AtEnd, Offered, Taken, Going, Sending
  <2>3. UNCHANGED toRx \/ \E b \in RxItem : toRx' = Send(toRx, b)
    <3>1. CASE TxGo \/ TxAcked
      <4>1. PICK k \in Nat \ {0} : SendFrom(k)
        BY <3>1, GoesOn
      <4>2. CASE SendBlock(k)
        <5>1. PICK load \in ReadOutcomes(<<txFile, k>>) :
                 toRx' = Send(toRx, Packet(k, load))
          BY <4>2 DEF SendBlock, TxGoTo
        <5>2. load \in Payload
          BY <1>1, <5>1 DEF ReadOutcomes, Payload, Padding
        <5> QED BY <4>1, <5>1, <5>2, Packets
      <4>3. CASE TxGoTo("eot", Send(toRx, RxByte("eot")))
        BY <4>3, RxBytes DEF TxGoTo
      <4> QED BY <4>1, <4>2, <4>3 DEF SendFrom
    <3>2. CASE TxResend(rxDone)
      <4>1. \/ UNCHANGED toRx
            \/ toRx' = Send(toRx, Packet(txBlock.idx, txBlock.load))
        BY <3>2 DEF TxResend, TxReturn
      <4>2. Packet(txBlock.idx, txBlock.load) \in RxItem
        <5>1. txBlock.idx \in Nat /\ txBlock.load \in Payload
          BY DEF TypeOK, TxTypeOK
        <5> QED BY <5>1, Packets
      <4> QED BY <4>1, <4>2
    <3> QED BY <1>8, <3>1, <3>2
  <2>4. toRx = <<>> /\ toTx' = <<>>
    BY <1>5, <2>1
  <2> QED BY <1>2, <1>3, <2>2, <2>3, <2>4 DEF Sends
<1>9. CASE \/ TxStartRetry(rxDone) \/ TxCancelled \/ TxBlock0Acked
           \/ TxNoStart(rxDone) \/ TxFileSent(rxDone)
  <2>1. UNCHANGED toRx
    BY <1>9 DEF TxStartRetry, TxCancelled, TxBlock0Acked, TxNoStart, TxFileSent,
                NextFile, TxGoTo, TxReturn
  <2> QED BY <1>2, <1>3, <2>1
<1> QED BY <1>6, <1>7, <1>8, <1>9 DEF TxStep

\* After a step of the transmitter what it sent is the one unit in flight.
LEMMA TxOneUnit ==
  ASSUME Timely, TypeOK, BatchFits, OneUnit, TxStep(rxDone), UNCHANGED rxVars
  PROVE  OneUnit'
<1> USE DEF rxVars
<1>1. SUFFICES ASSUME ~ rxDone PROVE OneUnit'
  BY DEF OneUnit, rxDone
<1>2. /\ ~ txDone
      /\ (toTx' = toTx /\ toTx = <<>>) \/ (toTx # <<>> /\ toTx' = Tail(toTx))
      /\ \/ UNCHANGED toRx
         \/ \E b \in RxItem : Sends(b) /\ (b.type \in {"blk", "bad"} => rxPhase # "eot")
  BY <1>1, TxDrains
<1>3. toTx \in Seq(TxItem) /\ toRx \in Seq(RxItem)
  BY Shapes
<1>4. Len(toTx') <= 2 /\ Len(toTx') # 2
  <2> DEFINE n == Len(toTx')
  <2>1. Len(toTx) <= 2
    BY <1>1, <1>2 DEF OneUnit
  <2>2. CASE toTx' = toTx /\ toTx = <<>>
    BY <2>2
  <2>3. CASE toTx # <<>> /\ toTx' = Tail(toTx)
    <3>1. n \in Nat /\ n <= 1
      BY <1>3, <2>1, <2>3, AtMostTwo
    <3> HIDE DEF n
    <3>2. n <= 2 /\ n # 2
      BY <3>1
    <3> QED BY <3>2 DEF n
  <2> QED BY <1>2, <2>2, <2>3
<1>5. CASE UNCHANGED toRx
  <2>1. toRx = <<>> \/ toTx' = <<>>
    BY <1>1, <1>2 DEF OneUnit
  <2> QED BY <1>1, <1>4, <1>5, <2>1 DEF OneUnit, NoRx
<1>6. ASSUME NEW b \in RxItem, Sends(b), b.type \in {"blk", "bad"} => rxPhase # "eot"
      PROVE  OneUnit'
  <2>1. toRx' = <<b>> /\ toTx' = <<>>
    BY <1>6, SentOnIdle DEF Sends
  <2>2. Len(toRx') = 1 /\ toRx'[1] = b
    BY <2>1
  <2>3. rxPhase = "eot" => NoRx({"blk", "bad"})'
    BY <1>6, <2>2 DEF NoRx
  <2> QED BY <1>4, <2>1, <2>2, <2>3 DEF OneUnit
<1> QED BY <1>2, <1>5, <1>6

\* The place within a file stays while the transmitter only reads, or returns.
LEMMA PlaceStays ==
  ASSUME InPlace, NoTx({"ack"}) => NoTx({"ack"})', txDone => txDone',
         OnlyThisBlock => OnlyThisBlock', NoRx({"blk"}) => NoRx({"blk"})',
         UNCHANGED <<txPhase, txBlock, rxBlocks, rxFiles>>
  PROVE  InPlace'
<1>1. Current' = Current
  BY DEF Current
<1>2. OnBlock => OnBlock'
  BY <1>1 DEF OnBlock
<1> QED BY <1>1, <1>2 DEF InPlace

\* The next block, or EOT, is sent when the receiver has all those before.
LEMMA GoesOnInPlace ==
  ASSUME TypeOK, BatchFits, TxGo \/ TxAcked, ~ txDone, Stocked /\ InPlace,
         toRx = <<>>, toTx' = <<>>, Current \notin spoilt',
         spoilt' = IF NotRead THEN spoilt \cup {txFile} ELSE spoilt,
         UNCHANGED rxVars
  PROVE  InPlace'
<1> USE DEF rxVars
<1>1. PICK k \in Nat \ {0} : /\ SendFrom(k)
                             /\ txPhase = "data" => k = txBlock.idx + 1
                             /\ txPhase = "go" => k = 1
  BY GoesOn
<1>2. Streams
  BY GoesOn
<1>3. /\ Current = txFile /\ txPhase \in {"go", "data"} /\ rxPhase = "data"
      /\ Current' = Current
  BY <1>2 DEF Streams, Going, Sending, Current
<1>4. Current \in 1 .. NFiles /\ toTx \in Seq(TxItem)
  BY <1>3, InsideFile, Shapes
<1>5. Files[Current] \in Nat
  BY <1>4, BatchAssumption DEF NFiles
<1>6. rxBlocks \in Nat /\ txBlock.idx \in Nat
  BY DEF TypeOK, RxTypeOK, TxTypeOK
<1>7. rxBlocks = k - 1 /\ rxBlocks <= Files[Current]
  <2>1. CASE txPhase = "go"
    <3>1. rxBlocks = 0 /\ k = 1
      BY <1>1, <2>1 DEF InPlace
    <3> QED BY <1>5, <3>1
  <2>2. CASE txPhase = "data"
    <3>1. toTx # <<>> /\ Head(toTx).type = "ack"
      BY <2>2 DEF TxGo, TxAcked, TxReads, TxAt
    <3>2. ~ NoTx({"ack"})
      BY <1>4, <3>1, HeadFirst DEF NoTx
    <3>3. rxBlocks = txBlock.idx
      BY <2>2, <3>2 DEF InPlace, OnBlock
    <3>4. k = txBlock.idx + 1
      BY <1>1, <2>2
    <3>5. txBlock.idx \in 1 .. Files[Current]
      BY <1>3, <2>2 DEF BatchFits, TxFits
    <3> QED BY <1>5, <1>6, <3>3, <3>4, <3>5
  <2> QED BY <1>3, <2>1, <2>2
<1>8. CASE SendBlock(k)
  <2>1. PICK load \in ReadOutcomes(<<txFile, k>>) :
           /\ txBlock' = [idx |-> k, load |-> load]
           /\ TxGoTo("data", Send(toRx, Packet(k, load)))
    BY <1>8 DEF SendBlock
  <2>2. txBlock'.idx = k /\ txBlock'.load = load /\ txPhase' = "data"
    BY <2>1 DEF TxGoTo
  <2>3. load = <<Current, k>>
    <3>1. load = <<txFile, k>> \/ load = Padding
      BY <2>1 DEF ReadOutcomes
    <3>2. load # Padding
      <4>1. k > 0
        OBVIOUS
      <4> QED BY <1>3, <2>2, <4>1 DEF NotRead
    <3> QED BY <1>3, <3>1, <3>2
  <2>4. load \in Payload
    BY <1>3, <1>4, <2>3 DEF Payload
  <2> DEFINE b == Packet(k, load)
  <2>5. b \in RxItem /\ b.load = load /\ b.num = BlockNum(k)
    BY <2>4, Packets
  <2>6. toRx' = Send(<<>>, b)
    BY <2>1 DEF TxGoTo
  <2> HIDE DEF b
  <2>7. toRx' = <<b>>
    BY <2>5, <2>6, SentOnIdle
  <2>8. OnlyThisBlock'
    BY <2>2, <2>5, <2>7 DEF OnlyThisBlock
  <2>9. rxBlocks' = txBlock'.idx - 1 /\ txBlock'.load = <<Current', txBlock'.idx>>
    BY <1>3, <1>7, <2>2, <2>3
  <2>10. NoTx({"ack"})'
    BY DEF NoTx
  <2>11. OnBlock'
    BY <2>8, <2>9, <2>10 DEF OnBlock
  <2> QED BY <2>2, <2>11 DEF InPlace
<1>9. CASE k > Files[txFile] /\ TxGoTo("eot", Send(toRx, RxByte("eot")))
  <2>1. txPhase' = "eot" /\ toRx' = Send(<<>>, RxByte("eot"))
    BY <1>9 DEF TxGoTo
  <2>2. rxBlocks' = Files[Current']
    BY <1>3, <1>5, <1>6, <1>7, <1>9
  <2>3. RxByte("eot") \in RxItem /\ RxByte("eot").type = "eot"
    BY RxBytes
  <2>4. toRx' = <<RxByte("eot")>>
    BY <2>1, <2>3, SentOnIdle
  <2>5. NoRx({"blk"})'
    BY <2>3, <2>4 DEF NoRx
  <2> QED BY <2>1, <2>2, <2>5 DEF InPlace
<1> QED BY <1>1, <1>8, <1>9 DEF SendFrom

\* The transmitter keeps the file exact.
LEMMA TxExact ==
  ASSUME Timely, TypeOK, BatchFits, OneUnit, Exact, TxStep(rxDone),
         spoilt' = IF NotRead THEN spoilt \cup {txFile} ELSE spoilt,
         UNCHANGED rxVars
  PROVE  Exact'
<1> USE DEF rxVars
<1> SUFFICES ASSUME ~ rxDone', rxPhase' \in {"data", "eot"}, Current' \notin spoilt'
             PROVE  (Stocked /\ InPlace)'
  BY DEF Exact, InFile
<1>1. ~ rxDone /\ Current' = Current /\ rxPhase \in {"data", "eot"}
  BY DEF rxDone, Current
<1>2. Stocked /\ InPlace
  BY <1>1 DEF Exact, InFile
<1>3. Stocked'
  BY <1>1, <1>2 DEF Stocked
<1>4. /\ ~ txDone
      /\ (toTx' = toTx /\ toTx = <<>>) \/ (toTx # <<>> /\ toTx' = Tail(toTx))
      /\ \/ UNCHANGED toRx
         \/ \E b \in RxItem : Sends(b) /\ (b.type \in {"blk", "bad"} => rxPhase # "eot")
  BY <1>1, TxDrains
<1>5. toTx \in Seq(TxItem)
  BY Shapes
<1>6. NoTx({"ack"}) => NoTx({"ack"})'
  <2>1. KeptTx
    BY <1>4, <1>5, ReadTx
  <2> QED BY <1>5, <2>1, TxKeeps
<1>7. ASSUME UNCHANGED <<toRx, txPhase, txBlock>>
      PROVE  InPlace'
  <2>1. OnlyThisBlock => OnlyThisBlock'
    BY <1>7 DEF OnlyThisBlock
  <2>2. NoRx({"blk"}) => NoRx({"blk"})'
    BY <1>7 DEF NoRx
  <2> QED BY <1>2, <1>4, <1>6, <1>7, <2>1, <2>2, PlaceStays
<1>8. CASE TxStart
  <2>1. txPhase = "start" /\ toTx # <<>> /\ Head(toTx).type = "c"
    BY <1>8 DEF TxStart, TxReads, TxAt
  <2>2. ~ NoTx({"c"})
    BY <1>5, <2>1, HeadFirst DEF NoTx
  <2> QED BY <1>1, <2>1, <2>2
          DEF BatchFits, Course, Between, Closing, Offered, Taken, Going, Sending
<1>9. CASE TxStartRetry(rxDone) \/ TxCancelled \/ TxNoStart(rxDone)
  BY <1>3, <1>7, <1>9 DEF TxStartRetry, TxCancelled, TxNoStart, TxReturn
<1>10. CASE TxBlock0Acked
  <2>1. CASE UNCHANGED <<toRx, txPhase, txBlock>>
    BY <1>3, <1>7, <2>1
  <2>2. CASE txPhase' = "go"
    <3>1. rxBlocks = 0
      BY <1>2, <1>10 DEF InPlace, TxBlock0Acked, TxReads, TxAt
    <3>2. InPlace'
      BY <2>2, <3>1 DEF InPlace
    <3> QED BY <1>3, <3>2
  <2> QED BY <1>10, <2>1, <2>2 DEF TxBlock0Acked, TxReturn, TxGoTo
<1>11. CASE TxGo \/ TxAcked
  <2>1. txPhase \in {"go", "data"}
    BY <1>11 DEF TxGo, TxAcked, TxReads, TxAt
  <2>2. toRx = <<>> /\ toTx' = <<>>
    BY <1>1, <2>1, TxIdle
  <2> QED BY <1>1, <1>2, <1>3, <1>4, <1>11, <2>2, GoesOnInPlace
<1>12. CASE TxResend(rxDone)
  <2> DEFINE b == Packet(txBlock.idx, txBlock.load)
  <2>1. /\ txPhase = "data" /\ UNCHANGED <<txPhase, txBlock>>
        /\ UNCHANGED toRx \/ toRx' = Send(toRx, b)
    BY <1>12 DEF TxResend, TxReadsOther, TxReads, TxAt, TxReturn
  <2>2. CASE UNCHANGED toRx
    BY <1>3, <1>7, <2>1, <2>2
  <2>3. CASE toRx' = Send(toRx, b)
    <3>1. b \in RxItem /\ b.load = txBlock.load /\ b.num = BlockNum(txBlock.idx)
      <4>1. txBlock.idx \in Nat /\ txBlock.load \in Payload
        BY DEF TypeOK, TxTypeOK
      <4> QED BY <4>1, Packets
    <3> HIDE DEF b
    <3>2. toRx = <<>>
      BY <1>1, <2>1, TxIdle
    <3>3. toRx' = <<b>>
      BY <2>3, <3>1, <3>2, SentOnIdle
    <3>4. OnlyThisBlock'
      BY <2>1, <3>1, <3>3 DEF OnlyThisBlock
    <3>5. OnBlock => OnBlock'
      BY <1>1, <1>4, <1>6, <2>1, <3>4 DEF OnBlock
    <3>6. InPlace'
      BY <1>2, <2>1, <3>5 DEF InPlace
    <3> QED BY <1>3, <3>6
  <2> QED BY <2>1, <2>2, <2>3
<1>13. CASE TxEotNaked
  <2>1. txPhase = "eot" /\ txPhase' = "eot2" /\ toRx' = Send(toRx, RxByte("eot"))
    BY <1>13 DEF TxEotNaked, TxReads, TxAt, TxGoTo
  <2>2. RxByte("eot") \in RxItem /\ RxByte("eot").type = "eot"
    BY RxBytes
  <2>3. NoRx({"blk"})'
    <3>1. toRx = <<>>
      BY <1>1, <1>13, TxIdle DEF TxEotNaked, TxReads
    <3>2. toRx' = <<RxByte("eot")>>
      BY <2>1, <2>2, <3>1, SentOnIdle
    <3> QED BY <2>2, <3>2 DEF NoRx
  <2>4. InPlace'
    BY <1>1, <1>2, <2>1, <2>3 DEF InPlace
  <2> QED BY <1>3, <2>4
<1>14. CASE TxFileSent(rxDone)
  <2>1. txPhase \in {"eot", "eot2"} /\ txPhase' = "start" /\ UNCHANGED toRx
    BY <1>14 DEF TxFileSent, TxReadsOther, TxReads, TxAt, NextFile, TxGoTo
  <2>2. InPlace'
    BY <1>1, <1>2, <2>1 DEF InPlace, NoRx
  <2> QED BY <1>3, <2>2
<1> QED BY <1>8, <1>9, <1>10, <1>11, <1>12, <1>13, <1>14 DEF TxStep

\* What the line does to the packets or answers in flight
LEMMA LineThins ==
  ASSUME TypeOK, YmodemLineNext, aborts = 0, aborts' = 0
  PROVE  \/ /\ toRx # <<>> /\ toRx' = Tail(toRx) /\ UNCHANGED toTx
         \/ /\ toTx # <<>> /\ toTx' = Tail(toTx) /\ UNCHANGED toRx
         \/ /\ toRx # <<>> /\ UNCHANGED toTx
            /\ \E b \in RxItem : /\ toRx' = <<b>> \o Tail(toRx)
                                 /\ b.type = "bad" => Head(toRx).type = "blk"
                                 /\ b.type # "blk"
         \/ /\ toTx # <<>> /\ UNCHANGED toRx
            /\ \E b \in TxItem : toTx' = <<b>> \o Tail(toTx) /\ b.type = "junk"
<1>1. toRx \in Seq(RxItem) /\ toTx \in Seq(TxItem)
  BY Shapes
<1>2. CASE DamageToRx({"blk"})
  <2>1. toRx # <<>> /\ UNCHANGED toTx
    BY <1>2 DEF DamageToRx
  <2>2. PICK ty \in {"bad", "junk"} :
           /\ toRx' = <<[Head(toRx) EXCEPT !.type = ty]>> \o Tail(toRx)
           /\ ty = "bad" => Head(toRx).type = "blk"
    <3>1. CASE Head(toRx).type = "blk"
      BY <1>2, <3>1 DEF DamageToRx, Damaged
    <3>2. CASE Head(toRx).type # "blk"
      BY <1>2, <3>2 DEF DamageToRx, Damaged
    <3> QED BY <3>1, <3>2
  <2>3. Head(toRx) \in RxItem
    BY <1>1, <2>1
  <2>4. /\ [Head(toRx) EXCEPT !.type = ty] \in RxItem
        /\ [Head(toRx) EXCEPT !.type = ty].type = ty
    BY <2>3 DEF RxItem
  <2> QED BY <2>1, <2>2, <2>4
<1>3. CASE DamageToTx({"blk"})
  <2>1. toTx # <<>> /\ UNCHANGED toRx
    BY <1>3 DEF DamageToTx
  <2>2. Head(toTx) \in TxItem
    BY <1>1, <2>1
  <2>3. Head(toTx).type \notin {"blk"}
    BY <2>2 DEF TxItem
  <2>4. toTx' = <<[Head(toTx) EXCEPT !.type = "junk"]>> \o Tail(toTx)
    BY <1>3, <2>3 DEF DamageToTx, Damaged
  <2>5. /\ [Head(toTx) EXCEPT !.type = "junk"] \in TxItem
        /\ [Head(toTx) EXCEPT !.type = "junk"].type = "junk"
    BY <2>2 DEF TxItem
  <2> QED BY <2>1, <2>4, <2>5
<1>4. ~ PressAbort(RxByte("brk"), TxByte("brk"))
  BY DEF PressAbort
<1> QED BY <1>2, <1>3, <1>4 DEF YmodemLineNext, LineNext, LoseToRx, LoseToTx

\* Damage to the first item leaves the number of items and the others.
LEMMA FirstReplaced ==
  ASSUME NEW S, NEW q \in Seq(S), q # <<>>, NEW b \in S
  PROVE  /\ Len(<<b>> \o Tail(q)) = Len(q)
         /\ (<<b>> \o Tail(q))[1] = b
         /\ \A i \in 1 .. Len(q) : i # 1 => (<<b>> \o Tail(q))[i] = q[i]
<1> DEFINE r == <<b>> \o Tail(q)
<1>1. r \in Seq(S) /\ Len(r) = Len(q) /\ r[1] = b
  OBVIOUS
<1>2. \A i \in 1 .. Len(r) : i # 1 => r[i] = q[i]
  OBVIOUS
<1> QED BY <1>1, <1>2

\* The line adds nothing to what is in flight.
LEMMA LineOneUnit ==
  ASSUME TypeOK, OneUnit, YmodemLineNext, aborts = 0, aborts' = 0,
         UNCHANGED <<rxVars, txVars>>
  PROVE  OneUnit'
<1> USE DEF rxVars, txVars
<1>1. toRx \in Seq(RxItem) /\ toTx \in Seq(TxItem)
  BY Shapes
<1>2. SUFFICES ASSUME ~ rxDone PROVE OneUnit'
  BY DEF OneUnit, rxDone
<1>3. /\ Len(toRx) <= 1
      /\ rxPhase = "eot" => NoRx({"blk", "bad"})
      /\ ~ txDone =>
           /\ toRx = <<>> \/ toTx = <<>>
           /\ Len(toTx) <= 2
           /\ Len(toTx) = 2 => /\ toTx[1].type \in {"ack", "junk"}
                               /\ txPhase \notin {"go", "data"}
  BY <1>2 DEF OneUnit
<1>4. txDone' = txDone
  BY DEF txDone
<1>5. CASE toRx # <<>> /\ toRx' = Tail(toRx) /\ UNCHANGED toTx
  <2>1. toRx' = <<>>
    BY <1>1, <1>3, <1>5, NothingBehind
  <2> QED BY <1>3, <1>4, <1>5, <2>1 DEF OneUnit, NoRx
<1>6. CASE toTx # <<>> /\ toTx' = Tail(toTx) /\ UNCHANGED toRx
  <2>1. ~ txDone => Len(toTx') <= 2 /\ Len(toTx') # 2
    <3> SUFFICES ASSUME ~ txDone PROVE Len(toTx') <= 2 /\ Len(toTx') # 2
      OBVIOUS
    <3> DEFINE n == Len(toTx')
    <3>1. n \in Nat /\ n <= 1
      BY <1>1, <1>3, <1>6, AtMostTwo
    <3> HIDE DEF n
    <3>2. n <= 2 /\ n # 2
      BY <3>1
    <3> QED BY <3>2 DEF n
  <2> QED BY <1>3, <1>4, <1>6, <2>1 DEF OneUnit, NoRx
<1>7. ASSUME toRx # <<>>, UNCHANGED toTx,
             NEW b \in RxItem, toRx' = <<b>> \o Tail(toRx),
             b.type = "bad" => Head(toRx).type = "blk", b.type # "blk"
      PROVE  OneUnit'
  <2>1. /\ Len(toRx') = Len(toRx) /\ toRx'[1] = b
        /\ \A i \in 1 .. Len(toRx) : i # 1 => toRx'[i] = toRx[i]
    BY <1>1, <1>7, FirstReplaced
  <2>2. 1 \in 1 .. Len(toRx) /\ Head(toRx) = toRx[1]
    BY <1>1, <1>7, HeadFirst
  <2>3. rxPhase = "eot" => NoRx({"blk", "bad"})'
    BY <1>3, <1>7, <2>1, <2>2 DEF NoRx
  <2>4. Len(toRx') <= 1 /\ (~ txDone => toTx = <<>>)
    BY <1>3, <1>7, <2>1
  <2> QED BY <1>3, <1>4, <1>7, <2>3, <2>4 DEF OneUnit
<1>8. ASSUME toTx # <<>>, UNCHANGED toRx,
             NEW b \in TxItem, toTx' = <<b>> \o Tail(toTx), b.type = "junk"
      PROVE  OneUnit'
  <2>1. Len(toTx') = Len(toTx) /\ toTx'[1] = b
    BY <1>1, <1>8, FirstReplaced
  <2> QED BY <1>3, <1>4, <1>8, <2>1 DEF OneUnit, NoRx
<1> QED BY <1>5, <1>6, <1>7, <1>8, LineThins

LEMMA LineExact ==
  ASSUME TypeOK, Exact, YmodemLineNext, UNCHANGED <<rxVars, txVars, spoilt>>
  PROVE  Exact'
<1> USE DEF rxVars, txVars
<1>1. toRx \in Seq(RxItem) /\ toTx \in Seq(TxItem) /\ KeptRx /\ KeptTx
  BY Shapes, LineKeeps DEF TypeOK
<1>2. SUFFICES ASSUME Stocked /\ InPlace PROVE (Stocked /\ InPlace)'
  BY DEF Exact, InFile, rxDone, Current
<1>3. Stocked'
  BY <1>2 DEF Stocked, Current
<1>4. NoTx({"ack"}) => NoTx({"ack"})'
  BY <1>1, TxKeeps
<1>5. NoRx({"blk"}) => NoRx({"blk"})'
  BY <1>1, RxKeeps
<1>6. OnlyThisBlock => OnlyThisBlock'
  <2>1. PICK k \in Nat : \A i \in 1 .. Len(toRx') :
           toRx'[i].type \in Matters => i + k \in 1 .. Len(toRx) /\ toRx'[i] = toRx[i + k]
    BY <1>1 DEF KeptRx, Kept
  <2> QED BY <2>1 DEF OnlyThisBlock, Matters
<1>7. txDone => txDone'
  BY DEF txDone
<1>8. InPlace'
  BY <1>2, <1>4, <1>5, <1>6, <1>7, PlaceStays
<1> QED BY <1>3, <1>8

\* A damaged number spoils every file of the batch.
LEMMA RenumberTimely ==
  ASSUME TypeOK, BatchFits, OneUnit, RenumberToRx, spoilt' = 1 .. NFiles,
         UNCHANGED <<rxVars, txVars>>
  PROVE  OneUnit' /\ Exact' /\ OkFileComplete'
<1> USE DEF rxVars, txVars
<1>1. toRx \in Seq(RxItem) /\ rxFiles \in Seq(FileRecord) /\ Current \in 0 .. NFiles
  BY Shapes, CurrentBound
<1>2. PICK n \in 0 .. BlockMod - 1 :
         toRx' = <<[Head(toRx) EXCEPT !.num = n]>> \o Tail(toRx)
  BY DEF RenumberToRx
<1>3. toRx # <<>> /\ UNCHANGED toTx
  BY DEF RenumberToRx
<1> DEFINE b == [Head(toRx) EXCEPT !.num = n]
<1>4. Head(toRx) \in RxItem /\ Head(toRx) = toRx[1]
  BY <1>1, <1>3
<1>5. b \in RxItem /\ b.type = toRx[1].type
  BY <1>4 DEF RxItem
<1>6. toRx' = <<b>> \o Tail(toRx)
  BY <1>2
<1> HIDE DEF b
<1>7. /\ Len(toRx') = Len(toRx) /\ toRx'[1] = b
      /\ \A i \in 1 .. Len(toRx) : i # 1 => toRx'[i] = toRx[i]
  BY <1>1, <1>3, <1>5, <1>6, FirstReplaced
<1>8. toRx' # <<>>
  BY <1>1, <1>5, <1>6
<1>9. OneUnit'
  <2>1. NoRx({"blk", "bad"}) => NoRx({"blk", "bad"})'
    BY <1>5, <1>7 DEF NoRx
  <2> QED BY <1>3, <1>7, <1>8, <2>1 DEF OneUnit, rxDone, txDone
<1>10. Exact'
  <2> SUFFICES ASSUME rxPhase \in {"data", "eot"}, Current \notin 1 .. NFiles
               PROVE  FALSE
    BY DEF Exact, InFile, Current
  <2> QED BY InsideFile
<1>11. OkFileComplete'
  <2>1. DOMAIN rxFiles' \subseteq spoilt'
    <3>1. DOMAIN rxFiles' = 1 .. Len(rxFiles) /\ Len(rxFiles) \in 0 .. NFiles
      BY <1>1 DEF Current
    <3>2. NFiles \in Nat
      BY Shapes
    <3> QED BY <3>1, <3>2
  <2> QED BY <2>1, Zenon DEF OkFileComplete
<1> QED BY <1>9, <1>10, <1>11

-----------------------------------------------------------------------------
(* Timely: every step *)

LEMMA TimelyInit == Init => TimelyInv
<1> SUFFICES ASSUME Init PROVE TimelyInv
  OBVIOUS
<1>1. /\ toRx = <<>> /\ toTx = <<TxByte("c")>> /\ rxFiles = <<>>
      /\ rxPhase = "header"
  BY DEF Init, RxInit
<1>2. OneUnit
  BY <1>1 DEF OneUnit
<1>3. Exact
  BY <1>1 DEF Exact, InFile
<1>4. OkFileComplete
  BY <1>1 DEF OkFileComplete
<1> QED BY <1>2, <1>3, <1>4 DEF TimelyInv

LEMMA TimelyStep ==
  ASSUME Timely, BatchInv, BatchInv', TimelyInv, [Next]_vars
  PROVE  TimelyInv'
<1>1. /\ TypeOK /\ BatchFits
      /\ rxFiles \in Seq(FileRecord) /\ rxFiles' \in Seq(FileRecord)
      /\ aborts \in Nat
  BY SerialLineAssumption DEF BatchInv, TypeOK, RxTypeOK, LineTypeOK
<1> SUFFICES ASSUME aborts' = 0
             PROVE  OneUnit' /\ Exact' /\ OkFileComplete'
  BY DEF TimelyInv
<1>2. CASE UNCHANGED vars
  <2> USE <1>2 DEF vars, lineVars, rxVars, txVars
  <2>1. OneUnit => OneUnit'
    BY DEF OneUnit, NoRx, rxDone, txDone
  <2>2. Exact => Exact'
    BY DEF Exact, InFile, Stocked, InPlace, OnBlock, OnlyThisBlock, NoRx, NoTx,
           rxDone, txDone, Current
  <2>3. OkFileComplete => OkFileComplete'
    BY Zenon DEF OkFileComplete
  <2> QED BY <2>1, <2>2, <2>3 DEF TimelyInv
<1>3. CASE Rx
  <2>1. /\ RxStep(txDone) /\ UNCHANGED txVars
        /\ spoilt' = IF NotStored THEN spoilt \cup {Len(rxFiles)} ELSE spoilt
    BY <1>3 DEF Rx
  <2>2. UNCHANGED aborts
    BY <2>1 DEF RxStep, HeaderTimeout, HeaderRefuse, HeaderRetry, HeaderCancel, BatchEnd,
                FileStart, DataTimeout, DataCancel, DataRefuse, DataAccept,
                DataDuplicate, DataSequence, DataEot, SecondEot, RxReturn
  <2>3. OneUnit /\ Exact /\ OkFileComplete
    BY <2>2 DEF TimelyInv
  <2>4. toRx' = <<>> /\ (~ txDone => toTx = <<>>)
    BY <1>1, <2>1, <2>3, RxDrains
  <2>5. OneUnit'
    BY <1>1, <2>1, <2>3, RxOneUnit
  <2>6. Exact'
    BY <1>1, <2>1, <2>3, <2>4, RxExact
  <2>7. OkFileComplete'
    BY <1>1, <2>1, <2>3, RxOk
  <2> QED BY <2>5, <2>6, <2>7
<1>4. CASE Tx
  <2>1. /\ TxStep(rxDone) /\ UNCHANGED rxVars
        /\ spoilt' = IF NotRead THEN spoilt \cup {txFile} ELSE spoilt
    BY <1>4 DEF Tx
  <2>2. UNCHANGED aborts
    BY <2>1 DEF TxStep, TxStart, TxStartRetry, TxCancelled, TxBlock0Acked, TxNoStart, TxGo,
                TxAcked, TxResend, TxEotNaked, TxFileSent, NextFile, SendFrom,
                SendBlock, TxGoTo, TxReturn
  <2>3. OneUnit /\ Exact /\ OkFileComplete
    BY <2>2 DEF TimelyInv
  <2>4. OneUnit'
    BY <1>1, <2>1, <2>3, TxOneUnit
  <2>5. Exact'
    BY <1>1, <2>1, <2>3, TxExact
  <2>6. OkFileComplete'
    <3>1. spoilt \subseteq spoilt' /\ UNCHANGED rxFiles
      BY <2>1 DEF rxVars
    <3>2. \A i \in 1 .. Len(rxFiles') : i \in 1 .. Len(rxFiles) /\ rxFiles'[i] = rxFiles[i]
      BY <3>1
    <3> QED BY <1>1, <2>3, <3>1, <3>2, OkStays
  <2> QED BY <2>4, <2>5, <2>6
<1>5. CASE Line
  <2>1. UNCHANGED <<rxVars, txVars>>
    BY <1>5 DEF Line
  <2>2. aborts = 0
    BY <1>1, <1>5 DEF Line, YmodemLineNext, LineNext, LoseToRx, LoseToTx, DamageToRx,
                      DamageToTx, PressAbort, RenumberToRx, Fault
  <2>3. OneUnit /\ Exact /\ OkFileComplete
    BY <2>2 DEF TimelyInv
  <2>4. CASE YmodemLineNext /\ UNCHANGED spoilt
    <3>1. OneUnit'
      BY <1>1, <2>1, <2>2, <2>3, <2>4, LineOneUnit
    <3>2. Exact'
      BY <1>1, <2>1, <2>3, <2>4, LineExact
    <3>3. OkFileComplete'
      BY <2>1, <2>3, <2>4, Zenon DEF OkFileComplete, rxVars
    <3> QED BY <3>1, <3>2, <3>3
  <2>5. CASE RenumberToRx /\ spoilt' = 1 .. NFiles
    BY <1>1, <2>1, <2>3, <2>5, RenumberTimely
  <2> QED BY <1>5, <2>4, <2>5 DEF Line
<1>6. CASE Returned
  BY <1>2, <1>6 DEF Returned
<1> QED BY <1>2, <1>3, <1>4, <1>5, <1>6 DEF Next

\* Where timeouts exceed every delay and nobody presses the abort key, a file
\* that ended with YMODEM_OK, which neither callback nor a damaged number
\* harmed, holds exactly the blocks of its source, whatever the line lost or
\* damaged.
THEOREM OkFilesAreComplete ==
  ASSUME Timely
  PROVE  Spec => [](aborts = 0 => OkFileComplete)
<1>1. Init => BatchInv /\ TimelyInv
  BY BatchInit, TimelyInit
<1>2. BatchInv /\ TimelyInv /\ [Next]_vars => (BatchInv /\ TimelyInv)'
  BY BatchStep, TimelyStep
<1>3. TimelyInv => (aborts = 0 => OkFileComplete)
  BY DEF TimelyInv
<1> QED BY <1>1, <1>2, <1>3, PTL DEF Spec

-----------------------------------------------------------------------------
(***************************************************************************)
(* The abstract delivery of a batch.  The positions say that the receiver  *)
(* is outside a file exactly where it waits for a block 0; TimelyInv, at   *)
(* the end of the step, what it has stored and that it is complete.        *)
(***************************************************************************)

\* The end of the file the receiver is in has not been reported.
InsideOpen ==
    ~ rxDone /\ rxPhase \in {"data", "eot"} => rxFiles[Current].end = "none"

LEMMA InsideOpenStep ==
  ASSUME BatchInv, BatchInv', InsideOpen, [Next]_vars
  PROVE  InsideOpen'
<1> USE DEF InsideOpen, rxDone, Current
<1>1. /\ rxFiles \in Seq(FileRecord) /\ toRx \in Seq(RxItem)
      /\ TypeOK /\ BatchFits
      /\ rxPhase \in {"data", "eot"} => rxFiles # <<>>
  BY Shapes, InsideFile DEF BatchInv
<1>2. CASE UNCHANGED rxVars
  BY <1>2 DEF rxVars
<1>3. CASE RxStep(txDone)
  <2>1. CASE HeaderTimeout(txDone) \/ HeaderRefuse \/ HeaderCancel \/ BatchEnd
    BY <2>1 DEF HeaderTimeout, HeaderRefuse, HeaderRetry, HeaderCancel, BatchEnd,
                RxReturn, RxReads, RxQuiet, RxAt
  <2>2. CASE FileStart
    <3>1. /\ RxReads("header", {"blk"}) /\ toRx' = Tail(toRx)
          /\ rxFiles' \in Started(rxFiles, NameIn(Head(toRx).load))
      BY <2>2 DEF FileStart
    <3>2. NameIn(Head(toRx).load) \in Nat
      BY <1>1, <3>1, Block0Read, Shapes
    <3>3. /\ Len(rxFiles') = Len(rxFiles) + 1
          /\ rxFiles'[Len(rxFiles) + 1].end = "none"
      BY <1>1, <3>1, <3>2, StartedFacts
    <3> QED BY <3>3
  <2>3. CASE DataTimeout(txDone) \/ DataCancel \/ DataSequence
    BY <2>3 DEF DataTimeout, DataCancel, DataSequence, RxReturn, RxQuiet, RxReads, RxAt
  <2>4. CASE DataRefuse \/ DataDuplicate \/ DataEot
    BY <2>4 DEF DataRefuse, DataDuplicate, DataEot, rxVars, RxReads, RxAt
  <2>5. CASE DataAccept
    <3>1. /\ Head(toRx).load \in Payload
          /\ rxFiles' \in Stored(rxFiles, Head(toRx).load)
          /\ rxPhase = "data" /\ rxStatus = "RUN" /\ rxFiles # <<>>
      BY <1>1, <2>5, PacketRead DEF DataAccept, RxItem
    <3>2. Len(rxFiles') = Len(rxFiles) /\ rxFiles'[Len(rxFiles)].end = rxFiles[Len(rxFiles)].end
      BY <1>1, <3>1, StoredFacts
    <3> QED BY <3>1, <3>2
  <2>6. CASE SecondEot(txDone)
    BY <2>6 DEF SecondEot
  <2> QED BY <1>3, <2>1, <2>2, <2>3, <2>4, <2>5, <2>6 DEF RxStep
<1> QED BY <1>2, <1>3 DEF Next, Rx, Tx, Line, Returned, vars

Harmed == IF aborts = 0 THEN spoilt ELSE 1 .. NFiles

\* Harm is never undone.
LEMMA HarmGrows ==
  ASSUME BatchInv, BatchInv', [Next]_vars
  PROVE  Harmed \subseteq Harmed' /\ Harmed' \subseteq 1 .. NFiles
<1>1. /\ spoilt \subseteq 1 .. NFiles /\ spoilt' \subseteq 1 .. NFiles
      /\ aborts \in Nat /\ aborts' \in Nat
  BY SerialLineAssumption DEF BatchInv, TypeOK, LineTypeOK, NFiles
<1>2. spoilt \subseteq spoilt'
  <2>1. CASE Line
    BY <1>1, <2>1, Zenon DEF Line
  <2> QED BY <2>1 DEF Next, Rx, Tx, Returned, vars
<1>3. aborts' = 0 => aborts = 0
  <2>1. CASE Rx
    BY <2>1 DEF Rx, RxStep, HeaderTimeout, HeaderRefuse, HeaderRetry, HeaderCancel, BatchEnd,
                FileStart, DataTimeout, DataCancel, DataRefuse, DataAccept,
                DataDuplicate, DataSequence, DataEot, SecondEot, RxReturn
  <2>2. CASE Tx
    BY <2>2 DEF Tx, TxStep, TxStart, TxStartRetry, TxCancelled, TxBlock0Acked, TxNoStart,
                TxGo, TxAcked, TxResend, TxEotNaked, TxFileSent, NextFile, SendFrom,
                SendBlock, TxGoTo, TxReturn
  <2>3. CASE Line
    BY <1>1, <2>3 DEF Line, YmodemLineNext, LineNext, LoseToRx, LoseToTx, DamageToRx,
                      DamageToTx, PressAbort, RenumberToRx, Fault
  <2> QED BY <2>1, <2>2, <2>3 DEF Next, Returned, vars, lineVars
<1> QED BY <1>1, <1>2, <1>3 DEF Harmed

\* Where the receiver is in a file: its position in the code tells.
LEMMA Whereabouts ==
  ASSUME BatchInv, InsideOpen
  PROVE  /\ rxPhase = "header" => Batch!Outside
         /\ rxStatus = "RUN" /\ rxPhase \in {"data", "eot"} => Batch!Inside
<1>1. TypeOK /\ BatchFits /\ Len(rxFiles) \in Nat
  BY Shapes DEF BatchInv, Current
<1>2. ASSUME rxPhase = "header"
      PROVE  Batch!Outside
  BY <1>1, <1>2 DEF BatchFits, Course, Between, Closing, Offered, Taken, Going, Sending,
                    LastEnded, Current, Batch!Outside, Batch!Current
<1>3. ASSUME rxStatus = "RUN", rxPhase \in {"data", "eot"}
      PROVE  Batch!Inside
  <2>1. Current > 0
    BY <1>1, <1>3, InsideFile
  <2> QED BY <1>3, <2>1 DEF InsideOpen, rxDone, Current, Batch!Inside, Batch!Current
<1> QED BY <1>2, <1>3

\* A block 0 starts the next file of the batch.
LEMMA StartDelivers ==
  ASSUME BatchInv, InsideOpen, FileStart, UNCHANGED txVars
  PROVE  Batch!Start
<1>1. TypeOK /\ BatchFits
  BY DEF BatchInv
<1>2. /\ RxReads("header", {"blk"}) /\ toRx' = Tail(toRx)
      /\ NameIn(Head(toRx).load) # NFiles + 1
      /\ rxFiles' \in Started(rxFiles, NameIn(Head(toRx).load))
      /\ UNCHANGED rxStatus
  BY DEF FileStart
<1>3. /\ Offered /\ rxStatus = "RUN" /\ rxPhase = "header"
      /\ NameIn(Head(toRx).load) = txFile
  BY <1>1, <1>2, Block0Read DEF RxReads, RxAt
<1>4. /\ Len(rxFiles) < NFiles
      /\ txFile = Len(rxFiles) + 1
  <2>1. Len(rxFiles) = txFile - 1 /\ txFile \in 1 .. NFiles + 1 /\ NFiles \in Nat
    BY <1>1, <1>3, Shapes DEF Offered, Current
  <2>2. txFile # NFiles + 1
    BY <1>2, <1>3
  <2> QED BY <2>1, <2>2
<1>5. PICK o \in {TRUE, ~ StoreFails} :
         rxFiles' = Append(rxFiles, [name |-> Len(rxFiles) + 1, data |-> <<>>,
                                     open |-> o, end |-> "none"])
  BY <1>2, <1>3, <1>4 DEF Started
<1>6. o \in BOOLEAN
  BY BatchAssumption, Zenon
<1> QED
  BY <1>2, <1>3, <1>4, <1>5, <1>6, Whereabouts
  DEF Batch!Start, Batch!Current, Batch!N, NFiles, txVars

\* A block that is stored is the next one of the file, where it was not harmed.
LEMMA AcceptDelivers ==
  ASSUME Timely, BatchInv, BatchInv', TimelyInv', InsideOpen, DataAccept, UNCHANGED txVars,
         UNCHANGED aborts,
         spoilt' = IF NotStored THEN spoilt \cup {Len(rxFiles)} ELSE spoilt
  PROVE  Batch!Deliver \/ UNCHANGED <<rxFiles, rxStatus, txStatus>>
<1> DEFINE n == Len(rxFiles)
           b == Head(toRx).load
<1>1. TypeOK /\ BatchFits /\ TypeOK' /\ BatchFits' /\ rxFiles \in Seq(FileRecord)
  BY Shapes DEF BatchInv
<1>2. /\ RxReads("data", {"blk"}) /\ rxFiles' \in Stored(rxFiles, b)
      /\ UNCHANGED <<rxStatus, rxPhase>> /\ UNCHANGED <<txStatus, txPhase>>
      /\ rxBlocks' = rxBlocks + 1
  BY DEF DataAccept, txVars
<1>3. /\ rxPhase = "data" /\ rxStatus = "RUN" /\ rxFiles # <<>>
      /\ 1 \in 1 .. Len(toRx) /\ b = toRx[1].load /\ b \in Payload
      /\ toRx \in Seq(RxItem)
  <2>1. /\ rxPhase = "data" /\ rxStatus = "RUN" /\ toRx \in Seq(RxItem)
        /\ Head(toRx) \in RxItem /\ Head(toRx) = toRx[1] /\ 1 \in 1 .. Len(toRx)
    BY <1>1, <1>2, PacketRead, Shapes
  <2>2. rxFiles # <<>>
    BY <1>1, <2>1, InsideFile
  <2> QED BY <2>1, <2>2 DEF RxItem
<1>4. b \in {toRx[i].load : i \in DOMAIN toRx}
  BY <1>3
<1> HIDE DEF b
<1>5. \/ rxFiles' = rxFiles
      \/ rxFiles' = [rxFiles EXCEPT ![n].data = Append(@, b)]
  BY <1>2, Zenon DEF Stored
<1>6. CASE rxFiles' = rxFiles
  BY <1>2, <1>6
<1>7. ASSUME rxFiles' # rxFiles, n \notin Harmed
      PROVE  b = <<n, Len(rxFiles[n].data) + 1>> /\ Len(rxFiles[n].data) < Files[n]
  <2>1. aborts' = 0 /\ n \notin spoilt' /\ n \in Nat /\ n > 0
    <3>1. n \in 1 .. NFiles
      BY <1>1, <1>3, InsideFile DEF Current
    <3> QED BY <1>7, <3>1, Shapes DEF Harmed, NotStored
  <2>2. /\ Len(rxFiles') = n
        /\ rxFiles'[n].data = Append(rxFiles[n].data, b)
        /\ rxFiles[n].data \in Seq(Payload)
    <3>1. rxFiles[n] \in FileRecord
      BY <1>1, <2>1
    <3> QED BY <1>1, <1>3, <1>2, <1>7, <3>1, StoredFacts DEF FileRecord
  <2>3. (Stocked /\ InPlace)'
    BY <1>2, <1>3, <2>1, <2>2 DEF TimelyInv, Exact, rxDone, InFile, Current
  <2>4. Len(rxFiles'[n].data) = rxBlocks' /\ rxFiles'[n].data[rxBlocks'] = <<n, rxBlocks'>>
    <3>1. rxBlocks' \in Nat \ {0}
      <4>1. rxBlocks \in Nat
        BY <1>1 DEF TypeOK, RxTypeOK
      <4> QED BY <1>2, <4>1
    <3> QED BY <2>2, <2>3, <3>1 DEF Stocked, Current
  <2>5. Len(rxFiles[n].data) + 1 = rxBlocks' /\ b = <<n, rxBlocks'>>
    <3> HIDE DEF n
    <3>1. ASSUME NEW d \in Seq(Payload)
          PROVE  Len(Append(d, b)) = Len(d) + 1 /\ Append(d, b)[Len(d) + 1] = b
      BY <1>3
    <3>2. /\ Len(rxFiles'[n].data) = Len(rxFiles[n].data) + 1
          /\ rxFiles'[n].data[Len(rxFiles[n].data) + 1] = b
      BY <2>2, <3>1
    <3> QED BY <2>4, <3>2
  <2>6. rxBlocks' <= Files[n]
    <3>1. CASE txPhase = "data"
      <4>1. rxBlocks' \in {txBlock'.idx - 1, txBlock'.idx}
        BY <1>2, <2>3, <3>1 DEF InPlace, OnBlock
      <4>2. txBlock'.idx \in 1 .. Files[txFile'] /\ txFile' = n
        BY <1>1, <1>2, <2>2, <3>1
        DEF BatchFits, TxFits, Course, Between, Closing, AtEnd, Offered, Taken, Going,
            Sending, Current
      <4>3. Files[n] \in Nat
        BY <1>1, <1>3, InsideFile, BatchAssumption DEF Current, NFiles
      <4> QED BY <4>1, <4>2, <4>3
    <3>2. CASE txPhase \in {"block0", "go"}
      BY <1>1, <1>2, <2>3, <3>2 DEF InPlace, TypeOK, RxTypeOK
    <3>3. CASE txPhase \in {"start", "eot", "eot2"}
      <4>1. Files[n] \in Nat
        BY <1>1, <1>3, InsideFile, BatchAssumption DEF Current, NFiles
      <4> QED BY <1>2, <2>2, <2>3, <3>3, <4>1 DEF InPlace, Current
    <3> QED BY <1>1, <3>1, <3>2, <3>3 DEF TypeOK, TxTypeOK
  <2>7. Len(rxFiles[n].data) \in Nat /\ Files[n] \in Nat
    <3>1. n \in 1 .. NFiles
      BY <1>1, <1>3, InsideFile DEF Current
    <3>2. Files[n] \in Nat
      BY <3>1, BatchAssumption DEF NFiles
    <3> QED BY <2>2, <3>2
  <2> QED BY <2>5, <2>6, <2>7
<1>8. CASE rxFiles' # rxFiles
  <2>1. Batch!Inside
    BY <1>3, Whereabouts
  <2> QED BY <1>2, <1>3, <1>4, <1>5, <1>7, <1>8, <2>1
      DEF Batch!Deliver, Batch!Current, Batch!Data, Harmed
<1> QED BY <1>6, <1>8

\* A file that ends well is complete, where it was not harmed.
LEMMA SecondEotDelivers ==
  ASSUME BatchInv, BatchInv', TimelyInv', InsideOpen, SecondEot(txDone), UNCHANGED txVars,
         UNCHANGED <<spoilt, aborts>>
  PROVE  Batch!End
<1> DEFINE n == Len(rxFiles)
<1>1. TypeOK /\ BatchFits /\ TypeOK' /\ BatchFits' /\ rxFiles \in Seq(FileRecord)
  BY Shapes DEF BatchInv
<1>2. /\ rxStatus = "RUN" /\ rxPhase = "eot"
      /\ FileEnd("OK") /\ UNCHANGED rxStatus
  BY DEF SecondEot, RxQuiet, RxAt
<1>3. rxFiles' = [rxFiles EXCEPT ![n].end = "OK"]
  BY <1>2 DEF FileEnd, Ended
<1>4. n \in 1 .. NFiles /\ rxFiles # <<>>
  BY <1>1, <1>2, InsideFile DEF Current
<1>5. n \in Harmed \/ Len(rxFiles[n].data) = Files[n]
  <2>1. SUFFICES ASSUME aborts = 0, n \notin spoilt
                 PROVE  Len(rxFiles[n].data) = Files[n]
    BY <1>4 DEF Harmed
  <2>2. /\ Len(rxFiles') = n /\ rxFiles'[n].end = "OK"
        /\ rxFiles'[n].data = rxFiles[n].data
    BY <1>1, <1>2, <1>4, FileEnded DEF SameFiles, Current
  <2>3. OkFileComplete' /\ n \in DOMAIN rxFiles'
    <3>1. rxFiles' \in Seq(FileRecord) /\ n \in 1 .. Len(rxFiles')
      BY <1>1, <1>4, <2>2 DEF TypeOK, RxTypeOK
    <3> QED BY <2>1, <3>1 DEF TimelyInv
  <2>4. Complete(rxFiles'[n])
    BY <2>1, <2>2, <2>3 DEF OkFileComplete
  <2>5. rxFiles'[n].name = n
    BY <1>1, <1>4, <2>2 DEF BatchFits, FilesFollow
  <2> QED BY <2>2, <2>4, <2>5 DEF Complete
<1>6. Batch!Inside
  BY <1>2, Whereabouts
<1> QED
  BY <1>2, <1>3, <1>5, <1>6, Zenon
  DEF Batch!End, Batch!Current, Batch!Data, Harmed, txVars

\* A file that ends badly ends the call with the same result.
LEMMA FailureDelivers ==
  ASSUME BatchInv, InsideOpen, rxStatus = "RUN", rxPhase = "data",
         NEW st \in {"TIMEOUT", "CANCEL", "SEQUENCE"},
         FileEnd(st), rxStatus' = st, UNCHANGED txVars
  PROVE  Batch!End
<1> DEFINE n == Len(rxFiles)
<1>1. Batch!Inside
  BY Whereabouts
<1>2. st \in (Status \ {"RUN", "OK"}) \cup {"OK"} /\ st # "OK"
  BY DEF Status
<1>3. rxFiles' = [rxFiles EXCEPT ![n].end = st]
  BY DEF FileEnd, Ended
<1> QED
  BY <1>1, <1>2, <1>3 DEF Batch!End, Batch!Current, Batch!Data, txVars

\* What the receiver does outside a file ends the call or changes nothing.
LEMMA HeaderDelivers ==
  ASSUME BatchInv, BatchInv', InsideOpen, UNCHANGED txVars,
         HeaderTimeout(txDone) \/ HeaderRefuse \/ HeaderCancel \/ BatchEnd
  PROVE  Batch!RxReturns \/ UNCHANGED <<rxFiles, rxStatus, txStatus>>
<1>1. /\ rxStatus = "RUN" /\ rxPhase = "header" /\ UNCHANGED <<rxFiles, txStatus>>
      /\ rxStatus' \in {"RUN", "TIMEOUT", "CANCEL", "OK"}
  BY DEF HeaderTimeout, HeaderRefuse, HeaderRetry, HeaderCancel, BatchEnd, RxReturn,
         RxQuiet, RxReads, RxAt, txVars
<1>2. Batch!Outside
  BY <1>1, Whereabouts
<1>3. CASE rxStatus' = "RUN"
  BY <1>1, <1>3
<1>4. CASE rxStatus' = "OK"
  <2>1. BatchFollowed'
    BY BatchShows, PTL
  <2>2. Len(rxFiles) = NFiles
    BY <1>1, <1>4, <2>1 DEF BatchFollowed
  <2> QED BY <1>1, <1>2, <1>4, <2>2
      DEF Batch!RxReturns, Batch!Succeeded, Batch!Current, Batch!N, NFiles
<1>5. CASE rxStatus' \in {"TIMEOUT", "CANCEL"}
  <2>1. rxStatus' \in Status \ {"RUN", "OK"}
    BY <1>5 DEF Status
  <2> QED BY <1>1, <1>2, <2>1 DEF Batch!RxReturns
<1> QED BY <1>1, <1>3, <1>4, <1>5

\* Every step of a batch is one of the abstract delivery or changes nothing
\* there.
LEMMA BatchStepDelivers ==
  ASSUME Timely, BatchInv, BatchInv', TimelyInv, TimelyInv', InsideOpen, [Next]_vars
  PROVE  [Batch!Next]_(Batch!vars)
<1> DEFINE Idle == UNCHANGED <<rxFiles, rxStatus, txStatus>>
           Abstract == \/ Batch!Start \/ Batch!Deliver \/ Batch!End
                       \/ Batch!RxReturns \/ Batch!TxReturns \/ Idle
<1>1. SUFFICES Abstract
  BY HarmGrows, Zenon DEF Batch!Next, Batch!N, NFiles, Harmed
<1>2. CASE Rx
  <2>1. /\ RxStep(txDone) /\ UNCHANGED txVars /\ UNCHANGED txStatus
        /\ spoilt' = IF NotStored THEN spoilt \cup {Len(rxFiles)} ELSE spoilt
    BY <1>2 DEF Rx, txVars
  <2>2. CASE HeaderTimeout(txDone) \/ HeaderRefuse \/ HeaderCancel \/ BatchEnd
    BY <2>1, <2>2, HeaderDelivers
  <2>3. CASE FileStart
    BY <2>1, <2>3, StartDelivers
  <2>4. CASE DataTimeout(txDone) \/ DataCancel \/ DataSequence
    <3>1. /\ rxStatus = "RUN" /\ rxPhase = "data"
          /\ \/ UNCHANGED <<rxFiles, rxStatus>>
             \/ \E st \in {"TIMEOUT", "CANCEL", "SEQUENCE"} : FileEnd(st) /\ rxStatus' = st
      BY <2>4 DEF DataTimeout, DataCancel, DataSequence, RxReturn, RxQuiet, RxReads, RxAt
    <3> QED BY <2>1, <3>1, FailureDelivers
  <2>5. CASE DataRefuse \/ DataDuplicate \/ DataEot
    BY <2>1, <2>5 DEF DataRefuse, DataDuplicate, DataEot, rxVars
  <2>6. CASE DataAccept
    <3>1. UNCHANGED aborts
      BY <2>6 DEF DataAccept
    <3> QED BY <2>1, <2>6, <3>1, AcceptDelivers
  <2>7. CASE SecondEot(txDone)
    <3>1. UNCHANGED aborts /\ rxBlocks' = rxBlocks
      BY <2>7 DEF SecondEot
    <3>2. rxBlocks \in Nat
      BY DEF BatchInv, TypeOK, RxTypeOK
    <3>3. UNCHANGED spoilt
      BY <2>1, <3>1, <3>2 DEF NotStored
    <3> QED BY <2>1, <2>7, <3>1, <3>3, SecondEotDelivers
  <2> QED BY <2>1, <2>2, <2>3, <2>4, <2>5, <2>6, <2>7 DEF RxStep
<1>3. CASE Tx
  <2>1. TxStep(rxDone) /\ UNCHANGED <<rxFiles, rxStatus>>
    BY <1>3 DEF Tx, rxVars
  <2>2. \/ UNCHANGED txStatus
        \/ txStatus = "RUN" /\ txStatus' \in {"TIMEOUT", "CANCEL", "OK"}
    BY <2>1 DEF TxStep, TxStart, TxStartRetry, TxCancelled, TxBlock0Acked, TxNoStart, TxGo,
                TxAcked, TxResend, TxEotNaked, TxFileSent, NextFile, SendFrom, SendBlock,
                TxGoTo, TxReturn, TxReadsOther, TxReads, TxAt
  <2>3. CASE txStatus = "RUN" /\ txStatus' = "OK"
    <3> BatchFollowed'
      BY BatchShows, PTL
    <3>1. /\ Len(rxFiles) = NFiles
          /\ \A i \in 1 .. NFiles : rxFiles[i].end = "OK"
      BY <2>1, <2>3 DEF BatchFollowed
    <3>2. NFiles \in Nat
      BY Shapes DEF BatchInv
    <3>3. Batch!Outside
      BY <3>1, <3>2 DEF Batch!Outside, Batch!Current
    <3> QED BY <2>1, <2>3, <3>1, <3>3
        DEF Batch!TxReturns, Batch!Succeeded, Batch!Current, Batch!N, NFiles
  <2>4. CASE txStatus = "RUN" /\ txStatus' \in {"TIMEOUT", "CANCEL"}
    <3>1. txStatus' \in Status \ {"RUN", "OK"}
      BY <2>4 DEF Status
    <3> QED BY <2>1, <2>4, <3>1 DEF Batch!TxReturns
  <2> QED BY <2>1, <2>2, <2>3, <2>4
<1>4. CASE Line \/ Returned \/ UNCHANGED vars
  BY <1>4 DEF Line, Returned, vars, rxVars, txVars
<1> QED BY <1>2, <1>3, <1>4 DEF Next

\* Where timeouts exceed every delay, a batch implements the abstract delivery:
\* files in order, their own blocks in order, complete where the file ends with
\* YMODEM_OK and was not harmed, and success at either end only for all.
THEOREM DeliversBatch ==
  ASSUME Timely
  PROVE  Spec => ImplementsBatch
<1> DEFINE Inv == BatchInv /\ TimelyInv /\ InsideOpen
<1>1. Init => Inv
  BY BatchInit, TimelyInit DEF Init, RxInit, InsideOpen
<1>2. Inv /\ [Next]_vars => Inv'
  BY BatchStep, TimelyStep, InsideOpenStep
<1>3. Init => Batch!Init
  BY SerialLineAssumption DEF Init, RxInit, TxInit, Batch!Init
<1>4. Inv /\ Inv' /\ [Next]_vars => [Batch!Next]_(Batch!vars)
  BY BatchStepDelivers
<1> HIDE DEF Inv
<1> QED BY <1>1, <1>2, <1>3, <1>4, PTL DEF Spec, ImplementsBatch, Batch!Spec

=============================================================================
