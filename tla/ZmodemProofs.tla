---------------------------- MODULE ZmodemProofs ----------------------------
(***************************************************************************)
(* Proofs about a ZMODEM session of two ends of this library: the types,   *)
(* the order of what is stored and the pace of the transmitter, for every  *)
(* batch, line capacity, number of faults and choice of timeouts; and the  *)
(* abstract delivery of a batch, implemented step by step.                 *)
(*                                                                         *)
(* The argument: what is in flight to the receiver is always a stretch of  *)
(* one file's stream, in the order of the stream, and the two ends stand   *)
(* in one of six positions to each other (Course).  No item says which     *)
(* file it belongs to but the subpackets; the positions do.                *)
(***************************************************************************)
EXTENDS Zmodem, TLAPS

Live(item) == item.type \in ToRxHeaders \cup {"sub"}

\* The place of an item in the stream of its file; 2 is the subpacket with
\* the name, 4 one with data.
Stage(item) ==
    CASE item.type = "rqinit" -> 0
      [] item.type = "file" -> 1
      [] item.type = "sub" -> IF item.load # Padding /\ item.load[2] = 0 THEN 2 ELSE 4
      [] item.type = "data" -> 3
      [] item.type = "eof" -> 5
      [] OTHER -> 6

\* A data subpacket with a block, not with padding
Block(item) == item.type = "sub" /\ item.load # Padding

\* Item b may follow item a.
MayFollow(a, b) ==
    /\ Stage(a) <= Stage(b)
    /\ Stage(a) = Stage(b) => Stage(a) \in {0, 4}
    /\ Block(a) /\ Block(b) => a.load[2] < b.load[2]

Ordered(q) ==
    \A i, j \in 1 .. Len(q) : i < j /\ Live(q[i]) /\ Live(q[j]) => MayFollow(q[i], q[j])

\* Only items of these stages are in flight.
Flight(stages) == \A i \in 1 .. Len(toRx) : Live(toRx[i]) => Stage(toRx[i]) \in stages

\* What blocks are in flight: of the file announced, sent already, not stored.
BlocksInFlight ==
    \A i \in 1 .. Len(toRx) : Block(toRx[i]) =>
       /\ toRx[i].load[1] = txFile
       /\ toRx[i].load[2] <= txBlock

NotStoredYet ==
    \A i \in 1 .. Len(toRx), k \in 1 .. Len(rxFiles[txFile].data) :
       Block(toRx[i]) /\ rxFiles[txFile].data[k] # Padding =>
          rxFiles[txFile].data[k][2] < toRx[i].load[2]

StoredWereSent ==
    \A k \in 1 .. Len(rxFiles[txFile].data) : rxFiles[txFile].data[k][2] <= txBlock

No(types) == \A i \in 1 .. Len(toTx) : toTx[i].type \notin types

\* Nothing the transmitter waits for is behind the position of the file.
PositionLast ==
    \A i, j \in 1 .. Len(toTx) :
       i < j /\ toTx[i].type = "rpos" => toTx[j].type \notin {"rinit", "rpos"}

-----------------------------------------------------------------------------
(* The six positions *)

Starting ==
    /\ txPhase = "init" /\ txFile = 1 /\ txBlock = 0
    /\ rxPhase = "idle" /\ Len(rxFiles) = 0
    /\ Flight({0}) /\ No({"rpos"})

Announced ==
    /\ txPhase = "pos" /\ txFile <= NFiles /\ txBlock = 0
    /\ Len(rxFiles) = txFile - 1
    /\ \/ rxPhase = "idle" /\ Flight({0, 1, 2})
       \/ rxPhase = "name" /\ Flight({2})
    /\ BlocksInFlight
    /\ No({"rpos"})

Positioned ==
    /\ txPhase = "pos" /\ txFile <= NFiles /\ txBlock = 0
    /\ Len(rxFiles) = txFile /\ rxFiles[txFile].data = <<>>
    /\ rxPhase = "file" /\ Flight({})
    /\ PositionLast

Streaming ==
    /\ txPhase \in {"send", "end"} /\ txFile <= NFiles
    /\ Len(rxFiles) = txFile
    /\ rxPhase \in {"file", "data"}
    /\ Flight(IF txPhase = "send" THEN {3, 4} ELSE {3, 4, 5})
    /\ BlocksInFlight /\ NotStoredYet /\ StoredWereSent
    /\ No({"rinit", "rpos"})

FileOver ==
    /\ txPhase = "end" /\ txFile <= NFiles
    /\ Len(rxFiles) = txFile /\ rxFiles[txFile].end = "OK"
    /\ rxPhase = "idle" /\ Flight({})
    /\ No({"rpos"})

Finishing ==
    /\ txPhase = "fin" /\ txFile = NFiles + 1
    /\ Len(rxFiles) = txFile - 1
    /\ rxPhase = "idle" /\ Flight({0, 6})

Course ==
    Starting \/ Announced \/ Positioned \/ Streaming \/ FileOver \/ Finishing

\* Every earlier file was reported as received, whether or not the
\* transmitter still runs.
EarlierOk ==
    \A f \in 1 .. txFile - 1 : f <= Len(rxFiles) /\ rxFiles[f].end = "OK"

\* The receiver only ever asks for the start of a file.
FromStart == \A i \in 1 .. Len(toTx) : toTx[i].type = "rpos" => toTx[i].pos = 0

StatusFits ==
    /\ rxStatus = "OFF" => rxPhase = "idle" /\ rxFiles = <<>>
    /\ txStatus = "OFF" => txPhase = "init"
    /\ rxStatus = "OK" => txPhase = "fin"
    /\ txStatus = "OK" => txPhase = "fin"

\* The inductive invariant
IInv ==
    /\ TypeOK
    /\ Ordered(toRx) /\ FromStart /\ StatusFits
    /\ EarlierOk /\ StoredInOrder
    /\ Course

-----------------------------------------------------------------------------
(* The queues *)

Dead == {"bad", "junk", "brk"}

\* r is what is left of q when items are taken from its front, the others
\* kept or damaged in place.
Thinned(r, q) ==
    \E k \in 0 .. Len(q) :
       /\ Len(r) = Len(q) - k
       /\ \A i \in 1 .. Len(r) : r[i] = q[i + k] \/ r[i].type \in Dead

\* What a step leaves on its way to the receiver was on its way before.
KeptRx ==
    /\ toRx' \in Seq(RxItem) /\ Ordered(toRx')
    /\ \A i \in 1 .. Len(toRx') :
          Live(toRx'[i]) => \E m \in 1 .. Len(toRx) : toRx'[i] = toRx[m]

KeptTx ==
    /\ toTx' \in Seq(TxItem)
    /\ FromStart'
    /\ \A i \in 1 .. Len(toTx') :
          toTx'[i].type \notin Dead => \E m \in 1 .. Len(toTx) : toTx'[i] = toTx[m]
    /\ PositionLast => PositionLast'

\* Taking the first item leaves a thinned queue.
LEMMA TailThinned ==
  ASSUME NEW S, NEW q \in Seq(S), q # <<>>
  PROVE  Tail(q) \in Seq(S) /\ Thinned(Tail(q), q)
<1>1. Len(Tail(q)) = Len(q) - 1 /\ 1 \in 0 .. Len(q)
  OBVIOUS
<1>2. \A i \in 1 .. Len(q) - 1 : Tail(q)[i] = q[i + 1]
  OBVIOUS
<1> QED BY <1>1, <1>2 DEF Thinned

\* A queue is a thinned form of itself.
LEMMA SameThinned ==
  ASSUME NEW S, NEW q \in Seq(S)
  PROVE  Thinned(q, q)
<1>1. 0 \in 0 .. Len(q) /\ Len(q) = Len(q) - 0
  OBVIOUS
<1>2. \A i \in 1 .. Len(q) : i + 0 = i
  OBVIOUS
<1> QED BY <1>1, <1>2, Zenon DEF Thinned

\* An end that starts finds the whole queue or nothing.
LEMMA WaitingThinned ==
  ASSUME NEW S, NEW q \in Seq(S), NEW r \in Waiting(q)
  PROVE  r \in Seq(S) /\ Thinned(r, q)
<1>1. CASE r = q
  BY <1>1, SameThinned, Zenon
<1>2. CASE r = <<>>
  <2>1. /\ <<>> \in Seq(S) /\ Len(q) \in 0 .. Len(q)
        /\ Len(<<>>) = Len(q) - Len(q) /\ 1 .. Len(<<>>) = {}
    OBVIOUS
  <2>2. Thinned(<<>>, q)
    BY <2>1 DEF Thinned
  <2> QED BY <1>2, <2>1, <2>2
<1> QED BY <1>1, <1>2 DEF Waiting

\* Damaging one item thins the queue: its place now holds a dead item.
LEMMA DamagedThinned ==
  ASSUME NEW S, NEW q \in Seq(S), q # <<>>, NEW b \in S, b.type \in Dead
  PROVE  <<b>> \o Tail(q) \in Seq(S) /\ Thinned(<<b>> \o Tail(q), q)
<1> DEFINE r == <<b>> \o Tail(q)
<1>1. r \in Seq(S) /\ Len(r) = Len(q) /\ r[1] = b
  OBVIOUS
<1>2. \A i \in 1 .. Len(r) : i # 1 => r[i] = q[i]
  OBVIOUS
<1>3. \A i \in 1 .. Len(r) : r[i] = q[i + 0] \/ r[i].type \in Dead
  BY <1>1, <1>2
<1> HIDE DEF r
<1>4. 0 \in 0 .. Len(q) /\ Len(r) = Len(q) - 0
  BY <1>1
<1>5. Thinned(r, q)
  BY <1>3, <1>4 DEF Thinned
<1> QED BY <1>1, <1>5 DEF r

\* Thinning keeps the order of the stream, and brings nothing new.
LEMMA ThinnedRx ==
  ASSUME toRx \in Seq(RxItem), toRx' \in Seq(RxItem), Ordered(toRx),
         Thinned(toRx', toRx)
  PROVE  KeptRx
<1>1. PICK k \in 0 .. Len(toRx) :
         /\ Len(toRx') = Len(toRx) - k
         /\ \A i \in 1 .. Len(toRx') :
               toRx'[i] = toRx[i + k] \/ toRx'[i].type \in Dead
  BY DEF Thinned
<1>2. \A i \in 1 .. Len(toRx') : /\ i + k \in 1 .. Len(toRx)
                                 /\ Live(toRx'[i]) => toRx'[i] = toRx[i + k]
  BY <1>1 DEF Live, Dead, ToRxHeaders
<1>3. \A i, j \in 1 .. Len(toRx') : i < j => i + k < j + k
  BY <1>1
<1>4. Ordered(toRx')
  BY <1>2, <1>3 DEF Ordered
<1> QED BY <1>2, <1>4 DEF KeptRx

LEMMA ThinnedTx ==
  ASSUME toTx \in Seq(TxItem), toTx' \in Seq(TxItem), FromStart,
         Thinned(toTx', toTx)
  PROVE  KeptTx
<1>1. PICK k \in 0 .. Len(toTx) :
         /\ Len(toTx') = Len(toTx) - k
         /\ \A i \in 1 .. Len(toTx') :
               toTx'[i] = toTx[i + k] \/ toTx'[i].type \in Dead
  BY DEF Thinned
<1>2. \A i \in 1 .. Len(toTx') : /\ i + k \in 1 .. Len(toTx)
                                 /\ toTx'[i].type \notin Dead => toTx'[i] = toTx[i + k]
  BY <1>1
<1>3. \A i, j \in 1 .. Len(toTx') : i < j => i + k < j + k
  BY <1>1
<1>4. PositionLast => PositionLast'
  BY <1>2, <1>3 DEF PositionLast, Dead
<1>5. FromStart'
  BY <1>2 DEF FromStart, Dead
<1> QED BY <1>2, <1>4, <1>5 DEF KeptTx

\* Nothing happened to a queue.
LEMMA SameRx ==
  ASSUME toRx \in Seq(RxItem), Ordered(toRx), UNCHANGED toRx
  PROVE  KeptRx
BY DEF KeptRx

LEMMA SameTx ==
  ASSUME toTx \in Seq(TxItem), FromStart, UNCHANGED toTx
  PROVE  KeptTx
BY DEF KeptTx, FromStart, PositionLast

\* The place of each item in the stream
LEMMA Stages ==
  ASSUME NEW item \in RxItem
  PROVE  /\ Live(item) => Stage(item) \in 0 .. 6
         /\ item.type = "rqinit" => Stage(item) = 0
         /\ item.type = "file" => Stage(item) = 1
         /\ item.type = "data" => Stage(item) = 3
         /\ item.type = "eof" => Stage(item) = 5
         /\ item.type = "fin" => Stage(item) = 6
         /\ item.type = "sub" => Stage(item) \in {2, 4}
         /\ item.type = "sub" => (Stage(item) = 2 <=> item.load # Padding /\ item.load[2] = 0)
         /\ item.type \in ToRxHeaders => Live(item) /\ ~ Block(item)
         /\ item.type = "sub" => Live(item)
         /\ item.type \in Dead => ~ Live(item) /\ ~ Block(item)
         /\ Block(item) => Live(item) /\ item.load[1] \in Nat /\ item.load[2] \in Nat
         /\ item.type \in ToRxHeaders \cup {"sub"} \cup Dead
<1>1. item.type \in ToRxHeaders \cup {"sub", "bad", "junk", "brk"}
  BY DEF RxItem
<1>2. item.load \in Payload
  BY DEF RxItem
<1>3. item.load[1] \in Nat /\ item.load[2] \in Nat
  BY <1>2 DEF Payload
<1> QED BY <1>1, <1>3 DEF Live, Stage, Block, Dead, ToRxHeaders

LEMMA RxHeaders ==
  ASSUME NEW ty \in ToRxHeaders \cup {"bad", "junk", "brk"}
  PROVE  RxHeader(ty) \in RxItem /\ RxHeader(ty).type = ty
BY DEF RxHeader, RxItem, Padding, Payload

LEMMA TxHeaders ==
  ASSUME NEW ty \in ToTxHeaders \cup {"bad", "junk", "brk"}
  PROVE  TxHeader(ty) \in TxItem /\ TxHeader(ty).type = ty /\ TxHeader(ty).pos = 0
BY DEF TxHeader, TxItem

LEMMA Subpackets ==
  ASSUME NEW load \in Payload, NEW end \in BOOLEAN
  PROVE  /\ Subpacket(load, end) \in RxItem
         /\ Subpacket(load, end).type = "sub" /\ Subpacket(load, end).load = load
BY DEF Subpacket, RxItem

\* Sending what may follow everything in flight keeps the order.
LEMMA OrderedSend ==
  ASSUME NEW q \in Seq(RxItem), NEW b \in RxItem, Ordered(q),
         \A i \in 1 .. Len(q) : Live(q[i]) => MayFollow(q[i], b)
  PROVE  Ordered(Send(q, b))
<1> DEFINE r == Send(q, b)
<1>1. /\ r \in Seq(RxItem) /\ Len(r) \in Len(q) .. Len(q) + 1
      /\ \A i \in 1 .. Len(r) : r[i] = IF i <= Len(q) THEN q[i] ELSE b
  BY SerialLineAssumption DEF Send
<1> HIDE DEF r
<1>2. \A i, j \in 1 .. Len(r) : i < j => i \in 1 .. Len(q) /\ r[i] = q[i]
  BY <1>1
<1>3. ASSUME NEW i \in 1 .. Len(r), NEW j \in 1 .. Len(r), i < j,
             Live(r[i]), Live(r[j])
      PROVE  MayFollow(r[i], r[j])
  <2>1. CASE j <= Len(q)
    BY <1>1, <1>2, <1>3, <2>1 DEF Ordered
  <2>2. CASE j > Len(q)
    BY <1>1, <1>2, <1>3, <2>2
  <2> QED BY <1>1, <2>1, <2>2
<1>4. Ordered(r)
  BY <1>3 DEF Ordered
<1> QED BY <1>4 DEF r

\* The line keeps what it does not lose or damage.
LEMMA LineKeeps ==
  ASSUME LineTypeOK, Ordered(toRx), FromStart, ZmodemLineNext
  PROVE  /\ KeptRx /\ KeptTx
         /\ faults' \in 0 .. MaxFaults /\ aborts' \in 0 .. MaxAborts
<1>1. toRx \in Seq(RxItem) /\ toTx \in Seq(TxItem)
  BY DEF LineTypeOK
<1>2. faults' \in 0 .. MaxFaults /\ aborts' \in 0 .. MaxAborts
  BY SerialLineAssumption
  DEF LineTypeOK, ZmodemLineNext, LineNext, LoseToRx, LoseToTx, DamageToRx,
      DamageToTx, PressAbort, Fault
<1>3. CASE LoseToRx
  <2>1. toRx # <<>> /\ toRx' = Tail(toRx) /\ UNCHANGED toTx
    BY <1>3 DEF LoseToRx
  <2>2. toRx' \in Seq(RxItem) /\ Thinned(toRx', toRx)
    BY <1>1, <2>1, TailThinned
  <2> QED BY <1>1, <1>2, <2>1, <2>2, ThinnedRx, SameTx
<1>4. CASE LoseToTx
  <2>1. toTx # <<>> /\ toTx' = Tail(toTx) /\ UNCHANGED toRx
    BY <1>4 DEF LoseToTx
  <2>2. toTx' \in Seq(TxItem) /\ Thinned(toTx', toTx)
    BY <1>1, <2>1, TailThinned
  <2> QED BY <1>1, <1>2, <2>1, <2>2, ThinnedTx, SameRx
<1> DEFINE P == ToRxHeaders \cup ToTxHeaders
<1>5. CASE DamageToRx(P)
  <2>1. PICK ty \in {"bad", "junk"} :
           toRx' = <<[Head(toRx) EXCEPT !.type = ty]>> \o Tail(toRx)
    BY <1>5 DEF DamageToRx, Damaged
  <2>2. toRx # <<>> /\ UNCHANGED toTx
    BY <1>5 DEF DamageToRx
  <2>3. Head(toRx) \in RxItem
    BY <1>1, <2>2
  <2>4. /\ [Head(toRx) EXCEPT !.type = ty] \in RxItem
        /\ [Head(toRx) EXCEPT !.type = ty].type = ty
    BY <2>3 DEF RxItem
  <2>5. [Head(toRx) EXCEPT !.type = ty].type \in Dead
    BY <2>4 DEF Dead
  <2>6. toRx' \in Seq(RxItem) /\ Thinned(toRx', toRx)
    BY <1>1, <2>1, <2>2, <2>4, <2>5, DamagedThinned
  <2> QED BY <1>1, <1>2, <2>2, <2>6, ThinnedRx, SameTx
<1>6. CASE DamageToTx(P)
  <2>1. PICK ty \in {"bad", "junk"} :
           toTx' = <<[Head(toTx) EXCEPT !.type = ty]>> \o Tail(toTx)
    BY <1>6 DEF DamageToTx, Damaged
  <2>2. toTx # <<>> /\ UNCHANGED toRx
    BY <1>6 DEF DamageToTx
  <2>3. Head(toTx) \in TxItem
    BY <1>1, <2>2
  <2>4. /\ [Head(toTx) EXCEPT !.type = ty] \in TxItem
        /\ [Head(toTx) EXCEPT !.type = ty].type = ty
    BY <2>3 DEF TxItem
  <2>5. [Head(toTx) EXCEPT !.type = ty].type \in Dead
    BY <2>4 DEF Dead
  <2>6. toTx' \in Seq(TxItem) /\ Thinned(toTx', toTx)
    BY <1>1, <2>1, <2>2, <2>4, <2>5, DamagedThinned
  <2> QED BY <1>1, <1>2, <2>2, <2>6, ThinnedTx, SameRx
<1>7. CASE PressAbort(RxHeader("brk"), TxHeader("brk"))
  <2>1. CASE toRx' = Send(toRx, RxHeader("brk")) /\ UNCHANGED toTx
    <3> DEFINE b == RxHeader("brk")
    <3>1. b \in RxItem /\ ~ Live(b)
      BY RxHeaders, Stages DEF Dead
    <3> HIDE DEF b
    <3>2. /\ toRx' \in Seq(RxItem)
          /\ Len(toRx') \in Len(toRx) .. Len(toRx) + 1
          /\ \A i \in 1 .. Len(toRx') :
                toRx'[i] = IF i <= Len(toRx) THEN toRx[i] ELSE b
      BY <1>1, <2>1, <3>1, SerialLineAssumption DEF b, Send
    <3>3. \A i \in 1 .. Len(toRx') :
             Live(toRx'[i]) => i \in 1 .. Len(toRx) /\ toRx'[i] = toRx[i]
      BY <3>1, <3>2
    <3>4. Ordered(toRx')
      BY <3>2, <3>3 DEF Ordered
    <3>5. KeptRx
      BY <3>2, <3>3, <3>4 DEF KeptRx
    <3> QED BY <1>1, <1>2, <2>1, <3>5, SameTx
  <2>2. CASE toTx' = Send(toTx, TxHeader("brk")) /\ UNCHANGED toRx
    <3> DEFINE b == TxHeader("brk")
    <3>1. b \in TxItem /\ b.type \in Dead
      BY TxHeaders DEF Dead
    <3> HIDE DEF b
    <3>2. /\ toTx' \in Seq(TxItem)
          /\ Len(toTx') \in Len(toTx) .. Len(toTx) + 1
          /\ \A i \in 1 .. Len(toTx') :
                toTx'[i] = IF i <= Len(toTx) THEN toTx[i] ELSE b
      BY <1>1, <2>2, <3>1, SerialLineAssumption DEF b, Send
    <3>3. \A i \in 1 .. Len(toTx') :
             toTx'[i].type \notin Dead => i \in 1 .. Len(toTx) /\ toTx'[i] = toTx[i]
      BY <3>1, <3>2
    <3>4. FromStart'
      BY <3>2, <3>3 DEF FromStart, Dead
    <3>5. PositionLast => PositionLast'
      BY <3>2, <3>3 DEF PositionLast, Dead
    <3> QED BY <1>1, <1>2, <2>2, <3>2, <3>3, <3>4, <3>5, SameRx DEF KeptTx
  <2> QED BY <1>7, <2>1, <2>2 DEF PressAbort
<1> QED
  BY <1>2, <1>3, <1>4, <1>5, <1>6, <1>7 DEF ZmodemLineNext, LineNext

-----------------------------------------------------------------------------
(* The files *)

\* What StoredInOrder says of file i
FileOk(r, i) ==
    /\ r.name = i
    /\ \A k \in 1 .. Len(r.data) : r.data[k] = Padding \/ r.data[k][1] = i
    /\ \A j, k \in 1 .. Len(r.data) :
          j < k /\ Padding \notin {r.data[j], r.data[k]} => r.data[j][2] < r.data[k][2]

LEMMA FilesOk == StoredInOrder <=> \A i \in 1 .. Len(rxFiles) : FileOk(rxFiles[i], i)
BY DEF StoredInOrder, FileOk

\* on_file_end changes nothing but the reported end of the last file.
LEMMA EndedFacts ==
  ASSUME NEW files \in Seq(FileRecord), files # <<>>,
         NEW st \in {"OK", "TIMEOUT", "IO"}
  PROVE  /\ Ended(files, st) \in Seq(FileRecord)
         /\ Len(Ended(files, st)) = Len(files)
         /\ \A i \in 1 .. Len(files) - 1 : Ended(files, st)[i] = files[i]
         /\ Ended(files, st)[Len(files)].end = st
         /\ Ended(files, st)[Len(files)].name = files[Len(files)].name
         /\ Ended(files, st)[Len(files)].data = files[Len(files)].data
<1> DEFINE n == Len(files)
           r == [files[n] EXCEPT !.end = st]
<1>1. n \in Nat \ {0} /\ n \in DOMAIN files /\ files[n] \in FileRecord
  OBVIOUS
<1>2. /\ r \in FileRecord /\ r.end = st
      /\ r.name = files[n].name /\ r.data = files[n].data
  BY <1>1 DEF FileRecord
<1>3. Ended(files, st) = [files EXCEPT ![n] = r]
  BY DEF Ended
<1> HIDE DEF r
<1> QED BY <1>1, <1>2, <1>3

\* on_file_start adds a file without data.
LEMMA StartedFacts ==
  ASSUME NEW files \in Seq(FileRecord), NEW name \in Nat,
         NEW after \in Started(files, name)
  PROVE  /\ after \in Seq(FileRecord)
         /\ Len(after) = Len(files) + 1
         /\ \A i \in 1 .. Len(files) : after[i] = files[i]
         /\ after[Len(files) + 1].name = name
         /\ after[Len(files) + 1].data = <<>>
<1>1. PICK o \in {TRUE, ~ StoreFails} :
         after = Append(files, [name |-> name, data |-> <<>>, open |-> o, end |-> "none"])
  BY DEF Started
<1> DEFINE r == [name |-> name, data |-> <<>>, open |-> o, end |-> "none"]
<1>2. r \in FileRecord /\ r.name = name /\ r.data = <<>>
  <2>1. o \in BOOLEAN
    BY BatchAssumption, Zenon
  <2>2. <<>> \in Seq(Payload)
    OBVIOUS
  <2> QED BY <2>1, <2>2 DEF FileRecord
<1>3. after = Append(files, r)
  BY <1>1, Zenon
<1> HIDE DEF r
<1> QED BY <1>2, <1>3

\* on_data appends a payload to the last file, or changes nothing.
LEMMA StoredFacts ==
  ASSUME NEW files \in Seq(FileRecord), files # <<>>, NEW load \in Payload,
         NEW after \in Stored(files, load)
  PROVE  \/ after = files
         \/ /\ after \in Seq(FileRecord)
            /\ Len(after) = Len(files)
            /\ \A i \in 1 .. Len(files) - 1 : after[i] = files[i]
            /\ after[Len(files)].name = files[Len(files)].name
            /\ after[Len(files)].end = files[Len(files)].end
            /\ after[Len(files)].data = Append(files[Len(files)].data, load)
<1> DEFINE n == Len(files)
           r == [files[n] EXCEPT !.data = Append(@, load)]
<1>1. n \in Nat \ {0} /\ n \in DOMAIN files /\ files[n] \in FileRecord
  OBVIOUS
<1>2. /\ r \in FileRecord /\ r.end = files[n].end
      /\ r.name = files[n].name /\ r.data = Append(files[n].data, load)
  <2>1. files[n].data \in Seq(Payload)
    BY <1>1 DEF FileRecord
  <2>2. Append(files[n].data, load) \in Seq(Payload)
    BY <2>1
  <2> QED BY <1>1, <2>2 DEF FileRecord
<1>3. after = files \/ after = [files EXCEPT ![n] = r]
  BY <1>1, Zenon DEF Stored
<1> HIDE DEF r
<1>4. CASE after = [files EXCEPT ![n] = r]
  BY <1>1, <1>2, <1>4
<1> QED BY <1>3, <1>4

-----------------------------------------------------------------------------
(* The steps *)

\* A step that changes neither the positions of the two ends nor the files,
\* and brings nothing new on the line, keeps the invariant.
LEMMA QuietStep ==
  ASSUME IInv, KeptRx, KeptTx, UNCHANGED <<rxPhase, rxFiles, txPhase, txFile, txBlock>>,
         faults' \in 0 .. MaxFaults, aborts' \in 0 .. MaxAborts,
         rxStatus' \in Status, txStatus' \in Status,
         rxStatus' = "OFF" => rxStatus = "OFF",
         txStatus' = "OFF" => txStatus = "OFF",
         rxStatus' = "OK" => rxStatus = "OK",
         txStatus' = "OK" => txStatus = "OK" \/ txPhase = "fin"
  PROVE  IInv'
<1> USE DEF IInv
<1>1. TypeOK'
  BY DEF TypeOK, LineTypeOK, RxTypeOK, TxTypeOK, KeptRx, KeptTx
<1>2. Ordered(toRx)' /\ FromStart' /\ StatusFits'
  BY DEF KeptRx, KeptTx, StatusFits, Ordered
<1>3. EarlierOk' /\ StoredInOrder'
  BY DEF EarlierOk, StoredInOrder
<1>4. \A S : Flight(S) => Flight(S)'
  BY DEF Flight, KeptRx
<1>5. No({"rpos"}) => No({"rpos"})'
  BY DEF No, KeptTx, Dead
<1>6. No({"rinit", "rpos"}) => No({"rinit", "rpos"})'
  BY DEF No, KeptTx, Dead
<1>7. BlocksInFlight => BlocksInFlight'
  BY DEF BlocksInFlight, KeptRx, Live, Block
<1>8. NotStoredYet => NotStoredYet'
  BY DEF NotStoredYet, KeptRx, Live, Block
<1>9. Course'
  <2>1. CASE Starting
    BY <1>4, <1>5, <2>1 DEF Starting, Course
  <2>2. CASE Announced
    BY <1>4, <1>5, <1>7, <2>2 DEF Announced, Course
  <2>3. CASE Positioned
    BY <1>4, <2>3 DEF Positioned, Course, KeptTx
  <2>4. CASE Streaming
    BY <1>4, <1>6, <1>7, <1>8, <2>4 DEF Streaming, StoredWereSent, Course
  <2>5. CASE FileOver
    BY <1>4, <1>5, <2>5 DEF FileOver, Course
  <2>6. CASE Finishing
    BY <1>4, <2>6 DEF Finishing, Course
  <2> QED BY <2>1, <2>2, <2>3, <2>4, <2>5, <2>6 DEF Course
<1> QED BY <1>1, <1>2, <1>3, <1>9

\* A read takes the first item, or gives up.
LEMMA ReadRx ==
  ASSUME toRx \in Seq(RxItem), Ordered(toRx),
         \/ toRx # <<>> /\ toRx' = Tail(toRx)
         \/ UNCHANGED toRx
  PROVE  KeptRx
<1>1. CASE toRx # <<>> /\ toRx' = Tail(toRx)
  <2>1. toRx' \in Seq(RxItem) /\ Thinned(toRx', toRx)
    BY <1>1, TailThinned
  <2> QED BY <2>1, ThinnedRx
<1>2. CASE UNCHANGED toRx
  BY <1>2, SameRx
<1> QED BY <1>1, <1>2

LEMMA ReadTx ==
  ASSUME toTx \in Seq(TxItem), FromStart,
         \/ toTx # <<>> /\ toTx' = Tail(toTx)
         \/ UNCHANGED toTx
  PROVE  KeptTx
<1>1. CASE toTx # <<>> /\ toTx' = Tail(toTx)
  <2>1. toTx' \in Seq(TxItem) /\ Thinned(toTx', toTx)
    BY <1>1, TailThinned
  <2> QED BY <2>1, ThinnedTx
<1>2. CASE UNCHANGED toTx
  BY <1>2, SameTx
<1> QED BY <1>1, <1>2

\* What is read comes before all that is left.
LEMMA HeadRx ==
  ASSUME toRx \in Seq(RxItem), Ordered(toRx), toRx # <<>>, toRx' = Tail(toRx)
  PROVE  /\ Head(toRx) = toRx[1] /\ 1 \in 1 .. Len(toRx)
         /\ Head(toRx) \in RxItem
         /\ \A i \in 1 .. Len(toRx') : /\ i + 1 \in 1 .. Len(toRx)
                                       /\ toRx'[i] = toRx[i + 1]
         /\ Live(Head(toRx)) =>
               \A i \in 1 .. Len(toRx') :
                  Live(toRx'[i]) => MayFollow(Head(toRx), toRx'[i])
<1>1. Head(toRx) = toRx[1] /\ 1 \in 1 .. Len(toRx) /\ Head(toRx) \in RxItem
  OBVIOUS
<1>2. \A i \in 1 .. Len(toRx') : /\ i + 1 \in 1 .. Len(toRx) /\ 1 < i + 1
                                 /\ toRx'[i] = toRx[i + 1]
  OBVIOUS
<1>3. Live(Head(toRx)) =>
         \A i \in 1 .. Len(toRx') : Live(toRx'[i]) => MayFollow(Head(toRx), toRx'[i])
  BY <1>1, <1>2 DEF Ordered
<1> QED BY <1>1, <1>2, <1>3

\* The receive steps that only take items off the line
LEMMA RxQuietStep ==
  ASSUME IInv, NEW silent, RxIdleFails(silent) \/ RxSkip \/ RxNameFails(silent),
         UNCHANGED <<txVars, faults, aborts>>
  PROVE  IInv'
<1>1. /\ toRx \in Seq(RxItem) /\ Ordered(toRx)
      /\ toTx \in Seq(TxItem) /\ FromStart
      /\ faults \in 0 .. MaxFaults /\ aborts \in 0 .. MaxAborts
      /\ rxStatus \in Status /\ txStatus \in Status
  BY DEF IInv, TypeOK, LineTypeOK, RxTypeOK, TxTypeOK
<1>2. /\ \/ toRx # <<>> /\ toRx' = Tail(toRx)
         \/ UNCHANGED toRx
      /\ UNCHANGED <<toTx, rxPhase, rxFiles>>
      /\ rxStatus' \in {rxStatus, "TIMEOUT", "IO"}
  BY DEF RxIdleFails, RxSkip, RxNameFails, RxNoHeader, RxNoSubpacket, RxReads,
         RxReturn, rxVars
<1>3. KeptRx /\ KeptTx
  BY <1>1, <1>2, ReadRx, SameTx
<1>4. UNCHANGED <<txPhase, txFile, txBlock, txStatus>>
  BY DEF txVars
<1>5. /\ rxStatus' \in Status
      /\ rxStatus' = "OFF" => rxStatus = "OFF"
      /\ rxStatus' = "OK" => rxStatus = "OK"
  BY <1>1, <1>2 DEF Status
<1> QED BY <1>1, <1>2, <1>3, <1>4, <1>5, QuietStep

\* The transmit steps that only take items off the line
LEMMA TxQuietStep ==
  ASSUME IInv, NEW silent, TxSkip \/ TxFails(silent) \/ TxFin(silent),
         UNCHANGED <<rxVars, faults, aborts>>
  PROVE  IInv'
<1>1. /\ toRx \in Seq(RxItem) /\ Ordered(toRx)
      /\ toTx \in Seq(TxItem) /\ FromStart
      /\ faults \in 0 .. MaxFaults /\ aborts \in 0 .. MaxAborts
      /\ rxStatus \in Status /\ txStatus \in Status
  BY DEF IInv, TypeOK, LineTypeOK, RxTypeOK, TxTypeOK
<1>2. /\ \/ toTx # <<>> /\ toTx' = Tail(toTx)
         \/ UNCHANGED toTx
      /\ UNCHANGED <<toRx, txPhase, txFile, txBlock>>
      /\ txStatus' \in {txStatus, "TIMEOUT", "OK"}
      /\ txStatus' = "OK" => txStatus = "OK" \/ txPhase = "fin"
  BY DEF TxSkip, TxFails, TxFin, TxReads, TxAt, TxReturn, txVars
<1>3. KeptRx /\ KeptTx
  BY <1>1, <1>2, ReadTx, SameRx
<1>4. UNCHANGED <<rxPhase, rxFiles, rxStatus>>
  BY DEF rxVars
<1>5. txStatus' \in Status /\ (txStatus' = "OFF" => txStatus = "OFF")
  BY <1>1, <1>2 DEF Status
<1> QED BY <1>1, <1>2, <1>3, <1>4, <1>5, QuietStep

\* What the transmitter will read after the receiver has sent a header
LEMMA TxSent ==
  ASSUME toTx \in Seq(TxItem), FromStart, NEW ty \in ToTxHeaders,
         toTx' = Send(toTx, TxHeader(ty))
  PROVE  /\ toTx' \in Seq(TxItem) /\ FromStart'
         /\ \A i \in 1 .. Len(toTx') :
               \/ i \in 1 .. Len(toTx) /\ toTx'[i] = toTx[i]
               \/ i = Len(toTx) + 1 /\ toTx'[i].type = ty
<1> DEFINE b == TxHeader(ty)
<1>1. b \in TxItem /\ b.type = ty /\ b.pos = 0
  BY TxHeaders
<1>2. toTx' = Send(toTx, b)
  OBVIOUS
<1> HIDE DEF b
<1>3. /\ toTx' \in Seq(TxItem)
      /\ Len(toTx') \in Len(toTx) .. Len(toTx) + 1
      /\ \A i \in 1 .. Len(toTx') :
            toTx'[i] = IF i <= Len(toTx) THEN toTx[i] ELSE b
  BY <1>1, <1>2, SerialLineAssumption DEF Send
<1>4. ASSUME NEW i \in 1 .. Len(toTx')
      PROVE  \/ i \in 1 .. Len(toTx) /\ toTx'[i] = toTx[i]
             \/ i = Len(toTx) + 1 /\ toTx'[i] = b
  <2>1. CASE i <= Len(toTx)
    BY <1>3, <2>1
  <2>2. CASE i > Len(toTx)
    BY <1>3, <2>2
  <2> QED BY <1>3, <2>1, <2>2
<1>5. FromStart'
  BY <1>1, <1>4 DEF FromStart
<1> QED BY <1>1, <1>3, <1>4, <1>5

\* The receiver asks for a file where it is in none.
LEMMA RinitSent ==
  ASSUME IInv, KeptRx, toTx' = Send(toTx, TxHeader("rinit")),
         rxPhase = "idle", ~ FileOver,
         UNCHANGED <<rxPhase, rxFiles, txVars, faults, aborts>>,
         rxStatus' = "RUN"
  PROVE  IInv'
<1> USE DEF IInv, txVars
<1>1. toTx \in Seq(TxItem) /\ FromStart
  BY DEF TypeOK, LineTypeOK
<1>3. /\ toTx' \in Seq(TxItem) /\ FromStart'
      /\ \A i \in 1 .. Len(toTx') :
            \/ i \in 1 .. Len(toTx) /\ toTx'[i] = toTx[i]
            \/ i = Len(toTx) + 1 /\ toTx'[i].type = "rinit"
  BY <1>1, TxSent DEF ToTxHeaders
<1>4. No({"rpos"}) => No({"rpos"})'
  BY <1>3 DEF No
<1>5. TypeOK'
  BY <1>3 DEF TypeOK, LineTypeOK, RxTypeOK, TxTypeOK, KeptRx, Status
<1>6. Ordered(toRx)' /\ StatusFits'
  BY DEF KeptRx, StatusFits, Ordered
<1>7. EarlierOk' /\ StoredInOrder'
  BY DEF EarlierOk, StoredInOrder
<1>8. \A S : Flight(S) => Flight(S)'
  BY DEF Flight, KeptRx
<1>9. BlocksInFlight => BlocksInFlight'
  BY DEF BlocksInFlight, KeptRx, Live, Block
<1>10. Course'
  <2>1. CASE Starting
    BY <1>4, <1>8, <2>1 DEF Starting, Course
  <2>2. CASE Announced
    BY <1>4, <1>8, <1>9, <2>2 DEF Announced, Course
  <2>3. CASE Finishing
    BY <1>8, <2>3 DEF Finishing, Course
  <2> QED BY <2>1, <2>2, <2>3 DEF Course, Positioned, Streaming
<1> QED BY <1>3, <1>5, <1>6, <1>7, <1>10

LEMMA RxStartStep ==
  ASSUME IInv, RxStart, UNCHANGED <<txVars, faults, aborts>>
  PROVE  IInv'
<1>1. toRx \in Seq(RxItem) /\ Ordered(toRx)
  BY DEF IInv, TypeOK, LineTypeOK
<1>2. rxPhase = "idle" /\ rxFiles = <<>>
  BY DEF IInv, StatusFits, RxStart
<1>3. ~ FileOver
  BY <1>2 DEF FileOver, IInv, TypeOK, TxTypeOK
<1>4. toRx' \in Seq(RxItem) /\ Thinned(toRx', toRx)
  BY <1>1, WaitingThinned DEF RxStart
<1>5. KeptRx
  BY <1>1, <1>4, ThinnedRx
<1> QED BY <1>2, <1>3, <1>5, RinitSent DEF RxStart

LEMMA RxRqinitStep ==
  ASSUME IInv, RxRqinit, UNCHANGED <<txVars, faults, aborts>>
  PROVE  IInv'
<1>1. toRx \in Seq(RxItem) /\ Ordered(toRx)
  BY DEF IInv, TypeOK, LineTypeOK
<1>2. /\ toRx # <<>> /\ Head(toRx).type = "rqinit" /\ toRx' = Tail(toRx)
      /\ rxPhase = "idle" /\ rxStatus = "RUN"
      /\ toTx' = Send(toTx, TxHeader("rinit"))
      /\ UNCHANGED <<rxPhase, rxFiles, rxStatus>>
  BY DEF RxRqinit, RxReads, RxAt, rxVars
<1>3. KeptRx
  BY <1>1, <1>2, ReadRx
<1>4. ~ FileOver
  BY <1>1, <1>2, HeadRx, Stages DEF FileOver, Flight, ToRxHeaders
<1> QED BY <1>2, <1>3, <1>4, RinitSent

\* ZFILE opens the way for the subpacket with the name.
LEMMA RxFileStep ==
  ASSUME IInv, RxFile, UNCHANGED <<txVars, faults, aborts>>
  PROVE  IInv'
<1> USE DEF IInv, txVars
<1>1. toRx \in Seq(RxItem) /\ Ordered(toRx) /\ toTx \in Seq(TxItem) /\ FromStart
  BY DEF TypeOK, LineTypeOK
<1>2. /\ toRx # <<>> /\ Head(toRx).type = "file" /\ toRx' = Tail(toRx)
      /\ rxPhase = "idle" /\ rxPhase' = "name" /\ rxStatus = "RUN"
      /\ UNCHANGED <<toTx, rxFiles, rxStatus>>
  BY DEF RxFile, RxReads, RxAt, RxGoTo
<1>3. KeptRx
  BY <1>1, <1>2, ReadRx
<1>4. /\ Head(toRx) = toRx[1] /\ 1 \in 1 .. Len(toRx) /\ Head(toRx) \in RxItem
      /\ Live(Head(toRx)) /\ Stage(Head(toRx)) = 1
      /\ \A i \in 1 .. Len(toRx') : Live(toRx'[i]) => Stage(toRx'[i]) \notin {0, 1}
  <2>1. /\ Head(toRx) = toRx[1] /\ 1 \in 1 .. Len(toRx) /\ Head(toRx) \in RxItem
        /\ Live(Head(toRx)) =>
              \A i \in 1 .. Len(toRx') : Live(toRx'[i]) => MayFollow(Head(toRx), toRx'[i])
    BY <1>1, <1>2, HeadRx
  <2>2. Live(Head(toRx)) /\ Stage(Head(toRx)) = 1
    BY <1>2, <2>1, Stages DEF ToRxHeaders
  <2> QED BY <2>1, <2>2 DEF MayFollow
<1>5. Announced /\ Flight({0, 1, 2})
  BY <1>2, <1>4 DEF Course, Starting, Announced, Positioned, Streaming, FileOver,
                    Finishing, Flight
<1>6. Flight({2})'
  BY <1>3, <1>4, <1>5 DEF Flight, KeptRx
<1>7. BlocksInFlight'
  BY <1>3, <1>5 DEF Announced, BlocksInFlight, KeptRx, Live, Block
<1>8. Announced'
  BY <1>2, <1>5, <1>6, <1>7 DEF Announced, No
<1>9. TypeOK'
  BY <1>2, <1>3 DEF TypeOK, LineTypeOK, RxTypeOK, TxTypeOK, KeptRx
<1>10. Ordered(toRx)' /\ FromStart' /\ StatusFits'
  BY <1>2, <1>3 DEF KeptRx, FromStart, StatusFits, Ordered
<1>11. EarlierOk' /\ StoredInOrder'
  BY <1>2 DEF EarlierOk, StoredInOrder
<1> QED BY <1>8, <1>9, <1>10, <1>11 DEF Course

\* The subpacket with the name starts the file announced.
LEMMA RxNameStep ==
  ASSUME IInv, RxName, UNCHANGED <<txVars, faults, aborts>>
  PROVE  IInv'
<1> USE DEF IInv, txVars
<1>1. /\ toRx \in Seq(RxItem) /\ Ordered(toRx) /\ toTx \in Seq(TxItem) /\ FromStart
      /\ rxFiles \in Seq(FileRecord) /\ txFile \in Nat \ {0} /\ NFiles \in Nat
  BY BatchAssumption DEF TypeOK, LineTypeOK, RxTypeOK, TxTypeOK, NFiles
<1>2. /\ toRx # <<>> /\ Head(toRx).type = "sub" /\ toRx' = Tail(toRx)
      /\ rxPhase = "name" /\ rxPhase' = "file" /\ rxStatus = "RUN"
      /\ rxFiles' \in Started(rxFiles, Head(toRx).load[1])
      /\ toTx' = Send(toTx, TxHeader("rpos"))
      /\ UNCHANGED rxStatus
  BY DEF RxName, RxReads, RxAt, RxGoTo
<1>3. KeptRx
  BY <1>1, <1>2, ReadRx
<1>4. Announced /\ Flight({2})
  BY <1>2 DEF Course, Starting, Announced, Positioned, Streaming, FileOver, Finishing
<1>5. /\ Head(toRx) = toRx[1] /\ 1 \in 1 .. Len(toRx) /\ Head(toRx) \in RxItem
      /\ Live(Head(toRx)) =>
            \A i \in 1 .. Len(toRx') : Live(toRx'[i]) => MayFollow(Head(toRx), toRx'[i])
  BY <1>1, <1>2, HeadRx
<1>6. Stage(Head(toRx)) = 2 /\ Live(Head(toRx)) /\ Head(toRx).load[1] = txFile
  <2>1. Live(Head(toRx)) /\ Stage(Head(toRx)) = 2
    BY <1>2, <1>4, <1>5, Stages DEF Flight
  <2>2. Block(Head(toRx))
    BY <1>2, <1>5, <2>1, Stages DEF Block
  <2> QED BY <1>4, <1>5, <2>1, <2>2 DEF Announced, BlocksInFlight
<1>7. Flight({})'
  BY <1>3, <1>4, <1>5, <1>6 DEF Flight, KeptRx, MayFollow
<1>8. /\ rxFiles' \in Seq(FileRecord) /\ Len(rxFiles') = txFile
      /\ \A i \in 1 .. txFile - 1 : rxFiles'[i] = rxFiles[i]
      /\ rxFiles'[txFile].name = txFile /\ rxFiles'[txFile].data = <<>>
  <2>1. Len(rxFiles) = txFile - 1
    BY <1>4 DEF Announced
  <2> QED BY <1>1, <1>2, <1>6, <2>1, StartedFacts
<1>10. /\ toTx' \in Seq(TxItem) /\ FromStart'
       /\ \A i \in 1 .. Len(toTx') :
             \/ i \in 1 .. Len(toTx) /\ toTx'[i] = toTx[i]
             \/ i = Len(toTx) + 1 /\ toTx'[i].type = "rpos"
  BY <1>1, <1>2, TxSent DEF ToTxHeaders
<1>11. PositionLast'
  <2>1. Len(toTx) \in Nat /\ Len(toTx') \in Nat
    BY <1>1, <1>10
  <2>2. \A i \in 1 .. Len(toTx) : toTx[i].type # "rpos"
    BY <1>4 DEF Announced, No
  <2>3. \A i \in 1 .. Len(toTx') : toTx'[i].type = "rpos" => i = Len(toTx) + 1
    BY <1>10, <2>2
  <2>4. \A i \in 1 .. Len(toTx') : i <= Len(toTx) + 1
    BY <1>10, <2>1
  <2>5. \A i, j \in 1 .. Len(toTx') : i < j => toTx'[i].type # "rpos"
    BY <2>1, <2>3, <2>4
  <2> QED BY <2>5 DEF PositionLast
<1>12. Positioned'
  BY <1>2, <1>4, <1>7, <1>8, <1>11 DEF Announced, Positioned
<1>13. TypeOK'
  BY <1>2, <1>3, <1>8, <1>10 DEF TypeOK, LineTypeOK, RxTypeOK, TxTypeOK, KeptRx
<1>14. Ordered(toRx)' /\ StatusFits'
  BY <1>2, <1>3 DEF KeptRx, StatusFits, Ordered
<1>15. EarlierOk'
  BY <1>1, <1>8 DEF EarlierOk
<1>16. StoredInOrder'
  <2>1. \A i \in 1 .. txFile - 1 : FileOk(rxFiles[i], i)
    BY <1>1, <1>4, FilesOk DEF Announced
  <2>2. FileOk(rxFiles'[txFile], txFile)
    BY <1>8 DEF FileOk
  <2>3. \A i \in 1 .. Len(rxFiles') : FileOk(rxFiles'[i], i)
    BY <1>1, <1>8, <2>1, <2>2
  <2> QED BY <2>3 DEF StoredInOrder, FileOk
<1> QED BY <1>10, <1>12, <1>13, <1>14, <1>15, <1>16 DEF Course

\* Where the receiver is in a file and something of its stream is in flight
LEMMA InStream ==
  ASSUME Course, rxPhase \in {"file", "data"}
  PROVE  /\ Len(rxFiles) = txFile /\ txFile <= NFiles
         /\ \/ Streaming
            \/ Positioned /\ Flight({}) /\ rxPhase = "file"
<1>1. Streaming \/ Positioned
  BY DEF Course, Starting, Announced, FileOver, Finishing
<1> QED BY <1>1 DEF Streaming, Positioned

LEMMA RxDataHeaderStep ==
  ASSUME IInv, RxDataHeader, UNCHANGED <<txVars, faults, aborts>>
  PROVE  IInv'
<1> USE DEF IInv, txVars
<1>1. toRx \in Seq(RxItem) /\ Ordered(toRx)
  BY DEF TypeOK, LineTypeOK
<1>2. /\ toRx # <<>> /\ Head(toRx).type = "data" /\ toRx' = Tail(toRx)
      /\ rxPhase = "file" /\ rxPhase' = "data" /\ rxStatus = "RUN"
      /\ UNCHANGED <<toTx, rxFiles, rxStatus>>
  BY DEF RxDataHeader, RxReads, RxAt, RxGoTo
<1>3. KeptRx
  BY <1>1, <1>2, ReadRx
<1>4. Streaming
  <2>1. Live(Head(toRx)) /\ Head(toRx) = toRx[1] /\ 1 \in 1 .. Len(toRx)
    BY <1>1, <1>2, HeadRx, Stages DEF ToRxHeaders
  <2> QED BY <1>2, <2>1, InStream DEF Flight
<1>5. \A S : Flight(S) => Flight(S)'
  BY <1>3 DEF Flight, KeptRx
<1>6. BlocksInFlight'
  BY <1>3, <1>4 DEF Streaming, BlocksInFlight, KeptRx, Live, Block
<1>7. NotStoredYet'
  BY <1>2, <1>3, <1>4 DEF Streaming, NotStoredYet, KeptRx, Live, Block
<1>8. Streaming'
  BY <1>2, <1>4, <1>5, <1>6, <1>7 DEF Streaming, StoredWereSent, No
<1>9. TypeOK'
  BY <1>2, <1>3 DEF TypeOK, LineTypeOK, RxTypeOK, TxTypeOK, KeptRx
<1>10. Ordered(toRx)' /\ FromStart' /\ StatusFits'
  BY <1>2, <1>3 DEF KeptRx, FromStart, StatusFits, Ordered
<1>11. EarlierOk' /\ StoredInOrder'
  BY <1>2 DEF EarlierOk, StoredInOrder
<1> QED BY <1>8, <1>9, <1>10, <1>11 DEF Course

\* A data subpacket is stored whatever offset it should have.
LEMMA RxDataStep ==
  ASSUME IInv, RxData, UNCHANGED <<txVars, faults, aborts>>
  PROVE  IInv'
<1> USE DEF IInv, txVars
<1>1. /\ toRx \in Seq(RxItem) /\ Ordered(toRx)
      /\ rxFiles \in Seq(FileRecord) /\ txFile \in Nat \ {0} /\ txBlock \in Nat
  BY DEF TypeOK, LineTypeOK, RxTypeOK, TxTypeOK
<1> DEFINE item == Head(toRx)
           load == item.load
           old == rxFiles[txFile].data
<1>2. /\ toRx # <<>> /\ item.type = "sub" /\ toRx' = Tail(toRx)
      /\ rxPhase = "data" /\ rxPhase' \in {"file", "data"} /\ rxStatus = "RUN"
      /\ rxFiles' \in Stored(rxFiles, load)
      /\ UNCHANGED <<toTx, rxStatus>>
  BY DEF RxData, RxReads, RxAt, RxGoTo
<1>3. KeptRx
  BY <1>1, <1>2, ReadRx
<1>4. Streaming /\ Len(rxFiles) = txFile
  BY <1>2, InStream
<1>5. /\ item = toRx[1] /\ 1 \in 1 .. Len(toRx) /\ item \in RxItem
      /\ Live(item)
      /\ \A i \in 1 .. Len(toRx') : Live(toRx'[i]) => MayFollow(item, toRx'[i])
  BY <1>1, <1>2, HeadRx, Stages
<1>6. load \in Payload /\ old \in Seq(Payload)
  <2>1. item.load \in Payload
    BY <1>5 DEF RxItem
  <2>2. rxFiles[txFile] \in FileRecord
    BY <1>1, <1>4
  <2> QED BY <2>1, <2>2 DEF FileRecord
<1>7. load = Padding \/ Block(item)
  BY <1>2 DEF Block
<1>8. Block(item) => /\ load[1] = txFile /\ load[2] <= txBlock /\ load[2] \in Nat
                     /\ \A k \in 1 .. Len(old) : old[k] # Padding => old[k][2] < load[2]
                     /\ \A i \in 1 .. Len(toRx') :
                           Block(toRx'[i]) => load[2] < toRx'[i].load[2]
  <2>1. \A i \in 1 .. Len(toRx') :
           Block(toRx'[i]) /\ Block(item) => load[2] < toRx'[i].load[2]
    BY <1>5 DEF MayFollow, Block, Live
  <2>2. load[2] \in Nat
    BY <1>6 DEF Payload
  <2>3. Block(item) => load[1] = txFile /\ load[2] <= txBlock
    BY <1>4, <1>5 DEF Streaming, BlocksInFlight
  <2>4. Block(item) => \A k \in 1 .. Len(old) : old[k] # Padding => old[k][2] < load[2]
    BY <1>4, <1>5 DEF Streaming, NotStoredYet
  <2> QED BY <2>1, <2>2, <2>3, <2>4
<1> DEFINE new == rxFiles'[txFile].data
<1>9. /\ rxFiles' \in Seq(FileRecord) /\ Len(rxFiles') = txFile
      /\ \A i \in 1 .. txFile - 1 : rxFiles'[i] = rxFiles[i]
      /\ rxFiles'[txFile].name = rxFiles[txFile].name
      /\ \/ new = old
         \/ new = Append(old, load)
  <2>1. rxFiles # <<>> /\ load \in Payload /\ rxFiles' \in Stored(rxFiles, load)
    BY <1>1, <1>2, <1>4, <1>6
  <2> HIDE DEF load
  <2>2. CASE rxFiles' = rxFiles
    BY <1>1, <1>4, <2>2
  <2>3. CASE rxFiles' # rxFiles
    BY <1>1, <1>4, <2>1, <2>3, StoredFacts
  <2> QED BY <2>2, <2>3
<1>10. /\ Len(new) \in Len(old) .. Len(old) + 1
       /\ \A k \in 1 .. Len(new) : \/ k \in 1 .. Len(old) /\ new[k] = old[k]
                                   \/ k = Len(old) + 1 /\ new[k] = load
  <2>1. CASE new = old
    BY <1>6, <2>1
  <2>2. CASE new = Append(old, load)
    BY <1>6, <2>2
  <2> QED BY <1>9, <2>1, <2>2
<1>11. /\ rxFiles[txFile].name = txFile
       /\ \A k \in 1 .. Len(old) : old[k] = Padding \/ old[k][1] = txFile
       /\ \A j, k \in 1 .. Len(old) :
             j < k /\ Padding \notin {old[j], old[k]} => old[j][2] < old[k][2]
  BY <1>1, <1>4 DEF StoredInOrder
<1>12. \A k \in 1 .. Len(old) : old[k][2] <= txBlock
  BY <1>4 DEF Streaming, StoredWereSent
<1>13. NotStoredYet => \A i \in 1 .. Len(toRx), k \in 1 .. Len(old) :
          Block(toRx[i]) /\ old[k] # Padding => old[k][2] < toRx[i].load[2]
  BY DEF NotStoredYet
<1>14. NotStoredYet'
  <2>1. ASSUME NEW i \in 1 .. Len(toRx'), NEW k \in 1 .. Len(new),
               Block(toRx'[i]), new[k] # Padding
        PROVE  new[k][2] < toRx'[i].load[2]
    <3>1. CASE k \in 1 .. Len(old) /\ new[k] = old[k]
      <4>1. PICK m \in 1 .. Len(toRx) : toRx'[i] = toRx[m]
        BY <1>3, <2>1 DEF KeptRx, Block, Live
      <4> QED BY <1>4, <1>13, <2>1, <3>1, <4>1 DEF Streaming
    <3>2. CASE new[k] = load
      BY <1>7, <1>8, <2>1, <3>2
    <3> QED BY <1>10, <3>1, <3>2
  <2> QED BY <2>1 DEF NotStoredYet
<1>15. StoredWereSent'
  <2>1. load[2] <= txBlock
    BY <1>1, <1>7, <1>8 DEF Padding
  <2>2. \A k \in 1 .. Len(new) : new[k][2] <= txBlock
    BY <1>10, <1>12, <2>1
  <2> QED BY <2>2 DEF StoredWereSent
<1>16. StoredInOrder'
  <2>1. \A k \in 1 .. Len(new) : new[k] = Padding \/ new[k][1] = txFile
    BY <1>7, <1>8, <1>10, <1>11
  <2>2. ASSUME NEW j \in 1 .. Len(new), NEW k \in 1 .. Len(new), j < k,
               new[j] # Padding, new[k] # Padding
        PROVE  new[j][2] < new[k][2]
    <3>1. Len(old) \in Nat /\ Len(new) \in Nat
      BY <1>6, <1>10
    <3> HIDE DEF old, new
    <3>2. j \in 1 .. Len(old) /\ new[j] = old[j]
      <4>1. k <= Len(old) + 1
        BY <1>10, <3>1
      <4>2. j # Len(old) + 1
        BY <2>2, <3>1, <4>1
      <4> QED BY <1>10, <4>2
    <3>3. CASE k \in 1 .. Len(old) /\ new[k] = old[k]
      BY <1>11, <2>2, <3>2, <3>3
    <3>4. CASE new[k] = load
      BY <1>7, <1>8, <2>2, <3>2, <3>4
    <3> QED BY <1>10, <3>3, <3>4
  <2>3. FileOk(rxFiles'[txFile], txFile)
    BY <1>9, <1>11, <2>1, <2>2 DEF FileOk
  <2>4. \A i \in 1 .. txFile - 1 : FileOk(rxFiles[i], i)
    BY <1>1, <1>4, FilesOk
  <2>5. \A i \in 1 .. Len(rxFiles') : FileOk(rxFiles'[i], i)
    BY <1>1, <1>9, <2>3, <2>4
  <2> QED BY <2>5 DEF StoredInOrder, FileOk
<1>17. \A S : Flight(S) => Flight(S)'
  BY <1>3 DEF Flight, KeptRx
<1>18. BlocksInFlight'
  BY <1>3, <1>4 DEF Streaming, BlocksInFlight, KeptRx, Live, Block
<1>19. Streaming'
  BY <1>2, <1>4, <1>9, <1>14, <1>15, <1>17, <1>18 DEF Streaming, No
<1>20. TypeOK'
  BY <1>2, <1>3, <1>9 DEF TypeOK, LineTypeOK, RxTypeOK, TxTypeOK, KeptRx
<1>21. Ordered(toRx)' /\ FromStart' /\ StatusFits'
  BY <1>2, <1>3 DEF KeptRx, FromStart, StatusFits, Ordered
<1>22. EarlierOk'
  BY <1>1, <1>4, <1>9 DEF EarlierOk
<1> QED BY <1>16, <1>19, <1>20, <1>21, <1>22 DEF Course

\* on_file_end of the file the receiver is in touches no earlier file.
LEMMA FileEnds ==
  ASSUME IInv, rxPhase \in {"file", "data"}, NEW st \in {"OK", "TIMEOUT", "IO"},
         rxFiles' = Ended(rxFiles, st), UNCHANGED txVars
  PROVE  /\ rxFiles' \in Seq(FileRecord) /\ Len(rxFiles') = txFile
         /\ rxFiles'[txFile].end = st
         /\ rxFiles'[txFile].data = rxFiles[txFile].data
         /\ EarlierOk' /\ StoredInOrder'
<1> USE DEF IInv, txVars
<1>1. /\ rxFiles \in Seq(FileRecord) /\ txFile \in Nat \ {0}
      /\ Len(rxFiles) = txFile /\ rxFiles # <<>>
  BY InStream DEF TypeOK, RxTypeOK, TxTypeOK
<1>2. /\ rxFiles' \in Seq(FileRecord) /\ Len(rxFiles') = txFile
      /\ \A i \in 1 .. txFile - 1 : rxFiles'[i] = rxFiles[i]
      /\ rxFiles'[txFile].end = st
      /\ rxFiles'[txFile].name = rxFiles[txFile].name
      /\ rxFiles'[txFile].data = rxFiles[txFile].data
  BY <1>1, EndedFacts
<1>3. EarlierOk'
  BY <1>1, <1>2 DEF EarlierOk
<1>4. StoredInOrder'
  <2>1. \A i \in 1 .. txFile : FileOk(rxFiles[i], i)
    BY <1>1, FilesOk
  <2>2. FileOk(rxFiles'[txFile], txFile)
    BY <1>1, <1>2, <2>1 DEF FileOk
  <2>3. \A i \in 1 .. Len(rxFiles') : FileOk(rxFiles'[i], i)
    BY <1>1, <1>2, <2>1, <2>2
  <2> QED BY <2>3 DEF StoredInOrder, FileOk
<1> QED BY <1>2, <1>3, <1>4

\* The receiver gives a file up.
LEMMA RxFileFailsStep ==
  ASSUME IInv, NEW silent, RxFileFails(silent) \/ RxDataFails(silent),
         UNCHANGED <<txVars, faults, aborts>>
  PROVE  IInv'
<1> USE DEF IInv
<1>1. toRx \in Seq(RxItem) /\ Ordered(toRx) /\ toTx \in Seq(TxItem) /\ FromStart
  BY DEF TypeOK, LineTypeOK
<1>2. /\ \/ toRx # <<>> /\ toRx' = Tail(toRx)
         \/ UNCHANGED toRx
      /\ UNCHANGED <<toTx, rxPhase>>
      /\ rxPhase \in {"file", "data"} /\ rxStatus' \in {"TIMEOUT", "IO"}
      /\ rxFiles' = Ended(rxFiles, "TIMEOUT") \/ rxFiles' = Ended(rxFiles, "IO")
  BY DEF RxFileFails, RxDataFails, RxNoHeader, RxNoSubpacket, RxReads, RxAt, RxReturn
<1>3. KeptRx
  BY <1>1, <1>2, ReadRx
<1>4. /\ rxFiles' \in Seq(FileRecord) /\ Len(rxFiles') = txFile
      /\ rxFiles'[txFile].data = rxFiles[txFile].data
      /\ EarlierOk' /\ StoredInOrder'
  BY <1>2, FileEnds
<1>5. UNCHANGED <<txPhase, txFile, txBlock, txStatus>>
  BY DEF txVars
<1>6. \A S : Flight(S) => Flight(S)'
  BY <1>3 DEF Flight, KeptRx
<1>7. Course'
  <2>1. CASE Streaming
    <3>1. BlocksInFlight'
      BY <1>3, <1>5, <2>1 DEF Streaming, BlocksInFlight, KeptRx, Live, Block
    <3>2. NotStoredYet'
      BY <1>3, <1>4, <1>5, <2>1 DEF Streaming, NotStoredYet, KeptRx, Live, Block
    <3>3. StoredWereSent'
      BY <1>4, <1>5, <2>1 DEF Streaming, StoredWereSent
    <3> QED BY <1>2, <1>4, <1>5, <1>6, <2>1, <3>1, <3>2, <3>3
            DEF Streaming, Course, No
  <2>2. CASE Positioned
    BY <1>2, <1>4, <1>5, <1>6, <2>2 DEF Positioned, Course, PositionLast
  <2> QED BY <1>2, <2>1, <2>2, InStream
<1>8. TypeOK'
  BY <1>2, <1>3, <1>4, <1>5 DEF TypeOK, LineTypeOK, RxTypeOK, TxTypeOK, KeptRx, Status
<1>9. Ordered(toRx)' /\ FromStart' /\ StatusFits'
  BY <1>2, <1>3, <1>5 DEF KeptRx, FromStart, StatusFits, Ordered
<1> QED BY <1>4, <1>7, <1>8, <1>9

\* ZEOF ends the file, and the receiver asks for the next one.
LEMMA RxEofStep ==
  ASSUME IInv, RxEof, UNCHANGED <<txVars, faults, aborts>>
  PROVE  IInv'
<1> USE DEF IInv
<1>1. toRx \in Seq(RxItem) /\ Ordered(toRx) /\ toTx \in Seq(TxItem) /\ FromStart
  BY DEF TypeOK, LineTypeOK
<1>2. /\ toRx # <<>> /\ Head(toRx).type = "eof" /\ toRx' = Tail(toRx)
      /\ rxPhase = "file" /\ rxPhase' = "idle" /\ rxStatus = "RUN"
      /\ rxFiles' = Ended(rxFiles, "OK")
      /\ toTx' = Send(toTx, TxHeader("rinit"))
      /\ UNCHANGED rxStatus
  BY DEF RxEof, RxReads, RxAt, RxGoTo
<1>3. KeptRx
  BY <1>1, <1>2, ReadRx
<1>4. /\ rxFiles' \in Seq(FileRecord) /\ Len(rxFiles') = txFile
      /\ rxFiles'[txFile].end = "OK"
      /\ EarlierOk' /\ StoredInOrder'
  BY <1>2, FileEnds
<1>5. UNCHANGED <<txPhase, txFile, txBlock, txStatus>>
  BY DEF txVars
<1>6. /\ Head(toRx) = toRx[1] /\ 1 \in 1 .. Len(toRx)
      /\ Live(Head(toRx)) /\ Stage(Head(toRx)) = 5
      /\ \A i \in 1 .. Len(toRx') : Live(toRx'[i]) => Stage(toRx'[i]) \notin {3, 4, 5}
  <2>1. /\ Head(toRx) = toRx[1] /\ 1 \in 1 .. Len(toRx) /\ Head(toRx) \in RxItem
        /\ Live(Head(toRx)) =>
              \A i \in 1 .. Len(toRx') : Live(toRx'[i]) => MayFollow(Head(toRx), toRx'[i])
    BY <1>1, <1>2, HeadRx
  <2>2. Live(Head(toRx)) /\ Stage(Head(toRx)) = 5
    BY <1>2, <2>1, Stages DEF ToRxHeaders
  <2> QED BY <2>1, <2>2 DEF MayFollow
<1>7. Streaming /\ Flight({3, 4, 5}) /\ txPhase = "end"
  BY <1>2, <1>6, InStream DEF Streaming, Flight
<1>8. Flight({})'
  BY <1>3, <1>6, <1>7 DEF Flight, KeptRx
<1>9. /\ toTx' \in Seq(TxItem) /\ FromStart'
      /\ \A i \in 1 .. Len(toTx') :
            \/ i \in 1 .. Len(toTx) /\ toTx'[i] = toTx[i]
            \/ i = Len(toTx) + 1 /\ toTx'[i].type = "rinit"
  BY <1>1, <1>2, TxSent DEF ToTxHeaders
<1>10. No({"rpos"})'
  BY <1>7, <1>9 DEF Streaming, No
<1>11. FileOver'
  BY <1>2, <1>4, <1>5, <1>7, <1>8, <1>10 DEF Streaming, FileOver
<1>12. TypeOK'
  BY <1>2, <1>3, <1>4, <1>5, <1>9 DEF TypeOK, LineTypeOK, RxTypeOK, TxTypeOK, KeptRx
<1>13. Ordered(toRx)' /\ StatusFits'
  BY <1>2, <1>3, <1>5 DEF KeptRx, StatusFits, Ordered
<1> QED BY <1>4, <1>9, <1>11, <1>12, <1>13 DEF Course

\* ZFIN ends the session; it only comes behind the last file.
LEMMA RxFinStep ==
  ASSUME IInv, RxFin, UNCHANGED <<txVars, faults, aborts>>
  PROVE  IInv'
<1> USE DEF IInv, txVars
<1>1. toRx \in Seq(RxItem) /\ Ordered(toRx) /\ toTx \in Seq(TxItem) /\ FromStart
  BY DEF TypeOK, LineTypeOK
<1>2. /\ toRx # <<>> /\ Head(toRx).type = "fin" /\ toRx' = Tail(toRx)
      /\ rxPhase \in {"idle", "file"} /\ rxStatus' = "OK"
      /\ toTx' = Send(toTx, TxHeader("fin"))
      /\ UNCHANGED <<rxPhase, rxFiles>>
  BY DEF RxFin, RxReads, RxAt, RxReturn
<1>3. KeptRx
  BY <1>1, <1>2, ReadRx
<1>4. /\ Head(toRx) = toRx[1] /\ 1 \in 1 .. Len(toRx)
      /\ Live(Head(toRx)) /\ Stage(Head(toRx)) = 6
  BY <1>1, <1>2, HeadRx, Stages DEF ToRxHeaders
<1>5. ~ Flight({}) /\ ~ Flight({0}) /\ ~ Flight({0, 1, 2}) /\ ~ Flight({2})
      /\ ~ Flight({3, 4}) /\ ~ Flight({3, 4, 5})
  BY <1>4 DEF Flight
<1>6. Finishing
  BY <1>5 DEF Course, Starting, Announced, Positioned, Streaming, FileOver
<1>7. Flight({0, 6})'
  BY <1>3, <1>6 DEF Finishing, Flight, KeptRx
<1>8. Finishing'
  BY <1>2, <1>6, <1>7 DEF Finishing
<1>9. toTx' \in Seq(TxItem) /\ FromStart'
  BY <1>1, <1>2, TxSent DEF ToTxHeaders
<1>10. TypeOK'
  BY <1>2, <1>3, <1>9 DEF TypeOK, LineTypeOK, RxTypeOK, TxTypeOK, KeptRx, Status
<1>11. Ordered(toRx)' /\ StatusFits'
  BY <1>2, <1>3, <1>6 DEF KeptRx, StatusFits, Ordered, Finishing
<1>12. EarlierOk' /\ StoredInOrder'
  BY <1>2 DEF EarlierOk, StoredInOrder
<1> QED BY <1>8, <1>9, <1>10, <1>11, <1>12 DEF Course

\* What the receiver will read after the transmitter has sent b
LEMMA SentRx ==
  ASSUME NEW q \in Seq(RxItem), NEW b \in RxItem, Ordered(q),
         \A i \in 1 .. Len(q) : Live(q[i]) => MayFollow(q[i], b)
  PROVE  /\ Send(q, b) \in Seq(RxItem) /\ Ordered(Send(q, b))
         /\ \A i \in 1 .. Len(Send(q, b)) :
               \/ i \in 1 .. Len(q) /\ Send(q, b)[i] = q[i]
               \/ Send(q, b)[i] = b
<1> DEFINE r == Send(q, b)
<1>1. Ordered(r)
  BY OrderedSend
<1>2. /\ r \in Seq(RxItem) /\ Len(r) \in Len(q) .. Len(q) + 1
      /\ \A i \in 1 .. Len(r) : r[i] = IF i <= Len(q) THEN q[i] ELSE b
  BY SerialLineAssumption DEF Send
<1> HIDE DEF r
<1>3. \A i \in 1 .. Len(r) : \/ i \in 1 .. Len(q) /\ r[i] = q[i]
                             \/ r[i] = b
  BY <1>2
<1> QED BY <1>1, <1>2, <1>3 DEF r

LEMMA TxStartStep ==
  ASSUME IInv, TxStart, UNCHANGED <<rxVars, faults, aborts>>
  PROVE  IInv'
<1> USE DEF IInv, rxVars
<1>1. toRx \in Seq(RxItem) /\ Ordered(toRx) /\ toTx \in Seq(TxItem) /\ FromStart
  BY DEF TypeOK, LineTypeOK
<1> DEFINE b == RxHeader("rqinit")
<1>2. /\ txStatus = "OFF" /\ txStatus' = "RUN"
      /\ toRx' = Send(toRx, b) /\ toTx' \in Waiting(toTx)
      /\ UNCHANGED <<txPhase, txFile, txBlock>>
  BY DEF TxStart
<1>3. b \in RxItem /\ Stage(b) = 0 /\ ~ Block(b)
  BY RxHeaders, Stages DEF ToRxHeaders
<1> HIDE DEF b
<1>4. Starting
  BY <1>2 DEF StatusFits, Course, Announced, Positioned, Streaming, FileOver, Finishing
<1>5. \A i \in 1 .. Len(toRx) : Live(toRx[i]) => Stage(toRx[i]) = 0
  BY <1>4 DEF Starting, Flight
<1>6. \A i \in 1 .. Len(toRx) : Live(toRx[i]) => MayFollow(toRx[i], b)
  BY <1>3, <1>5 DEF MayFollow
<1>7. /\ toRx' \in Seq(RxItem) /\ Ordered(toRx')
      /\ \A i \in 1 .. Len(toRx') :
            \/ i \in 1 .. Len(toRx) /\ toRx'[i] = toRx[i]
            \/ toRx'[i] = b
  BY <1>1, <1>2, <1>3, <1>6, SentRx
<1>8. Flight({0})'
  BY <1>3, <1>5, <1>7 DEF Flight
<1>9. KeptTx
  <2>1. toTx' \in Seq(TxItem) /\ Thinned(toTx', toTx)
    BY <1>1, <1>2, WaitingThinned
  <2> QED BY <1>1, <2>1, ThinnedTx
<1>10. No({"rpos"})'
  BY <1>4, <1>9 DEF Starting, No, KeptTx, Dead
<1>11. Starting'
  BY <1>2, <1>4, <1>8, <1>10 DEF Starting
<1>12. TypeOK'
  BY <1>2, <1>7, <1>9 DEF TypeOK, LineTypeOK, RxTypeOK, TxTypeOK, KeptTx, Status
<1>13. Ordered(toRx)' /\ FromStart' /\ StatusFits'
  BY <1>2, <1>7, <1>9 DEF KeptTx, StatusFits, Ordered
<1>14. EarlierOk' /\ StoredInOrder'
  BY <1>2 DEF EarlierOk, StoredInOrder
<1> QED BY <1>11, <1>12, <1>13, <1>14 DEF Course

\* Announcing file f, or the end of the session, where nothing of another
\* file is in flight and all files before f were received
LEMMA AnnounceStep ==
  ASSUME IInv, NEW f \in 1 .. NFiles + 1, Announce(f), Flight({0}),
         rxPhase = "idle", Len(rxFiles) = f - 1,
         \A i \in 1 .. f - 1 : rxFiles[i].end = "OK",
         KeptTx, No({"rpos"}), txStatus = "RUN", txPhase # "fin",
         UNCHANGED <<rxVars, faults, aborts>>
  PROVE  IInv'
<1> USE DEF IInv, rxVars
<1>1. /\ toRx \in Seq(RxItem) /\ Ordered(toRx) /\ f \in Nat \ {0}
      /\ NFiles \in Nat
  BY BatchAssumption DEF TypeOK, LineTypeOK, NFiles
<1>2. txFile' = f /\ txBlock' = 0 /\ UNCHANGED txStatus
  BY DEF Announce
<1>3. \A i \in 1 .. Len(toRx) : Live(toRx[i]) => Stage(toRx[i]) = 0
  BY DEF Flight
<1>4. \A i \in 1 .. Len(toRx) : ~ Block(toRx[i])
  <2>1. ASSUME NEW i \in 1 .. Len(toRx), Block(toRx[i]) PROVE FALSE
    <3>1. toRx[i] \in RxItem
      BY <1>1
    <3> QED BY <1>3, <2>1, <3>1, Stages DEF Block
  <2> QED BY <2>1
<1>5. No({"rpos"})'
  BY DEF No, KeptTx, Dead
<1>6. EarlierOk' /\ StoredInOrder'
  BY <1>1, <1>2 DEF EarlierOk, StoredInOrder
<1>7. toRx' \in Seq(RxItem) /\ Ordered(toRx') /\ Course' /\ txPhase' \in {"pos", "fin"}
  <2>1. CASE f <= NFiles
    <3> DEFINE h == RxHeader("file")
               s == Subpacket(<<f, 0>>, TRUE)
               q == Send(toRx, h)
    <3>1. h \in RxItem /\ Stage(h) = 1 /\ ~ Block(h)
      BY RxHeaders, Stages DEF ToRxHeaders
    <3>2. s \in RxItem /\ s.type = "sub" /\ s.load = <<f, 0>>
      BY <1>1, Subpackets DEF Payload
    <3>3. Stage(s) = 2 /\ s.load # Padding
      <4>1. s.load # Padding /\ s.load[2] = 0
        <5> HIDE DEF s
        <5> QED BY <1>1, <3>2 DEF Padding
      <4> QED BY <3>2, <4>1, Stages
    <3>4. txPhase' = "pos" /\ toRx' = Send(q, s)
      <4>1. ~ (f > NFiles)
        BY <1>1, <2>1
      <4> QED BY <4>1, Zenon DEF Announce
    <3> HIDE DEF h, s, q
    <3>5. \A i \in 1 .. Len(toRx) : Live(toRx[i]) => MayFollow(toRx[i], h)
      BY <1>3, <3>1 DEF MayFollow
    <3>6. /\ q \in Seq(RxItem) /\ Ordered(q)
          /\ \A i \in 1 .. Len(q) : \/ i \in 1 .. Len(toRx) /\ q[i] = toRx[i]
                                    \/ q[i] = h
      BY <1>1, <3>1, <3>5, SentRx DEF q
    <3>7. \A i \in 1 .. Len(q) : Live(q[i]) => Stage(q[i]) \in {0, 1}
      BY <1>3, <3>1, <3>6
    <3>8. \A i \in 1 .. Len(q) : ~ Block(q[i])
      BY <1>4, <3>1, <3>6
    <3>9. \A i \in 1 .. Len(q) : Live(q[i]) => MayFollow(q[i], s)
      BY <3>3, <3>7, <3>8 DEF MayFollow
    <3>10. /\ toRx' \in Seq(RxItem) /\ Ordered(toRx')
           /\ \A i \in 1 .. Len(toRx') : \/ i \in 1 .. Len(q) /\ toRx'[i] = q[i]
                                         \/ toRx'[i] = s
      BY <3>2, <3>4, <3>6, <3>9, SentRx
    <3>11. Flight({0, 1, 2})'
      BY <3>3, <3>7, <3>10 DEF Flight
    <3>12. BlocksInFlight'
      BY <1>1, <1>2, <3>2, <3>8, <3>10 DEF BlocksInFlight
    <3>13. Announced'
      BY <1>1, <1>2, <1>5, <2>1, <3>4, <3>11, <3>12 DEF Announced
    <3> QED BY <3>4, <3>10, <3>13 DEF Course
  <2>2. CASE f > NFiles
    <3> DEFINE h == RxHeader("fin")
    <3>1. h \in RxItem /\ Stage(h) = 6
      BY RxHeaders, Stages DEF ToRxHeaders
    <3>2. txPhase' = "fin" /\ toRx' = Send(toRx, h)
      <4>1. ~ (f <= NFiles)
        BY <1>1, <2>2
      <4> QED BY <4>1, Zenon DEF Announce
    <3> HIDE DEF h
    <3>3. \A i \in 1 .. Len(toRx) : Live(toRx[i]) => MayFollow(toRx[i], h)
      BY <1>3, <1>4, <3>1 DEF MayFollow
    <3>4. /\ toRx' \in Seq(RxItem) /\ Ordered(toRx')
          /\ \A i \in 1 .. Len(toRx') : \/ i \in 1 .. Len(toRx) /\ toRx'[i] = toRx[i]
                                        \/ toRx'[i] = h
      BY <1>1, <3>1, <3>2, <3>3, SentRx
    <3>5. Flight({0, 6})'
      BY <1>3, <3>1, <3>4 DEF Flight
    <3>6. Finishing'
      BY <1>1, <1>2, <2>2, <3>2, <3>5 DEF Finishing
    <3> QED BY <3>2, <3>4, <3>6 DEF Course
  <2> QED BY <1>1, <2>1, <2>2
<1>8. TypeOK'
  <2>1. LineTypeOK' /\ RxTypeOK'
    BY <1>7 DEF TypeOK, LineTypeOK, RxTypeOK, KeptTx
  <2>2. TxTypeOK'
    BY <1>1, <1>2, <1>7 DEF TypeOK, TxTypeOK
  <2> QED BY <2>1, <2>2 DEF TypeOK
<1>9. FromStart' /\ StatusFits' /\ Ordered(toRx)'
  <2>1. StatusFits'
    BY <1>2 DEF StatusFits
  <2> QED BY <1>7, <2>1 DEF KeptTx, Ordered
<1> QED BY <1>6, <1>7, <1>8, <1>9

\* The receiver has asked for a file: the first one, or the next one.
LEMMA TxReadyStep ==
  ASSUME IInv, TxReady \/ TxFileDone, UNCHANGED <<rxVars, faults, aborts>>
  PROVE  IInv'
<1> USE DEF IInv
<1>1. /\ toTx \in Seq(TxItem) /\ FromStart /\ txFile \in Nat \ {0}
      /\ NFiles \in Nat
  BY BatchAssumption DEF TypeOK, LineTypeOK, TxTypeOK, NFiles
<1>2. /\ toTx # <<>> /\ Head(toTx).type = "rinit" /\ toTx' = Tail(toTx)
      /\ txStatus = "RUN"
      /\ \/ txPhase = "init" /\ Announce(txFile)
         \/ txPhase = "end" /\ Announce(txFile + 1)
  BY DEF TxReady, TxFileDone, TxReads, TxAt
<1>3. KeptTx
  BY <1>1, <1>2, ReadTx
<1>4. CASE txPhase = "init" /\ Announce(txFile)
  <2>1. Starting
    BY <1>4 DEF Course, Announced, Positioned, Streaming, FileOver, Finishing
  <2>2. txFile = 1 /\ Len(rxFiles) = 0 /\ rxPhase = "idle" /\ Flight({0}) /\ No({"rpos"})
    BY <2>1 DEF Starting
  <2>3. txFile \in 1 .. NFiles + 1 /\ \A i \in 1 .. txFile - 1 : rxFiles[i].end = "OK"
    BY <1>1, <2>2
  <2> QED BY <1>2, <1>3, <1>4, <2>2, <2>3, AnnounceStep
<1>5. CASE txPhase = "end" /\ Announce(txFile + 1)
  <2>1. FileOver
    <3>1. 1 \in 1 .. Len(toTx) /\ toTx[1].type = "rinit"
      BY <1>1, <1>2
    <3> QED BY <1>5, <3>1
            DEF Course, Starting, Announced, Positioned, Streaming, Finishing, No
  <2>2. /\ txFile <= NFiles /\ Len(rxFiles) = txFile /\ rxPhase = "idle"
        /\ rxFiles[txFile].end = "OK" /\ Flight({}) /\ No({"rpos"})
    BY <2>1 DEF FileOver
  <2>3. Flight({0})
    BY <2>2 DEF Flight
  <2>4. \A i \in 1 .. txFile : rxFiles[i].end = "OK"
    BY <1>1, <2>2 DEF EarlierOk
  <2>5. /\ txFile + 1 \in 1 .. NFiles + 1 /\ (txFile + 1) - 1 = txFile
    BY <1>1, <2>2
  <2> QED BY <1>2, <1>3, <1>5, <2>2, <2>3, <2>4, <2>5, AnnounceStep
<1> QED BY <1>2, <1>4, <1>5

\* What the transmitter sends of the file announced, with the receiver in it
LEMMA StreamStep ==
  ASSUME IInv, UNCHANGED <<rxVars, faults, aborts, txFile, txStatus>>,
         txFile <= NFiles, Len(rxFiles) = txFile, rxPhase \in {"file", "data"},
         txStatus = "RUN",
         NEW b \in RxItem, toRx' = Send(toRx, b), Ordered(toRx),
         \A i \in 1 .. Len(toRx) : Live(toRx[i]) => MayFollow(toRx[i], b),
         \A i \in 1 .. Len(toRx) :
            Live(toRx[i]) => Stage(toRx[i]) \in {3, 4},
         \/ Stage(b) \in {3, 4} /\ txPhase' = "send"
         \/ Stage(b) = 5 /\ txPhase' = "end",
         toTx' \in Seq(TxItem), FromStart', No({"rinit", "rpos"})',
         txBlock' \in Nat,
         BlocksInFlight, NotStoredYet, StoredWereSent',
         \A i \in 1 .. Len(toRx) : Block(toRx[i]) => toRx[i].load[2] <= txBlock',
         Block(b) => /\ b.load[1] = txFile /\ b.load[2] <= txBlock'
                     /\ \A k \in 1 .. Len(rxFiles[txFile].data) :
                           rxFiles[txFile].data[k][2] < b.load[2]
  PROVE  IInv'
<1> USE DEF IInv, rxVars
<1>1. toRx \in Seq(RxItem)
  BY DEF TypeOK, LineTypeOK
<1>2. /\ toRx' \in Seq(RxItem) /\ Ordered(toRx')
      /\ \A i \in 1 .. Len(toRx') :
            \/ i \in 1 .. Len(toRx) /\ toRx'[i] = toRx[i]
            \/ toRx'[i] = b
  BY <1>1, SentRx
<1>3. Flight(IF txPhase = "send" THEN {3, 4} ELSE {3, 4, 5})'
  <2>1. CASE Stage(b) \in {3, 4} /\ txPhase' = "send"
    <3>1. \A i \in 1 .. Len(toRx') : Live(toRx'[i]) => Stage(toRx'[i]) \in {3, 4}
      BY <1>2, <2>1
    <3> QED BY <2>1, <3>1 DEF Flight
  <2>2. CASE Stage(b) = 5 /\ txPhase' = "end"
    <3>1. \A i \in 1 .. Len(toRx') : Live(toRx'[i]) => Stage(toRx'[i]) \in {3, 4, 5}
      BY <1>2, <2>2
    <3> QED BY <2>2, <3>1 DEF Flight
  <2> QED BY <2>1, <2>2
<1>4. BlocksInFlight'
  BY <1>2 DEF BlocksInFlight
<1>5. NotStoredYet'
  <2>1. ASSUME NEW i \in 1 .. Len(toRx'), NEW k \in 1 .. Len(rxFiles[txFile].data),
               Block(toRx'[i]), rxFiles[txFile].data[k] # Padding
        PROVE  rxFiles[txFile].data[k][2] < toRx'[i].load[2]
    <3>1. CASE i \in 1 .. Len(toRx) /\ toRx'[i] = toRx[i]
      BY <2>1, <3>1 DEF NotStoredYet
    <3>2. CASE toRx'[i] = b
      BY <2>1, <3>2
    <3> QED BY <1>2, <3>1, <3>2
  <2> QED BY <2>1 DEF NotStoredYet
<1>6. Streaming'
  BY <1>3, <1>4, <1>5 DEF Streaming
<1>7. TypeOK'
  <2>1. LineTypeOK' /\ RxTypeOK'
    BY <1>2 DEF TypeOK, LineTypeOK, RxTypeOK
  <2>2. TxTypeOK'
    BY DEF TypeOK, TxTypeOK
  <2> QED BY <2>1, <2>2 DEF TypeOK
<1>8. Ordered(toRx)' /\ StatusFits'
  <2>1. txPhase # "fin"
    BY InStream DEF Streaming, Positioned
  <2>2. StatusFits'
    BY <2>1 DEF StatusFits
  <2> QED BY <1>2, <2>2 DEF Ordered
<1>9. EarlierOk' /\ StoredInOrder'
  BY DEF EarlierOk, StoredInOrder
<1> QED BY <1>6, <1>7, <1>8, <1>9 DEF Course

\* The receiver has asked for the start of the file.
LEMMA TxPositionStep ==
  ASSUME IInv, TxPosition, UNCHANGED <<rxVars, faults, aborts>>
  PROVE  IInv'
<1> USE DEF IInv
<1>1. /\ toRx \in Seq(RxItem) /\ Ordered(toRx) /\ toTx \in Seq(TxItem) /\ FromStart
  BY DEF TypeOK, LineTypeOK
<1> DEFINE b == RxHeader("data")
<1>2. /\ toTx # <<>> /\ Head(toTx).type = "rpos" /\ toTx' = Tail(toTx)
      /\ txPhase = "pos" /\ txPhase' = "send" /\ txStatus = "RUN"
      /\ txBlock' = Head(toTx).pos /\ toRx' = Send(toRx, b)
      /\ UNCHANGED <<txStatus, txFile>>
  BY DEF TxPosition, TxReads, TxAt
<1>3. b \in RxItem /\ Stage(b) = 3 /\ ~ Block(b)
  BY RxHeaders, Stages DEF ToRxHeaders
<1> HIDE DEF b
<1>4. 1 \in 1 .. Len(toTx) /\ toTx[1] = Head(toTx)
  BY <1>1, <1>2
<1>5. Positioned
  BY <1>2, <1>4 DEF Course, Starting, Announced, Streaming, FileOver, Finishing, No
<1>6. txBlock' = 0
  BY <1>1, <1>2, <1>4 DEF FromStart
<1>7. KeptTx
  BY <1>1, <1>2, ReadTx
<1>8. No({"rinit", "rpos"})'
  <2>1. \A i \in 1 .. Len(toTx') : /\ i + 1 \in 1 .. Len(toTx) /\ 1 < i + 1
                                   /\ toTx'[i] = toTx[i + 1]
    BY <1>1, <1>2
  <2> QED BY <1>2, <1>4, <1>5, <2>1 DEF Positioned, PositionLast, No
<1>9. \A i \in 1 .. Len(toRx) : ~ Live(toRx[i])
  BY <1>5 DEF Positioned, Flight
<1>10. \A i \in 1 .. Len(toRx) : ~ Block(toRx[i])
  BY <1>9 DEF Block, Live
<1>11. rxFiles[txFile].data = <<>> /\ txFile <= NFiles /\ Len(rxFiles) = txFile
       /\ rxPhase = "file"
  BY <1>5 DEF Positioned
<1>12. BlocksInFlight /\ NotStoredYet /\ StoredWereSent'
  BY <1>2, <1>10, <1>11 DEF BlocksInFlight, NotStoredYet, StoredWereSent, rxVars
<1>13. toTx' \in Seq(TxItem) /\ FromStart'
  BY <1>7 DEF KeptTx
<1> QED BY <1>1, <1>2, <1>3, <1>6, <1>8, <1>9, <1>10, <1>11, <1>12, <1>13, StreamStep

\* Where the transmitter streams, so does the receiver take.
LEMMA Sending ==
  ASSUME IInv, txPhase = "send"
  PROVE  /\ Streaming
         /\ \A i \in 1 .. Len(toRx) : Live(toRx[i]) => Stage(toRx[i]) \in {3, 4}
BY DEF IInv, Course, Starting, Announced, Positioned, Streaming, FileOver,
       Finishing, Flight

LEMMA TxDataStep ==
  ASSUME IInv, TxData, UNCHANGED <<rxVars, faults, aborts>>
  PROVE  IInv'
<1> USE DEF IInv
<1>1. /\ toRx \in Seq(RxItem) /\ Ordered(toRx) /\ toTx \in Seq(TxItem) /\ FromStart
      /\ txFile \in Nat \ {0} /\ txBlock \in Nat
  BY DEF TypeOK, LineTypeOK, TxTypeOK
<1>2. txPhase = "send" /\ txPhase' = "send" /\ txStatus = "RUN"
      /\ txBlock' = txBlock + 1
      /\ UNCHANGED <<toTx, txStatus, txFile>>
  BY DEF TxData, TxAt
<1>3. PICK load \in ReadOutcomes(<<txFile, txBlock + 1>>) :
         toRx' = Send(toRx, Subpacket(load, txBlock + 1 >= Files[txFile]))
  BY DEF TxData
<1> DEFINE b == Subpacket(load, txBlock + 1 >= Files[txFile])
<1>4. load = <<txFile, txBlock + 1>> \/ load = Padding
  BY DEF ReadOutcomes
<1>5. load \in Payload
  BY <1>1, <1>4 DEF Payload, Padding
<1>6. (txBlock + 1 >= Files[txFile]) \in BOOLEAN
  OBVIOUS
<1>7. b \in RxItem /\ b.type = "sub" /\ b.load = load
  BY <1>5, <1>6, Subpackets
<1>8. toRx' = Send(toRx, b)
  BY <1>3
<1> HIDE DEF b
<1>9. Live(b) /\ Stage(b) = 4
  <2>1. ~ (load # Padding /\ load[2] = 0)
    BY <1>1, <1>4
  <2>2. Stage(b) \in {2, 4} /\ Live(b) /\ (Stage(b) = 2 <=> load # Padding /\ load[2] = 0)
    BY <1>7, Stages
  <2> QED BY <2>1, <2>2
<1>10. /\ Streaming
       /\ \A i \in 1 .. Len(toRx) : Live(toRx[i]) => Stage(toRx[i]) \in {3, 4}
  BY <1>2, Sending
<1>11. /\ BlocksInFlight /\ NotStoredYet /\ StoredWereSent
       /\ txFile <= NFiles /\ Len(rxFiles) = txFile /\ rxPhase \in {"file", "data"}
       /\ No({"rinit", "rpos"})
  BY <1>10 DEF Streaming
<1>12. Block(b) => b.load[1] = txFile /\ b.load[2] = txBlock + 1
  BY <1>4, <1>7 DEF Block
<1>13. \A i \in 1 .. Len(toRx) :
          Block(toRx[i]) => toRx[i].load[2] <= txBlock /\ toRx[i].load[2] \in Nat
  <2>1. \A i \in 1 .. Len(toRx) : toRx[i] \in RxItem
    BY <1>1
  <2> QED BY <1>11, <2>1, Stages DEF BlocksInFlight
<1>14. \A i \in 1 .. Len(toRx) : Block(toRx[i]) => toRx[i].load[2] <= txBlock + 1
  BY <1>1, <1>13
<1>15. \A i \in 1 .. Len(toRx) : Live(toRx[i]) => MayFollow(toRx[i], b)
  <2>1. \A i \in 1 .. Len(toRx) : Block(toRx[i]) /\ Block(b) => toRx[i].load[2] < b.load[2]
    BY <1>1, <1>12, <1>13
  <2> QED BY <1>9, <1>10, <2>1 DEF MayFollow
<1> DEFINE data == rxFiles[txFile].data
<1>16. \A k \in 1 .. Len(data) : data[k][2] <= txBlock /\ data[k][2] \in Nat
  <2>1. rxFiles[txFile] \in FileRecord
    BY <1>1, <1>11 DEF TypeOK, RxTypeOK
  <2>2. data \in Seq(Payload)
    BY <2>1 DEF FileRecord
  <2>3. \A k \in 1 .. Len(data) : data[k] \in Payload
    BY <2>2
  <2> QED BY <1>11, <2>3 DEF StoredWereSent, Payload
<1>17. StoredWereSent'
  <2>1. \A k \in 1 .. Len(data) : data[k][2] <= txBlock + 1
    BY <1>1, <1>16
  <2> QED BY <1>2, <2>1 DEF StoredWereSent, rxVars
<1>18. Block(b) => \A k \in 1 .. Len(data) : data[k][2] < b.load[2]
  BY <1>1, <1>12, <1>16
<1>19. Block(b) => b.load[2] <= txBlock'
  BY <1>1, <1>2, <1>12
<1>20. toTx' \in Seq(TxItem) /\ FromStart' /\ No({"rinit", "rpos"})' /\ txBlock' \in Nat
  BY <1>1, <1>2, <1>11 DEF FromStart, No
<1> QED BY <1>1, <1>2, <1>7, <1>8, <1>9, <1>10, <1>11, <1>12, <1>14, <1>15, <1>17,
           <1>18, <1>19, <1>20, StreamStep

LEMMA TxEofStep ==
  ASSUME IInv, TxEof, UNCHANGED <<rxVars, faults, aborts>>
  PROVE  IInv'
<1> USE DEF IInv
<1>1. /\ toRx \in Seq(RxItem) /\ Ordered(toRx) /\ toTx \in Seq(TxItem) /\ FromStart
      /\ txBlock \in Nat
  BY DEF TypeOK, LineTypeOK, TxTypeOK
<1> DEFINE b == RxHeader("eof")
<1>2. /\ txPhase = "send" /\ txPhase' = "end" /\ txStatus = "RUN"
      /\ toRx' = Send(toRx, b)
      /\ UNCHANGED <<toTx, txStatus, txFile, txBlock>>
  BY DEF TxEof, TxAt
<1>3. b \in RxItem /\ Stage(b) = 5 /\ ~ Block(b)
  BY RxHeaders, Stages DEF ToRxHeaders
<1> HIDE DEF b
<1>4. /\ Streaming
      /\ \A i \in 1 .. Len(toRx) : Live(toRx[i]) => Stage(toRx[i]) \in {3, 4}
  BY <1>2, Sending
<1>5. /\ BlocksInFlight /\ NotStoredYet /\ StoredWereSent
      /\ txFile <= NFiles /\ Len(rxFiles) = txFile /\ rxPhase \in {"file", "data"}
      /\ No({"rinit", "rpos"})
  BY <1>4 DEF Streaming
<1>6. \A i \in 1 .. Len(toRx) : Live(toRx[i]) => MayFollow(toRx[i], b)
  BY <1>3, <1>4 DEF MayFollow
<1>7. /\ StoredWereSent' /\ toTx' \in Seq(TxItem) /\ FromStart'
      /\ No({"rinit", "rpos"})' /\ txBlock' \in Nat
  BY <1>1, <1>2, <1>5 DEF StoredWereSent, FromStart, No, rxVars
<1>8. \A i \in 1 .. Len(toRx) : Block(toRx[i]) => toRx[i].load[2] <= txBlock'
  BY <1>2, <1>5 DEF BlocksInFlight
<1> QED BY <1>1, <1>2, <1>3, <1>4, <1>5, <1>6, <1>7, <1>8, StreamStep

-----------------------------------------------------------------------------
(* The theorems *)

LEMMA InitHolds == Init => IInv
<1> SUFFICES ASSUME Init PROVE IInv
  OBVIOUS
<1> USE DEF Init, RxInit, TxInit
<1>1. TypeOK
  <2>1. toRx \in Seq(RxItem) /\ toTx \in Seq(TxItem) /\ rxFiles \in Seq(FileRecord)
    OBVIOUS
  <2>2. 1 \in 1 .. NFiles + 1
    BY BatchAssumption DEF NFiles
  <2> QED BY <2>1, <2>2, SerialLineAssumption
          DEF TypeOK, LineTypeOK, RxTypeOK, TxTypeOK, Status
<1>2. Ordered(toRx) /\ FromStart /\ StatusFits /\ EarlierOk /\ StoredInOrder
  BY DEF Ordered, FromStart, StatusFits, EarlierOk, StoredInOrder
<1>3. Starting
  BY DEF Starting, Flight, No
<1> QED BY <1>1, <1>2, <1>3 DEF IInv, Course

LEMMA StepHolds == IInv /\ [Next]_vars => IInv'
<1> SUFFICES ASSUME IInv, [Next]_vars PROVE IInv'
  OBVIOUS
<1>1. CASE Rx
  <2>1. PICK silent : RxStep(silent)
    BY <1>1 DEF Rx
  <2>2. UNCHANGED <<txVars, faults, aborts>>
    BY <1>1, <2>1 DEF Rx, RxStep
  <2> QED BY <2>1, <2>2, RxStartStep, RxQuietStep, RxFileFailsStep, RxRqinitStep,
             RxFileStep, RxNameStep, RxDataHeaderStep, RxDataStep, RxEofStep,
             RxFinStep DEF RxStep
<1>2. CASE Tx
  <2>1. PICK silent : TxStep(silent)
    BY <1>2 DEF Tx
  <2>2. UNCHANGED <<rxVars, faults, aborts>>
    BY <1>2, <2>1 DEF Tx, TxStep
  <2> QED BY <2>1, <2>2, TxStartStep, TxReadyStep, TxPositionStep, TxDataStep,
             TxEofStep, TxQuietStep DEF TxStep
<1>3. CASE Line
  <2>1. KeptRx /\ KeptTx /\ faults' \in 0 .. MaxFaults /\ aborts' \in 0 .. MaxAborts
    BY <1>3, LineKeeps DEF Line, IInv, TypeOK
  <2> QED BY <1>3, <2>1, QuietStep
          DEF Line, IInv, TypeOK, RxTypeOK, TxTypeOK, rxVars, txVars
<1>4. CASE UNCHANGED vars
  <2>1. KeptRx /\ KeptTx
    BY <1>4, SameRx, SameTx DEF vars, lineVars, IInv, TypeOK, LineTypeOK
  <2> QED BY <1>4, <2>1, QuietStep
          DEF vars, lineVars, IInv, TypeOK, LineTypeOK, RxTypeOK, TxTypeOK, rxVars, txVars
<1> QED BY <1>1, <1>2, <1>3, <1>4 DEF Next, Returned

\* In every behaviour of a session the two ends stand in one of the six
\* positions, with what is in flight in the order of the stream.
THEOREM Invariant == Spec => []IInv
<1>1. Init => IInv
  BY InitHolds
<1>2. IInv /\ [Next]_vars => IInv'
  BY StepHolds
<1> QED BY <1>1, <1>2, PTL DEF Spec

\* Every variable keeps its type: no file beyond the batch is announced.
THEOREM TypesHold == Spec => []TypeOK
<1>1. IInv => TypeOK
  BY DEF IInv
<1> QED BY <1>1, Invariant, PTL

\* The receiver stores blocks of the announced file only, in order and none
\* twice, in the files of the batch in order, on every lossy line.
THEOREM StoredInOrderHolds == Spec => []StoredInOrder
<1>1. IInv => StoredInOrder
  BY DEF IInv
<1> QED BY <1>1, Invariant, PTL

\* No file is announced before the receiver has reported the end of all
\* earlier ones with ZMODEM_OK, and an end that returns ZMODEM_OK does so with
\* the whole batch reported.
THEOREM EarlierFilesEndedHolds == Spec => []EarlierFilesEnded
<1>1. IInv => EarlierFilesEnded
  <2>1. ASSUME IInv, txPhase = "fin"
        PROVE  Len(rxFiles) = NFiles /\ txFile = NFiles + 1
    <3>1. Finishing /\ NFiles \in Nat
      BY <2>1, BatchAssumption
      DEF IInv, Course, Starting, Announced, Positioned, Streaming, FileOver, NFiles
    <3> QED BY <3>1 DEF Finishing
  <2>2. ASSUME IInv, "OK" \in {rxStatus, txStatus} PROVE txPhase = "fin"
    BY <2>2 DEF IInv, StatusFits
  <2>3. NFiles \in Nat
    BY BatchAssumption DEF NFiles
  <2> QED BY <2>1, <2>2, <2>3 DEF IInv, EarlierOk, EarlierFilesEnded
<1> QED BY <1>1, Invariant, PTL

-----------------------------------------------------------------------------
(***************************************************************************)
(* The abstract delivery of a batch.  As long as nothing is hurt, what is  *)
(* in flight is what the transmitter has sent of the file and the receiver *)
(* has not read, item by item; a file has a place for each.                *)
(***************************************************************************)

\* A line that takes the whole stream of a file: the transmitter never asks
\* whether there is room.
Roomy == \A f \in 1 .. NFiles : Files[f] + 2 <= LineCap

OnStream ==
    /\ rxStatus = "RUN" /\ rxPhase \in {"file", "data"}
    /\ txPhase \in {"send", "end"}

\* The blocks the receiver holds of the file
Held == Len(rxFiles[txFile].data)

\* The items of the file's stream (ZDATA, its blocks, ZEOF) that were read, and
\* those that were sent
ReadOf == IF rxPhase = "file" /\ Held = 0 THEN 0 ELSE Held + 1
SentOf == IF txPhase = "send" THEN txBlock + 1 ELSE Files[txFile] + 2

\* What the stream has at place p
IsItem(item, p) ==
    /\ p = 0 => item.type = "data"
    /\ p \in 1 .. Files[txFile] =>
          /\ item.type = "sub" /\ item.load = <<txFile, p>>
          /\ item.last <=> p = Files[txFile]
    /\ p > Files[txFile] => item.type = "eof"

InPlace == \A i \in 1 .. Len(toRx) : IsItem(toRx[i], ReadOf + i - 1)

Gapless ==
    /\ Len(toRx) = SentOf - ReadOf
    /\ InPlace
    /\ Held <= Files[txFile]
    /\ rxPhase = "file" => Held \in {0, Files[txFile]}
    /\ txPhase = "send" => txBlock <= Files[txFile]

NothingDead == \A i \in 1 .. Len(toRx) : Live(toRx[i])

Unhurt == ~ hurt => NothingDead /\ (OnStream => Gapless)

\* The end of the file the receiver is in has not been reported.
InsideOpen ==
    rxStatus = "RUN" /\ rxPhase \in {"file", "data"} =>
       rxFiles[Len(rxFiles)].end = "none"

\* The file of the stream, and the numbers that place its items
LEMMA FileOfStream ==
  ASSUME IInv, rxPhase \in {"file", "data"}
  PROVE  /\ rxFiles \in Seq(FileRecord) /\ Len(rxFiles) = txFile /\ rxFiles # <<>>
         /\ txFile \in 1 .. NFiles /\ txFile \in 1 .. Len(rxFiles)
         /\ Files[txFile] \in Nat /\ txBlock \in Nat
         /\ rxFiles[txFile] \in FileRecord
         /\ rxFiles[txFile].data \in Seq(Payload) /\ Held \in Nat
         /\ toRx \in Seq(RxItem) /\ Len(toRx) \in Nat
<1>1. /\ rxFiles \in Seq(FileRecord) /\ txFile \in 1 .. NFiles + 1 /\ NFiles \in Nat
      /\ txBlock \in Nat /\ toRx \in Seq(RxItem)
  BY BatchAssumption
  DEF IInv, TypeOK, LineTypeOK, RxTypeOK, TxTypeOK, NFiles
<1>2. Len(rxFiles) = txFile /\ txFile <= NFiles
  BY InStream DEF IInv
<1>3. Files[txFile] \in Nat
  BY <1>1, <1>2, BatchAssumption DEF NFiles
<1>4. rxFiles[txFile] \in FileRecord
  BY <1>1, <1>2
<1>5. rxFiles[txFile].data \in Seq(Payload)
  BY <1>4 DEF FileRecord
<1> QED BY <1>1, <1>2, <1>3, <1>4, <1>5 DEF Held

\* Something live that is read inside a file is of the file's stream.
LEMMA ReadOnStream ==
  ASSUME IInv, Unhurt, ~ hurt, rxStatus = "RUN", rxPhase \in {"file", "data"},
         toRx # <<>>, toRx' = Tail(toRx)
  PROVE  /\ OnStream /\ Gapless
         /\ Head(toRx) = toRx[1] /\ IsItem(Head(toRx), ReadOf)
         /\ Len(toRx') = Len(toRx) - 1 /\ Len(toRx) > 0
         /\ \A i \in 1 .. Len(toRx') : /\ i + 1 \in 1 .. Len(toRx)
                                       /\ toRx'[i] = toRx[i + 1]
<1>1. toRx \in Seq(RxItem)
  BY FileOfStream
<1>2. /\ Head(toRx) = toRx[1] /\ 1 \in 1 .. Len(toRx)
      /\ Len(toRx') = Len(toRx) - 1 /\ Len(toRx) > 0
      /\ \A i \in 1 .. Len(toRx') : i + 1 \in 1 .. Len(toRx) /\ toRx'[i] = toRx[i + 1]
  BY <1>1
<1>3. Live(toRx[1])
  BY <1>2 DEF Unhurt, NothingDead
<1>4. Streaming
  BY <1>2, <1>3, InStream DEF IInv, Flight
<1>5. OnStream /\ Gapless
  BY <1>4 DEF Streaming, OnStream, Unhurt
<1>6. IsItem(toRx[1], ReadOf)
  <2>1. IsItem(toRx[1], ReadOf + 1 - 1)
    BY <1>2, <1>5 DEF Gapless, InPlace
  <2>2. ReadOf + 1 - 1 = ReadOf
    BY FileOfStream DEF ReadOf
  <2> QED BY <2>1, <2>2
<1> QED BY <1>2, <1>5, <1>6

\* Where the next item of the stream is read, the others move up.
LEMMA PlacesMoveUp ==
  ASSUME IInv, Unhurt, ~ hurt, rxStatus = "RUN", rxPhase \in {"file", "data"},
         toRx # <<>>, toRx' = Tail(toRx), UNCHANGED txVars,
         ReadOf' = ReadOf + 1
  PROVE  Len(toRx') = SentOf' - ReadOf' /\ InPlace'
<1>1. /\ Gapless /\ Len(toRx') = Len(toRx) - 1
      /\ \A i \in 1 .. Len(toRx') : /\ i + 1 \in 1 .. Len(toRx)
                                    /\ toRx'[i] = toRx[i + 1]
  BY ReadOnStream
<1>2. ReadOf \in Nat /\ SentOf \in Nat /\ Len(toRx) \in Nat
  <2>1. /\ Held \in Nat /\ Files[txFile] \in Nat /\ txBlock \in Nat
        /\ Len(toRx) \in Nat
    BY FileOfStream
  <2> QED BY <2>1 DEF ReadOf, SentOf
<1>3. SentOf' = SentOf /\ txFile' = txFile
  BY DEF SentOf, txVars
<1>4. Len(toRx') = SentOf' - ReadOf'
  BY <1>1, <1>2, <1>3 DEF Gapless
<1>5. ASSUME NEW i \in 1 .. Len(toRx')
      PROVE  IsItem(toRx[i + 1], ReadOf' + i - 1)
  <2>1. ReadOf' + i - 1 = ReadOf + (i + 1) - 1
    BY <1>2
  <2> QED BY <1>1, <1>5, <2>1 DEF Gapless, InPlace
<1>6. InPlace'
  BY <1>1, <1>3, <1>5 DEF InPlace, IsItem
<1> QED BY <1>4, <1>6

\* ZDATA is read before anything else of the stream.
LEMMA DataHeaderPlaced ==
  ASSUME IInv, IInv', Unhurt, ~ hurt, RxDataHeader, UNCHANGED txVars
  PROVE  Gapless'
<1>1. /\ rxStatus = "RUN" /\ rxPhase = "file" /\ rxPhase' = "data"
      /\ toRx # <<>> /\ Head(toRx).type = "data" /\ toRx' = Tail(toRx)
      /\ UNCHANGED <<rxFiles, rxStatus>> /\ UNCHANGED <<txPhase, txFile, txBlock>>
  BY DEF RxDataHeader, RxReads, RxAt, RxGoTo, txVars
<1>2. /\ Gapless /\ IsItem(Head(toRx), ReadOf)
      /\ Files[txFile] \in Nat /\ Held \in Nat
  BY <1>1, ReadOnStream, FileOfStream
<1>3. Held = 0 /\ ReadOf = 0
  BY <1>1, <1>2 DEF IsItem, ReadOf, Gapless
<1>4. Held' = 0 /\ ReadOf' = 1
  BY <1>1, <1>3 DEF Held, ReadOf
<1>5. Len(toRx') = SentOf' - ReadOf' /\ InPlace'
  BY <1>1, <1>3, <1>4, PlacesMoveUp
<1> QED BY <1>1, <1>2, <1>4, <1>5 DEF Gapless

\* A subpacket that is read holds the block behind those the receiver has.
LEMMA NextBlockRead ==
  ASSUME IInv, Unhurt, ~ hurt, RxData
  PROVE  /\ Head(toRx).load = <<txFile, Held + 1>>
         /\ Head(toRx).last <=> Held + 1 = Files[txFile]
         /\ Held < Files[txFile] /\ ReadOf = Held + 1
<1>1. /\ rxStatus = "RUN" /\ rxPhase = "data"
      /\ toRx # <<>> /\ Head(toRx).type = "sub" /\ toRx' = Tail(toRx)
  BY DEF RxData, RxReads, RxAt
<1>2. IsItem(Head(toRx), ReadOf) /\ Files[txFile] \in Nat /\ Held \in Nat
  BY <1>1, ReadOnStream, FileOfStream
<1>3. ReadOf = Held + 1
  BY <1>1 DEF ReadOf
<1>4. Held < Files[txFile]
  BY <1>1, <1>2, <1>3 DEF IsItem
<1> QED BY <1>2, <1>3, <1>4 DEF IsItem

LEMMA DataPlaced ==
  ASSUME IInv, Unhurt, ~ hurt, RxData, rxFiles' # rxFiles, UNCHANGED txVars
  PROVE  Gapless'
<1>1. /\ rxStatus = "RUN" /\ rxPhase = "data"
      /\ toRx # <<>> /\ toRx' = Tail(toRx)
      /\ rxFiles' \in Stored(rxFiles, Head(toRx).load)
      /\ rxPhase' = IF Head(toRx).last THEN "file" ELSE "data"
      /\ UNCHANGED <<txPhase, txFile, txBlock>>
  BY DEF RxData, RxReads, RxAt, RxGoTo, txVars
<1>2. /\ Gapless /\ Files[txFile] \in Nat /\ Held \in Nat
      /\ rxFiles \in Seq(FileRecord) /\ rxFiles # <<>> /\ Len(rxFiles) = txFile
      /\ rxFiles[txFile].data \in Seq(Payload) /\ toRx \in Seq(RxItem)
  BY <1>1, ReadOnStream, FileOfStream
<1>3. /\ Head(toRx).last <=> Held + 1 = Files[txFile]
      /\ Held < Files[txFile] /\ ReadOf = Held + 1
  BY NextBlockRead
<1>4. Head(toRx).load \in Payload
  <2>1. Head(toRx) \in RxItem
    BY <1>1, <1>2
  <2> QED BY <2>1 DEF RxItem
<1>5. rxFiles'[txFile].data = Append(rxFiles[txFile].data, Head(toRx).load)
  BY <1>1, <1>2, <1>4, StoredFacts
<1>6. Held' = Held + 1
  <2>1. Len(Append(rxFiles[txFile].data, Head(toRx).load)) = Len(rxFiles[txFile].data) + 1
    BY <1>2, <1>4
  <2> QED BY <1>1, <1>5, <2>1 DEF Held
<1>7. ReadOf' = ReadOf + 1
  BY <1>2, <1>3, <1>6 DEF ReadOf
<1>8. Len(toRx') = SentOf' - ReadOf' /\ InPlace'
  BY <1>1, <1>7, PlacesMoveUp
<1>9. rxPhase' = "file" => Held' = Files[txFile]
  BY <1>1, <1>3, <1>6
<1>10. Held' <= Files[txFile]
  BY <1>2, <1>3, <1>6
<1> QED BY <1>1, <1>2, <1>8, <1>9, <1>10 DEF Gapless

\* Nothing of the stream is skipped.
LEMMA NothingSkipped ==
  ASSUME IInv, Unhurt, ~ hurt, RxSkip
  PROVE  rxPhase = "idle"
<1>1. SUFFICES ASSUME rxPhase = "file" PROVE FALSE
  BY DEF RxSkip, RxReads, RxAt
<1>2. /\ rxStatus = "RUN" /\ toRx # <<>> /\ toRx' = Tail(toRx)
      /\ Head(toRx).type \in {"sub", "junk", "rqinit", "file"}
  BY <1>1 DEF RxSkip, RxReads, RxAt
<1>3. /\ Gapless /\ IsItem(Head(toRx), ReadOf)
      /\ Files[txFile] \in Nat /\ Held \in Nat
  BY <1>1, <1>2, ReadOnStream, FileOfStream
<1>4. ReadOf = 0 \/ ReadOf > Files[txFile]
  BY <1>1, <1>3 DEF Gapless, ReadOf
<1> QED BY <1>2, <1>3, <1>4 DEF IsItem

\* What the transmitter sends of the file takes the next place.
LEMMA PlaceTaken ==
  ASSUME Roomy, IInv, OnStream, Gapless, UNCHANGED <<rxVars, txFile>>,
         SentOf <= Files[txFile] + 1,
         NEW b \in RxItem, toRx' = Send(toRx, b), IsItem(b, SentOf),
         SentOf' = SentOf + 1
  PROVE  Len(toRx') = SentOf' - ReadOf' /\ InPlace'
<1>1. /\ toRx \in Seq(RxItem) /\ Len(toRx) \in Nat /\ Held \in Nat
      /\ Files[txFile] \in Nat /\ txBlock \in Nat /\ txFile \in 1 .. NFiles
  BY FileOfStream DEF OnStream
<1>2. ReadOf \in Nat /\ SentOf \in Nat /\ ReadOf' = ReadOf
  <2>1. ReadOf \in Nat
    BY <1>1 DEF ReadOf
  <2>2. SentOf \in Nat
    BY <1>1 DEF SentOf
  <2>3. ReadOf' = ReadOf
    BY DEF ReadOf, Held, rxVars
  <2> QED BY <2>1, <2>2, <2>3
<1>3. Len(toRx) = SentOf - ReadOf
  BY DEF Gapless
<1>4. toRx' = Append(toRx, b)
  <2>1. Len(toRx) < LineCap
    <3>1. Files[txFile] + 2 <= LineCap
      BY <1>1 DEF Roomy
    <3> QED BY <1>1, <1>2, <1>3, <3>1, SerialLineAssumption
  <2> QED BY <2>1 DEF Send
<1>5. /\ Len(toRx') = Len(toRx) + 1
      /\ \A i \in 1 .. Len(toRx') : toRx'[i] = IF i <= Len(toRx) THEN toRx[i] ELSE b
  BY <1>1, <1>4
<1>6. ASSUME NEW i \in 1 .. Len(toRx')
      PROVE  IsItem(toRx'[i], ReadOf + i - 1)
  <2>1. CASE i <= Len(toRx)
    BY <1>1, <1>5, <2>1 DEF Gapless, InPlace
  <2>2. CASE i > Len(toRx)
    <3>1. ReadOf + i - 1 = SentOf
      BY <1>1, <1>2, <1>3, <1>5, <2>2
    <3> QED BY <1>5, <2>2, <3>1
  <2> QED BY <1>1, <2>1, <2>2
<1>7. InPlace'
  BY <1>2, <1>6 DEF InPlace, IsItem
<1>8. Len(toRx') = SentOf' - ReadOf'
  BY <1>1, <1>2, <1>3, <1>5
<1> QED BY <1>7, <1>8

LEMMA BlockPlaced ==
  ASSUME Roomy, IInv, Unhurt, ~ hurt, TxData, ~ NotRead, OnStream, UNCHANGED rxVars
  PROVE  Gapless'
<1>1. /\ txPhase = "send" /\ txPhase' = "send" /\ txBlock < Files[txFile]
      /\ txBlock' = txBlock + 1 /\ UNCHANGED txFile
  BY DEF TxData, TxAt
<1>2. PICK load \in ReadOutcomes(<<txFile, txBlock + 1>>) :
         toRx' = Send(toRx, Subpacket(load, txBlock + 1 >= Files[txFile]))
  BY DEF TxData
<1> DEFINE b == Subpacket(load, txBlock + 1 >= Files[txFile])
<1>3. /\ Gapless /\ toRx \in Seq(RxItem) /\ Len(toRx) \in Nat /\ Held \in Nat
      /\ Files[txFile] \in Nat /\ txBlock \in Nat /\ txFile \in 1 .. NFiles
  BY FileOfStream DEF OnStream, Unhurt
<1>4. load = <<txFile, txBlock + 1>> \/ load = Padding
  BY <1>2 DEF ReadOutcomes
<1>5. /\ b \in RxItem /\ b.type = "sub" /\ b.load = load
      /\ b.last <=> txBlock + 1 >= Files[txFile]
  <2>1. load \in Payload
    BY <1>3, <1>4 DEF Payload, Padding
  <2>2. (txBlock + 1 >= Files[txFile]) \in BOOLEAN
    OBVIOUS
  <2> QED BY <2>1, <2>2, Subpackets DEF Subpacket
<1> HIDE DEF b
<1>6. toRx' = Send(toRx, b)
  BY <1>2 DEF b
<1>7. SentOf = txBlock + 1 /\ SentOf' = SentOf + 1
  BY <1>1, <1>3 DEF SentOf
<1>8. Len(toRx) < LineCap
  <2>1. Files[txFile] + 2 <= LineCap
    BY <1>3 DEF Roomy
  <2>2. ReadOf \in Nat
    BY <1>3 DEF ReadOf
  <2>3. Len(toRx) = SentOf - ReadOf
    BY <1>3 DEF Gapless
  <2>4. SentOf <= Files[txFile]
    BY <1>1, <1>3, <1>7
  <2>5. LineCap \in Nat
    BY SerialLineAssumption
  <2> QED BY <1>1, <1>3, <1>7, <2>1, <2>2, <2>3, <2>4, <2>5
<1>9. load = <<txFile, txBlock + 1>>
  <2>1. toRx' = Append(toRx, b)
    BY <1>6, <1>8 DEF Send
  <2>2. toRx' # toRx /\ toRx'[Len(toRx')] = b
    BY <1>3, <1>5, <2>1
  <2> QED BY <1>1, <1>4, <1>5, <2>2 DEF NotRead
<1>10. IsItem(b, SentOf)
  <2>1. SentOf \in 1 .. Files[txFile] /\ b.load = <<txFile, SentOf>>
    BY <1>1, <1>3, <1>5, <1>7, <1>9
  <2>2. b.last <=> SentOf = Files[txFile]
    BY <1>1, <1>3, <1>5, <1>7
  <2> QED BY <1>3, <1>5, <2>1, <2>2 DEF IsItem
<1>11. Len(toRx') = SentOf' - ReadOf' /\ InPlace'
  BY <1>1, <1>3, <1>5, <1>6, <1>7, <1>10, PlaceTaken
<1> QED BY <1>1, <1>3, <1>11 DEF Gapless, Held, rxVars

LEMMA EofPlaced ==
  ASSUME Roomy, IInv, Unhurt, ~ hurt, TxEof, OnStream, UNCHANGED rxVars
  PROVE  Gapless'
<1>1. /\ txPhase = "send" /\ txPhase' = "end" /\ txBlock >= Files[txFile]
      /\ toRx' = Send(toRx, RxHeader("eof")) /\ UNCHANGED txFile
  BY DEF TxEof, TxAt
<1>2. /\ Gapless /\ Files[txFile] \in Nat /\ txBlock \in Nat
  BY FileOfStream DEF OnStream, Unhurt
<1>3. SentOf = Files[txFile] + 1 /\ SentOf' = SentOf + 1
  BY <1>1, <1>2 DEF SentOf, Gapless
<1>4. RxHeader("eof") \in RxItem /\ RxHeader("eof").type = "eof"
  BY RxHeaders DEF ToRxHeaders
<1>5. IsItem(RxHeader("eof"), SentOf)
  BY <1>2, <1>3, <1>4 DEF IsItem
<1>6. Len(toRx') = SentOf' - ReadOf' /\ InPlace'
  BY <1>1, <1>2, <1>3, <1>4, <1>5, PlaceTaken
<1> QED BY <1>1, <1>2, <1>6 DEF Gapless, Held, rxVars

\* The stream of a file starts on an empty line.
LEMMA StreamPlaced ==
  ASSUME Roomy, IInv, Unhurt, ~ hurt, TxPosition, UNCHANGED rxVars
  PROVE  Gapless'
<1>1. /\ toTx # <<>> /\ Head(toTx).type = "rpos"
      /\ txPhase = "pos" /\ txPhase' = "send" /\ txBlock' = Head(toTx).pos
      /\ toRx' = Send(toRx, RxHeader("data")) /\ UNCHANGED txFile
  BY DEF TxPosition, TxReads, TxAt
<1>2. toTx \in Seq(TxItem) /\ toRx \in Seq(RxItem)
  BY DEF IInv, TypeOK, LineTypeOK
<1>3. 1 \in 1 .. Len(toTx) /\ toTx[1] = Head(toTx)
  BY <1>1, <1>2
<1>4. Positioned
  BY <1>1, <1>3 DEF IInv, Course, Starting, Announced, Streaming, FileOver, Finishing, No
<1>5. txBlock' = 0
  BY <1>1, <1>3 DEF IInv, FromStart
<1>6. toRx = <<>>
  BY <1>2, <1>4 DEF Positioned, Flight, Unhurt, NothingDead
<1>7. Files[txFile] \in Nat /\ txFile \in 1 .. NFiles
  BY <1>4, FileOfStream DEF Positioned
<1>8. toRx' = <<RxHeader("data")>>
  <2>1. Len(toRx) < LineCap
    BY <1>6, <1>7, SerialLineAssumption DEF Roomy
  <2> QED BY <1>1, <1>6, <2>1 DEF Send
<1>9. Held' = 0 /\ ReadOf' = 0 /\ SentOf' = 1
  BY <1>1, <1>4, <1>5 DEF Positioned, Held, ReadOf, SentOf, rxVars
<1>10. RxHeader("data").type = "data"
  BY RxHeaders DEF ToRxHeaders
<1>11. InPlace'
  BY <1>1, <1>7, <1>8, <1>9, <1>10 DEF InPlace, IsItem
<1>12. Len(toRx') = 1
  BY <1>8
<1> QED BY <1>1, <1>5, <1>7, <1>9, <1>11, <1>12 DEF Gapless

\* A step that is no harm puts only headers and subpackets on the line.
LEMMA NothingDies ==
  ASSUME IInv, NothingDead, Rx \/ Tx \/ UNCHANGED vars
  PROVE  NothingDead'
<1>1. toRx \in Seq(RxItem)
  BY DEF IInv, TypeOK, LineTypeOK
<1>2. CASE Rx
  <2>1. \/ toRx' \in {toRx, <<>>}
        \/ toRx # <<>> /\ toRx' = Tail(toRx)
    BY <1>2 DEF Rx, RxStep, RxStart, RxIdleFails, RxFileFails, RxSkip, RxRqinit, RxFile,
                RxName, RxNameFails, RxDataFails, RxDataHeader, RxData, RxEof, RxFin,
                RxNoHeader, RxNoSubpacket, RxReads, Waiting
  <2> QED BY <1>1, <2>1 DEF NothingDead
<1>3. ASSUME NEW q \in Seq(RxItem), \A i \in 1 .. Len(q) : Live(q[i]),
             NEW b \in RxItem, Live(b)
      PROVE  /\ Send(q, b) \in Seq(RxItem)
             /\ \A i \in 1 .. Len(Send(q, b)) : Live(Send(q, b)[i])
  BY <1>3 DEF Send
<1>4. \A ty \in ToRxHeaders : RxHeader(ty) \in RxItem /\ Live(RxHeader(ty))
  BY RxHeaders DEF Live
<1>5. \A load \in Payload, end \in BOOLEAN :
         Subpacket(load, end) \in RxItem /\ Live(Subpacket(load, end))
  BY Subpackets DEF Live
<1>6. CASE Tx
  <2>1. txFile \in Nat /\ txBlock \in Nat
    BY DEF IInv, TypeOK, TxTypeOK
  <2>2. CASE UNCHANGED toRx
    BY <2>2 DEF NothingDead
  <2>3. CASE \E b \in RxItem : Live(b) /\ toRx' = Send(toRx, b)
    BY <1>1, <1>3, <2>3 DEF NothingDead
  <2>4. CASE TxStart \/ TxPosition \/ TxEof
    <3>1. \E ty \in ToRxHeaders : toRx' = Send(toRx, RxHeader(ty))
      BY <2>4 DEF TxStart, TxPosition, TxEof, ToRxHeaders
    <3> QED BY <1>4, <2>3, <3>1
  <2>5. CASE TxData
    <3>1. PICK load \in ReadOutcomes(<<txFile, txBlock + 1>>) :
             toRx' = Send(toRx, Subpacket(load, txBlock + 1 >= Files[txFile]))
      BY <2>5 DEF TxData
    <3>2. load \in Payload
      BY <2>1 DEF ReadOutcomes, Payload, Padding
    <3>3. (txBlock + 1 >= Files[txFile]) \in BOOLEAN
      OBVIOUS
    <3> QED BY <1>5, <2>3, <3>1, <3>2, <3>3
  <2>6. CASE TxReady \/ TxFileDone
    <3>1. PICK f \in {txFile, txFile + 1} : Announce(f)
      BY <2>6 DEF TxReady, TxFileDone
    <3>2. CASE toRx' = Send(toRx, RxHeader("fin"))
      BY <1>4, <2>3, <3>2 DEF ToRxHeaders
    <3>3. CASE toRx' = Send(Send(toRx, RxHeader("file")), Subpacket(<<f, 0>>, TRUE))
      <4> DEFINE q == Send(toRx, RxHeader("file"))
      <4>1. q \in Seq(RxItem) /\ \A i \in 1 .. Len(q) : Live(q[i])
        BY <1>1, <1>3, <1>4 DEF NothingDead, ToRxHeaders
      <4>2. <<f, 0>> \in Payload
        BY <2>1, <3>1 DEF Payload
      <4> HIDE DEF q
      <4>3. toRx' = Send(q, Subpacket(<<f, 0>>, TRUE))
        BY <3>3 DEF q
      <4> QED BY <1>3, <1>5, <4>1, <4>2, <4>3 DEF NothingDead
    <3> QED BY <3>1, <3>2, <3>3 DEF Announce
  <2>7. CASE TxSkip \/ \E silent : TxFails(silent) \/ TxFin(silent)
    BY <2>2, <2>7 DEF TxSkip, TxFails, TxFin
  <2> QED BY <1>6, <2>4, <2>5, <2>6, <2>7 DEF Tx, TxStep
<1>7. CASE UNCHANGED vars
  BY <1>7 DEF vars, lineVars, NothingDead
<1> QED BY <1>2, <1>6, <1>7

\* As long as nothing is hurt, the stream of a file has no gap.
LEMMA UnhurtStep ==
  ASSUME Roomy, IInv, IInv', Unhurt, [Next]_vars
  PROVE  Unhurt'
<1>1. SUFFICES ASSUME ~ hurt' PROVE NothingDead' /\ (OnStream' => Gapless')
  BY DEF Unhurt
<1>2. ~ hurt /\ (Rx \/ Tx \/ UNCHANGED vars)
  <2>1. hurt => hurt'
    BY Zenon DEF Next, Rx, Tx, Line, Returned, vars
  <2>2. ~ Line
    BY <1>1 DEF Line
  <2> QED BY <1>1, <2>1, <2>2 DEF Next, Returned
<1>3. NothingDead'
  BY <1>2, NothingDies DEF Unhurt
<1>4. ASSUME UNCHANGED <<toRx, rxVars, txPhase, txFile, txBlock>>, OnStream'
      PROVE  Gapless'
  <2>1. Gapless
    BY <1>2, <1>4 DEF Unhurt, OnStream, rxVars
  <2> QED BY <1>4, <2>1
      DEF Gapless, InPlace, IsItem, ReadOf, SentOf, Held, rxVars
<1>5. ASSUME Rx, OnStream' PROVE Gapless'
  <2>1. PICK silent : RxStep(silent)
    BY <1>5 DEF Rx
  <2>2. UNCHANGED txVars /\ rxStatus' = "RUN" /\ rxPhase' \in {"file", "data"}
    BY <1>5 DEF Rx, OnStream
  <2>3. ~ RxStart
    BY <2>2 DEF RxStart, IInv, StatusFits
  <2>4. ~ (RxIdleFails(silent) \/ RxFileFails(silent) \/ RxNameFails(silent)
           \/ RxDataFails(silent) \/ RxRqinit \/ RxFile \/ RxEof \/ RxFin)
    BY <2>2 DEF RxIdleFails, RxFileFails, RxNameFails, RxDataFails, RxRqinit, RxFile,
                RxEof, RxFin, RxReads, RxAt, RxReturn, RxGoTo, rxVars
  <2>5. ~ RxSkip
    BY <1>2, <2>2, NothingSkipped DEF RxSkip, rxVars
  <2>6. ~ RxName
    <3>1. RxName => Announced
      BY DEF RxName, RxReads, RxAt, IInv, Course, Starting, Announced, Positioned,
             Streaming, FileOver, Finishing
    <3> QED BY <1>5, <2>2, <3>1 DEF Announced, OnStream, txVars
  <2>7. CASE RxDataHeader
    BY <1>2, <2>2, <2>7, DataHeaderPlaced
  <2>8. CASE RxData
    <3>1. rxFiles' # rxFiles
      BY <1>1, <1>5, <2>2, <2>8 DEF Rx, NotStored, RxData, RxReads, RxAt
    <3> QED BY <1>2, <2>2, <2>8, <3>1, DataPlaced
  <2> QED BY <2>1, <2>3, <2>4, <2>5, <2>6, <2>7, <2>8 DEF RxStep
<1>6. ASSUME Tx, OnStream' PROVE Gapless'
  <2>1. PICK silent : TxStep(silent)
    BY <1>6 DEF Tx
  <2>2. UNCHANGED rxVars /\ txPhase' \in {"send", "end"} /\ ~ NotRead
        /\ rxStatus = "RUN" /\ rxPhase \in {"file", "data"}
    BY <1>1, <1>6 DEF Tx, OnStream, rxVars
  <2>3. ~ (TxStart \/ TxReady \/ TxFileDone)
    BY <2>2 DEF TxStart, TxReady, TxFileDone, Announce, IInv, StatusFits
  <2>4. CASE TxPosition
    BY <1>2, <2>2, <2>4, StreamPlaced
  <2>5. CASE TxData
    BY <1>2, <2>2, <2>5, BlockPlaced DEF OnStream, TxData, TxAt
  <2>6. CASE TxEof
    BY <1>2, <2>2, <2>6, EofPlaced DEF OnStream, TxEof, TxAt
  <2>7. CASE TxSkip \/ TxFails(silent) \/ TxFin(silent)
    BY <1>4, <1>6, <2>2, <2>7 DEF TxSkip, TxFails, TxFin, TxReturn, txVars
  <2> QED BY <2>1, <2>3, <2>4, <2>5, <2>6, <2>7 DEF TxStep
<1>7. ASSUME UNCHANGED vars, OnStream' PROVE Gapless'
  BY <1>4, <1>7 DEF vars, lineVars, txVars
<1> QED BY <1>2, <1>3, <1>5, <1>6, <1>7

\* The receiver reports the end of a file when it leaves it.
LEMMA InsideOpenStep ==
  ASSUME IInv, InsideOpen, [Next]_vars
  PROVE  InsideOpen'
<1>1. SUFFICES ASSUME rxStatus' = "RUN", rxPhase' \in {"file", "data"}
               PROVE  rxFiles'[Len(rxFiles')].end = "none"
  BY DEF InsideOpen
<1>2. CASE UNCHANGED rxVars
  BY <1>1, <1>2 DEF InsideOpen, rxVars
<1>3. CASE Rx
  <2>1. PICK silent : RxStep(silent)
    BY <1>3 DEF Rx
  <2>2. ~ RxStart
    BY <1>1 DEF RxStart, IInv, StatusFits
  <2>3. ~ (RxIdleFails(silent) \/ RxFileFails(silent) \/ RxNameFails(silent)
           \/ RxDataFails(silent) \/ RxRqinit \/ RxFile \/ RxEof \/ RxFin)
    BY <1>1 DEF RxIdleFails, RxFileFails, RxNameFails, RxDataFails, RxRqinit, RxFile,
                RxEof, RxFin, RxReads, RxAt, RxReturn, RxGoTo, rxVars
  <2>4. CASE RxSkip \/ RxDataHeader
    BY <1>1, <2>4 DEF RxSkip, RxDataHeader, RxReads, RxAt, rxVars, InsideOpen
  <2>5. CASE RxName
    <3>1. rxFiles' \in Started(rxFiles, Head(toRx).load[1]) /\ rxFiles \in Seq(FileRecord)
      BY <2>5 DEF RxName, IInv, TypeOK, RxTypeOK
    <3> QED BY <3>1 DEF Started
  <2>6. CASE RxData
    <3>1. /\ rxStatus = "RUN" /\ rxPhase = "data" /\ toRx # <<>>
          /\ rxFiles' \in Stored(rxFiles, Head(toRx).load)
      BY <2>6 DEF RxData, RxReads, RxAt
    <3>2. /\ rxFiles \in Seq(FileRecord) /\ rxFiles # <<>> /\ toRx \in Seq(RxItem)
      BY <3>1, FileOfStream
    <3>3. Head(toRx).load \in Payload
      <4>1. Head(toRx) \in RxItem
        BY <3>1, <3>2
      <4> QED BY <4>1 DEF RxItem
    <3> QED BY <3>1, <3>2, <3>3, StoredFacts DEF InsideOpen
  <2> QED BY <2>1, <2>2, <2>3, <2>4, <2>5, <2>6 DEF RxStep
<1> QED BY <1>2, <1>3 DEF Next, Tx, Line, Returned, vars

\* Where the receiver is in a file: its position in the code tells.
LEMMA Whereabouts ==
  ASSUME IInv, InsideOpen
  PROVE  /\ rxPhase \in {"idle", "name"} => Batch!Outside
         /\ rxStatus = "RUN" /\ rxPhase \in {"file", "data"} => Batch!Inside
<1>1. rxFiles \in Seq(FileRecord) /\ txFile \in Nat \ {0} /\ NFiles \in Nat
  BY BatchAssumption DEF IInv, TypeOK, RxTypeOK, TxTypeOK, NFiles
<1>2. ASSUME rxPhase \in {"idle", "name"}
      PROVE  Batch!Outside
  BY <1>1, <1>2 DEF IInv, Course, Starting, Announced, Positioned, Streaming, FileOver,
                    Finishing, EarlierOk, Batch!Outside, Batch!Current
<1>3. ASSUME rxStatus = "RUN", rxPhase \in {"file", "data"}
      PROVE  Batch!Inside
  BY <1>1, <1>3, InStream DEF IInv, InsideOpen, Batch!Inside, Batch!Current
<1> QED BY <1>2, <1>3

\* The subpacket with the name starts the next file of the batch.
LEMMA NameDelivers ==
  ASSUME IInv, IInv', InsideOpen, RxName, UNCHANGED txVars
  PROVE  Batch!Start
<1>1. /\ rxStatus = "RUN" /\ rxPhase = "name" /\ rxPhase' = "file"
      /\ rxFiles' \in Started(rxFiles, Head(toRx).load[1])
      /\ UNCHANGED rxStatus /\ UNCHANGED <<txStatus, txFile>>
  BY DEF RxName, RxReads, RxAt, RxGoTo, txVars
<1>2. /\ rxFiles \in Seq(FileRecord) /\ txFile \in Nat \ {0} /\ NFiles \in Nat
  BY BatchAssumption DEF IInv, TypeOK, RxTypeOK, TxTypeOK, NFiles
<1>3. Len(rxFiles) = txFile - 1 /\ txFile <= NFiles
  BY <1>1 DEF IInv, Course, Starting, Announced, Positioned, Streaming, FileOver, Finishing
<1>4. PICK o \in {TRUE, ~ StoreFails} :
         rxFiles' = Append(rxFiles, [name |-> Head(toRx).load[1], data |-> <<>>,
                                     open |-> o, end |-> "none"])
  BY <1>1 DEF Started
<1>5. Head(toRx).load[1] = Len(rxFiles) + 1
  <2> DEFINE r == [name |-> Head(toRx).load[1], data |-> <<>>, open |-> o, end |-> "none"]
  <2>1. Len(rxFiles') = Len(rxFiles) + 1 /\ rxFiles'[Len(rxFiles) + 1] = r
    BY <1>2, <1>4
  <2>2. rxFiles'[Len(rxFiles) + 1].name = Len(rxFiles) + 1
    BY <1>2, <2>1 DEF IInv, StoredInOrder
  <2> QED BY <2>1, <2>2
<1>6. o \in BOOLEAN
  BY BatchAssumption, Zenon
<1> QED
  BY <1>1, <1>2, <1>3, <1>4, <1>5, <1>6, Whereabouts
  DEF Batch!Start, Batch!Current, Batch!N, NFiles

\* A block that is stored is the next one of the file, where nothing was hurt.
LEMMA DataDelivers ==
  ASSUME IInv, InsideOpen, Unhurt, RxData, UNCHANGED txVars
  PROVE  Batch!Deliver \/ UNCHANGED <<rxFiles, rxStatus, txStatus>>
<1> DEFINE n == Len(rxFiles)
           b == Head(toRx).load
<1>1. /\ rxStatus = "RUN" /\ rxPhase = "data" /\ toRx # <<>>
      /\ rxFiles' \in Stored(rxFiles, b)
      /\ UNCHANGED rxStatus /\ UNCHANGED txStatus
  BY DEF RxData, RxReads, RxAt, RxGoTo, txVars
<1>2. /\ n = txFile /\ n \in 1 .. NFiles /\ toRx \in Seq(RxItem)
  BY <1>1, FileOfStream
<1>3. b \in {toRx[i].load : i \in DOMAIN toRx}
  BY <1>1, <1>2
<1>4. ~ hurt => b = <<n, Len(rxFiles[n].data) + 1>> /\ Len(rxFiles[n].data) < Files[n]
  BY <1>2, NextBlockRead DEF Held
<1>5. Batch!Inside
  BY <1>1, Whereabouts
<1> HIDE DEF b
<1>6. \/ rxFiles' = rxFiles
      \/ rxFiles' = [rxFiles EXCEPT ![n].data = Append(@, b)]
  BY <1>1, Zenon DEF Stored
<1> QED
  BY <1>1, <1>2, <1>3, <1>4, <1>5, <1>6
  DEF Batch!Deliver, Batch!Current, Batch!Data

\* A file that ends well is complete, where nothing was hurt.
LEMMA EofDelivers ==
  ASSUME IInv, InsideOpen, Unhurt, RxEof, UNCHANGED txVars
  PROVE  Batch!End
<1> DEFINE n == Len(rxFiles)
<1>1. /\ rxStatus = "RUN" /\ rxPhase = "file"
      /\ toRx # <<>> /\ Head(toRx).type = "eof" /\ toRx' = Tail(toRx)
      /\ rxFiles' = [rxFiles EXCEPT ![n].end = "OK"]
      /\ UNCHANGED rxStatus /\ UNCHANGED txStatus
  BY DEF RxEof, RxReads, RxAt, RxGoTo, Ended, txVars
<1>2. n = txFile /\ n \in 1 .. NFiles
  BY <1>1, FileOfStream
<1>3. ASSUME ~ hurt
      PROVE  Len(rxFiles[n].data) = Files[n]
  <2>1. /\ Gapless /\ IsItem(Head(toRx), ReadOf)
        /\ Files[txFile] \in Nat /\ Held \in Nat
    BY <1>1, <1>3, ReadOnStream, FileOfStream
  <2>2. ReadOf \notin 0 .. Files[txFile]
    BY <1>1, <2>1 DEF IsItem
  <2>3. Held = Files[txFile]
    BY <1>1, <2>1, <2>2 DEF Gapless, ReadOf
  <2> QED BY <1>2, <2>3 DEF Held
<1>4. Batch!Inside
  BY <1>1, Whereabouts
<1> QED
  BY <1>1, <1>2, <1>3, <1>4, Zenon DEF Batch!End, Batch!Current, Batch!Data

\* A file that ends badly ends the call with the same result.
LEMMA FailureDelivers ==
  ASSUME IInv, InsideOpen, NEW silent, RxFileFails(silent) \/ RxDataFails(silent),
         UNCHANGED txVars
  PROVE  Batch!End
<1> DEFINE n == Len(rxFiles)
<1>1. PICK st \in {"TIMEOUT", "IO"} :
         rxFiles' = [rxFiles EXCEPT ![n].end = st] /\ rxStatus' = st
  BY DEF RxFileFails, RxDataFails, RxReturn, Ended
<1>2. /\ rxStatus = "RUN" /\ rxPhase \in {"file", "data"} /\ UNCHANGED txStatus
  BY DEF RxFileFails, RxDataFails, RxNoHeader, RxNoSubpacket, RxReads, RxAt, txVars
<1>3. Batch!Inside
  BY <1>2, Whereabouts
<1>4. st \in (Status \ {"OFF", "RUN", "OK"}) \cup {"OK"} /\ st \notin {"OK", "OFF", "RUN"}
  BY DEF Status
<1> QED
  BY <1>1, <1>2, <1>3, <1>4 DEF Batch!End, Batch!Current, Batch!Data

\* An end returns ZMODEM_OK only behind the last file.
LEMMA AllEnded ==
  ASSUME IInv, txPhase = "fin"
  PROVE  Batch!Succeeded = {"OK"}
<1>1. /\ Finishing /\ NFiles \in Nat /\ EarlierOk
  BY BatchAssumption
  DEF IInv, Course, Starting, Announced, Positioned, Streaming, FileOver, NFiles
<1>2. Len(rxFiles) = NFiles /\ \A f \in 1 .. NFiles : rxFiles[f].end = "OK"
  BY <1>1 DEF Finishing, EarlierOk
<1> QED
  BY <1>1, <1>2 DEF Batch!Succeeded, Batch!Outside, Batch!Current, Batch!N, NFiles

LEMMA BatchStepDelivers ==
  ASSUME IInv, IInv', InsideOpen, Unhurt, [Next]_vars
  PROVE  [Batch!Next]_(Batch!vars)
<1> DEFINE Idle == UNCHANGED <<rxFiles, rxStatus, txStatus>>
           rxIs == IF rxStatus = "OFF" THEN "RUN" ELSE rxStatus
           txIs == IF txStatus = "OFF" THEN "RUN" ELSE txStatus
           Abstract == \/ Batch!Start \/ Batch!Deliver \/ Batch!End
                       \/ Batch!RxReturns \/ Batch!TxReturns
                       \/ UNCHANGED <<rxFiles, rxIs, txIs>>
<1>1. SUFFICES Abstract
  <2>1. hurt => hurt'
    BY Zenon DEF Next, Rx, Tx, Line, Returned, vars
  <2> DEFINE harm == IF hurt THEN 1 .. NFiles ELSE {}
  <2>2. harm \subseteq harm' /\ harm' \subseteq 1 .. NFiles
    BY <2>1
  <2> QED BY <2>2, Zenon DEF Batch!Next, Batch!N, NFiles
<1>2. CASE Rx
  <2>1. PICK silent : RxStep(silent)
    BY <1>2 DEF Rx
  <2>2. UNCHANGED txVars /\ UNCHANGED txStatus
    BY <1>2 DEF Rx, txVars
  <2>3. CASE RxStart
    BY <2>2, <2>3 DEF RxStart
  <2>4. CASE RxIdleFails(silent) \/ RxNameFails(silent)
    <3>1. /\ rxStatus = "RUN" /\ rxPhase \in {"idle", "name"} /\ UNCHANGED rxFiles
          /\ rxStatus' \in {"TIMEOUT", "IO"}
      BY <2>4 DEF RxIdleFails, RxNameFails, RxNoHeader, RxNoSubpacket, RxReads, RxAt,
                  RxReturn
    <3>2. Batch!Outside
      BY <3>1, Whereabouts
    <3>3. rxIs' \in Status \ {"OFF", "RUN", "OK"} /\ UNCHANGED txIs
      BY <2>2, <3>1 DEF Status
    <3> QED BY <3>1, <3>2, <3>3 DEF Batch!RxReturns
  <2>5. CASE RxFileFails(silent) \/ RxDataFails(silent)
    BY <2>2, <2>5, FailureDelivers
  <2>6. CASE RxSkip \/ RxRqinit \/ RxFile \/ RxDataHeader
    BY <2>2, <2>6 DEF RxSkip, RxRqinit, RxFile, RxDataHeader, RxGoTo, rxVars
  <2>7. CASE RxName
    BY <2>2, <2>7, NameDelivers
  <2>8. CASE RxData
    BY <2>2, <2>8, DataDelivers
  <2>9. CASE RxEof
    BY <2>2, <2>9, EofDelivers
  <2>10. CASE RxFin
    <3>1. /\ rxStatus = "RUN" /\ rxStatus' = "OK" /\ UNCHANGED rxFiles
          /\ rxPhase' = rxPhase
      BY <2>10 DEF RxFin, RxReads, RxAt, RxReturn
    <3>2. txPhase = "fin"
      BY <2>2, <3>1 DEF IInv, StatusFits, txVars
    <3>3. rxPhase = "idle"
      BY <3>2 DEF IInv, Course, Starting, Announced, Positioned, Streaming, FileOver,
                  Finishing
    <3>4. Batch!Outside /\ Batch!Succeeded = {"OK"}
      BY <3>2, <3>3, Whereabouts, AllEnded
    <3> QED BY <2>2, <3>1, <3>4 DEF Batch!RxReturns
  <2> QED BY <2>1, <2>3, <2>4, <2>5, <2>6, <2>7, <2>8, <2>9, <2>10 DEF RxStep
<1>3. CASE Tx
  <2>1. PICK silent : TxStep(silent)
    BY <1>3 DEF Tx
  <2>2. UNCHANGED <<rxFiles, rxStatus>>
    BY <1>3 DEF Tx, rxVars
  <2>3. CASE TxStart
    BY <2>2, <2>3 DEF TxStart
  <2>4. CASE TxReady \/ TxPosition \/ TxData \/ TxEof \/ TxFileDone \/ TxSkip
    BY <2>2, <2>4 DEF TxReady, TxPosition, TxData, TxEof, TxFileDone, TxSkip, Announce, txVars
  <2>5. CASE TxFails(silent)
    <3>1. txStatus = "RUN" /\ txStatus' = "TIMEOUT"
      BY <2>5 DEF TxFails, TxReads, TxAt, TxReturn
    <3>2. txIs' \in Status \ {"OFF", "RUN", "OK"} /\ UNCHANGED rxIs
      BY <2>2, <3>1 DEF Status
    <3> QED BY <2>2, <3>1, <3>2 DEF Batch!TxReturns
  <2>6. CASE TxFin(silent)
    <3>1. txStatus = "RUN" /\ txStatus' = "OK" /\ txPhase = "fin"
      BY <2>6 DEF TxFin, TxReads, TxAt, TxReturn
    <3>2. Batch!Succeeded = {"OK"}
      BY <3>1, AllEnded
    <3> QED BY <2>2, <3>1, <3>2 DEF Batch!TxReturns
  <2> QED BY <2>1, <2>3, <2>4, <2>5, <2>6 DEF TxStep
<1>4. CASE Line \/ Returned \/ UNCHANGED vars
  BY <1>4 DEF Line, Returned, vars, rxVars, txVars
<1> QED BY <1>2, <1>3, <1>4 DEF Next

\* On a line that takes the stream of a file, a session implements the abstract
\* delivery of a batch: files in order, each reported before the next starts,
\* complete where nothing was lost, late or not stored, and success at either
\* end only for all.
THEOREM DeliversBatch ==
  ASSUME Roomy
  PROVE  Spec => ImplementsBatch
<1> DEFINE Inv == IInv /\ InsideOpen /\ Unhurt
<1>1. Init => Inv
  BY InitHolds DEF Init, RxInit, TxInit, InsideOpen, Unhurt, OnStream, NothingDead
<1>2. Inv /\ [Next]_vars => Inv'
  BY StepHolds, InsideOpenStep, UnhurtStep
<1>3. Init => Batch!Init
  BY DEF Init, RxInit, TxInit, Batch!Init
<1>4. Inv /\ Inv' /\ [Next]_vars => [Batch!Next]_(Batch!vars)
  BY BatchStepDelivers
<1> HIDE DEF Inv
<1> QED BY <1>1, <1>2, <1>3, <1>4, PTL DEF Spec, ImplementsBatch, Batch!Spec

=============================================================================
