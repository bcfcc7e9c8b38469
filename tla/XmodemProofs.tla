---------------------------- MODULE XmodemProofs ----------------------------
(***************************************************************************)
(* Proofs about an XMODEM transfer: the inductive invariant IInv and the   *)
(* properties that follow from it, for every file length, wrap of the      *)
(* block numbers, retry limit, line capacity and number of faults.         *)
(*                                                                         *)
(* The argument: whatever happens to a queue in flight only thins it       *)
(* (Thinned), and thinning keeps the orders the invariant states; so each  *)
(* action is examined only for the item it sends and the block it counts.  *)
(***************************************************************************)
EXTENDS Xmodem, TLAPS

\* Numbers that are equal modulo M and less than M apart are equal: what makes
\* a wrapped block number identify its block.
LEMMA ModGap ==
  ASSUME NEW x \in Int, NEW y \in Int, NEW M \in Nat \ {0},
         x <= y, y < x + M, x % M = y % M
  PROVE  x = y
<1> DEFINE p == x \div M
           q == y \div M
<1>1. x = M * p + (x % M) /\ p \in Int BY SMT
<1>2. y = M * q + (y % M) /\ q \in Int BY SMT
<1>3. y - x = M * (q - p)  BY <1>1, <1>2, SMT
<1> HIDE DEF p, q
<1>4. q - p >= 1 => M * (q - p) >= M  BY <1>1, <1>2, SMT
<1>5. q - p <= -1 => M * (q - p) <= -M  BY <1>1, <1>2, SMT
<1>6. q - p = 0 BY <1>1, <1>2, <1>3, <1>4, <1>5, SMT
<1> QED BY <1>1, <1>2, <1>3, <1>6, SMT

\* r is what is left of q when items are taken from its front, the others
\* kept or damaged in place.
Thinned(r, q) ==
    \E k \in 0 .. Len(q) :
       /\ Len(r) = Len(q) - k
       /\ \A i \in 1 .. Len(r) :
             r[i] = q[i + k] \/ r[i].type \notin {"blk", "eot", "ack"}

\* Taking the first item leaves a thinned queue.
LEMMA TailThinned ==
  ASSUME NEW S, NEW q \in Seq(S), q # <<>>
  PROVE  Tail(q) \in Seq(S) /\ Thinned(Tail(q), q)
<1>1. Len(Tail(q)) = Len(q) - 1 /\ 1 \in 0 .. Len(q)
  OBVIOUS
<1>2. \A i \in 1 .. Len(Tail(q)) : Tail(q)[i] = q[i + 1]
  OBVIOUS
<1> QED BY <1>1, <1>2 DEF Thinned

\* A queue is a thinned form of itself.
LEMMA SameThinned ==
  ASSUME NEW S, NEW q \in Seq(S)
  PROVE  Thinned(q, q)
<1>1. 0 \in 0 .. Len(q) /\ Len(q) = Len(q) - 0
  OBVIOUS
<1>2. \A i \in 1 .. Len(q) : q[i] = q[i + 0]
  OBVIOUS
<1> QED BY <1>1, <1>2 DEF Thinned

\* Thinning twice is thinning.
LEMMA ThinnedTrans ==
  ASSUME NEW S, NEW q \in Seq(S), NEW r \in Seq(S), NEW s \in Seq(S),
         Thinned(r, q), Thinned(s, r)
  PROVE  Thinned(s, q)
<1>1. PICK k \in 0 .. Len(q) :
         /\ Len(r) = Len(q) - k
         /\ \A i \in 1 .. Len(r) :
               r[i] = q[i + k] \/ r[i].type \notin {"blk", "eot", "ack"}
  BY DEF Thinned
<1>2. PICK m \in 0 .. Len(r) :
         /\ Len(s) = Len(r) - m
         /\ \A i \in 1 .. Len(s) :
               s[i] = r[i + m] \/ s[i].type \notin {"blk", "eot", "ack"}
  BY DEF Thinned
<1>3. k + m \in 0 .. Len(q) /\ Len(s) = Len(q) - (k + m)
  BY <1>1, <1>2
<1>4. ASSUME NEW i \in 1 .. Len(s)
      PROVE  s[i] = q[i + (k + m)] \/ s[i].type \notin {"blk", "eot", "ack"}
  <2>1. i + m \in 1 .. Len(r) /\ (i + m) + k = i + (k + m)
    BY <1>1, <1>2
  <2> QED BY <1>1, <1>2, <2>1
<1> QED BY <1>3, <1>4 DEF Thinned

\* purge_rx, which drops any number of items from the front, thins the queue.
LEMMA PurgedThinned ==
  ASSUME NEW S, NEW q \in Seq(S), NEW r \in Purged(q)
  PROVE  r \in Seq(S) /\ Thinned(r, q)
<1>1. PICK k \in 0 .. Len(q) : r = SubSeq(q, k + 1, Len(q))
  BY DEF Purged
<1>2. /\ r \in Seq(S)
      /\ Len(r) = Len(q) - k
      /\ \A i \in 1 .. Len(r) : r[i] = q[i + k]
  BY <1>1
<1> QED BY <1>2 DEF Thinned

\* Damaging one item thins the queue: its place now holds a harmless item.
LEMMA DamagedThinned ==
  ASSUME NEW S, NEW q \in Seq(S), q # <<>>, NEW b \in S,
         b.type \notin {"blk", "eot", "ack"}
  PROVE  <<b>> \o Tail(q) \in Seq(S) /\ Thinned(<<b>> \o Tail(q), q)
<1> DEFINE r == <<b>> \o Tail(q)
<1>1. r \in Seq(S) /\ Len(r) = Len(q) /\ r[1] = b
  OBVIOUS
<1>2. \A i \in 1 .. Len(r) : i # 1 => r[i] = q[i]
  OBVIOUS
<1>3. \A i \in 1 .. Len(r) :
         r[i] = q[i + 0] \/ r[i].type \notin {"blk", "eot", "ack"}
  BY <1>1, <1>2
<1> HIDE DEF r
<1>4. 0 \in 0 .. Len(q) /\ Len(r) = Len(q) - 0
  BY <1>1
<1>5. Thinned(r, q)
  BY <1>3, <1>4 DEF Thinned
<1> QED BY <1>1, <1>5 DEF r

\* What a queue holds after an item was sent on it: its old items, and perhaps
\* the new one at the end.
LEMMA SendIndex ==
  ASSUME NEW S, NEW q \in Seq(S), NEW b \in S
  PROVE  /\ Send(q, b) \in Seq(S)
         /\ Len(Send(q, b)) \in Len(q) .. Len(q) + 1
         /\ \A i \in 1 .. Len(Send(q, b)) :
               Send(q, b)[i] = IF i <= Len(q) THEN q[i] ELSE b
BY SerialLineAssumption DEF Send

\* Loss, reading and damage keep the packets in order.
LEMMA PacketsThinned ==
  ASSUME NEW q \in Seq(RxItem), NEW r \in Seq(RxItem),
         PacketsInOrder(q), Thinned(r, q)
  PROVE  PacketsInOrder(r)
<1>1. PICK k \in 0 .. Len(q) :
         /\ Len(r) = Len(q) - k
         /\ \A i \in 1 .. Len(r) :
               r[i] = q[i + k] \/ r[i].type \notin {"blk", "eot", "ack"}
  BY DEF Thinned
<1>2. \A i \in 1 .. Len(r) : i + k \in 1 .. Len(q)
  BY <1>1
<1>3. \A i, j \in 1 .. Len(r) : i < j => i + k < j + k
  BY <1>1
<1> QED BY <1>1, <1>2, <1>3 DEF PacketsInOrder

\* Loss, reading and damage keep the ACKs in order.
LEMMA AcksThinned ==
  ASSUME NEW q \in Seq(TxItem), NEW r \in Seq(TxItem),
         AcksInOrder(q), Thinned(r, q)
  PROVE  AcksInOrder(r)
<1>1. PICK k \in 0 .. Len(q) :
         /\ Len(r) = Len(q) - k
         /\ \A i \in 1 .. Len(r) :
               r[i] = q[i + k] \/ r[i].type \notin {"blk", "eot", "ack"}
  BY DEF Thinned
<1>2. \A i \in 1 .. Len(r) : i + k \in 1 .. Len(q)
  BY <1>1
<1>3. \A i, j \in 1 .. Len(r) : i < j => i + k < j + k
  BY <1>1
<1> QED BY <1>1, <1>2, <1>3 DEF AcksInOrder

\* Sending an item that is neither a packet nor EOT keeps the packets in order.
LEMMA PacketsSend ==
  ASSUME NEW q \in Seq(RxItem), NEW b \in RxItem, PacketsInOrder(q),
         b.type \notin {"blk", "eot"}
  PROVE  PacketsInOrder(Send(q, b))
<1>1. /\ Len(Send(q, b)) \in Len(q) .. Len(q) + 1
      /\ \A i \in 1 .. Len(Send(q, b)) :
            Send(q, b)[i] = IF i <= Len(q) THEN q[i] ELSE b
  BY SendIndex
<1> QED BY <1>1 DEF PacketsInOrder

\* Sending EOT in the EOT phase keeps the packets in order.
LEMMA EotSend ==
  ASSUME NEW q \in Seq(RxItem), PacketsInOrder(q), txPhase = "eot"
  PROVE  /\ Send(q, RxByte("eot")) \in Seq(RxItem)
         /\ PacketsInOrder(Send(q, RxByte("eot")))
<1> DEFINE b == RxByte("eot")
<1>1. b \in RxItem /\ b.type = "eot"
  BY DEF RxByte, RxItem, CheckKind
<1> HIDE DEF b
<1>2. /\ Send(q, b) \in Seq(RxItem)
      /\ Len(Send(q, b)) \in Len(q) .. Len(q) + 1
      /\ \A i \in 1 .. Len(Send(q, b)) :
            Send(q, b)[i] = IF i <= Len(q) THEN q[i] ELSE b
  BY <1>1, SendIndex
<1>3. PacketsInOrder(Send(q, b))
  BY <1>1, <1>2 DEF PacketsInOrder
<1> QED BY <1>2, <1>3 DEF b

\* Sending an item other than an ACK keeps the ACKs in order.
LEMMA AcksSend ==
  ASSUME NEW q \in Seq(TxItem), NEW b \in TxItem, AcksInOrder(q),
         b.type # "ack"
  PROVE  AcksInOrder(Send(q, b))
<1>1. /\ Len(Send(q, b)) \in Len(q) .. Len(q) + 1
      /\ \A i \in 1 .. Len(Send(q, b)) :
            Send(q, b)[i] = IF i <= Len(q) THEN q[i] ELSE b
  BY SendIndex
<1> QED BY <1>1 DEF AcksInOrder

\* Control bytes, numbered ACKs and packets are items of the line.
LEMMA ByteTypes ==
  /\ \A ty \in {"blk", "bad", "junk", "eot", "can", "brk"} :
        RxByte(ty) \in RxItem /\ RxByte(ty).type = ty
  /\ \A ty \in {"ack", "nak", "can", "c", "junk", "brk"} :
        TxByte(ty) \in TxItem /\ TxByte(ty).type = ty
  /\ \A n \in Nat : Ack(n) \in TxItem /\ Ack(n).type = "ack" /\ Ack(n).sn = n
  /\ \A k \in Nat, c \in CheckKind :
        /\ Packet(k, c) \in RxItem /\ Packet(k, c).type = "blk"
        /\ Packet(k, c).idx = k /\ Packet(k, c).chk = c
BY DEF RxByte, RxItem, TxByte, TxItem, Ack, Packet, CheckKind

\* The two CANs that end a transfer disturb nothing on the line.
LEMMA SendTwiceOk ==
  /\ \A q \in Seq(RxItem) :
        /\ SendTwice(q, RxByte("can")) \in Seq(RxItem)
        /\ PacketsInOrder(q) => PacketsInOrder(SendTwice(q, RxByte("can")))
  /\ \A q \in Seq(TxItem) :
        /\ SendTwice(q, TxByte("can")) \in Seq(TxItem)
        /\ AcksInOrder(q) => AcksInOrder(SendTwice(q, TxByte("can")))
<1>1. RxByte("can") \in RxItem /\ RxByte("can").type \notin {"blk", "eot"}
  BY ByteTypes
<1>2. TxByte("can") \in TxItem /\ TxByte("can").type # "ack"
  BY ByteTypes
<1>3. \A q \in Seq(RxItem) : /\ Send(q, RxByte("can")) \in Seq(RxItem)
                             /\ PacketsInOrder(q) => PacketsInOrder(Send(q, RxByte("can")))
  BY <1>1, SendIndex, PacketsSend
<1>4. \A q \in Seq(TxItem) : /\ Send(q, TxByte("can")) \in Seq(TxItem)
                             /\ AcksInOrder(q) => AcksInOrder(Send(q, TxByte("can")))
  BY <1>2, SendIndex, AcksSend
<1> QED BY <1>3, <1>4 DEF SendTwice

\* The step moves items off the front of the line, damages them, or adds
\* bytes that are neither packets, nor EOT, nor ACKs.
QuietLine ==
    /\ toRx' \in Seq(RxItem) /\ PacketsInOrder(toRx')
    /\ toTx' \in Seq(TxItem) /\ AcksInOrder(toTx')

\* A step that changes neither the stored file nor the block being sent, and
\* only thins what is in flight, keeps the invariant.
LEMMA QuietStep ==
  ASSUME IInv, QuietLine, UNCHANGED <<rxFile, dups, txVars>>,
         faults' \in 0 .. MaxFaults, aborts' \in 0 .. MaxAborts,
         rxStatus' \in Status, rxRetries' \in 0 .. RetryMod - 1,
         rxCrc' \in BOOLEAN,
         rxFile # <<>> => rxCrc' = rxCrc,
         rxStatus' = "OK" => txPhase = "eot"
  PROVE  IInv'
<1>1. TypeOK'
  BY DEF IInv, QuietLine, TypeOK, LineTypeOK, RxTypeOK, TxTypeOK, txVars
<1>2. PacketsInOrder(toRx)' /\ AcksInOrder(toTx)'
  BY DEF QuietLine, PacketsInOrder, AcksInOrder, txVars
<1>3. AheadByDups' /\ RxBehind' /\ OkAfterLastBlock' /\ InOrder'
  BY DEF IInv, AheadByDups, RxBehind, OkAfterLastBlock, InOrder, txVars
<1>4. SameCheck'
  BY DEF IInv, SameCheck, txVars
<1> QED BY <1>1, <1>2, <1>3, <1>4 DEF IInv

\* The line keeps the invariant: it loses, damages or adds an abort key.
LEMMA LineStep ==
  ASSUME IInv, Line
  PROVE  IInv'
<1> USE DEF rxVars
<1>1. toRx \in Seq(RxItem) /\ toTx \in Seq(TxItem)
  BY DEF IInv, TypeOK, LineTypeOK
<1>2. faults' \in 0 .. MaxFaults /\ aborts' \in 0 .. MaxAborts
  BY SerialLineAssumption
  DEF IInv, TypeOK, LineTypeOK, Line, XmodemLineNext, LineNext, LoseToRx,
     LoseToTx, DamageToRx, DamageToTx, PressAbort, Fault
<1>3. QuietLine
  <2>1. CASE LoseToRx
    BY <1>1, <2>1, TailThinned, PacketsThinned DEF LoseToRx, QuietLine, IInv
  <2>2. CASE LoseToTx
    BY <1>1, <2>2, TailThinned, AcksThinned DEF LoseToTx, QuietLine, IInv
  <2>3. CASE DamageToRx({"blk"})
    <3>1. PICK ty \in {"bad", "junk"} :
             toRx' = <<[Head(toRx) EXCEPT !.type = ty]>> \o Tail(toRx)
      BY <2>3 DEF DamageToRx, Damaged
    <3>2. /\ [Head(toRx) EXCEPT !.type = ty] \in RxItem
          /\ [Head(toRx) EXCEPT !.type = ty].type \notin {"blk", "eot", "ack"}
      <4>1. Head(toRx) \in RxItem
        BY <1>1, <2>3 DEF DamageToRx
      <4> QED BY <4>1 DEF RxItem
    <3>3. toRx # <<>> /\ UNCHANGED toTx
      BY <2>3 DEF DamageToRx
    <3>4. toRx' \in Seq(RxItem) /\ Thinned(toRx', toRx)
      BY <1>1, <3>1, <3>2, <3>3, DamagedThinned
    <3> QED BY <1>1, <3>3, <3>4, PacketsThinned DEF QuietLine, IInv
  <2>4. CASE DamageToTx({"blk"})
    <3>1. /\ [Head(toTx) EXCEPT !.type = "junk"] \in TxItem
          /\ [Head(toTx) EXCEPT !.type = "junk"].type \notin {"blk", "eot", "ack"}
      <4>1. Head(toTx) \in TxItem
        BY <1>1, <2>4 DEF DamageToTx
      <4> QED BY <4>1 DEF TxItem
    <3>2. /\ toTx # <<>> /\ UNCHANGED toRx
          /\ toTx' = <<[Head(toTx) EXCEPT !.type = "junk"]>> \o Tail(toTx)
      <4>1. Head(toTx) \in TxItem
        BY <1>1, <2>4 DEF DamageToTx
      <4>2. Head(toTx).type \notin {"blk"}
        BY <4>1 DEF TxItem
      <4> QED BY <2>4, <4>2 DEF DamageToTx, Damaged
    <3>3. toTx' \in Seq(TxItem) /\ Thinned(toTx', toTx)
      BY <1>1, <3>1, <3>2, DamagedThinned
    <3> QED BY <1>1, <3>2, <3>3, AcksThinned DEF QuietLine, IInv
  <2>5. CASE PressAbort(RxByte("brk"), TxByte("brk"))
    <3>1. /\ RxByte("brk") \in RxItem /\ RxByte("brk").type \notin {"blk", "eot"}
          /\ TxByte("brk") \in TxItem /\ TxByte("brk").type # "ack"
      BY ByteTypes
    <3>2. CASE toRx' = Send(toRx, RxByte("brk")) /\ UNCHANGED toTx
      BY <1>1, <3>1, <3>2, SendIndex, PacketsSend DEF QuietLine, IInv
    <3>3. CASE toTx' = Send(toTx, TxByte("brk")) /\ UNCHANGED toRx
      BY <1>1, <3>1, <3>3, SendIndex, AcksSend DEF QuietLine, IInv
    <3> QED BY <2>5, <3>2, <3>3 DEF PressAbort
  <2> QED BY <2>1, <2>2, <2>3, <2>4, <2>5 DEF Line, XmodemLineNext, LineNext
<1> QED
  BY <1>2, <1>3, QuietStep DEF Line, IInv, TypeOK, RxTypeOK, OkAfterLastBlock

\* The uint8_t retry counter keeps its width.
LEMMA RetryType ==
  ASSUME NEW r \in 0 .. RetryMod - 1
  PROVE  NextRetry(r) \in 0 .. RetryMod - 1
BY XmodemAssumption DEF NextRetry

\* The receive steps that neither store a block nor repeat an ACK.
LEMMA RxQuietStep ==
  ASSUME IInv, UNCHANGED txVars,
         \/ RxTimeout(txDone) \/ RxAbortKey \/ RxEot \/ RxCan \/ RxJunk
         \/ RxReject \/ RxStoreFails \/ RxSequence
  PROVE  IInv'
<1>1. /\ toRx \in Seq(RxItem) /\ toTx \in Seq(TxItem)
      /\ PacketsInOrder(toRx) /\ AcksInOrder(toTx)
      /\ faults \in 0 .. MaxFaults /\ aborts \in 0 .. MaxAborts
      /\ rxStatus \in Status /\ rxRetries \in 0 .. RetryMod - 1
      /\ rxCrc \in BOOLEAN /\ rxFile \in Seq(Nat)
      /\ NextRetry(rxRetries) \in 0 .. RetryMod - 1
  BY RetryType DEF IInv, TypeOK, LineTypeOK, RxTypeOK
<1>2. \A b \in {"nak", "can", "c"} :
         /\ Send(toTx, TxByte(b)) \in Seq(TxItem)
         /\ AcksInOrder(Send(toTx, TxByte(b)))
  BY <1>1, ByteTypes, SendIndex, AcksSend
<1>3. /\ SendTwice(toTx, TxByte("can")) \in Seq(TxItem)
      /\ AcksInOrder(SendTwice(toTx, TxByte("can")))
  BY <1>1, SendTwiceOk
<1>4. toRx # <<>> => /\ Tail(toRx) \in Seq(RxItem)
                     /\ PacketsInOrder(Tail(toRx))
  BY <1>1, TailThinned, PacketsThinned
<1>5. ASSUME toRx # <<>>, NEW q \in Purged(Tail(toRx))
      PROVE  q \in Seq(RxItem) /\ PacketsInOrder(q)
  BY <1>4, <1>5, PurgedThinned, PacketsThinned
<1>6. UNCHANGED <<rxFile, dups, faults, aborts>>
  BY DEF RxTimeout, RxAbortKey, RxEot, RxCan, RxJunk, RxReject, RxStoreFails,
         RxSequence, RxReturn
<1>7. CASE RxTimeout(txDone)
  <2>1. UNCHANGED toRx
    BY <1>7 DEF RxTimeout
  <2>2. /\ toTx' \in Seq(TxItem) /\ AcksInOrder(toTx')
        /\ rxStatus' \in {rxStatus, "TIMEOUT"}
        /\ rxRetries' \in 0 .. RetryMod - 1
    BY <1>1, <1>2, <1>3, <1>7 DEF RxTimeout, RxReturn, Request
  <2>3. rxCrc' \in BOOLEAN /\ (rxFile # <<>> => rxCrc' = rxCrc)
    <3>1. rxFile # <<>> => Len(rxFile) # 0
      BY <1>1
    <3> QED BY <1>1, <1>7, <3>1, Zenon DEF RxTimeout, RxReturn, FallBack
  <2> QED
    BY <1>1, <1>6, <2>1, <2>2, <2>3, QuietStep
    DEF QuietLine, Status, IInv, OkAfterLastBlock
<1>8. CASE RxAbortKey
  <2>1. /\ QuietLine /\ rxStatus' = "CANCEL" /\ UNCHANGED <<rxRetries, rxCrc>>
    BY <1>1, <1>3, <1>4, <1>8 DEF RxAbortKey, RxReturn, RxHas, QuietLine
  <2> QED BY <1>1, <1>6, <2>1, QuietStep DEF Status
<1>9. CASE RxEot
  <2>1. toRx # <<>> /\ toRx[1].type = "eot"
    BY <1>1, <1>9 DEF RxEot, RxHas
  <2>2. txPhase = "eot"
    BY <1>1, <2>1 DEF PacketsInOrder
  <2>3. toTx' \in Seq(TxItem) /\ AcksInOrder(toTx')
    BY <1>1, <1>9, <2>2, ByteTypes, SendIndex
    DEF RxEot, RxReturn, AcksInOrder
  <2>4. toRx' = Tail(toRx) /\ rxStatus' = "OK" /\ UNCHANGED <<rxRetries, rxCrc>>
    BY <1>9 DEF RxEot, RxReturn
  <2> QED BY <1>1, <1>4, <1>6, <2>1, <2>2, <2>3, <2>4, QuietStep
          DEF QuietLine, Status
<1>10. CASE RxCan
  <2>1. /\ toRx # <<>> /\ rxStatus' = "CANCEL"
        /\ UNCHANGED <<toTx, rxRetries, rxCrc>>
    BY <1>10 DEF RxCan, RxHas, RxReturn
  <2>2. toRx' \in Seq(RxItem) /\ PacketsInOrder(toRx')
    <3>1. Len(toRx) > 1 => Tail(toRx) # <<>>
      <4>1. Len(Tail(toRx)) = Len(toRx) - 1
        BY <1>1, <2>1
      <4>2. Len(<<>>) = 0 /\ Len(toRx) \in Nat
        BY <1>1
      <4> QED BY <4>1, <4>2
    <3>2. Len(toRx) > 1 => /\ Tail(Tail(toRx)) \in Seq(RxItem)
                           /\ PacketsInOrder(Tail(Tail(toRx)))
      BY <1>4, <2>1, <3>1, TailThinned, PacketsThinned
    <3> QED BY <1>4, <1>10, <2>1, <3>2 DEF RxCan
  <2> QED BY <1>1, <1>6, <2>1, <2>2, QuietStep DEF QuietLine, Status
<1>11. CASE RxJunk
  <2>1. toRx # <<>> /\ toRx' \in Purged(Tail(toRx)) /\ UNCHANGED rxCrc
    BY <1>11 DEF RxJunk, RxHas, RxReturn
  <2>2. /\ toTx' \in Seq(TxItem) /\ AcksInOrder(toTx')
        /\ rxStatus' \in {rxStatus, "ERROR"}
        /\ rxRetries' \in 0 .. RetryMod - 1
    BY <1>1, <1>2, <1>11 DEF RxJunk, RxReturn
  <2> QED BY <1>1, <1>5, <1>6, <2>1, <2>2, QuietStep
          DEF QuietLine, Status, IInv, OkAfterLastBlock
<1>12. CASE RxReject
  <2>1. /\ toRx # <<>> /\ toRx' \in Purged(Tail(toRx))
        /\ toTx' = Send(toTx, TxByte("nak"))
        /\ rxRetries' = NextRetry(rxRetries)
        /\ UNCHANGED <<rxStatus, rxCrc>>
    BY <1>12 DEF RxReject, RxHas
  <2> QED BY <1>1, <1>2, <1>5, <1>6, <2>1, QuietStep
          DEF QuietLine, IInv, OkAfterLastBlock
<1>13. CASE RxStoreFails \/ RxSequence
  <2>1. /\ toRx # <<>> /\ toRx' = Tail(toRx)
        /\ toTx' = SendTwice(toTx, TxByte("can"))
        /\ rxStatus' \in {"IO", "SEQUENCE"}
        /\ UNCHANGED <<rxRetries, rxCrc>>
    BY <1>13 DEF RxStoreFails, RxSequence, RxValid, RxHas, RxReturn
  <2> QED BY <1>1, <1>3, <1>4, <1>6, <2>1, QuietStep DEF QuietLine, Status
<1> QED BY <1>7, <1>8, <1>9, <1>10, <1>11, <1>12, <1>13

\* An ACK with the next serial number keeps the ACKs in order.
LEMMA NextAckSend ==
  ASSUME IInv
  PROVE  LET a == Ack(Len(rxFile) + dups + 1)
             q == Send(toTx, a)
         IN  /\ q \in Seq(TxItem)
             /\ txPhase # "eot" =>
                  /\ \A i \in 1 .. Len(q) :
                        q[i].type = "ack" => /\ txBlock <= q[i].sn
                                             /\ q[i].sn <= Len(rxFile) + dups + 1
                  /\ \A i, j \in 1 .. Len(q) :
                        (i < j /\ q[i].type = "ack" /\ q[j].type = "ack")
                           => q[i].sn < q[j].sn
<1> DEFINE a == Ack(Len(rxFile) + dups + 1)
           q == Send(toTx, a)
<1>1. /\ toTx \in Seq(TxItem) /\ AcksInOrder(toTx)
      /\ Len(rxFile) \in Nat /\ dups \in Nat /\ txBlock \in Nat
      /\ txBlock <= Len(rxFile) + dups + 1
  BY DEF IInv, TypeOK, LineTypeOK, RxTypeOK, TxTypeOK, AheadByDups
<1>2. a \in TxItem /\ a.type = "ack" /\ a.sn = Len(rxFile) + dups + 1
  BY <1>1, ByteTypes
<1> HIDE DEF a
<1>3. /\ q \in Seq(TxItem)
      /\ Len(q) \in Len(toTx) .. Len(toTx) + 1
      /\ \A i \in 1 .. Len(q) : q[i] = IF i <= Len(toTx) THEN toTx[i] ELSE a
  <2>1. toTx \in Seq(TxItem) /\ a \in TxItem
    BY <1>1, <1>2
  <2> QED BY <2>1, SendIndex
<1> HIDE DEF q
<1>4. \A i \in 1 .. Len(toTx) : toTx[i].sn \in Nat
  <2>1. \A i \in 1 .. Len(toTx) : toTx[i] \in TxItem
    BY <1>1
  <2> QED BY <2>1 DEF TxItem
<1> SUFFICES ASSUME txPhase # "eot"
             PROVE  /\ \A i \in 1 .. Len(q) :
                          q[i].type = "ack" => /\ txBlock <= q[i].sn
                                               /\ q[i].sn <= Len(rxFile) + dups + 1
                    /\ \A i, j \in 1 .. Len(q) :
                          (i < j /\ q[i].type = "ack" /\ q[j].type = "ack")
                             => q[i].sn < q[j].sn
  BY <1>3 DEF q, a
<1>5. \A i \in 1 .. Len(toTx) :
         toTx[i].type = "ack" => /\ txBlock <= toTx[i].sn
                                 /\ toTx[i].sn <= Len(rxFile) + dups
  BY <1>1 DEF AcksInOrder
<1>6. \A i, j \in 1 .. Len(toTx) :
         (i < j /\ toTx[i].type = "ack" /\ toTx[j].type = "ack")
            => toTx[i].sn < toTx[j].sn
  BY <1>1 DEF AcksInOrder
<1>7. ASSUME NEW i \in 1 .. Len(q), q[i].type = "ack"
      PROVE  txBlock <= q[i].sn /\ q[i].sn <= Len(rxFile) + dups + 1
  BY <1>1, <1>2, <1>3, <1>4, <1>5, <1>7
<1>8. ASSUME NEW i \in 1 .. Len(q), NEW j \in 1 .. Len(q),
             i < j, q[i].type = "ack", q[j].type = "ack"
      PROVE  q[i].sn < q[j].sn
  <2>1. i \in 1 .. Len(toTx) /\ q[i] = toTx[i]
    BY <1>1, <1>3, <1>8
  <2>2. CASE j <= Len(toTx)
    BY <1>1, <1>3, <1>6, <1>8, <2>1, <2>2
  <2>3. CASE j > Len(toTx)
    BY <1>1, <1>2, <1>3, <1>4, <1>5, <1>8, <2>1, <2>3
  <2> QED BY <1>1, <2>2, <2>3
<1> QED BY <1>7, <1>8

\* A repeated block is acknowledged with the next serial number.
LEMMA RxDuplicateStep ==
  ASSUME IInv, UNCHANGED txVars, RxDuplicate
  PROVE  IInv'
<1>1. /\ toRx \in Seq(RxItem) /\ rxFile \in Seq(Nat) /\ dups \in Nat
      /\ txBlock \in Nat
  BY DEF IInv, TypeOK, LineTypeOK, RxTypeOK, TxTypeOK
<1>2. /\ toRx # <<>> /\ toRx' = Tail(toRx)
      /\ dups' = dups + 1
      /\ toTx' = Send(toTx, Ack(Len(rxFile) + dups + 1))
      /\ UNCHANGED <<rxStatus, rxFile, rxRetries, rxCrc, faults, aborts>>
  BY DEF RxDuplicate, RxValid, RxHas
<1>3. toRx' \in Seq(RxItem) /\ PacketsInOrder(toRx')
  BY <1>1, <1>2, TailThinned, PacketsThinned DEF IInv
<1>4. PacketsInOrder(toRx)'
  BY <1>2, <1>3 DEF PacketsInOrder, txVars
<1>5. /\ toTx' \in Seq(TxItem)
      /\ AcksInOrder(toTx)'
  BY <1>1, <1>2, NextAckSend DEF AcksInOrder, txVars
<1>6. TypeOK'
  BY <1>1, <1>2, <1>3, <1>5
  DEF IInv, TypeOK, LineTypeOK, RxTypeOK, TxTypeOK, txVars
<1>7. AheadByDups' /\ RxBehind' /\ OkAfterLastBlock' /\ InOrder'
  BY <1>1, <1>2, XmodemAssumption
  DEF IInv, AheadByDups, RxBehind, MoreData, OkAfterLastBlock, InOrder, txVars
<1>8. SameCheck'
  BY <1>2 DEF IInv, SameCheck, txVars
<1> QED BY <1>4, <1>5, <1>6, <1>7, <1>8 DEF IInv

\* The packet that is stored is the next block of the file.
LEMMA RxAcceptStep ==
  ASSUME IInv, UNCHANGED txVars, RxAccept
  PROVE  IInv'
<1> DEFINE a == Len(rxFile)
           p == Head(toRx)
<1>1. /\ toRx \in Seq(RxItem) /\ rxFile \in Seq(Nat) /\ dups \in Nat
      /\ txBlock \in Nat /\ a \in Nat
  BY DEF IInv, TypeOK, LineTypeOK, RxTypeOK, TxTypeOK
<1>2. /\ toRx # <<>> /\ toRx' = Tail(toRx)
      /\ p.type = "blk" /\ p.chk = RxChk
      /\ BlockNum(p.idx) = BlockNum(a + 1)
      /\ rxFile' = Append(rxFile, p.idx)
      /\ rxRetries' = 0
      /\ toTx' = Send(toTx, Ack(a + dups + 1))
      /\ UNCHANGED <<rxStatus, rxCrc, dups, faults, aborts>>
  <2>1. a + 1 + dups = a + dups + 1
    BY <1>1
  <2> QED BY <2>1 DEF RxAccept, RxValid, RxHas, Rejected, Expected, IsExpected
<1>3. /\ p \in RxItem /\ p.idx \in Nat /\ p = toRx[1] /\ Len(toRx) > 0
      /\ a <= p.idx /\ p.idx <= txBlock /\ p.chk = Chk(txCrc)
      /\ txPhase # "start"
  <2>1. p = toRx[1] /\ 1 \in 1 .. Len(toRx) /\ toRx[1] \in RxItem
    BY <1>1, <1>2
  <2>2. p.idx \in Nat
    BY <2>1 DEF RxItem
  <2> QED BY <1>1, <1>2, <2>1, <2>2 DEF IInv, PacketsInOrder
<1>4. a + 1 <= p.idx
  <2>1. ASSUME p.idx = a
        PROVE  FALSE
    <3>1. /\ a <= a + 1 /\ a + 1 < a + BlockMod
          /\ a % BlockMod = (a + 1) % BlockMod
          /\ a \in Int /\ a + 1 \in Int /\ BlockMod \in Nat \ {0}
      BY <1>1, <1>2, <2>1, XmodemAssumption DEF BlockNum
    <3> HIDE DEF a, p
    <3>2. a = a + 1
      BY <3>1, ModGap, Zenon
    <3> QED BY <1>1, <3>2
  <2> QED BY <1>1, <1>3, <2>1
<1>5. dups < BlockMod - 1 => p.idx = a + 1
  <2>1. ASSUME dups < BlockMod - 1
        PROVE  p.idx = a + 1
    <3>1. txBlock <= a + dups + 1
      BY DEF IInv, AheadByDups
    <3>2. p.idx < a + 1 + BlockMod
      BY <1>1, <1>3, <2>1, <3>1, XmodemAssumption
    <3>3. (a + 1) % BlockMod = p.idx % BlockMod
      BY <1>2 DEF BlockNum
    <3>4. a + 1 \in Int /\ p.idx \in Int /\ BlockMod \in Nat \ {0}
      BY <1>1, <1>3, XmodemAssumption
    <3> HIDE DEF a, p
    <3>5. a + 1 = p.idx
      BY <1>4, <3>2, <3>3, <3>4, ModGap, Zenon
    <3> QED BY <3>5
  <2> QED BY <2>1
<1>6. /\ rxFile' \in Seq(Nat) /\ Len(rxFile') = a + 1
      /\ \A i \in 1 .. a : rxFile'[i] = rxFile[i]
      /\ rxFile'[a + 1] = p.idx
  BY <1>1, <1>2, <1>3
<1>7. toRx' \in Seq(RxItem)
  BY <1>1, <1>2, TailThinned
<1>8. PacketsInOrder(toRx)'
  <2>1. Len(toRx') = Len(toRx) - 1
    BY <1>1, <1>2
  <2>2. \A i \in 1 .. Len(toRx') : /\ toRx'[i] = toRx[i + 1]
                                  /\ i + 1 \in 1 .. Len(toRx) /\ 1 < i + 1
    BY <1>1, <1>2
  <2>3. \A i, j \in 1 .. Len(toRx') : i < j => i + 1 < j + 1
    BY <2>1
  <2>4. \A i \in 1 .. Len(toRx) : toRx[i].idx \in Nat
    <3>1. \A i \in 1 .. Len(toRx) : toRx[i] \in RxItem
      BY <1>1
    <3> QED BY <3>1 DEF RxItem
  <2>5. PacketsInOrder(toRx)
    BY DEF IInv
  <2>6. ASSUME NEW i \in 1 .. Len(toRx'), toRx'[i].type = "blk"
        PROVE  a + 1 <= toRx'[i].idx
    <3>1. 1 \in 1 .. Len(toRx) /\ toRx[1].type = "blk"
      BY <1>1, <1>2, <1>3
    <3>2. p.idx <= toRx[i + 1].idx
      BY <1>3, <2>2, <2>5, <2>6, <3>1 DEF PacketsInOrder
    <3> QED BY <1>1, <1>3, <1>4, <2>2, <2>4, <2>6, <3>2
  <2>7. \A i \in 1 .. Len(toRx') :
           /\ toRx'[i].type = "blk" => /\ a + 1 <= toRx'[i].idx
                                      /\ toRx'[i].idx <= txBlock
                                      /\ toRx'[i].chk = Chk(txCrc)
                                      /\ txPhase # "start"
           /\ toRx'[i].type = "eot" => txPhase = "eot"
    BY <2>2, <2>5, <2>6 DEF PacketsInOrder
  <2>8. \A i, j \in 1 .. Len(toRx') :
           (i < j /\ toRx'[i].type = "blk" /\ toRx'[j].type = "blk")
              => toRx'[i].idx <= toRx'[j].idx
    BY <2>2, <2>3, <2>5 DEF PacketsInOrder
  <2>9. Len(rxFile') = a + 1 /\ UNCHANGED <<txBlock, txPhase, txCrc>>
    BY <1>6 DEF txVars
  <2>10. Chk(txCrc)' = Chk(txCrc)
    BY <2>9 DEF Chk
  <2> HIDE DEF a, p
  <2> QED BY <2>7, <2>8, <2>9, <2>10, Zenon DEF PacketsInOrder
<1>9. toTx' \in Seq(TxItem) /\ AcksInOrder(toTx)'
  <2>1. Len(rxFile') + dups' = a + dups + 1
    BY <1>1, <1>2, <1>6
  <2> QED BY <1>2, <2>1, NextAckSend DEF AcksInOrder, txVars
<1>10. TypeOK'
  BY <1>2, <1>6, <1>7, <1>9, XmodemAssumption
  DEF IInv, TypeOK, LineTypeOK, RxTypeOK, TxTypeOK, txVars
<1>11. AheadByDups' /\ RxBehind' /\ OkAfterLastBlock'
  BY <1>1, <1>2, <1>3, <1>4, <1>6
  DEF IInv, AheadByDups, RxBehind, MoreData, OkAfterLastBlock, txVars
<1>12. SameCheck'
  <2>1. Chk(rxCrc) = Chk(txCrc) /\ rxCrc \in BOOLEAN /\ txCrc \in BOOLEAN
    BY <1>2, <1>3 DEF RxChk, Chk, IInv, TypeOK, RxTypeOK, TxTypeOK
  <2>2. (rxCrc => txCrc) /\ (txCrc => rxCrc)
    BY <2>1 DEF Chk
  <2>3. rxCrc = txCrc
    <3>1. CASE rxCrc = TRUE
      BY <2>1, <2>2, <3>1
    <3>2. CASE rxCrc = FALSE
      BY <2>1, <2>2, <3>2
    <3> QED BY <2>1, <3>1, <3>2
  <2> QED BY <1>2, <2>3 DEF SameCheck, txVars
<1>13. InOrder'
  <2>1. \A i \in 1 .. Len(rxFile') : i \in 1 .. a \/ i = a + 1
    BY <1>1, <1>6
  <2> QED BY <1>2, <1>5, <1>6, <2>1 DEF IInv, InOrder
<1> QED BY <1>8, <1>9, <1>10, <1>11, <1>12, <1>13 DEF IInv

\* A packet of the current or a later block keeps the packets in order.
LEMMA NextPacketSend ==
  ASSUME IInv, txPhase # "eot", NEW k \in Nat, txBlock <= k,
         NEW c \in CheckKind, txPhase # "start" => c = Chk(txCrc)
  PROVE  LET q == Send(toRx, Packet(k, c))
         IN  /\ q \in Seq(RxItem)
             /\ \A i \in 1 .. Len(q) :
                   /\ q[i].type = "blk" => /\ Len(rxFile) <= q[i].idx
                                           /\ q[i].idx <= k
                                           /\ q[i].chk = c
                   /\ q[i].type # "eot"
             /\ \A i, j \in 1 .. Len(q) :
                   (i < j /\ q[i].type = "blk" /\ q[j].type = "blk")
                      => q[i].idx <= q[j].idx
             /\ Len(rxFile) <= k
<1> DEFINE p == Packet(k, c)
           q == Send(toRx, p)
<1>1. /\ toRx \in Seq(RxItem) /\ PacketsInOrder(toRx)
      /\ Len(rxFile) \in Nat /\ txBlock \in Nat
      /\ txPhase = "start" => rxFile = <<>>
  BY DEF IInv, TypeOK, LineTypeOK, RxTypeOK, TxTypeOK, AheadByDups
<1>2. p \in RxItem /\ p.type = "blk" /\ p.idx = k /\ p.chk = c
  BY ByteTypes
<1> HIDE DEF p
<1>3. /\ q \in Seq(RxItem)
      /\ Len(q) \in Len(toRx) .. Len(toRx) + 1
      /\ \A i \in 1 .. Len(q) : q[i] = IF i <= Len(toRx) THEN toRx[i] ELSE p
  <2>1. toRx \in Seq(RxItem) /\ p \in RxItem
    BY <1>1, <1>2
  <2> QED BY <2>1, SendIndex
<1> HIDE DEF q
<1>4. \A i \in 1 .. Len(toRx) : toRx[i].idx \in Nat
  <2>1. \A i \in 1 .. Len(toRx) : toRx[i] \in RxItem
    BY <1>1
  <2> QED BY <2>1 DEF RxItem
<1>5. \A i \in 1 .. Len(toRx) :
         /\ toRx[i].type = "blk" => /\ Len(rxFile) <= toRx[i].idx
                                    /\ toRx[i].idx <= k
                                    /\ toRx[i].chk = c
         /\ toRx[i].type # "eot"
  BY <1>1, <1>4 DEF PacketsInOrder
<1>6. Len(rxFile) <= k
  \* the receiver is never ahead of the transmitter
  BY <1>1 DEF IInv, RxBehind
<1>7. ASSUME NEW i \in 1 .. Len(q)
      PROVE  /\ q[i].type = "blk" => /\ Len(rxFile) <= q[i].idx
                                     /\ q[i].idx <= k
                                     /\ q[i].chk = c
             /\ q[i].type # "eot"
  BY <1>1, <1>2, <1>3, <1>5, <1>6
<1>8. ASSUME NEW i \in 1 .. Len(q), NEW j \in 1 .. Len(q),
             i < j, q[i].type = "blk", q[j].type = "blk"
      PROVE  q[i].idx <= q[j].idx
  <2>1. i \in 1 .. Len(toRx) /\ q[i] = toRx[i]
    BY <1>1, <1>3, <1>8
  <2>2. CASE j <= Len(toRx)
    BY <1>1, <1>3, <1>8, <2>1, <2>2 DEF PacketsInOrder
  <2>3. CASE j > Len(toRx)
    BY <1>2, <1>3, <1>5, <1>8, <2>1, <2>3
  <2> QED BY <1>1, <2>2, <2>3
<1> QED BY <1>3, <1>6, <1>7, <1>8 DEF q, p

\* Going on to the next block, to EOT or giving up keeps the invariant.
LEMMA TxContinueStep ==
  ASSUME IInv, UNCHANGED rxVars, NEW k \in Nat \ {0}, NEW crc \in BOOLEAN,
         TxContinue(k, crc), txPhase # "eot",
         txPhase = "start" => k = 1,
         txPhase = "data" => crc = txCrc,
         txBlock <= k, k <= Len(rxFile) + dups + 1,
         toTx' \in Seq(TxItem),
         \A i \in 1 .. Len(toTx') :
            toTx'[i].type = "ack" => /\ k <= toTx'[i].sn
                                     /\ toTx'[i].sn <= Len(rxFile) + dups,
         \A i, j \in 1 .. Len(toTx') :
            (i < j /\ toTx'[i].type = "ack" /\ toTx'[j].type = "ack")
               => toTx'[i].sn < toTx'[j].sn
  PROVE  IInv'
<1>1. /\ toRx \in Seq(RxItem) /\ PacketsInOrder(toRx)
      /\ rxFile \in Seq(Nat) /\ Len(rxFile) \in Nat /\ txBlock \in Nat
      /\ txPhase \in {"start", "data", "eot"} /\ txStatus \in Status
      /\ txRetries \in 0 .. RetryMod - 1
      /\ txPhase = "start" => rxFile = <<>>
      /\ Chk(crc) \in CheckKind
      /\ rxStatus # "OK"
  BY DEF IInv, TypeOK, LineTypeOK, RxTypeOK, TxTypeOK, AheadByDups,
         OkAfterLastBlock, Chk, CheckKind
<1>2. /\ txCrc' = crc /\ txBlock' = k
      /\ UNCHANGED <<rxStatus, rxFile, rxRetries, rxCrc, dups>>
      /\ UNCHANGED <<faults, aborts>>
  BY DEF TxContinue, TxReturn, rxVars
<1>3. /\ txPhase' \in {"start", "data", "eot"} /\ txStatus' \in Status
      /\ txRetries' \in 0 .. RetryMod - 1
      /\ txPhase' = "eot" => ~ MoreData(k)
      /\ txPhase' \in {txPhase, "data", "eot"}
  BY <1>1, XmodemAssumption DEF TxContinue, TxReturn, Status
<1>4. toRx' \in Seq(RxItem) /\ PacketsInOrder(toRx)'
  <2>1. \A i \in 1 .. Len(toRx) : toRx[i].idx \in Nat
    <3>1. \A i \in 1 .. Len(toRx) : toRx[i] \in RxItem
      BY <1>1
    <3> QED BY <3>1 DEF RxItem
  <2>2. ASSUME NEW q \in Seq(RxItem), PacketsInOrder(q), toRx' = q,
               \A i \in 1 .. Len(q) : q[i].type = "blk" => q[i].idx \in Nat
        PROVE  toRx' \in Seq(RxItem) /\ PacketsInOrder(toRx)'
    <3>1. txPhase = "start" => \A i \in 1 .. Len(q) : q[i].type # "blk"
      BY <2>2 DEF PacketsInOrder
    <3>2. \A i \in 1 .. Len(q) : q[i].type # "eot"
      BY <2>2 DEF PacketsInOrder
    <3>3. txPhase # "start" => txCrc' = txCrc /\ txPhase' # "start"
      BY <1>1, <1>2, <1>3
    <3> QED BY <1>1, <1>2, <2>2, <3>1, <3>2, <3>3 DEF PacketsInOrder
  <2>3. \A ty \in {"can", "eot"} :
           /\ RxByte(ty) \in RxItem /\ RxByte(ty).type = ty
    BY ByteTypes
  <2>4. CASE toRx' = toRx
    BY <1>1, <2>1, <2>2, <2>4
  <2>5. CASE toRx' = Send(toRx, RxByte("can"))
    <3>1. /\ Send(toRx, RxByte("can")) \in Seq(RxItem)
          /\ PacketsInOrder(Send(toRx, RxByte("can")))
      BY <1>1, <2>3, SendIndex, PacketsSend
    <3> DEFINE q == Send(toRx, RxByte("can"))
    <3>2. \A i \in 1 .. Len(q) : q[i] \in RxItem
      BY <3>1
    <3>3. \A i \in 1 .. Len(q) : q[i].idx \in Nat
      BY <3>2 DEF RxItem
    <3> QED BY <2>2, <2>5, <3>1, <3>3
  <2>6. CASE /\ toRx' = Send(toRx, Packet(k, Chk(crc))) /\ txPhase' = "data"
    <3>1. txPhase # "start" => Chk(crc) = Chk(txCrc)
      BY <1>1
    <3> DEFINE q == Send(toRx, Packet(k, Chk(crc)))
    <3>2. /\ q \in Seq(RxItem)
          /\ \A i \in 1 .. Len(q) :
                /\ q[i].type = "blk" => /\ Len(rxFile) <= q[i].idx
                                        /\ q[i].idx <= k
                                        /\ q[i].chk = Chk(crc)
                /\ q[i].type # "eot"
          /\ \A i, j \in 1 .. Len(q) :
                (i < j /\ q[i].type = "blk" /\ q[j].type = "blk")
                   => q[i].idx <= q[j].idx
      BY <1>1, <3>1, NextPacketSend
    <3> HIDE DEF q
    <3>3. toRx' = q
      BY <2>6 DEF q
    <3>4. Chk(txCrc)' = Chk(crc)
      BY <1>2 DEF Chk
    <3> QED BY <1>2, <2>6, <3>2, <3>3, <3>4 DEF PacketsInOrder
  <2>7. CASE toRx' = Send(toRx, RxByte("eot")) /\ txPhase' = "eot"
    <3> DEFINE q == Send(toRx, RxByte("eot"))
    <3>1. /\ q \in Seq(RxItem)
          /\ Len(q) \in Len(toRx) .. Len(toRx) + 1
          /\ \A i \in 1 .. Len(q) :
                q[i] = IF i <= Len(toRx) THEN toRx[i] ELSE RxByte("eot")
      <4>1. toRx \in Seq(RxItem) /\ RxByte("eot") \in RxItem
        BY <1>1, <2>3
      <4> QED BY <4>1, SendIndex
    <3> HIDE DEF q
    <3>2. toRx' = q
      BY <2>7 DEF q
    <3>3. \A i \in 1 .. Len(q) : q[i].type = "blk" => i \in 1 .. Len(toRx)
      BY <1>1, <2>3, <3>1
    <3>4. txPhase = "start" => \A i \in 1 .. Len(toRx) : toRx[i].type # "blk"
      BY <1>1 DEF PacketsInOrder
    <3>5. txPhase # "start" => txCrc' = txCrc
      BY <1>1, <1>2
    <3>6. \A i \in 1 .. Len(q) : q[i].type = "blk" =>
             /\ Len(rxFile) <= q[i].idx
             /\ q[i].idx <= k
             /\ q[i].chk = Chk(txCrc)
             /\ txPhase # "start"
      <4>1. \A i \in 1 .. Len(toRx) : toRx[i].type = "blk" =>
               /\ Len(rxFile) <= toRx[i].idx
               /\ toRx[i].idx <= k
               /\ toRx[i].chk = Chk(txCrc)
               /\ txPhase # "start"
        BY <1>1, <2>1 DEF PacketsInOrder
      <4> QED BY <3>1, <3>3, <4>1
    <3>7. \A i, j \in 1 .. Len(q) :
             (i < j /\ q[i].type = "blk" /\ q[j].type = "blk")
                => q[i].idx <= q[j].idx
      BY <1>1, <3>1, <3>3, SMTT(30) DEF PacketsInOrder
    <3>8. txPhase # "start" => Chk(txCrc)' = Chk(txCrc)
      BY <3>5 DEF Chk
    <3> QED BY <1>2, <2>7, <3>1, <3>2, <3>6, <3>7, <3>8 DEF PacketsInOrder
  <2> QED
    BY <2>4, <2>5, <2>6, <2>7 DEF TxContinue, TxReturn
<1>5. AcksInOrder(toTx)'
  BY <1>2 DEF AcksInOrder
<1>6. TypeOK'
  BY <1>2, <1>3, <1>4
  DEF IInv, TypeOK, LineTypeOK, RxTypeOK, TxTypeOK
<1>7. AheadByDups' /\ RxBehind' /\ OkAfterLastBlock' /\ InOrder'
  BY <1>1, <1>2, <1>3
  DEF IInv, AheadByDups, MoreData, RxBehind, OkAfterLastBlock, InOrder
<1>8. SameCheck'
  BY <1>1, <1>2 DEF IInv, SameCheck
<1> QED BY <1>4, <1>5, <1>6, <1>7, <1>8 DEF IInv

\* The transmitter steps that stay with the same block.
LEMMA TxQuietStep ==
  ASSUME IInv, UNCHANGED <<rxVars, txBlock, txCrc, txPhase>>,
         toRx' \in Seq(RxItem), PacketsInOrder(toRx'),
         toTx' \in Seq(TxItem), AcksInOrder(toTx'),
         txStatus' \in Status, txRetries' \in 0 .. RetryMod - 1,
         faults' \in 0 .. MaxFaults, aborts' \in 0 .. MaxAborts
  PROVE  IInv'
<1>1. TypeOK'
  BY DEF IInv, TypeOK, LineTypeOK, RxTypeOK, TxTypeOK, rxVars
<1>2. PacketsInOrder(toRx)' /\ AcksInOrder(toTx)'
  BY DEF PacketsInOrder, AcksInOrder, Chk, rxVars
<1>3. AheadByDups' /\ RxBehind' /\ OkAfterLastBlock' /\ InOrder'
  BY DEF IInv, AheadByDups, RxBehind, OkAfterLastBlock, InOrder, rxVars
<1>4. SameCheck'
  BY DEF IInv, SameCheck, rxVars
<1> QED BY <1>1, <1>2, <1>3, <1>4 DEF IInv

\* Every step of the transmitter keeps the invariant.
LEMMA TxStepOk ==
  ASSUME IInv, UNCHANGED rxVars, TxStep(rxDone)
  PROVE  IInv'
<1>1. /\ toRx \in Seq(RxItem) /\ toTx \in Seq(TxItem)
      /\ PacketsInOrder(toRx) /\ AcksInOrder(toTx)
      /\ faults \in 0 .. MaxFaults /\ aborts \in 0 .. MaxAborts
      /\ txStatus \in Status /\ txRetries \in 0 .. RetryMod - 1
      /\ txBlock \in Nat \ {0} /\ txCrc \in BOOLEAN
      /\ txPhase \in {"start", "data", "eot"}
      /\ Len(rxFile) \in Nat /\ dups \in Nat
      /\ NextRetry(txRetries) \in 0 .. RetryMod - 1
      /\ Chk(txCrc) \in CheckKind
  BY RetryType DEF IInv, TypeOK, LineTypeOK, RxTypeOK, TxTypeOK, Chk, CheckKind
<1>2. toTx # <<>> => /\ Tail(toTx) \in Seq(TxItem) /\ AcksInOrder(Tail(toTx))
  BY <1>1, TailThinned, AcksThinned
<1>3. \A ty \in {"can"} :
         /\ Send(toRx, RxByte(ty)) \in Seq(RxItem)
         /\ PacketsInOrder(Send(toRx, RxByte(ty)))
  BY <1>1, ByteTypes, SendIndex, PacketsSend
<1>4. CASE TxStart
  <2>1. /\ toTx # <<>> /\ toTx' = Tail(toTx) /\ txPhase = "start"
        /\ TxContinue(1, Head(toTx).type = "c")
    BY <1>4 DEF TxStart, TxReads, TxAt
  <2>2. txBlock = 1 /\ AcksInOrder(toTx')
    BY <1>2, <2>1 DEF IInv, AheadByDups
  <2>3. /\ txPhase # "eot" /\ txPhase # "data"
        /\ txBlock <= 1 /\ 1 <= Len(rxFile) + dups + 1
        /\ 1 \in Nat \ {0} /\ (Head(toTx).type = "c") \in BOOLEAN
    BY <1>1, <2>1, <2>2
  <2>4. /\ toTx' \in Seq(TxItem)
        /\ \A i \in 1 .. Len(toTx') :
              toTx'[i].type = "ack" => /\ 1 <= toTx'[i].sn
                                       /\ toTx'[i].sn <= Len(rxFile) + dups
        /\ \A i, j \in 1 .. Len(toTx') :
              (i < j /\ toTx'[i].type = "ack" /\ toTx'[j].type = "ack")
                 => toTx'[i].sn < toTx'[j].sn
    BY <1>2, <2>1, <2>2, <2>3 DEF AcksInOrder
  <2> DEFINE crc == (Head(toTx).type = "c")
  <2> HIDE DEF crc
  <2>5. crc \in BOOLEAN /\ TxContinue(1, crc)
    BY <2>1, <2>3 DEF crc
  <2> QED
    BY <2>3, <2>4, <2>5, TxContinueStep
<1>5. CASE TxAcked
  <2>1. /\ toTx # <<>> /\ toTx' = Tail(toTx) /\ txPhase = "data"
        /\ toTx[1].type = "ack"
        /\ TxContinue(txBlock + 1, txCrc)
    BY <1>1, <1>5 DEF TxAcked, TxReads, TxAt
  <2>2. \A i \in 1 .. Len(toTx) : toTx[i].sn \in Nat
    <3>1. \A i \in 1 .. Len(toTx) : toTx[i] \in TxItem
      BY <1>1
    <3> QED BY <3>1 DEF TxItem
  <2>3. /\ Len(toTx') = Len(toTx) - 1
        /\ \A i \in 1 .. Len(toTx') : /\ toTx'[i] = toTx[i + 1]
                                      /\ i + 1 \in 1 .. Len(toTx) /\ 1 < i + 1
        /\ 1 \in 1 .. Len(toTx)
    BY <1>1, <2>1
  <2>4. txBlock <= toTx[1].sn /\ toTx[1].sn <= Len(rxFile) + dups
    BY <1>1, <2>1, <2>3 DEF AcksInOrder
  <2>5. ASSUME NEW i \in 1 .. Len(toTx'), toTx'[i].type = "ack"
        PROVE  txBlock + 1 <= toTx'[i].sn /\ toTx'[i].sn <= Len(rxFile) + dups
    <3>1. toTx[1].sn < toTx[i + 1].sn /\ toTx[i + 1].sn <= Len(rxFile) + dups
      BY <1>1, <2>1, <2>3, <2>5 DEF AcksInOrder
    <3>2. toTx[1].sn \in Nat /\ toTx[i + 1].sn \in Nat /\ txBlock \in Nat
      BY <1>1, <2>2, <2>3
    <3>3. txBlock + 1 <= toTx[i + 1].sn
      BY <2>4, <3>1, <3>2
    <3> QED BY <2>3, <3>1, <3>3
  <2>6. \A i, j \in 1 .. Len(toTx') :
           (i < j /\ toTx'[i].type = "ack" /\ toTx'[j].type = "ack")
              => toTx'[i].sn < toTx'[j].sn
    BY <1>2, <2>1 DEF AcksInOrder
  <2>7. txBlock + 1 <= Len(rxFile) + dups + 1
    BY <1>1, <2>2, <2>3, <2>4
  <2>8. txBlock + 1 \in Nat \ {0} /\ txBlock <= txBlock + 1
    BY <1>1
  <2> QED
    BY <1>1, <1>2, <2>1, <2>5, <2>6, <2>7, <2>8, TxContinueStep
<1>6. CASE TxStartCan \/ TxCancelled \/ TxEotAcked
  <2>1. /\ toTx # <<>> /\ toTx' = Tail(toTx) /\ toRx' = toRx
        /\ txStatus' \in {"CANCEL", "OK"}
        /\ UNCHANGED <<txPhase, txRetries, txBlock, txCrc, faults, aborts>>
    BY <1>6 DEF TxStartCan, TxCancelled, TxEotAcked, TxReads, TxReturn
  <2> QED BY <1>1, <1>2, <2>1, TxQuietStep DEF Status
<1>7. CASE TxAbortKey
  <2>1. /\ toTx # <<>> /\ toTx' = Tail(toTx)
        /\ toRx' = SendTwice(toRx, RxByte("can"))
        /\ txStatus' = "CANCEL"
        /\ UNCHANGED <<txPhase, txRetries, txBlock, txCrc, faults, aborts>>
    BY <1>7 DEF TxAbortKey, TxReads, TxReturn
  <2>2. toRx' \in Seq(RxItem) /\ PacketsInOrder(toRx')
    BY <1>1, <2>1, SendTwiceOk
  <2> QED BY <1>1, <1>2, <2>1, <2>2, TxQuietStep DEF Status
<1>8. CASE TxStartRetry(rxDone)
  <2>1. /\ toTx' \in Seq(TxItem) /\ AcksInOrder(toTx')
    BY <1>1, <1>2, <1>8 DEF TxStartRetry, TxUseless, TxReads
  <2>2. /\ toRx' = toRx /\ txStatus' \in {txStatus, "TIMEOUT"}
        /\ txRetries' \in {txRetries, NextRetry(txRetries)}
        /\ UNCHANGED <<txPhase, txBlock, txCrc, faults, aborts>>
    BY <1>8 DEF TxStartRetry, TxReturn
  <2> QED BY <1>1, <2>1, <2>2, TxQuietStep DEF Status
<1>9. CASE TxResend(rxDone)
  <2>1. /\ toTx' \in Seq(TxItem) /\ AcksInOrder(toTx')
        /\ txPhase = "data"
    BY <1>1, <1>2, <1>9 DEF TxResend, TxUseless, TxReads, TxAt
  <2>2. /\ txStatus' \in {txStatus, "TIMEOUT"}
        /\ txRetries' \in 0 .. RetryMod - 1
        /\ UNCHANGED <<txPhase, txBlock, txCrc, faults, aborts>>
    BY <1>1, <1>9, XmodemAssumption DEF TxResend, TxReturn
  <2>3. toRx' \in Seq(RxItem) /\ PacketsInOrder(toRx')
    <3>1. CASE toRx' = Send(toRx, RxByte("can"))
      BY <1>3, <3>1
    <3>2. CASE toRx' = Send(toRx, Packet(txBlock, Chk(txCrc)))
      <4>1. txBlock \in Nat /\ txBlock <= txBlock
        BY <1>1
      <4> DEFINE q == Send(toRx, Packet(txBlock, Chk(txCrc)))
      <4>2. /\ q \in Seq(RxItem)
            /\ \A i \in 1 .. Len(q) :
                  /\ q[i].type = "blk" => /\ Len(rxFile) <= q[i].idx
                                          /\ q[i].idx <= txBlock
                                          /\ q[i].chk = Chk(txCrc)
                  /\ q[i].type # "eot"
            /\ \A i, j \in 1 .. Len(q) :
                  (i < j /\ q[i].type = "blk" /\ q[j].type = "blk")
                     => q[i].idx <= q[j].idx
        BY <1>1, <2>1, <4>1, NextPacketSend
      <4> HIDE DEF q
      <4>3. q \in Seq(RxItem) /\ PacketsInOrder(q)
        BY <2>1, <4>2 DEF PacketsInOrder
      <4> QED BY <3>2, <4>3 DEF q
    <3> QED BY <1>9, <3>1, <3>2 DEF TxResend, TxReturn
  <2> QED BY <1>1, <2>1, <2>2, <2>3, TxQuietStep DEF Status
<1>10. CASE TxEotRetry(rxDone)
  <2>1. /\ toTx' \in Seq(TxItem) /\ AcksInOrder(toTx')
        /\ txPhase = "eot"
    BY <1>1, <1>2, <1>10 DEF TxEotRetry, TxUseless, TxReads, TxAt
  <2>2. /\ txStatus' \in {txStatus, "TIMEOUT"}
        /\ txRetries' \in 0 .. RetryMod - 1
        /\ UNCHANGED <<txPhase, txBlock, txCrc, faults, aborts>>
    BY <1>1, <1>10, XmodemAssumption DEF TxEotRetry, TxReturn
  <2>3. toRx' \in Seq(RxItem) /\ PacketsInOrder(toRx')
    <3>1. CASE toRx' = toRx
      BY <1>1, <3>1
    <3>2. CASE toRx' = Send(toRx, RxByte("eot"))
      BY <1>1, <2>1, <3>2, EotSend
    <3> QED BY <1>10, <3>1, <3>2 DEF TxEotRetry, TxReturn
  <2> QED BY <1>1, <2>1, <2>2, <2>3, TxQuietStep DEF Status
<1> QED BY <1>4, <1>5, <1>6, <1>7, <1>8, <1>9, <1>10 DEF TxStep

\* The invariant holds when both functions have been called.
LEMMA InitIInv ==
  Init => IInv
<1> SUFFICES ASSUME Init PROVE IInv
  OBVIOUS
<1>1. TypeOK
  BY XmodemAssumption, SerialLineAssumption DEF Init, RxInit, TxInit, TypeOK, LineTypeOK, RxTypeOK,
     TxTypeOK, Status, Request, TxByte, TxItem
<1>2. PacketsInOrder(toRx) /\ AcksInOrder(toTx)
  BY DEF Init, PacketsInOrder, AcksInOrder, Request, TxByte
<1>3. AheadByDups /\ RxBehind /\ OkAfterLastBlock /\ SameCheck /\ InOrder
  BY DEF Init, RxInit, TxInit, AheadByDups, RxBehind, OkAfterLastBlock,
     SameCheck, InOrder
<1> QED BY <1>1, <1>2, <1>3 DEF IInv

\* Every step keeps the invariant.
LEMMA StepIInv ==
  IInv /\ [Next]_vars => IInv'
<1> SUFFICES ASSUME IInv, [Next]_vars PROVE IInv'
  OBVIOUS
<1>1. CASE Rx
  <2>1. CASE RxAccept
    BY <1>1, <2>1, RxAcceptStep DEF Rx
  <2>2. CASE RxDuplicate
    BY <1>1, <2>2, RxDuplicateStep DEF Rx
  <2> QED BY <1>1, <2>1, <2>2, RxQuietStep DEF Rx, RxStep
<1>2. CASE Tx
  BY <1>2, TxStepOk DEF Tx
<1>3. CASE Line
  BY <1>3, LineStep
<1>4. CASE UNCHANGED vars
  <2>1. UNCHANGED <<toRx, toTx, faults, aborts>> /\ UNCHANGED rxVars /\ UNCHANGED txVars
    BY <1>4 DEF vars, lineVars
  <2> QED BY <2>1, TxQuietStep
          DEF IInv, TypeOK, LineTypeOK, RxTypeOK, TxTypeOK, txVars
<1> QED BY <1>1, <1>2, <1>3, <1>4 DEF Next, Returned

\* Every reachable state satisfies the inductive invariant.
THEOREM Invariance == Spec => []IInv
BY InitIInv, StepIInv, PTL DEF Spec

\* Every variable keeps its type.
THEOREM TypeCorrect == Spec => []TypeOK
<1>1. IInv => TypeOK
  BY DEF IInv
<1> QED BY <1>1, Invariance, PTL

\* The receiver stores the file's blocks in order, without a gap or a
\* repetition, until it has sent BlockMod - 1 duplicate ACKs.
THEOREM DeliveryInOrder == Spec => []InOrder
<1>1. IInv => InOrder
  BY DEF IInv
<1> QED BY <1>1, Invariance, PTL

\* When the transmitter sends EOT, the receiver lacks at most as many blocks
\* as it sent duplicate ACKs; with none it lacks nothing.
THEOREM LossIsBounded == Spec => []LossBounded
<1>1. IInv => LossBounded
  BY XmodemAssumption DEF IInv, TypeOK, RxTypeOK, TxTypeOK, AheadByDups,
     MoreData, LossBounded
<1> QED BY <1>1, Invariance, PTL

\* The receiver returns XMODEM_OK only after the last block was acknowledged.
THEOREM OkOnlyAfterLastBlock == Spec => []OkAfterLastBlock
<1>1. IInv => OkAfterLastBlock
  BY DEF IInv
<1> QED BY <1>1, Invariance, PTL

\* After the first stored block both ends agree on the check.
THEOREM CheckAgreed == Spec => []SameCheck
<1>1. IInv => SameCheck
  BY DEF IInv
<1> QED BY <1>1, Invariance, PTL

-----------------------------------------------------------------------------

(***************************************************************************)
(* Timeouts that exceed every delay.  With Timely and a known length, one  *)
(* item is in flight at a time while both ends are in the data phase, so   *)
(* every packet is for the block being sent, every ACK is for the block    *)
(* stored last, and a transfer implements the delivery of a file.          *)
(***************************************************************************)

\* Only abort keys, which are no part of the dialogue, are in q.
Silent(q) == \A i \in 1 .. Len(q) : q[i].type = "brk"

\* One item at most is on its way in q, abort keys aside.
OneLive(q) ==
    \A i, j \in 1 .. Len(q) :
       q[i].type # "brk" /\ q[j].type # "brk" => i = j

\* No item of type ty is in q.
None(q, ty) == \A i \in 1 .. Len(q) : q[i].type # ty

OneAck(q) ==
    \A i, j \in 1 .. Len(q) :
       q[i].type = "ack" /\ q[j].type = "ack" => i = j

\* Every packet in q carries block k.
Current(q, k) == \A i \in 1 .. Len(q) : q[i].type = "blk" => q[i].idx = k

\* The dialogue: a packet or its answer is in flight, never both.
OneInFlight ==
    ~ rxDone /\ ~ txDone /\ txPhase # "eot" =>
       /\ OneLive(toRx)
       /\ OneLive(toTx)
       /\ Silent(toRx) \/ Silent(toTx)

\* What the receiver can still read is the block being sent.
PacketsAreCurrent ==
    ~ rxDone =>
       \/ None(toRx, "blk")
       \/ txPhase = "data" /\ txBlock <= NBlocks /\ Current(toRx, txBlock)

\* What the transmitter can still read as an ACK is for the block it sent, or
\* for EOT once the receiver has returned.
AcksAreCurrent ==
    ~ txDone =>
       \/ None(toTx, "ack")
       \/ txPhase = "data" /\ Len(rxFile) = txBlock /\ OneAck(toTx)
       \/ txPhase = "eot" /\ rxStatus = "OK"

\* The two ends differ by the block in flight at most.
InStep ==
    /\ txPhase = "data" => Len(rxFile) \in {txBlock - 1, txBlock}
    /\ txPhase = "data" /\ ~ txDone => txBlock <= NBlocks
    /\ txPhase = "eot" => Len(rxFile) = NBlocks
    /\ txStatus = "OK" => rxStatus = "OK"
    /\ Len(rxFile) <= NBlocks
    /\ \A i \in 1 .. Len(rxFile) : rxFile[i] = i

TimelyInv ==
    /\ OneInFlight
    /\ PacketsAreCurrent
    /\ AcksAreCurrent
    /\ InStep

\* r is what is left of q when items are taken from its front and live ones
\* are damaged in place.
Fewer(r, q) ==
    \E k \in 0 .. Len(q) :
       /\ Len(r) = Len(q) - k
       /\ \A i \in 1 .. Len(r) :
             \/ r[i] = q[i + k]
             \/ q[i + k].type # "brk" /\ r[i].type \notin {"blk", "eot", "ack"}

\* What q lacks of live items, of packets, of ACKs, r lacks as well.
LiveKept(r, q) ==
    /\ Silent(q) => Silent(r)
    /\ OneLive(q) => OneLive(r)

PacketsKept(r, q) ==
    /\ None(q, "blk") => None(r, "blk")
    /\ \A k \in Nat : Current(q, k) => Current(r, k)

AcksKept(r, q) ==
    /\ None(q, "ack") => None(r, "ack")
    /\ OneAck(q) => OneAck(r)

\* What a queue lacks, a part of it lacks.
LEMMA FewerKeeps ==
  ASSUME NEW S, NEW q \in Seq(S), NEW r \in Seq(S), Fewer(r, q)
  PROVE  LiveKept(r, q) /\ PacketsKept(r, q) /\ AcksKept(r, q)
<1>1. PICK k \in 0 .. Len(q) :
         /\ Len(r) = Len(q) - k
         /\ \A i \in 1 .. Len(r) :
               \/ r[i] = q[i + k]
               \/ q[i + k].type # "brk" /\ r[i].type \notin {"blk", "eot", "ack"}
  BY DEF Fewer
<1>2. \A i \in 1 .. Len(r) : i + k \in 1 .. Len(q)
  BY <1>1
<1>3. \A i, j \in 1 .. Len(r) : i + k = j + k => i = j
  BY <1>1
<1>4. Silent(q) => Silent(r)
  BY <1>1, <1>2 DEF Silent
<1>5. OneLive(q) => OneLive(r)
  <2>1. \A i \in 1 .. Len(r) : r[i].type # "brk" => q[i + k].type # "brk"
    BY <1>1
  <2> QED BY <1>2, <1>3, <2>1 DEF OneLive
<1>6. \A ty \in {"blk", "ack"} : None(q, ty) => None(r, ty)
  BY <1>1, <1>2 DEF None
<1>7. OneAck(q) => OneAck(r)
  BY <1>1, <1>2, <1>3 DEF OneAck
<1>8. \A n \in Nat : Current(q, n) => Current(r, n)
  BY <1>1, <1>2 DEF Current
<1> QED BY <1>4, <1>5, <1>6, <1>7, <1>8 DEF LiveKept, PacketsKept, AcksKept

\* Taking the first item; what is left when it was the one in flight.
LEMMA TailFewer ==
  ASSUME NEW S, NEW q \in Seq(S), q # <<>>
  PROVE  /\ Tail(q) \in Seq(S)
         /\ Fewer(Tail(q), q)
         /\ OneLive(q) /\ Head(q).type # "brk" => Silent(Tail(q))
         /\ OneAck(q) /\ Head(q).type = "ack" => None(Tail(q), "ack")
<1>1. /\ Tail(q) \in Seq(S)
      /\ Len(Tail(q)) = Len(q) - 1 /\ 1 \in 0 .. Len(q) /\ 1 \in 1 .. Len(q)
      /\ Head(q) = q[1]
  OBVIOUS
<1>2. \A i \in 1 .. Len(Tail(q)) : /\ Tail(q)[i] = q[i + 1]
                                  /\ i + 1 \in 1 .. Len(q) /\ i + 1 # 1
  OBVIOUS
<1>3. Fewer(Tail(q), q)
  BY <1>1, <1>2 DEF Fewer
<1>4. OneLive(q) /\ Head(q).type # "brk" => Silent(Tail(q))
  BY <1>1, <1>2 DEF OneLive, Silent
<1>5. OneAck(q) /\ Head(q).type = "ack" => None(Tail(q), "ack")
  BY <1>1, <1>2 DEF OneAck, None
<1> QED BY <1>1, <1>3, <1>4, <1>5

\* purge_rx only takes items from the front.
LEMMA PurgedFewer ==
  ASSUME NEW S, NEW q \in Seq(S), NEW r \in Purged(q)
  PROVE  r \in Seq(S) /\ Fewer(r, q)
<1>1. PICK k \in 0 .. Len(q) : r = SubSeq(q, k + 1, Len(q))
  BY DEF Purged
<1>2. /\ r \in Seq(S)
      /\ Len(r) = Len(q) - k
      /\ \A i \in 1 .. Len(r) : r[i] = q[i + k]
  BY <1>1
<1> QED BY <1>2 DEF Fewer

\* Damage to the first item.
LEMMA DamagedFewer ==
  ASSUME NEW S, NEW q \in Seq(S), q # <<>>, Head(q).type # "brk", NEW b \in S,
         b.type \notin {"blk", "eot", "ack"}
  PROVE  <<b>> \o Tail(q) \in Seq(S) /\ Fewer(<<b>> \o Tail(q), q)
<1> DEFINE r == <<b>> \o Tail(q)
<1>1. /\ r \in Seq(S) /\ Len(r) = Len(q) /\ Len(q) \in Nat
      /\ r[1] = b /\ Head(q) = q[1]
  OBVIOUS
<1>2. \A i \in 1 .. Len(r) : i # 1 => r[i] = q[i]
  OBVIOUS
<1> HIDE DEF r
<1>3. \A i \in 1 .. Len(r) :
         \/ r[i] = q[i + 0]
         \/ q[i + 0].type # "brk" /\ r[i].type \notin {"blk", "eot", "ack"}
  BY <1>1, <1>2
<1>4. 0 \in 0 .. Len(q) /\ Len(r) = Len(q) - 0
  BY <1>1
<1>5. Fewer(r, q)
  BY <1>3, <1>4 DEF Fewer
<1> QED BY <1>1, <1>5 DEF r

\* What a queue holds after one more item was sent.
LEMMA SendKeeps ==
  ASSUME NEW S, NEW q \in Seq(S), NEW b \in S
  PROVE  /\ Send(q, b) \in Seq(S)
         /\ Silent(q) => OneLive(Send(q, b))
         /\ b.type = "brk" => LiveKept(Send(q, b), q)
         /\ b.type # "blk" => PacketsKept(Send(q, b), q)
         /\ b.type # "ack" => AcksKept(Send(q, b), q)
         /\ None(q, "ack") => OneAck(Send(q, b))
         /\ \A k \in Nat : Current(q, k) /\ (b.type = "blk" => b.idx = k)
                              => Current(Send(q, b), k)
<1> DEFINE r == Send(q, b)
<1>1. /\ r \in Seq(S)
      /\ Len(r) \in Len(q) .. Len(q) + 1
      /\ \A i \in 1 .. Len(r) : r[i] = IF i <= Len(q) THEN q[i] ELSE b
  BY SendIndex
<1> HIDE DEF r
<1>2. \A i \in 1 .. Len(r) :
         \/ i \in 1 .. Len(q) /\ r[i] = q[i]
         \/ i = Len(q) + 1 /\ r[i] = b
  <2> DEFINE n == Len(q)
             m == Len(r)
  <2>1. n \in Nat /\ m \in n .. n + 1
    BY <1>1
  <2>2. \A i \in 1 .. m : r[i] = IF i <= n THEN q[i] ELSE b
    BY <1>1
  <2> HIDE DEF n, m
  <2>3. \A i \in 1 .. m : \/ i \in 1 .. n /\ i <= n
                          \/ i = n + 1 /\ ~ (i <= n)
    BY <2>1
  <2>4. \A i \in 1 .. m : \/ i \in 1 .. n /\ r[i] = q[i]
                          \/ i = n + 1 /\ r[i] = b
    BY <2>2, <2>3
  <2> QED BY <2>4 DEF n, m
<1>3. Silent(q) => OneLive(r)
  BY <1>2 DEF Silent, OneLive
<1>4. b.type = "brk" => /\ Silent(q) => Silent(r)
                        /\ OneLive(q) => OneLive(r)
  BY <1>2 DEF Silent, OneLive
<1>5. \A ty \in {"blk", "ack"} : b.type # ty /\ None(q, ty) => None(r, ty)
  BY <1>2 DEF None
<1>6. /\ None(q, "ack") => OneAck(r)
      /\ b.type # "ack" /\ OneAck(q) => OneAck(r)
  BY <1>2 DEF None, OneAck
<1>7. \A k \in Nat : Current(q, k) /\ (b.type = "blk" => b.idx = k)
                       => Current(r, k)
  BY <1>2 DEF Current
<1>8. b.type # "blk" => PacketsKept(r, q)
  BY <1>5, <1>7 DEF PacketsKept
<1>9. b.type # "ack" => AcksKept(r, q)
  BY <1>5, <1>6 DEF AcksKept
<1> QED BY <1>1, <1>3, <1>4, <1>6, <1>7, <1>8, <1>9 DEF r, LiveKept

\* A silent queue holds no packet and no ACK.
LEMMA SilentNone ==
  ASSUME NEW S, NEW q \in Seq(S)
  PROVE  /\ q = <<>> => Silent(q)
         /\ Silent(q) => None(q, "blk") /\ None(q, "ack") /\ OneLive(q)
         /\ None(q, "blk") => \A k \in Nat : Current(q, k)
BY DEF Silent, None, OneLive, Current

\* The types the invariant gives, and what a returned call means.
LEMMA TimelyTypes ==
  ASSUME IInv
  PROVE  /\ toRx \in Seq(RxItem) /\ toTx \in Seq(TxItem)
         /\ rxFile \in Seq(Nat) /\ Len(rxFile) \in Nat
         /\ txBlock \in Nat /\ NBlocks \in Nat
         /\ dups \in Nat
         /\ txPhase \in {"start", "data", "eot"}
         /\ txPhase = "start" => txBlock = 1 /\ Len(rxFile) = 0
         /\ txPhase = "eot" => ~ MoreData(txBlock)
         /\ rxStatus = "OK" => txPhase = "eot"
BY XmodemAssumption
DEF IInv, TypeOK, LineTypeOK, RxTypeOK, TxTypeOK, AheadByDups, OkAfterLastBlock

\* A step that stores nothing and stays with the block being sent, and after
\* which a call that still runs can read nothing new.
LEMMA TimelyQuiet ==
  ASSUME IInv, TimelyInv, OneInFlight',
         UNCHANGED <<rxFile, txPhase, txBlock>>,
         rxDone => rxStatus' = rxStatus, txDone => txStatus' = txStatus,
         txStatus' = "OK" => txStatus = "OK",
         rxDone' \/ PacketsKept(toRx', toRx),
         txDone' \/ AcksKept(toTx', toTx)
  PROVE  TimelyInv'
<1>1. PacketsAreCurrent'
  <2>1. SUFFICES ASSUME ~ rxDone' PROVE PacketsAreCurrent'
    BY DEF PacketsAreCurrent
  <2>2. ~ rxDone /\ PacketsKept(toRx', toRx) /\ txBlock \in Nat
    BY <2>1, TimelyTypes DEF rxDone
  <2>3. CASE None(toRx, "blk")
    <3>1. None(toRx', "blk")
      BY <2>2, <2>3 DEF PacketsKept
    <3> QED BY <3>1 DEF PacketsAreCurrent, None
  <2>4. CASE txPhase = "data" /\ txBlock <= NBlocks /\ Current(toRx, txBlock)
    <3>1. Current(toRx', txBlock)
      BY <2>2, <2>4 DEF PacketsKept
    <3> QED BY <2>4, <3>1 DEF PacketsAreCurrent, Current
  <2> QED BY <2>2, <2>3, <2>4 DEF TimelyInv, PacketsAreCurrent
<1>2. AcksAreCurrent'
  <2>1. SUFFICES ASSUME ~ txDone' PROVE AcksAreCurrent'
    BY DEF AcksAreCurrent
  <2>2. ~ txDone /\ AcksKept(toTx', toTx)
    BY <2>1 DEF txDone
  <2>3. CASE None(toTx, "ack")
    <3>1. None(toTx', "ack")
      BY <2>2, <2>3 DEF AcksKept
    <3> QED BY <3>1 DEF AcksAreCurrent, None
  <2>4. CASE txPhase = "data" /\ Len(rxFile) = txBlock /\ OneAck(toTx)
    <3>1. OneAck(toTx')
      BY <2>2, <2>4 DEF AcksKept
    <3> QED BY <2>4, <3>1 DEF AcksAreCurrent, OneAck
  <2>5. CASE txPhase = "eot" /\ rxStatus = "OK"
    BY <2>5 DEF AcksAreCurrent, rxDone
  <2> QED BY <2>2, <2>3, <2>4, <2>5 DEF TimelyInv, AcksAreCurrent
<1>3. InStep'
  <2>1. ~ txDone' => ~ txDone
    BY DEF txDone
  <2>2. txStatus' = "OK" => rxStatus' = "OK"
    BY DEF TimelyInv, InStep, rxDone
  <2> QED BY <2>1, <2>2 DEF TimelyInv, InStep
<1> QED BY <1>1, <1>2, <1>3 DEF TimelyInv

\* The line disturbs no dialogue: it loses or damages the item in flight, or
\* an abort key arrives.
LEMMA LineTimely ==
  ASSUME IInv, TimelyInv, Line
  PROVE  TimelyInv'
<1>1. /\ toRx \in Seq(RxItem) /\ toTx \in Seq(TxItem)
      /\ UNCHANGED <<rxFile, txPhase, txBlock, rxStatus, txStatus>>
  BY TimelyTypes DEF Line, rxVars, txVars
<1>2. /\ LiveKept(toRx', toRx) /\ PacketsKept(toRx', toRx)
      /\ LiveKept(toTx', toTx) /\ AcksKept(toTx', toTx)
  <2>1. /\ toRx' = toRx => LiveKept(toRx', toRx) /\ PacketsKept(toRx', toRx)
        /\ toTx' = toTx => LiveKept(toTx', toTx) /\ AcksKept(toTx', toTx)
    BY DEF LiveKept, PacketsKept, AcksKept
  <2>2. CASE LoseToRx
    BY <1>1, <2>1, <2>2, TailFewer, FewerKeeps DEF LoseToRx
  <2>3. CASE LoseToTx
    BY <1>1, <2>1, <2>3, TailFewer, FewerKeeps DEF LoseToTx
  <2>4. CASE DamageToRx({"blk"})
    <3>1. PICK ty \in {"bad", "junk"} :
             toRx' = <<[Head(toRx) EXCEPT !.type = ty]>> \o Tail(toRx)
      BY <2>4 DEF DamageToRx, Damaged
    <3>2. toRx # <<>> /\ UNCHANGED toTx /\ Head(toRx).type # "brk"
      BY <2>4 DEF DamageToRx
    <3>3. /\ [Head(toRx) EXCEPT !.type = ty] \in RxItem
          /\ [Head(toRx) EXCEPT !.type = ty].type \notin {"blk", "eot", "ack"}
      <4>1. Head(toRx) \in RxItem
        BY <1>1, <3>2
      <4> QED BY <4>1 DEF RxItem
    <3>4. toRx' \in Seq(RxItem) /\ Fewer(toRx', toRx)
      BY <1>1, <3>1, <3>2, <3>3, DamagedFewer
    <3> QED BY <1>1, <2>1, <3>2, <3>4, FewerKeeps
  <2>5. CASE DamageToTx({"blk"})
    <3>1. /\ toTx # <<>> /\ UNCHANGED toRx /\ Head(toTx).type # "brk"
          /\ Head(toTx) \in TxItem
      BY <1>1, <2>5 DEF DamageToTx
    <3>2. toTx' = <<[Head(toTx) EXCEPT !.type = "junk"]>> \o Tail(toTx)
      <4>1. Head(toTx).type \notin {"blk"}
        BY <3>1 DEF TxItem
      <4> QED BY <2>5, <4>1 DEF DamageToTx, Damaged
    <3>3. /\ [Head(toTx) EXCEPT !.type = "junk"] \in TxItem
          /\ [Head(toTx) EXCEPT !.type = "junk"].type \notin {"blk", "eot", "ack"}
      BY <3>1 DEF TxItem
    <3>4. toTx' \in Seq(TxItem) /\ Fewer(toTx', toTx)
      BY <1>1, <3>1, <3>2, <3>3, DamagedFewer
    <3> QED BY <1>1, <2>1, <3>1, <3>4, FewerKeeps
  <2>6. CASE PressAbort(RxByte("brk"), TxByte("brk"))
    <3>1. /\ RxByte("brk") \in RxItem /\ RxByte("brk").type = "brk"
          /\ TxByte("brk") \in TxItem /\ TxByte("brk").type = "brk"
      BY ByteTypes
    <3>2. /\ LiveKept(Send(toRx, RxByte("brk")), toRx)
          /\ PacketsKept(Send(toRx, RxByte("brk")), toRx)
      BY <1>1, <3>1, SendKeeps
    <3>3. /\ LiveKept(Send(toTx, TxByte("brk")), toTx)
          /\ AcksKept(Send(toTx, TxByte("brk")), toTx)
      BY <1>1, <3>1, SendKeeps
    <3> QED BY <2>1, <2>6, <3>2, <3>3 DEF PressAbort
  <2> QED BY <2>2, <2>3, <2>4, <2>5, <2>6 DEF Line, XmodemLineNext, LineNext
<1>3. OneInFlight'
  <2>1. /\ Silent(toRx) => Silent(toRx)'
        /\ OneLive(toRx) => OneLive(toRx)'
        /\ Silent(toTx) => Silent(toTx)'
        /\ OneLive(toTx) => OneLive(toTx)'
    BY <1>2 DEF LiveKept, Silent, OneLive
  <2> QED BY <1>1, <2>1, Zenon DEF TimelyInv, OneInFlight, rxDone, txDone
<1> QED BY <1>1, <1>2, <1>3, TimelyQuiet

\* The receiver reads the item in flight and sends one answer: the answer is
\* now in flight.
LEMMA RxAnswers ==
  ASSUME IInv, TimelyInv, ~ rxDone, toRx # <<>>, Head(toRx).type # "brk",
         toRx' = Tail(toRx) \/ toRx' \in Purged(Tail(toRx)),
         NEW b \in TxItem, toTx' = Send(toTx, b), UNCHANGED txVars
  PROVE  /\ PacketsKept(toRx', toRx)
         /\ OneInFlight'
         /\ ~ txDone /\ txPhase # "eot" => Silent(toTx)
<1>1. toRx \in Seq(RxItem) /\ toTx \in Seq(TxItem)
  BY TimelyTypes
<1>2. /\ Tail(toRx) \in Seq(RxItem)
      /\ LiveKept(Tail(toRx), toRx) /\ PacketsKept(Tail(toRx), toRx)
      /\ OneLive(toRx) => Silent(Tail(toRx))
  BY <1>1, TailFewer, FewerKeeps
<1>3. /\ LiveKept(toRx', Tail(toRx))
      /\ PacketsKept(toRx', Tail(toRx))
  <2>1. CASE toRx' = Tail(toRx)
    BY <2>1 DEF LiveKept, PacketsKept
  <2>2. CASE toRx' \in Purged(Tail(toRx))
    BY <1>2, <2>2, PurgedFewer, FewerKeeps
  <2> QED BY <2>1, <2>2
<1>4. PacketsKept(toRx', toRx)
  BY <1>2, <1>3 DEF PacketsKept
<1>5. ~ Silent(toRx)
  <2>1. 1 \in 1 .. Len(toRx) /\ Head(toRx) = toRx[1]
    BY <1>1
  <2> QED BY <2>1 DEF Silent
<1>6. ~ txDone /\ txPhase # "eot" => OneLive(toRx) /\ Silent(toTx)
  BY <1>5 DEF TimelyInv, OneInFlight
<1>7. ~ txDone /\ txPhase # "eot" =>
         Silent(toRx') /\ OneLive(toRx') /\ OneLive(toTx')
  <2>1. SUFFICES ASSUME ~ txDone, txPhase # "eot"
                 PROVE  Silent(toRx') /\ OneLive(toRx') /\ OneLive(toTx')
    OBVIOUS
  <2>2. Silent(toRx')
    BY <1>2, <1>3, <1>6, <2>1 DEF LiveKept
  <2>3. OneLive(toRx')
    BY <2>2 DEF Silent, OneLive
  <2>4. OneLive(toTx')
    BY <1>1, <1>6, <2>1, SendKeeps
  <2> QED BY <2>2, <2>3, <2>4
<1>8. OneInFlight'
  <2>1. UNCHANGED <<txStatus, txPhase>>
    BY DEF txVars
  <2>2. /\ Silent(toRx') => Silent(toRx)'
        /\ OneLive(toRx') => OneLive(toRx)'
        /\ OneLive(toTx') => OneLive(toTx)'
    BY DEF Silent, OneLive
  <2> QED BY <1>7, <2>1, <2>2, Zenon DEF OneInFlight, txDone
<1> QED BY <1>4, <1>6, <1>8

\* A call of the receiver that returns leaves nothing to read but what was
\* sent before, and at most CANs.
LEMMA RxFails ==
  ASSUME IInv, TimelyInv, ~ rxDone, UNCHANGED txVars, rxDone',
         UNCHANGED rxFile,
         toTx' \in {toTx, Send(toTx, TxByte("can")),
                    SendTwice(toTx, TxByte("can"))}
  PROVE  TimelyInv'
<1>1. toTx \in Seq(TxItem)
  BY TimelyTypes
<1>2. TxByte("can") \in TxItem /\ TxByte("can").type = "can"
  BY ByteTypes
<1>3. \A q \in Seq(TxItem) : /\ Send(q, TxByte("can")) \in Seq(TxItem)
                             /\ AcksKept(Send(q, TxByte("can")), q)
  BY <1>2, SendKeeps
<1>4. AcksKept(toTx', toTx)
  BY <1>1, <1>3 DEF SendTwice, AcksKept
<1>5. OneInFlight'
  BY DEF OneInFlight
<1>6. UNCHANGED <<txPhase, txBlock, txStatus>>
  BY DEF txVars
<1> QED BY <1>4, <1>5, <1>6, TimelyQuiet

\* The receive steps that store nothing and acknowledge nothing.
LEMMA RxQuietTimely ==
  ASSUME Timely, IInv, TimelyInv, UNCHANGED txVars,
         \/ RxTimeout(txDone) \/ RxAbortKey \/ RxCan \/ RxJunk
         \/ RxReject \/ RxStoreFails \/ RxSequence
  PROVE  TimelyInv'
<1>1. /\ toRx \in Seq(RxItem) /\ toTx \in Seq(TxItem)
      /\ UNCHANGED <<rxFile, txPhase, txBlock, txStatus>>
      /\ ~ rxDone
  BY TimelyTypes
  DEF txVars, RxTimeout, RxAbortKey, RxCan, RxJunk, RxReject, RxStoreFails,
      RxSequence, RxReturn, RxValid, RxHas, rxDone
<1>2. /\ TxByte("nak") \in TxItem /\ TxByte("nak").type = "nak"
      /\ TxByte("c") \in TxItem /\ TxByte("c").type = "c"
  BY ByteTypes
<1>3. CASE RxTimeout(txDone)
  <2>1. CASE rxStatus' = "TIMEOUT" /\ toTx' = SendTwice(toTx, TxByte("can"))
    BY <1>1, <2>1, RxFails DEF rxDone
  <2>2. CASE /\ rxStatus' = rxStatus
             /\ \E b \in {"nak", "c"} : toTx' = Send(toTx, TxByte(b))
    <3>1. PICK b \in {"nak", "c"} : toTx' = Send(toTx, TxByte(b))
      BY <2>2
    <3>2. /\ toRx' = toRx /\ Silent(toRx)
          /\ txDone \/ Silent(toTx)
      BY <1>1, <1>3, SilentNone DEF RxTimeout, MayTimeOut
    <3>3. TxByte(b) \in TxItem /\ TxByte(b).type # "ack"
      BY <1>2
    <3>4. AcksKept(toTx', toTx) /\ (Silent(toTx) => OneLive(toTx'))
      BY <1>1, <3>1, <3>3, SendKeeps
    <3>5. PacketsKept(toRx', toRx) /\ OneLive(toRx)
      BY <1>1, <3>2, SilentNone DEF PacketsKept
    <3>6. OneInFlight'
      <4>1. /\ OneLive(toTx') => OneLive(toTx)'
            /\ Silent(toRx)' /\ OneLive(toRx)'
        BY <3>2, <3>5 DEF Silent, OneLive
      <4> QED BY <1>1, <3>2, <3>4, <4>1, Zenon DEF OneInFlight, txDone
    <3> QED BY <1>1, <2>2, <3>4, <3>5, <3>6, TimelyQuiet
  <2> QED BY <1>3, <2>1, <2>2 DEF RxTimeout, RxReturn, Request
<1>4. CASE RxJunk \/ RxReject
  <2>1. CASE rxStatus' = "ERROR" /\ toTx' = Send(toTx, TxByte("can"))
    BY <1>1, <2>1, RxFails DEF rxDone
  <2>2. CASE rxStatus' = rxStatus /\ toTx' = Send(toTx, TxByte("nak"))
    <3>1. /\ toRx # <<>> /\ Head(toRx).type # "brk"
          /\ toRx' \in Purged(Tail(toRx))
      BY <1>4 DEF RxJunk, RxReject, RxHas
    <3>2. PacketsKept(toRx', toRx) /\ OneInFlight'
      BY <1>1, <1>2, <2>2, <3>1, RxAnswers
    <3>3. AcksKept(toTx', toTx)
      BY <1>1, <1>2, <2>2, SendKeeps
    <3> QED BY <1>1, <2>2, <3>2, <3>3, TimelyQuiet
  <2> QED BY <1>4, <2>1, <2>2 DEF RxJunk, RxReject, RxReturn
<1>5. CASE RxAbortKey \/ RxCan \/ RxStoreFails \/ RxSequence
  <2>1. /\ rxStatus' \in {"CANCEL", "IO", "SEQUENCE"}
        /\ toTx' \in {toTx, SendTwice(toTx, TxByte("can"))}
    BY <1>5 DEF RxAbortKey, RxCan, RxStoreFails, RxSequence, RxReturn
  <2> QED BY <1>1, <2>1, RxFails DEF rxDone
<1> QED BY <1>3, <1>4, <1>5

\* EOT ends the file: the whole of it is stored, and the ACK is for EOT.
LEMMA RxEotTimely ==
  ASSUME IInv, TimelyInv, UNCHANGED txVars, RxEot
  PROVE  TimelyInv'
<1>1. /\ toRx \in Seq(RxItem) /\ toRx # <<>> /\ toRx[1].type = "eot"
      /\ 1 \in 1 .. Len(toRx)
      /\ rxStatus' = "OK"
      /\ UNCHANGED <<rxFile, txPhase, txBlock, txStatus>>
  BY TimelyTypes DEF RxEot, RxHas, RxReturn, txVars
<1>2. txPhase = "eot"
  BY <1>1 DEF IInv, PacketsInOrder
<1>3. OneInFlight' /\ PacketsAreCurrent' /\ AcksAreCurrent'
  BY <1>1, <1>2 DEF OneInFlight, PacketsAreCurrent, AcksAreCurrent, rxDone
<1>4. InStep'
  <2>1. txDone' = txDone
    BY <1>1 DEF txDone
  <2> QED BY <1>1, <1>2, <2>1 DEF TimelyInv, InStep
<1> QED BY <1>3, <1>4 DEF TimelyInv

\* A packet that is a repetition or the next block is the block being sent.
LEMMA HeadIsCurrent ==
  ASSUME IInv, TimelyInv, RxValid
  PROVE  /\ Head(toRx).idx = txBlock
         /\ txPhase = "data" /\ txBlock <= NBlocks
<1>1. /\ toRx \in Seq(RxItem) /\ toRx # <<>> /\ 1 \in 1 .. Len(toRx)
      /\ Head(toRx) = toRx[1] /\ toRx[1].type = "blk"
      /\ ~ rxDone
  BY TimelyTypes DEF RxValid, RxHas, rxDone
<1>2. ~ None(toRx, "blk")
  BY <1>1 DEF None
<1> QED BY <1>1, <1>2 DEF TimelyInv, PacketsAreCurrent, Current

\* Which block that is: neighbours have different numbers.
LEMMA WhichBlock ==
  ASSUME IInv, TimelyInv, RxValid
  PROVE  /\ IsExpected(Head(toRx)) => Len(rxFile) + 1 = txBlock
         /\ IsDuplicate(Head(toRx)) => Len(rxFile) = txBlock
<1> DEFINE a == Len(rxFile)
<1>1. /\ Head(toRx).idx = txBlock
      /\ a \in Nat /\ txBlock \in Nat
      /\ a + 1 = txBlock \/ a = txBlock
  <2>1. /\ Head(toRx).idx = txBlock /\ txPhase = "data"
        /\ a \in Nat /\ txBlock \in Nat
    BY HeadIsCurrent, TimelyTypes
  <2>2. a \in {txBlock - 1, txBlock}
    BY <2>1 DEF TimelyInv, InStep
  <2> HIDE DEF a
  <2>3. a + 1 = txBlock \/ a = txBlock
    BY <2>1, <2>2
  <2> QED BY <2>1, <2>3
<1>2. /\ IsExpected(Head(toRx)) => txBlock % BlockMod = (a + 1) % BlockMod
      /\ IsDuplicate(Head(toRx)) => txBlock % BlockMod = a % BlockMod
  BY <1>1 DEF IsExpected, Expected, IsDuplicate, BlockNum
<1> HIDE DEF a
<1>3. a % BlockMod # (a + 1) % BlockMod
  <2>1. /\ a \in Int /\ a + 1 \in Int /\ BlockMod \in Nat \ {0}
        /\ a <= a + 1 /\ a + 1 < a + BlockMod /\ a # a + 1
    BY <1>1, XmodemAssumption
  <2> QED BY <2>1, ModGap
<1>4. /\ IsExpected(Head(toRx)) => a + 1 = txBlock
      /\ IsDuplicate(Head(toRx)) => a = txBlock
  BY <1>1, <1>2, <1>3
<1> QED BY <1>4 DEF a

\* The two answers that acknowledge a block leave the only ACK in flight.
LEMMA RxAckTimely ==
  ASSUME IInv, TimelyInv, UNCHANGED txVars, RxValid,
         NEW n \in Nat, toTx' = Send(toTx, Ack(n)), UNCHANGED rxStatus,
         Len(rxFile') = txBlock,
         \A i \in 1 .. Len(rxFile') : rxFile'[i] = i
  PROVE  TimelyInv'
<1>1. /\ toRx \in Seq(RxItem) /\ toTx \in Seq(TxItem)
      /\ toRx # <<>> /\ Head(toRx).type # "brk" /\ toRx' = Tail(toRx)
      /\ ~ rxDone /\ txBlock \in Nat
      /\ UNCHANGED <<txPhase, txBlock, txStatus>>
  BY TimelyTypes DEF RxValid, RxHas, rxDone, txVars
<1>2. Ack(n) \in TxItem
  BY ByteTypes
<1>3. txPhase = "data" /\ txBlock <= NBlocks
  BY HeadIsCurrent
<1>4. /\ PacketsKept(toRx', toRx) /\ OneInFlight'
      /\ ~ txDone => Silent(toTx)
  BY <1>1, <1>2, <1>3, RxAnswers
<1>5. PacketsAreCurrent'
  <2>1. Current(toRx, txBlock)
    BY <1>1, SilentNone DEF TimelyInv, PacketsAreCurrent
  <2>2. Current(toRx', txBlock)
    BY <1>1, <1>4, <2>1 DEF PacketsKept
  <2> QED BY <1>1, <1>3, <2>2 DEF PacketsAreCurrent, Current
<1>6. AcksAreCurrent'
  <2>1. ~ txDone => OneAck(toTx')
    BY <1>1, <1>2, <1>4, SilentNone, SendKeeps
  <2> QED BY <1>1, <1>3, <2>1 DEF AcksAreCurrent, OneAck, txDone
<1>7. InStep'
  <2>1. txStatus' = "OK" => rxStatus' = "OK"
    BY <1>1 DEF TimelyInv, InStep
  <2>2. Len(rxFile') \in {txBlock - 1, txBlock}
    OBVIOUS
  <2> QED BY <1>1, <1>3, <2>1, <2>2 DEF InStep
<1> QED BY <1>4, <1>5, <1>6, <1>7 DEF TimelyInv

\* The block that is stored is the next one, and its ACK answers it.
LEMMA RxAcceptTimely ==
  ASSUME IInv, TimelyInv, UNCHANGED txVars, RxAccept
  PROVE  /\ TimelyInv'
         /\ Len(rxFile) < NBlocks
         /\ rxFile' = Append(rxFile, Len(rxFile) + 1)
<1>1. /\ RxValid /\ rxFile' = Append(rxFile, Head(toRx).idx)
      /\ toTx' = Send(toTx, Ack(Len(rxFile) + 1 + dups))
      /\ UNCHANGED rxStatus
      /\ rxFile \in Seq(Nat) /\ Len(rxFile) \in Nat /\ dups \in Nat
      /\ txBlock \in Nat /\ NBlocks \in Nat
  BY TimelyTypes DEF RxAccept
<1>2. /\ Len(rxFile) + 1 = txBlock /\ txBlock <= NBlocks
      /\ Head(toRx).idx = txBlock
  BY <1>1, HeadIsCurrent, WhichBlock DEF RxAccept
<1>3. rxFile' = Append(rxFile, txBlock)
  BY <1>1, <1>2
<1>4. \A i \in 1 .. Len(rxFile) : rxFile[i] = i
  BY DEF TimelyInv, InStep
<1>5. /\ Len(rxFile') = Len(rxFile) + 1
      /\ \A i \in 1 .. Len(rxFile') :
            rxFile'[i] = IF i <= Len(rxFile) THEN rxFile[i] ELSE txBlock
  BY <1>1, <1>3
<1>6. Len(rxFile') = txBlock /\ \A i \in 1 .. Len(rxFile') : rxFile'[i] = i
  BY <1>1, <1>2, <1>4, <1>5
<1>7. Len(rxFile) + 1 + dups \in Nat
  BY <1>1
<1>8. TimelyInv'
  BY <1>1, <1>6, <1>7, RxAckTimely
<1> QED BY <1>1, <1>2, <1>3, <1>8

LEMMA RxDuplicateTimely ==
  ASSUME IInv, TimelyInv, UNCHANGED txVars, RxDuplicate
  PROVE  TimelyInv'
<1>1. /\ RxValid /\ UNCHANGED <<rxFile, rxStatus>>
      /\ toTx' = Send(toTx, Ack(Len(rxFile) + dups + 1))
      /\ Len(rxFile) \in Nat /\ dups \in Nat
  BY TimelyTypes DEF RxDuplicate
<1>2. Len(rxFile) = txBlock
  BY <1>1, WhichBlock DEF RxDuplicate
<1>3. \A i \in 1 .. Len(rxFile) : rxFile[i] = i
  BY DEF TimelyInv, InStep
<1>4. Len(rxFile) + dups + 1 \in Nat
  BY <1>1
<1> QED BY <1>1, <1>2, <1>3, <1>4, RxAckTimely

\* The transmitter reads the item in flight outside the EOT phase and sends
\* at most one: that one is now in flight.
LEMMA TxAnswers ==
  ASSUME IInv, TimelyInv, ~ txDone, txPhase # "eot",
         toTx # <<>>, Head(toTx).type # "brk", toTx' = Tail(toTx),
         NEW b \in RxItem, toRx' = Send(toRx, b) \/ toRx' = toRx,
         UNCHANGED rxVars
  PROVE  /\ AcksKept(toTx', toTx)
         /\ OneInFlight'
         /\ ~ rxDone => Silent(toRx)
<1>1. toRx \in Seq(RxItem) /\ toTx \in Seq(TxItem)
  BY TimelyTypes
<1>2. /\ LiveKept(toTx', toTx) /\ AcksKept(toTx', toTx)
      /\ OneLive(toTx) => Silent(toTx')
  BY <1>1, TailFewer, FewerKeeps
<1>3. ~ Silent(toTx)
  <2>1. 1 \in 1 .. Len(toTx) /\ Head(toTx) = toTx[1]
    BY <1>1
  <2> QED BY <2>1 DEF Silent
<1>4. ~ rxDone => OneLive(toTx) /\ Silent(toRx)
  BY <1>3 DEF TimelyInv, OneInFlight
<1>5. ~ rxDone => Silent(toTx') /\ OneLive(toTx') /\ OneLive(toRx')
  <2>1. SUFFICES ASSUME ~ rxDone
                 PROVE  Silent(toTx') /\ OneLive(toTx') /\ OneLive(toRx')
    OBVIOUS
  <2>2. Silent(toTx')
    BY <1>2, <1>4, <2>1
  <2>3. OneLive(toTx')
    BY <2>2 DEF Silent, OneLive
  <2>4. OneLive(Send(toRx, b)) /\ OneLive(toRx)
    BY <1>1, <1>4, <2>1, SendKeeps, SilentNone
  <2> QED BY <2>2, <2>3, <2>4
<1>6. OneInFlight'
  <2>1. UNCHANGED rxStatus
    BY DEF rxVars
  <2>2. /\ Silent(toTx') => Silent(toTx)'
        /\ OneLive(toTx') => OneLive(toTx)'
        /\ OneLive(toRx') => OneLive(toRx)'
    BY DEF Silent, OneLive
  <2> QED BY <1>5, <2>1, <2>2, Zenon DEF OneInFlight, rxDone
<1> QED BY <1>2, <1>4, <1>6

\* A call of the transmitter that fails leaves no packet that it did not send
\* before.
LEMMA TxFails ==
  ASSUME IInv, TimelyInv, ~ txDone, UNCHANGED <<rxVars, txPhase, txBlock>>,
         txStatus' \in Status \ {"RUN", "OK"},
         toRx' \in {toRx, Send(toRx, RxByte("can")),
                    SendTwice(toRx, RxByte("can"))}
  PROVE  TimelyInv'
<1>1. toRx \in Seq(RxItem)
  BY TimelyTypes
<1>2. RxByte("can") \in RxItem /\ RxByte("can").type = "can"
  BY ByteTypes
<1>3. \A q \in Seq(RxItem) : /\ Send(q, RxByte("can")) \in Seq(RxItem)
                             /\ PacketsKept(Send(q, RxByte("can")), q)
  BY <1>2, SendKeeps
<1>4. PacketsKept(toRx', toRx)
  BY <1>1, <1>3 DEF SendTwice, PacketsKept
<1>5. txDone' /\ OneInFlight'
  BY DEF OneInFlight, txDone
<1>6. UNCHANGED <<rxFile, rxStatus>>
  BY DEF rxVars
<1> QED BY <1>4, <1>5, <1>6, TimelyQuiet

\* The data loop goes on with the next block when the one before is stored.
LEMMA TxContinueTimely ==
  ASSUME KnownLength, IInv, TimelyInv, ~ txDone, txPhase \in {"start", "data"},
         toTx # <<>>, Head(toTx).type # "brk", toTx' = Tail(toTx),
         NEW k \in Nat, NEW crc \in BOOLEAN, TxContinue(k, crc),
         UNCHANGED rxVars, None(toTx', "ack"),
         txPhase = "start" => k = 1,
         Len(rxFile) = k - 1
  PROVE  TimelyInv'
<1>1. /\ toRx \in Seq(RxItem) /\ toTx \in Seq(TxItem) /\ txBlock \in Nat
      /\ NBlocks \in Nat /\ NBlocks # 0 /\ Len(rxFile) \in Nat
      /\ txPhase # "eot"
      /\ UNCHANGED <<rxFile, rxStatus>>
  BY TimelyTypes, XmodemAssumption DEF rxVars
<1>2. /\ RxByte("can") \in RxItem /\ RxByte("can").type = "can"
      /\ RxByte("eot") \in RxItem /\ RxByte("eot").type = "eot"
      /\ Packet(k, Chk(crc)) \in RxItem
      /\ Packet(k, Chk(crc)).idx = k
  BY ByteTypes DEF Chk, CheckKind
<1>3. txBlock' = k
  BY DEF TxContinue
<1>4. AcksAreCurrent'
  BY DEF AcksAreCurrent, None
<1>5. txStatus # "OK" /\ Len(rxFile) <= NBlocks
      /\ \A i \in 1 .. Len(rxFile) : rxFile[i] = i
  BY DEF TimelyInv, InStep, txDone
<1>6. txPhase = "data" => Len(rxFile) \in {txBlock - 1, txBlock}
  BY DEF TimelyInv, InStep
<1>7. ~ rxDone => None(toRx, "blk")
  <2>1. \A b \in RxItem : toRx' = Send(toRx, b) => (~ rxDone => Silent(toRx))
    BY <1>1, TxAnswers
  <2>2. \E b \in RxItem : toRx' = Send(toRx, b)
    BY <1>2 DEF TxContinue, TxReturn
  <2>3. ~ rxDone => Silent(toRx)
    BY <2>1, <2>2
  <2> QED BY <1>1, <2>3, SilentNone
<1>8. CASE toRx' = Send(toRx, RxByte("can")) /\ txStatus' \in {"IO", "TIMEOUT"}
           /\ UNCHANGED txPhase
  <2>1. OneInFlight'
    BY <1>8 DEF OneInFlight, txDone
  <2>2. PacketsAreCurrent'
    <3>1. ~ rxDone => None(toRx', "blk")
      BY <1>1, <1>2, <1>7, <1>8, SendKeeps DEF PacketsKept
    <3> QED BY <1>1, <3>1 DEF PacketsAreCurrent, None, rxDone
  <2>3. InStep'
    <3>1. Len(rxFile) \in {k - 1, k}
      OBVIOUS
    <3> QED BY <1>1, <1>3, <1>5, <1>8, <3>1 DEF InStep, txDone
  <2> QED BY <1>4, <2>1, <2>2, <2>3 DEF TimelyInv
<1>9. CASE /\ toRx' = Send(toRx, Packet(k, Chk(crc))) /\ txPhase' = "data"
           /\ UNCHANGED txStatus /\ k <= NBlocks
  <2>1. OneInFlight'
    BY <1>1, <1>2, <1>9, TxAnswers
  <2>2. PacketsAreCurrent'
    <3>1. ~ rxDone => Current(toRx', k)
      BY <1>1, <1>2, <1>7, <1>9, SilentNone, SendKeeps
    <3> QED BY <1>1, <1>3, <1>9, <3>1 DEF PacketsAreCurrent, Current, rxDone
  <2>3. InStep'
    <3>1. Len(rxFile) \in {k - 1, k}
      OBVIOUS
    <3> QED BY <1>1, <1>3, <1>5, <1>9, <3>1 DEF InStep, txDone
  <2> QED BY <1>4, <2>1, <2>2, <2>3 DEF TimelyInv
<1>10. CASE /\ toRx' = Send(toRx, RxByte("eot")) /\ txPhase' = "eot"
            /\ UNCHANGED txStatus /\ ~ (k <= NBlocks)
  <2>1. OneInFlight'
    BY <1>10 DEF OneInFlight
  <2>2. PacketsAreCurrent'
    <3>1. ~ rxDone => None(toRx', "blk")
      BY <1>1, <1>2, <1>7, <1>10, SendKeeps DEF PacketsKept
    <3> QED BY <1>1, <3>1 DEF PacketsAreCurrent, None, rxDone
  <2>3. InStep'
    <3>1. Len(rxFile) = NBlocks
      <4> DEFINE a == Len(rxFile)
      <4>1. a \in Nat /\ a = k - 1 /\ a <= NBlocks
        BY <1>1, <1>5
      <4> HIDE DEF a
      <4>2. a = NBlocks
        BY <1>1, <1>10, <4>1
      <4> QED BY <4>2 DEF a
    <3> QED BY <1>1, <1>3, <1>5, <1>10, <3>1 DEF InStep, txDone
  <2> QED BY <1>4, <2>1, <2>2, <2>3 DEF TimelyInv
<1> QED BY <1>8, <1>9, <1>10 DEF TxContinue, TxReturn, MoreData

\* Every step of the transmitter keeps the dialogue.
LEMMA TxTimely ==
  ASSUME Timely, KnownLength, IInv, TimelyInv, UNCHANGED rxVars,
         TxStep(rxDone)
  PROVE  TimelyInv'
<1>1. /\ toRx \in Seq(RxItem) /\ toTx \in Seq(TxItem) /\ txBlock \in Nat
      /\ Len(rxFile) \in Nat
      /\ UNCHANGED <<rxFile, rxStatus>>
      /\ ~ txDone
  BY TimelyTypes
  DEF rxVars, txDone, TxStep, TxStart, TxStartCan, TxStartRetry, TxAcked,
      TxCancelled, TxAbortKey, TxResend, TxEotAcked, TxEotRetry, TxUseless,
      TxReads, TxAt
<1>2. toTx # <<>> => /\ LiveKept(Tail(toTx), toTx) /\ AcksKept(Tail(toTx), toTx)
                     /\ OneAck(toTx) /\ Head(toTx).type = "ack"
                           => None(Tail(toTx), "ack")
  BY <1>1, TailFewer, FewerKeeps
<1>3. /\ toRx' = toRx => LiveKept(toRx', toRx) /\ PacketsKept(toRx', toRx)
      /\ toTx' = toTx => LiveKept(toTx', toTx) /\ AcksKept(toTx', toTx)
  BY DEF LiveKept, PacketsKept, AcksKept
<1>4. toTx' = Tail(toTx) /\ toTx # <<>> => AcksKept(toTx', toTx)
  BY <1>2
<1>5. CASE TxStart
  <2>1. /\ toTx # <<>> /\ Head(toTx).type \in {"c", "nak"} /\ txPhase = "start"
        /\ toTx' = Tail(toTx) /\ TxContinue(1, Head(toTx).type = "c")
    BY <1>5 DEF TxStart, TxReads, TxAt
  <2>2. Len(rxFile) = 0
    BY <2>1, TimelyTypes
  <2>3. None(toTx, "ack")
    BY <1>1, <2>1 DEF TimelyInv, AcksAreCurrent
  <2>4. None(toTx', "ack")
    BY <1>4, <2>1, <2>3 DEF AcksKept
  <2> DEFINE crc == (Head(toTx).type = "c")
  <2>5. crc \in BOOLEAN /\ TxContinue(1, crc)
    BY <2>1
  <2> HIDE DEF crc
  <2>6. Len(rxFile) = 1 - 1 /\ 1 \in Nat /\ Head(toTx).type # "brk"
    BY <2>1, <2>2
  <2> QED BY <1>1, <2>1, <2>4, <2>5, <2>6, TxContinueTimely
<1>6. CASE TxAcked
  <2>1. /\ toTx # <<>> /\ Head(toTx).type = "ack" /\ txPhase = "data"
        /\ toTx' = Tail(toTx) /\ TxContinue(txBlock + 1, txCrc)
    BY <1>6 DEF TxAcked, TxReads, TxAt
  <2>2. 1 \in 1 .. Len(toTx) /\ toTx[1].type = "ack"
    BY <1>1, <2>1
  <2>3. Len(rxFile) = txBlock /\ OneAck(toTx)
    BY <1>1, <2>1, <2>2 DEF TimelyInv, AcksAreCurrent, None
  <2>4. None(toTx', "ack")
    BY <1>2, <2>1, <2>3
  <2>5. txBlock + 1 \in Nat /\ Len(rxFile) = (txBlock + 1) - 1
    BY <1>1, <2>3
  <2>6. txCrc \in BOOLEAN
    BY DEF IInv, TypeOK, TxTypeOK
  <2> DEFINE k == txBlock + 1
  <2>7. k \in Nat /\ Len(rxFile) = k - 1 /\ TxContinue(k, txCrc)
    BY <2>1, <2>5
  <2> HIDE DEF k
  <2>8. Head(toTx).type # "brk" /\ txPhase # "start"
    BY <2>1
  <2> QED BY <1>1, <2>1, <2>4, <2>6, <2>7, <2>8, TxContinueTimely
<1>7. CASE TxStartCan \/ TxCancelled \/ TxAbortKey
  <2>1. /\ txStatus' = "CANCEL"
        /\ UNCHANGED <<txPhase, txBlock>>
        /\ toRx' \in {toRx, SendTwice(toRx, RxByte("can"))}
    BY <1>7 DEF TxStartCan, TxCancelled, TxAbortKey, TxReturn
  <2> QED BY <1>1, <2>1, TxFails DEF Status
<1>8. CASE TxEotAcked
  <2>1. /\ toTx # <<>> /\ Head(toTx).type = "ack" /\ txPhase = "eot"
        /\ txStatus' = "OK"
        /\ UNCHANGED <<txPhase, txBlock, toRx>>
    BY <1>8 DEF TxEotAcked, TxReads, TxAt, TxReturn
  <2>2. 1 \in 1 .. Len(toTx) /\ toTx[1].type = "ack"
    BY <1>1, <2>1
  <2>3. rxStatus = "OK"
    BY <1>1, <2>1, <2>2 DEF TimelyInv, AcksAreCurrent, None
  <2>4. OneInFlight' /\ PacketsAreCurrent' /\ AcksAreCurrent'
    BY <1>1, <2>1, <2>3
    DEF OneInFlight, PacketsAreCurrent, AcksAreCurrent, rxDone, txDone
  <2>5. InStep'
    BY <1>1, <2>1, <2>3 DEF TimelyInv, InStep, txDone
  <2> QED BY <2>4, <2>5 DEF TimelyInv
<1>9. CASE TxStartRetry(rxDone)
  <2>1. /\ txPhase = "start" /\ toRx' = toRx
        /\ txStatus' \in {txStatus, "TIMEOUT"}
        /\ UNCHANGED <<txPhase, txBlock>>
        /\ \/ toTx # <<>> /\ toTx' = Tail(toTx)
           \/ toTx' = toTx
    BY <1>9 DEF TxStartRetry, TxUseless, TxReads, TxAt, TxReturn
  <2>2. AcksKept(toTx', toTx) /\ LiveKept(toTx', toTx)
    BY <1>2, <1>3, <2>1
  <2>3. OneInFlight'
    <3>1. /\ Silent(toTx) => Silent(toTx)'
          /\ OneLive(toTx) => OneLive(toTx)'
          /\ Silent(toRx) => Silent(toRx)'
          /\ OneLive(toRx) => OneLive(toRx)'
      BY <2>1, <2>2 DEF LiveKept, Silent, OneLive
    <3> QED BY <1>1, <2>1, <3>1, Zenon
            DEF TimelyInv, OneInFlight, rxDone, txDone
  <2> QED BY <1>1, <1>3, <2>1, <2>2, <2>3, TimelyQuiet
<1>10. CASE TxResend(rxDone)
  <2>1. /\ txPhase = "data" /\ UNCHANGED <<txPhase, txBlock>>
    BY <1>10 DEF TxResend, TxUseless, TxReads, TxAt, TxReturn
  <2>2. CASE txStatus' = "TIMEOUT" /\ toRx' = Send(toRx, RxByte("can"))
    BY <1>1, <2>1, <2>2, TxFails DEF Status
  <2>3. CASE /\ txStatus' = txStatus
             /\ toRx' = Send(toRx, Packet(txBlock, Chk(txCrc)))
    <3> DEFINE b == Packet(txBlock, Chk(txCrc))
    <3>1. b \in RxItem /\ b.idx = txBlock
      BY <1>1, ByteTypes DEF Chk, CheckKind
    <3> HIDE DEF b
    <3>2. toRx' = Send(toRx, b)
      BY <2>3 DEF b
    <3>3. OneInFlight' /\ AcksKept(toTx', toTx)
      <4>1. CASE TxReads("data", {"nak", "c", "junk"})
        <5>1. /\ toTx # <<>> /\ Head(toTx).type # "brk" /\ toTx' = Tail(toTx)
          BY <4>1 DEF TxReads
        <5> QED BY <1>1, <2>1, <3>1, <3>2, <5>1, TxAnswers
      <4>2. CASE MayTimeOut(toTx, toRx, rxDone) /\ UNCHANGED toTx
        <5>1. /\ toTx' = toTx /\ toTx = <<>>
              /\ ~ rxDone => toRx = <<>>
          BY <4>2 DEF MayTimeOut
        <5>2. /\ Silent(toTx) /\ OneLive(toTx)
              /\ ~ rxDone => OneLive(toRx')
          BY <1>1, <3>1, <3>2, <5>1, SilentNone, SendKeeps
        <5>3. /\ Silent(toTx)' /\ OneLive(toTx)'
              /\ OneLive(toRx') => OneLive(toRx)'
          BY <5>1, <5>2 DEF Silent, OneLive
        <5>4. OneInFlight'
          BY <1>1, <5>2, <5>3, Zenon DEF OneInFlight, rxDone
        <5> QED BY <1>3, <5>1, <5>4
      <4> QED BY <1>10, <4>1, <4>2 DEF TxResend, TxUseless
    <3>4. PacketsAreCurrent'
      <4>1. ~ rxDone => Current(toRx, txBlock)
        BY <1>1, SilentNone DEF TimelyInv, PacketsAreCurrent
      <4>2. ~ rxDone => Current(toRx', txBlock)
        BY <1>1, <3>1, <3>2, <4>1, SendKeeps
      <4>3. txBlock <= NBlocks
        BY <1>1, <2>1 DEF TimelyInv, InStep
      <4> QED BY <1>1, <2>1, <4>2, <4>3 DEF PacketsAreCurrent, Current, rxDone
    <3>5. AcksAreCurrent'
      <4>1. None(toTx, "ack") \/ (Len(rxFile) = txBlock /\ OneAck(toTx))
        BY <1>1, <2>1 DEF TimelyInv, AcksAreCurrent
      <4>2. None(toTx', "ack") \/ (Len(rxFile) = txBlock /\ OneAck(toTx'))
        BY <3>3, <4>1 DEF AcksKept
      <4> QED BY <1>1, <2>1, <4>2 DEF AcksAreCurrent, None, OneAck
    <3>6. InStep'
      BY <1>1, <2>1, <2>3 DEF TimelyInv, InStep, txDone
    <3> QED BY <3>3, <3>4, <3>5, <3>6 DEF TimelyInv
  <2> QED BY <1>10, <2>2, <2>3 DEF TxResend, TxReturn
<1>11. CASE TxEotRetry(rxDone)
  <2>1. /\ txPhase = "eot" /\ UNCHANGED <<txPhase, txBlock>>
        /\ toRx' \in {toRx, Send(toRx, RxByte("eot"))}
        /\ txStatus' \in {txStatus, "TIMEOUT"}
        /\ \/ toTx # <<>> /\ toTx' = Tail(toTx)
           \/ toTx' = toTx
    BY <1>11 DEF TxEotRetry, TxUseless, TxReads, TxAt, TxReturn
  <2>2. AcksKept(toTx', toTx)
    BY <1>3, <1>4, <2>1
  <2>3. PacketsKept(toRx', toRx)
    <3>1. /\ RxByte("eot") \in RxItem /\ RxByte("eot").type = "eot"
      BY ByteTypes
    <3> QED BY <1>1, <1>3, <2>1, <3>1, SendKeeps
  <2>4. OneInFlight'
    BY <2>1 DEF OneInFlight
  <2> QED BY <1>1, <2>1, <2>2, <2>3, <2>4, TimelyQuiet
<1> QED BY <1>5, <1>6, <1>7, <1>8, <1>9, <1>10, <1>11 DEF TxStep

\* The dialogue begins with the receiver's request.
LEMMA InitTimely ==
  Init => TimelyInv
<1> SUFFICES ASSUME Init PROVE TimelyInv
  OBVIOUS
<1>1. /\ toRx = <<>> /\ rxFile = <<>> /\ txPhase = "start"
      /\ rxStatus = "RUN" /\ txStatus = "RUN"
      /\ toTx = <<Request(RxMode # "STANDARD")>>
  BY DEF Init, RxInit, TxInit
<1>2. /\ Len(toTx) = 1 /\ toTx[1].type # "ack"
  BY <1>1 DEF Request, TxByte
<1>3. OneInFlight /\ PacketsAreCurrent /\ AcksAreCurrent
  BY <1>1, <1>2
  DEF OneInFlight, PacketsAreCurrent, AcksAreCurrent, OneLive, Silent, None
<1>4. InStep
  BY <1>1, XmodemAssumption DEF InStep
<1> QED BY <1>3, <1>4 DEF TimelyInv

\* Every step keeps the dialogue.
LEMMA StepTimely ==
  ASSUME Timely, KnownLength
  PROVE  IInv /\ TimelyInv /\ [Next]_vars => TimelyInv'
<1> SUFFICES ASSUME IInv, TimelyInv, [Next]_vars PROVE TimelyInv'
  OBVIOUS
<1>1. CASE Rx
  BY <1>1, RxQuietTimely, RxEotTimely, RxAcceptTimely, RxDuplicateTimely
  DEF Rx, RxStep
<1>2. CASE Tx
  BY <1>2, TxTimely DEF Tx
<1>3. CASE Line
  BY <1>3, LineTimely
<1>4. CASE UNCHANGED vars
  BY <1>4
  DEF TimelyInv, OneInFlight, PacketsAreCurrent, AcksAreCurrent, InStep, rxDone,
      txDone, OneLive, Silent, None, OneAck, Current, vars, lineVars, rxVars,
      txVars
<1> QED BY <1>1, <1>2, <1>3, <1>4 DEF Next, Returned

\* Every step is a step of the abstract delivery, or changes nothing of it.
LEMMA StepDelivers ==
  IInv /\ TimelyInv /\ TimelyInv' /\ [Next]_vars
     => [Delivery!Next]_(Delivery!vars)
<1> SUFFICES ASSUME IInv, TimelyInv, TimelyInv', [Next]_vars
             PROVE  [Delivery!Next]_(Delivery!vars)
  OBVIOUS
<1> USE DEF Delivery!Next, Delivery!vars, Delivery!Deliver,
            Delivery!RxReturns, Delivery!TxReturns
<1>1. CASE Rx
  <2>1. UNCHANGED txStatus /\ rxStatus = "RUN"
    BY <1>1
    DEF Rx, txVars, RxStep, RxTimeout, RxAbortKey, RxEot, RxCan, RxJunk,
        RxReject, RxAccept, RxStoreFails, RxDuplicate, RxSequence, RxValid,
        RxHas
  <2>2. CASE RxAccept
    <3>1. /\ Len(rxFile) < NBlocks
          /\ rxFile' = Append(rxFile, Len(rxFile) + 1)
      BY <1>1, <2>2, RxAcceptTimely DEF Rx
    <3>2. UNCHANGED rxStatus
      BY <2>2 DEF RxAccept
    <3> QED BY <2>1, <3>1, <3>2
  <2>3. CASE RxEot
    <3>1. rxStatus' = "OK" /\ UNCHANGED rxFile
      BY <2>3 DEF RxEot, RxReturn
    <3>2. txPhase = "eot"
      <4>1. /\ toRx \in Seq(RxItem) /\ toRx # <<>> /\ toRx[1].type = "eot"
            /\ 1 \in 1 .. Len(toRx)
        BY <2>3, TimelyTypes DEF RxEot, RxHas
      <4> QED BY <4>1 DEF IInv, PacketsInOrder
    <3>3. Len(rxFile) = NBlocks
      BY <3>2 DEF TimelyInv, InStep
    <3> QED BY <2>1, <3>1, <3>3
  <2>4. CASE ~ RxAccept /\ ~ RxEot
    <3>1. UNCHANGED rxFile /\ rxStatus' \in Status \ {"OK"}
      BY <1>1, <2>1, <2>4
      DEF Rx, RxStep, RxTimeout, RxAbortKey, RxCan, RxJunk, RxReject,
          RxStoreFails, RxDuplicate, RxSequence, RxReturn, Status
    <3> QED BY <2>1, <3>1
  <2> QED BY <2>2, <2>3, <2>4
<1>2. CASE Tx
  <2>1. UNCHANGED <<rxFile, rxStatus>> /\ txStatus = "RUN"
    BY <1>2
    DEF Tx, rxVars, TxStep, TxStart, TxStartCan, TxStartRetry, TxAcked,
        TxCancelled, TxAbortKey, TxResend, TxEotAcked, TxEotRetry, TxUseless,
        TxReads, TxAt
  <2>2. txStatus' \in Status
    <3>1. IInv'
      BY StepIInv
    <3> QED BY <3>1 DEF IInv, TypeOK, TxTypeOK
  <2>3. txStatus' = "OK" => rxStatus = "OK"
    BY <2>1 DEF TimelyInv, InStep
  <2> QED BY <2>1, <2>2, <2>3
<1>3. CASE Line \/ UNCHANGED vars
  BY <1>3 DEF Line, vars, rxVars, txVars
<1> QED BY <1>1, <1>2, <1>3 DEF Next, Returned

\* Where the timeouts exceed every delay, one item is in flight at a time and
\* the two ends are in step, in every reachable state.
THEOREM TimelyInvariance ==
  ASSUME Timely, KnownLength
  PROVE  Spec => []TimelyInv
<1>1. Init => TimelyInv
  BY InitTimely
<1>2. IInv /\ TimelyInv /\ [Next]_vars => TimelyInv'
  BY StepTimely
<1> QED BY <1>1, <1>2, Invariance, PTL DEF Spec

\* ... and the transfer implements the safety part of the abstract delivery:
\* blocks 1 .. NBlocks are stored one after the other, the receiver succeeds
\* with the complete file only, the transmitter only after the receiver, and a
\* call that has returned does nothing more.
THEOREM DeliversFile ==
  ASSUME Timely, KnownLength
  PROVE  Spec => Delivery!Spec
<1>1. Init => Delivery!Init
  BY DEF Init, RxInit, TxInit, Delivery!Init
<1>2. IInv /\ TimelyInv /\ TimelyInv' /\ [Next]_vars
         => [Delivery!Next]_(Delivery!vars)
  BY StepDelivers
<1>3. Spec => []TimelyInv
  BY TimelyInvariance
<1> QED BY <1>1, <1>2, <1>3, Invariance, PTL DEF Spec, Delivery!Spec

\* ... and XMODEM_OK at both ends means the whole file: what the run
\* x_stale_ack refutes where a timeout may come before a late ACK.
THEOREM BothOkMeansComplete ==
  ASSUME Timely, KnownLength
  PROVE  Spec => []BothOkComplete
<1>1. IInv /\ TimelyInv => BothOkComplete
  <2> SUFFICES ASSUME IInv, TimelyInv, rxStatus = "OK"
               PROVE  Complete
    BY DEF BothOkComplete
  <2>1. txPhase = "eot" /\ rxFile \in Seq(Nat)
    BY TimelyTypes
  <2>2. Len(rxFile) = NBlocks /\ \A i \in 1 .. NBlocks : rxFile[i] = i
    BY <2>1 DEF TimelyInv, InStep
  <2>3. rxFile = [i \in 1 .. Len(rxFile) |-> rxFile[i]]
    BY <2>1
  <2> QED BY <2>2, <2>3 DEF Complete
<1>2. Spec => []TimelyInv
  BY TimelyInvariance
<1> QED BY <1>1, <1>2, Invariance, PTL

=============================================================================
