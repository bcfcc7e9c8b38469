--------------------------- MODULE TransportsProofs ---------------------------
(***************************************************************************)
(* For a ring of any size and any traffic: the ring stays a first-in       *)
(* first-out queue as long as count++ and count-- lose no update and no    *)
(* put overlaps an init.                                                   *)
(***************************************************************************)
EXTENDS Transports, SequenceTheorems, TLAPS

-----------------------------------------------------------------------------
(* Slots *)

\* Numbers that are less than a turn of the ring apart have different slots.
LEMMA SlotsDiffer ==
    ASSUME NEW i \in Nat, NEW j \in Nat, i < j, j < i + Size
    PROVE  i % Size # j % Size
<1> USE RingAssumption
<1> DEFINE p == i \div Size
           q == j \div Size
<1>1. i = Size * p + (i % Size) /\ p \in Int BY SMT
<1>2. j = Size * q + (j % Size) /\ q \in Int BY SMT
<1> SUFFICES ASSUME i % Size = j % Size PROVE FALSE
    OBVIOUS
<1>3. j - i = Size * (q - p)  BY <1>1, <1>2, SMT
<1> HIDE DEF p, q
<1>4. q - p >= 1 => Size * (q - p) >= Size  BY <1>1, <1>2, SMT
<1>5. q - p <= 0 => Size * (q - p) <= 0  BY <1>1, <1>2, SMT
<1> QED BY <1>1, <1>2, <1>3, <1>4, <1>5, SMT

\* Advancing a position by one, modulo the size, follows the number of bytes
\* that went by.
LEMMA NextSlot ==
    ASSUME NEW n \in Nat
    PROVE  Next1(n % Size) = (n + 1) % Size
<1> USE RingAssumption
<1> DEFINE p == n \div Size
           r == n % Size
           s == (n + 1) % Size
           t == (n + 1) \div Size
<1>1. n = Size * p + r /\ p \in Int /\ r \in 0 .. Size - 1 BY SMT
<1>2. n + 1 = Size * t + s /\ t \in Int /\ s \in 0 .. Size - 1 BY SMT
<1> HIDE DEF p, r, s, t
<1>3. r + 1 - s = Size * (t - p)  BY <1>1, <1>2, SMT
<1>4. t - p >= 2 => Size * (t - p) >= 2 * Size  BY <1>1, <1>2, SMT
<1>5. t - p <= -1 => Size * (t - p) <= -Size  BY <1>1, <1>2, SMT
<1>6. t - p = 0 \/ t - p = 1  BY <1>1, <1>2, <1>3, <1>4, <1>5, SMT
<1>7. CASE t - p = 0
    <2>1. s = r + 1  BY <1>1, <1>2, <1>3, <1>7, SMT
    <2>2. (r + 1) % Size = r + 1  BY <1>1, <1>2, <2>1, SMT
    <2> QED BY <2>1, <2>2 DEF r, s, Next1
<1>8. CASE t - p = 1
    <2>1. s = 0 /\ r + 1 = Size  BY <1>1, <1>2, <1>3, <1>8, SMT
    <2>2. Size % Size = 0  BY SMT
    <2> QED BY <2>1, <2>2 DEF r, s, Next1
<1> QED BY <1>6, <1>7, <1>8

\* A position is a slot.
LEMMA IsSlot ==
    ASSUME NEW n \in Nat
    PROVE  n % Size \in Slots /\ Next1(n) \in Slots
BY RingAssumption, SMT DEF Slots, Next1

-----------------------------------------------------------------------------
(* The steps of the ring *)

\* The ring is empty after initialisation.
LEMMA RingStarts == RingInit => RingInv
<1> SUFFICES ASSUME RingInit PROVE RingInv
    OBVIOUS
<1>1. 0 % Size = 0  BY RingAssumption, SMT
<1> QED
    BY <1>1, RingAssumption
    DEF RingInit, RingInv, RingTypeOK, RingBounds, IsQueue, Slots, Counting, Passing, Putting, Zeroing, Held, Late

\* Init begins with a ring nothing was put into, unless a callback is inside
\* a put.
LEMMA ResetStep == ASSUME RingInv, RingReset PROVE RingInv'
<1> USE RingAssumption
<1>1. RingTypeOK' /\ RingBounds'
    BY DEF RingReset, RingInv, RingTypeOK, RingBounds, Slots, Counting, Passing, Putting, Zeroing
<1>2. ASSUME ~ torn' PROVE IsQueue'
    <2>1. 0 % Size = 0  BY SMT
    <2>2. cbAt \notin Passing /\ cbAt' = cbAt /\ rdAt' = "zeroTail"
        BY <1>2 DEF RingReset
    <2> QED
        BY <2>1, <2>2 DEF RingReset, IsQueue, Passing, Counting, Zeroing
<1> QED
    BY <1>1, <1>2 DEF RingInv

LEMMA ZeroTailStep == ASSUME RingInv, ZeroTail PROVE RingInv'
<1> USE RingAssumption
<1>1. RingTypeOK' /\ RingBounds'
    BY DEF ZeroTail, RingInv, RingTypeOK, RingBounds, Slots, Counting, Passing, Putting,
           Zeroing, cbVars
<1>2. ASSUME ~ torn' PROVE IsQueue'
    <2>1. 0 % Size = 0  BY SMT
    <2>2. IsQueue /\ rdAt = "zeroTail" /\ rdAt' = "zeroCount"
        BY <1>2 DEF ZeroTail, RingInv
    <2> QED
        BY <2>1, <2>2 DEF ZeroTail, IsQueue, Zeroing, cbVars
<1> QED
    BY <1>1, <1>2 DEF RingInv

\* Once the count is cleared too, the ring is an empty queue.
LEMMA ZeroCountStep ==
    ASSUME RingInv, NEW next \in {"idle", "clear"}, ZeroCount(next) PROVE RingInv'
<1> USE RingAssumption
<1>1. RingTypeOK' /\ RingBounds'
    <2>1. /\ rdAt' = next /\ count' = 0 /\ UNCHANGED <<buf, torn, tail, rdCount, taken>>
          /\ UNCHANGED <<head, cbAt, cbLeft, cbHead, cbCount, arrived, overflow>>
        BY DEF ZeroCount, cbVars
    <2>2. RingTypeOK /\ RingBounds /\ Size \in Nat /\ Size > 0
        BY DEF RingInv
    <2>3. RingTypeOK'
        BY <2>1, <2>2 DEF RingTypeOK
    <2>4. RingBounds'
        BY <2>1, <2>2 DEF RingBounds, Counting
    <2> QED
        BY <2>3, <2>4
<1>2. ASSUME ~ torn' PROVE IsQueue'
    <2>1. IsQueue /\ rdAt = "zeroCount" /\ rdAt' = next /\ count' = 0
        BY <1>2 DEF ZeroCount, RingInv
    <2>2. arrived = <<>> /\ taken = <<>> /\ cbAt \notin Passing
        BY <2>1 DEF IsQueue, Zeroing
    <2> QED
        BY <2>1, <2>2
        DEF ZeroCount, IsQueue, Held, Late, Passing, Counting, Zeroing, cbVars
<1> QED
    BY <1>1, <1>2 DEF RingInv

\* The callback takes its next byte, or returns.
LEMMA CbNextTypes ==
    ASSUME cbLeft \in Seq(Nat), cbLeft # <<>>, CbNext
    PROVE  /\ cbAt' \in {"idle", "test"}
           /\ cbLeft' \in Seq(Nat)
           /\ cbAt' # "idle" => cbLeft' # <<>>
<1>1. Tail(cbLeft) \in Seq(Nat) /\ Len(Tail(cbLeft)) = Len(cbLeft) - 1
    OBVIOUS
<1>2. ASSUME Len(cbLeft) > 1 PROVE Tail(cbLeft) # <<>>
    <2>1. Len(Tail(cbLeft)) # 0
        <3> DEFINE n == Len(cbLeft)
                   m == Len(Tail(cbLeft))
        <3>1. n \in Nat
            BY LenProperties
        <3>2. m = n - 1 /\ n > 1
            BY <1>1, <1>2
        <3> HIDE DEF m, n
        <3>3. m # 0
            BY <3>1, <3>2
        <3> QED
            BY <3>3 DEF m
    <2>2. Len(<<>>) = 0
        BY EmptySeq
    <2> QED
        BY <2>1, <2>2, Zenon
<1> QED
    BY <1>1, <1>2 DEF CbNext

LEMMA CbStartStep ==
    ASSUME RingInv, NEW payload \in Seq(Nat), CbStart(payload) PROVE RingInv'
BY DEF CbStart, RingInv, RingTypeOK, RingBounds, IsQueue, Held, Late, Counting, Passing, Putting, Zeroing, rdVars

LEMMA CbRoomStep == ASSUME RingInv, CbRoom PROVE RingInv'
BY DEF CbRoom, RingInv, RingTypeOK, RingBounds, IsQueue, Held, Late, Counting, Passing, Putting, Zeroing, rdVars

LEMMA CbFullStep == ASSUME RingInv, CbFull PROVE RingInv'
<1>1. cbLeft \in Seq(Nat) /\ cbLeft # <<>>
    BY DEF CbFull, RingInv, RingTypeOK, RingBounds
<1>2. /\ cbAt' \in {"idle", "test"} /\ cbLeft' \in Seq(Nat)
      /\ cbAt' # "idle" => cbLeft' # <<>>
    BY <1>1, CbNextTypes DEF CbFull
<1>3. RingTypeOK' /\ RingBounds'
    BY <1>2
    DEF CbFull, RingInv, RingTypeOK, RingBounds, Putting, Passing, Counting, rdVars
<1>4. ASSUME ~ torn' PROVE IsQueue'
    <2>1. IsQueue /\ cbAt = "test"
        BY <1>4 DEF CbFull, RingInv
    <2>2. /\ UNCHANGED <<buf, count, head, cbHead, cbCount, arrived>>
          /\ UNCHANGED <<tail, rdAt, rdCount, taken>>
        BY DEF CbFull, rdVars
    <2>3. Late(cbAt) = 0 /\ Late(cbAt') = 0 /\ cbAt' \notin Passing /\ cbAt' # "advance"
        BY <1>2, <2>1 DEF Late, Passing, Counting
    <2> QED
        BY <2>1, <2>2, <2>3 DEF IsQueue, Held
<1> QED
    BY <1>3, <1>4 DEF RingInv

\* The byte goes to a slot none of the held bytes is in.
LEMMA CbPutStep == ASSUME RingInv, CbPut PROVE RingInv'
<1> USE RingAssumption
<1>1. /\ cbLeft \in Seq(Nat) /\ cbLeft # <<>> /\ Head(cbLeft) \in Nat
      /\ arrived \in Seq(Nat) /\ taken \in Seq(Nat)
      /\ head \in Slots /\ tail \in Slots
      /\ count \in 0 .. Size /\ count < Size
      /\ rdAt \in {"take"} \cup Counting => count > 0
      /\ buf \in [Slots -> Nat]
    BY DEF CbPut, RingInv, RingTypeOK, RingBounds, Putting
<1>2. /\ arrived' = arrived /\ taken' = taken /\ head' = head /\ tail' = tail
      /\ count' = count /\ rdAt' = rdAt /\ cbLeft' = cbLeft
      /\ cbAt' = "advance" /\ cbHead' = head
    BY DEF CbPut, rdVars
<1>3. buf' = [buf EXCEPT ![head] = Head(cbLeft)] /\ buf' \in [Slots -> Nat]
    BY <1>1 DEF CbPut
<1>4. torn' \in BOOLEAN
    BY DEF CbPut
<1>5. RingTypeOK'
    BY <1>1, <1>2, <1>3, <1>4 DEF CbPut, RingInv, RingTypeOK, Putting, Passing, rdVars
<1>6. RingBounds'
    BY DEF CbPut, RingInv, RingBounds, Putting, Passing, rdVars
<1>7. ASSUME ~ torn' PROVE IsQueue'
    <2> DEFINE n == Len(arrived)
               m == Len(taken)
    <2>0. ~ torn /\ rdAt \notin Zeroing
        BY <1>7, Zenon DEF CbPut
    <2>1. /\ ~ torn /\ IsQueue /\ cbAt = "put" /\ n \in Nat /\ m \in Nat
        BY <1>1, <2>0 DEF CbPut, RingInv
    <2>2. head = n % Size
        BY <2>1 DEF IsQueue
    <2>3. count = n - m + Late(rdAt)
        BY <2>0, <2>1 DEF IsQueue, Held, Late, Counting
    <2>4. m <= n /\ n - m < Size
        BY <1>1, <2>1, <2>3 DEF Late
    <2>5. count' = Held' - Late(cbAt') + Late(rdAt')
        BY <1>2, <2>1, <2>3 DEF Held, Late, Counting
    <2>6. buf'[head] = Head(cbLeft)
        BY <1>1, <1>3
    <2>7. ASSUME NEW k \in 1 .. n, k > m
          PROVE  buf'[(k - 1) % Size] = arrived[k]
        <3>1. k - 1 \in Nat /\ k - 1 < n /\ n < (k - 1) + Size
            BY <2>1, <2>4, <2>7
        <3>2. (k - 1) % Size # head
            BY <3>1, <2>1, <2>2, SlotsDiffer
        <3>3. buf'[(k - 1) % Size] = buf[(k - 1) % Size]
            BY <3>1, <3>2, <1>1, <1>3, IsSlot
        <3>4. buf[(k - 1) % Size] = arrived[k]
            BY <2>1, <2>7 DEF IsQueue
        <3> QED
            BY <3>3, <3>4
    <2> HIDE DEF n, m
    <2> QED
        BY <1>2, <2>0, <2>1, <2>2, <2>5, <2>6, <2>7 DEF IsQueue, n, m
<1> QED
    BY <1>5, <1>6, <1>7 DEF RingInv

\* The byte that head passes is the newest of the bytes held.
LEMMA CbAdvanceStep == ASSUME RingInv, CbAdvance PROVE RingInv'
<1> USE RingAssumption
<1>1. /\ cbLeft \in Seq(Nat) /\ cbLeft # <<>> /\ Head(cbLeft) \in Nat
      /\ arrived \in Seq(Nat) /\ taken \in Seq(Nat)
      /\ {head, cbHead} \subseteq Slots
      /\ count \in 0 .. Size
    BY DEF CbAdvance, RingInv, RingTypeOK, RingBounds, Passing, Putting
<1>2. /\ arrived' = Append(arrived, Head(cbLeft))
      /\ arrived' \in Seq(Nat) /\ Len(arrived') = Len(arrived) + 1
      /\ arrived'[Len(arrived) + 1] = Head(cbLeft)
      /\ \A k \in 1 .. Len(arrived) : arrived'[k] = arrived[k]
    BY <1>1 DEF CbAdvance
<1>3. head' \in Slots
    <2>1. Next1(head) \in Slots /\ Next1(cbHead) \in Slots
        BY <1>1, IsSlot DEF Slots
    <2> QED
        BY <2>1 DEF CbAdvance
<1>4. RingTypeOK'
    BY <1>1, <1>2, <1>3
    DEF CbAdvance, RingInv, RingTypeOK, Putting, Passing, Counting, rdVars
<1>5. RingBounds'
    BY DEF CbAdvance, RingInv, RingBounds, Putting, Passing, Counting, rdVars
<1>6. ASSUME ~ torn' PROVE IsQueue'
    <2> DEFINE n == Len(arrived)
               m == Len(taken)
    <2>1. ~ torn /\ IsQueue /\ cbAt = "advance" /\ n \in Nat /\ m \in Nat
        BY <1>1, <1>6 DEF CbAdvance, RingInv
    <2>2. rdAt \notin Zeroing
        BY <2>1 DEF IsQueue, Passing
    <2>3. head = n % Size /\ cbHead = head /\ buf[head] = Head(cbLeft)
        BY <2>1 DEF IsQueue
    <2>4. count = n - m + Late(rdAt)
        BY <2>1, <2>2 DEF IsQueue, Held, Late, Counting
    <2>5. m <= n
        BY <1>1, <2>1, <2>4 DEF Late, RingInv, RingBounds
    <2>6. head' = Len(arrived') % Size
        BY <1>2, <2>1, <2>3, NextSlot DEF CbAdvance
    <2>7. count' = Held' - Late(cbAt') + Late(rdAt')
        BY <1>2, <2>1, <2>4 DEF CbAdvance, Held, Late, Counting, rdVars
    <2>8. ASSUME NEW k \in 1 .. Len(arrived'), k > m
          PROVE  buf[(k - 1) % Size] = arrived'[k]
        <3>1. CASE k = n + 1
            <4>1. (k - 1) % Size = head
                BY <2>1, <2>3, <3>1
            <4> QED
                BY <4>1, <1>2, <2>3, <3>1
        <3>2. CASE k <= n
            <4>1. k \in 1 .. n
                BY <2>1, <2>8, <3>2
            <4>2. buf[(k - 1) % Size] = arrived[k]
                BY <4>1, <2>1, <2>8 DEF IsQueue
            <4> QED
                BY <4>1, <4>2, <1>2
        <3> QED
            BY <3>1, <3>2, <1>2, <2>1, <2>8
    <2>9. \A k \in 1 .. m : k <= Len(arrived') => taken[k] = arrived'[k]
        <3> SUFFICES ASSUME NEW k \in 1 .. m PROVE taken[k] = arrived'[k]
            OBVIOUS
        <3>1. k \in 1 .. n
            BY <2>1, <2>5
        <3> QED
            BY <3>1, <1>2, <2>1 DEF IsQueue
    <2>10. /\ taken' = taken /\ tail' = tail /\ buf' = buf
           /\ rdAt' = rdAt /\ cbAt' = "load"
        BY <2>1 DEF CbAdvance, rdVars
    <2>11. rdAt' # "zeroTail" => tail' = Len(taken') % Size
        BY <2>1, <2>10 DEF IsQueue
    <2> HIDE DEF n, m
    <2> QED
        BY <2>2, <2>6, <2>7, <2>8, <2>9, <2>10, <2>11 DEF IsQueue, m
<1> QED
    BY <1>4, <1>5, <1>6 DEF RingInv

LEMMA CbLoadStep == ASSUME RingInv, CbLoad PROVE RingInv'
BY DEF CbLoad, RingInv, RingTypeOK, RingBounds, IsQueue, Held, Late, Counting, Passing, Putting, Zeroing, rdVars

LEMMA CbStoreStep == ASSUME RingInv, CbStore PROVE RingInv'
<1> USE RingAssumption
<1>1. cbLeft \in Seq(Nat) /\ cbLeft # <<>> /\ cbCount \in 0 .. Size /\ cbCount < Size
    BY DEF CbStore, RingInv, RingTypeOK, RingBounds, Putting, Passing, Counting
<1>2. /\ cbAt' \in {"idle", "test"} /\ cbLeft' \in Seq(Nat)
      /\ cbAt' # "idle" => cbLeft' # <<>>
    BY <1>1, CbNextTypes DEF CbStore
<1>3. count' = cbCount + 1 /\ count' \in 0 .. Size /\ count' > 0
    BY <1>1 DEF CbStore
<1>4. torn' \in BOOLEAN
    BY DEF CbStore
<1>5. RingTypeOK'
    BY <1>2, <1>3, <1>4 DEF CbStore, RingInv, RingTypeOK, rdVars
<1>6. RingBounds'
    BY <1>2, <1>3 DEF CbStore, RingInv, RingBounds, Putting, Passing, Counting, rdVars
<1>7. ASSUME ~ torn' PROVE IsQueue'
    <2>1. /\ ~ torn /\ cbCount = count /\ cbAt = "store" /\ IsQueue
          /\ rdAt \notin Zeroing
        BY <1>7 DEF CbStore, RingInv, IsQueue, Passing, Counting
    <2>2. Len(arrived) \in Nat /\ Len(taken) \in Nat
        BY DEF RingInv, RingTypeOK
    <2>3. count = Len(arrived) - Len(taken) - 1 + Late(rdAt)
        BY <2>1 DEF IsQueue, Held, Late, Counting
    <2>4. Late(cbAt') = 0 /\ Late(rdAt') = Late(rdAt) /\ Late(rdAt) \in {0, 1}
        BY <1>2 DEF CbStore, Late, Counting, rdVars
    <2>5. arrived' = arrived /\ taken' = taken
        BY DEF CbStore, rdVars
    <2>6. count' = Held' - Late(cbAt') + Late(rdAt')
        BY <1>3, <2>1, <2>2, <2>3, <2>4, <2>5 DEF Held
    <2> QED
        BY <1>2, <2>1, <2>6 DEF CbStore, IsQueue, Held, Zeroing, rdVars
<1> QED
    BY <1>5, <1>6, <1>7 DEF RingInv

LEMMA RdStartStep == ASSUME RingInv, RdStart PROVE RingInv'
BY DEF RdStart, RingInv, RingTypeOK, RingBounds, IsQueue, Held, Late, Counting, Passing, Putting, Zeroing, cbVars

LEMMA RdFoundStep == ASSUME RingInv, RdFound PROVE RingInv'
BY DEF RdFound, RingInv, RingTypeOK, RingBounds, IsQueue, Held, Late, Counting, Passing, Putting, Zeroing, cbVars

LEMMA RdGivesUpStep == ASSUME RingInv, RdGivesUp PROVE RingInv'
BY DEF RdGivesUp, RingInv, RingTypeOK, RingBounds, IsQueue, Held, Late, Counting, Passing, Putting, Zeroing, cbVars

\* The byte taken is the oldest of those held, and there is one.
LEMMA RdTakeStep == ASSUME RingInv, RdTake PROVE RingInv'
<1> USE RingAssumption
<1>1. /\ arrived \in Seq(Nat) /\ taken \in Seq(Nat)
      /\ tail \in Slots /\ buf \in [Slots -> Nat] /\ buf[tail] \in Nat
      /\ count \in 0 .. Size /\ count > 0
    BY DEF RdTake, RingInv, RingTypeOK, RingBounds
<1>2. /\ taken' = Append(taken, buf[tail])
      /\ taken' \in Seq(Nat) /\ Len(taken') = Len(taken) + 1
      /\ taken'[Len(taken) + 1] = buf[tail]
      /\ \A k \in 1 .. Len(taken) : taken'[k] = taken[k]
    BY <1>1 DEF RdTake
<1>3. tail' \in Slots
    BY <1>1, IsSlot DEF RdTake, Slots
<1>4. RingTypeOK'
    BY <1>1, <1>2, <1>3 DEF RdTake, RingInv, RingTypeOK, Counting, cbVars
<1>5. RingBounds'
    BY <1>1 DEF RdTake, RingInv, RingBounds, Counting, cbVars
<1>6. ASSUME ~ torn' PROVE IsQueue'
    <2> DEFINE n == Len(arrived)
               m == Len(taken)
    <2>1. /\ ~ torn /\ IsQueue /\ rdAt = "take" /\ n \in Nat /\ m \in Nat
          /\ rdAt \notin Zeroing
        BY <1>1, <1>6 DEF RdTake, RingInv, Zeroing
    <2>2. head = n % Size /\ tail = m % Size
        BY <2>1 DEF IsQueue
    <2>3. count = n - m - Late(cbAt)
        BY <2>1 DEF IsQueue, Held, Late, Counting
    <2>4. m + 1 <= n
        BY <1>1, <2>1, <2>3 DEF Late
    <2>5. tail' = Len(taken') % Size
        BY <1>2, <2>1, <2>2, NextSlot DEF RdTake
    <2>6. count' = Held' - Late(cbAt') + Late(rdAt')
        BY <1>2, <2>1, <2>3 DEF RdTake, Held, Late, Counting, cbVars
    <2>7. buf[tail] = arrived[m + 1]
        <3>1. m + 1 \in 1 .. n /\ m + 1 > m /\ (m + 1) - 1 = m
            BY <2>1, <2>4
        <3>2. buf[((m + 1) - 1) % Size] = arrived[m + 1]
            BY <3>1, <2>1 DEF IsQueue
        <3> QED
            BY <3>1, <3>2, <2>2
    <2>8. ASSUME NEW k \in 1 .. Len(taken') PROVE taken'[k] = arrived[k]
        <3>1. CASE k = m + 1
            BY <3>1, <1>2, <2>7
        <3>2. CASE k <= m
            <4>1. k \in 1 .. m /\ k <= n
                BY <2>1, <2>4, <2>8, <3>2, <1>2
            <4> QED
                BY <4>1, <1>2, <2>1 DEF IsQueue
        <3> QED
            BY <3>1, <3>2, <1>2, <2>1
    <2>9. \A k \in 1 .. n : k > Len(taken') => buf[(k - 1) % Size] = arrived[k]
        <3> SUFFICES ASSUME NEW k \in 1 .. n, k > Len(taken')
                     PROVE  buf[(k - 1) % Size] = arrived[k]
            OBVIOUS
        <3>1. k > m
            BY <1>2, <2>1
        <3> QED
            BY <3>1, <2>1 DEF IsQueue
    <2>10. /\ head' = Len(arrived') % Size /\ arrived' = arrived /\ buf' = buf
           /\ rdAt' = "load" /\ rdAt' \notin Zeroing
           /\ cbAt' = "advance" => cbHead' = head' /\ buf'[head'] = Head(cbLeft')
        BY <2>1, <2>2 DEF RdTake, IsQueue, Zeroing, cbVars
    <2> HIDE DEF n, m
    <2> QED
        BY <2>5, <2>6, <2>8, <2>9, <2>10 DEF IsQueue, n
<1> QED
    BY <1>4, <1>5, <1>6 DEF RingInv

LEMMA RdLoadStep == ASSUME RingInv, RdLoad PROVE RingInv'
BY DEF RdLoad, RingInv, RingTypeOK, RingBounds, IsQueue, Held, Late, Counting, Passing, Putting, Zeroing, cbVars

LEMMA RdStoreStep == ASSUME RingInv, RdStore PROVE RingInv'
<1> USE RingAssumption
<1>1. rdCount \in 0 .. Size /\ rdCount > 0 /\ cbCount \in 0 .. Size
    BY DEF RdStore, RingInv, RingTypeOK, RingBounds, Counting
<1>2. count' = rdCount - 1 /\ count' \in 0 .. Size /\ count' < Size
    BY <1>1 DEF RdStore
<1>3. torn' \in BOOLEAN
    BY DEF RdStore
<1>4. RingTypeOK'
    BY <1>2, <1>3 DEF RdStore, RingInv, RingTypeOK, cbVars
<1>5. RingBounds'
    BY <1>2 DEF RdStore, RingInv, RingBounds, Counting, cbVars
<1>6. ASSUME ~ torn' PROVE IsQueue'
    <2>1. /\ ~ torn /\ rdCount = count /\ rdAt = "store" /\ IsQueue
          /\ rdAt \notin Zeroing
        BY <1>6 DEF RdStore, RingInv, Zeroing
    <2>2. Len(arrived) \in Nat /\ Len(taken) \in Nat
        BY DEF RingInv, RingTypeOK
    <2>3. count = Len(arrived) - Len(taken) - Late(cbAt) + 1
        BY <2>1 DEF IsQueue, Held, Late, Counting
    <2>4. count' = Held' - Late(cbAt') + Late(rdAt')
        BY <1>2, <2>1, <2>2, <2>3 DEF RdStore, Held, Late, Counting, cbVars
    <2> QED
        BY <2>1, <2>4 DEF RdStore, IsQueue, Held, Zeroing, cbVars
<1> QED
    BY <1>4, <1>5, <1>6 DEF RingInv

\* A step that leaves the ring alone
LEMMA RingStutter == ASSUME RingInv, UNCHANGED ringVars PROVE RingInv'
BY DEF RingInv, RingTypeOK, RingBounds, IsQueue, Held, ringVars, cbVars, rdVars

\* The rest of an init of the NFC adapter leaves the queue as it is.
LEMMA ClearStep == ASSUME RingInv, NfcClear PROVE RingInv'
BY DEF NfcClear, RingInv, RingTypeOK, RingBounds, IsQueue, Held, Late, Counting, Zeroing,
       cbVars

\* The callback and the reader, wherever they are
LEMMA CallbackStep == ASSUME RingInv, Callback PROVE RingInv'
BY CbRoomStep, CbFullStep, CbPutStep, CbAdvanceStep, CbLoadStep, CbStoreStep DEF Callback

LEMMA ReaderStep == ASSUME RingInv, Reader PROVE RingInv'
BY RdTakeStep, RdLoadStep, RdStoreStep DEF Reader

-----------------------------------------------------------------------------
(* The adapters *)

\* Types of the adapter, and the order of what it sends
NfcInv ==
    /\ NfcTypeOK
    /\ SentInOrder

\* What a chunk of n bytes is made of
LEMMA NumberedType ==
    ASSUME NEW k \in Nat, NEW n \in Nat
    PROVE  Numbered(k, n) \in Seq(Nat) /\ Len(Numbered(k, n)) = n
BY DEF Numbered

\* What is taken from the front of a queue goes before the rest of it.
LEMMA Split ==
    ASSUME NEW q \in Seq(Nat), NEW n \in 0 .. Len(q)
    PROVE  /\ SubSeq(q, 1, n) \in Seq(Nat) /\ Len(SubSeq(q, 1, n)) = n
           /\ SubSeq(q, n + 1, Len(q)) \in Seq(Nat)
           /\ Len(SubSeq(q, n + 1, Len(q))) = Len(q) - n
           /\ SubSeq(q, 1, n) \o SubSeq(q, n + 1, Len(q)) = q
<1>1. \A i \in 1 .. Len(q) : q[i] \in Nat
    OBVIOUS
<1>2. SubSeq(q, 1, n) \in Seq(Nat) /\ Len(SubSeq(q, 1, n)) = n
    <2>1. 1 \in Int /\ n \in Int /\ \A i \in 1 .. n : q[i] \in Nat
        BY <1>1
    <2> QED
        BY <2>1, SubSeqProperties
<1>3. SubSeq(q, n + 1, Len(q)) \in Seq(Nat) /\ Len(SubSeq(q, n + 1, Len(q))) = Len(q) - n
    <2>1. n + 1 \in Int /\ Len(q) \in Int /\ \A i \in n + 1 .. Len(q) : q[i] \in Nat
        BY <1>1
    <2> QED
        BY <2>1, SubSeqProperties
<1>4. /\ 1 \in 1 .. Len(q) + 1 /\ n \in 1 - 1 .. Len(q) /\ Len(q) \in n .. Len(q)
    OBVIOUS
<1>5. SubSeq(q, 1, n) \o SubSeq(q, n + 1, Len(q)) = SubSeq(q, 1, Len(q))
    BY <1>4, ConcatAdjacentSubSeq
<1>6. SubSeq(q, 1, Len(q)) = q
    BY SubSeqFull
<1> QED
    BY <1>2, <1>3, <1>5, <1>6

\* The order in which three pieces are joined makes no difference.
LEMMA Associative ==
    ASSUME NEW p \in Seq(Nat), NEW q \in Seq(Nat), NEW r \in Seq(Nat)
    PROVE  (p \o q) \o r = p \o (q \o r)
BY ConcatAssociative, SMTT(60)

\* A flush hands on the front of the ring, or loses it.
LEMMA FlushKeepsOrder ==
    ASSUME NEW q \in Seq(Nat), NEW room \in Nat, Flush(q, room),
           passed \in Seq(Nat), flushLost \in BOOLEAN, NfcAssumption
    PROVE  /\ txRing' \in Seq(Nat) /\ Len(txRing') <= Len(q)
           /\ passed' \in Seq(Nat)
           /\ flushLost' \in BOOLEAN
           /\ ~ flushLost' => ~ flushLost /\ passed' \o txRing' = passed \o q
<1> DEFINE n == TakenOut(q)
           a == SubSeq(q, 1, n)
           b == SubSeq(q, n + 1, Len(q))
<1>1. n \in 0 .. Len(q)
    BY DEF TakenOut, Least, NfcAssumption
<1>2. /\ a \in Seq(Nat) /\ b \in Seq(Nat) /\ Len(b) = Len(q) - n /\ a \o b = q
    BY <1>1, Split
<1>3. (passed \o a) \o b = passed \o (a \o b)
    <2> HIDE DEF a, b
    <2> QED
        BY <1>2, Associative
<1>4. txRing' = b /\ passed' = IF n <= room THEN passed \o a ELSE passed
    BY DEF Flush
<1>5. flushLost' = (flushLost \/ n > room)
    BY DEF Flush
<1> HIDE DEF n, a, b
<1>6. passed \o a \in Seq(Nat)
    BY <1>2
<1>7. passed' \in Seq(Nat)
    BY <1>4, <1>6
<1>8. ASSUME ~ flushLost'
      PROVE  ~ flushLost /\ passed' \o txRing' = passed \o q
    <2>1. ~ (flushLost \/ n > room)
        BY <1>5, <1>8, Zenon
    <2>2. n <= room
        BY <1>1, <2>1
    <2> QED
        BY <1>2, <1>3, <1>4, <2>1, <2>2
<1>9. txRing' \in Seq(Nat) /\ Len(txRing') <= Len(q)
    BY <1>1, <1>2, <1>4
<1>10. flushLost' \in BOOLEAN
    BY <1>5
<1> QED
    BY <1>7, <1>8, <1>9, <1>10

\* A write puts the bytes that fit behind those in the ring.
LEMMA BehindKeepsOrder ==
    ASSUME NEW chunk \in Seq(Nat), txRing \in Seq(Nat), Len(txRing) <= Size
    PROVE  LET q == Behind(chunk)
               x == SubSeq(q, Len(txRing) + 1, Len(q))
           IN  /\ q \in Seq(Nat) /\ Len(q) <= Size /\ Len(q) >= Len(txRing)
               /\ x \in Seq(Nat)
               /\ q = txRing \o x
<1> USE RingAssumption
<1> DEFINE all == txRing \o chunk
           m == Least(Len(all), Size)
           q == Behind(chunk)
           x == SubSeq(q, Len(txRing) + 1, Len(q))
<1>1. /\ all \in Seq(Nat) /\ Len(all) = Len(txRing) + Len(chunk)
      /\ \A i \in 1 .. Len(txRing) : all[i] = txRing[i]
    BY ConcatProperties
<1>2. m \in 0 .. Len(all) /\ m <= Size /\ Len(txRing) \in 0 .. m
    BY <1>1 DEF Least
<1>3. q = SubSeq(all, 1, m)
    BY DEF Behind
<1> HIDE DEF all, m, q
<1>4. q \in Seq(Nat) /\ Len(q) = m
    BY <1>1, <1>2, <1>3, Split
<1>5. \A i \in 1 .. m : q[i] = all[i]
    BY <1>1, <1>2, <1>3
<1>6. /\ SubSeq(q, 1, Len(txRing)) \in Seq(Nat)
      /\ Len(SubSeq(q, 1, Len(txRing))) = Len(txRing)
      /\ x \in Seq(Nat)
      /\ SubSeq(q, 1, Len(txRing)) \o x = q
    BY <1>2, <1>4, Split
<1>7. SubSeq(q, 1, Len(txRing)) = txRing
    <2>1. \A i \in 1 .. Len(txRing) : SubSeq(q, 1, Len(txRing))[i] = q[i]
        BY <1>2, <1>4
    <2>2. \A i \in 1 .. Len(txRing) : SubSeq(q, 1, Len(txRing))[i] = txRing[i]
        BY <2>1, <1>1, <1>2, <1>5
    <2> QED
        BY <1>6, <2>2, SeqEqual
<1>8. Len(q) <= Size /\ Len(q) >= Len(txRing) /\ q = txRing \o x
    <2>1. Len(q) <= Size /\ Len(q) >= Len(txRing)
        BY <1>2, <1>4
    <2>2. q = txRing \o x
        BY <1>6, <1>7, Zenon
    <2> QED
        BY <2>1, <2>2
<1> QED
    BY <1>4, <1>6, <1>8, Zenon DEF q

-----------------------------------------------------------------------------
(* The steps of the adapters *)

\* Nothing in the ring, nothing accepted, nothing passed on
LEMMA NothingSent ==
    /\ <<>> \in Seq(Nat) /\ Len(<<>>) = 0 /\ 0 <= Size
    /\ <<>> \o <<>> = <<>>
<1>1. <<>> \in Seq(Nat) /\ Len(<<>>) = 0
    BY EmptySeq
<1> QED
    BY <1>1, ConcatEmptySeq, RingAssumption

LEMMA NfcStarts == NfcInit => NfcInv
<1> SUFFICES ASSUME NfcInit PROVE NfcInv
    OBVIOUS
<1>1. Len(txRing) <= Size
    BY NothingSent DEF NfcInit
<1>2. passed \o txRing = accepted
    BY NothingSent DEF NfcInit
<1>3. txRing \in Seq(Nat) /\ accepted \in Seq(Nat) /\ passed \in Seq(Nat)
    BY NothingSent DEF NfcInit
<1>4. field \in BOOLEAN /\ flushLost \in BOOLEAN /\ longWrite \in BOOLEAN
    BY Zenon DEF NfcInit
<1>5. framing \in BOOLEAN
    BY Zenon DEF NfcInit
<1>6. received \in Nat /\ offered \in Nat
    BY DEF NfcInit
<1>7. NfcTypeOK
    BY <1>1, <1>3, <1>4, <1>5, <1>6 DEF NfcTypeOK
<1> QED
    BY <1>2, <1>7 DEF NfcInv, SentInOrder

\* An initialisation empties the transmit ring too.
LEMMA NfcClearStep == ASSUME NfcInv, NfcClear PROVE NfcInv'
<1>1. Len(txRing') <= Size
    BY NothingSent DEF NfcClear
<1>2. passed' \o txRing' = accepted'
    BY NothingSent DEF NfcClear
<1>3. txRing' \in Seq(Nat) /\ accepted' \in Seq(Nat) /\ passed' \in Seq(Nat)
    BY NothingSent DEF NfcClear
<1>4. field' \in BOOLEAN /\ flushLost' \in BOOLEAN /\ longWrite' \in BOOLEAN
    BY Zenon DEF NfcClear
<1>5. framing' \in BOOLEAN
    BY DEF NfcClear, NfcInv, NfcTypeOK
<1>6. received' \in Nat /\ offered' \in Nat
    BY DEF NfcClear, NfcInv, NfcTypeOK
<1>7. NfcTypeOK'
    BY <1>1, <1>3, <1>4, <1>5, <1>6 DEF NfcTypeOK
<1> QED
    BY <1>2, <1>7 DEF NfcInv, SentInOrder

\* What does not write leaves the transmit side as it was.
LEMMA NfcOther ==
    ASSUME NfcInv, UNCHANGED txVars, field' \in BOOLEAN, framing' \in BOOLEAN,
           received' \in Nat
    PROVE  NfcInv'
BY DEF NfcInv, NfcTypeOK, SentInOrder, txVars

LEMMA NfcWriteStep ==
    ASSUME NfcInv, NEW n \in Nat, NfcWrite(n)
    PROVE  NfcInv'
<1> DEFINE chunk == Numbered(offered, n)
           q == Behind(chunk)
           x == SubSeq(q, Len(txRing) + 1, Len(q))
<1>1. /\ txRing \in Seq(Nat) /\ Len(txRing) <= Size
      /\ accepted \in Seq(Nat) /\ passed \in Seq(Nat)
      /\ offered \in Nat /\ {field, framing, flushLost, longWrite} \subseteq BOOLEAN
      /\ received \in Nat
    BY DEF NfcInv, NfcTypeOK
<1>2. chunk \in Seq(Nat)
    BY <1>1, NumberedType
<1>3. /\ q \in Seq(Nat) /\ Len(q) <= Size
      /\ x \in Seq(Nat) /\ q = txRing \o x
    BY <1>1, <1>2, BehindKeepsOrder
<1>4. accepted' = accepted \o x
    BY DEF NfcWrite
<1>5. /\ offered' = offered + n /\ longWrite' = (longWrite \/ n > FlushMax)
      /\ UNCHANGED <<field, framing, received>>
    BY DEF NfcWrite
<1>6. /\ framing => Flush(q, FlushMax)
      /\ ~ framing => txRing' = q /\ passed' = passed /\ flushLost' = flushLost
    BY DEF NfcWrite
<1> HIDE DEF chunk, q, x
<1>7. accepted' \in Seq(Nat)
    BY <1>1, <1>3, <1>4
<1>8. /\ txRing' \in Seq(Nat) /\ Len(txRing') <= Size /\ Len(txRing') \in Nat
      /\ passed' \in Seq(Nat) /\ flushLost' \in BOOLEAN
      /\ ~ flushLost' => ~ flushLost /\ passed' \o txRing' = passed \o q
    <2>1. CASE framing
        <3>1. FlushMax \in Nat
            BY NfcAssumption
        <3>2. /\ txRing' \in Seq(Nat) /\ Len(txRing') <= Len(q)
              /\ passed' \in Seq(Nat) /\ flushLost' \in BOOLEAN
              /\ ~ flushLost' => ~ flushLost /\ passed' \o txRing' = passed \o q
            BY <1>1, <1>3, <1>6, <2>1, <3>1, NfcAssumption, FlushKeepsOrder
        <3>3. Len(txRing') \in Nat /\ Len(q) \in Nat /\ Size \in Nat
            BY <1>3, <3>2, LenProperties, RingAssumption
        <3>4. Len(txRing') <= Size
            BY <1>3, <3>2, <3>3
        <3> QED
            BY <3>2, <3>3, <3>4
    <2>2. CASE ~ framing
        <3>1. txRing' = q /\ passed' = passed /\ flushLost' = flushLost
            BY <1>6, <2>2
        <3>2. Len(q) \in Nat
            BY <1>3, LenProperties
        <3> QED
            BY <1>1, <1>3, <3>1, <3>2
    <2> QED
        BY <2>1, <2>2
<1>9. NfcTypeOK'
    <2>1. {field', framing', flushLost', longWrite'} \subseteq BOOLEAN
        BY <1>1, <1>5, <1>8
    <2>2. {received', offered'} \subseteq Nat
        BY <1>1, <1>5
    <2> QED
        BY <1>7, <1>8, <2>1, <2>2 DEF NfcTypeOK
<1>10. ASSUME ~ flushLost' PROVE passed' \o txRing' = accepted'
    <2>1. passed' \o txRing' = passed \o (txRing \o x)
        BY <1>3, <1>8, <1>10
    <2>2. passed \o (txRing \o x) = (passed \o txRing) \o x
        BY <1>1, <1>3, Associative
    <2>3. passed \o txRing = accepted
        BY <1>8, <1>10 DEF NfcInv, SentInOrder
    <2> QED
        BY <1>4, <2>1, <2>2, <2>3
<1> QED
    BY <1>9, <1>10 DEF NfcInv, SentInOrder

LEMMA NfcFlushStep ==
    ASSUME NfcInv, NEW room \in Nat, NfcFlush(room)
    PROVE  NfcInv'
<1>1. /\ txRing \in Seq(Nat) /\ Len(txRing) <= Size
      /\ accepted \in Seq(Nat) /\ passed \in Seq(Nat)
      /\ offered \in Nat /\ {field, framing, flushLost, longWrite} \subseteq BOOLEAN
      /\ received \in Nat
    BY DEF NfcInv, NfcTypeOK
<1>2. Flush(txRing, room) /\ UNCHANGED <<field, framing, received, offered, accepted, longWrite>>
    BY DEF NfcFlush
<1>3. /\ txRing' \in Seq(Nat) /\ Len(txRing') <= Len(txRing)
      /\ passed' \in Seq(Nat) /\ flushLost' \in BOOLEAN
      /\ ~ flushLost' => ~ flushLost /\ passed' \o txRing' = passed \o txRing
    BY <1>1, <1>2, NfcAssumption, FlushKeepsOrder
<1>4. Len(txRing') <= Size
    <2>1. Len(txRing') \in Nat /\ Len(txRing) \in Nat /\ Size \in Nat
        BY <1>1, <1>3, LenProperties, RingAssumption
    <2> QED
        BY <1>1, <1>3, <2>1
<1>5. NfcTypeOK'
    BY <1>1, <1>2, <1>3, <1>4 DEF NfcTypeOK
<1>6. SentInOrder'
    BY <1>2, <1>3 DEF NfcInv, SentInOrder
<1> QED
    BY <1>5, <1>6 DEF NfcInv

\* Either adapter keeps to the protocol of the ring, and BLE does not touch
\* the state of NFC.
LEMMA TransportStep ==
    ASSUME RingInv, NfcInv, adapter \in {"nfc", "ble"}, [Next]_vars
    PROVE  RingInv' /\ NfcInv' /\ adapter' \in {"nfc", "ble"}
<1>1. /\ {field, framing} \subseteq BOOLEAN /\ received \in Nat
    BY DEF NfcInv, NfcTypeOK
<1>2. ASSUME UNCHANGED nfcVars PROVE NfcInv'
    BY <1>1, <1>2, NfcOther DEF nfcVars
<1>3. CASE UNCHANGED vars
    BY <1>2, <1>3, RingStutter DEF vars
<1>4. CASE adapter = "nfc" /\ NfcNext /\ UNCHANGED adapter
    <2>1. CASE NfcReset
        BY <1>1, <1>4, <2>1, ResetStep, NfcOther DEF NfcReset
    <2>10. CASE NfcZero
        BY <1>2, <1>4, <2>10, ZeroTailStep, ZeroCountStep DEF NfcZero
    <2>11. CASE NfcClear
        BY <1>4, <2>11, ClearStep, NfcClearStep
    <2>2. CASE SetField
        <3>1. field' \in BOOLEAN /\ UNCHANGED <<framing, received, txVars, ringVars>>
            BY <2>2, <1>1 DEF SetField
        <3> QED
            BY <1>1, <1>4, <3>1, RingStutter, NfcOther
    <2>3. CASE NfcData
        <3>1. PICK n \in Nat, a \in Nat, record \in BOOLEAN :
                 /\ received' = received + n + a
                 /\ CbStart(NfcPayload(record, Numbered(received + a, n), Numbered(received, a)))
                 /\ UNCHANGED <<field, framing, txVars>>
            BY <2>3, RingAssumption DEF NfcData
        <3>2. received + a \in Nat
            BY <1>1, <3>1
        <3>3. NfcPayload(record, Numbered(received + a, n), Numbered(received, a)) \in Seq(Nat)
            BY <1>1, <3>1, <3>2, NumberedType DEF NfcPayload
        <3>4. RingInv'
            BY <3>1, <3>3, CbStartStep
        <3>5. received' \in Nat
            BY <1>1, <3>1
        <3> QED
            BY <1>1, <1>4, <3>1, <3>4, <3>5, NfcOther
    <2>4. CASE NfcRead
        BY <1>2, <1>4, <2>4, RdStartStep, RdFoundStep, ReaderStep DEF NfcRead
    <2>5. CASE NfcNoByte
        BY <1>2, <1>4, <2>5, RdGivesUpStep DEF NfcNoByte
    <2>6. CASE Callback /\ UNCHANGED nfcVars
        BY <1>2, <1>4, <2>6, CallbackStep
    <2>7. CASE NfcWriteNoField
        BY <1>2, <1>4, <2>7, RingStutter DEF NfcWriteNoField
    <2>8. ASSUME NEW n \in 1 .. Size + 1, NfcWrite(n)
          PROVE  RingInv' /\ NfcInv'
        <3>1. n \in Nat
            BY RingAssumption
        <3>2. UNCHANGED ringVars
            BY <2>8 DEF NfcWrite
        <3> QED
            BY <2>8, <3>1, <3>2, RingStutter, NfcWriteStep
    <2>9. ASSUME NEW room \in 0 .. FlushMax, NfcFlush(room)
          PROVE  RingInv' /\ NfcInv'
        <3>1. room \in Nat
            BY NfcAssumption
        <3>2. UNCHANGED ringVars
            BY <2>9 DEF NfcFlush
        <3> QED
            BY <2>9, <3>1, <3>2, RingStutter, NfcFlushStep
    <2> QED
        BY <1>4, <2>1, <2>2, <2>3, <2>4, <2>5, <2>6, <2>7, <2>8, <2>9, <2>10, <2>11
        DEF NfcNext
<1>5. CASE adapter = "ble" /\ BleNext /\ UNCHANGED adapter
    <2>1. CASE BleReset /\ UNCHANGED nfcVars
        BY <1>2, <1>5, <2>1, ResetStep, ZeroTailStep, ZeroCountStep DEF BleReset
    <2>2. ASSUME NEW n \in 1 .. Size + 1, received' = received + n,
                 BleData(Numbered(received, n)), UNCHANGED <<field, framing, txVars>>
          PROVE  RingInv' /\ NfcInv'
        <3>1. n \in Nat /\ received' \in Nat
            BY <1>1, <2>2, RingAssumption
        <3>2. Numbered(received, n) \in Seq(Nat)
            BY <1>1, <3>1, NumberedType
        <3>3. RingInv'
            BY <2>2, <3>2, CbStartStep DEF BleData
        <3>4. field' \in BOOLEAN /\ framing' \in BOOLEAN /\ UNCHANGED txVars
            BY <1>1, <2>2
        <3> QED
            BY <3>1, <3>3, <3>4, NfcOther
    <2>3. CASE BleRead /\ UNCHANGED nfcVars
        BY <1>2, <1>5, <2>3, RdStartStep, RdFoundStep, ReaderStep DEF BleRead
    <2>4. CASE BleNoByte /\ UNCHANGED nfcVars
        BY <1>2, <1>5, <2>4, RdGivesUpStep DEF BleNoByte
    <2>5. CASE Callback /\ UNCHANGED nfcVars
        BY <1>2, <1>5, <2>5, CallbackStep
    <2>6. CASE BleWrite /\ UNCHANGED nfcVars
        BY <1>2, <1>5, <2>6, RingStutter DEF BleWrite
    <2> QED
        BY <1>5, <2>1, <2>2, <2>3, <2>4, <2>5, <2>6 DEF BleNext
<1> QED
    BY <1>3, <1>4, <1>5 DEF Next

-----------------------------------------------------------------------------
(* Theorems *)

\* The inductive invariant of the whole specification
TransportInv == RingInv /\ NfcInv /\ adapter \in {"nfc", "ble"}

\* The invariant holds whatever the driver, the engine and the application do.
THEOREM TransportInvariance == Spec => []TransportInv
<1>1. Init => TransportInv
    BY RingStarts, NfcStarts DEF Init, TransportInv
<1>2. TransportInv /\ [Next]_vars => TransportInv'
    BY TransportStep DEF TransportInv
<1> QED
    BY <1>1, <1>2, PTL DEF Spec

\* Type correctness: in particular the count never leaves 0 .. Size, torn or
\* not, so count-- never wraps below zero.
THEOREM TransportTypes == Spec => []TypeOK
<1>1. TransportInv => TypeOK
    BY DEF TransportInv, RingInv, NfcInv, TypeOK
<1> QED
    BY <1>1, TransportInvariance, PTL

\* What the two sides are late with accounts for the count.
LEMMA HeldFits ==
    ASSUME TransportInv, ~ torn, rdAt \notin Zeroing
    PROVE  Held \in 0 .. Size /\ count = Held - Late(cbAt) + Late(rdAt)
<1>1. RingTypeOK /\ RingBounds /\ IsQueue
    BY DEF TransportInv, RingInv
<1>2. Len(arrived) \in Nat /\ Len(taken) \in Nat /\ count \in 0 .. Size
    BY <1>1 DEF RingTypeOK
<1>3. Size \in Nat /\ Held \in Int
    BY <1>2, RingAssumption DEF Held
<1>4. count = Held - Late(cbAt) + Late(rdAt)
    BY <1>1 DEF IsQueue
<1>5. /\ Late(cbAt) = 0 \/ (Late(cbAt) = 1 /\ count < Size)
      /\ Late(rdAt) = 0 \/ (Late(rdAt) = 1 /\ count > 0)
    BY <1>1 DEF RingBounds, Late, Putting, Passing
<1> QED
    BY <1>2, <1>3, <1>4, <1>5

\* For a ring of any size, as long as no update of the count is lost and no
\* put overlaps an init, the count is right wherever the other side has got to.
THEOREM CountIsRight == Spec => []CountRight
<1>1. TransportInv => CountRight
    BY HeldFits DEF CountRight
<1> QED
    BY <1>1, TransportInvariance, PTL

\* Likewise what read_byte has returned is what the callback put, in order.
THEOREM ReadsAreInOrder == Spec => []ReadInOrder
<1>1. ASSUME TransportInv, ~ torn
      PROVE  /\ Len(taken) <= Len(arrived)
             /\ \A k \in 1 .. Len(taken) : taken[k] = arrived[k]
    <2>1. RingTypeOK /\ IsQueue
        BY <1>1 DEF TransportInv, RingInv
    <2>2. Len(arrived) \in Nat /\ Len(taken) \in Nat
        BY <2>1 DEF RingTypeOK
    <2>3. Len(taken) <= Len(arrived)
        <3>1. CASE rdAt \in Zeroing
            BY <2>1, <2>2, <3>1 DEF IsQueue
        <3>2. CASE rdAt \notin Zeroing
            <4>1. Held \in 0 .. Size /\ Size \in Nat
                BY <1>1, <3>2, HeldFits, RingAssumption
            <4> QED
                BY <2>2, <4>1 DEF Held
        <3> QED
            BY <3>1, <3>2
    <2> QED
        BY <2>1, <2>2, <2>3 DEF IsQueue
<1>2. TransportInv => ReadInOrder
    BY <1>1 DEF ReadInOrder
<1> QED
    BY <1>2, TransportInvariance, PTL

\* For a transmit ring and a record of any size, what goes out is what was
\* accepted, in order.
THEOREM SendsAreInOrder == Spec => []SentInOrder
<1>1. TransportInv => SentInOrder
    BY DEF TransportInv, NfcInv
<1> QED
    BY <1>1, TransportInvariance, PTL

-----------------------------------------------------------------------------
(* Short writes: FlushMax \in 1 .. Size is what lets one record empty the ring. *)

\* A write that fits into a record fills an empty ring with itself only.
LEMMA ShortChunk ==
    ASSUME NEW n \in 1 .. FlushMax, NEW k \in Nat, txRing = <<>>,
           NEW q, q = Behind(Numbered(k, n))
    PROVE  q \in Seq(Nat) /\ Len(q) = n
<1> DEFINE s == Numbered(k, n)
<1>1. n \in Nat /\ FlushMax \in Nat /\ Size \in Nat /\ n <= Size /\ n > 0
    BY NfcAssumption, RingAssumption
<1>2. s \in Seq(Nat) /\ Len(s) = n
    BY <1>1, NumberedType DEF Numbered
<1>3. txRing \o s \in Seq(Nat) /\ Len(txRing \o s) = n
    BY <1>1, <1>2
<1>4. q = SubSeq(txRing \o s, 1, n)
    BY <1>1, <1>3 DEF Behind, Least
<1> QED
    BY <1>1, <1>3, <1>4

LEMMA ShortWriteStep ==
    ASSUME NfcInv, ShortWritesLeave, NEW n \in Nat, NfcWrite(n)
    PROVE  ShortWritesLeave'
<1> SUFFICES ASSUME framing', ~ longWrite', ~ Clearing'
             PROVE  txRing' = <<>> /\ Len(accepted') = offered'
    BY DEF ShortWritesLeave
<1>0. /\ framing' = framing /\ longWrite' = (longWrite \/ n > FlushMax)
      /\ n > 0 /\ offered' = offered + n
    BY DEF NfcWrite
<1>1. framing /\ ~ longWrite /\ n <= FlushMax
    <2>1. framing /\ ~ longWrite /\ ~ (n > FlushMax)
        BY <1>0, Zenon
    <2> QED
        BY <2>1, NfcAssumption
<1>2. txRing = <<>> /\ Len(accepted) = offered
    BY <1>1 DEF ShortWritesLeave, NfcWrite, Clearing, Zeroing
<1>3. offered \in Nat /\ accepted \in Seq(Nat) /\ FlushMax \in Nat
    BY NfcAssumption DEF NfcInv, NfcTypeOK
<1> DEFINE q == Behind(Numbered(offered, n))
<1>4. q \in Seq(Nat) /\ Len(q) = n
    BY <1>0, <1>1, <1>2, <1>3, ShortChunk
<1>5. /\ accepted' = accepted \o SubSeq(q, Len(txRing) + 1, Len(q))
      /\ txRing' = SubSeq(q, TakenOut(q) + 1, Len(q))
    BY <1>1 DEF NfcWrite, Flush
<1>6. Len(txRing) = 0 /\ TakenOut(q) = n
    BY <1>1, <1>2, <1>3, <1>4 DEF TakenOut, Least
<1> HIDE DEF q
<1>7. txRing' = <<>>
    BY <1>4, <1>5, <1>6
<1>8. SubSeq(q, 1, n) \in Seq(Nat) /\ Len(SubSeq(q, 1, n)) = n
    BY <1>4
<1>9. accepted' = accepted \o SubSeq(q, 1, n)
    BY <1>4, <1>5, <1>6
<1>10. Len(accepted') = offered + n
    <2>1. Len(accepted \o SubSeq(q, 1, n)) = Len(accepted) + Len(SubSeq(q, 1, n))
        BY <1>3, <1>8, ConcatProperties, Zenon
    <2> QED
        BY <1>2, <1>8, <1>9, <2>1, Zenon
<1> QED
    BY <1>0, <1>7, <1>10

\* The transmit ring of the NFC adapter stays out of use with the other one,
\* whose init does not clear it.
ShortInv ==
    /\ ShortWritesLeave
    /\ adapter = "ble" => txRing = <<>> /\ accepted = <<>> /\ offered = 0

LEMMA ShortWritesStep ==
    ASSUME NfcInv, ShortInv, adapter \in {"nfc", "ble"}, [Next]_vars
    PROVE  ShortInv'
<1>1. ASSUME UNCHANGED <<framing, longWrite, txRing, accepted, offered>>,
             Clearing => Clearing'
      PROVE  ShortWritesLeave'
    BY <1>1 DEF ShortInv, ShortWritesLeave
<1>2. CASE UNCHANGED vars
    BY <1>2 DEF ShortInv, ShortWritesLeave, Clearing, vars, nfcVars, txVars, ringVars, rdVars
<1>3. CASE adapter = "nfc" /\ NfcNext /\ UNCHANGED adapter
    <2> SUFFICES ShortWritesLeave'
        BY <1>3 DEF ShortInv
    <2>1. CASE NfcReset \/ NfcZero
        <3>1. rdAt' \in Zeroing \cup {"clear"}
            BY <2>1 DEF NfcReset, RingReset, NfcZero, ZeroTail, ZeroCount, Zeroing
        <3> QED
            BY <3>1 DEF ShortWritesLeave, Clearing
    <2>2. CASE NfcClear
        <3>1. txRing' = <<>> /\ accepted' = <<>> /\ offered' = 0
            BY <2>2 DEF NfcClear
        <3>2. Len(<<>>) = 0
            BY EmptySeq
        <3> QED
            BY <3>1, <3>2 DEF ShortWritesLeave
    <2>3. CASE SetField \/ NfcData
        BY <1>1, <2>3 DEF SetField, NfcData, CbStart, Clearing, ringVars, rdVars, txVars
    <2>4. CASE NfcRead \/ NfcNoByte
        <3>1. rdAt \notin Zeroing \cup {"clear"}
            BY <2>4
            DEF NfcRead, NfcNoByte, RdStart, RdFound, RdGivesUp, Reader, RdTake, RdLoad,
                RdStore, Zeroing
        <3> QED
            BY <1>1, <2>4, <3>1 DEF NfcRead, NfcNoByte, Clearing, nfcVars, txVars
    <2>5. CASE NfcWriteNoField
        BY <1>1, <2>5 DEF NfcWriteNoField, Clearing, ringVars, rdVars, nfcVars, txVars
    <2>6. CASE Callback /\ UNCHANGED nfcVars
        <3>1. rdAt' = rdAt
            BY <2>6
            DEF Callback, CbRoom, CbFull, CbPut, CbAdvance, CbLoad, CbStore, rdVars
        <3> QED
            BY <1>1, <2>6, <3>1 DEF Clearing, nfcVars, txVars
    <2>7. ASSUME NEW n \in 1 .. Size + 1, NfcWrite(n) PROVE ShortWritesLeave'
        BY <2>7, ShortWriteStep, RingAssumption DEF ShortInv
    <2>8. ASSUME NEW room \in 0 .. FlushMax, NfcFlush(room) PROVE ShortWritesLeave'
        <3>1. /\ txRing # <<>> /\ rdAt = "idle"
              /\ UNCHANGED <<framing, longWrite>>
            BY <2>8 DEF NfcFlush
        <3> QED
            BY <3>1 DEF ShortInv, ShortWritesLeave, Clearing, Zeroing
    <2> QED
        BY <1>3, <2>1, <2>2, <2>3, <2>4, <2>5, <2>6, <2>7, <2>8 DEF NfcNext
<1>4. CASE adapter = "ble" /\ BleNext /\ UNCHANGED adapter
    <2>1. UNCHANGED txVars
        BY <1>4 DEF BleNext, nfcVars
    <2>2. txRing' = <<>> /\ accepted' = <<>> /\ offered' = 0
        BY <1>4, <2>1 DEF ShortInv, txVars
    <2>3. Len(<<>>) = 0
        BY EmptySeq
    <2> QED
        BY <2>2, <2>3 DEF ShortInv, ShortWritesLeave
<1> QED
    BY <1>2, <1>3, <1>4 DEF Next

\* For every ring and every record that fits into it, a write of at most one
\* record leaves with write_bytes: nothing is dropped, nothing waits.
THEOREM ShortWritesAreSent == Spec => []ShortWritesLeave
<1>1. Init => ShortInv
    <2>1. Len(<<>>) = 0
        BY EmptySeq
    <2> QED
        BY <2>1 DEF Init, NfcInit, ShortInv, ShortWritesLeave
<1>2. TransportInv /\ ShortInv /\ [Next]_vars => ShortInv'
    BY ShortWritesStep DEF TransportInv
<1>3. ShortInv => ShortWritesLeave
    BY DEF ShortInv
<1> QED
    BY <1>1, <1>2, <1>3, TransportInvariance, PTL DEF Spec

=============================================================================
