------------------------------- MODULE RxRing -------------------------------
(***************************************************************************)
(* The ring buffer between the radio and the engine, written twice with    *)
(* the same code: nfc_rx_* of the NFC adapter and nus_rx_* of the BLE      *)
(* adapter.  The driver's callback fills it, read_byte empties it and init *)
(* clears it, on another thread and without a lock.  Each store to what    *)
(* the threads share is a step.  An update (count++, head moving on) is a  *)
(* load and a store, and the load may be one the code did before: nothing  *)
(* here is volatile, and the build may keep a value it has tested.         *)
(***************************************************************************)
EXTENDS Integers, Sequences

CONSTANT
    Size          \* bytes the ring holds: 1024 for NFC, 512 for BLE

ASSUME RingAssumption == Size \in Nat \ {0}

VARIABLES
    buf,          \* the slots
    head,         \* the slot the callback fills next
    tail,         \* the slot read_byte empties next
    count,        \* bytes in the ring, as both sides believe
    cbAt,         \* where the callback is: "idle", "test" or a place of Putting
    cbLeft,       \* the bytes it still has to put
    cbHead,       \* the head it has loaded
    cbCount,      \* the count it has loaded
    rdAt,         \* where the reading thread is: "idle", "poll", "take", a place
                  \* of Counting, or in init at a place of Zeroing or at "clear"
    rdCount,      \* the count it has loaded
    arrived,      \* history: bytes put into the ring since its init
    taken,        \* history: bytes read_byte has returned since then
    overflow,     \* history: bytes dropped because the ring was full
    torn          \* history: since init began, a count was stored that had
                  \* changed since it was loaded, or a put and init overlapped

cbVars == <<head, cbAt, cbLeft, cbHead, cbCount, arrived, overflow>>
rdVars == <<tail, rdAt, rdCount, taken>>
ringVars == <<buf, count, torn, cbVars, rdVars>>

Slots == 0 .. Size - 1

\* The parts of the code that hold a loaded count, or are about to load it
Counting == {"load", "store"}

\* The callback has written a slot whose byte is not counted yet.
Passing == {"advance"} \cup Counting

\* The callback has found room for a byte that is not counted yet.
Putting == {"put"} \cup Passing

\* Init has cleared one of head, tail and count, and not all of them.
Zeroing == {"zeroTail", "zeroCount"}

RingTypeOK ==
    /\ buf \in [Slots -> Nat]
    /\ {head, tail, cbHead} \subseteq Slots
    /\ count \in 0 .. Size
    /\ cbAt \in {"idle", "test"} \cup Putting
    /\ cbLeft \in Seq(Nat)
    /\ rdAt \in {"idle", "poll", "take", "clear"} \cup Counting \cup Zeroing
    /\ {cbCount, rdCount} \subseteq 0 .. Size
    /\ arrived \in Seq(Nat) /\ taken \in Seq(Nat)
    /\ overflow \in Nat
    /\ torn \in BOOLEAN

RingInit ==
    /\ buf = [i \in Slots |-> 0]
    /\ head = 0 /\ tail = 0 /\ count = 0
    /\ cbAt = "idle" /\ cbLeft = <<>> /\ cbHead = 0 /\ cbCount = 0
    /\ rdAt = "idle" /\ rdCount = 0
    /\ arrived = <<>> /\ taken = <<>>
    /\ overflow = 0
    /\ torn = FALSE

\* The adapter's init, on the thread that reads, while the callback may be
\* anywhere: head, then tail, then count.
RingReset ==
    /\ rdAt = "idle"
    /\ head' = 0
    /\ rdAt' = "zeroTail"
    /\ arrived' = <<>> /\ taken' = <<>>
    /\ torn' = (cbAt \in Passing)
    /\ UNCHANGED <<buf, tail, count, cbAt, cbLeft, cbHead, cbCount, rdCount, overflow>>

ZeroTail ==
    /\ rdAt = "zeroTail"
    /\ tail' = 0
    /\ rdAt' = "zeroCount"
    /\ UNCHANGED <<buf, count, torn, cbVars, rdCount, taken>>

\* What follows, "clear" or "idle", is the adapter's.
ZeroCount(next) ==
    /\ rdAt = "zeroCount"
    /\ count' = 0
    /\ rdAt' = next
    /\ UNCHANGED <<buf, torn, cbVars, tail, rdCount, taken>>

-----------------------------------------------------------------------------

Next1(i) == (i + 1) % Size

\* The callback is called with a payload.
CbStart(payload) ==
    /\ cbAt = "idle" /\ payload # <<>>
    /\ cbAt' = "test"
    /\ cbLeft' = payload
    /\ UNCHANGED <<buf, count, torn, head, cbHead, cbCount, arrived, overflow, rdVars>>

\* The next byte of the payload, or the end of the callback
CbNext ==
    /\ cbLeft' = Tail(cbLeft)
    /\ cbAt' = IF Len(cbLeft) > 1 THEN "test" ELSE "idle"

\* Seeded fault: the ring takes one byte more than it has slots.
CbRoomLate ==
    /\ cbAt = "test" /\ count <= Size
    /\ cbAt' = "put"
    /\ cbCount' = count
    /\ UNCHANGED <<buf, count, torn, head, cbLeft, cbHead, arrived, overflow, rdVars>>

CbRoom ==
    /\ cbAt = "test" /\ count < Size
    /\ cbAt' = "put"
    /\ cbCount' = count
    /\ UNCHANGED <<buf, count, torn, head, cbLeft, cbHead, arrived, overflow, rdVars>>

CbFull ==
    /\ cbAt = "test" /\ count >= Size
    /\ overflow' = overflow + 1
    /\ CbNext
    /\ UNCHANGED <<buf, count, torn, head, cbHead, cbCount, arrived, rdVars>>

CbPut ==
    /\ cbAt = "put"
    /\ buf' = [buf EXCEPT ![head] = Head(cbLeft)]
    /\ cbHead' = head
    /\ torn' = (torn \/ rdAt \in Zeroing)
    /\ cbAt' = "advance"
    /\ UNCHANGED <<count, head, cbLeft, cbCount, arrived, overflow, rdVars>>

CbAdvance ==
    /\ cbAt = "advance"
    /\ head' \in {Next1(head), Next1(cbHead)}
    /\ arrived' = Append(arrived, Head(cbLeft))
    /\ cbAt' = "load"
    /\ UNCHANGED <<buf, count, torn, cbLeft, cbHead, cbCount, overflow, rdVars>>

CbLoad ==
    /\ cbAt = "load"
    /\ cbCount' \in {count, cbCount}
    /\ cbAt' = "store"
    /\ UNCHANGED <<buf, count, torn, head, cbLeft, cbHead, arrived, overflow, rdVars>>

CbStore ==
    /\ cbAt = "store"
    /\ count' = cbCount + 1
    /\ torn' = (torn \/ cbCount # count)
    /\ CbNext
    /\ UNCHANGED <<buf, head, cbHead, cbCount, arrived, overflow, rdVars>>

Callback == CbRoom \/ CbFull \/ CbPut \/ CbAdvance \/ CbLoad \/ CbStore

-----------------------------------------------------------------------------

\* read_byte is called; each adapter decides what it does with an empty ring.
RdStart ==
    /\ rdAt = "idle"
    /\ rdAt' = "poll"
    /\ UNCHANGED <<buf, count, torn, cbVars, tail, rdCount, taken>>

RdFound ==
    /\ rdAt = "poll" /\ count > 0
    /\ rdAt' = "take"
    /\ rdCount' = count
    /\ UNCHANGED <<buf, count, torn, cbVars, tail, taken>>

\* read_byte returns without a byte.
RdGivesUp ==
    /\ rdAt = "poll"
    /\ rdAt' = "idle"
    /\ UNCHANGED <<buf, count, torn, cbVars, tail, rdCount, taken>>

\* Seeded fault: the byte at the other end of the ring.
RdTakeNewest ==
    /\ rdAt = "take"
    /\ taken' = Append(taken, buf[(head + Size - 1) % Size])
    /\ tail' = Next1(tail)
    /\ rdAt' = "load"
    /\ UNCHANGED <<buf, count, torn, cbVars, rdCount>>

\* The slot and tail in one step: no other thread looks at tail.
RdTake ==
    /\ rdAt = "take"
    /\ taken' = Append(taken, buf[tail])
    /\ tail' = Next1(tail)
    /\ rdAt' = "load"
    /\ UNCHANGED <<buf, count, torn, cbVars, rdCount>>

RdLoad ==
    /\ rdAt = "load"
    /\ rdCount' \in {count, rdCount}
    /\ rdAt' = "store"
    /\ UNCHANGED <<buf, count, torn, cbVars, tail, taken>>

\* Seeded fault: the count is not decremented.
RdStoreSame ==
    /\ rdAt = "store"
    /\ count' = rdCount
    /\ torn' = (torn \/ rdCount # count)
    /\ rdAt' = "idle"
    /\ UNCHANGED <<buf, cbVars, tail, rdCount, taken>>

RdStore ==
    /\ rdAt = "store"
    /\ count' = rdCount - 1
    /\ torn' = (torn \/ rdCount # count)
    /\ rdAt' = "idle"
    /\ UNCHANGED <<buf, cbVars, tail, rdCount, taken>>

Reader == RdTake \/ RdLoad \/ RdStore

-----------------------------------------------------------------------------

\* Bytes that are in the ring
Held == Len(arrived) - Len(taken)

\* The count each side adds or removes late
Late(at) == IF at \in Counting THEN 1 ELSE 0

\* As long as no update of the count is lost and no put overlaps an init,
\* what is read is what was put since init, in order, nothing twice and
\* nothing skipped, although slot, head, tail and count are never updated
\* together and an init may find a callback between its test and its slot.
ReadInOrder ==
    ~ torn =>
       /\ Len(taken) <= Len(arrived)
       /\ \A k \in 1 .. Len(taken) : taken[k] = arrived[k]

\* Likewise the count is right but for what either side is late with: no byte
\* stays behind in a ring that says it is empty, none is read from an empty
\* one, and none that was not read is overwritten.
CountRight ==
    ~ torn /\ rdAt \notin Zeroing =>
       /\ Held \in 0 .. Size
       /\ count = Held - Late(cbAt) + Late(rdAt)

\* What the two sides may rely on whatever happened to the count.
RingBounds ==
    /\ cbAt # "idle" => cbLeft # <<>>
    /\ cbAt \in Putting => count < Size /\ cbCount < Size
    /\ rdAt \in {"take"} \cup Counting => count > 0 /\ rdCount > 0

\* Until the ring is torn its state is that of a queue: the positions and the
\* count follow the bytes put and taken, and the slots hold what is between.
IsQueue ==
    /\ rdAt \notin Zeroing => count = Held - Late(cbAt) + Late(rdAt)
    /\ rdAt \in Zeroing => arrived = <<>> /\ taken = <<>> /\ cbAt \notin Passing
    /\ head = Len(arrived) % Size
    /\ rdAt # "zeroTail" => tail = Len(taken) % Size
    /\ cbAt = "advance" => cbHead = head /\ buf[head] = Head(cbLeft)
    /\ \A k \in 1 .. Len(taken) : k <= Len(arrived) => taken[k] = arrived[k]
    /\ \A k \in 1 .. Len(arrived) :
          k > Len(taken) => buf[(k - 1) % Size] = arrived[k]

\* The inductive invariant of the ring.
RingInv == RingTypeOK /\ RingBounds /\ (~ torn => IsQueue)

=============================================================================
