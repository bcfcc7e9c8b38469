---------------------------- MODULE NfcTransport ----------------------------
(***************************************************************************)
(* The NFC adapter: events of the Type 4 Tag library on one side, the      *)
(* read_byte and write_bytes of the engine on the other.  The engine's     *)
(* thread reads and writes; bytes are known by their number.               *)
(***************************************************************************)
EXTENDS RxRing

CONSTANTS
    FlushMax,     \* bytes of one outgoing NDEF record: 255
    MaxBytes,     \* bound on the bytes received
    MaxSent       \* bound on the bytes written between two initialisations

ASSUME NfcAssumption ==
    /\ FlushMax \in 1 .. Size
    /\ MaxBytes \in Nat /\ MaxSent \in Nat

VARIABLES
    field,        \* nfc_field_active
    framing,      \* auto_ndef_framing, with a raw_tx_cb
    received,     \* bytes received so far
    txRing,       \* the bytes in the transmit ring
    offered,      \* bytes given to write_bytes while the field was on
    accepted,     \* history: the bytes the transmit ring has taken
    passed,       \* history: the bytes handed to raw_tx_cb or to the flusher
    flushLost,    \* history: a flush had no room for what it took out
    longWrite     \* history: a write of more than FlushMax bytes

txVars == <<txRing, offered, accepted, passed, flushLost, longWrite>>
nfcVars == <<field, framing, received, txVars>>

NfcTypeOK ==
    /\ {field, framing, flushLost, longWrite} \subseteq BOOLEAN
    /\ {received, offered} \subseteq Nat
    /\ txRing \in Seq(Nat) /\ Len(txRing) <= Size
    /\ accepted \in Seq(Nat) /\ passed \in Seq(Nat)

\* The statics, and the configuration the application will give to init
NfcInit ==
    /\ field = FALSE
    /\ framing \in BOOLEAN
    /\ received = 0
    /\ txRing = <<>>
    /\ offered = 0
    /\ accepted = <<>> /\ passed = <<>>
    /\ flushLost = FALSE /\ longWrite = FALSE

\* The n bytes that follow byte number k
Numbered(k, n) == [i \in 1 .. n |-> k + i]

-----------------------------------------------------------------------------

\* nfc_transport_init, again: the configuration and the first store to the
\* receive ring, the other two, and the transmit ring with the field.  The
\* callback uses none of the configuration, the transmit ring and the field.
NfcReset ==
    /\ RingReset
    /\ framing' \in BOOLEAN
    /\ UNCHANGED <<field, received, txVars>>

NfcZero == (ZeroTail \/ ZeroCount("clear")) /\ UNCHANGED nfcVars

NfcClear ==
    /\ rdAt = "clear"
    /\ rdAt' = "idle"
    /\ field' = FALSE
    /\ txRing' = <<>>
    /\ accepted' = <<>> /\ passed' = <<>>
    /\ offered' = 0
    /\ flushLost' = FALSE /\ longWrite' = FALSE
    /\ UNCHANGED <<buf, count, torn, cbVars, tail, rdCount, taken, framing, received>>

\* The two field events come from the driver, like data; start and stop from
\* the engine's thread.
SetField ==
    /\ cbAt = "idle" \/ rdAt = "idle"
    /\ field' = ~ field
    /\ UNCHANGED <<ringVars, framing, received, txVars>>

\* A data event.  What is around the payload, the header and what follows
\* the record, is dropped when the header describes a record of this type
\* that the message holds whole; else all of the message is payload.
NfcPayload(record, load, around) ==
    IF record THEN load ELSE around \o load

NfcData ==
    \E n, a \in 0 .. Size + 1, record \in BOOLEAN :
       /\ n + a > 0 /\ received + n + a <= MaxBytes
       /\ received' = received + n + a
       /\ CbStart(NfcPayload(record, Numbered(received + a, n), Numbered(received, a)))
       /\ UNCHANGED <<field, framing, txVars>>

NfcRead ==
    /\ RdStart \/ (field /\ RdFound) \/ Reader
    /\ UNCHANGED nfcVars

\* -2 without a field, or -1 when the time is over and the ring still empty
NfcNoByte ==
    /\ ~ field \/ count = 0
    /\ RdGivesUp
    /\ UNCHANGED nfcVars

-----------------------------------------------------------------------------

Least(m, n) == IF m < n THEN m ELSE n

\* Seeded fault: the record is left one byte short.
TakenOutShort(q) == Least(Len(q), FlushMax - 1)

\* extract_len of nfc_transport_flush_tx_ndef
TakenOut(q) == Least(Len(q), FlushMax)

\* nfc_transport_flush_tx_ndef of a ring q for a buffer with room for room
\* bytes of payload: the bytes are out of the ring when encode_ndef_record tests
\* the room.
Flush(q, room) ==
    LET n == TakenOut(q)
    IN  /\ txRing' = SubSeq(q, n + 1, Len(q))
        /\ passed' = IF n <= room THEN passed \o SubSeq(q, 1, n) ELSE passed
        /\ flushLost' = (flushLost \/ n > room)

\* Seeded fault: the bytes do not go behind those already there.
Before(chunk) == SubSeq(chunk \o txRing, 1, Least(Len(txRing \o chunk), Size))

\* The ring after the bytes of a write that fit; the rest is dropped.
Behind(chunk) == SubSeq(txRing \o chunk, 1, Least(Len(txRing \o chunk), Size))

\* write_bytes returns 0, whatever became of the bytes.
NfcWrite(n) ==
    /\ rdAt = "idle" /\ field
    /\ n > 0 /\ offered + n <= MaxSent
    /\ LET q == Behind(Numbered(offered, n))
       IN  /\ accepted' = accepted \o SubSeq(q, Len(txRing) + 1, Len(q))
           /\ IF framing THEN Flush(q, FlushMax)
                         ELSE /\ txRing' = q
                              /\ UNCHANGED <<passed, flushLost>>
    /\ offered' = offered + n
    /\ longWrite' = (longWrite \/ n > FlushMax)
    /\ UNCHANGED <<ringVars, field, framing, received>>

\* write_bytes returns -2.
NfcWriteNoField ==
    /\ rdAt = "idle" /\ ~ field
    /\ UNCHANGED <<ringVars, nfcVars>>

\* The application takes a record out itself.
NfcFlush(room) ==
    /\ rdAt = "idle" /\ txRing # <<>>
    /\ Flush(txRing, room)
    /\ UNCHANGED <<ringVars, field, framing, received, offered, accepted, longWrite>>

NfcNext ==
    \/ NfcReset \/ NfcZero \/ NfcClear \/ SetField \/ NfcData \/ NfcRead \/ NfcNoByte
    \/ Callback /\ UNCHANGED nfcVars
    \/ NfcWriteNoField
    \/ \E n \in 1 .. Size + 1 : NfcWrite(n)
    \/ \E room \in 0 .. FlushMax : NfcFlush(room)

-----------------------------------------------------------------------------

\* Init is under way and has not come to the transmit ring.
Clearing == rdAt \in Zeroing \cup {"clear"}

\* What goes out is what the ring took, in order: bytes are held back or
\* handed on, and only a flush into too small a buffer loses any.
SentInOrder == ~ flushLost => passed \o txRing = accepted

\* With NDEF framing on and no write above FlushMax bytes, every byte of a
\* write is with the driver when write_bytes returns: none waits in the ring
\* for the next write, and none was dropped by a full ring.
ShortWritesLeave ==
    framing /\ ~ longWrite /\ ~ Clearing => txRing = <<>> /\ Len(accepted) = offered

=============================================================================
