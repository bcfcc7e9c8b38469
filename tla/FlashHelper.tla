----------------------------- MODULE FlashHelper -----------------------------
(***************************************************************************)
(* Sectors erased ahead of a stream that is written to flash.              *)
(***************************************************************************)
EXTENDS Integers

CONSTANTS
    SectorSize,   \* sector_size: 4096, a power of two
    MaxFlash      \* bound on the bytes written, and on one write

ASSUME FlashAssumption == SectorSize \in Nat \ {0} /\ MaxFlash \in Nat

VARIABLES
    offset,       \* current_offset
    erased        \* erased_offset

flashVars == <<offset, erased>>

FlashInit == offset = 0 /\ erased = 0

\* Seeded fault: the sector that n is in counts as erased.
SectorBelow(n) == SectorSize * (n \div SectorSize)

\* (n + sector_size - 1) & ~(sector_size - 1)
SectorEnd(n) == SectorSize * ((n + SectorSize - 1) \div SectorSize)

FlashWrite ==
    \E n \in 0 .. MaxFlash :
       /\ offset + n <= MaxFlash
       /\ erased' = IF offset + n > erased THEN SectorEnd(offset + n) ELSE erased
       /\ offset' = offset + n

\* However the stream is cut into writes, whole sectors are erased, in time
\* and never one that no byte has been written to.
ErasedAhead ==
    /\ offset <= erased
    /\ erased < offset + SectorSize
    /\ erased % SectorSize = 0

=============================================================================
