----------------------------- MODULE LogRotation -----------------------------
(***************************************************************************)
(* The log in chunks that are used in turn.                                *)
(***************************************************************************)
EXTENDS Integers

CONSTANTS
    DefaultChunk, \* 65536
    DefaultTotal, \* 5
    MaxConfig,    \* bound on the configured sizes
    MaxWrite      \* bound on one write

ASSUME LogRotationAssumption ==
    /\ {DefaultChunk, DefaultTotal} \subseteq Nat \ {0}
    /\ {MaxConfig, MaxWrite} \subseteq Nat

VARIABLES
    maxChunk,     \* config.max_chunk_size
    total,        \* config.max_total_chunks
    chunk,        \* current_chunk_index
    chunkBytes,   \* current_chunk_bytes
    chunkFirst,   \* history: the first write to the current chunk
    oneWrite,     \* history: the current chunk holds one write
    previous      \* history: the bytes in the chunk before, -1 if there is none

logVars == <<maxChunk, total, chunk, chunkBytes, chunkFirst, oneWrite, previous>>

\* A configured 0 stands for the default.
Configured(n, default) == IF n = 0 THEN default ELSE n

LogInit ==
    /\ \E n, m \in 0 .. MaxConfig :
          maxChunk = Configured(n, DefaultChunk) /\ total = Configured(m, DefaultTotal)
    /\ chunk = 0 /\ chunkBytes = 0
    /\ chunkFirst = 0 /\ oneWrite = FALSE /\ previous = -1

\* Seeded fault: the last write may go over the maximum.
RotatesLate(n) == chunkBytes >= maxChunk

\* The write does not fit behind what is in the chunk.
Rotates(n) == chunkBytes + n > maxChunk

LogWrite ==
    \E n \in 1 .. MaxWrite :
       /\ IF Rotates(n)
          THEN /\ chunk' = (chunk + 1) % total
               /\ chunkBytes' = n
               /\ chunkFirst' = n /\ oneWrite' = TRUE
               /\ previous' = chunkBytes
          ELSE /\ chunkBytes' = chunkBytes + n
               /\ chunkFirst' = IF chunkBytes = 0 THEN n ELSE chunkFirst
               /\ oneWrite' = (chunkBytes = 0)
               /\ UNCHANGED <<chunk, previous>>
       /\ UNCHANGED <<maxChunk, total>>

\* A chunk is larger than its maximum only when it holds a single write that
\* is; and a chunk is left only for a write that does not fit, so that two
\* neighbours always hold more than the maximum and the log keeps at least
\* half of what its chunks could hold.
ChunksUsed ==
    /\ chunk \in 0 .. total - 1
    /\ chunkBytes > maxChunk => oneWrite
    /\ previous # -1 => previous + chunkFirst > maxChunk /\ chunkFirst <= chunkBytes

=============================================================================
