--------------------------- MODULE StreamDecompress ---------------------------
(***************************************************************************)
(* Decompression of a stream that arrives in chunks.  The context keeps    *)
(* the algorithm and a count, nothing of the stream: a chunk is decoded as *)
(* if it were the first.                                                   *)
(***************************************************************************)
EXTENDS Integers, SequencesExt

CONSTANTS
    Esc,          \* the byte that starts a run: 0x90
    RleChunks,    \* the chunks that may arrive
    RleRoom,      \* capacities of the output buffer
    MaxRle        \* bound on the bytes of the stream

ASSUME RleAssumption == RleChunks \subseteq Seq(Nat) /\ RleRoom \subseteq Nat

VARIABLES
    algo,         \* "rle" or "none"; the other names of the enum copy too
    fed,          \* history: the compressed stream so far
    unpacked,     \* history: what the calls have produced, one behind the other
    runCut,       \* history: a chunk began or ended inside a run
    roomCut       \* history: an output buffer was too small

rleVars == <<algo, fed, unpacked, runCut, roomCut>>

RleInit ==
    /\ algo \in {"rle", "none"}
    /\ fed = <<>> /\ unpacked = <<>>
    /\ runCut = FALSE /\ roomCut = FALSE

Smaller(m, n) == IF m < n THEN m ELSE n

Copies(b, n) == [i \in 1 .. n |-> b]

\* A byte Esc and a count that is not 0
IsRun(s, i) == i < Len(s) /\ s[i] = Esc /\ s[i + 1] # 0

\* Seeded fault: the length byte of a run is decoded again.
RleByteAgain(in, st, i) ==
    IF IsRun(in, i)
    THEN [st EXCEPT !.out = @ \o Copies(IF @ = <<>> THEN 0 ELSE Last(@), in[i + 1])]
    ELSE [st EXCEPT !.out = Append(@, in[i])]

\* The loop of stream_decompress_process at byte i; skip: the byte before was
\* the Esc of a run.
RleByte(in, st, i) ==
    IF st.skip THEN [st EXCEPT !.skip = FALSE]
    ELSE IF IsRun(in, i)
    THEN [skip |-> TRUE,
          out  |-> st.out \o Copies(IF st.out = <<>> THEN 0 ELSE Last(st.out), in[i + 1])]
    ELSE [st EXCEPT !.out = Append(@, in[i])]

\* What one call makes of a chunk.  A full output buffer ends the loop, in the
\* middle of a run too, and the caller is not told what was left.
Unpack(in) ==
    LET after[i \in 0 .. Len(in)] ==
          IF i = 0 THEN [skip |-> FALSE, out |-> <<>>] ELSE RleByte(in, after[i - 1], i)
    IN  IF algo = "rle" THEN after[Len(in)].out ELSE in

\* Byte i of stream s is not the count of a run.
Begins(s) ==
    LET b[i \in DOMAIN s] == i = 1 \/ ~ (b[i - 1] /\ IsRun(s, i - 1)) IN b

\* A cut in front of byte i that a decoder without memory must get wrong: the
\* run there repeats what came before, or the cut goes through a run.
CutsRun(s, i) == \E k \in {i - 1, i} : Begins(s)[k] /\ IsRun(s, k)

RleChunk ==
    \E in \in RleChunks, room \in RleRoom :
       /\ Len(fed \o in) <= MaxRle
       /\ fed' = fed \o in
       /\ unpacked' = unpacked \o SubSeq(Unpack(in), 1, Smaller(Len(Unpack(in)), room))
       /\ runCut' = (runCut \/ (fed # <<>> /\ CutsRun(fed \o in, Len(fed) + 1)))
       /\ roomCut' = (roomCut \/ Len(Unpack(in)) > room)
       /\ UNCHANGED algo

\* The byte that a run at i repeats
Before(s) ==
    LET b[i \in 1 .. Len(s) + 1] ==
          IF i = 1 THEN 0
          ELSE IF Begins(s)[i - 1] /\ ~ IsRun(s, i - 1) THEN s[i - 1] ELSE b[i - 1]
    IN  b

\* What each byte of s stands for, and what a decoder that remembers makes of s
Piece(s, i) ==
    IF ~ Begins(s)[i] THEN <<>>
    ELSE IF IsRun(s, i) THEN Copies(Before(s)[i], s[i + 1]) ELSE <<s[i]>>

Expanded(s) == FlattenSeq([i \in DOMAIN s |-> Piece(s, i)])

\* As long as no cut goes through a run or lies in front of one (the code starts
\* every chunk without memory) and the output fits, what comes out does not
\* depend on how the stream was cut into chunks.
ChunksInvisible ==
    ~ runCut /\ ~ roomCut => unpacked = IF algo = "rle" THEN Expanded(fed) ELSE fed

=============================================================================
