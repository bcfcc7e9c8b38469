---------------------------- MODULE StreamsProofs ----------------------------
(***************************************************************************)
(* What holds of the storage helpers for sectors, chunks and writes of any *)
(* size.  The parts share nothing, so each has an invariant of its own.    *)
(***************************************************************************)
EXTENDS Streams, SequenceTheorems, WellFoundedInduction, TLAPS

\* A step of the whole is a step of the part or leaves it alone.
LEMMA PartSteps ==
    ASSUME [Next]_vars
    PROVE  /\ [FlashWrite]_flashVars
           /\ [LogWrite]_logVars
           /\ [FramesNext]_frameVars
           /\ [RleChunk]_rleVars
           /\ [ApplyChunk]_deltaVars
           /\ [Encrypt \/ Decrypt]_encVars
           /\ [AutoByte]_autoVars
<1>1. CASE UNCHANGED vars
    BY <1>1 DEF vars, frameVars, flashVars, logVars, rleVars, deltaVars, encVars, autoVars
<1>2. CASE Next
    BY <1>2 DEF Next
<1> QED
    BY <1>1, <1>2

-----------------------------------------------------------------------------
(* Flash *)

FlashInv == offset \in Nat /\ erased \in Nat /\ ErasedAhead

\* The end of a sector is a whole number of sectors, at least n, and less than
\* one sector behind it.
LEMMA SectorEndFits ==
    ASSUME NEW n \in Nat
    PROVE  /\ SectorEnd(n) \in Nat
           /\ n <= SectorEnd(n) /\ SectorEnd(n) < n + SectorSize
           /\ SectorEnd(n) % SectorSize = 0
<1> DEFINE S == SectorSize
           q == (n + S - 1) \div S
<1>1. S \in Nat \ {0}
    BY FlashAssumption
<1>2. q \in Nat /\ n + S - 1 = S * q + ((n + S - 1) % S) /\ (n + S - 1) % S \in 0 .. S - 1
    BY <1>1
<1>3. S * q \in Nat /\ n <= S * q /\ S * q < n + S
    BY <1>1, <1>2
<1>4. (S * q) % S = 0
    BY <1>1, <1>2
<1> QED
    BY <1>3, <1>4 DEF SectorEnd

LEMMA FlashStep == ASSUME FlashInv, [FlashWrite]_flashVars PROVE FlashInv'
<1> USE FlashAssumption
<1>1. CASE UNCHANGED flashVars
    BY <1>1 DEF flashVars, FlashInv, ErasedAhead
<1>2. CASE FlashWrite
    <2>1. PICK n \in 0 .. MaxFlash :
             /\ erased' = IF offset + n > erased THEN SectorEnd(offset + n) ELSE erased
             /\ offset' = offset + n
        BY <1>2 DEF FlashWrite
    <2>2. n \in Nat /\ offset \in Nat /\ erased \in Nat /\ offset + n \in Nat
        BY DEF FlashInv
    <2>3. CASE offset + n > erased
        BY <2>1, <2>2, <2>3, SectorEndFits DEF FlashInv, ErasedAhead
    <2>4. CASE ~ (offset + n > erased)
        BY <2>1, <2>2, <2>4 DEF FlashInv, ErasedAhead
    <2> QED
        BY <2>3, <2>4
<1> QED
    BY <1>1, <1>2

\* For sectors of any size and writes of any length: whole sectors are erased,
\* in time and none too early.
THEOREM SectorsErasedAhead == Spec => []ErasedAhead
<1>1. Init => FlashInv
    <2>1. 0 % SectorSize = 0
        BY FlashAssumption
    <2> QED
        BY <2>1, FlashAssumption DEF Init, FlashInit, FlashInv, ErasedAhead
<1>2. FlashInv /\ [Next]_vars => FlashInv'
    BY PartSteps, FlashStep
<1>3. FlashInv => ErasedAhead
    BY DEF FlashInv
<1> QED
    BY <1>1, <1>2, <1>3, PTL DEF Spec

-----------------------------------------------------------------------------
(* Log *)

LogInv ==
    /\ {maxChunk, total} \subseteq Nat \ {0}
    /\ {chunkBytes, chunkFirst} \subseteq Nat
    /\ previous \in Nat \cup {-1}
    /\ oneWrite \in BOOLEAN
    /\ chunkFirst <= chunkBytes
    /\ chunkBytes = 0 => previous = -1
    /\ ChunksUsed

LEMMA LogStep == ASSUME LogInv, [LogWrite]_logVars PROVE LogInv'
<1> USE LogRotationAssumption
<1>1. CASE UNCHANGED logVars
    BY <1>1 DEF logVars, LogInv, ChunksUsed
<1>2. CASE LogWrite
    <2>1. PICK n \in 1 .. MaxWrite :
             /\ IF Rotates(n)
                THEN /\ chunk' = (chunk + 1) % total
                     /\ chunkBytes' = n
                     /\ chunkFirst' = n /\ oneWrite' = TRUE
                     /\ previous' = chunkBytes
                ELSE /\ chunkBytes' = chunkBytes + n
                     /\ chunkFirst' = IF chunkBytes = 0 THEN n ELSE chunkFirst
                     /\ oneWrite' = (chunkBytes = 0)
                     /\ UNCHANGED <<chunk, previous>>
             /\ UNCHANGED <<maxChunk, total>>
        BY <1>2 DEF LogWrite
    <2>2. /\ n \in Nat /\ n > 0
          /\ maxChunk \in Nat \ {0} /\ total \in Nat \ {0} /\ chunk \in 0 .. total - 1
          /\ chunkBytes \in Nat /\ chunkFirst \in Nat /\ previous \in Nat \cup {-1}
        BY DEF LogInv, ChunksUsed
    <2>3. CASE Rotates(n)
        <3>1. (chunk + 1) % total \in 0 .. total - 1
            BY <2>2
        <3> QED
            BY <2>1, <2>2, <2>3, <3>1 DEF LogInv, ChunksUsed, Rotates
    <2>4. CASE ~ Rotates(n)
        BY <2>1, <2>2, <2>4 DEF LogInv, ChunksUsed, Rotates
    <2> QED
        BY <2>3, <2>4
<1> QED
    BY <1>1, <1>2

\* For any configuration and any writes: a chunk over its maximum is a single
\* write, and two neighbours hold more than the maximum.
THEOREM ChunksWellUsed == Spec => []ChunksUsed
<1>1. Init => LogInv
    <2> SUFFICES ASSUME LogInit PROVE LogInv
        BY DEF Init
    <2>1. maxChunk \in Nat \ {0} /\ total \in Nat \ {0}
        BY LogRotationAssumption DEF LogInit, Configured
    <2>2. /\ chunk = 0 /\ chunkBytes = 0 /\ chunkFirst = 0 /\ previous = -1
        BY DEF LogInit
    <2>3. oneWrite \in BOOLEAN
        BY Zenon DEF LogInit
    <2>4. chunk \in 0 .. total - 1 /\ chunkBytes <= maxChunk
        BY <2>1, <2>2
    <2> QED
        BY <2>1, <2>2, <2>3, <2>4 DEF LogInv, ChunksUsed
<1>2. LogInv /\ [Next]_vars => LogInv'
    BY PartSteps, LogStep
<1>3. LogInv => ChunksUsed
    BY DEF LogInv
<1> QED
    BY <1>1, <1>2, <1>3, PTL DEF Spec

-----------------------------------------------------------------------------
(* Delta update *)

Bits == {0, 1}

DeltaInv ==
    /\ patch \in Seq(Bits) /\ target \in Seq(Bits)
    /\ hasBase \in BOOLEAN /\ shortOut \in BOOLEAN
    /\ patchOffset = Len(patch) /\ written = Len(target)
    /\ written <= patchOffset
    /\ PatchedInPlace

\* The sum of two bits is a bit.
LEMMA BitSum == \A a, b \in Bits : (a + b) % 2 \in Bits
<1>1. \A a, b \in Bits : a + b \in {0, 1, 2}
    BY DEF Bits
<1>2. 0 % 2 = 0 /\ 1 % 2 = 1 /\ 2 % 2 = 0
    OBVIOUS
<1> QED
    BY <1>1, <1>2 DEF Bits

LEMMA BaseByte == ASSUME NEW k \in Nat \ {0}, k <= Len(Base) PROVE Base[k] \in Bits
    BY DeltaAssumption DEF Bits

\* A byte of the output is a bit; where there is a base, it is the sum.
LEMMA PatchedByte ==
    ASSUME written \in Nat, NEW i \in Nat \ {0},
           NEW diff, NEW beyond, diff[i] \in Bits, beyond[i] \in Bits
    PROVE  /\ Patched(diff, beyond, i) \in Bits
           /\ written + i <= Len(Base) =>
                Patched(diff, beyond, i) =
                  (diff[i] + IF hasBase THEN Base[written + i] ELSE 0) % 2
<1>1. diff[i] \in Bits /\ beyond[i] \in Bits /\ i \in Nat \ {0} /\ Len(Base) \in Nat
    BY DeltaAssumption
<1>2. CASE ~ hasBase
    <2>1. Patched(diff, beyond, i) = diff[i]
        BY <1>2 DEF Patched
    <2>2. (diff[i] + 0) % 2 = diff[i]
        BY <1>1 DEF Bits
    <2> QED
        BY <1>1, <1>2, <2>1, <2>2
<1>3. CASE hasBase /\ written + i <= Len(Base)
    <2>1. Base[written + i] \in Bits
        BY <1>1, <1>3, BaseByte
    <2>2. Patched(diff, beyond, i) = (diff[i] + Base[written + i]) % 2
        BY <1>3 DEF Patched, BaseAt
    <2> QED
        BY <1>1, <1>3, <2>1, <2>2, BitSum
<1>4. CASE hasBase /\ ~ (written + i <= Len(Base))
    BY <1>1, <1>4 DEF Patched, BaseAt
<1> QED
    BY <1>2, <1>3, <1>4

\* Where the bits of s and of t are in s \o t
LEMMA ConcatBits ==
    ASSUME NEW s \in Seq(Bits), NEW t \in Seq(Bits)
    PROVE  /\ s \o t \in Seq(Bits)
           /\ Len(s \o t) = Len(s) + Len(t)
           /\ \A i \in 1 .. Len(s) : (s \o t)[i] = s[i]
           /\ \A j \in 1 .. Len(t) : (s \o t)[Len(s) + j] = t[j]
    OBVIOUS

LEMMA DeltaStep ==
    ASSUME DeltaInv, NEW n \in 1 .. MaxPatch, NEW m \in 1 .. n, Apply(n, m)
    PROVE  DeltaInv'
<1> DEFINE bits(s, t) == \A i \in 1 .. Len(t) :
               i <= Len(Base) => t[i] = (s[i] + IF hasBase THEN Base[i] ELSE 0) % 2
<1>1. PICK diff \in [1 .. n -> Bits], beyond \in [1 .. m -> Bits] :
         /\ patch' = patch \o diff
         /\ target' = target \o [i \in 1 .. m |-> Patched(diff, beyond, i)]
    BY DEF Apply, Bits
<1> DEFINE out == [i \in 1 .. m |-> Patched(diff, beyond, i)]
<1>2. n \in Nat /\ m \in Nat /\ 1 <= m /\ m <= n
    BY DeltaAssumption
<1>3. /\ patch \in Seq(Bits) /\ target \in Seq(Bits)
      /\ patchOffset = Len(patch) /\ written = Len(target) /\ written <= patchOffset
      /\ patchOffset \in Nat /\ written \in Nat
      /\ hasBase \in BOOLEAN /\ shortOut \in BOOLEAN
    BY DEF DeltaInv
<1>4. \A i \in 1 .. m :
         /\ out[i] \in Bits
         /\ written + i <= Len(Base) =>
              out[i] = (diff[i] + IF hasBase THEN Base[written + i] ELSE 0) % 2
    <2> TAKE i \in 1 .. m
    <2>1. out[i] = Patched(diff, beyond, i)
        OBVIOUS
    <2> HIDE DEF out
    <2>2. /\ Patched(diff, beyond, i) \in Bits
          /\ written + i <= Len(Base) =>
               Patched(diff, beyond, i) =
                 (diff[i] + IF hasBase THEN Base[written + i] ELSE 0) % 2
        <3>1. i \in Nat \ {0} /\ diff[i] \in Bits /\ beyond[i] \in Bits
            BY <1>1, <1>2
        <3> QED
            BY <1>3, <3>1, PatchedByte
    <2> QED
        BY <2>1, <2>2, Zenon
<1>5. diff \in Seq(Bits) /\ Len(diff) = n
    BY <1>2
<1>6. out \in Seq(Bits) /\ Len(out) = m
    BY <1>2, <1>4
<1>7. patch' = patch \o diff /\ target' = target \o out
    BY <1>1
<1> HIDE DEF out
<1>8. /\ written' = written + m /\ patchOffset' = patchOffset + n
      /\ hasBase' = hasBase
    BY DEF Apply
<1>9. shortOut' = (shortOut \/ m < n)
    BY DEF Apply
<1>10. /\ patch' \in Seq(Bits) /\ target' \in Seq(Bits)
       /\ Len(patch') = patchOffset + n /\ Len(target') = written + m
    BY <1>3, <1>5, <1>6, <1>7, ConcatBits
<1>11. written' <= patchOffset'
    BY <1>2, <1>3, <1>8
<1>12. (shortOut \/ m < n) <=> written + m < patchOffset + n
    <2>1. shortOut <=> written < patchOffset
        BY DEF DeltaInv, PatchedInPlace
    <2>2. CASE written < patchOffset
        BY <1>2, <1>3, <2>1, <2>2
    <2>3. CASE written = patchOffset
        BY <1>2, <1>3, <2>1, <2>3
    <2> QED
        BY <1>3, <2>2, <2>3
<1>13. ASSUME ~ (shortOut \/ m < n) PROVE bits(patch', target')
    <2>1. ~ shortOut /\ m = n
        BY <1>2, <1>13
    <2>2. written = patchOffset /\ bits(patch, target)
        BY <1>3, <2>1 DEF DeltaInv, PatchedInPlace
    <2> SUFFICES ASSUME NEW i \in 1 .. Len(target'), i <= Len(Base)
                 PROVE  target'[i] = (patch'[i] + IF hasBase THEN Base[i] ELSE 0) % 2
        OBVIOUS
    <2>3. i \in Nat \ {0} /\ i <= written + m
        BY <1>2, <1>3, <1>10
    <2>4. CASE i <= written
        <3>1. target'[i] = target[i] /\ patch'[i] = patch[i]
            <4>1. i \in 1 .. Len(target) /\ i \in 1 .. Len(patch)
                BY <1>3, <2>2, <2>3, <2>4
            <4>2. (target \o out)[i] = target[i]
                BY <1>3, <1>6, <4>1, ConcatBits
            <4>3. (patch \o diff)[i] = patch[i]
                BY <1>3, <1>5, <4>1, ConcatBits
            <4> QED
                BY <1>7, <4>2, <4>3
        <3>2. target[i] = (patch[i] + IF hasBase THEN Base[i] ELSE 0) % 2
            BY <1>3, <2>2, <2>3, <2>4
        <3> QED
            BY <3>1, <3>2
    <2>5. CASE i > written
        <3> DEFINE j == i - written
        <3>1. j \in 1 .. m /\ written + j = i
            BY <1>2, <1>3, <2>3, <2>5
        <3>2. target'[i] = out[j] /\ patch'[i] = diff[j]
            <4>1. i = Len(target) + j /\ i = Len(patch) + j /\ j \in 1 .. Len(out)
                  /\ j \in 1 .. Len(diff)
                BY <1>2, <1>3, <1>5, <1>6, <2>1, <2>2, <2>3, <3>1
            <4> HIDE DEF j
            <4>2. (target \o out)[Len(target) + j] = out[j]
                BY <1>3, <1>6, <4>1, ConcatBits
            <4>3. (patch \o diff)[Len(patch) + j] = diff[j]
                BY <1>3, <1>5, <4>1, ConcatBits
            <4> QED
                BY <1>7, <4>1, <4>2, <4>3
        <3> HIDE DEF j
        <3>3. out[j] = (diff[j] + IF hasBase THEN Base[i] ELSE 0) % 2
            BY <1>4, <3>1
        <3> QED
            BY <3>2, <3>3
    <2> QED
        BY <1>3, <2>3, <2>4, <2>5
<1>14. PatchedInPlace'
    <2>1. shortOut' <=> written' < patchOffset'
        BY <1>8, <1>9, <1>12
    <2>2. ASSUME ~ shortOut' PROVE Len(target') = patchOffset'
        <3>1. ~ (written + m < patchOffset + n)
            BY <1>9, <1>12, <2>2
        <3> QED
            BY <1>2, <1>3, <1>8, <1>10, <1>11, <3>1
    <2>3. ~ shortOut' => bits(patch', target')
        BY <1>9, <1>13
    <2>4. DOMAIN target' = 1 .. Len(target')
        BY <1>10
    <2> QED
        BY <1>8, <2>1, <2>2, <2>3, <2>4 DEF PatchedInPlace
<1>15. hasBase' \in BOOLEAN /\ shortOut' \in BOOLEAN
    BY <1>3, <1>8, <1>9, Zenon
<1> QED
    BY <1>8, <1>10, <1>11, <1>14, <1>15 DEF DeltaInv

\* For any base, patch, cut and room: as long as the output fits, the target
\* is the base with the patch applied.
THEOREM TargetIsPatched == Spec => []PatchedInPlace
<1>1. Init => DeltaInv
    <2> SUFFICES ASSUME DeltaInit PROVE DeltaInv
        BY DEF Init
    <2>1. hasBase \in BOOLEAN
        BY Zenon DEF DeltaInit
    <2>2. /\ patch = <<>> /\ patchOffset = 0 /\ written = 0 /\ target = <<>>
          /\ shortOut = FALSE
        BY DEF DeltaInit
    <2>3. Len(target) = 0 /\ DOMAIN target = {}
        BY <2>2
    <2>4. PatchedInPlace
        BY <2>2, <2>3 DEF PatchedInPlace
    <2>5. /\ patch \in Seq(Bits) /\ target \in Seq(Bits)
          /\ patchOffset = Len(patch) /\ written = Len(target) /\ written <= patchOffset
        BY <2>2
    <2>6. shortOut \in BOOLEAN
        BY <2>2, Zenon
    <2> QED
        BY <2>1, <2>2, <2>4, <2>5, <2>6 DEF DeltaInv
<1>2. DeltaInv /\ [Next]_vars => DeltaInv'
    <2> SUFFICES ASSUME DeltaInv, [Next]_vars PROVE DeltaInv'
        OBVIOUS
    <2>1. CASE ApplyChunk
        BY <2>1, DeltaStep DEF ApplyChunk
    <2>2. CASE UNCHANGED deltaVars
        BY <2>2 DEF deltaVars, DeltaInv, PatchedInPlace
    <2> QED
        BY <2>1, <2>2, PartSteps
<1>3. DeltaInv => PatchedInPlace
    BY DEF DeltaInv
<1> QED
    BY <1>1, <1>2, <1>3, PTL DEF Spec

-----------------------------------------------------------------------------
(* Auto-start *)

\* What is in the buffer: the bytes of lastThree, the last of them in the slot
\* before autoIdx.  Until there are three the index has not wrapped.
LastInBuffer ==
    \A d \in 1 .. Len(lastThree) :
       autoBuf[(autoIdx - d) % BufLen] = lastThree[Len(lastThree) + 1 - d]

AutoInv ==
    /\ autoBuf \in [0 .. BufLen - 1 -> AutoBytes]
    /\ autoIdx \in 0 .. IdxMod - 1
    /\ lastThree \in Seq(AutoBytes)
    /\ Len(lastThree) <= 3
    /\ Len(lastThree) < 3 => autoIdx = Len(lastThree)
    /\ LastInBuffer
    /\ StartsOnRz

\* Numbers that differ by less than M differ modulo M.
LEMMA SlotsDiffer ==
    ASSUME NEW x \in Int, NEW y \in Int, NEW M \in Nat \ {0},
           x < y, y < x + M
    PROVE  x % M # y % M
<1> DEFINE p == x \div M
           q == y \div M
<1> SUFFICES ASSUME x % M = y % M PROVE FALSE
    OBVIOUS
<1>1. x = M * p + (x % M) /\ p \in Int
    BY SMT
<1>2. y = M * q + (y % M) /\ q \in Int
    BY SMT
<1>3. y - x = M * (q - p)
    BY <1>1, <1>2, SMT
<1> HIDE DEF p, q
<1>4. q - p >= 1 => M * (q - p) >= M
    BY <1>1, <1>2, SMT
<1>5. q - p <= 0 => M * (q - p) <= 0
    BY <1>1, <1>2, SMT
<1> QED
    BY <1>1, <1>2, <1>3, <1>4, <1>5, SMT

\* A remainder is the one of any number that differs by a multiple.
LEMMA SameRemainder ==
    ASSUME NEW M \in Nat \ {0}, NEW k \in Int, NEW c \in Int
    PROVE  (M * k + c) % M = c % M
<1> DEFINE p == c \div M
           x == M * k + c
           q == x \div M
<1>1. c = M * p + (c % M) /\ p \in Int /\ c % M \in 0 .. M - 1
    BY SMT
<1>2. x \in Int
    BY SMT
<1>3. x = M * q + (x % M) /\ q \in Int /\ x % M \in 0 .. M - 1
    BY <1>2, SMT
<1>4. M * (q - k - p) = (c % M) - (x % M)
    BY <1>1, <1>3, SMT
<1> HIDE DEF p, q, x
<1>5. q - k - p >= 1 => M * (q - k - p) >= M
    BY <1>1, <1>3, SMT
<1>6. q - k - p <= -1 => M * (q - k - p) <= -M
    BY <1>1, <1>3, SMT
<1>7. x % M = c % M
    BY <1>1, <1>3, <1>4, <1>5, <1>6, SMTT(30)
<1> QED
    BY <1>7 DEF x

\* The length of a sequence, and what is left when the first of three is dropped
LEMMA ShortLen ==
    ASSUME NEW S, NEW s \in Seq(S), Len(s) <= 3
    PROVE  Len(s) \in 0 .. 3
<1>1. Len(s) \in Nat
    OBVIOUS
<1>2. \A n \in Nat : n <= 3 => n \in 0 .. 3
    OBVIOUS
<1> QED
    BY <1>1, <1>2, Zenon

LEMMA TailOfThree ==
    ASSUME NEW S, NEW s \in Seq(S), Len(s) = 3
    PROVE  /\ Tail(s) \in Seq(S) /\ Len(Tail(s)) = 2
           /\ Tail(s)[1] = s[2] /\ Tail(s)[2] = s[3]
<1>1. Len(s) \in Nat /\ s # <<>>
    OBVIOUS
<1>2. Tail(s) \in Seq(S) /\ Len(Tail(s)) = 2
    BY <1>1
<1>3. \A i \in 1 .. Len(Tail(s)) : Tail(s)[i] = s[i + 1]
    BY <1>1, HeadTailProperties, Zenon
<1>4. Tail(s)[1] = s[2] /\ Tail(s)[2] = s[3]
    BY <1>2, <1>3
<1> QED
    BY <1>2, <1>4

\* The slots do not move when the index wraps.
LEMMA SlotsAfterWrap ==
    ASSUME NEW a \in 0 .. IdxMod - 1, NEW c \in Int
    PROVE  (((a + 1) % IdxMod) - c) % BufLen = (a + 1 - c) % BufLen
<1>1. /\ BufLen \in Nat \ {0} /\ IdxMod \in Nat \ {0}
      /\ IdxMod % BufLen = 0
    BY AutostartAssumption
<1>2. CASE a + 1 < IdxMod
    BY <1>1, <1>2
<1>3. CASE a + 1 = IdxMod
    <2> DEFINE k == IdxMod \div BufLen
    <2>1. IdxMod = BufLen * k /\ k \in Int
        BY <1>1
    <2>2. IdxMod % IdxMod = 0
        BY <1>1
    <2>3. a + 1 - c = BufLen * k + (0 - c) /\ 0 - c \in Int
        BY <1>3, <2>1
    <2> HIDE DEF k
    <2>4. (BufLen * k + (0 - c)) % BufLen = (0 - c) % BufLen
        BY <1>1, <2>1, <2>3, SameRemainder
    <2> QED
        BY <1>3, <2>2, <2>3, <2>4
<1> QED
    BY <1>1, <1>2, <1>3

LEMMA AutoStep == ASSUME AutoInv, AutoByte PROVE AutoInv'
<1>1. PICK b \in AutoBytes :
         /\ autoBuf' = [autoBuf EXCEPT ![autoIdx % BufLen] = b]
         /\ autoIdx' = (autoIdx + 1) % IdxMod
         /\ started' =
               /\ autoIdx' >= 3
               /\ autoBuf'[ThirdLast(autoIdx')] = "r"
               /\ autoBuf'[(ThirdLast(autoIdx') + 1) % BufLen] = "z"
               /\ autoBuf'[(ThirdLast(autoIdx') + 2) % BufLen] = "return"
         /\ lastThree' = (IF Len(lastThree) = 3 THEN Tail(lastThree) ELSE lastThree) \o <<b>>
    BY DEF AutoByte
<1>2. /\ autoBuf \in [0 .. BufLen - 1 -> AutoBytes]
      /\ autoIdx \in 0 .. IdxMod - 1 /\ autoIdx \in Nat
      /\ lastThree \in Seq(AutoBytes) /\ Len(lastThree) \in 0 .. 3
      /\ Len(lastThree) < 3 => autoIdx = Len(lastThree)
      /\ LastInBuffer
    <2>1. IdxMod \in Nat
        BY AutostartAssumption
    <2>2. /\ autoIdx \in 0 .. IdxMod - 1
          /\ lastThree \in Seq(AutoBytes) /\ Len(lastThree) <= 3
        BY DEF AutoInv
    <2>3. Len(lastThree) \in 0 .. 3
        BY <2>2, ShortLen
    <2>4. autoIdx \in Nat
        BY <2>1, <2>2
    <2> QED
        BY <2>2, <2>3, <2>4 DEF AutoInv
<1>3. BufLen \in Nat /\ BufLen >= 3 /\ IdxMod \in Nat /\ IdxMod >= BufLen
    <2>1. IdxMod < BufLen /\ IdxMod \in Nat \ {0} /\ BufLen \in Nat => IdxMod % BufLen = IdxMod
        OBVIOUS
    <2> QED
        BY <2>1, AutostartAssumption
<1>4. /\ autoBuf' \in [0 .. BufLen - 1 -> AutoBytes]
      /\ autoBuf'[autoIdx % BufLen] = b
      /\ \A i \in 0 .. BufLen - 1 : i # autoIdx % BufLen => autoBuf'[i] = autoBuf[i]
    <2>1. autoIdx % BufLen \in 0 .. BufLen - 1
        BY <1>2, <1>3
    <2> QED
        BY <1>1, <1>2, <2>1
<1>5. autoIdx' \in 0 .. IdxMod - 1
    BY <1>1, <1>2, <1>3
<1>6. \A d \in 1 .. 3 : (autoIdx' - d) % BufLen = (autoIdx - (d - 1)) % BufLen
    <2> TAKE d \in 1 .. 3
    <2>1. autoIdx' - d = ((autoIdx + 1) % IdxMod) - d
        BY <1>1
    <2>2. autoIdx + 1 - d = autoIdx - (d - 1)
        BY <1>2
    <2>3. (((autoIdx + 1) % IdxMod) - d) % BufLen = (autoIdx + 1 - d) % BufLen
        BY <1>2, SlotsAfterWrap
    <2> QED
        BY <2>1, <2>2, <2>3
<1>7. /\ lastThree' \in Seq(AutoBytes)
      /\ Len(lastThree') = IF Len(lastThree) = 3 THEN 3 ELSE Len(lastThree) + 1
      /\ lastThree'[Len(lastThree')] = b
      /\ \A d \in 2 .. Len(lastThree') :
            lastThree'[Len(lastThree') + 1 - d] = lastThree[Len(lastThree) + 1 - (d - 1)]
    <2> DEFINE kept == IF Len(lastThree) = 3 THEN Tail(lastThree) ELSE lastThree
               after == kept \o <<b>>
    <2>1. /\ kept \in Seq(AutoBytes)
          /\ Len(kept) = IF Len(lastThree) = 3 THEN 2 ELSE Len(lastThree)
          /\ \A d \in 1 .. Len(kept) :
                kept[Len(kept) + 1 - d] = lastThree[Len(lastThree) + 1 - d]
        <3>1. CASE Len(lastThree) = 3
            <4>1. kept = Tail(lastThree)
                BY <3>1
            <4>2. /\ Tail(lastThree) \in Seq(AutoBytes) /\ Len(Tail(lastThree)) = 2
                  /\ Tail(lastThree)[1] = lastThree[2] /\ Tail(lastThree)[2] = lastThree[3]
                BY <1>2, <3>1, TailOfThree
            <4>3. kept[2] = lastThree[3] /\ kept[1] = lastThree[2]
                BY <4>1, <4>2
            <4>4. kept \in Seq(AutoBytes) /\ Len(kept) = 2
                BY <4>1, <4>2
            <4>5. \A d \in 1 .. 2 : d = 1 \/ d = 2
                OBVIOUS
            <4>6. \A d \in 1 .. 2 : kept[2 + 1 - d] = lastThree[3 + 1 - d]
                BY <4>3, <4>5
            <4> QED
                BY <3>1, <4>4, <4>6
        <3>2. CASE Len(lastThree) # 3
            BY <1>2, <3>2
        <3> QED
            BY <3>1, <3>2
    <2> HIDE DEF kept
    <2>2. /\ after \in Seq(AutoBytes) /\ Len(after) = Len(kept) + 1
          /\ after[Len(kept) + 1] = b
          /\ \A i \in 1 .. Len(kept) : after[i] = kept[i]
        BY <2>1
    <2> HIDE DEF after
    <2>3. Len(after) = IF Len(lastThree) = 3 THEN 3 ELSE Len(lastThree) + 1
        BY <1>2, <2>1, <2>2
    <2>4. ASSUME NEW d \in 2 .. Len(after)
          PROVE  after[Len(after) + 1 - d] = lastThree[Len(lastThree) + 1 - (d - 1)]
        <3> DEFINE e == d - 1
        <3>1. e \in 1 .. Len(kept) /\ Len(after) + 1 - d = Len(kept) + 1 - e
              /\ Len(kept) + 1 - e \in 1 .. Len(kept)
            BY <2>1, <2>2
        <3> HIDE DEF e
        <3>2. after[Len(kept) + 1 - e] = kept[Len(kept) + 1 - e]
            BY <2>2, <3>1
        <3>3. kept[Len(kept) + 1 - e] = lastThree[Len(lastThree) + 1 - e]
            BY <2>1, <3>1
        <3> QED
            BY <3>1, <3>2, <3>3 DEF e
    <2>5. lastThree' = after
        BY <1>1 DEF after, kept
    <2> QED
        BY <2>2, <2>3, <2>4, <2>5
<1>8. Len(lastThree') \in 1 .. 3 /\ (Len(lastThree') < 3 => autoIdx' = Len(lastThree'))
    <2>1. CASE Len(lastThree') < 3
        <3>1. autoIdx = Len(lastThree) /\ Len(lastThree') = autoIdx + 1 /\ autoIdx + 1 < IdxMod
            BY <1>2, <1>3, <1>7, <2>1
        <3>2. (autoIdx + 1) % IdxMod = autoIdx + 1
            BY <1>2, <1>3, <3>1
        <3> QED
            BY <1>1, <1>2, <2>1, <3>1, <3>2, SMTT(30)
    <2>2. CASE ~ (Len(lastThree') < 3)
        BY <1>2, <1>7, <2>2, SMTT(30)
    <2> QED
        BY <2>1, <2>2
<1>9. LastInBuffer'
    <2> SUFFICES ASSUME NEW d \in 1 .. Len(lastThree')
                 PROVE  autoBuf'[(autoIdx' - d) % BufLen] = lastThree'[Len(lastThree') + 1 - d]
        BY DEF LastInBuffer
    <2>1. d \in 1 .. 3
        BY <1>7, <1>8
    <2>2. (autoIdx' - d) % BufLen = (autoIdx - (d - 1)) % BufLen
        BY <1>6, <2>1
    <2>3. CASE d = 1
        <3>1. autoIdx - (d - 1) = autoIdx /\ Len(lastThree') + 1 - d = Len(lastThree')
            BY <1>2, <1>8, <2>3
        <3> QED
            BY <1>4, <1>7, <2>2, <3>1
    <2>4. CASE d # 1
        <3> DEFINE e == d - 1
        <3>1. e \in 1 .. Len(lastThree) /\ e \in 1 .. 2 /\ d \in 2 .. Len(lastThree')
            BY <1>2, <1>7, <2>1, <2>4
        <3>2. autoBuf[(autoIdx - e) % BufLen] = lastThree[Len(lastThree) + 1 - e]
            BY <1>2, <3>1 DEF LastInBuffer
        <3>3. lastThree'[Len(lastThree') + 1 - d] = lastThree[Len(lastThree) + 1 - e]
            BY <1>7, <3>1
        <3> HIDE DEF e
        <3>4. (autoIdx - e) % BufLen # autoIdx % BufLen
            <4>1. /\ autoIdx - e \in Int /\ autoIdx \in Int /\ BufLen \in Nat \ {0}
                  /\ autoIdx - e < autoIdx /\ autoIdx < autoIdx - e + BufLen
                BY <1>2, <1>3, <3>1
            <4> QED
                BY <4>1, SlotsDiffer
        <3>5. (autoIdx - e) % BufLen \in 0 .. BufLen - 1
            BY <1>2, <1>3, <3>1
        <3>6. autoBuf'[(autoIdx - e) % BufLen] = autoBuf[(autoIdx - e) % BufLen]
            BY <1>4, <3>4, <3>5
        <3> QED
            BY <2>2, <3>2, <3>3, <3>6 DEF e
    <2> QED
        BY <2>3, <2>4
<1>10. StartsOnRz'
    <2>1. CASE ~ (autoIdx' >= 3)
        BY <1>1, <2>1, Zenon DEF StartsOnRz
    <2>2. CASE autoIdx' >= 3
        <3>1. Len(lastThree') = 3
            BY <1>7, <1>8, <2>2
        <3>2. \A d \in 1 .. 3 : autoBuf'[(autoIdx' - d) % BufLen] = lastThree'[4 - d]
            BY <1>9, <3>1 DEF LastInBuffer
        <3>3. /\ ThirdLast(autoIdx') = (autoIdx' - 3) % BufLen
              /\ (ThirdLast(autoIdx') + 1) % BufLen = (autoIdx' - 2) % BufLen
              /\ (ThirdLast(autoIdx') + 2) % BufLen = (autoIdx' - 1) % BufLen
            <4> DEFINE i == autoIdx' - 3
            <4>1. i \in Nat
                <5>1. \A x \in 0 .. IdxMod - 1 : x >= 3 => x - 3 \in Nat
                    BY <1>3
                <5> QED
                    BY <1>5, <2>2, <5>1
            <4>2. autoIdx' - 2 = i + 1 /\ autoIdx' - 1 = i + 2
                BY <1>5
            <4>3. ((i % BufLen) + 1) % BufLen = (i + 1) % BufLen
                  /\ ((i % BufLen) + 2) % BufLen = (i + 2) % BufLen
                <5> HIDE DEF i
                <5> DEFINE q == i \div BufLen
                           r == i % BufLen
                <5>1. i = BufLen * q + r /\ q \in Int /\ r \in Int
                    BY <1>3, <4>1
                <5>2. BufLen \in Nat \ {0}
                    BY <1>3
                <5> HIDE DEF q, r
                <5>3. /\ (BufLen * q + (r + 1)) % BufLen = (r + 1) % BufLen
                      /\ (BufLen * q + (r + 2)) % BufLen = (r + 2) % BufLen
                    <6>1. r + 1 \in Int /\ r + 2 \in Int
                        BY <5>1
                    <6> QED
                        BY <5>1, <5>2, <6>1, SameRemainder
                <5>4. i + 1 = BufLen * q + (r + 1) /\ i + 2 = BufLen * q + (r + 2)
                    BY <5>1, <5>2
                <5> QED
                    BY <5>3, <5>4 DEF r
            <4> QED
                BY <4>2, <4>3 DEF ThirdLast
        <3>4. started' <=> lastThree'[1] = "r" /\ lastThree'[2] = "z" /\ lastThree'[3] = "return"
            <4>1. /\ autoBuf'[(autoIdx' - 3) % BufLen] = lastThree'[1]
                  /\ autoBuf'[(autoIdx' - 2) % BufLen] = lastThree'[2]
                  /\ autoBuf'[(autoIdx' - 1) % BufLen] = lastThree'[3]
                BY <3>2
            <4> QED
                BY <1>1, <2>2, <3>3, <4>1, Zenon
        <3>5. lastThree' = <<"r", "z", "return">> <=>
                 lastThree'[1] = "r" /\ lastThree'[2] = "z" /\ lastThree'[3] = "return"
            BY <1>7, <3>1
        <3> QED
            BY <2>2, <3>4, <3>5, Zenon DEF StartsOnRz
    <2> QED
        BY <2>1, <2>2
<1> QED
    BY <1>4, <1>5, <1>7, <1>8, <1>9, <1>10 DEF AutoInv

\* For a buffer and an index of any sizes that fit, and any bytes: a receive
\* starts exactly when the last three are "rz" and a return and the index has
\* not just wrapped.
THEOREM StartsExactlyOnRz == Spec => []StartsOnRz
<1>1. Init => AutoInv
    <2> SUFFICES ASSUME AutoInit PROVE AutoInv
        BY DEF Init
    <2>1. /\ autoBuf = [i \in 0 .. BufLen - 1 |-> "other"]
          /\ autoIdx = 0 /\ lastThree = <<>>
        BY DEF AutoInit
    <2>2. started = FALSE
        BY DEF AutoInit
    <2>3. autoBuf \in [0 .. BufLen - 1 -> AutoBytes]
        BY <2>1 DEF AutoBytes
    <2>4. autoIdx \in 0 .. IdxMod - 1
        BY <2>1, AutostartAssumption
    <2>5. lastThree \in Seq(AutoBytes) /\ Len(lastThree) = 0
        BY <2>1
    <2>6. LastInBuffer
        BY <2>5 DEF LastInBuffer
    <2>7. StartsOnRz
        <3>1. ~ (autoIdx >= 3)
            BY <2>1
        <3> QED
            BY <2>2, <3>1, Zenon DEF StartsOnRz
    <2> QED
        BY <2>1, <2>3, <2>4, <2>5, <2>6, <2>7 DEF AutoInv
<1>2. AutoInv /\ [Next]_vars => AutoInv'
    <2> SUFFICES ASSUME AutoInv, [Next]_vars PROVE AutoInv'
        OBVIOUS
    <2>1. CASE AutoByte
        BY <2>1, AutoStep
    <2>2. CASE UNCHANGED autoVars
        <3>1. /\ autoBuf' = autoBuf /\ autoIdx' = autoIdx
              /\ started' = started /\ lastThree' = lastThree
            BY <2>2 DEF autoVars
        <3> QED
            BY <3>1, Zenon DEF AutoInv, LastInBuffer, StartsOnRz
    <2> QED
        BY <2>1, <2>2, PartSteps
<1>3. AutoInv => StartsOnRz
    BY DEF AutoInv
<1> QED
    BY <1>1, <1>2, <1>3, PTL DEF Spec

-----------------------------------------------------------------------------
(* Encrypted stream *)

\* The byte of key k that the i-th byte of a chunk is masked with
Pad(k, i) == k[1 + ((i - 1) % KeyLen)]

ClearIsPlain == \A i \in 1 .. Len(clear) : clear[i] = plain[i]

\* As long as chunks begin with the key, the key runs through the stream.
PadRunsOn ==
    \A i \in 1 .. Len(cipher) :
       cipher[i] = (plain[Len(clear) + i] + Pad(key, Len(clear) + i)) % 2

\* b says where the chunks of lengths fr end in the cipher text ci, of which
\* the first byte belongs to the one of pl behind the c-th.
CutBy(b, fr, ci, pl, c, k) ==
    /\ b \in [0 .. Len(fr) -> Nat]
    /\ b[0] = 0 /\ b[Len(fr)] = Len(ci)
    /\ \A j \in 0 .. Len(fr) : \A l \in 0 .. Len(fr) : j <= l => b[j] <= b[l]
    /\ \A j \in 1 .. Len(fr) :
          /\ b[j] = b[j - 1] + fr[j]
          /\ \A i \in 1 .. fr[j] : ci[b[j - 1] + i] = (pl[c + b[j - 1] + i] + Pad(k, i)) % 2

EncInv ==
    /\ key \in Seq(Bits) /\ Len(key) = KeyLen
    /\ plain \in Seq(Bits) /\ cipher \in Seq(Bits) /\ clear \in Seq(Bits)
    /\ Len(clear) + Len(cipher) = Len(plain)
    /\ recut \in BOOLEAN /\ ragged \in BOOLEAN
    /\ ~ ragged => PadRunsOn
    /\ ~ recut => frames \in Seq(Nat) /\ \E b : CutBy(b, frames, cipher, plain, Len(clear), key)
    /\ ~ recut \/ ~ ragged => ClearIsPlain

\* A bit that is masked twice is as it was.
LEMMA MaskTwice == \A a, k \in Bits : (((a + k) % 2) + k) % 2 = a
<1>1. /\ (((0 + 0) % 2) + 0) % 2 = 0 /\ (((0 + 1) % 2) + 1) % 2 = 0
      /\ (((1 + 0) % 2) + 0) % 2 = 1 /\ (((1 + 1) % 2) + 1) % 2 = 1
    OBVIOUS
<1> QED
    BY <1>1 DEF Bits

LEMMA PadIsBit ==
    ASSUME key \in Seq(Bits), Len(key) = KeyLen, NEW i \in Nat \ {0}
    PROVE  Pad(key, i) \in Bits
<1>1. KeyLen \in Nat \ {0}
    BY EncryptedStreamAssumption
<1>2. (i - 1) % KeyLen \in 0 .. KeyLen - 1
    BY <1>1
<1>3. 1 + ((i - 1) % KeyLen) \in 1 .. KeyLen
    BY <1>1, <1>2
<1> QED
    BY <1>3 DEF Pad

\* What is masked is as long as it was, and a bit at every place.
LEMMA MaskedChunk ==
    ASSUME key \in Seq(Bits), Len(key) = KeyLen, NEW in \in Seq(Bits)
    PROVE  /\ Masked(in) \in Seq(Bits) /\ Len(Masked(in)) = Len(in)
           /\ \A i \in 1 .. Len(in) : Masked(in)[i] = (in[i] + Pad(key, i)) % 2
<1> DEFINE f == [i \in 1 .. Len(in) |-> (in[i] + Pad(key, i)) % 2]
<1>1. \A i \in 1 .. Len(in) : (in[i] + Pad(key, i)) % 2 \in Bits
    <2> TAKE i \in 1 .. Len(in)
    <2>1. i \in Nat \ {0} /\ in[i] \in Bits
        OBVIOUS
    <2>2. Pad(key, i) \in Bits
        BY <2>1, PadIsBit
    <2> QED
        BY <2>1, <2>2, BitSum
<1>2. f \in Seq(Bits) /\ Len(f) = Len(in) /\ \A i \in 1 .. Len(in) : f[i] = (in[i] + Pad(key, i)) % 2
    BY <1>1
<1>3. Masked(in) = f
    BY DOMAIN in = 1 .. Len(in) DEF Masked, Pad
<1> QED
    BY <1>2, <1>3, Zenon

\* The pad of a place is the same a whole number of keys later.
LEMMA PadAfterKeys ==
    ASSUME NEW c \in Nat, c % KeyLen = 0, NEW i \in Nat \ {0}
    PROVE  Pad(key, c + i) = Pad(key, i)
<1>1. KeyLen \in Nat \ {0}
    BY EncryptedStreamAssumption
<1> DEFINE k == c \div KeyLen
<1>2. c = KeyLen * k /\ k \in Int
    BY <1>1
<1> HIDE DEF k
<1>3. (KeyLen * k + (i - 1)) % KeyLen = (i - 1) % KeyLen
    <2>1. i - 1 \in Int
        OBVIOUS
    <2> QED
        BY <1>1, <1>2, <2>1, SameRemainder
<1>4. c + i - 1 = KeyLen * k + (i - 1)
    BY <1>1, <1>2
<1> QED
    BY <1>3, <1>4 DEF Pad

\* A chunk of n bytes is put behind the others.
LEMMA ChunkAdded ==
    ASSUME NEW fr \in Seq(Nat), NEW ci \in Seq(Bits), NEW pl \in Seq(Bits), NEW c \in Nat,
           c + Len(ci) = Len(pl), NEW b, CutBy(b, fr, ci, pl, c, key),
           NEW in \in Seq(Bits), NEW m \in Seq(Bits), Len(m) = Len(in),
           \A i \in 1 .. Len(in) : m[i] = (in[i] + Pad(key, i)) % 2
    PROVE  \E d : CutBy(d, Append(fr, Len(in)), ci \o m, pl \o in, c, key)
<1> DEFINE F == Len(fr)
           n == Len(in)
           fr2 == Append(fr, n)
           ci2 == ci \o m
           pl2 == pl \o in
           d == [j \in 0 .. F + 1 |-> IF j <= F THEN b[j] ELSE Len(ci) + n]
<1>1. F \in Nat /\ n \in Nat /\ Len(ci) \in Nat
    OBVIOUS
<1>2. /\ b \in [0 .. F -> Nat] /\ b[0] = 0 /\ b[F] = Len(ci)
      /\ \A j \in 0 .. F : \A k \in 0 .. F : j <= k => b[j] <= b[k]
      /\ \A j \in 1 .. F :
            /\ b[j] = b[j - 1] + fr[j]
            /\ \A i \in 1 .. fr[j] : ci[b[j - 1] + i] = (pl[c + b[j - 1] + i] + Pad(key, i)) % 2
    BY Zenon DEF CutBy
<1>3. /\ Len(fr2) = F + 1 /\ fr2[F + 1] = n /\ \A j \in 1 .. F : fr2[j] = fr[j]
    OBVIOUS
<1>4. /\ Len(ci2) = Len(ci) + n
      /\ \A i \in 1 .. Len(ci) : ci2[i] = ci[i]
      /\ \A i \in 1 .. n : ci2[Len(ci) + i] = m[i]
    <2>1. /\ Len(ci2) = Len(ci) + Len(m)
          /\ \A i \in 1 .. Len(ci) : ci2[i] = ci[i]
          /\ \A i \in 1 .. Len(m) : ci2[Len(ci) + i] = m[i]
        BY ConcatBits
    <2>2. Len(m) = n
        OBVIOUS
    <2> QED
        BY <2>1, <2>2, Zenon
<1>5. /\ \A i \in 1 .. Len(pl) : pl2[i] = pl[i]
      /\ \A i \in 1 .. n : pl2[Len(pl) + i] = in[i]
    BY ConcatBits
<1> HIDE DEF n, fr2, ci2, pl2, F
<1>6. /\ d \in [0 .. F + 1 -> Nat] /\ d[0] = 0 /\ d[F + 1] = Len(ci) + n
      /\ \A j \in 0 .. F : d[j] = b[j]
    BY <1>1, <1>2
<1> HIDE DEF d
<1>7. ASSUME NEW j \in 0 .. F + 1, NEW k \in 0 .. F + 1, j <= k PROVE d[j] <= d[k]
    <2>1. CASE k <= F
        <3>1. j \in 0 .. F /\ k \in 0 .. F
            BY <1>1, <1>7, <2>1
        <3> QED
            BY <1>2, <1>6, <1>7, <3>1
    <2>2. CASE k = F + 1 /\ j <= F
        <3>1. j \in 0 .. F /\ F \in 0 .. F /\ j <= F
            BY <1>1, <2>2
        <3>2. b[j] <= b[F] /\ b[j] \in Nat
            BY <1>2, <3>1
        <3> QED
            BY <1>1, <1>2, <1>6, <2>2, <3>1, <3>2
    <2>3. CASE k = F + 1 /\ j = F + 1
        BY <1>1, <1>6, <2>3
    <2> QED
        BY <1>1, <1>7, <2>1, <2>2, <2>3
<1>8. ASSUME NEW j \in 1 .. F + 1
      PROVE  /\ d[j] = d[j - 1] + fr2[j]
             /\ \A i \in 1 .. fr2[j] : ci2[d[j - 1] + i] = (pl2[c + d[j - 1] + i] + Pad(key, i)) % 2
    <2>1. CASE j <= F
        <3>1. j \in 1 .. F /\ j \in 0 .. F /\ j - 1 \in 0 .. F /\ F \in 0 .. F
            BY <1>1, <2>1
        <3>2. /\ d[j] = b[j] /\ d[j - 1] = b[j - 1] /\ fr2[j] = fr[j]
              /\ b[j] = b[j - 1] + fr[j] /\ b[j - 1] \in Nat /\ fr[j] \in Nat
              /\ b[j] <= b[F] /\ b[j] \in Nat
            <4>1. fr[j] \in Nat
                BY <3>1 DEF F
            <4>2. d[j] = b[j] /\ d[j - 1] = b[j - 1] /\ fr2[j] = fr[j]
                BY <1>3, <1>6, <3>1
            <4>3. b[j] <= b[F] /\ b[j] = b[j - 1] + fr[j]
                BY <1>1, <1>2, <2>1, <3>1
            <4> QED
                BY <1>2, <3>1, <4>1, <4>2, <4>3
        <3>3. ASSUME NEW i \in 1 .. fr[j]
              PROVE  ci2[b[j - 1] + i] = (pl2[c + b[j - 1] + i] + Pad(key, i)) % 2
            <4>1. b[j - 1] + i \in 1 .. Len(ci) /\ c + b[j - 1] + i \in 1 .. Len(pl)
                <5>1. \A x, y, l \in Nat : \A z \in 1 .. y :
                         x + y <= l => x + z \in 1 .. l /\ c + x + z \in 1 .. c + l
                    OBVIOUS
                <5>2. b[j - 1] + fr[j] <= Len(ci)
                    BY <1>2, <3>2
                <5> QED
                    BY <1>1, <3>2, <5>1, <5>2, Zenon
            <4>2. ci[b[j - 1] + i] = (pl[c + b[j - 1] + i] + Pad(key, i)) % 2
                BY <1>2, <3>1
            <4>3. ci2[b[j - 1] + i] = ci[b[j - 1] + i]
                BY <1>4, <4>1, Zenon
            <4>4. pl2[c + b[j - 1] + i] = pl[c + b[j - 1] + i]
                BY <1>5, <4>1, Zenon
            <4> QED
                BY <4>2, <4>3, <4>4, Zenon
        <3> QED
            BY <3>2, <3>3
    <2>2. CASE j = F + 1
        <3>1. d[j] = Len(ci) + n /\ d[j - 1] = Len(ci) /\ fr2[j] = n
            <4>1. F \in 0 .. F /\ j - 1 = F
                BY <1>1, <2>2
            <4> QED
                BY <1>2, <1>3, <1>6, <2>2, <4>1
        <3>2. ASSUME NEW i \in 1 .. n
              PROVE  ci2[Len(ci) + i] = (pl2[c + Len(ci) + i] + Pad(key, i)) % 2
            <4>1. m[i] = (in[i] + Pad(key, i)) % 2
                BY DEF n
            <4>2. c + Len(ci) + i = Len(pl) + i
                BY <1>1
            <4> QED
                BY <1>4, <1>5, <4>1, <4>2
        <3> QED
            BY <3>1, <3>2
    <2> QED
        BY <1>1, <2>1, <2>2
<1>9. CutBy(d, fr2, ci2, pl2, c, key)
    BY <1>3, <1>4, <1>6, <1>7, <1>8, Zenon DEF CutBy
<1> QED
    BY <1>9 DEF fr2, ci2, pl2, n

\* What is left of a sequence when its first n are taken
LEMMA BitsLeft ==
    ASSUME NEW s \in Seq(Bits), NEW n \in 1 .. Len(s)
    PROVE  /\ SubSeq(s, n + 1, Len(s)) \in Seq(Bits)
           /\ Len(SubSeq(s, n + 1, Len(s))) = Len(s) - n
           /\ \A i \in 1 .. Len(s) - n : SubSeq(s, n + 1, Len(s))[i] = s[n + i]
<1>1. n \in Nat /\ Len(s) \in Nat /\ n <= Len(s)
    OBVIOUS
<1>2. SubSeq(s, n + 1, Len(s)) \in Seq(Bits)
    BY <1>1
<1>3. Len(SubSeq(s, n + 1, Len(s))) = Len(s) - n
    BY <1>1
<1>4. \A i \in 1 .. Len(s) - n : SubSeq(s, n + 1, Len(s))[i] = s[n + i]
    BY <1>1
<1> QED
    BY <1>2, <1>3, <1>4

\* The first chunk is taken away.
LEMMA ChunkTaken ==
    ASSUME NEW fr \in Seq(Nat), NEW ci \in Seq(Bits), NEW pl \in Seq(Bits), NEW c \in Nat,
           NEW b, CutBy(b, fr, ci, pl, c, key),
           NEW n \in 1 .. Len(ci), n = Head(fr)
    PROVE  /\ Tail(fr) \in Seq(Nat)
           /\ \A i \in 1 .. n : ci[i] = (pl[c + i] + Pad(key, i)) % 2
           /\ \E d : CutBy(d, Tail(fr), SubSeq(ci, n + 1, Len(ci)), pl, c + n, key)
<1> DEFINE F == Len(fr)
           fr2 == Tail(fr)
           ci2 == SubSeq(ci, n + 1, Len(ci))
           d == [j \in 0 .. F - 1 |-> b[j + 1] - n]
<1>1. F \in Nat /\ n \in Nat \ {0} /\ Len(ci) \in Nat /\ n <= Len(ci)
    OBVIOUS
<1>2. /\ b \in [0 .. F -> Nat] /\ b[0] = 0 /\ b[F] = Len(ci)
      /\ \A j \in 0 .. F : \A k \in 0 .. F : j <= k => b[j] <= b[k]
      /\ \A j \in 1 .. F :
            /\ b[j] = b[j - 1] + fr[j]
            /\ \A i \in 1 .. fr[j] : ci[b[j - 1] + i] = (pl[c + b[j - 1] + i] + Pad(key, i)) % 2
    BY Zenon DEF CutBy
<1>3. F \in Nat \ {0}
    <2>1. b[F] # b[0]
        BY <1>1, <1>2
    <2> QED
        BY <1>1, <2>1
<1>4. /\ fr # <<>> /\ n = fr[1]
    BY <1>3
<1>5. /\ fr2 \in Seq(Nat) /\ Len(fr2) = F - 1
      /\ \A j \in 1 .. Len(fr2) : fr2[j] = fr[j + 1]
    BY <1>4, HeadTailProperties, Zenon
<1>6. /\ Len(ci2) = Len(ci) - n
      /\ \A i \in 1 .. Len(ci) - n : ci2[i] = ci[n + i]
    BY BitsLeft, Zenon
<1> HIDE DEF fr2, ci2, F
<1>7. b[1] = n /\ \A j \in 1 .. F : b[j] \in Nat /\ n <= b[j]
    <2>1. 1 \in 1 .. F /\ 1 \in 0 .. F /\ 1 - 1 = 0
        BY <1>3
    <2>2. b[1] = b[1 - 1] + fr[1]
        BY <1>2, <2>1
    <2>3. b[1] = n
        BY <1>1, <1>2, <1>4, <2>1, <2>2
    <2>4. \A j \in 1 .. F : j \in 0 .. F /\ 1 <= j
        BY <1>3
    <2> QED
        BY <1>2, <2>1, <2>3, <2>4
<1>8. \A i \in 1 .. n : ci[i] = (pl[c + i] + Pad(key, i)) % 2
    <2>1. 1 \in 1 .. F /\ b[1 - 1] = 0
        BY <1>2, <1>3
    <2>2. \A i \in 1 .. fr[1] : ci[b[1 - 1] + i] = (pl[c + b[1 - 1] + i] + Pad(key, i)) % 2
        BY <1>2, <2>1
    <2>3. \A i \in 1 .. n : b[1 - 1] + i = i /\ c + b[1 - 1] + i = c + i
        BY <1>1, <2>1
    <2> QED
        BY <1>4, <2>2, <2>3
<1>9. /\ d \in [0 .. F - 1 -> Nat] /\ d[0] = 0 /\ d[F - 1] = Len(ci) - n
      /\ \A j \in 0 .. F - 1 : d[j] = b[j + 1] - n
    <2>1. \A j \in 0 .. F - 1 : j + 1 \in 1 .. F /\ b[j + 1] - n \in Nat
        BY <1>1, <1>3, <1>7
    <2>2. 0 \in 0 .. F - 1 /\ F - 1 \in 0 .. F - 1 /\ (F - 1) + 1 = F /\ 0 + 1 = 1
        BY <1>3
    <2>3. d \in [0 .. F - 1 -> Nat]
        BY <2>1
    <2>4. b[0 + 1] - n = 0
        BY <1>1, <1>7, <2>2
    <2> QED
        BY <1>2, <2>2, <2>3, <2>4
<1> HIDE DEF d
<1>10. ASSUME NEW j \in 0 .. F - 1, NEW k \in 0 .. F - 1, j <= k PROVE d[j] <= d[k]
    <2>1. j + 1 \in 1 .. F /\ k + 1 \in 1 .. F /\ j + 1 <= k + 1
          /\ j + 1 \in 0 .. F /\ k + 1 \in 0 .. F
        BY <1>3, <1>10
    <2>2. b[j + 1] <= b[k + 1] /\ b[j + 1] \in Nat /\ b[k + 1] \in Nat
        BY <1>2, <1>7, <2>1
    <2>3. d[j] = b[j + 1] - n /\ d[k] = b[k + 1] - n
        BY <1>9
    <2>4. \A x, y \in Nat : x <= y => x - n <= y - n
        BY <1>1
    <2> QED
        BY <2>2, <2>3, <2>4, Zenon
<1>11. ASSUME NEW j \in 1 .. F - 1
       PROVE  /\ d[j] = d[j - 1] + fr2[j]
              /\ \A i \in 1 .. fr2[j] : ci2[d[j - 1] + i] = (pl[c + n + d[j - 1] + i] + Pad(key, i)) % 2
    <2>1. /\ j \in 0 .. F - 1 /\ j - 1 \in 0 .. F - 1 /\ (j - 1) + 1 = j /\ (j + 1) - 1 = j
          /\ j + 1 \in 1 .. F /\ j \in 1 .. F /\ j + 1 \in 0 .. F /\ F \in 0 .. F /\ j + 1 <= F
          /\ j \in 1 .. Len(fr2)
        <3>1. j \in 1 .. Len(fr2)
            BY <1>5, Zenon
        <3> QED
            BY <1>3, <3>1
    <2>2. fr2[j] = fr[j + 1] /\ fr[j + 1] \in Nat
        <3>1. fr[j + 1] \in Nat
            BY <2>1, SMTT(30) DEF F
        <3> QED
            BY <1>5, <2>1, <3>1
    <2>3. /\ d[j] = b[j + 1] - n /\ d[j - 1] = b[j] - n
          /\ b[j] \in Nat /\ b[j + 1] \in Nat /\ n <= b[j]
        BY <1>7, <1>9, <2>1
    <2>4. /\ b[j + 1] = b[j] + fr[j + 1]
          /\ \A i \in 1 .. fr[j + 1] : ci[b[j] + i] = (pl[c + b[j] + i] + Pad(key, i)) % 2
        BY <1>2, <2>1
    <2>5. b[j + 1] <= Len(ci)
        BY <1>2, <2>1
    <2>6. ASSUME NEW i \in 1 .. fr[j + 1]
          PROVE  ci2[d[j - 1] + i] = (pl[c + n + d[j - 1] + i] + Pad(key, i)) % 2
        <3>1. d[j - 1] + i \in 1 .. Len(ci) - n /\ n + (d[j - 1] + i) = b[j] + i
              /\ c + n + d[j - 1] + i = c + b[j] + i
            <4>1. \A x, y, l \in Nat : \A z \in 1 .. y :
                     n <= x /\ x + y <= l => (x - n) + z \in 1 .. l - n
                <5> SUFFICES ASSUME NEW x \in Nat, NEW y \in Nat, NEW l \in Nat,
                                    NEW z \in 1 .. y, n <= x, x + y <= l
                             PROVE  (x - n) + z \in 1 .. l - n
                    OBVIOUS
                <5>1. z \in Int /\ 1 <= z /\ z <= y
                    OBVIOUS
                <5>2. 1 <= (x - n) + z /\ (x - n) + z <= l - n
                    BY <1>1, <5>1, SMTT(30)
                <5> QED
                    BY <1>1, <5>1, <5>2, SMTT(30)
            <4>2. \A x \in Nat : \A z \in Int :
                     /\ n + ((x - n) + z) = x + z
                     /\ c + n + (x - n) + z = c + x + z
                BY <1>1, SMTT(30)
            <4>3. b[j] + fr[j + 1] <= Len(ci)
                BY <2>4, <2>5, Zenon
            <4>4. i \in Int
                BY <2>2
            <4>5. (b[j] - n) + i \in 1 .. Len(ci) - n
                BY <1>1, <2>2, <2>3, <4>1, <4>3, Zenon
            <4>6. n + ((b[j] - n) + i) = b[j] + i /\ c + n + (b[j] - n) + i = c + b[j] + i
                BY <2>3, <4>2, <4>4, Zenon
            <4> QED
                BY <2>3, <4>5, <4>6, Zenon
        <3>2. ci2[d[j - 1] + i] = ci[b[j] + i]
            BY <1>6, <3>1
        <3> QED
            BY <2>4, <3>1, <3>2
    <2>7. d[j] = d[j - 1] + fr2[j]
        <3>1. \A x, y \in Nat : (x + y) - n = (x - n) + y
            BY <1>1
        <3>2. (b[j] + fr[j + 1]) - n = (b[j] - n) + fr[j + 1]
            BY <2>2, <2>3, <3>1, Zenon
        <3>3. d[j] = (b[j] + fr[j + 1]) - n
            BY <2>3, <2>4, Zenon
        <3> QED
            BY <2>2, <2>3, <3>2, <3>3, Zenon
    <2> QED
        BY <2>2, <2>6, <2>7, Zenon
<1>12. CutBy(d, fr2, ci2, pl, c + n, key)
    <2>1. Len(fr2) = F - 1 /\ Len(ci2) = Len(ci) - n
        BY <1>5, <1>6
    <2> QED
        BY <1>9, <1>10, <1>11, <2>1, Zenon DEF CutBy
<1> QED
    BY <1>5, <1>8, <1>12 DEF fr2, ci2

LEMMA EncryptStep == ASSUME EncInv, Encrypt PROVE EncInv'
<1>1. PICK n \in 1 .. MaxPlain :
         /\ \E in \in [1 .. n -> {0, 1}] :
               plain' = plain \o in /\ cipher' = cipher \o Masked(in)
         /\ frames' = Append(frames, n)
         /\ ragged' = (ragged \/ Len(plain) % KeyLen # 0)
         /\ UNCHANGED <<key, clear, recut>>
    BY DEF Encrypt
<1>2. n \in Nat
    BY EncryptedStreamAssumption
<1>3. PICK in \in [1 .. n -> {0, 1}] :
         plain' = plain \o in /\ cipher' = cipher \o Masked(in)
    BY <1>1
<1>4. in \in Seq(Bits) /\ Len(in) = n
    BY <1>2 DEF Bits
<1>5. /\ key \in Seq(Bits) /\ Len(key) = KeyLen
      /\ plain \in Seq(Bits) /\ cipher \in Seq(Bits) /\ clear \in Seq(Bits)
      /\ Len(clear) + Len(cipher) = Len(plain)
    BY DEF EncInv
<1> DEFINE m == Masked(in)
<1>6. /\ m \in Seq(Bits) /\ Len(m) = n
      /\ \A i \in 1 .. n : m[i] = (in[i] + Pad(key, i)) % 2
    BY <1>4, <1>5, MaskedChunk, Zenon
<1>7. plain' = plain \o in /\ cipher' = cipher \o m
    BY <1>3
<1> HIDE DEF m
<1>8. /\ plain' \in Seq(Bits) /\ Len(plain') = Len(plain) + n
      /\ \A i \in 1 .. Len(plain) : plain'[i] = plain[i]
      /\ \A i \in 1 .. n : plain'[Len(plain) + i] = in[i]
    <2> DEFINE s == plain \o in
    <2>1. /\ s \in Seq(Bits) /\ Len(s) = Len(plain) + Len(in)
          /\ \A i \in 1 .. Len(plain) : s[i] = plain[i]
          /\ \A i \in 1 .. Len(in) : s[Len(plain) + i] = in[i]
        BY <1>4, <1>5, ConcatBits
    <2> HIDE DEF s
    <2>2. plain' = s /\ Len(in) = n
        BY <1>4, <1>7 DEF s
    <2> QED
        BY <2>1, <2>2, Zenon
<1>9. /\ cipher' \in Seq(Bits) /\ Len(cipher') = Len(cipher) + n
      /\ \A i \in 1 .. Len(cipher) : cipher'[i] = cipher[i]
      /\ \A i \in 1 .. n : cipher'[Len(cipher) + i] = m[i]
    <2> DEFINE s == cipher \o m
    <2>1. /\ s \in Seq(Bits) /\ Len(s) = Len(cipher) + Len(m)
          /\ \A i \in 1 .. Len(cipher) : s[i] = cipher[i]
          /\ \A i \in 1 .. Len(m) : s[Len(cipher) + i] = m[i]
        BY <1>5, <1>6, ConcatBits
    <2> HIDE DEF s
    <2>2. cipher' = s /\ Len(m) = n
        BY <1>6, <1>7 DEF s
    <2> QED
        BY <2>1, <2>2, Zenon
<1>10. key' = key /\ clear' = clear /\ recut' = recut
    BY <1>1
<1>11. Len(clear) \in Nat /\ Len(cipher) \in Nat /\ Len(plain) \in Nat
    BY <1>5
<1>12. Len(clear') + Len(cipher') = Len(plain')
    <2>1. Len(clear) + (Len(cipher) + n) = Len(plain) + n
        <3>1. Len(clear) + (Len(cipher) + n) = (Len(clear) + Len(cipher)) + n
            <4> DEFINE a == Len(clear)
                       l == Len(cipher)
            <4>1. a \in Nat /\ l \in Nat
                BY <1>11
            <4> HIDE DEF a, l
            <4>2. a + (l + n) = (a + l) + n
                BY <1>2, <4>1
            <4> QED
                BY <4>2 DEF a, l
        <3> QED
            BY <1>5, <3>1, Zenon
    <2> QED
        BY <1>8, <1>9, <1>10, <2>1, Zenon
<1>13. ASSUME ~ ragged' PROVE PadRunsOn'
    <2>1. ~ ragged /\ Len(plain) % KeyLen = 0
        BY <1>1, <1>13
    <2>2. PadRunsOn
        BY <2>1 DEF EncInv
    <2> SUFFICES ASSUME NEW i \in 1 .. Len(cipher')
                 PROVE  cipher'[i] = (plain'[Len(clear) + i] + Pad(key, Len(clear) + i)) % 2
        BY <1>10, Zenon DEF PadRunsOn, Pad
    <2>3. i \in 1 .. Len(cipher) + n
        BY <1>9, Zenon
    <2>4. CASE i <= Len(cipher)
        <3>1. i \in 1 .. Len(cipher) /\ Len(clear) + i \in 1 .. Len(plain)
            BY <1>2, <1>5, <1>11, <2>3, <2>4
        <3>2. cipher[i] = (plain[Len(clear) + i] + Pad(key, Len(clear) + i)) % 2
            BY <2>2, <3>1, Zenon DEF PadRunsOn
        <3> QED
            BY <1>8, <1>9, <3>1, <3>2, Zenon
    <2>5. CASE ~ (i <= Len(cipher))
        <3> DEFINE j == i - Len(cipher)
        <3>1. /\ j \in 1 .. n /\ j \in Nat \ {0} /\ Len(cipher) + j = i
              /\ Len(clear) + i = Len(plain) + j
            <4> DEFINE a == Len(clear)
                       l == Len(cipher)
            <4>1. a \in Nat /\ l \in Nat /\ i \in 1 .. l + n /\ ~ (i <= l)
                BY <1>11, <2>3, <2>5
            <4> HIDE DEF a, l
            <4>2. /\ i - l \in 1 .. n /\ i - l \in Nat \ {0} /\ l + (i - l) = i
                  /\ a + i = (a + l) + (i - l)
                BY <1>2, <4>1
            <4>3. /\ j \in 1 .. n /\ j \in Nat \ {0} /\ Len(cipher) + j = i
                  /\ Len(clear) + i = (Len(clear) + Len(cipher)) + j
                BY <4>2 DEF a, l
            <4> QED
                BY <1>5, <4>3, Zenon
        <3> HIDE DEF j
        <3>2. cipher'[i] = m[j] /\ plain'[Len(clear) + i] = in[j]
            BY <1>8, <1>9, <3>1, Zenon
        <3>3. Pad(key, Len(clear) + i) = Pad(key, j)
            BY <1>11, <2>1, <3>1, PadAfterKeys
        <3> QED
            BY <1>6, <3>1, <3>2, <3>3, Zenon
    <2> QED
        BY <2>4, <2>5, Zenon
<1>14. ASSUME ~ recut'
       PROVE  /\ frames' \in Seq(Nat)
              /\ \E b : CutBy(b, frames, cipher, plain, Len(clear), key)'
    <2>1. frames \in Seq(Nat) /\ \E b : CutBy(b, frames, cipher, plain, Len(clear), key)
        BY <1>10, <1>14 DEF EncInv
    <2>2. frames' = Append(frames, n) /\ frames' \in Seq(Nat)
        BY <1>1, <1>2, <2>1
    <2>3. \E d : CutBy(d, Append(frames, Len(in)), cipher \o m, plain \o in, Len(clear), key)
        BY <1>4, <1>5, <1>6, <1>11, <2>1, ChunkAdded
    <2>4. \E d : CutBy(d, frames', cipher', plain', Len(clear'), key)
        BY <1>4, <1>7, <1>10, <2>2, <2>3, Zenon
    <2> QED
        BY <1>10, <2>2, <2>4, Zenon
<1>15. ASSUME ~ recut' \/ ~ ragged' PROVE ClearIsPlain'
    <2>1. ClearIsPlain
        BY <1>1, <1>10, <1>15 DEF EncInv
    <2>2. \A i \in 1 .. Len(clear) : i \in 1 .. Len(plain)
        BY <1>5, <1>11
    <2> QED
        BY <1>8, <1>10, <2>1, <2>2, Zenon DEF ClearIsPlain
<1>16. recut' \in BOOLEAN /\ ragged' \in BOOLEAN
    BY <1>1, <1>10, Zenon DEF EncInv
<1> QED
    BY <1>5, <1>8, <1>9, <1>10, <1>12, <1>13, <1>14, <1>15, <1>16, Zenon DEF EncInv

LEMMA DecryptStep == ASSUME EncInv, Decrypt PROVE EncInv'
<1>1. PICK n \in 1 .. Len(cipher) :
         /\ clear' = clear \o Masked(SubSeq(cipher, 1, n))
         /\ cipher' = SubSeq(cipher, n + 1, Len(cipher))
         /\ recut' = (recut \/ n # Head(frames))
         /\ frames' = IF recut' THEN <<0>> ELSE Tail(frames)
         /\ ragged' = (ragged \/ Len(clear) % KeyLen # 0)
         /\ UNCHANGED <<key, plain>>
    BY DEF Decrypt
<1>2. /\ key \in Seq(Bits) /\ Len(key) = KeyLen
      /\ plain \in Seq(Bits) /\ cipher \in Seq(Bits) /\ clear \in Seq(Bits)
      /\ Len(clear) + Len(cipher) = Len(plain)
    BY DEF EncInv
<1>3. /\ n \in Nat /\ 1 <= n /\ n <= Len(cipher) /\ Len(cipher) \in Nat
      /\ Len(clear) \in Nat /\ Len(plain) \in Nat
    BY <1>2
<1> DEFINE c == SubSeq(cipher, 1, n)
           m == Masked(c)
<1>4. c \in Seq(Bits) /\ Len(c) = n /\ \A i \in 1 .. n : c[i] = cipher[i]
    BY <1>2, <1>3
<1> HIDE DEF c
<1>5. /\ m \in Seq(Bits) /\ Len(m) = n
      /\ \A i \in 1 .. n : m[i] = (c[i] + Pad(key, i)) % 2
    BY <1>2, <1>4, MaskedChunk, Zenon
<1> HIDE DEF m
<1>6. clear' = clear \o m
    BY <1>1 DEF c, m
<1>7. /\ clear' \in Seq(Bits) /\ Len(clear') = Len(clear) + n
      /\ \A i \in 1 .. Len(clear) : clear'[i] = clear[i]
      /\ \A i \in 1 .. n : clear'[Len(clear) + i] = m[i]
    BY <1>2, <1>5, <1>6, ConcatBits, Zenon
<1>8. /\ cipher' \in Seq(Bits) /\ Len(cipher') = Len(cipher) - n
      /\ \A i \in 1 .. Len(cipher) - n : cipher'[i] = cipher[n + i]
    <2> DEFINE s == SubSeq(cipher, n + 1, Len(cipher))
    <2>1. /\ s \in Seq(Bits) /\ Len(s) = Len(cipher) - n
          /\ \A i \in 1 .. Len(cipher) - n : s[i] = cipher[n + i]
        BY <1>1, <1>2, BitsLeft, Zenon
    <2>2. cipher' = s
        BY <1>1
    <2> QED
        BY <2>1, <2>2, Zenon
<1>9. key' = key /\ plain' = plain
    BY <1>1
<1>10. Len(clear') + Len(cipher') = Len(plain')
    <2> DEFINE a == Len(clear)
               l == Len(cipher)
    <2>1. a \in Nat /\ l \in Nat
        BY <1>3
    <2> HIDE DEF a, l
    <2>2. (a + n) + (l - n) = a + l
        BY <1>3, <2>1
    <2>3. (Len(clear) + n) + (Len(cipher) - n) = Len(plain)
        BY <1>2, <2>2, Zenon DEF a, l
    <2> QED
        BY <1>7, <1>8, <1>9, <2>3, Zenon
<1>11. ASSUME ~ ragged' PROVE PadRunsOn'
    <2>1. PadRunsOn
        BY <1>1, <1>11 DEF EncInv
    <2> SUFFICES ASSUME NEW i \in 1 .. Len(cipher')
                 PROVE  cipher'[i] =
                          (plain[Len(clear') + i] + Pad(key, Len(clear') + i)) % 2
        BY <1>9, Zenon DEF PadRunsOn, Pad
    <2>2. i \in 1 .. Len(cipher) - n
        BY <1>8, Zenon
    <2>3. n + i \in 1 .. Len(cipher) /\ Len(clear) + (n + i) = (Len(clear) + n) + i
        BY <1>3, <2>2
    <2>4. cipher[n + i] =
            (plain[Len(clear) + (n + i)] + Pad(key, Len(clear) + (n + i))) % 2
        BY <2>1, <2>3, Zenon DEF PadRunsOn
    <2> QED
        BY <1>7, <1>8, <2>2, <2>3, <2>4, Zenon
<1>12. ASSUME ~ recut'
       PROVE  /\ frames' \in Seq(Nat)
              /\ \E b : CutBy(b, frames, cipher, plain, Len(clear), key)'
              /\ \A i \in 1 .. n : cipher[i] = (plain[Len(clear) + i] + Pad(key, i)) % 2
    <2>1. ~ recut /\ n = Head(frames) /\ frames' = Tail(frames)
        BY <1>1, <1>12
    <2>2. frames \in Seq(Nat) /\ \E b : CutBy(b, frames, cipher, plain, Len(clear), key)
        BY <2>1 DEF EncInv
    <2>3. PICK b : CutBy(b, frames, cipher, plain, Len(clear), key)
        BY <2>2, Zenon
    <2>4. /\ Tail(frames) \in Seq(Nat)
          /\ \A i \in 1 .. n : cipher[i] = (plain[Len(clear) + i] + Pad(key, i)) % 2
          /\ \E d : CutBy(d, Tail(frames), SubSeq(cipher, n + 1, Len(cipher)), plain,
                          Len(clear) + n, key)
        <3>1. /\ frames \in Seq(Nat) /\ cipher \in Seq(Bits) /\ plain \in Seq(Bits)
              /\ Len(clear) \in Nat
            BY <1>2, <1>3, <2>2, Zenon
        <3>2. n \in 1 .. Len(cipher) /\ n = Head(frames)
            BY <2>1, Zenon
        <3>3. Tail(frames) \in Seq(Nat)
            BY <2>3, <3>1, <3>2, ChunkTaken, Zenon
        <3>4. \A i \in 1 .. n : cipher[i] = (plain[Len(clear) + i] + Pad(key, i)) % 2
            BY <2>3, <3>1, <3>2, ChunkTaken, Zenon
        <3>5. \E d : CutBy(d, Tail(frames), SubSeq(cipher, n + 1, Len(cipher)), plain,
                          Len(clear) + n, key)
            BY <2>3, <3>1, <3>2, ChunkTaken, Zenon
        <3> QED
            BY <3>3, <3>4, <3>5
    <2>5. \E d : CutBy(d, frames', cipher', plain', Len(clear'), key)
        BY <1>1, <1>7, <1>9, <2>1, <2>4, Zenon
    <2> QED
        BY <1>9, <2>1, <2>2, <2>4, <2>5, Zenon
<1>13. ASSUME ~ recut' \/ ~ ragged' PROVE ClearIsPlain'
    <2>1. ClearIsPlain
        BY <1>1, <1>13 DEF EncInv
    <2>2. ASSUME NEW i \in 1 .. n
          PROVE  cipher[i] = (plain[Len(clear) + i] + Pad(key, i)) % 2
        <3>1. CASE ~ recut'
            BY <1>12, <3>1, Zenon
        <3>2. CASE ~ ragged'
            <4>1. ~ ragged /\ Len(clear) % KeyLen = 0
                BY <1>1, <3>2
            <4>2. PadRunsOn
                BY <4>1 DEF EncInv
            <4>3. i \in 1 .. Len(cipher) /\ i \in Nat \ {0}
                BY <1>3
            <4>4. cipher[i] = (plain[Len(clear) + i] + Pad(key, Len(clear) + i)) % 2
                BY <4>2, <4>3, Zenon DEF PadRunsOn
            <4>5. Pad(key, Len(clear) + i) = Pad(key, i)
                BY <1>3, <4>1, <4>3, PadAfterKeys
            <4> QED
                BY <4>4, <4>5, Zenon
        <3> QED
            BY <1>13, <3>1, <3>2
    <2>3. ASSUME NEW i \in 1 .. n PROVE m[i] = plain[Len(clear) + i]
        <3>1. i \in Nat \ {0} /\ Len(clear) + i \in 1 .. Len(plain)
            BY <1>2, <1>3
        <3>2. Pad(key, i) \in Bits
            BY <1>2, <3>1, PadIsBit
        <3>3. plain[Len(clear) + i] \in Bits
            BY <1>2, <3>1
        <3>4. m[i] = (((plain[Len(clear) + i] + Pad(key, i)) % 2) + Pad(key, i)) % 2
            BY <1>4, <1>5, <2>2, Zenon
        <3> QED
            BY <3>2, <3>3, <3>4, MaskTwice, Zenon
    <2> SUFFICES ASSUME NEW i \in 1 .. Len(clear') PROVE clear'[i] = plain[i]
        BY <1>9, Zenon DEF ClearIsPlain
    <2>4. i \in 1 .. Len(clear) + n
        BY <1>7, Zenon
    <2>5. CASE i <= Len(clear)
        <3>1. i \in 1 .. Len(clear)
            BY <1>3, <2>4, <2>5
        <3> QED
            BY <1>7, <2>1, <3>1, Zenon DEF ClearIsPlain
    <2>6. CASE ~ (i <= Len(clear))
        <3> DEFINE j == i - Len(clear)
        <3>1. j \in 1 .. n /\ Len(clear) + j = i
            BY <1>3, <2>4, <2>6
        <3> HIDE DEF j
        <3> QED
            BY <1>7, <2>3, <3>1, Zenon
    <2> QED
        BY <2>5, <2>6, Zenon
<1>14. recut' \in BOOLEAN /\ ragged' \in BOOLEAN
    BY <1>1, Zenon DEF EncInv
<1> QED
    BY <1>2, <1>7, <1>8, <1>9, <1>10, <1>11, <1>12, <1>13, <1>14, Zenon DEF EncInv

LEMMA EncInvRoundTrip == ASSUME EncInv PROVE RoundTrip
<1> SUFFICES ASSUME ~ recut \/ ~ ragged
             PROVE  IsPrefix(clear, plain) /\ (cipher = <<>> => clear = plain)
    BY DEF RoundTrip
<1>1. /\ plain \in Seq(Bits) /\ clear \in Seq(Bits) /\ cipher \in Seq(Bits)
      /\ Len(clear) + Len(cipher) = Len(plain)
    BY DEF EncInv
<1>2. \A i \in 1 .. Len(clear) : clear[i] = plain[i]
    BY DEF EncInv, ClearIsPlain
<1>3. Len(clear) <= Len(plain) /\ Len(clear) \in Nat
    BY <1>1
<1>4. SubSeq(clear, 1, Len(clear)) = SubSeq(plain, 1, Len(clear))
    BY <1>1, <1>2, <1>3
<1>5. ASSUME cipher = <<>> PROVE clear = plain
    <2>1. Len(clear) = Len(plain)
        BY <1>1, <1>5
    <2> QED
        BY <1>1, <1>2, <2>1
<1> QED
    BY <1>3, <1>4, <1>5 DEF IsPrefix

\* For keys, chunks and cuts of any lengths: the receiver has the sender's
\* bytes as long as it decrypts the chunks as they were encrypted, or as long
\* as every chunk begins with the first byte of the key.
THEOREM CipherIsUndone == Spec => []RoundTrip
<1>1. Init => EncInv
    <2> SUFFICES ASSUME EncInit PROVE EncInv
        BY DEF Init
    <2>1. PICK k \in Keys : key = StoredKey(k)
        BY DEF EncInit
    <2>2. k \in Seq(Bits) /\ KeyLen \in Nat
        BY EncryptedStreamAssumption DEF Bits
    <2>3. \A i \in 1 .. KeyLen : (IF i <= Len(k) THEN k[i] ELSE 0) \in Bits
        <3> TAKE i \in 1 .. KeyLen
        <3>1. CASE i <= Len(k)
            BY <2>2, <3>1
        <3>2. CASE ~ (i <= Len(k))
            BY <3>2 DEF Bits
        <3> QED
            BY <3>1, <3>2
    <2>4. key \in Seq(Bits) /\ Len(key) = KeyLen
        BY <2>1, <2>2, <2>3 DEF StoredKey
    <2>5. plain = <<>> /\ cipher = <<>> /\ clear = <<>> /\ frames = <<>>
        BY DEF EncInit
    <2>6. recut = FALSE /\ ragged = FALSE
        BY DEF EncInit
    <2>7. /\ plain \in Seq(Bits) /\ cipher \in Seq(Bits) /\ clear \in Seq(Bits)
          /\ frames \in Seq(Nat)
          /\ Len(plain) = 0 /\ Len(cipher) = 0 /\ Len(clear) = 0 /\ Len(frames) = 0
        BY <2>5
    <2>8. PadRunsOn /\ ClearIsPlain
        BY <2>7 DEF PadRunsOn, ClearIsPlain
    <2>9. \E b : CutBy(b, frames, cipher, plain, Len(clear), key)
        <3> DEFINE b == [j \in 0 .. 0 |-> 0]
        <3>1. CutBy(b, frames, cipher, plain, Len(clear), key)
            BY <2>7 DEF CutBy
        <3> QED
            BY <3>1, Zenon
    <2>10. recut \in BOOLEAN /\ ragged \in BOOLEAN
        BY <2>6, Zenon
    <2>11. Len(clear) + Len(cipher) = Len(plain)
        BY <2>7
    <2> QED
        BY <2>4, <2>7, <2>8, <2>9, <2>10, <2>11, Zenon DEF EncInv
<1>2. EncInv /\ [Next]_vars => EncInv'
    <2> SUFFICES ASSUME EncInv, [Next]_vars PROVE EncInv'
        OBVIOUS
    <2>1. CASE Encrypt \/ Decrypt
        BY <2>1, EncryptStep, DecryptStep
    <2>2. CASE UNCHANGED encVars
        <3>1. /\ key' = key /\ plain' = plain /\ cipher' = cipher /\ frames' = frames
              /\ clear' = clear /\ recut' = recut /\ ragged' = ragged
            BY <2>2 DEF encVars
        <3> QED
            BY <3>1, Zenon DEF EncInv, PadRunsOn, ClearIsPlain
    <2> QED
        BY <2>1, <2>2, PartSteps
<1>3. EncInv => RoundTrip
    BY EncInvRoundTrip
<1> QED
    BY <1>1, <1>2, <1>3, PTL DEF Spec

-----------------------------------------------------------------------------
(***************************************************************************)
(* Induction over data.  The library's induction theorems cannot be used,  *)
(* but that every set of numbers has a least member can, and sets are      *)
(* enough: what is to be shown of every n is that n is in a set.           *)
(***************************************************************************)

\* Every set of numbers that is not empty has a least member.
LEMMA LeastNumber ==
    ASSUME NEW T \in SUBSET Nat, T # {}
    PROVE  \E x \in T : \A y \in T : x <= y
<1> DEFINE Lt == OpToRel(<, Nat)
<1>1. \A x, y \in Nat : x < y => <<x, y>> \in Lt
    BY DEF OpToRel
<1>2. IsWellFoundedOn(Lt, Nat)
    BY NatLessThanWellFounded
<1> HIDE DEF Lt
<1>3. PICK x \in T : \A y \in T : ~ (<<y, x>> \in Lt)
    BY <1>2, WFMin
<1>4. \A y \in T : ~ (y < x)
    BY <1>1, <1>3
<1> QED
    BY <1>4

\* Induction from m up to n
LEMMA Counting ==
    ASSUME NEW m \in Nat, NEW n \in Nat, NEW P, m \in P,
           \A i \in m .. n - 1 : i \in P => i + 1 \in P
    PROVE  m .. n \subseteq P
<1> DEFINE T == {k \in m .. n : k \notin P}
<1> SUFFICES ASSUME T # {} PROVE FALSE
    OBVIOUS
<1>1. T \in SUBSET Nat
    OBVIOUS
<1>2. PICK x \in T : \A y \in T : x <= y
    BY <1>1, LeastNumber
<1>3. x \in m .. n /\ x \notin P /\ x # m
    BY <1>2
<1>4. x - 1 \in m .. n - 1 /\ x - 1 < x /\ (x - 1) + 1 = x
    BY <1>3
<1>5. x - 1 \in P
    BY <1>2, <1>4
<1> QED
    BY <1>3, <1>4, <1>5

\* A function of the numbers from m to n: base at m, and at i what G makes of
\* i and the value before
Steps(D) == [Nat -> [D -> D]]

Iterates(f, D, m, n, base, G) ==
    /\ f \in [m .. n -> D]
    /\ f[m] = base
    /\ \A i \in m + 1 .. n : f[i] = G[i][f[i - 1]]

\* There is such a function.
LEMMA Recursion ==
    \A D, m, n, base, G :
       m \in Nat /\ n \in Nat /\ m <= n /\ base \in D /\ G \in Steps(D) =>
          \E f : Iterates(f, D, m, n, base, G)
<1> SUFFICES ASSUME NEW D, NEW m, NEW n, NEW base, NEW G,
                    m \in Nat /\ n \in Nat /\ m <= n /\ base \in D /\ G \in Steps(D)
             PROVE  \E f : Iterates(f, D, m, n, base, G)
    OBVIOUS
<1> G \in [Nat -> [D -> D]]
    BY DEF Steps
<1> DEFINE Upto(k, f) == /\ f[m] = base
                         /\ \A i \in m + 1 .. k : f[i] = G[i][f[i - 1]]
           P == {k \in m .. n : \E f \in [m .. k -> D] : Upto(k, f)}
<1>1. m \in P
    <2> DEFINE f == [i \in m .. m |-> base]
    <2>1. f \in [m .. m -> D] /\ Upto(m, f)
        OBVIOUS
    <2> HIDE DEF f, Upto
    <2>2. m \in m .. n
        OBVIOUS
    <2> QED
        BY <2>1, <2>2
<1>2. ASSUME NEW k \in m .. n - 1, k \in P
      PROVE  k + 1 \in P
    <2>1. PICK f \in [m .. k -> D] : Upto(k, f)
        BY <1>2
    <2> DEFINE g == [i \in m .. k + 1 |-> IF i <= k THEN f[i] ELSE G[k + 1][f[k]]]
    <2>2. f[k] \in D /\ k + 1 \in Nat
        OBVIOUS
    <2>3. G[k + 1][f[k]] \in D
        BY <2>2
    <2>4. g \in [m .. k + 1 -> D]
        BY <2>3
    <2>5. /\ \A i \in m .. k : g[i] = f[i]
          /\ g[k + 1] = G[k + 1][f[k]]
        OBVIOUS
    <2> HIDE DEF g
    <2>6. g[m] = base
        BY <2>1, <2>5
    <2>7. ASSUME NEW i \in m + 1 .. k + 1
          PROVE  g[i] = G[i][g[i - 1]]
        <3>1. CASE i <= k
            <4>1. i \in m + 1 .. k /\ i - 1 \in m .. k
                BY <3>1
            <4> QED
                BY <2>1, <2>5, <4>1
        <3>2. CASE i = k + 1
            <4>1. i - 1 = k
                BY <3>2
            <4> QED
                BY <2>5, <3>2, <4>1
        <3> QED
            BY <3>1, <3>2
    <2>8. Upto(k + 1, g)
        BY <2>6, <2>7
    <2> HIDE DEF Upto
    <2> QED
        BY <2>4, <2>8
<1> HIDE DEF P
<1>3. m .. n \subseteq P
    BY <1>1, <1>2, Counting
<1>4. n \in P
    BY <1>3
<1>5. PICK f \in [m .. n -> D] : Upto(n, f)
    BY <1>4 DEF P
<1> QED
    BY <1>5 DEF Iterates

\* Appending is associative.
LEMMA Behind ==
    \A T : \A a, b, c \in Seq(T) : (a \o b) \o c = a \o (b \o c)
<1> TAKE T
<1> TAKE a, b, c \in Seq(T)
<1> QED
    BY ConcatAssociative

\* The sums of the first i members, one behind the other
Sums(q, T, f) ==
    /\ f \in [0 .. Len(q) -> Seq(T)]
    /\ f[0] = <<>>
    /\ \A i \in 1 .. Len(q) : f[i] = f[i - 1] \o q[i]

\* FlattenSeq returns the last of them.
LEMMA Flattened ==
    ASSUME NEW T, NEW q \in Seq(Seq(T))
    PROVE  \E f : Sums(q, T, f) /\ FlattenSeq(q) = f[Len(q)]
<1> DEFINE n == Len(q)
<1>1. n \in Nat /\ \A i \in 1 .. n : q[i] \in Seq(T)
    OBVIOUS
<1>2. CASE n = 0
    <2> DEFINE f == [i \in 0 .. 0 |-> <<>>]
    <2>1. f \in [0 .. n -> Seq(T)] /\ f[0] = <<>>
        BY <1>2
    <2>2. q = <<>>
        BY <1>2
    <2> HIDE DEF f
    <2>3. FlattenSeq(q) = f[Len(q)]
        BY <1>2, <2>1, <2>2 DEF FlattenSeq
    <2> QED
        BY <1>2, <2>1, <2>3 DEF Sums
<1>3. CASE n # 0
    <2> DEFINE G == [i \in Nat |-> [s \in Seq(T) |-> IF i \in 1 .. n THEN s \o q[i] ELSE s]]
    <2>1. G \in [Nat -> [Seq(T) -> Seq(T)]]
        BY <1>1
    <2>2. PICK f : Iterates(f, Seq(T), 1, n, q[1], G)
        <3> HIDE DEF G, n
        <3>1. G \in Steps(Seq(T))
            BY <2>1 DEF Steps
        <3>2. q[1] \in Seq(T) /\ 1 \in Nat /\ n \in Nat /\ 1 <= n
            BY <1>1, <1>3 DEF n
        <3> QED
            BY <3>1, <3>2, Recursion, Zenon
    <2>3. \A i \in 2 .. n : f[i] = f[i - 1] \o q[i]
        <3> TAKE i \in 2 .. n
        <3>1. i \in 1 .. n /\ i \in 1 + 1 .. n /\ i - 1 \in 1 .. n /\ i \in Nat
            BY <1>1
        <3>2. f[i - 1] \in Seq(T)
            BY <2>2, <3>1 DEF Iterates
        <3>3. f[i] = G[i][f[i - 1]]
            BY <2>2, <3>1 DEF Iterates
        <3> QED
            BY <3>1, <3>2, <3>3
    <2>4. f = [i \in 1 .. n |-> IF i = 1 THEN q[i] ELSE f[i - 1] \o q[i]]
        <3>1. ASSUME NEW i \in 1 .. n
              PROVE  f[i] = IF i = 1 THEN q[i] ELSE f[i - 1] \o q[i]
            <4>1. i # 1 => i \in 2 .. n
                BY <1>1
            <4> QED
                BY <2>2, <2>3, <4>1, Zenon DEF Iterates
        <3>2. f \in [1 .. n -> Seq(T)]
            BY <2>2 DEF Iterates
        <3> HIDE DEF n
        <3> QED
            BY <3>1, <3>2
    <2> HIDE DEF G
    <2>5. PICK h : /\ h = [i \in 1 .. n |-> IF i = 1 THEN q[i] ELSE h[i - 1] \o q[i]]
                   /\ FlattenSeq(q) = h[n]
        BY <1>3, <2>4, Zenon DEF FlattenSeq
    <2>6. /\ h[1] = q[1]
          /\ \A i \in 2 .. n : h[i] = h[i - 1] \o q[i]
        <3>1. \A i \in 1 .. n : h[i] = IF i = 1 THEN q[i] ELSE h[i - 1] \o q[i]
            BY <2>5, Zenon
        <3>2. 1 \in 1 .. n /\ \A i \in 2 .. n : i \in 1 .. n /\ i # 1
            BY <1>1, <1>3
        <3> QED
            BY <3>1, <3>2, Zenon
    <2>7. 1 .. n \subseteq {i \in 1 .. n : h[i] = f[i]}
        <3> DEFINE P == {i \in 1 .. n : h[i] = f[i]}
        <3>1. 1 \in P
            BY <1>1, <1>3, <2>2, <2>6 DEF Iterates
        <3>2. ASSUME NEW i \in 1 .. n - 1, i \in P PROVE i + 1 \in P
            <4>1. i + 1 \in 2 .. n /\ (i + 1) - 1 = i /\ i + 1 \in 1 .. n
                BY <1>1
            <4> QED
                BY <2>3, <2>6, <3>2, <4>1
        <3> HIDE DEF P, n
        <3>3. 1 .. n \subseteq P
            BY <1>1, <3>1, <3>2, Counting
        <3> QED
            BY <3>3 DEF P
    <2> DEFINE e == [i \in 0 .. n |-> IF i = 0 THEN <<>> ELSE f[i]]
    <2>8. Sums(q, T, e)
        <3>1. e \in [0 .. n -> Seq(T)] /\ e[0] = <<>>
            BY <1>1, <2>2 DEF Iterates
        <3>2. ASSUME NEW i \in 1 .. n PROVE e[i] = e[i - 1] \o q[i]
            <4>1. CASE i = 1
                <5>1. e[1] = q[1] /\ e[0] = <<>> /\ q[1] \in Seq(T)
                    BY <1>1, <1>3, <2>2 DEF Iterates
                <5>2. <<>> \o q[1] = q[1] /\ i - 1 = 0
                    BY <4>1, <5>1
                <5> HIDE DEF e
                <5> QED
                    BY <4>1, <5>1, <5>2
            <4>2. CASE i # 1
                <5>1. i \in 2 .. n /\ i - 1 \in 0 .. n /\ i - 1 # 0 /\ i # 0 /\ i \in 0 .. n
                    BY <1>1, <4>2
                <5>2. e[i] = f[i] /\ e[i - 1] = f[i - 1]
                    BY <5>1
                <5> HIDE DEF e
                <5> QED
                    BY <2>3, <5>1, <5>2
            <4> QED
                BY <4>1, <4>2
        <3> HIDE DEF e
        <3> QED
            BY <3>1, <3>2 DEF Sums
    <2>9. FlattenSeq(q) = e[n]
        <3>1. n \in 1 .. n /\ n \in 0 .. n /\ n # 0
            BY <1>1, <1>3
        <3> HIDE DEF n
        <3> QED
            BY <2>5, <2>7, <3>1
    <2> HIDE DEF e
    <2> QED
        BY <2>8, <2>9
<1> QED
    BY <1>2, <1>3

\* Two sequences of sequences, flattened behind each other
LEMMA FlattenedBoth ==
    ASSUME NEW T, NEW q \in Seq(Seq(T)), NEW r \in Seq(Seq(T))
    PROVE  /\ FlattenSeq(q) \in Seq(T)
           /\ FlattenSeq(q \o r) = FlattenSeq(q) \o FlattenSeq(r)
<1> DEFINE m == Len(q)
           n == Len(r)
<1>1. PICK f : Sums(q, T, f) /\ FlattenSeq(q) = f[m]
    BY Flattened
<1>2. PICK g : Sums(r, T, g) /\ FlattenSeq(r) = g[n]
    BY Flattened
<1>3. /\ q \o r \in Seq(Seq(T)) /\ Len(q \o r) = m + n /\ m \in Nat /\ n \in Nat
      /\ \A i \in 1 .. m : (q \o r)[i] = q[i]
      /\ \A i \in 1 .. n : (q \o r)[m + i] = r[i]
      /\ \A i \in 1 .. n : r[i] \in Seq(T)
    OBVIOUS
<1>4. PICK h : Sums(q \o r, T, h) /\ FlattenSeq(q \o r) = h[m + n]
    BY <1>3, Flattened
<1>5. /\ \A i \in 0 .. m : f[i] \in Seq(T)
      /\ \A i \in 0 .. n : g[i] \in Seq(T)
      /\ f[0] = <<>> /\ g[0] = <<>> /\ h[0] = <<>>
      /\ \A i \in 1 .. m : f[i] = f[i - 1] \o q[i]
      /\ \A i \in 1 .. n : g[i] = g[i - 1] \o r[i]
      /\ \A i \in 1 .. m + n : h[i] = h[i - 1] \o (q \o r)[i]
    BY <1>1, <1>2, <1>3, <1>4 DEF Sums
<1> HIDE DEF m, n
<1>6. 0 .. m \subseteq {i \in 0 .. m : h[i] = f[i]}
    <2> DEFINE P == {i \in 0 .. m : h[i] = f[i]}
    <2>1. 0 \in P
        BY <1>3, <1>5
    <2>2. ASSUME NEW i \in 0 .. m - 1, i \in P PROVE i + 1 \in P
        <3>1. i + 1 \in 1 .. m /\ i + 1 \in 1 .. m + n /\ (i + 1) - 1 = i
            BY <1>3
        <3>2. h[i + 1] = h[i] \o (q \o r)[i + 1]
            BY <1>5, <3>1
        <3>3. (q \o r)[i + 1] = q[i + 1]
            BY <1>3, <3>1
        <3>4. f[i + 1] = f[i] \o q[i + 1]
            BY <1>5, <3>1
        <3>5. i + 1 \in 0 .. m
            BY <1>3
        <3> QED
            BY <2>2, <3>2, <3>3, <3>4, <3>5
    <2> HIDE DEF P
    <2>3. 0 .. m \subseteq P
        BY <1>3, <2>1, <2>2, Counting
    <2> QED
        BY <2>3 DEF P
<1>7. 0 .. n \subseteq {i \in 0 .. n : h[m + i] = f[m] \o g[i]}
    <2> DEFINE P == {i \in 0 .. n : h[m + i] = f[m] \o g[i]}
    <2>1. 0 \in P
        <3>1. f[m] \in Seq(T)
            BY <1>3, <1>5
        <3>2. h[m] = f[m] /\ m + 0 = m /\ f[m] \o <<>> = f[m]
            BY <1>3, <1>6, <3>1
        <3>3. h[m + 0] = f[m] \o g[0]
            BY <1>5, <3>2
        <3>4. 0 \in 0 .. n
            BY <1>3
        <3> QED
            BY <3>3, <3>4
    <2>2. ASSUME NEW i \in 0 .. n - 1, i \in P PROVE i + 1 \in P
        <3>1. /\ i + 1 \in 1 .. n /\ m + (i + 1) \in 1 .. m + n
              /\ (i + 1) - 1 = i /\ (m + (i + 1)) - 1 = m + i
              /\ i \in 0 .. n
            BY <1>3
        <3>2. h[m + (i + 1)] = (f[m] \o g[i]) \o r[i + 1]
            <4>1. h[m + (i + 1)] = h[m + i] \o (q \o r)[m + (i + 1)]
                BY <1>5, <3>1
            <4>2. (q \o r)[m + (i + 1)] = r[i + 1]
                BY <1>3, <3>1
            <4> QED
                BY <2>2, <4>1, <4>2
        <3>3. f[m] \in Seq(T) /\ g[i] \in Seq(T) /\ r[i + 1] \in Seq(T)
            BY <1>3, <1>5, <3>1
        <3>4. (f[m] \o g[i]) \o r[i + 1] = f[m] \o (g[i] \o r[i + 1])
            <4> DEFINE a == f[m]
                       b == g[i]
                       c == r[i + 1]
            <4>1. a \in Seq(T) /\ b \in Seq(T) /\ c \in Seq(T)
                BY <3>3
            <4> HIDE DEF a, b, c
            <4>2. (a \o b) \o c = a \o (b \o c)
                BY <4>1, Behind
            <4> QED
                BY <4>2 DEF a, b, c
        <3>5. g[i + 1] = g[i] \o r[i + 1]
            BY <1>5, <3>1
        <3>6. i + 1 \in 0 .. n
            BY <1>3
        <3> QED
            BY <3>2, <3>4, <3>5, <3>6
    <2> HIDE DEF P
    <2>3. 0 .. n \subseteq P
        BY <1>3, <2>1, <2>2, Counting
    <2> QED
        BY <2>3 DEF P
<1>8. h[m + n] = f[m] \o g[n]
    <2>1. n \in 0 .. n
        BY <1>3
    <2> QED
        BY <1>7, <2>1
<1> QED
    BY <1>1, <1>2, <1>3, <1>4, <1>5, <1>8

-----------------------------------------------------------------------------
(* Decompression *)

\* Byte 1 begins something; a byte behind it is the count of the run that the
\* byte before it begins, or begins something itself.
LEMMA BeginsFacts ==
    ASSUME NEW s \in Seq(Nat)
    PROVE  /\ \A i \in 1 .. Len(s) : Begins(s)[i] \in BOOLEAN
           /\ s # <<>> => Begins(s)[1]
           /\ \A i \in 2 .. Len(s) : Begins(s)[i] <=> ~ (Begins(s)[i - 1] /\ IsRun(s, i - 1))
<1> DEFINE n == Len(s)
           R(b) == [i \in DOMAIN s |-> i = 1 \/ ~ (b[i - 1] /\ IsRun(s, i - 1))]
<1>1. n \in Nat /\ DOMAIN s = 1 .. n
    OBVIOUS
<1>2. CASE n = 0
    <2>1. s = <<>>
        BY <1>2
    <2> QED
        BY <1>2, <2>1
<1>3. CASE n # 0
    <2> DEFINE G == [i \in Nat |-> [v \in BOOLEAN |-> ~ (v /\ IsRun(s, i - 1))]]
    <2>1. PICK f : Iterates(f, BOOLEAN, 1, n, TRUE, G)
        <3>1. G \in Steps(BOOLEAN)
            BY DEF Steps
        <3>2. 1 \in Nat /\ 1 <= n
            BY <1>1, <1>3
        <3> HIDE DEF G, n
        <3> QED
            BY <1>1, <3>1, <3>2, Recursion, Zenon
    <2>2. f \in [1 .. n -> BOOLEAN] /\ f[1] = TRUE
        BY <2>1 DEF Iterates
    <2>3. ASSUME NEW i \in 2 .. n
          PROVE  f[i] = ~ (f[i - 1] /\ IsRun(s, i - 1))
        <3>1. f[i - 1] \in BOOLEAN /\ i \in Nat /\ i \in 1 + 1 .. n
            BY <1>1, <2>2
        <3>2. f[i] = G[i][f[i - 1]]
            BY <2>1, <3>1 DEF Iterates
        <3> QED
            BY <3>1, <3>2, Zenon
    <2> HIDE DEF G
    <2>4. f = R(f)
        <3>1. ASSUME NEW i \in 1 .. n
              PROVE  f[i] = (i = 1 \/ ~ (f[i - 1] /\ IsRun(s, i - 1)))
            <4>1. i # 1 => i \in 2 .. n
                BY <1>1
            <4> QED
                BY <2>2, <2>3, <4>1, Zenon
        <3> HIDE DEF n
        <3> QED
            BY <1>1, <2>2, <3>1, Zenon
    <2>5. Begins(s) = R(Begins(s))
        BY <2>4, Zenon DEF Begins
    <2> DEFINE b == Begins(s)
    <2> HIDE DEF b
    <2>6. \A i \in 1 .. n : b[i] = (i = 1 \/ ~ (b[i - 1] /\ IsRun(s, i - 1)))
        <3> HIDE DEF n
        <3> QED
            BY <1>1, <2>5, Zenon DEF b
    <2>7. 1 \in 1 .. n /\ \A i \in 2 .. n : i \in 1 .. n /\ i # 1
        BY <1>1, <1>3
    <2> HIDE DEF n
    <2>8. /\ \A i \in 1 .. n : b[i] \in BOOLEAN
          /\ b[1]
          /\ \A i \in 2 .. n : b[i] <=> ~ (b[i - 1] /\ IsRun(s, i - 1))
        BY <2>6, <2>7, Zenon
    <2> QED
        BY <2>8, Zenon DEF b, n
<1> QED
    BY <1>2, <1>3

\* What a run repeats is the last byte that is none, or 0.
LEMMA BeforeFacts ==
    ASSUME NEW s \in Seq(Nat)
    PROVE  /\ \A i \in 1 .. Len(s) + 1 : Before(s)[i] \in Nat
           /\ Before(s)[1] = 0
           /\ \A i \in 1 .. Len(s) :
                 Before(s)[i + 1] = IF Begins(s)[i] /\ ~ IsRun(s, i) THEN s[i] ELSE Before(s)[i]
<1> DEFINE n == Len(s) + 1
           Literal(i) == Begins(s)[i] /\ ~ IsRun(s, i)
           R(b) == [i \in 1 .. n |->
                      IF i = 1 THEN 0
                      ELSE IF Begins(s)[i - 1] /\ ~ IsRun(s, i - 1) THEN s[i - 1] ELSE b[i - 1]]
           G == [i \in Nat |-> [v \in Nat |->
                   IF i - 1 \in 1 .. Len(s) /\ Literal(i - 1) THEN s[i - 1] ELSE v]]
<1>1. Len(s) \in Nat /\ n \in Nat /\ \A i \in 1 .. Len(s) : s[i] \in Nat
    OBVIOUS
<1>2. PICK f : Iterates(f, Nat, 1, n, 0, G)
    <2> HIDE DEF Literal
    <2>1. G \in Steps(Nat)
        BY <1>1 DEF Steps
    <2>2. 1 \in Nat /\ 1 <= n /\ 0 \in Nat
        BY <1>1
    <2> HIDE DEF G, n
    <2> QED
        BY <1>1, <2>1, <2>2, Recursion, Zenon
<1>3. f \in [1 .. n -> Nat] /\ f[1] = 0
    BY <1>2 DEF Iterates
<1>4. ASSUME NEW i \in 2 .. n
      PROVE  f[i] = IF Literal(i - 1) THEN s[i - 1] ELSE f[i - 1]
    <2> HIDE DEF Literal
    <2>1. i \in Nat /\ i \in 1 + 1 .. n /\ i - 1 \in 1 .. Len(s) /\ i - 1 \in 1 .. n
        BY <1>1
    <2>2. f[i - 1] \in Nat
        <3> HIDE DEF n
        <3> QED
            BY <1>3, <2>1
    <2>3. f[i] = G[i][f[i - 1]]
        BY <1>2, <2>1 DEF Iterates
    <2> QED
        BY <2>1, <2>2, <2>3
<1> HIDE DEF G
<1>5. f = R(f)
    <2>1. ASSUME NEW i \in 1 .. n
          PROVE  f[i] = IF i = 1 THEN 0 ELSE IF Literal(i - 1) THEN s[i - 1] ELSE f[i - 1]
        <3>1. i # 1 => i \in 2 .. n
            BY <1>1
        <3> QED
            BY <1>3, <1>4, <3>1, Zenon
    <2> HIDE DEF n
    <2> QED
        BY <1>3, <2>1, Zenon
<1>6. Before(s) = R(Before(s))
    BY <1>5, Zenon DEF Before
<1> DEFINE b == Before(s)
<1> HIDE DEF b
<1>7. \A i \in 1 .. n : b[i] = IF i = 1 THEN 0 ELSE IF Literal(i - 1) THEN s[i - 1] ELSE b[i - 1]
    <2> HIDE DEF n
    <2> QED
        BY <1>6, Zenon DEF b
<1> HIDE DEF Literal
<1>8. b[1] = 0
    BY <1>1, <1>7
<1>9. ASSUME NEW i \in 1 .. Len(s)
      PROVE  b[i + 1] = IF Literal(i) THEN s[i] ELSE b[i]
    <2>1. i + 1 \in 1 .. n /\ i + 1 # 1 /\ (i + 1) - 1 = i
        BY <1>1
    <2> QED
        BY <1>7, <2>1
<1>10. \A i \in 1 .. n : b[i] \in Nat
    <2> DEFINE P == {i \in 1 .. n : b[i] \in Nat}
    <2>1. 1 \in P
        BY <1>1, <1>8
    <2>2. ASSUME NEW i \in 1 .. n - 1, i \in P PROVE i + 1 \in P
        <3>1. i \in 1 .. Len(s) /\ i + 1 \in 1 .. n
            BY <1>1
        <3> QED
            BY <1>1, <1>9, <2>2, <3>1
    <2> HIDE DEF P
    <2>3. 1 .. n \subseteq P
        BY <1>1, <2>1, <2>2, Counting
    <2> QED
        BY <2>3 DEF P
<1> QED
    BY <1>8, <1>9, <1>10 DEF b, Literal

PieceOf(s) == [i \in DOMAIN s |-> Piece(s, i)]

\* The byte a run repeats that comes behind output q
LastOr0(q) == IF q = <<>> THEN 0 ELSE Last(q)

LEMMA CopiesFacts ==
    ASSUME NEW c \in Nat, NEW k \in Nat
    PROVE  /\ Copies(c, k) \in Seq(Nat)
           /\ k # 0 => Copies(c, k) # <<>> /\ Last(Copies(c, k)) = c
<1>1. Copies(c, k) \in Seq(Nat) /\ Len(Copies(c, k)) = k /\ \A i \in 1 .. k : Copies(c, k)[i] = c
    BY DEF Copies
<1>2. k # 0 => Copies(c, k) # <<>> /\ k \in 1 .. k
    BY <1>1
<1> QED
    BY <1>1, <1>2 DEF Last

\* The last byte of a sequence with another behind it
LEMMA LastBehind ==
    ASSUME NEW a \in Seq(Nat), NEW b \in Seq(Nat)
    PROVE  /\ a \o b \in Seq(Nat)
           /\ b # <<>> => a \o b # <<>> /\ Last(a \o b) = Last(b)
<1>1. Len(a) \in Nat /\ Len(b) \in Nat /\ Len(a \o b) = Len(a) + Len(b) /\ a \o b \in Seq(Nat)
    OBVIOUS
<1>2. b # <<>> => Len(b) \in 1 .. Len(b) /\ Len(b) # 0
    BY <1>1
<1>3. b # <<>> => (a \o b)[Len(a) + Len(b)] = b[Len(b)]
    BY <1>1, <1>2
<1> QED
    BY <1>1, <1>2, <1>3 DEF Last

LEMMA LastOr0Typed == ASSUME NEW q \in Seq(Nat) PROVE LastOr0(q) \in Nat
<1>1. q # <<>> => Len(q) \in 1 .. Len(q)
    OBVIOUS
<1> QED
    BY <1>1 DEF LastOr0, Last

LEMMA RunHasCount ==
    ASSUME NEW s \in Seq(Nat), NEW i \in 1 .. Len(s), IsRun(s, i)
    PROVE  i + 1 \in 1 .. Len(s) /\ s[i + 1] \in Nat /\ s[i + 1] # 0 /\ s[i] = Esc
<1>1. Len(s) \in Nat /\ i < Len(s)
    BY DEF IsRun
<1>2. i + 1 \in 1 .. Len(s)
    BY <1>1
<1> QED
    BY <1>2 DEF IsRun

LEMMA PieceTyped ==
    ASSUME NEW s \in Seq(Nat)
    PROVE  /\ PieceOf(s) \in Seq(Seq(Nat)) /\ Len(PieceOf(s)) = Len(s)
           /\ \A i \in 1 .. Len(s) : PieceOf(s)[i] = Piece(s, i) /\ Piece(s, i) \in Seq(Nat)
           /\ Expanded(s) = FlattenSeq(PieceOf(s))
<1>1. ASSUME NEW i \in 1 .. Len(s)
      PROVE  Piece(s, i) \in Seq(Nat)
    <2>1. s[i] \in Nat /\ Before(s)[i] \in Nat
        BY BeforeFacts
    <2>2. <<>> \in Seq(Nat) /\ <<s[i]>> \in Seq(Nat)
        BY <2>1
    <2>3. IsRun(s, i) => Copies(Before(s)[i], s[i + 1]) \in Seq(Nat)
        BY <2>1, RunHasCount, CopiesFacts
    <2> QED
        BY <2>2, <2>3 DEF Piece
<1>2. DOMAIN s = 1 .. Len(s) /\ Len(s) \in Nat
    OBVIOUS
<1> QED
    BY <1>1, <1>2 DEF PieceOf, Expanded

RleState == [skip : BOOLEAN, out : Seq(Nat)]

\* One byte decoded: the count of a run, the start of one, or a literal
LEMMA RleByteFacts ==
    \A s \in Seq(Nat) : \A i \in 1 .. Len(s) : \A st \in RleState :
       /\ RleByte(s, st, i) \in RleState
       /\ st.skip => /\ ~ RleByte(s, st, i).skip
                     /\ RleByte(s, st, i).out = st.out
       /\ ~ st.skip /\ IsRun(s, i) =>
             /\ RleByte(s, st, i).skip
             /\ RleByte(s, st, i).out = st.out \o Copies(LastOr0(st.out), s[i + 1])
       /\ ~ st.skip /\ ~ IsRun(s, i) =>
             /\ ~ RleByte(s, st, i).skip
             /\ RleByte(s, st, i).out = st.out \o <<s[i]>>
<1> TAKE s \in Seq(Nat)
<1> TAKE i \in 1 .. Len(s)
<1> TAKE st \in RleState
<1>1. /\ st = [skip |-> st.skip, out |-> st.out]
      /\ st.skip \in BOOLEAN /\ st.out \in Seq(Nat) /\ s[i] \in Nat
    BY DEF RleState
<1>2. CASE st.skip
    <2>1. RleByte(s, st, i) = [skip |-> FALSE, out |-> st.out]
        BY <1>1, <1>2 DEF RleByte
    <2> QED
        BY <1>1, <1>2, <2>1 DEF RleState
<1>3. CASE ~ st.skip /\ IsRun(s, i)
    <2> DEFINE q == st.out \o Copies(LastOr0(st.out), s[i + 1])
    <2>1. RleByte(s, st, i) = [skip |-> TRUE, out |-> q]
        BY <1>3, Zenon DEF RleByte, LastOr0
    <2>2. LastOr0(st.out) \in Nat /\ s[i + 1] \in Nat
        BY <1>1, <1>3, LastOr0Typed, RunHasCount
    <2>3. q \in Seq(Nat)
        BY <1>1, <2>2, CopiesFacts, LastBehind
    <2> HIDE DEF q
    <2>4. RleByte(s, st, i) \in RleState /\ RleByte(s, st, i).skip /\ RleByte(s, st, i).out = q
        BY <2>1, <2>3 DEF RleState
    <2> QED
        BY <1>3, <2>4 DEF q
<1>4. CASE ~ st.skip /\ ~ IsRun(s, i)
    <2> DEFINE q == st.out \o <<s[i]>>
    <2>1. RleByte(s, st, i) = [skip |-> FALSE, out |-> Append(st.out, s[i])]
        BY <1>1, <1>4 DEF RleByte
    <2>2. q \in Seq(Nat) /\ Append(st.out, s[i]) = q
        <3> DEFINE p == st.out
                   c == s[i]
        <3>1. p \in Seq(Nat) /\ c \in Nat
            BY <1>1
        <3> HIDE DEF p, c
        <3>2. p \o <<c>> \in Seq(Nat)
            BY <3>1
        <3>3. Append(p, c) = p \o <<c>>
            BY <3>1, AppendIsConcat
        <3> QED
            BY <3>2, <3>3 DEF p, c
    <2> HIDE DEF q
    <2>3. RleByte(s, st, i) \in RleState /\ ~ RleByte(s, st, i).skip /\ RleByte(s, st, i).out = q
        BY <2>1, <2>2 DEF RleState
    <2> QED
        BY <1>4, <2>3 DEF q
<1> QED
    BY <1>1, <1>2, <1>3, <1>4

\* What one call makes of a chunk is what the whole stream means, were the chunk
\* the whole stream.
LEMMA UnpackedIsExpanded ==
    ASSUME NEW s \in Seq(Nat), algo = "rle"
    PROVE  Unpack(s) = Expanded(s)
<1> DEFINE n == Len(s)
           start == [skip |-> FALSE, out |-> <<>>]
           R(f) == [i \in 0 .. Len(s) |->
                      IF i = 0 THEN start ELSE RleByte(s, f[i - 1], i)]
           G == [i \in Nat |-> [st \in RleState |->
                   IF i \in 1 .. n THEN RleByte(s, st, i) ELSE st]]
<1>1. n \in Nat /\ \A i \in 1 .. n : s[i] \in Nat
    OBVIOUS
<1>2. start \in RleState
    BY DEF RleState
<1>3. PICK f : Iterates(f, RleState, 0, n, start, G)
    <2>1. G \in Steps(RleState)
        BY RleByteFacts DEF Steps
    <2>2. 0 \in Nat /\ 0 <= n
        BY <1>1
    <2> HIDE DEF G, n, start
    <2> QED
        BY <1>1, <1>2, <2>1, <2>2, Recursion, Zenon
<1>4. f \in [0 .. n -> RleState] /\ f[0] = start
    BY <1>3 DEF Iterates
<1>5. ASSUME NEW i \in 1 .. n
      PROVE  f[i] = RleByte(s, f[i - 1], i) /\ f[i - 1] \in RleState
    <2>1. i - 1 \in 0 .. n /\ i \in Nat /\ i \in 0 + 1 .. n
        BY <1>1
    <2>2. f[i - 1] \in RleState
        <3> HIDE DEF n
        <3> QED
            BY <1>4, <2>1
    <2>3. f[i] = G[i][f[i - 1]]
        BY <1>3, <2>1 DEF Iterates
    <2> QED
        BY <2>1, <2>2, <2>3
<1> HIDE DEF G
<1>6. f = R(f)
    <2>1. ASSUME NEW i \in 0 .. n
          PROVE  f[i] = IF i = 0 THEN start ELSE RleByte(s, f[i - 1], i)
        <3>1. i # 0 => i \in 1 .. n
            BY <1>1
        <3> QED
            BY <1>4, <1>5, <3>1, Zenon
    <2> HIDE DEF start
    <2> QED
        BY <1>4, <2>1, Zenon
<1>7. PICK g : g = R(g) /\ Unpack(s) = g[n].out
    BY <1>6, Zenon DEF Unpack
<1>8. g[0] = start /\ \A i \in 1 .. n : g[i] = RleByte(s, g[i - 1], i)
    <2>1. \A i \in 0 .. n : g[i] = IF i = 0 THEN start ELSE RleByte(s, g[i - 1], i)
        <3> HIDE DEF start
        <3> QED
            BY <1>7, Zenon
    <2>2. 0 \in 0 .. n /\ \A i \in 1 .. n : i \in 0 .. n /\ i # 0
        BY <1>1
    <2> HIDE DEF n, start
    <2> QED
        BY <2>1, <2>2, Zenon
<1>9. PICK h : Sums(PieceOf(s), Nat, h) /\ Expanded(s) = h[n]
    BY PieceTyped, Flattened
<1>10. /\ h[0] = <<>> /\ \A i \in 0 .. n : h[i] \in Seq(Nat)
       /\ \A i \in 1 .. n : h[i] = h[i - 1] \o Piece(s, i)
    BY <1>9, PieceTyped DEF Sums
<1> DEFINE InRun(i) == i >= 1 /\ Begins(s)[i] /\ IsRun(s, i)
           P == {i \in 0 .. n : /\ g[i] \in RleState
                                /\ g[i].skip <=> InRun(i)
                                /\ g[i].out = h[i]
                                /\ LastOr0(h[i]) = Before(s)[i + 1]}
<1>11. 0 \in P
    <2>1. g[0] \in RleState /\ ~ g[0].skip /\ g[0].out = h[0]
        BY <1>2, <1>8, <1>10
    <2>2. LastOr0(h[0]) = Before(s)[0 + 1]
        BY <1>10, BeforeFacts DEF LastOr0
    <2>3. ~ InRun(0) /\ 0 \in 0 .. n
        BY <1>1
    <2> HIDE DEF InRun, n
    <2> QED
        BY <2>1, <2>2, <2>3
<1>12. ASSUME NEW i \in 0 .. n - 1, i \in P
       PROVE  i + 1 \in P
    <2> DEFINE j == i + 1
    <2>1. j \in 1 .. Len(s) /\ j \in 1 .. n /\ j - 1 = i /\ i \in 0 .. n /\ j \in 0 .. n
        BY <1>1
    <2>2. /\ g[i] \in RleState
          /\ g[i].skip <=> InRun(i)
          /\ g[i].out = h[i]
          /\ LastOr0(h[i]) = Before(s)[j]
        BY <1>12
    <2>3. g[j] = RleByte(s, g[i], j) /\ h[j] = h[i] \o Piece(s, j)
        BY <1>8, <1>10, <2>1
    <2>4. /\ Begins(s)[j] <=> ~ InRun(i)
          /\ Begins(s)[j] \in BOOLEAN
        <3>1. CASE i = 0
            <4>1. s # <<>> /\ j = 1
                BY <1>1, <2>1, <3>1
            <4> QED
                BY <2>1, <3>1, <4>1, BeginsFacts
        <3>2. CASE i # 0
            <4>1. j \in 2 .. n /\ i >= 1
                BY <1>1, <2>1, <3>2
            <4> QED
                BY <2>1, <4>1, BeginsFacts
        <3> QED
            BY <3>1, <3>2
    <2>5. Before(s)[j + 1] = IF Begins(s)[j] /\ ~ IsRun(s, j) THEN s[j] ELSE Before(s)[j]
        BY <2>1, BeforeFacts
    <2>6. h[i] \in Seq(Nat) /\ s[j] \in Nat /\ Before(s)[j] \in Nat
        BY <1>1, <1>10, <2>1, BeforeFacts
    <2>7. InRun(j) <=> Begins(s)[j] /\ IsRun(s, j)
        BY <2>1
    <2> HIDE DEF j, InRun, n
    <2> SUFFICES /\ g[j].skip <=> InRun(j)
                 /\ g[j].out = h[j]
                 /\ LastOr0(h[j]) = Before(s)[j + 1]
        <3>1. g[j] \in RleState
            BY <2>1, <2>2, <2>3, RleByteFacts, Zenon
        <3> QED
            BY <2>1, <3>1 DEF j
    <2> DEFINE st == g[i]
    <2> HIDE DEF st
    <2>11. /\ st.skip => ~ g[j].skip /\ g[j].out = st.out
           /\ ~ st.skip /\ IsRun(s, j) =>
                 g[j].skip /\ g[j].out = st.out \o Copies(LastOr0(st.out), s[j + 1])
           /\ ~ st.skip /\ ~ IsRun(s, j) =>
                 ~ g[j].skip /\ g[j].out = st.out \o <<s[j]>>
        <3>1. st \in RleState /\ g[j] = RleByte(s, st, j)
            BY <2>2, <2>3 DEF st
        <3> DEFINE b == RleByte(s, st, j)
        <3>2. /\ st.skip => ~ b.skip /\ b.out = st.out
              /\ ~ st.skip /\ IsRun(s, j) =>
                    b.skip /\ b.out = st.out \o Copies(LastOr0(st.out), s[j + 1])
              /\ ~ st.skip /\ ~ IsRun(s, j) =>
                    ~ b.skip /\ b.out = st.out \o <<s[j]>>
            BY <2>1, <3>1, RleByteFacts, Zenon
        <3> HIDE DEF b
        <3>3. g[j] = b
            BY <3>1 DEF b
        <3> QED
            BY <3>2, <3>3, Zenon
    <2>8. CASE ~ Begins(s)[j]
        <3>1. Piece(s, j) = <<>>
            BY <2>8 DEF Piece
        <3>2. h[j] = h[i]
            BY <2>3, <2>6, <3>1
        <3>3. ~ g[j].skip /\ g[j].out = h[i]
            BY <2>2, <2>4, <2>11, <2>8, Zenon DEF st
        <3> HIDE DEF n
        <3> QED
            BY <2>2, <2>5, <2>7, <2>8, <3>2, <3>3
    <2>9. CASE Begins(s)[j] /\ IsRun(s, j)
        <3> DEFINE q == Copies(Before(s)[j], s[j + 1])
        <3>1. q \in Seq(Nat) /\ q # <<>> /\ Last(q) = Before(s)[j]
            BY <2>1, <2>6, <2>9, RunHasCount, CopiesFacts
        <3>2. Piece(s, j) = q
            BY <2>9 DEF Piece
        <3>3. g[j].skip /\ g[j].out = h[i] \o q
            BY <2>2, <2>4, <2>11, <2>9, Zenon DEF st, q
        <3> HIDE DEF q
        <3>4. h[j] # <<>> /\ Last(h[j]) = Before(s)[j]
            BY <2>3, <2>6, <3>1, <3>2, LastBehind
        <3>5. LastOr0(h[j]) = Before(s)[j]
            BY <3>4 DEF LastOr0
        <3> HIDE DEF n
        <3> QED
            BY <2>3, <2>5, <2>7, <2>9, <3>2, <3>3, <3>5
    <2>10. CASE Begins(s)[j] /\ ~ IsRun(s, j)
        <3> DEFINE q == <<s[j]>>
        <3>1. q \in Seq(Nat) /\ q # <<>> /\ Last(q) = s[j]
            BY <2>6 DEF Last
        <3>2. Piece(s, j) = q
            BY <2>10 DEF Piece
        <3>3. ~ g[j].skip /\ g[j].out = h[i] \o q
            BY <2>2, <2>4, <2>11, <2>10, Zenon DEF st, q
        <3> HIDE DEF q
        <3>4. h[j] # <<>> /\ Last(h[j]) = s[j]
            BY <2>3, <2>6, <3>1, <3>2, LastBehind
        <3>5. LastOr0(h[j]) = s[j]
            BY <3>4 DEF LastOr0
        <3> HIDE DEF n
        <3> QED
            BY <2>3, <2>5, <2>7, <2>10, <3>2, <3>3, <3>5
    <2> QED
        BY <2>4, <2>8, <2>9, <2>10
<1>13. n \in P
    <2> HIDE DEF P, n
    <2>1. 0 .. n \subseteq P
        BY <1>1, <1>11, <1>12, Counting
    <2> QED
        BY <1>1, <2>1
<1> QED
    BY <1>7, <1>9, <1>13

-----------------------------------------------------------------------------
(* A stream and the chunk behind it *)

\* Where the members of s and of t are in s \o t
Places(T, s, t) ==
    /\ s \o t \in Seq(T)
    /\ Len(s \o t) = Len(s) + Len(t)
    /\ \A i \in 1 .. Len(s) : (s \o t)[i] = s[i]
    /\ \A j \in 1 .. Len(t) : (s \o t)[Len(s) + j] = t[j]

LEMMA ConcatPlaces == \A T : \A s, t \in Seq(T) : Places(T, s, t)
    BY DEF Places

\* Chunk t behind stream r, both with something in them, and no run is cut
Joint(r, t) ==
    /\ r \in Seq(Nat) /\ t \in Seq(Nat) /\ r # <<>> /\ t # <<>>
    /\ ~ CutsRun(r \o t, Len(r) + 1)

LEMMA JointBytes ==
    ASSUME NEW r, NEW t, Joint(r, t)
    PROVE  LET s == r \o t
               m == Len(r)
           IN  /\ s \in Seq(Nat) /\ m \in Nat \ {0} /\ Len(t) \in Nat \ {0}
               /\ Len(s) = m + Len(t)
               /\ \A i \in 1 .. m : s[i] = r[i]
               /\ \A j \in 1 .. Len(t) : s[m + j] = t[j]
               /\ \A i \in 1 .. m : i # m => (IsRun(s, i) <=> IsRun(r, i))
               /\ ~ IsRun(r, m)
               /\ \A j \in 1 .. Len(t) : IsRun(s, m + j) <=> IsRun(t, j)
<1> DEFINE s == r \o t
           m == Len(r)
           n == Len(t)
<1>1. r \in Seq(Nat) /\ t \in Seq(Nat) /\ r # <<>> /\ t # <<>>
    BY DEF Joint
<1>2. /\ s \in Seq(Nat) /\ m \in Nat \ {0} /\ n \in Nat \ {0}
      /\ Len(s) = m + n
      /\ \A i \in 1 .. m : s[i] = r[i]
      /\ \A j \in 1 .. n : s[m + j] = t[j]
    BY <1>1
<1> HIDE DEF s, m, n
<1>3. ASSUME NEW i \in 1 .. m, i # m
      PROVE  IsRun(s, i) <=> IsRun(r, i)
    <2>1. i + 1 \in 1 .. m /\ i < Len(s) /\ i < m
        BY <1>2, <1>3
    <2>2. s[i] = r[i] /\ s[i + 1] = r[i + 1]
        BY <1>2, <2>1
    <2> QED
        BY <2>1, <2>2 DEF IsRun, m
<1>4. ~ IsRun(r, m)
    BY <1>2 DEF IsRun, m
<1>5. ASSUME NEW j \in 1 .. n
      PROVE  IsRun(s, m + j) <=> IsRun(t, j)
    <2>1. CASE j = n
        <3>1. ~ (m + j < Len(s)) /\ ~ (j < n)
            BY <1>2, <2>1
        <3> QED
            BY <3>1 DEF IsRun, n
    <2>2. CASE j # n
        <3>1. j + 1 \in 1 .. n /\ m + j < Len(s) /\ j < n /\ (m + j) + 1 = m + (j + 1)
            BY <1>2, <2>2
        <3>2. s[m + j] = t[j] /\ s[(m + j) + 1] = t[j + 1]
            BY <1>2, <3>1
        <3> QED
            BY <3>1, <3>2 DEF IsRun, n
    <2> QED
        BY <2>1, <2>2
<1> QED
    BY <1>2, <1>3, <1>4, <1>5 DEF s, m, n

\* The pieces of the stream stay what they were.
LEMMA StreamPieces ==
    ASSUME NEW r, NEW t, Joint(r, t)
    PROVE  \A i \in 1 .. Len(r) : Piece(r \o t, i) = Piece(r, i)
<1> DEFINE s == r \o t
           m == Len(r)
<1>1. /\ s \in Seq(Nat) /\ r \in Seq(Nat) /\ m \in Nat \ {0} /\ Len(t) \in Nat \ {0}
      /\ Len(s) = m + Len(t) /\ Len(r) = m /\ r # <<>> /\ s # <<>>
      /\ \A i \in 1 .. m : s[i] = r[i]
      /\ \A i \in 1 .. m : i # m => (IsRun(s, i) <=> IsRun(r, i))
      /\ ~ IsRun(r, m)
    <2>1. r \in Seq(Nat) /\ r # <<>>
        BY DEF Joint
    <2>2. s # <<>>
        BY JointBytes
    <2> QED
        BY <2>1, <2>2, JointBytes
<1>2. Begins(s)[m] => ~ IsRun(s, m)
    <2>1. ~ CutsRun(s, m + 1) /\ m = (m + 1) - 1
        BY <1>1 DEF Joint
    <2> QED
        BY <2>1 DEF CutsRun
<1> HIDE DEF s, m
<1>3. 1 .. m \subseteq {i \in 1 .. m : Begins(s)[i] <=> Begins(r)[i]}
    <2> DEFINE P == {i \in 1 .. m : Begins(s)[i] <=> Begins(r)[i]}
    <2>1. 1 \in P
        <3>1. Begins(s)[1] /\ Begins(r)[1]
            BY <1>1, BeginsFacts
        <3> QED
            BY <1>1, <3>1
    <2>2. ASSUME NEW i \in 1 .. m - 1, i \in P
          PROVE  i + 1 \in P
        <3>1. /\ i + 1 \in 2 .. Len(s) /\ i + 1 \in 2 .. Len(r) /\ (i + 1) - 1 = i
              /\ i \in 1 .. m /\ i # m /\ i + 1 \in 1 .. m
            BY <1>1
        <3>2. Begins(s)[i + 1] <=> ~ (Begins(s)[i] /\ IsRun(s, i))
            BY <1>1, <3>1, BeginsFacts
        <3>3. Begins(r)[i + 1] <=> ~ (Begins(r)[i] /\ IsRun(r, i))
            BY <1>1, <3>1, BeginsFacts
        <3>4. IsRun(s, i) <=> IsRun(r, i)
            BY <1>1, <3>1
        <3>5. Begins(s)[i + 1] <=> Begins(r)[i + 1]
            BY <2>2, <3>2, <3>3, <3>4
        <3> QED
            BY <3>1, <3>5
    <2> HIDE DEF P
    <2>3. 1 .. m \subseteq P
        BY <1>1, <2>1, <2>2, Counting
    <2> QED
        BY <2>3 DEF P
<1>4. 1 .. m \subseteq {i \in 1 .. m : Before(s)[i] = Before(r)[i]}
    <2> DEFINE P == {i \in 1 .. m : Before(s)[i] = Before(r)[i]}
    <2>1. 1 \in P
        <3>1. Before(s)[1] = 0 /\ Before(r)[1] = 0
            BY <1>1, BeforeFacts
        <3> QED
            BY <1>1, <3>1
    <2>2. ASSUME NEW i \in 1 .. m - 1, i \in P
          PROVE  i + 1 \in P
        <3>1. /\ i \in 1 .. Len(s) /\ i \in 1 .. Len(r)
              /\ i \in 1 .. m /\ i # m /\ i + 1 \in 1 .. m
            <4>1. m \in Nat /\ Len(s) >= m /\ Len(s) \in Nat /\ Len(r) = m
                BY <1>1
            <4> QED
                BY <4>1
        <3>2. Before(s)[i + 1] = IF Begins(s)[i] /\ ~ IsRun(s, i) THEN s[i] ELSE Before(s)[i]
            BY <1>1, <3>1, BeforeFacts
        <3>3. Before(r)[i + 1] = IF Begins(r)[i] /\ ~ IsRun(r, i) THEN r[i] ELSE Before(r)[i]
            BY <1>1, <3>1, BeforeFacts
        <3>4. /\ IsRun(s, i) <=> IsRun(r, i)
              /\ Begins(s)[i] <=> Begins(r)[i]
              /\ s[i] = r[i]
              /\ Before(s)[i] = Before(r)[i]
            BY <1>1, <1>3, <2>2, <3>1
        <3>5. Before(s)[i + 1] = Before(r)[i + 1]
            BY <3>2, <3>3, <3>4
        <3> QED
            BY <3>1, <3>5
    <2> HIDE DEF P
    <2>3. 1 .. m \subseteq P
        BY <1>1, <2>1, <2>2, Counting
    <2> QED
        BY <2>3 DEF P
<1>5. ASSUME NEW i \in 1 .. m
      PROVE  Piece(s, i) = Piece(r, i)
    <2>1. /\ Begins(s)[i] <=> Begins(r)[i]
          /\ Before(s)[i] = Before(r)[i]
          /\ s[i] = r[i]
        BY <1>1, <1>3, <1>4
    <2>2. CASE i = m
        BY <1>1, <1>2, <2>1, <2>2 DEF Piece
    <2>3. CASE i # m
        <3>1. i + 1 \in 1 .. m /\ (IsRun(s, i) <=> IsRun(r, i))
            BY <1>1, <2>3
        <3>2. s[i + 1] = r[i + 1]
            BY <1>1, <3>1
        <3> QED
            BY <2>1, <3>1, <3>2 DEF Piece
    <2> QED
        BY <2>2, <2>3
<1> QED
    BY <1>5 DEF s, m

\* The pieces of the chunk are what they are without the stream.
LEMMA ChunkPieces ==
    ASSUME NEW r, NEW t, Joint(r, t)
    PROVE  \A j \in 1 .. Len(t) : Piece(r \o t, Len(r) + j) = Piece(t, j)
<1> DEFINE s == r \o t
           m == Len(r)
           n == Len(t)
<1>1. /\ s \in Seq(Nat) /\ t \in Seq(Nat) /\ m \in Nat \ {0} /\ n \in Nat \ {0}
      /\ Len(s) = m + n /\ Len(t) = n /\ t # <<>>
      /\ \A j \in 1 .. n : s[m + j] = t[j]
      /\ \A j \in 1 .. n : IsRun(s, m + j) <=> IsRun(t, j)
    <2>1. t \in Seq(Nat) /\ t # <<>>
        BY DEF Joint
    <2> QED
        BY <2>1, JointBytes
<1>2. /\ ~ (Begins(s)[m] /\ IsRun(s, m))
      /\ ~ (Begins(s)[m + 1] /\ IsRun(s, m + 1))
    <2>1. ~ CutsRun(s, m + 1) /\ m = (m + 1) - 1
        BY <1>1 DEF Joint
    <2> QED
        BY <2>1 DEF CutsRun
<1> HIDE DEF s, m, n
<1>3. Begins(s)[m + 1]
    <2>1. m + 1 \in 2 .. Len(s) /\ (m + 1) - 1 = m
        BY <1>1
    <2>2. Begins(s)[m + 1] <=> ~ (Begins(s)[m] /\ IsRun(s, m))
        BY <1>1, <2>1, BeginsFacts
    <2> QED
        BY <1>2, <2>2
<1>4. 1 .. n \subseteq {j \in 1 .. n : Begins(s)[m + j] <=> Begins(t)[j]}
    <2> DEFINE P == {j \in 1 .. n : Begins(s)[m + j] <=> Begins(t)[j]}
    <2>1. 1 \in P
        <3>1. Begins(t)[1]
            BY <1>1, BeginsFacts
        <3> QED
            BY <1>1, <1>3, <3>1
    <2>2. ASSUME NEW j \in 1 .. n - 1, j \in P
          PROVE  j + 1 \in P
        <3>1. /\ m + (j + 1) \in 2 .. Len(s) /\ j + 1 \in 2 .. Len(t)
              /\ (j + 1) - 1 = j /\ (m + (j + 1)) - 1 = m + j
              /\ j \in 1 .. n /\ j + 1 \in 1 .. n
            BY <1>1
        <3>2. Begins(s)[m + (j + 1)] <=> ~ (Begins(s)[m + j] /\ IsRun(s, m + j))
            BY <1>1, <3>1, BeginsFacts
        <3>3. Begins(t)[j + 1] <=> ~ (Begins(t)[j] /\ IsRun(t, j))
            BY <1>1, <3>1, BeginsFacts
        <3>4. IsRun(s, m + j) <=> IsRun(t, j)
            BY <1>1, <3>1
        <3>5. Begins(s)[m + (j + 1)] <=> Begins(t)[j + 1]
            BY <2>2, <3>2, <3>3, <3>4
        <3> QED
            BY <3>1, <3>5
    <2> HIDE DEF P
    <2>3. 1 .. n \subseteq P
        BY <1>1, <2>1, <2>2, Counting
    <2> QED
        BY <2>3 DEF P
<1>5. 1 \in 1 .. n /\ m + 1 \in 1 .. Len(s)
    BY <1>1
<1>6. ~ IsRun(t, 1) /\ ~ IsRun(s, m + 1) /\ Begins(t)[1]
    BY <1>1, <1>2, <1>3, <1>4, <1>5
<1>7. 2 .. n + 1 \subseteq {j \in 2 .. n + 1 : Before(s)[m + j] = Before(t)[j]}
    <2> DEFINE P == {j \in 2 .. n + 1 : Before(s)[m + j] = Before(t)[j]}
    <2>1. 2 \in P
        <3>1. Before(s)[(m + 1) + 1] = s[m + 1]
            <4> DEFINE k == m + 1
            <4>1. k \in 1 .. Len(s) /\ Begins(s)[k] /\ ~ IsRun(s, k)
                BY <1>3, <1>5, <1>6
            <4> HIDE DEF k
            <4>2. Before(s)[k + 1] = s[k]
                BY <1>1, <4>1, BeforeFacts
            <4> QED
                BY <4>2 DEF k
        <3>2. Before(t)[1 + 1] = t[1]
            BY <1>1, <1>5, <1>6, BeforeFacts DEF n
        <3>3. (m + 1) + 1 = m + 2 /\ 1 + 1 = 2 /\ 2 \in 2 .. n + 1 /\ s[m + 1] = t[1]
            BY <1>1, <1>5
        <3> QED
            BY <3>1, <3>2, <3>3
    <2>2. ASSUME NEW j \in 2 .. (n + 1) - 1, j \in P
          PROVE  j + 1 \in P
        <3>1. /\ m + j \in 1 .. Len(s) /\ j \in 1 .. Len(t) /\ j \in 1 .. n
              /\ (m + j) + 1 = m + (j + 1) /\ j + 1 \in 2 .. n + 1
            BY <1>1
        <3>2. Before(s)[m + (j + 1)] =
                 IF Begins(s)[m + j] /\ ~ IsRun(s, m + j) THEN s[m + j] ELSE Before(s)[m + j]
            <4> DEFINE k == m + j
            <4>1. k \in 1 .. Len(s) /\ k + 1 = m + (j + 1)
                BY <3>1
            <4> HIDE DEF k
            <4>2. Before(s)[k + 1] = IF Begins(s)[k] /\ ~ IsRun(s, k) THEN s[k] ELSE Before(s)[k]
                BY <1>1, <4>1, BeforeFacts
            <4> QED
                BY <4>1, <4>2 DEF k
        <3>3. Before(t)[j + 1] = IF Begins(t)[j] /\ ~ IsRun(t, j) THEN t[j] ELSE Before(t)[j]
            BY <1>1, <3>1, BeforeFacts
        <3>4. /\ IsRun(s, m + j) <=> IsRun(t, j)
              /\ Begins(s)[m + j] <=> Begins(t)[j]
              /\ s[m + j] = t[j]
              /\ Before(s)[m + j] = Before(t)[j]
            BY <1>1, <1>4, <2>2, <3>1
        <3>5. Before(s)[m + (j + 1)] = Before(t)[j + 1]
            BY <3>2, <3>3, <3>4
        <3> QED
            BY <3>1, <3>5
    <2> HIDE DEF P
    <2>3. 2 .. n + 1 \subseteq P
        <3> DEFINE k == n + 1
        <3>1. k \in Nat /\ 2 \in Nat
            BY <1>1
        <3>2. \A j \in 2 .. k - 1 : j \in P => j + 1 \in P
            BY <2>2
        <3> HIDE DEF k
        <3>3. 2 .. k \subseteq P
            BY <2>1, <3>1, <3>2, Counting
        <3> QED
            BY <3>3 DEF k
    <2> QED
        BY <2>3 DEF P
<1>8. ASSUME NEW j \in 1 .. n
      PROVE  Piece(s, m + j) = Piece(t, j)
    <2>1. /\ Begins(s)[m + j] <=> Begins(t)[j]
          /\ IsRun(s, m + j) <=> IsRun(t, j)
          /\ s[m + j] = t[j]
        BY <1>1, <1>4
    <2>2. CASE ~ Begins(t)[j] \/ ~ IsRun(t, j)
        BY <2>1, <2>2 DEF Piece
    <2>3. CASE Begins(t)[j] /\ IsRun(t, j)
        <3>1. j # 1 /\ j \in 1 .. Len(t)
            BY <1>6, <2>3 DEF n
        <3>2. j \in 2 .. n + 1
            BY <1>1, <3>1
        <3>3. Before(s)[m + j] = Before(t)[j]
            BY <1>7, <3>2
        <3>4. j + 1 \in 1 .. n /\ (m + j) + 1 = m + (j + 1)
            BY <1>1, <2>3, <3>1, RunHasCount DEF n
        <3>5. s[(m + j) + 1] = t[j + 1]
            BY <1>1, <3>4
        <3> QED
            BY <2>1, <2>3, <3>3, <3>5 DEF Piece
    <2> QED
        BY <2>2, <2>3
<1> QED
    BY <1>8 DEF s, m, n

\* A decoder that remembers makes of both what one without memory makes of each.
LEMMA ExpandedJoint ==
    ASSUME NEW r, NEW t, Joint(r, t)
    PROVE  Expanded(r \o t) = Expanded(r) \o Expanded(t)
<1> DEFINE s == r \o t
           q == PieceOf(r)
           p == PieceOf(t)
           w == PieceOf(s)
           m == Len(r)
           n == Len(t)
<1>1. r \in Seq(Nat) /\ t \in Seq(Nat)
    BY DEF Joint
<1>2. s \in Seq(Nat) /\ m \in Nat /\ n \in Nat /\ Len(s) = m + n
    BY JointBytes
<1>3. /\ q \in Seq(Seq(Nat)) /\ Len(q) = m /\ \A i \in 1 .. m : q[i] = Piece(r, i)
      /\ p \in Seq(Seq(Nat)) /\ Len(p) = n /\ \A j \in 1 .. n : p[j] = Piece(t, j)
      /\ w \in Seq(Seq(Nat)) /\ Len(w) = m + n /\ \A i \in 1 .. m + n : w[i] = Piece(s, i)
      /\ Expanded(r) = FlattenSeq(q) /\ Expanded(t) = FlattenSeq(p)
      /\ Expanded(s) = FlattenSeq(w)
    <2> HIDE DEF s
    <2> QED
        BY <1>1, <1>2, PieceTyped
<1>4. \A i \in 1 .. m : Piece(s, i) = Piece(r, i)
    BY StreamPieces
<1>5. \A j \in 1 .. n : Piece(s, m + j) = Piece(t, j)
    BY ChunkPieces
<1> HIDE DEF s, q, p, w, m, n
<1>6. w = q \o p
    <2>1. /\ q \o p \in Seq(Seq(Nat)) /\ Len(q \o p) = m + n
          /\ \A i \in 1 .. m : (q \o p)[i] = q[i]
          /\ \A j \in 1 .. n : (q \o p)[m + j] = p[j]
        <3> DEFINE T == Seq(Nat)
        <3>1. q \in Seq(T) /\ p \in Seq(T)
            BY <1>3
        <3> HIDE DEF T
        <3>2. Places(T, q, p)
            BY <3>1, ConcatPlaces, Zenon
        <3>3. Len(q) = m /\ Len(p) = n
            BY <1>3
        <3> QED
            BY <3>2, <3>3, Zenon DEF T, Places
    <2>2. ASSUME NEW i \in 1 .. m + n PROVE w[i] = (q \o p)[i]
        <3>1. CASE i <= m
            <4>1. i \in 1 .. m
                BY <1>2, <3>1
            <4> QED
                BY <1>3, <1>4, <2>1, <4>1
        <3>2. CASE ~ (i <= m)
            <4> DEFINE j == i - m
            <4>1. j \in 1 .. n /\ m + j = i
                BY <1>2, <3>2
            <4> HIDE DEF j
            <4>2. w[i] = p[j]
                BY <1>3, <1>5, <4>1
            <4>3. (q \o p)[i] = p[j]
                BY <2>1, <4>1
            <4> QED
                BY <4>2, <4>3
        <3> QED
            BY <3>1, <3>2
    <2> QED
        BY <1>3, <2>1, <2>2, SeqEqual
<1>7. FlattenSeq(q \o p) = FlattenSeq(q) \o FlattenSeq(p)
    BY <1>3, FlattenedBoth
<1> QED
    BY <1>3, <1>6, <1>7 DEF s

RleInv ==
    /\ algo \in {"rle", "none"}
    /\ fed \in Seq(Nat)
    /\ ChunksInvisible

\* Nothing stands for nothing, and what a chunk stands for is a sequence.
LEMMA ExpandedTyped ==
    ASSUME NEW s \in Seq(Nat)
    PROVE  Expanded(s) \in Seq(Nat) /\ (s = <<>> => Expanded(s) = <<>>)
<1>1. PieceOf(s) \in Seq(Seq(Nat)) /\ Len(PieceOf(s)) = Len(s) /\ Expanded(s) = FlattenSeq(PieceOf(s))
    BY PieceTyped
<1> DEFINE q == PieceOf(s)
<1> HIDE DEF q
<1>2. q \in Seq(Seq(Nat)) /\ Len(q) = Len(s) /\ Expanded(s) = FlattenSeq(q)
    BY <1>1 DEF q
<1>3. PICK f : Sums(q, Nat, f) /\ FlattenSeq(q) = f[Len(q)]
    BY <1>2, Flattened
<1>4. f \in [0 .. Len(s) -> Seq(Nat)] /\ f[0] = <<>> /\ Expanded(s) = f[Len(s)]
    BY <1>2, <1>3 DEF Sums
<1>5. Len(s) \in 0 .. Len(s) /\ (s = <<>> => Len(s) = 0)
    OBVIOUS
<1> QED
    BY <1>4, <1>5

\* No run is cut: what the chunk becomes follows what the stream became.
LEMMA ExpandedBehind ==
    ASSUME NEW r \in Seq(Nat), NEW t \in Seq(Nat),
           ~ (r # <<>> /\ CutsRun(r \o t, Len(r) + 1))
    PROVE  Expanded(r \o t) = Expanded(r) \o Expanded(t)
<1>1. CASE r = <<>>
    <2>1. Expanded(r) = <<>> /\ Expanded(t) \in Seq(Nat)
        BY <1>1, ExpandedTyped
    <2>3. r \o t = t
        BY <1>1
    <2> DEFINE e == Expanded(t)
    <2> HIDE DEF e
    <2>2. e \in Seq(Nat) => <<>> \o e = e
        OBVIOUS
    <2> QED
        BY <2>1, <2>2, <2>3 DEF e
<1>2. CASE t = <<>>
    <2>1. Expanded(t) = <<>> /\ Expanded(r) \in Seq(Nat)
        BY <1>2, ExpandedTyped
    <2>3. r \o t = r
        BY <1>2
    <2> DEFINE e == Expanded(r)
    <2> HIDE DEF e
    <2>2. e \in Seq(Nat) => e \o <<>> = e
        OBVIOUS
    <2> QED
        BY <2>1, <2>2, <2>3 DEF e
<1>3. CASE r # <<>> /\ t # <<>>
    <2>1. Joint(r, t)
        BY <1>3 DEF Joint
    <2> QED
        BY <2>1, ExpandedJoint
<1> QED
    BY <1>1, <1>2, <1>3

LEMMA RleStep == ASSUME RleInv, [RleChunk]_rleVars PROVE RleInv'
<1>1. CASE UNCHANGED rleVars
    <2>1. algo' = algo /\ fed' = fed /\ unpacked' = unpacked
          /\ runCut' = runCut /\ roomCut' = roomCut
        BY <1>1 DEF rleVars
    <2> QED
        BY <2>1 DEF RleInv, ChunksInvisible
<1>2. CASE RleChunk
    <2>1. PICK in \in RleChunks, room \in RleRoom :
             /\ fed' = fed \o in
             /\ unpacked' = unpacked \o SubSeq(Unpack(in), 1, Smaller(Len(Unpack(in)), room))
             /\ runCut' = (runCut \/ (fed # <<>> /\ CutsRun(fed \o in, Len(fed) + 1)))
             /\ roomCut' = (roomCut \/ Len(Unpack(in)) > room)
             /\ algo' = algo
        BY <1>2 DEF RleChunk
    <2>2. in \in Seq(Nat) /\ room \in Nat /\ fed \in Seq(Nat) /\ algo \in {"rle", "none"}
        BY RleAssumption DEF RleInv
    <2>3. fed' \in Seq(Nat) /\ algo' \in {"rle", "none"}
        BY <2>1, <2>2
    <2>4. ASSUME ~ runCut', ~ roomCut'
          PROVE  unpacked' = IF algo' = "rle" THEN Expanded(fed') ELSE fed'
        <3>1. /\ ~ (fed # <<>> /\ CutsRun(fed \o in, Len(fed) + 1))
              /\ ~ (Len(Unpack(in)) > room)
              /\ ~ runCut /\ ~ roomCut
            BY <2>1, <2>4
        <3>2. unpacked = IF algo = "rle" THEN Expanded(fed) ELSE fed
            BY <3>1 DEF RleInv, ChunksInvisible
        <3>3. Unpack(in) \in Seq(Nat) /\ Unpack(in) = IF algo = "rle" THEN Expanded(in) ELSE in
            <4>1. CASE algo = "rle"
                BY <2>2, <4>1, UnpackedIsExpanded, ExpandedTyped
            <4>2. CASE algo # "rle"
                <5>1. Unpack(in) = in
                    BY <4>2 DEF Unpack
                <5> QED
                    BY <2>2, <4>2, <5>1
            <4> QED
                BY <4>1, <4>2
        <3>4. SubSeq(Unpack(in), 1, Smaller(Len(Unpack(in)), room)) = Unpack(in)
            <4> DEFINE u == Unpack(in)
            <4> HIDE DEF u
            <4>1. u \in Seq(Nat) /\ Len(u) \in Nat /\ ~ (Len(u) > room)
                BY <3>1, <3>3 DEF u
            <4>2. Smaller(Len(u), room) = Len(u)
                BY <2>2, <4>1 DEF Smaller
            <4>3. SubSeq(u, 1, Len(u)) = u
                BY <4>1
            <4> QED
                BY <4>2, <4>3 DEF u
        <3>5. unpacked' = unpacked \o Unpack(in)
            BY <2>1, <3>4
        <3>6. CASE algo = "rle"
            <4>1. Expanded(fed \o in) = Expanded(fed) \o Expanded(in)
                BY <2>2, <3>1, ExpandedBehind
            <4> QED
                BY <2>1, <3>2, <3>3, <3>5, <3>6, <4>1
        <3>7. CASE algo # "rle"
            BY <2>1, <3>2, <3>3, <3>5, <3>7
        <3> QED
            BY <3>6, <3>7
    <2> QED
        BY <2>3, <2>4 DEF RleInv, ChunksInvisible
<1> QED
    BY <1>1, <1>2

\* For any chunks and any room: as long as no cut goes through a run or lies in
\* front of one and the output fits, what comes out is what the whole stream
\* stands for; the other cuts, among literals and behind runs, do not show.
THEOREM CutsDoNotShow == Spec => []ChunksInvisible
<1>1. Init => RleInv
    <2> SUFFICES ASSUME RleInit PROVE RleInv
        BY DEF Init
    <2>1. algo \in {"rle", "none"} /\ fed = <<>> /\ unpacked = <<>>
        BY DEF RleInit
    <2>2. fed \in Seq(Nat)
        BY <2>1
    <2>3. Expanded(fed) = <<>>
        BY <2>1, <2>2, ExpandedTyped
    <2> QED
        BY <2>1, <2>2, <2>3 DEF RleInv, ChunksInvisible
<1>2. RleInv /\ [Next]_vars => RleInv'
    BY PartSteps, RleStep
<1>3. RleInv => ChunksInvisible
    BY DEF RleInv
<1> QED
    BY <1>1, <1>2, <1>3, PTL DEF Spec

-----------------------------------------------------------------------------
(* Frames: the watch for two CANs *)

\* Bytes with no two CANs in a row and none at the end
Tame(e) ==
    /\ e \in Seq(Nat)
    /\ \A i \in 1 .. Len(e) - 1 : ~ (e[i] = CAN /\ e[i + 1] = CAN)
    /\ e # <<>> => e[Len(e)] # CAN

LEMMA TameBehind == \A a, b : Tame(a) /\ Tame(b) => Tame(a \o b)
<1> SUFFICES ASSUME NEW a, NEW b, Tame(a), Tame(b) PROVE Tame(a \o b)
    OBVIOUS
<1> DEFINE m == Len(a)
           n == Len(b)
           c == a \o b
<1>1. a \in Seq(Nat) /\ b \in Seq(Nat)
    BY DEF Tame
<1>2. /\ c \in Seq(Nat) /\ Len(c) = m + n /\ m \in Nat /\ n \in Nat
      /\ \A i \in 1 .. m : c[i] = a[i]
      /\ \A i \in 1 .. n : c[m + i] = b[i]
      /\ (a = <<>> <=> m = 0) /\ (b = <<>> <=> n = 0)
    BY <1>1
<1>3. ASSUME NEW i \in 1 .. (m + n) - 1
      PROVE  ~ (c[i] = CAN /\ c[i + 1] = CAN)
    <2>1. CASE i < m
        <3>1. i \in 1 .. m - 1 /\ i \in 1 .. m /\ i + 1 \in 1 .. m
            BY <1>2, <2>1
        <3> QED
            BY <1>2, <3>1 DEF Tame
    <2>2. CASE i = m
        <3>1. m \in 1 .. m /\ a # <<>>
            BY <1>2, <2>2
        <3> QED
            BY <1>2, <2>2, <3>1 DEF Tame
    <2>3. CASE i > m
        <3> DEFINE j == i - m
        <3>1. j \in 1 .. n - 1 /\ j \in 1 .. n /\ j + 1 \in 1 .. n /\ m + j = i /\ m + (j + 1) = i + 1
            BY <1>2, <2>3
        <3> HIDE DEF j, c
        <3>2. c[i] = b[j] /\ c[i + 1] = b[j + 1]
            BY <1>2, <3>1
        <3> QED
            BY <3>1, <3>2 DEF Tame
    <2> HIDE DEF c, m, n
    <2>4. i \in Nat /\ m \in Nat
        BY <1>2
    <2> QED
        BY <2>1, <2>2, <2>3, <2>4
<1>4. c # <<>> => c[m + n] # CAN
    <2>1. CASE n = 0
        <3>1. c # <<>> => m \in 1 .. m /\ a # <<>> /\ m + n = m
            BY <1>2, <2>1
        <3> QED
            BY <1>2, <3>1 DEF Tame
    <2>2. CASE n # 0
        <3>1. n \in 1 .. n /\ b # <<>>
            BY <1>2, <2>2
        <3> QED
            BY <1>2, <3>1 DEF Tame
    <2> QED
        BY <2>1, <2>2
<1> HIDE DEF c, m, n
<1> QED
    BY <1>2, <1>3, <1>4, Zenon DEF Tame, c

\* What is put together from tame sequences is tame.
LEMMA FlattenedTame ==
    ASSUME NEW q \in Seq(Seq(Nat)), \A i \in 1 .. Len(q) : Tame(q[i])
    PROVE  Tame(FlattenSeq(q))
<1> DEFINE n == Len(q)
<1>1. PICK f : Sums(q, Nat, f) /\ FlattenSeq(q) = f[n]
    BY Flattened
<1>2. f[0] = <<>> /\ (\A i \in 1 .. n : f[i] = f[i - 1] \o q[i]) /\ n \in Nat
    <2>1. n \in Nat
        OBVIOUS
    <2> QED
        BY <1>1, <2>1, Zenon DEF Sums
<1> DEFINE P == {i \in 0 .. n : Tame(f[i])}
<1>3. 0 \in P
    <2>1. Tame(<<>>)
        BY DEF Tame
    <2> QED
        BY <1>2, <2>1
<1>4. ASSUME NEW i \in 0 .. n - 1, i \in P
      PROVE  i + 1 \in P
    <2> HIDE DEF P, n
    <2>1. i + 1 \in 1 .. n /\ i + 1 \in 0 .. n /\ (i + 1) - 1 = i /\ i \in Nat
        BY <1>2
    <2>2. f[i + 1] = f[i] \o q[i + 1]
        BY <1>2, <2>1
    <2>3. Tame(f[i]) /\ Tame(q[i + 1])
        BY <1>4, <2>1 DEF P, n
    <2>4. Tame(f[i + 1])
        BY <2>2, <2>3, TameBehind, Zenon
    <2> QED
        BY <2>1, <2>4 DEF P
<1> HIDE DEF P, n
<1>5. 0 .. n \subseteq P
    BY <1>2, <1>3, <1>4, Counting
<1>6. n \in P
    BY <1>2, <1>5
<1> QED
    BY <1>1, <1>6 DEF P

Byte == 0 .. 255

LEMMA Mod256 == ASSUME NEW x \in Nat PROVE x % 256 \in Byte
    BY DEF Byte

LEMMA BytesAdd == ASSUME NEW a \in Byte, NEW b \in Byte PROVE a + b \in Nat
    BY DEF Byte

LEMMA Nibbles == ASSUME NEW b \in Byte PROVE b \div 16 \in 0 .. 15 /\ b % 16 \in 0 .. 15
<1>1. b \in 0 .. 255
    BY DEF Byte
<1>2. b % 16 \in 0 .. 15 /\ b \div 16 \in Int /\ b = 16 * (b \div 16) + (b % 16)
    BY <1>1
<1> QED
    BY <1>1, <1>2

\* The check of a header or a subpacket is bytes.
LEMMA CheckTyped ==
    ASSUME NEW s \in Seq(Byte)
    PROVE  Check(s) \in Byte
<1> DEFINE n == Len(s)
           R(f) == [i \in 0 .. Len(s) |-> IF i = 0 THEN 0 ELSE (f[i - 1] + s[i]) % 256]
           G == [i \in Nat |-> [v \in Byte |-> IF i \in 1 .. n THEN (v + s[i]) % 256 ELSE v]]
<1>1. n \in Nat /\ \A i \in 1 .. n : s[i] \in Byte
    OBVIOUS
<1>2. PICK f : Iterates(f, Byte, 0, n, 0, G)
    <2>1. G \in Steps(Byte)
        <3>1. ASSUME NEW i \in Nat, NEW v \in Byte
              PROVE  (IF i \in 1 .. n THEN (v + s[i]) % 256 ELSE v) \in Byte
            <4>1. ASSUME i \in 1 .. n PROVE v + s[i] \in Nat
                <5>1. s[i] \in Byte
                    BY <1>1, <4>1
                <5> QED
                    BY <5>1, BytesAdd
            <4> QED
                BY <4>1, Mod256
        <3> QED
            BY <3>1 DEF Steps
    <2>2. 0 \in Nat /\ 0 <= n /\ 0 \in Byte
        BY <1>1 DEF Byte
    <2> HIDE DEF G, n
    <2> QED
        BY <1>1, <2>1, <2>2, Recursion, Zenon
<1>3. f \in [0 .. n -> Byte] /\ f[0] = 0
    BY <1>2 DEF Iterates
<1>4. ASSUME NEW i \in 1 .. n
      PROVE  f[i] = (f[i - 1] + s[i]) % 256
    <2>1. i - 1 \in 0 .. n /\ i \in Nat /\ i \in 0 + 1 .. n
        BY <1>1
    <2>2. f[i - 1] \in Byte
        <3> HIDE DEF n
        <3> QED
            BY <1>3, <2>1
    <2>3. f[i] = G[i][f[i - 1]]
        BY <1>2, <2>1 DEF Iterates
    <2> QED
        BY <2>1, <2>2, <2>3
<1> HIDE DEF G
<1>5. f = R(f)
    <2>1. ASSUME NEW i \in 0 .. n
          PROVE  f[i] = IF i = 0 THEN 0 ELSE (f[i - 1] + s[i]) % 256
        <3>1. i # 0 => i \in 1 .. n
            BY <1>1
        <3> QED
            BY <1>3, <1>4, <3>1, Zenon
    <2> QED
        BY <1>3, <2>1
<1>6. PICK g : g = R(g) /\ Check(s) = g[n]
    BY <1>5, Zenon DEF Check
<1>7. \A i \in 0 .. n : g[i] = IF i = 0 THEN 0 ELSE (g[i - 1] + s[i]) % 256
    BY <1>6, Zenon
<1> DEFINE P == {i \in 0 .. n : g[i] \in Byte}
<1>8. 0 \in P
    BY <1>1, <1>7 DEF Byte
<1>9. ASSUME NEW i \in 0 .. n - 1, i \in P
      PROVE  i + 1 \in P
    <2>1. i + 1 \in 0 .. n /\ i + 1 \in 1 .. n /\ i + 1 # 0 /\ (i + 1) - 1 = i
        BY <1>1
    <2>2. g[i + 1] = (g[i] + s[i + 1]) % 256 /\ g[i] \in Byte
        BY <1>7, <1>9, <2>1
    <2>3. s[i + 1] \in Byte
        BY <1>1, <2>1
    <2>4. g[i] + s[i + 1] \in Nat
        BY <2>2, <2>3, BytesAdd
    <2>5. g[i + 1] \in Byte
        BY <2>2, <2>4, Mod256
    <2> QED
        BY <2>1, <2>5
<1> HIDE DEF P, n
<1>10. 0 .. n \subseteq P
    BY <1>1, <1>8, <1>9, Counting
<1>11. n \in P
    BY <1>1, <1>10
<1> QED
    BY <1>6, <1>11 DEF P

LEMMA CheckOfTyped ==
    ASSUME NEW s \in Seq(Byte), NEW is32
    PROVE  CheckOf(s, is32) \in Seq(Byte)
<1> DEFINE c == Check(s)
<1>1. c \in Byte
    BY CheckTyped
<1> HIDE DEF c
<1>2. <<c>> \in Seq(Byte) /\ <<c, 255 - c>> \in Seq(Byte)
    BY <1>1 DEF Byte
<1> QED
    BY <1>2 DEF CheckOf, c

\* The bytes that escape one another
LEMMA Escapes ==
    /\ Xor40(24) = 88 /\ Xor40(17) = 81 /\ Xor40(19) = 83
    /\ Xor40(129) = 193 /\ Xor40(131) = 195
    /\ Xor40(88) = 24 /\ Xor40(81) = 17 /\ Xor40(83) = 19
    /\ Xor40(193) = 129 /\ Xor40(195) = 131
<1>1. /\ (24 \div 64) % 2 = 0 /\ (17 \div 64) % 2 = 0 /\ (19 \div 64) % 2 = 0
      /\ (129 \div 64) % 2 = 0 /\ (131 \div 64) % 2 = 0
      /\ (88 \div 64) % 2 = 1 /\ (81 \div 64) % 2 = 1 /\ (83 \div 64) % 2 = 1
      /\ (193 \div 64) % 2 = 1 /\ (195 \div 64) % 2 = 1
    OBVIOUS
<1> QED
    BY <1>1 DEF Xor40

Escaped(s, is32) ==
    [i \in DOMAIN s |-> IF is32 THEN ForeignByte(s[i]) ELSE ZdleByte(s[i])]

\* An escaped byte is that byte, or ZDLE and another that is none.
LEMMA EscapedTame ==
    ASSUME NEW b \in Byte
    PROVE  /\ ZdleByte(b) \in Seq(Nat) /\ Tame(ZdleByte(b))
           /\ ForeignByte(b) \in Seq(Nat) /\ Tame(ForeignByte(b))
<1>1. ASSUME NEW x \in Nat PROVE <<ZDLE, x>> \in Seq(Nat) /\ (x # 24 => Tame(<<ZDLE, x>>))
    BY DEF Tame, ZDLE, CAN
<1>2. b \in Nat /\ <<b>> \in Seq(Nat) /\ (b # 24 => Tame(<<b>>))
    BY DEF Tame, CAN, Byte
<1>3. ZdleByte(b) \in Seq(Nat) /\ Tame(ZdleByte(b))
    <2>1. CASE b \in {ZDLE, 17, 19, 129, 131}
        <3>1. Xor40(b) \in Nat /\ Xor40(b) # 24
            BY <2>1, Escapes DEF ZDLE
        <3> QED
            BY <1>1, <2>1, <3>1 DEF ZdleByte
    <2>2. CASE ~ (b \in {ZDLE, 17, 19, 129, 131})
        BY <1>2, <2>2 DEF ZdleByte, ZDLE
    <2> QED
        BY <2>1, <2>2
<1>4. CASE b = 127
    <2>1. ForeignByte(b) = <<ZDLE, 108>>
        BY <1>4 DEF ForeignByte, ZRUB0
    <2> QED
        BY <1>1, <1>3, <2>1
<1>5. CASE b = 255
    <2>1. ForeignByte(b) = <<ZDLE, 109>>
        BY <1>5 DEF ForeignByte, ZRUB1
    <2> QED
        BY <1>1, <1>3, <2>1
<1>6. CASE b # 127 /\ b # 255
    BY <1>3, <1>6 DEF ForeignByte
<1> QED
    BY <1>4, <1>5, <1>6

LEMMA ZdleTame ==
    ASSUME NEW s \in Seq(Byte), NEW is32
    PROVE  Tame(Zdle(s, is32))
<1> DEFINE q == Escaped(s, is32)
<1>1. /\ q \in Seq(Seq(Nat)) /\ Len(q) = Len(s)
      /\ \A i \in 1 .. Len(s) : Tame(q[i])
    <2>1. \A i \in 1 .. Len(s) : s[i] \in Byte
        OBVIOUS
    <2>2. ASSUME NEW i \in 1 .. Len(s)
          PROVE  q[i] \in Seq(Nat) /\ Tame(q[i])
        <3>1. q[i] = IF is32 THEN ForeignByte(s[i]) ELSE ZdleByte(s[i])
            BY DEF Escaped
        <3> HIDE DEF q
        <3> QED
            BY <2>1, <3>1, EscapedTame
    <2>3. DOMAIN s = 1 .. Len(s) /\ Len(s) \in Nat /\ DOMAIN q = DOMAIN s
        BY DEF Escaped
    <2>4. q \in [1 .. Len(s) -> Seq(Nat)]
        <3>1. q = [i \in DOMAIN s |-> q[i]]
            BY DEF Escaped
        <3> HIDE DEF q
        <3> QED
            BY <2>2, <2>3, <3>1
    <2> HIDE DEF q
    <2> QED
        BY <2>2, <2>3, <2>4
<1>2. Zdle(s, is32) = FlattenSeq(q)
    BY DEF Zdle, Escaped
<1> HIDE DEF q
<1> QED
    BY <1>1, <1>2, FlattenedTame

LEMMA HexTame ==
    ASSUME NEW s \in Seq(Byte)
    PROVE  Tame(Hex(s))
<1> DEFINE q == [i \in DOMAIN s |-> <<HexDigit(s[i] \div 16), HexDigit(s[i] % 16)>>]
<1>1. ASSUME NEW d \in 0 .. 15
      PROVE  HexDigit(d) \in Nat /\ HexDigit(d) # CAN
    BY DEF HexDigit, CAN
<1>2. ASSUME NEW x \in Nat, NEW y \in Nat, x # CAN, y # CAN
      PROVE  <<x, y>> \in Seq(Nat) /\ Tame(<<x, y>>)
    BY <1>2 DEF Tame
<1>3. ASSUME NEW i \in 1 .. Len(s)
      PROVE  q[i] \in Seq(Nat) /\ Tame(q[i])
    <2>1. s[i] \in Byte
        OBVIOUS
    <2>2. s[i] \div 16 \in 0 .. 15 /\ s[i] % 16 \in 0 .. 15
        BY <2>1, Nibbles
    <2>3. q[i] = <<HexDigit(s[i] \div 16), HexDigit(s[i] % 16)>>
        OBVIOUS
    <2> HIDE DEF q
    <2> QED
        BY <1>1, <1>2, <2>2, <2>3
<1>4. q \in Seq(Seq(Nat)) /\ Len(q) = Len(s)
    <2>1. DOMAIN s = 1 .. Len(s) /\ Len(s) \in Nat /\ DOMAIN q = DOMAIN s
        OBVIOUS
    <2>2. q = [i \in DOMAIN s |-> q[i]]
        OBVIOUS
    <2> HIDE DEF q
    <2>3. q \in [1 .. Len(s) -> Seq(Nat)]
        BY <1>3, <2>1, <2>2
    <2> QED
        BY <2>1, <2>3
<1>5. Hex(s) = FlattenSeq(q)
    BY DEF Hex
<1> HIDE DEF q
<1> QED
    BY <1>3, <1>4, <1>5, FlattenedTame

LEMMA EmptyIsShort == \A s \in Seq(Nat) : s = <<>> <=> Len(s) = 0
    OBVIOUS

\* A frame starts with ZPAD if it is a header, and is tame.
LEMMA FramesTame ==
    /\ \A type \in Byte, flag \in Byte : \A form :
          LET e == Header(type, flag, form)
          IN  Tame(e) /\ e # <<>> /\ e[1] = ZPAD
    /\ \A data \in Seq(Byte), ender \in Enders : \A is32 :
          LET e == Subpacket(data, ender, is32)
          IN  Tame(e) /\ e # <<>>
<1>1. ASSUME NEW a, NEW b, Tame(a), a # <<>>, Tame(b)
      PROVE  Tame(a \o b) /\ a \o b # <<>> /\ (a \o b)[1] = a[1]
    <2>1. a \in Seq(Nat) /\ b \in Seq(Nat)
        BY <1>1 DEF Tame
    <2>2. a \o b # <<>> /\ (a \o b)[1] = a[1]
        BY <1>1, <2>1
    <2> QED
        BY <1>1, <2>2, TameBehind
<1>2. ASSUME NEW type \in Byte, NEW flag \in Byte, NEW is32
      PROVE  <<type, flag>> \o CheckOf(<<type, flag>>, is32) \in Seq(Byte)
    <2>1. <<type, flag>> \in Seq(Byte)
        OBVIOUS
    <2>2. CheckOf(<<type, flag>>, is32) \in Seq(Byte)
        BY <2>1, CheckOfTyped
    <2> QED
        BY <2>1, <2>2
<1>3. ASSUME NEW type \in Byte, NEW flag \in Byte
      PROVE  LET e == HexHeader(type, flag)
             IN  Tame(e) /\ e # <<>> /\ e[1] = ZPAD
    <2> DEFINE a == <<ZPAD, ZPAD, ZDLE, ZHEX>>
               b == Hex(<<type, flag>> \o CheckOf(<<type, flag>>, FALSE))
               c == <<13, 10>>
               d == IF type = ZFIN THEN <<>> ELSE <<XON>>
    <2>1. Tame(a) /\ a # <<>> /\ a[1] = ZPAD
        <3>1. a \in Seq(Nat) /\ Len(a) = 4 /\ a[1] = 42 /\ a[2] = 42 /\ a[3] = 24 /\ a[4] = 66
            BY DEF ZPAD, ZDLE, ZHEX
        <3> HIDE DEF a
        <3>2. \A i \in 1 .. Len(a) - 1 : ~ (a[i] = CAN /\ a[i + 1] = CAN)
            <4> TAKE i \in 1 .. Len(a) - 1
            <4>1. i \in {1, 2, 3}
                BY <3>1
            <4> QED
                BY <3>1, <4>1 DEF CAN
        <3> QED
            BY <3>1, <3>2 DEF Tame, CAN, ZPAD
    <2>2. Tame(b)
        BY <1>2, HexTame
    <2>3. Tame(c)
        BY DEF Tame, CAN
    <2>4. Tame(d)
        BY DEF Tame, CAN, XON
    <2> HIDE DEF a, b, c, d
    <2> DEFINE x == a \o b
               y == x \o c
    <2>5. Tame(x) /\ x # <<>> /\ x[1] = ZPAD
        BY <1>1, <2>1, <2>2
    <2> HIDE DEF x
    <2>6. Tame(y) /\ y # <<>> /\ y[1] = ZPAD
        BY <1>1, <2>3, <2>5
    <2> HIDE DEF y
    <2>7. Tame(y \o d) /\ y \o d # <<>> /\ (y \o d)[1] = ZPAD
        BY <1>1, <2>4, <2>6
    <2> QED
        BY <2>7 DEF HexHeader, a, b, c, d, x, y
<1>4. ASSUME NEW type \in Byte, NEW flag \in Byte, NEW is32
      PROVE  LET e == BinHeader(type, flag, is32)
             IN  Tame(e) /\ e # <<>> /\ e[1] = ZPAD
    <2> DEFINE a == <<ZPAD, ZDLE, IF is32 THEN ZBIN32 ELSE ZBIN>>
               b == Zdle(<<type, flag>> \o CheckOf(<<type, flag>>, is32), is32)
    <2>1. Tame(a) /\ a # <<>> /\ a[1] = ZPAD
        <3>1. a \in Seq(Nat) /\ Len(a) = 3 /\ a[1] = 42 /\ a[2] = 24 /\ a[3] \in {65, 67}
            BY DEF ZPAD, ZDLE, ZBIN, ZBIN32
        <3> HIDE DEF a
        <3>2. \A i \in 1 .. Len(a) - 1 : ~ (a[i] = CAN /\ a[i + 1] = CAN)
            <4> TAKE i \in 1 .. Len(a) - 1
            <4>1. i \in {1, 2}
                BY <3>1
            <4> QED
                BY <3>1, <4>1 DEF CAN
        <3>3. a # <<>>
            <4>1. a \in Seq(Nat) /\ Len(a) # 0
                BY <3>1
            <4> QED
                BY <4>1, EmptyIsShort, Zenon
        <3>4. a[Len(a)] # 24
            BY <3>1
        <3> QED
            BY <3>1, <3>2, <3>3, <3>4 DEF Tame, CAN, ZPAD
    <2>2. Tame(b)
        BY <1>2, ZdleTame
    <2> HIDE DEF a, b
    <2>3. Tame(a \o b) /\ a \o b # <<>> /\ (a \o b)[1] = ZPAD
        BY <1>1, <2>1, <2>2
    <2> QED
        BY <2>3 DEF BinHeader, a, b
<1>5. ASSUME NEW data \in Seq(Byte), NEW ender \in Enders, NEW is32
      PROVE  LET e == Subpacket(data, ender, is32)
             IN  Tame(e) /\ e # <<>>
    <2> DEFINE a == Zdle(data, is32)
               b == <<ZDLE, ender>>
               c == Zdle(CheckOf(Append(data, ender), is32), is32)
    <2>1. ender \in Byte /\ ender # CAN
        BY DEF Enders, Byte, CAN, ZCRCE, ZCRCW
    <2>2. Append(data, ender) \in Seq(Byte)
        BY <2>1
    <2>3. Tame(a)
        BY ZdleTame
    <2>4. Tame(b) /\ b # <<>>
        BY <2>1 DEF Tame, ZDLE, CAN, Byte
    <2>5. Tame(c)
        BY <2>2, CheckOfTyped, ZdleTame
    <2> HIDE DEF a, b, c
    <2>6. Tame(a \o b)
        BY <2>3, <2>4, TameBehind
    <2>7. a \o b # <<>>
        <3>1. a \in Seq(Nat) /\ b \in Seq(Nat)
            BY <2>3, <2>4 DEF Tame
        <3> QED
            BY <2>4, <3>1
    <2>8. Tame((a \o b) \o c) /\ (a \o b) \o c # <<>>
        BY <1>1, <2>5, <2>6, <2>7
    <2> QED
        BY <2>8 DEF Subpacket, a, b, c
<1>6. ASSUME NEW type \in Byte, NEW flag \in Byte, NEW form
      PROVE  LET e == Header(type, flag, form)
             IN  Tame(e) /\ e # <<>> /\ e[1] = ZPAD
    BY <1>3, <1>4 DEF Header
<1> QED
    BY <1>5, <1>6

\* What may abort a transfer
Cause == pressed \/ noise \in {CAN, KeyChar} \/ keySent

\* Until then the bytes on their way are tame, none is the abort key, and no
\* CAN is next behind one.
Quiet ==
    /\ Tame(input)
    /\ \A i \in 1 .. Len(input) : input[i] # KeyChar
    /\ canCount = 1 /\ input # <<>> => input[1] # CAN
    /\ sent # <<>> /\ input = <<>> => canCount # 1

AbortInv == ~ Cause => ~ aborted /\ (AbortKey => Quiet)

\* The bytes of a frame join those on their way.
LEMMA WriteQuiet ==
    ASSUME Quiet, NEW e, Tame(e), e # <<>>, \A i \in 1 .. Len(e) : e[i] # KeyChar,
           sent # <<>> \/ e[1] = ZPAD,
           input' = input \o e, canCount' = canCount, sent' # <<>>
    PROVE  Quiet'
<1>1. input \in Seq(Nat) /\ e \in Seq(Nat)
    BY DEF Quiet, Tame
<1>2. Tame(input')
    <2>1. Tame(input)
        BY DEF Quiet
    <2> QED
        BY <2>1, TameBehind
<1>3. /\ Len(input') = Len(input) + Len(e) /\ Len(input) \in Nat /\ Len(e) \in Nat
      /\ input' \in Seq(Nat)
      /\ \A i \in 1 .. Len(input) : input'[i] = input[i]
      /\ \A i \in 1 .. Len(e) : input'[Len(input) + i] = e[i]
      /\ input = <<>> <=> Len(input) = 0
      /\ Len(e) # 0
    BY <1>1
<1>4. ASSUME NEW i \in 1 .. Len(input') PROVE input'[i] # KeyChar
    <2>1. CASE i <= Len(input)
        <3>1. i \in 1 .. Len(input)
            BY <1>3, <2>1
        <3> QED
            BY <1>3, <3>1 DEF Quiet
    <2>2. CASE i > Len(input)
        <3> DEFINE j == i - Len(input)
        <3>1. j \in 1 .. Len(e) /\ Len(input) + j = i
            BY <1>3, <2>2
        <3> HIDE DEF j
        <3> QED
            BY <1>3, <3>1
    <2>3. i \in Nat
        BY <1>3
    <2> QED
        BY <1>3, <2>1, <2>2, <2>3
<1>5. canCount' = 1 /\ input' # <<>> => input'[1] # CAN
    <2>1. CASE input = <<>>
        <3>1. 1 \in 1 .. Len(e) /\ Len(input) + 1 = 1
            BY <1>3, <2>1
        <3>2. input'[1] = e[1]
            BY <1>3, <3>1
        <3> QED
            BY <2>1, <3>2 DEF Quiet, ZPAD, CAN
    <2>2. CASE input # <<>>
        <3>1. 1 \in 1 .. Len(input)
            BY <1>3, <2>2
        <3> QED
            BY <1>3, <2>2, <3>1 DEF Quiet
    <2> QED
        BY <2>1, <2>2
<1>6. input' # <<>>
    BY <1>3
<1> QED
    BY <1>2, <1>4, <1>5, <1>6 DEF Quiet

\* A byte that is read makes the next one safe.
LEMMA ReadQuiet ==
    ASSUME Quiet, ReadByte, AbortKey, sent' = sent
    PROVE  Quiet' /\ ~ MeansAbort(Head(input))
<1> DEFINE n == Len(input)
<1>1. /\ input \in Seq(Nat) /\ input # <<>> /\ input' = Tail(input)
      /\ canCount' = CanCountAfter(Head(input))
    BY DEF Quiet, Tame, ReadByte
<1>2. /\ n \in Nat \ {0} /\ Head(input) = input[1]
      /\ input' \in Seq(Nat) /\ Len(input') = n - 1
      /\ \A i \in 1 .. n - 1 : input'[i] = input[i + 1]
    BY <1>1
<1>11. input' = <<>> <=> n = 1
    <2>1. input' = <<>> <=> Len(input') = 0
        BY <1>2, EmptyIsShort
    <2> QED
        BY <1>2, <2>1
<1>3. /\ \A i \in 1 .. n - 1 : ~ (input[i] = CAN /\ input[i + 1] = CAN)
      /\ input[n] # CAN
      /\ \A i \in 1 .. n : input[i] # KeyChar
      /\ canCount = 1 => input[1] # CAN
    BY <1>1 DEF Quiet, Tame
<1> HIDE DEF n
<1>4. Tame(input')
    <2>1. ASSUME NEW i \in 1 .. Len(input') - 1
          PROVE  ~ (input'[i] = CAN /\ input'[i + 1] = CAN)
        <3>1. i \in 1 .. n - 1 /\ i + 1 \in 1 .. n - 1
            BY <1>2
        <3> QED
            BY <1>2, <1>3, <3>1
    <2>2. input' # <<>> => input'[Len(input')] # CAN
        <3>1. n # 1 => n - 1 \in 1 .. n - 1 /\ (n - 1) + 1 = n
            BY <1>2
        <3> QED
            BY <1>2, <1>3, <1>11, <3>1
    <2> QED
        BY <1>2, <2>1, <2>2 DEF Tame
<1>5. ASSUME NEW i \in 1 .. Len(input') PROVE input'[i] # KeyChar
    <2>1. i \in 1 .. n - 1 /\ i + 1 \in 1 .. n
        BY <1>2
    <2> QED
        BY <1>2, <1>3, <2>1
<1>6. 1 \in 1 .. n /\ input[1] # KeyChar
    BY <1>2, <1>3
<1>7. canCount' = 1 => input[1] = CAN
    BY <1>1, <1>2, <1>6 DEF CanCountAfter
<1>8. canCount' = 1 /\ input' # <<>> => input'[1] # CAN
    <2>1. n # 1 => 1 \in 1 .. n - 1 /\ 1 + 1 = 2
        BY <1>2
    <2> QED
        BY <1>2, <1>3, <1>7, <1>11, <2>1
<1>9. input' = <<>> => canCount' # 1
    BY <1>2, <1>3, <1>7, <1>11
<1>10. ~ MeansAbort(Head(input))
    BY <1>2, <1>3, <1>6 DEF MeansAbort
<1> QED
    BY <1>4, <1>5, <1>8, <1>9, <1>10 DEF Quiet

LEMMA SentBytes ==
    /\ \A data \in Payloads : data \in Seq(Byte)
    /\ \A flag \in FlagBytes : flag \in Byte
    /\ {ZFIN, ZDATA, ZEOF} \subseteq Byte
    /\ \A b \in Noise : b \in Nat
BY FramesAssumption DEF Byte, ZFIN, ZDATA, ZEOF

LEMMA AbortStep == ASSUME AbortInv, [FramesNext]_frameVars PROVE AbortInv'
<1> SUFFICES ASSUME ~ Cause' PROVE ~ aborted' /\ (AbortKey => Quiet')
    BY DEF AbortInv
<1>1. CASE UNCHANGED frameVars
    BY <1>1 DEF frameVars, readerVars, AbortInv, Cause, Quiet, Tame
<1>2. ASSUME NEW frame, NEW e, e = Encoded(frame), Write(frame),
             Tame(e), e # <<>>, sent # <<>> \/ e[1] = ZPAD
      PROVE  ~ aborted' /\ (AbortKey => Quiet')
    <2>1. /\ pressed' = pressed /\ noise' = noise /\ aborted' = aborted
          /\ keySent' = (keySent \/ Contains(e, KeyChar))
          /\ input' = input \o e /\ canCount' = canCount /\ sent' = Append(sent, frame)
        BY <1>2, Zenon DEF Write, readerVars
    <2>2. ~ Cause /\ ~ Contains(e, KeyChar)
        BY <2>1 DEF Cause
    <2>3. sent' # <<>>
        BY <2>1
    <2>4. \A i \in 1 .. Len(e) : e[i] # KeyChar
        BY <2>2 DEF Contains
    <2>5. ~ aborted /\ (AbortKey => Quiet)
        BY <2>2 DEF AbortInv
    <2> QED
        BY <1>2, <2>1, <2>3, <2>4, <2>5, WriteQuiet
<1>3. CASE SendHeader
    <2>1. PICK type \in {ZFIN, ZDATA, ZEOF}, flag \in FlagBytes, form \in {"hex", "bin", "bin32"} :
             Write([form |-> form, type |-> type, flag |-> flag])
        BY <1>3 DEF SendHeader
    <2>2. type \in Byte /\ flag \in Byte
        BY SentBytes
    <2> DEFINE e == Header(type, flag, form)
               frame == [form |-> form, type |-> type, flag |-> flag]
    <2>3. Tame(e) /\ e # <<>> /\ e[1] = ZPAD
        BY <2>2, FramesTame
    <2>4. Write(frame) /\ e = Encoded(frame)
        <3>1. form # "sub"
            OBVIOUS
        <3> QED
            BY <2>1, <3>1 DEF Encoded
    <2> HIDE DEF e, frame
    <2> QED
        BY <1>2, <2>3, <2>4
<1>4. CASE SendSubpacket
    <2>1. PICK data \in Payloads, ender \in Enders :
             Write([form |-> "sub", data |-> data, ender |-> ender, is32 |-> Wide(Last(sent))])
        BY <1>4 DEF SendSubpacket
    <2> DEFINE e == Subpacket(data, ender, Wide(Last(sent)))
               frame == [form |-> "sub", data |-> data, ender |-> ender, is32 |-> Wide(Last(sent))]
    <2>2. Tame(e) /\ e # <<>>
        BY SentBytes, FramesTame
    <2>3. Write(frame) /\ e = Encoded(frame)
        BY <2>1 DEF Encoded
    <2>4. sent # <<>>
        BY <1>4 DEF SendSubpacket, InData
    <2> HIDE DEF e, frame
    <2> QED
        BY <1>2, <2>2, <2>3, <2>4
<1>5. CASE PressKey
    BY <1>5 DEF PressKey, Cause
<1>6. CASE MakeNoise
    <2>1. PICK b \in Noise : noise' = b /\ input' = <<b>> \o input
        BY <1>6 DEF MakeNoise
    <2>2. /\ noise = -1 /\ canCount' = canCount /\ sent' = sent /\ aborted' = aborted
          /\ pressed' = pressed /\ keySent' = keySent
        BY <1>6 DEF MakeNoise, readerVars
    <2>3. b # CAN /\ b # KeyChar /\ b \in Nat
        BY <2>1, SentBytes DEF Cause
    <2>4. ~ Cause
        BY <2>2, ConsoleInputAssumption DEF Cause, CAN
    <2>5. ASSUME Quiet PROVE Quiet'
        <3>1. Tame(input) /\ input \in Seq(Nat)
            BY <2>5 DEF Quiet, Tame
        <3>2. Tame(<<b>>)
            BY <2>3 DEF Tame
        <3>3. Tame(input')
            BY <2>1, <3>1, <3>2, TameBehind
        <3>4. /\ Len(input') = Len(input) + 1 /\ input'[1] = b /\ Len(input) \in Nat
              /\ \A i \in 1 .. Len(input) : input'[i + 1] = input[i]
            BY <2>1, <2>3, <3>1
        <3>5. ASSUME NEW i \in 1 .. Len(input') PROVE input'[i] # KeyChar
            <4>1. CASE i = 1
                BY <2>3, <3>4, <4>1
            <4>2. CASE i # 1
                <5> DEFINE j == i - 1
                <5>1. j \in 1 .. Len(input) /\ j + 1 = i
                    BY <3>4, <4>2
                <5> HIDE DEF j
                <5> QED
                    BY <2>5, <3>4, <5>1 DEF Quiet
            <4> QED
                BY <4>1, <4>2
        <3>6. input' # <<>>
            BY <3>4
        <3> QED
            BY <2>3, <3>3, <3>4, <3>5, <3>6 DEF Quiet
    <2> QED
        BY <2>2, <2>4, <2>5 DEF AbortInv
<1>7. CASE ReadAbort
    <2>1. /\ ReadByte /\ MeansAbort(Head(input)) /\ sent' = sent
          /\ pressed' = pressed /\ noise' = noise /\ keySent' = keySent
        BY <1>7 DEF ReadAbort
    <2>2. ~ Cause /\ AbortKey
        BY <2>1 DEF Cause, MeansAbort
    <2> QED
        BY <2>1, <2>2, ReadQuiet DEF AbortInv
<1>8. CASE HuntByte \/ HexByte \/ ZdleRead \/ DataByte
    <2>1. /\ ReadByte /\ sent' = sent /\ aborted' = aborted
          /\ pressed' = pressed /\ noise' = noise /\ keySent' = keySent
        BY <1>8 DEF HuntByte, HexByte, ZdleRead, DataByte, Reads
    <2>2. ~ Cause
        BY <2>1 DEF Cause
    <2> QED
        BY <2>1, <2>2, ReadQuiet DEF AbortInv
<1> QED
    BY <1>1, <1>3, <1>4, <1>5, <1>6, <1>7, <1>8 DEF FramesNext

\* For any data, settings and noise: a transfer is aborted only when the user
\* pressed the key, what turned up was the key's byte or a CAN, or a frame holds
\* the key's byte.
THEOREM AbortsHaveCause == Spec => []AbortHasCause
<1>1. Init => AbortInv
    <2> SUFFICES ASSUME FramesInit PROVE ~ aborted /\ Quiet
        BY DEF Init, AbortInv
    <2>1. input = <<>> /\ sent = <<>> /\ aborted = FALSE
        BY DEF FramesInit
    <2> QED
        BY <2>1 DEF Quiet, Tame
<1>2. AbortInv /\ [Next]_vars => AbortInv'
    BY PartSteps, AbortStep
<1>3. AbortInv => AbortHasCause
    BY DEF AbortInv, AbortHasCause, Cause
<1> QED
    BY <1>1, <1>2, <1>3, PTL DEF Spec

-----------------------------------------------------------------------------
(* Frames: what is sent and what is taken apart *)

Frames ==
    [form : {"hex", "bin", "bin32"}, type : Byte, flag : Byte]
      \cup [form : {"sub"}, data : Seq(Byte), ender : Enders, is32 : BOOLEAN]

\* Subpackets follow a frame behind which they go on, and nothing else does.
SentOK ==
    /\ sent \in Seq(Frames)
    /\ \A i \in 1 .. Len(sent) :
          /\ sent[i].form # "sub" => (sent[i].type = ZDATA <=> sent[i].form # "hex")
          /\ i = 1 => sent[i].form # "sub"
          /\ i # 1 => (sent[i].form = "sub" <=> GoesOn(sent[i - 1]))
          /\ i # 1 /\ sent[i].form = "sub" => sent[i].is32 = Wide(sent[i - 1])

\* The bytes of the frames behind frame k of s
Items(s, k) == [i \in 1 .. Len(s) - k |-> Encoded(s[k + i])]

Later(s, k) == FlattenSeq(Items(s, k))

\* The parts of a header
Words(f) == <<f.type, f.flag>> \o CheckOf(<<f.type, f.flag>>, Wide(f))

LineEnd(f) == <<13, 10>> \o (IF f.type = ZFIN THEN <<>> ELSE <<XON>>)

Mark(f) == IF f.form = "hex" THEN ZHEX ELSE IF Wide(f) THEN ZBIN32 ELSE ZBIN

Body(f) == IF f.form = "hex" THEN Hex(Words(f)) \o LineEnd(f) ELSE Zdle(Words(f), Wide(f))

EscapeOf(b, is32) == IF is32 THEN ForeignByte(b) ELSE ZdleByte(b)

\* What is left of bytes todo, of which the first may be half read
Left(todo, esc, is32) ==
    (IF esc THEN Tail(EscapeOf(Head(todo), is32)) ELSE EscapeOf(Head(todo), is32))
      \o Zdle(Tail(todo), is32)

HalfRead(todo) ==
    escaped \in BOOLEAN /\ (escaped => Len(EscapeOf(Head(todo), wide)) = 2)

\* The check of subpacket f
Sum(f) == CheckOf(Append(f.data, f.ender), f.is32)

\* The receiver is inside frame f, rest is what it has not read of it: in front
\* of its words, in them, in the data, behind the data, or in the check.
InLead(f, rest) ==
    \/ /\ at = "pad" /\ f.form # "sub"
       /\ rest = (IF f.form = "hex" THEN <<ZPAD, ZDLE, ZHEX>> ELSE <<ZDLE, Mark(f)>>) \o Body(f)
    \/ at = "pad2" /\ f.form = "hex" /\ rest = <<ZDLE, Mark(f)>> \o Body(f)
    \/ at = "format" /\ f.form # "sub" /\ rest = <<Mark(f)>> \o Body(f)

InHex(f, rest) ==
    /\ at = "hex" /\ f.form = "hex"
    /\ bytes \in Seq(Nat)
    /\ \E todo \in Seq(Nat) :
          /\ todo # <<>> /\ Hex(Words(f)) = bytes \o todo
          /\ rest = todo \o LineEnd(f)

InBin(f, rest) ==
    /\ at = "bin" /\ f.form \in {"bin", "bin32"} /\ wide = Wide(f)
    /\ bytes \in Seq(Byte)
    /\ \E todo \in Seq(Byte) :
          /\ todo # <<>> /\ Words(f) = bytes \o todo
          /\ HalfRead(todo) /\ rest = Left(todo, escaped, wide)

End(f, half) == (IF half THEN <<f.ender>> ELSE <<ZDLE, f.ender>>) \o Zdle(Sum(f), f.is32)

InText(f, rest) ==
    /\ at = "sub" /\ f.form = "sub" /\ wide = f.is32
    /\ bytes \in Seq(Byte)
    /\ \E todo \in Seq(Byte) :
          /\ todo # <<>> /\ f.data = bytes \o todo
          /\ HalfRead(todo) /\ rest = Left(todo, escaped, wide) \o End(f, FALSE)

InEnd(f, rest) ==
    /\ at = "sub" /\ f.form = "sub" /\ wide = f.is32
    /\ f.data = bytes /\ escaped \in BOOLEAN
    /\ rest = End(f, escaped)

InCheck(f, rest) ==
    /\ at = "check" /\ f.form = "sub" /\ wide = f.is32
    /\ packet = Append(f.data, f.ender)
    /\ bytes \in Seq(Byte)
    /\ \E todo \in Seq(Byte) :
          /\ todo # <<>> /\ Sum(f) = bytes \o todo
          /\ HalfRead(todo) /\ rest = Left(todo, escaped, wide)

Inside(f, rest) ==
    \/ InLead(f, rest) \/ InHex(f, rest) \/ InBin(f, rest)
    \/ InText(f, rest) \/ InEnd(f, rest) \/ InCheck(f, rest)

\* The frames received are the first of those sent.
Received ==
    /\ got \in Seq({Known(f) : f \in Frames})
    /\ Len(got) <= Len(sent)
    /\ \A i \in 1 .. Len(got) : got[i] = Known(sent[i])

Between ==
    /\ at = "hunt"
    /\ Len(got) = 0 \/ ~ GoesOn(sent[Len(got)])
    /\ \E junk \in Seq(Nat) :
          /\ \A i \in 1 .. Len(junk) : junk[i] # ZPAD
          /\ input = junk \o Later(sent, Len(got))

Awaiting ==
    /\ at = "sub" /\ bytes = <<>> /\ escaped = FALSE
    /\ Len(got) # 0 /\ GoesOn(sent[Len(got)]) /\ wide = Wide(sent[Len(got)])
    /\ input = Later(sent, Len(got))

Middle ==
    \E f \in Frames, rest \in Seq(Nat) :
       /\ Len(got) < Len(sent) /\ f = sent[Len(got) + 1]
       /\ input = rest \o Later(sent, Len(got) + 1)
       /\ Inside(f, rest)

\* The key is the next byte, or comes behind what turned up.
KeyWaits ==
    /\ AbortKey /\ pressed /\ at # "failed"
    /\ \/ input # <<>> /\ input[1] = KeyChar
       \/ /\ at = "hunt" /\ noise # -1 /\ Len(input) > 1
          /\ input[1] # ZPAD /\ input[2] = KeyChar

Failed == at = "failed" /\ TooLong

Course == Failed \/ KeyWaits \/ Between \/ Awaiting \/ Middle

IntactInv ==
    /\ SentOK /\ input \in Seq(Nat)
    /\ ~ aborted /\ noise # ZPAD => Received /\ Course

-----------------------------------------------------------------------------
(* Sequences, from the front *)

\* A sequence is its first member and what comes behind.
InFront(T, s) ==
    /\ Head(s) \in T /\ Tail(s) \in Seq(T)
    /\ s = <<Head(s)>> \o Tail(s)
    /\ Head(s) = s[1]

\* Every sequence but the empty one has a first member.
LEMMA FirstAndRest == \A T : \A s \in Seq(T) : s # <<>> => InFront(T, s)
<1> SUFFICES ASSUME NEW T, NEW s \in Seq(T), s # <<>> PROVE InFront(T, s)
    OBVIOUS
<1> DEFINE h == Head(s)
           r == Tail(s)
           q == <<h>> \o r
<1>1. /\ h \in T /\ r \in Seq(T) /\ Len(s) = Len(r) + 1 /\ Len(r) \in Nat
      /\ h = s[1] /\ \A i \in 1 .. Len(r) : r[i] = s[i + 1]
    OBVIOUS
<1> HIDE DEF h, r
<1>2. /\ <<h>> \in Seq(T) /\ Len(<<h>>) = 1 /\ <<h>>[1] = h
    BY <1>1
<1>3. Places(T, <<h>>, r)
    BY <1>1, <1>2, ConcatPlaces, Zenon
<1>4. /\ q \in Seq(T) /\ Len(q) = Len(r) + 1 /\ q[1] = h
      /\ \A i \in 1 .. Len(r) : q[1 + i] = r[i]
    BY <1>1, <1>2, <1>3 DEF Places
<1> HIDE DEF q
<1>5. ASSUME NEW i \in 1 .. Len(s)
      PROVE  s[i] = q[i]
    <2>1. CASE i = 1
        BY <1>1, <1>4, <2>1
    <2>2. CASE i # 1
        <3> DEFINE j == i - 1
        <3>1. j \in 1 .. Len(r) /\ j + 1 = i /\ 1 + j = i
            BY <1>1, <2>2
        <3> HIDE DEF j
        <3>2. q[i] = r[j]
            BY <1>4, <3>1
        <3>3. r[j] = s[i]
            BY <1>1, <3>1
        <3> QED
            BY <3>2, <3>3
    <2> QED
        BY <2>1, <2>2
<1>6. s = q
    BY <1>1, <1>4, <1>5, SeqEqual
<1> QED
    BY <1>1, <1>6 DEF h, r, q, InFront

\* The first member of two sequences one behind the other
BothFrom(T, a, b) ==
    /\ a \o b \in Seq(T) /\ a \o b # <<>>
    /\ Head(a \o b) = Head(a) /\ Tail(a \o b) = Tail(a) \o b

\* It is that of the first sequence.
LEMMA FirstOfBoth == \A T : \A a, b \in Seq(T) : a # <<>> => BothFrom(T, a, b)
<1> SUFFICES ASSUME NEW T, NEW a \in Seq(T), NEW b \in Seq(T), a # <<>>
             PROVE  BothFrom(T, a, b)
    OBVIOUS
<1> DEFINE c == a \o b
           r == Tail(a)
           d == r \o b
           t == Tail(c)
<1>1. /\ r \in Seq(T) /\ Len(a) = Len(r) + 1 /\ Len(r) \in Nat /\ Len(b) \in Nat
      /\ \A i \in 1 .. Len(r) : r[i] = a[i + 1]
      /\ Head(a) = a[1]
    OBVIOUS
<1>2. Places(T, a, b)
    BY ConcatPlaces, Zenon
<1> HIDE DEF r
<1>3. Places(T, r, b)
    BY <1>1, ConcatPlaces, Zenon
<1>4. /\ c \in Seq(T) /\ Len(c) = Len(a) + Len(b)
      /\ \A i \in 1 .. Len(a) : c[i] = a[i]
      /\ \A i \in 1 .. Len(b) : c[Len(a) + i] = b[i]
    BY <1>2 DEF Places
<1>5. /\ d \in Seq(T) /\ Len(d) = Len(r) + Len(b)
      /\ \A i \in 1 .. Len(r) : d[i] = r[i]
      /\ \A i \in 1 .. Len(b) : d[Len(r) + i] = b[i]
    BY <1>3 DEF Places
<1> HIDE DEF c, d
<1>6. c # <<>>
    BY <1>1, <1>4
<1>7. /\ t \in Seq(T) /\ Len(t) = Len(c) - 1 /\ Head(c) = c[1]
      /\ \A i \in 1 .. Len(t) : t[i] = c[i + 1]
    BY <1>4, <1>6
<1> HIDE DEF t
<1>8. Head(c) = Head(a)
    <2>1. 1 \in 1 .. Len(a)
        BY <1>1
    <2> QED
        BY <1>1, <1>4, <1>7, <2>1
<1>9. ASSUME NEW i \in 1 .. Len(t)
      PROVE  t[i] = d[i]
    <2>1. Len(t) = Len(r) + Len(b) /\ t[i] = c[i + 1] /\ i \in Nat
        BY <1>1, <1>4, <1>7
    <2>2. CASE i <= Len(r)
        <3>1. i \in 1 .. Len(r) /\ i + 1 \in 1 .. Len(a)
            BY <1>1, <2>2
        <3>2. c[i + 1] = a[i + 1] /\ d[i] = r[i] /\ r[i] = a[i + 1]
            BY <1>1, <1>4, <1>5, <3>1
        <3> QED
            BY <2>1, <3>2
    <2>3. CASE i > Len(r)
        <3> DEFINE j == i - Len(r)
        <3>1. j \in 1 .. Len(b) /\ Len(r) + j = i /\ Len(a) + j = i + 1
            BY <1>1, <2>1, <2>3
        <3> HIDE DEF j
        <3>2. c[i + 1] = b[j] /\ d[i] = b[j]
            BY <1>4, <1>5, <3>1
        <3> QED
            BY <2>1, <3>2
    <2> QED
        BY <1>1, <2>1, <2>2, <2>3
<1>10. t = d
    <2>1. Len(t) = Len(d)
        BY <1>1, <1>4, <1>5, <1>7
    <2> QED
        BY <1>5, <1>7, <1>9, <2>1, SeqEqual
<1> QED
    BY <1>4, <1>6, <1>8, <1>10 DEF c, d, t, r, BothFrom

\* The first member of what is to come moves to the end of what there is.
Moved(T, a, t) ==
    /\ Append(a, Head(t)) \in Seq(T)
    /\ a \o t = Append(a, Head(t)) \o Tail(t)
    /\ Tail(t) = <<>> => a \o t = Append(a, Head(t))
    /\ Len(a \o t) = Len(Append(a, Head(t))) + Len(Tail(t))

\* Nothing is lost by it.
LEMMA FirstMoves == \A T : \A a, t \in Seq(T) : t # <<>> => Moved(T, a, t)
<1> SUFFICES ASSUME NEW T, NEW a \in Seq(T), NEW t \in Seq(T), t # <<>>
             PROVE  Moved(T, a, t)
    OBVIOUS
<1> DEFINE h == Head(t)
           r == Tail(t)
           b == <<h>>
<1>1. h \in T /\ r \in Seq(T) /\ t = b \o r
    <2>1. InFront(T, t)
        BY FirstAndRest, Zenon
    <2> QED
        BY <2>1, Zenon DEF InFront
<1> HIDE DEF h, r
<1>2. b \in Seq(T) /\ Append(a, h) = a \o b /\ Append(a, h) \in Seq(T)
    BY <1>1, AppendIsConcat
<1> HIDE DEF b
<1>3. (a \o b) \o r = a \o (b \o r)
    <2>1. a \in Seq(T) /\ b \in Seq(T) /\ r \in Seq(T)
        BY <1>1, <1>2
    <2> QED
        BY <2>1, ConcatAssociative
<1>4. r = <<>> => (a \o b) \o r = a \o b
    <2>1. a \o b \in Seq(T)
        BY <1>2
    <2> DEFINE c == a \o b
    <2> HIDE DEF c
    <2>2. c \in Seq(T) => c \o <<>> = c
        OBVIOUS
    <2> QED
        BY <2>1, <2>2 DEF c
<1>5. Len((a \o b) \o r) = Len(a \o b) + Len(r)
    <2>1. a \o b \in Seq(T)
        BY <1>2
    <2>2. Places(T, a \o b, r)
        BY <1>1, <2>1, ConcatPlaces, Zenon
    <2> QED
        BY <2>2 DEF Places
<1>6. a \o t = Append(a, h) \o r
    BY <1>1, <1>2, <1>3
<1> QED
    BY <1>2, <1>4, <1>5, <1>6 DEF h, r, Moved

\* One sequence flattened is itself.
LEMMA FlattenedOne == ASSUME NEW T, NEW e \in Seq(T) PROVE FlattenSeq(<<e>>) = e
<1> DEFINE q == <<e>>
<1>1. q \in Seq(Seq(T)) /\ Len(q) = 1 /\ q[1] = e
    OBVIOUS
<1> HIDE DEF q
<1>2. PICK f : Sums(q, T, f) /\ FlattenSeq(q) = f[Len(q)]
    BY <1>1, Flattened
<1>3. f[0] = <<>> /\ f[1] = f[1 - 1] \o q[1] /\ FlattenSeq(q) = f[1]
    BY <1>1, <1>2 DEF Sums
<1>4. <<>> \o e = e /\ 1 - 1 = 0
    OBVIOUS
<1> QED
    BY <1>1, <1>3, <1>4 DEF q

\* The first of several sequences put together
LEMMA FlattenedFirst ==
    ASSUME NEW T, NEW q \in Seq(Seq(T)), q # <<>>
    PROVE  /\ FlattenSeq(q) = Head(q) \o FlattenSeq(Tail(q))
           /\ Head(q) \in Seq(T) /\ Tail(q) \in Seq(Seq(T)) /\ FlattenSeq(Tail(q)) \in Seq(T)
<1> DEFINE S == Seq(T)
           h == Head(q)
           r == Tail(q)
           o == <<h>>
<1>1. InFront(S, q)
    <2>1. q \in Seq(S)
        OBVIOUS
    <2> HIDE DEF S
    <2> QED
        BY <2>1, FirstAndRest, Zenon
<1>2. h \in S /\ r \in Seq(S) /\ q = o \o r
    BY <1>1, Zenon DEF InFront
<1> HIDE DEF h, r
<1>3. o \in Seq(S)
    BY <1>2
<1>4. FlattenSeq(o) = h
    BY <1>2, FlattenedOne
<1> HIDE DEF o
<1>5. FlattenSeq(r) \in Seq(T) /\ FlattenSeq(o \o r) = FlattenSeq(o) \o FlattenSeq(r)
    BY <1>2, <1>3, FlattenedBoth
<1> QED
    BY <1>2, <1>4, <1>5 DEF h, r

\* Nothing flattened is nothing.
LEMMA FlattenedNone == FlattenSeq(<<>>) = <<>>
<1>1. <<>> \in Seq(Seq(Nat)) /\ Len(<<>>) = 0
    OBVIOUS
<1> DEFINE q == <<>>
<1> HIDE DEF q
<1>2. q \in Seq(Seq(Nat)) /\ Len(q) = 0
    BY <1>1 DEF q
<1>3. PICK f : Sums(q, Nat, f) /\ FlattenSeq(q) = f[Len(q)]
    BY <1>2, Flattened
<1>4. f[0] = <<>> /\ FlattenSeq(q) = f[0]
    BY <1>2, <1>3, Zenon DEF Sums
<1> QED
    BY <1>4 DEF q

-----------------------------------------------------------------------------
(* Frames: one byte, one header, one subpacket *)

\* A byte goes out as it is, or as ZDLE and another that ends no subpacket.
OneOrTwo(e, b) ==
    \/ e = <<b>> /\ b # ZDLE
    \/ \E c \in Nat \ Enders : e = <<ZDLE, c>> /\ Unescape(c) = b

\* An escaped byte is the byte, or ZDLE and a byte that is unescaped to it.
LEMMA EscapeFacts == \A b \in Byte : \A is32 : OneOrTwo(EscapeOf(b, is32), b)
<1> SUFFICES ASSUME NEW b \in Byte, NEW is32 PROVE OneOrTwo(EscapeOf(b, is32), b)
    OBVIOUS
<1>1. /\ ZDLE = 24 /\ ZRUB0 = 108 /\ ZRUB1 = 109 /\ Enders = 104 .. 107
    BY DEF ZDLE, ZRUB0, ZRUB1, Enders, ZCRCE, ZCRCW
<1>2. /\ Unescape(88) = 24 /\ Unescape(81) = 17 /\ Unescape(83) = 19
      /\ Unescape(193) = 129 /\ Unescape(195) = 131
      /\ Unescape(108) = 127 /\ Unescape(109) = 255
    BY <1>1, Escapes DEF Unescape
<1>3. OneOrTwo(ZdleByte(b), b)
    <2>1. CASE b \in {24, 17, 19, 129, 131}
        <3>1. ZdleByte(b) = <<ZDLE, Xor40(b)>>
            BY <1>1, <2>1 DEF ZdleByte
        <3>2. Xor40(b) \in Nat \ Enders /\ Unescape(Xor40(b)) = b
            BY <1>1, <1>2, <2>1, Escapes
        <3> QED
            BY <3>1, <3>2 DEF OneOrTwo
    <2>2. CASE ~ (b \in {24, 17, 19, 129, 131})
        BY <1>1, <2>2 DEF ZdleByte, OneOrTwo
    <2> QED
        BY <2>1, <2>2
<1>4. OneOrTwo(ForeignByte(b), b)
    <2>1. CASE b = 127
        <3>1. ForeignByte(b) = <<ZDLE, 108>> /\ 108 \in Nat \ Enders /\ Unescape(108) = b
            BY <1>1, <1>2, <2>1 DEF ForeignByte
        <3> QED
            BY <3>1 DEF OneOrTwo
    <2>2. CASE b = 255
        <3>1. ForeignByte(b) = <<ZDLE, 109>> /\ 109 \in Nat \ Enders /\ Unescape(109) = b
            BY <1>1, <1>2, <2>2 DEF ForeignByte
        <3> QED
            BY <3>1 DEF OneOrTwo
    <2>3. CASE b # 127 /\ b # 255
        BY <1>3, <2>3 DEF ForeignByte
    <2> QED
        BY <2>1, <2>2, <2>3
<1> QED
    BY <1>3, <1>4 DEF EscapeOf

\* The escapes of bytes, one by one
LEMMA EscapedTyped ==
    ASSUME NEW s \in Seq(Byte), NEW is32
    PROVE  /\ Escaped(s, is32) \in Seq(Seq(Nat))
           /\ Len(Escaped(s, is32)) = Len(s)
           /\ \A i \in 1 .. Len(s) :
                 Escaped(s, is32)[i] = EscapeOf(s[i], is32) /\ EscapeOf(s[i], is32) \in Seq(Nat)
<1> DEFINE q == Escaped(s, is32)
<1>1. ASSUME NEW i \in 1 .. Len(s)
      PROVE  q[i] = EscapeOf(s[i], is32) /\ EscapeOf(s[i], is32) \in Seq(Nat)
    <2>1. s[i] \in Byte
        OBVIOUS
    <2>2. EscapeOf(s[i], is32) \in Seq(Nat)
        BY <2>1, EscapedTame DEF EscapeOf
    <2>3. q[i] = EscapeOf(s[i], is32)
        BY DEF Escaped, EscapeOf
    <2> QED
        BY <2>2, <2>3
<1>2. DOMAIN s = 1 .. Len(s) /\ Len(s) \in Nat /\ q = [i \in DOMAIN s |-> q[i]]
    BY DEF Escaped
<1> HIDE DEF q
<1>3. q \in [1 .. Len(s) -> Seq(Nat)]
    BY <1>1, <1>2
<1>4. q \in Seq(Seq(Nat)) /\ Len(q) = Len(s)
    BY <1>2, <1>3
<1> QED
    BY <1>1, <1>4 DEF q

\* Escaped bytes begin with the escape of the first.
LEMMA ZdleFirst ==
    ASSUME NEW s \in Seq(Byte), NEW is32
    PROVE  /\ Zdle(s, is32) \in Seq(Nat)
           /\ s = <<>> => Zdle(s, is32) = <<>>
           /\ s # <<>> =>
                Zdle(s, is32) = EscapeOf(Head(s), is32) \o Zdle(Tail(s), is32)
<1> DEFINE q == Escaped(s, is32)
           r == Escaped(Tail(s), is32)
<1>1. Zdle(s, is32) = FlattenSeq(q) /\ Zdle(Tail(s), is32) = FlattenSeq(r)
    BY DEF Zdle, Escaped
<1>2. /\ q \in Seq(Seq(Nat)) /\ Len(q) = Len(s)
      /\ \A i \in 1 .. Len(s) : q[i] = EscapeOf(s[i], is32)
    BY EscapedTyped
<1>3. Zdle(s, is32) \in Seq(Nat)
    <2> HIDE DEF q
    <2> QED
        BY <1>1, <1>2, FlattenedBoth
<1>4. CASE s = <<>>
    <2>1. q = <<>>
        BY <1>2, <1>4
    <2> QED
        BY <1>1, <1>3, <1>4, <2>1, FlattenedNone
<1>5. CASE s # <<>>
    <2> DEFINE u == Tail(s)
    <2>1. /\ u \in Seq(Byte) /\ Len(s) = Len(u) + 1 /\ Len(u) \in Nat /\ Head(s) = s[1]
          /\ \A i \in 1 .. Len(u) : u[i] = s[i + 1]
        BY <1>5
    <2> HIDE DEF u
    <2>2. /\ r \in Seq(Seq(Nat)) /\ Len(r) = Len(u)
          /\ \A i \in 1 .. Len(u) : r[i] = EscapeOf(u[i], is32)
        <3>1. r = Escaped(u, is32)
            BY DEF u
        <3> HIDE DEF r
        <3> QED
            BY <2>1, <3>1, EscapedTyped
    <2> HIDE DEF q, r
    <2>3. q # <<>>
        BY <1>2, <2>1
    <2> DEFINE v == Tail(q)
    <2>4. /\ v \in Seq(Seq(Nat)) /\ Len(v) = Len(u) /\ Head(q) = q[1]
          /\ \A i \in 1 .. Len(u) : v[i] = q[i + 1]
        BY <1>2, <2>1, <2>3
    <2> HIDE DEF v
    <2>5. v = r
        <3>1. ASSUME NEW i \in 1 .. Len(u) PROVE v[i] = r[i]
            <4>1. i + 1 \in 1 .. Len(s)
                BY <2>1
            <4> QED
                BY <1>2, <2>1, <2>2, <2>4, <4>1
        <3> QED
            BY <2>2, <2>4, <3>1, SeqEqual
    <2>6. Head(q) = EscapeOf(Head(s), is32)
        BY <1>2, <2>1, <2>4
    <2>7. FlattenSeq(q) = Head(q) \o FlattenSeq(v)
        BY <1>2, <2>3, FlattenedFirst DEF v
    <2>8. Zdle(s, is32) = EscapeOf(Head(s), is32) \o Zdle(Tail(s), is32)
        BY <1>1, <2>5, <2>6, <2>7, Zenon
    <2> QED
        BY <1>3, <1>5, <2>8, Zenon
<1> QED
    BY <1>4, <1>5

\* The digits of a header's three bytes, and what they are read as
LEMMA HexFacts ==
    ASSUME NEW a \in Byte, NEW b \in Byte, NEW c \in Byte
    PROVE  LET h == Hex(<<a, b, c>>)
           IN  /\ h \in Seq(Nat) /\ Len(h) = 6
               /\ \A i \in 1 .. 6 : Nibble(h[i]) # -1
               /\ 16 * Nibble(h[1]) + Nibble(h[2]) = a
               /\ 16 * Nibble(h[3]) + Nibble(h[4]) = b
               /\ 16 * Nibble(h[5]) + Nibble(h[6]) = c
<1> DEFINE Two(x) == <<HexDigit(x \div 16), HexDigit(x % 16)>>
           w == <<a, b, c>>
           p == Two(a)
           q == Two(b)
           r == Two(c)
<1>1. ASSUME NEW d \in 0 .. 15
      PROVE  HexDigit(d) \in Nat /\ Nibble(HexDigit(d)) = d
    <2>1. CASE d < 10
        BY <2>1 DEF HexDigit, Nibble
    <2>2. CASE ~ (d < 10)
        BY <2>2 DEF HexDigit, Nibble
    <2> QED
        BY <2>1, <2>2
<1>2. ASSUME NEW x \in Byte
      PROVE  LET t == Two(x)
             IN  /\ t \in Seq(Nat) /\ Len(t) = 2
                 /\ Nibble(t[1]) # -1 /\ Nibble(t[2]) # -1
                 /\ 16 * Nibble(t[1]) + Nibble(t[2]) = x
    <2> DEFINE m == x \div 16
               n == x % 16
    <2>1. m \in 0 .. 15 /\ n \in 0 .. 15
        BY Nibbles
    <2>2. 16 * m + n = x
        <3>1. x \in 0 .. 255
            BY DEF Byte
        <3> QED
            BY <3>1
    <2> HIDE DEF m, n
    <2> DEFINE g == HexDigit(m)
               k == HexDigit(n)
    <2>3. g \in Nat /\ k \in Nat /\ Nibble(g) = m /\ Nibble(k) = n
        BY <1>1, <2>1
    <2> HIDE DEF g, k
    <2> DEFINE t == <<g, k>>
    <2>4. t \in Seq(Nat) /\ Len(t) = 2 /\ t[1] = g /\ t[2] = k
        BY <2>3
    <2> HIDE DEF t
    <2>5. /\ Nibble(t[1]) # -1 /\ Nibble(t[2]) # -1
          /\ 16 * Nibble(t[1]) + Nibble(t[2]) = x
        BY <2>1, <2>2, <2>3, <2>4
    <2> QED
        BY <2>4, <2>5 DEF t, g, k, m, n
<1>3. /\ p \in Seq(Nat) /\ Len(p) = 2 /\ q \in Seq(Nat) /\ Len(q) = 2
      /\ r \in Seq(Nat) /\ Len(r) = 2
    BY <1>2
<1>4. Hex(w) = FlattenSeq(<<p, q, r>>)
    <2>1. w \in Seq(Byte) /\ Len(w) = 3 /\ w[1] = a /\ w[2] = b /\ w[3] = c /\ DOMAIN w = 1 .. 3
        OBVIOUS
    <2> DEFINE z == [i \in DOMAIN w |-> Two(w[i])]
    <2>2. z = <<p, q, r>>
        <3> HIDE DEF w
        <3>1. z = [i \in 1 .. 3 |-> Two(w[i])] /\ z[1] = p /\ z[2] = q /\ z[3] = r
            BY <2>1
        <3> HIDE DEF p, q, r, z, Two
        <3> QED
            BY <3>1
    <2>3. Hex(w) = FlattenSeq(z)
        BY DEF Hex
    <2> HIDE DEF z
    <2> QED
        BY <2>2, <2>3
<1>5. /\ 16 * Nibble(p[1]) + Nibble(p[2]) = a /\ Nibble(p[1]) # -1 /\ Nibble(p[2]) # -1
      /\ 16 * Nibble(q[1]) + Nibble(q[2]) = b /\ Nibble(q[1]) # -1 /\ Nibble(q[2]) # -1
      /\ 16 * Nibble(r[1]) + Nibble(r[2]) = c /\ Nibble(r[1]) # -1 /\ Nibble(r[2]) # -1
    BY <1>2
<1> HIDE DEF p, q, r, w
<1>6. FlattenSeq(<<p, q, r>>) = p \o (q \o r)
    <2>1. FlattenSeq(<<r>>) = r
        BY <1>3, FlattenedOne
    <2>2. FlattenSeq(<<q, r>>) = q \o r
        <3>1. /\ <<q, r>> \in Seq(Seq(Nat)) /\ <<q, r>> # <<>>
              /\ Head(<<q, r>>) = q /\ Tail(<<q, r>>) = <<r>>
            BY <1>3
        <3> QED
            BY <2>1, <3>1, FlattenedFirst
    <2>3. /\ <<p, q, r>> \in Seq(Seq(Nat)) /\ <<p, q, r>> # <<>>
          /\ Head(<<p, q, r>>) = p /\ Tail(<<p, q, r>>) = <<q, r>>
        BY <1>3
    <2> QED
        BY <2>2, <2>3, FlattenedFirst
<1> DEFINE h == p \o (q \o r)
<1>7. /\ h \in Seq(Nat) /\ Len(h) = 6
      /\ h[1] = p[1] /\ h[2] = p[2] /\ h[3] = q[1] /\ h[4] = q[2] /\ h[5] = r[1] /\ h[6] = r[2]
    <2> DEFINE y == q \o r
    <2>1. /\ y \in Seq(Nat) /\ Len(y) = 4
          /\ \A i \in 1 .. 2 : y[i] = q[i]
          /\ \A i \in 1 .. 2 : y[2 + i] = r[i]
        <3>1. Places(Nat, q, r)
            BY <1>3, ConcatPlaces
        <3> QED
            BY <1>3, <3>1 DEF Places
    <2> HIDE DEF y
    <2>2. /\ h \in Seq(Nat) /\ Len(h) = 6
          /\ \A i \in 1 .. 2 : h[i] = p[i]
          /\ \A i \in 1 .. 4 : h[2 + i] = y[i]
        <3> DEFINE g == p \o y
        <3>1. Places(Nat, p, y)
            BY <1>3, <2>1, ConcatPlaces
        <3>4. /\ g \in Seq(Nat) /\ Len(g) = Len(p) + Len(y)
              /\ \A i \in 1 .. Len(p) : g[i] = p[i]
              /\ \A i \in 1 .. Len(y) : g[Len(p) + i] = y[i]
            BY <3>1, Zenon DEF Places
        <3>5. Len(p) = 2 /\ Len(y) = 4 /\ Len(p) + Len(y) = 6
            BY <1>3, <2>1
        <3> HIDE DEF g
        <3>2. /\ g \in Seq(Nat) /\ Len(g) = 6
              /\ \A i \in 1 .. 2 : g[i] = p[i]
              /\ \A i \in 1 .. 4 : g[2 + i] = y[i]
            BY <3>4, <3>5
        <3>3. g = h
            BY DEF y, g
        <3> HIDE DEF g, h
        <3> QED
            BY <3>2, <3>3
    <2> HIDE DEF h
    <2>3. /\ 1 \in 1 .. 2 /\ 2 \in 1 .. 2 /\ {1, 2, 3, 4} \subseteq 1 .. 4
          /\ 2 + 1 = 3 /\ 2 + 2 = 4 /\ 2 + 3 = 5 /\ 2 + 4 = 6
        OBVIOUS
    <2>4. y[1] = q[1] /\ y[2] = q[2] /\ y[3] = r[1] /\ y[4] = r[2]
        BY <2>1, <2>3
    <2>5. h[3] = y[1] /\ h[4] = y[2] /\ h[5] = y[3] /\ h[6] = y[4]
        BY <2>2, <2>3
    <2> QED
        BY <2>2, <2>3, <2>4, <2>5
<1> HIDE DEF h
<1>8. Hex(w) = h
    BY <1>4, <1>6 DEF h
<1>9. \A i \in 1 .. 6 : Nibble(h[i]) # -1
    <2> TAKE i \in 1 .. 6
    <2>1. i \in {1, 2, 3, 4, 5, 6}
        OBVIOUS
    <2> QED
        BY <1>5, <1>7, <2>1
<1> QED
    BY <1>5, <1>7, <1>8, <1>9 DEF w

\* Short sequences, put together
LEMMA Tuples ==
    \A a, b, c, d \in Nat :
        /\ <<a>> \o <<b, c>> = <<a, b, c>> /\ <<a, b>> \o <<c>> = <<a, b, c>>
        /\ <<a>> \o <<b, c, d>> = <<a, b, c, d>>
<1> SUFFICES ASSUME NEW a \in Nat, NEW b \in Nat, NEW c \in Nat, NEW d \in Nat
             PROVE  /\ <<a>> \o <<b, c>> = <<a, b, c>> /\ <<a, b>> \o <<c>> = <<a, b, c>>
                    /\ <<a>> \o <<b, c, d>> = <<a, b, c, d>>
    BY Zenon
<1>1. <<a>> \o <<b, c>> = <<a, b, c>>
    <2> DEFINE u == <<a>> \o <<b, c>>
               v == <<a, b, c>>
    <2>1. /\ u \in Seq(Nat) /\ Len(u) = 3 /\ u[1] = a /\ u[2] = b /\ u[3] = c
          /\ v \in Seq(Nat) /\ Len(v) = 3 /\ v[1] = a /\ v[2] = b /\ v[3] = c
        OBVIOUS
    <2> HIDE DEF u, v
    <2>2. \A i \in 1 .. Len(u) : u[i] = v[i]
        BY <2>1
    <2>3. u = v
        BY <2>1, <2>2, SeqEqual
    <2> QED
        BY <2>3 DEF u, v
<1>2. <<a, b>> \o <<c>> = <<a, b, c>>
    <2> DEFINE u == <<a, b>> \o <<c>>
               v == <<a, b, c>>
    <2>1. /\ u \in Seq(Nat) /\ Len(u) = 3 /\ u[1] = a /\ u[2] = b /\ u[3] = c
          /\ v \in Seq(Nat) /\ Len(v) = 3 /\ v[1] = a /\ v[2] = b /\ v[3] = c
        OBVIOUS
    <2> HIDE DEF u, v
    <2>2. \A i \in 1 .. Len(u) : u[i] = v[i]
        BY <2>1
    <2>3. u = v
        BY <2>1, <2>2, SeqEqual
    <2> QED
        BY <2>3 DEF u, v
<1>3. <<a>> \o <<b, c, d>> = <<a, b, c, d>>
    <2> DEFINE u == <<a>> \o <<b, c, d>>
               v == <<a, b, c, d>>
    <2>1. /\ u \in Seq(Nat) /\ Len(u) = 4 /\ u[1] = a /\ u[2] = b /\ u[3] = c /\ u[4] = d
          /\ v \in Seq(Nat) /\ Len(v) = 4 /\ v[1] = a /\ v[2] = b /\ v[3] = c /\ v[4] = d
        OBVIOUS
    <2> HIDE DEF u, v
    <2>2. \A i \in 1 .. Len(u) : u[i] = v[i]
        BY <2>1
    <2>3. u = v
        BY <2>1, <2>2, SeqEqual
    <2> QED
        BY <2>3 DEF u, v
<1> QED
    BY <1>1, <1>2, <1>3

\* What the fields of a frame are
LEMMA FrameParts ==
    ASSUME NEW f \in Frames
    PROVE  /\ f.form # "sub" =>
                f.form \in {"hex", "bin", "bin32"} /\ f.type \in Byte /\ f.flag \in Byte
           /\ f.form = "sub" =>
                f.data \in Seq(Byte) /\ f.ender \in Enders /\ f.is32 \in BOOLEAN
           /\ Wide(f) \in BOOLEAN
    BY DEF Frames, Wide

\* How long a check is does not depend on what it is of.
LEMMA CheckLength ==
    \A s, is32 : LET n == Len(CheckOf(<<>>, is32))
                 IN  /\ n = IF is32 THEN 2 ELSE 1
                     /\ Len(CheckOf(s, is32)) = n
    BY DEF CheckOf

\* The words of a header: two, and the check
LEMMA WordsFacts ==
    ASSUME NEW f \in Frames, f.form # "sub"
    PROVE  LET n == Len(CheckOf(<<>>, Wide(f)))
               w == Words(f)
           IN  /\ w \in Seq(Byte) /\ w # <<>> /\ Len(w) = 2 + n
               /\ w[1] = f.type /\ w[2] = f.flag
               /\ SubSeq(w, 3, 2 + n) = CheckOf(<<f.type, f.flag>>, Wide(f))
               /\ f.form = "hex" =>
                    w = <<f.type, f.flag, Check(<<f.type, f.flag>>)>>
               /\ Check(<<f.type, f.flag>>) \in Byte
<1> DEFINE t == f.type
           g == f.flag
           p == <<t, g>>
           c == CheckOf(p, Wide(f))
           n == Len(CheckOf(<<>>, Wide(f)))
           w == Words(f)
<1>1. t \in Byte /\ g \in Byte
    BY FrameParts
<1> HIDE DEF t, g
<1>2. p \in Seq(Byte) /\ Len(p) = 2 /\ p[1] = t /\ p[2] = g
    BY <1>1
<1> HIDE DEF p
<1>3. c \in Seq(Byte) /\ Check(p) \in Byte
    BY <1>2, CheckOfTyped, CheckTyped
<1>4. Len(c) = n /\ n \in {1, 2}
    BY CheckLength
<1>5. w = p \o c
    BY DEF Words, p, t, g
<1>6. f.form = "hex" => c = <<Check(p)>>
    BY DEF CheckOf, Wide
<1> HIDE DEF c, n, w
<1>7. Places(Byte, p, c)
    BY <1>2, <1>3, ConcatPlaces, Zenon
<1>8. /\ w \in Seq(Byte) /\ Len(w) = 2 + n
      /\ \A i \in 1 .. 2 : w[i] = p[i]
      /\ \A i \in 1 .. n : w[2 + i] = c[i]
    <2>1. Len(p) = 2
        BY <1>2
    <2>2. /\ w \in Seq(Byte) /\ Len(w) = Len(p) + Len(c)
          /\ \A i \in 1 .. Len(p) : w[i] = p[i]
          /\ \A i \in 1 .. Len(c) : w[Len(p) + i] = c[i]
        BY <1>5, <1>7, Zenon DEF Places
    <2> QED
        BY <1>4, <2>1, <2>2
<1>9. w # <<>>
    BY <1>4, <1>8
<1>10. w[1] = t /\ w[2] = g
    BY <1>2, <1>8
<1>11. SubSeq(w, 3, 2 + n) = c
    <2> DEFINE u == SubSeq(w, 3, 2 + n)
    <2>1. /\ u \in Seq(Byte) /\ Len(u) = n
          /\ \A i \in 1 .. n : u[i] = w[2 + i]
        BY <1>4, <1>8
    <2> HIDE DEF u
    <2>2. u = c
        BY <1>3, <1>4, <1>8, <2>1, SeqEqual
    <2> QED
        BY <2>2 DEF u
<1>12. f.form = "hex" => w = <<t, g, Check(p)>>
    <2>1. t \in Nat /\ g \in Nat /\ Check(p) \in Nat
        <3>1. \A x \in Byte : x \in Nat
            BY DEF Byte
        <3> QED
            BY <1>1, <1>3, <3>1, Zenon
    <2>2. <<t, g>> \o <<Check(p)>> = <<t, g, Check(p)>>
        BY <2>1, Tuples, Zenon
    <2> QED
        BY <1>5, <1>6, <2>2 DEF p
<1> QED
    BY <1>3, <1>8, <1>9, <1>10, <1>11, <1>12 DEF w, n, c, p, t, g

\* The check of a subpacket
LEMMA SumFacts ==
    ASSUME NEW f \in Frames, f.form = "sub"
    PROVE  /\ Sum(f) \in Seq(Byte) /\ Sum(f) # <<>>
           /\ Len(Sum(f)) = Len(CheckOf(<<>>, f.is32))
           /\ f.ender \in Byte /\ Append(f.data, f.ender) \in Seq(Byte)
           /\ Front(Append(f.data, f.ender)) = f.data
           /\ Last(Append(f.data, f.ender)) = f.ender
<1> DEFINE d == f.data
           e == f.ender
           s == Append(d, e)
<1>1. d \in Seq(Byte) /\ e \in Byte
    <2>1. d \in Seq(Byte) /\ e \in Enders
        BY FrameParts
    <2> HIDE DEF d, e
    <2> QED
        BY <2>1 DEF Enders, Byte, ZCRCE, ZCRCW
<1> HIDE DEF d, e
<1>2. /\ s \in Seq(Byte) /\ Len(s) = Len(d) + 1 /\ s[Len(d) + 1] = e
      /\ \A i \in 1 .. Len(d) : s[i] = d[i]
    BY <1>1
<1> HIDE DEF s
<1>3. Last(s) = e
    BY <1>2 DEF Last
<1>4. Front(s) = d
    <2> DEFINE u == SubSeq(s, 1, Len(s) - 1)
    <2>1. Len(d) \in Nat /\ Len(s) - 1 = Len(d)
        BY <1>1, <1>2
    <2>2. u \in Seq(Byte) /\ Len(u) = Len(d) /\ \A i \in 1 .. Len(d) : u[i] = s[i]
        BY <1>2, <2>1
    <2> HIDE DEF u
    <2>3. u = d
        BY <1>1, <1>2, <2>2, SeqEqual
    <2> QED
        BY <2>3 DEF u, Front
<1>5. /\ Sum(f) \in Seq(Byte) /\ Len(Sum(f)) = Len(CheckOf(<<>>, f.is32))
      /\ Len(Sum(f)) # 0
    <2> DEFINE is32 == f.is32
               c == CheckOf(s, is32)
    <2>1. c \in Seq(Byte)
        <3> HIDE DEF is32
        <3> QED
            BY <1>2, CheckOfTyped
    <2>2. /\ Len(c) = Len(CheckOf(<<>>, is32))
          /\ Len(c) = IF is32 THEN 2 ELSE 1
        <3> HIDE DEF is32, s
        <3> QED
            BY CheckLength, Zenon
    <2> QED
        BY <2>1, <2>2 DEF Sum, s, d, e
<1>6. Sum(f) # <<>>
    <2> DEFINE c == Sum(f)
    <2> HIDE DEF c
    <2>1. c # <<>>
        BY <1>5 DEF c
    <2> QED
        BY <2>1 DEF c
<1> QED
    BY <1>1, <1>2, <1>3, <1>4, <1>5, <1>6 DEF s, d, e

\* Bytes to come, put together anew
Regrouped(T, a, b, c) ==
    /\ a \o b \in Seq(T) /\ b \o c \in Seq(T)
    /\ a \o (b \o c) \in Seq(T) /\ (a \o b) \o c = a \o (b \o c)

\* They are the same bytes.
LEMMA Regroup == \A T : \A a, b, c \in Seq(T) : Regrouped(T, a, b, c)
    BY ConcatAssociative DEF Regrouped

\* A header: ZPAD, what leads to it, and the words
LEMMA HeaderParts ==
    ASSUME NEW f \in Frames, f.form # "sub"
    PROVE  LET lead == IF f.form = "hex" THEN <<ZPAD, ZDLE, ZHEX>> ELSE <<ZDLE, Mark(f)>>
           IN  /\ Body(f) \in Seq(Nat) /\ LineEnd(f) \in Seq(Nat)
               /\ Hex(Words(f)) \in Seq(Nat)
               /\ Encoded(f) = <<ZPAD>> \o (lead \o Body(f))
<1> DEFINE w == Words(f)
           b == Hex(w)
           z == Zdle(w, Wide(f))
           c == <<13, 10>>
           d == IF f.type = ZFIN THEN <<>> ELSE <<XON>>
           lead == IF f.form = "hex" THEN <<ZPAD, ZDLE, ZHEX>> ELSE <<ZDLE, Mark(f)>>
           o == <<ZPAD>>
<1>1. w \in Seq(Byte)
    BY WordsFacts
<1>2. b \in Seq(Nat) /\ z \in Seq(Nat)
    <2>1. b \in Seq(Nat)
        <3> HIDE DEF w
        <3> QED
            BY <1>1, HexTame DEF Tame
    <2> QED
        BY <1>1, <2>1, ZdleFirst
<1>3. /\ c \in Seq(Nat) /\ d \in Seq(Nat) /\ o \in Seq(Nat) /\ lead \in Seq(Nat)
      /\ o \o lead \in Seq(Nat)
    BY DEF XON, ZPAD, ZDLE, ZHEX, Mark, ZBIN, ZBIN32
<1>4. f.form = "hex" => o \o lead = <<ZPAD, ZPAD, ZDLE, ZHEX>>
    <2>1. ZPAD \in Nat /\ ZDLE \in Nat /\ ZHEX \in Nat
        BY DEF ZPAD, ZDLE, ZHEX
    <2>2. <<ZPAD>> \o <<ZPAD, ZDLE, ZHEX>> = <<ZPAD, ZPAD, ZDLE, ZHEX>>
        BY <2>1, Tuples, Zenon
    <2> QED
        BY <2>2
<1>5. f.form # "hex" => o \o lead = <<ZPAD, ZDLE, IF Wide(f) THEN ZBIN32 ELSE ZBIN>>
    <2>1. ZPAD \in Nat /\ ZDLE \in Nat /\ Mark(f) \in Nat
        BY DEF ZPAD, ZDLE, ZHEX, ZBIN, ZBIN32, Mark
    <2>2. <<ZPAD>> \o <<ZDLE, Mark(f)>> = <<ZPAD, ZDLE, Mark(f)>>
        BY <2>1, Tuples, Zenon
    <2> QED
        BY <2>2 DEF Mark
<1>6. LineEnd(f) = c \o d /\ LineEnd(f) \in Seq(Nat)
    BY <1>3 DEF LineEnd
<1>7. f.form = "hex" => Encoded(f) = (((o \o lead) \o b) \o c) \o d
    <2> SUFFICES ASSUME f.form = "hex" PROVE Encoded(f) = (((o \o lead) \o b) \o c) \o d
        OBVIOUS
    <2>1. w = <<f.type, f.flag>> \o CheckOf(<<f.type, f.flag>>, FALSE)
        BY DEF Words, Wide
    <2>2. Encoded(f) = HexHeader(f.type, f.flag)
        BY DEF Encoded, Header
    <2> HIDE DEF lead, o
    <2> QED
        BY <1>4, <2>1, <2>2 DEF HexHeader
<1>8. f.form # "hex" => Encoded(f) = (o \o lead) \o z
    <2> SUFFICES ASSUME f.form # "hex" PROVE Encoded(f) = (o \o lead) \o z
        OBVIOUS
    <2>1. Encoded(f) = BinHeader(f.type, f.flag, Wide(f))
        BY FrameParts DEF Encoded, Header, Wide
    <2> HIDE DEF lead, o
    <2> QED
        BY <1>5, <2>1 DEF BinHeader, Words
<1>9. Body(f) = IF f.form = "hex" THEN b \o LineEnd(f) ELSE z
    BY DEF Body
<1> HIDE DEF lead, o, w, b, c, d, z
<1>10. CASE f.form = "hex"
    <2> DEFINE x == o \o lead
    <2>1. Regrouped(Nat, x, b, c) /\ Regrouped(Nat, b, c, d)
        BY <1>2, <1>3, Regroup, Zenon
    <2>2. x \o b \in Seq(Nat) /\ c \o d \in Seq(Nat) /\ b \o (c \o d) \in Seq(Nat)
        BY <2>1, Zenon DEF Regrouped
    <2>3. Regrouped(Nat, x \o b, c, d) /\ Regrouped(Nat, x, b, c \o d)
        BY <1>2, <1>3, <2>2, Regroup, Zenon
    <2>4. Regrouped(Nat, o, lead, b \o (c \o d))
        BY <1>3, <2>2, Regroup, Zenon
    <2>5. Body(f) = b \o (c \o d)
        BY <1>6, <1>9, <1>10
    <2>6. Encoded(f) = o \o (lead \o (b \o (c \o d)))
        BY <1>7, <1>10, <2>3, <2>4, Zenon DEF Regrouped
    <2> QED
        BY <1>2, <1>6, <2>2, <2>5, <2>6 DEF lead, o, b, w
<1>11. CASE f.form # "hex"
    <2>1. Regrouped(Nat, o, lead, z)
        BY <1>2, <1>3, Regroup, Zenon
    <2>2. Encoded(f) = o \o (lead \o z)
        BY <1>8, <1>11, <2>1, Zenon DEF Regrouped
    <2> QED
        BY <1>2, <1>6, <1>9, <1>11, <2>2 DEF lead, o, b, w
<1> QED
    BY <1>10, <1>11

\* A subpacket: its data, and the end with the check
LEMMA SubpacketParts ==
    ASSUME NEW f \in Frames, f.form = "sub"
    PROVE  LET tail == <<ZDLE, f.ender>> \o Zdle(Sum(f), f.is32)
           IN  /\ tail \in Seq(Nat) /\ Zdle(f.data, f.is32) \in Seq(Nat)
               /\ Zdle(Sum(f), f.is32) \in Seq(Nat)
               /\ Encoded(f) = Zdle(f.data, f.is32) \o tail
<1> DEFINE a == Zdle(f.data, f.is32)
           b == <<ZDLE, f.ender>>
           c == Zdle(Sum(f), f.is32)
<1>1. f.ender \in Byte
    BY SumFacts
<1>2. b \in Seq(Nat)
    BY <1>1 DEF ZDLE, Byte
<1>3. a \in Seq(Nat) /\ c \in Seq(Nat)
    BY FrameParts, SumFacts, ZdleFirst
<1>4. Encoded(f) = (a \o b) \o c
    BY DEF Encoded, Subpacket, Sum
<1> HIDE DEF a, b, c
<1>5. Regrouped(Nat, a, b, c)
    BY <1>2, <1>3, Regroup, Zenon
<1> QED
    BY <1>3, <1>4, <1>5 DEF Regrouped, a, b, c

\* An encoded frame is bytes, one at least.
LEMMA EncodedTyped ==
    ASSUME NEW f \in Frames
    PROVE  Encoded(f) \in Seq(Nat) /\ Encoded(f) # <<>>
<1>1. Tame(Encoded(f)) /\ Encoded(f) # <<>>
    <2>1. CASE f.form = "sub"
        <3>1. Encoded(f) = Subpacket(f.data, f.ender, f.is32)
            BY <2>1 DEF Encoded
        <3> QED
            BY <2>1, <3>1, FrameParts, FramesTame
    <2>2. CASE f.form # "sub"
        <3>1. Encoded(f) = Header(f.type, f.flag, f.form)
            BY <2>2 DEF Encoded
        <3> QED
            BY <2>2, <3>1, FrameParts, FramesTame
    <2> QED
        BY <2>1, <2>2
<1> QED
    BY <1>1 DEF Tame

\* Each item is the bytes of one frame.
LEMMA ItemsTyped ==
    ASSUME NEW s \in Seq(Frames), NEW k \in 0 .. Len(s)
    PROVE  /\ Items(s, k) \in Seq(Seq(Nat)) /\ Len(Items(s, k)) = Len(s) - k
           /\ \A i \in 1 .. Len(s) - k : Items(s, k)[i] = Encoded(s[k + i])
<1> DEFINE n == Len(s) - k
           q == Items(s, k)
<1>1. n \in Nat /\ \A i \in 1 .. n : s[k + i] \in Frames
    OBVIOUS
<1>2. \A i \in 1 .. n : q[i] = Encoded(s[k + i])
    BY DEF Items
<1>3. q = [i \in 1 .. n |-> q[i]]
    BY DEF Items
<1> HIDE DEF q, n
<1>4. \A i \in 1 .. n : q[i] \in Seq(Nat)
    BY <1>1, <1>2, EncodedTyped
<1>5. q \in [1 .. n -> Seq(Nat)]
    BY <1>3, <1>4
<1>6. q \in Seq(Seq(Nat)) /\ Len(q) = n
    BY <1>1, <1>5
<1> QED
    BY <1>2, <1>6 DEF q, n

\* The next frame comes first, and nothing behind the last.
LEMMA LaterFirst ==
    ASSUME NEW s \in Seq(Frames), NEW k \in 0 .. Len(s)
    PROVE  /\ Later(s, k) \in Seq(Nat)
           /\ k = Len(s) => Later(s, k) = <<>>
           /\ k < Len(s) =>
                /\ Later(s, k) = Encoded(s[k + 1]) \o Later(s, k + 1)
                /\ Later(s, k) # <<>> /\ Later(s, k + 1) \in Seq(Nat)
<1> DEFINE n == Len(s)
           q == Items(s, k)
<1>1. /\ q \in Seq(Seq(Nat)) /\ Len(q) = n - k
      /\ \A i \in 1 .. n - k : q[i] = Encoded(s[k + i])
    BY ItemsTyped
<1>2. n \in Nat /\ k \in 0 .. n /\ Later(s, k) = FlattenSeq(q)
    BY DEF Later
<1>3. FlattenSeq(q) \in Seq(Nat)
    <2> HIDE DEF q
    <2> QED
        BY <1>1, FlattenedBoth
<1>4. CASE k = n
    <2>1. q = <<>>
        <3> HIDE DEF q, n
        <3> QED
            BY <1>1, <1>2, <1>4
    <2> QED
        BY <1>2, <1>3, <1>4, <2>1, FlattenedNone
<1>5. CASE k < n
    <2> DEFINE r == Items(s, k + 1)
               t == Tail(q)
               e == Encoded(s[k + 1])
    <2>1. k + 1 \in 0 .. n /\ s[k + 1] \in Frames
        BY <1>2, <1>5
    <2>2. /\ r \in Seq(Seq(Nat)) /\ Len(r) = n - (k + 1)
          /\ \A i \in 1 .. n - (k + 1) : r[i] = Encoded(s[(k + 1) + i])
        BY <2>1, ItemsTyped
    <2>3. e \in Seq(Nat) /\ e # <<>>
        BY <2>1, EncodedTyped
    <2>4. Later(s, k + 1) = FlattenSeq(r)
        BY DEF Later
    <2> HIDE DEF q, n, r
    <2>5. q # <<>>
        BY <1>1, <1>2, <1>5
    <2>6. /\ t \in Seq(Seq(Nat)) /\ Len(t) = n - (k + 1) /\ Head(q) = q[1]
          /\ \A i \in 1 .. n - (k + 1) : t[i] = q[i + 1]
        BY <1>1, <1>2, <1>5, <2>5
    <2> HIDE DEF t
    <2>7. Head(q) = e
        BY <1>1, <1>2, <1>5, <2>6
    <2>8. t = r
        <3>1. ASSUME NEW i \in 1 .. n - (k + 1) PROVE t[i] = r[i]
            <4>1. i + 1 \in 1 .. n - k /\ k + (i + 1) = (k + 1) + i
                BY <1>2, <1>5
            <4> HIDE DEF e
            <4> QED
                BY <1>1, <2>2, <2>6, <4>1
        <3> QED
            BY <2>2, <2>6, <3>1, SeqEqual
    <2>9. /\ FlattenSeq(q) = Head(q) \o FlattenSeq(t) /\ FlattenSeq(t) \in Seq(Nat)
        BY <1>1, <2>5, FlattenedFirst DEF t
    <2> HIDE DEF e
    <2>10. FlattenSeq(q) = e \o FlattenSeq(r) /\ FlattenSeq(r) \in Seq(Nat)
        BY <2>7, <2>8, <2>9
    <2>11. BothFrom(Nat, e, FlattenSeq(r))
        BY <2>3, <2>10, FirstOfBoth, Zenon
    <2>12. FlattenSeq(q) # <<>>
        BY <2>10, <2>11, Zenon DEF BothFrom
    <2>13. k # n
        BY <1>2, <1>5
    <2> QED
        BY <1>2, <1>3, <2>4, <2>10, <2>12, <2>13 DEF e, n
<1>6. k = n \/ k < n
    OBVIOUS
<1> QED
    BY <1>4, <1>5, <1>6, Zenon

\* A frame that is written comes behind the others.
LEMMA LaterWrite ==
    ASSUME NEW s \in Seq(Frames), NEW k \in 0 .. Len(s), NEW f \in Frames
    PROVE  Later(Append(s, f), k) = Later(s, k) \o Encoded(f)
<1> DEFINE n == Len(s)
           s1 == Append(s, f)
           q == Items(s, k)
           r == Items(s1, k)
           e == Encoded(f)
           o == <<e>>
           p == q \o o
<1>1. /\ q \in Seq(Seq(Nat)) /\ Len(q) = n - k
      /\ \A i \in 1 .. n - k : q[i] = Encoded(s[k + i])
    BY ItemsTyped
<1>2. /\ s1 \in Seq(Frames) /\ Len(s1) = n + 1 /\ n \in Nat /\ k \in 0 .. n
      /\ k \in 0 .. Len(s1) /\ s1[n + 1] = f
      /\ \A i \in 1 .. n : s1[i] = s[i]
    OBVIOUS
<1>3. e \in Seq(Nat)
    BY EncodedTyped
<1>4. o \in Seq(Seq(Nat)) /\ Len(o) = 1 /\ o[1] = e
    <2> HIDE DEF e
    <2> QED
        BY <1>3
<1> HIDE DEF s1, n
<1>5. /\ r \in Seq(Seq(Nat)) /\ Len(r) = (n + 1) - k
      /\ \A i \in 1 .. (n + 1) - k : r[i] = Encoded(s1[k + i])
    BY <1>2, ItemsTyped
<1> HIDE DEF q, r, o
<1>6. FlattenSeq(o) = e
    <2> HIDE DEF e
    <2> QED
        BY <1>3, FlattenedOne DEF o
<1>7. Places(Seq(Nat), q, o)
    <2> DEFINE T == Seq(Nat)
    <2>1. q \in Seq(T) /\ o \in Seq(T)
        BY <1>1, <1>4
    <2> HIDE DEF T
    <2>2. Places(T, q, o)
        BY <2>1, ConcatPlaces, Zenon
    <2> QED
        BY <2>2 DEF T
<1>8. /\ p \in Seq(Seq(Nat)) /\ Len(p) = (n - k) + 1
      /\ \A i \in 1 .. n - k : p[i] = q[i]
      /\ p[(n - k) + 1] = e
    <2> HIDE DEF e, p
    <2>1. /\ p \in Seq(Seq(Nat)) /\ Len(p) = Len(q) + Len(o)
          /\ \A i \in 1 .. Len(q) : p[i] = q[i]
          /\ \A i \in 1 .. Len(o) : p[Len(q) + i] = o[i]
        BY <1>7, Zenon DEF Places, p
    <2> QED
        BY <1>1, <1>2, <1>4, <2>1
<1> HIDE DEF p, e
<1>9. ASSUME NEW i \in 1 .. (n + 1) - k PROVE p[i] = r[i]
    <2>1. CASE i <= n - k
        <3>1. i \in 1 .. n - k /\ k + i \in 1 .. n
            BY <1>2, <2>1
        <3>2. s1[k + i] = s[k + i]
            BY <1>2, <3>1
        <3> QED
            BY <1>1, <1>5, <1>8, <3>1, <3>2
    <2>2. CASE i > n - k
        <3>1. i = (n - k) + 1 /\ k + i = n + 1
            BY <1>2, <2>2
        <3>2. r[i] = Encoded(f)
            BY <1>2, <1>5, <3>1
        <3> QED
            BY <1>8, <3>1, <3>2 DEF e
    <2> QED
        BY <1>2, <2>1, <2>2
<1>10. p = r
    <2>1. Len(p) = Len(r) /\ Len(p) = (n + 1) - k
        BY <1>2, <1>5, <1>8
    <2> QED
        BY <1>5, <1>8, <1>9, <2>1, SeqEqual
<1>11. FlattenSeq(q \o o) = FlattenSeq(q) \o FlattenSeq(o)
    BY <1>1, <1>4, FlattenedBoth
<1> QED
    BY <1>6, <1>10, <1>11 DEF Later, p, q, r, e, s1

\* The next byte of what is left
Taken(todo, esc, is32) ==
    LET b == Head(Left(todo, esc, is32))
        t == Tail(Left(todo, esc, is32))
    IN  /\ Left(todo, esc, is32) \in Seq(Nat) /\ Left(todo, esc, is32) # <<>>
        /\ ~ esc /\ b = ZDLE =>
             t = Left(todo, TRUE, is32) /\ Len(EscapeOf(Head(todo), is32)) = 2
        /\ esc \/ b # ZDLE =>
             /\ (IF esc THEN Unescape(b) ELSE b) = Head(todo)
             /\ ~ (esc /\ b \in Enders)
             /\ t = Zdle(Tail(todo), is32)

\* It is unescaped to the byte it stands for.
LEMMA LeftTaken ==
    \A todo \in Seq(Byte) : \A esc \in BOOLEAN : \A is32 :
        todo # <<>> /\ (esc => Len(EscapeOf(Head(todo), is32)) = 2) => Taken(todo, esc, is32)
<1> SUFFICES ASSUME NEW todo \in Seq(Byte), NEW esc \in BOOLEAN, NEW is32, todo # <<>>,
                    esc => Len(EscapeOf(Head(todo), is32)) = 2
             PROVE  Taken(todo, esc, is32)
    BY Zenon
<1> DEFINE h == Head(todo)
           u == Tail(todo)
           e == EscapeOf(h, is32)
           z == Zdle(u, is32)
<1>1. h \in Byte /\ u \in Seq(Byte)
    OBVIOUS
<1> HIDE DEF h, u
<1>2. z \in Seq(Nat)
    BY <1>1, ZdleFirst
<1>3. OneOrTwo(e, h)
    BY <1>1, EscapeFacts, Zenon
<1> HIDE DEF e, z
<1>4. Left(todo, esc, is32) = (IF esc THEN Tail(e) ELSE e) \o z
    BY DEF Left, e, z, h, u
<1>5. Left(todo, TRUE, is32) = Tail(e) \o z
    BY DEF Left, e, z, h, u
<1>6. esc => Len(e) = 2
    BY DEF e, h
<1>7. CASE e = <<h>> /\ h # ZDLE
    <2>1. ~ esc
        BY <1>6, <1>7
    <2>2. e \in Seq(Nat) /\ e # <<>> /\ Head(e) = h /\ Tail(e) = <<>>
        BY <1>1, <1>7 DEF Byte
    <2>3. BothFrom(Nat, e, z)
        BY <1>2, <2>2, FirstOfBoth, Zenon
    <2>4. <<>> \o z = z
        BY <1>2
    <2> DEFINE l == Left(todo, esc, is32)
    <2>5. l \in Seq(Nat) /\ l # <<>> /\ Head(l) = h /\ Tail(l) = z
        BY <1>4, <2>1, <2>2, <2>3, <2>4, Zenon DEF BothFrom
    <2> HIDE DEF l
    <2>6. (IF esc THEN Unescape(Head(l)) ELSE Head(l)) = h /\ Head(l) # ZDLE
        BY <1>7, <2>1, <2>5
    <2> QED
        BY <2>1, <2>5, <2>6, Zenon DEF l, h, u, z, Taken
<1>8. ASSUME NEW c \in Nat \ Enders, e = <<ZDLE, c>>, Unescape(c) = h
      PROVE  Taken(todo, esc, is32)
    <2>1. /\ e \in Seq(Nat) /\ e # <<>> /\ Head(e) = ZDLE /\ Tail(e) = <<c>> /\ Len(e) = 2
          /\ <<c>> \in Seq(Nat) /\ <<c>> # <<>> /\ Head(<<c>>) = c /\ Tail(<<c>>) = <<>>
        BY <1>8 DEF ZDLE
    <2>2. BothFrom(Nat, e, z) /\ BothFrom(Nat, <<c>>, z)
        BY <1>2, <2>1, FirstOfBoth, Zenon
    <2>3. <<>> \o z = z
        BY <1>2
    <2> DEFINE l == Left(todo, esc, is32)
    <2>4. CASE esc
        <3>1. l \in Seq(Nat) /\ l # <<>> /\ Head(l) = c /\ Tail(l) = z
            BY <1>4, <2>1, <2>2, <2>3, <2>4, Zenon DEF BothFrom
        <3> HIDE DEF l
        <3>2. (IF esc THEN Unescape(Head(l)) ELSE Head(l)) = h /\ Head(l) \notin Enders
            BY <1>8, <2>4, <3>1
        <3> QED
            BY <2>4, <3>1, <3>2, Zenon DEF l, h, u, z, Taken
    <2>5. CASE ~ esc
        <3>1. l \in Seq(Nat) /\ l # <<>> /\ Head(l) = ZDLE /\ Tail(l) = Tail(e) \o z
            BY <1>4, <2>1, <2>2, <2>5, Zenon DEF BothFrom
        <3> HIDE DEF l
        <3>2. Tail(l) = Left(todo, TRUE, is32) /\ Len(EscapeOf(Head(todo), is32)) = 2
            BY <1>5, <2>1, <3>1 DEF e, h
        <3> QED
            BY <2>5, <3>1, <3>2, Zenon DEF l, Taken
    <2> QED
        BY <2>4, <2>5
<1> QED
    BY <1>3, <1>7, <1>8 DEF OneOrTwo

\* Bytes not yet begun are left whole.
LEMMA WholeLeft ==
    \A t \in Seq(Byte) : \A is32 : t # <<>> => Zdle(t, is32) = Left(t, FALSE, is32)
    BY ZdleFirst DEF Left

-----------------------------------------------------------------------------
(* Frames: one read *)

\* What a byte leads to in the search for a header
Found(place, b) == {h \in Hunt : h[1] = place /\ h[2] = b}

LedTo(found) == IF found = {} THEN "hunt" ELSE (CHOOSE h \in found : TRUE)[3]

Leads(place, b, q) == LedTo(Found(place, b)) = q

\* What leads to a header leads the receiver there.
LEMMA HuntLeads ==
    /\ \A b : b # ZPAD => Leads("hunt", b, "hunt")
    /\ Leads("hunt", ZPAD, "pad")
    /\ Leads("pad", ZPAD, "pad2") /\ Leads("pad", ZDLE, "format")
    /\ Leads("pad2", ZDLE, "format")
    /\ Leads("format", ZHEX, "hex")
    /\ Leads("format", ZBIN, "bin") /\ Leads("format", ZBIN32, "bin")
<1>1. ASSUME NEW p, NEW b, NEW q, <<p, b, q>> \in Hunt,
             \A h \in Hunt : h[1] = p /\ h[2] = b => h[3] = q
      PROVE  Leads(p, b, q)
    <2> DEFINE found == Found(p, b)
               c == CHOOSE h \in found : TRUE
    <2>1. <<p, b, q>> \in found
        BY <1>1 DEF Found
    <2>2. c \in found
        BY <2>1
    <2>3. c[3] = q /\ found # {}
        BY <1>1, <2>1, <2>2 DEF Found
    <2> HIDE DEF c
    <2> QED
        BY <2>3 DEF Leads, LedTo, c
<1>2. ASSUME NEW b, b # ZPAD PROVE Leads("hunt", b, "hunt")
    <2>1. Found("hunt", b) = {}
        BY <1>2 DEF Hunt, Found
    <2> QED
        BY <2>1 DEF Leads, LedTo
<1>3. /\ ZPAD = 42 /\ ZDLE = 24 /\ ZHEX = 66 /\ ZBIN = 65 /\ ZBIN32 = 67
    BY DEF ZPAD, ZDLE, ZHEX, ZBIN, ZBIN32
<1>4. /\ \A h \in Hunt : h[1] = "hunt" /\ h[2] = ZPAD => h[3] = "pad"
      /\ \A h \in Hunt : h[1] = "pad" /\ h[2] = ZPAD => h[3] = "pad2"
      /\ \A h \in Hunt : h[1] = "pad" /\ h[2] = ZDLE => h[3] = "format"
      /\ \A h \in Hunt : h[1] = "pad2" /\ h[2] = ZDLE => h[3] = "format"
      /\ \A h \in Hunt : h[1] = "format" /\ h[2] = ZHEX => h[3] = "hex"
      /\ \A h \in Hunt : h[1] = "format" /\ h[2] = ZBIN => h[3] = "bin"
      /\ \A h \in Hunt : h[1] = "format" /\ h[2] = ZBIN32 => h[3] = "bin"
    BY <1>3 DEF Hunt
<1>5. /\ <<"hunt", ZPAD, "pad">> \in Hunt /\ <<"pad", ZPAD, "pad2">> \in Hunt
      /\ <<"pad", ZDLE, "format">> \in Hunt /\ <<"pad2", ZDLE, "format">> \in Hunt
      /\ <<"format", ZHEX, "hex">> \in Hunt /\ <<"format", ZBIN, "bin">> \in Hunt
      /\ <<"format", ZBIN32, "bin">> \in Hunt
    BY Zenon DEF Hunt
<1> QED
    BY <1>1, <1>2, <1>4, <1>5

\* The byte that is read leads from this place to q.
LEMMA HuntGoes ==
    ASSUME HuntByte, NEW q, Leads(at, Head(input), q)
    PROVE  /\ at' = q /\ bytes' = <<>> /\ escaped' = FALSE /\ got' = got
           /\ wide' = IF at = "format" THEN Head(input) = ZBIN32 ELSE wide
           /\ input' = Tail(input)
<1> DEFINE place == LedTo(Found(at, Head(input)))
<1>1. GoTo(place)
    BY Zenon DEF HuntByte, LedTo, Found
<1>2. place = q
    BY Zenon DEF Leads
<1> HIDE DEF place
<1>3. at' = q /\ bytes' = <<>> /\ escaped' = FALSE
    BY <1>1, <1>2, Zenon DEF GoTo
<1>4. /\ got' = got /\ wide' = IF at = "format" THEN Head(input) = ZBIN32 ELSE wide
      /\ Reads
    BY Zenon DEF HuntByte
<1> QED
    BY <1>3, <1>4, Zenon DEF Reads, ReadByte

\* The receiver goes on inside frame f; it has taken f; or f does not fit.
GoesThrough(f, more) ==
    /\ got' = got
    /\ \E r \in Seq(Nat) : input' = r \o more /\ Inside(f, r)'

Takes(f, more) ==
    /\ got' = Append(got, Known(f))
    /\ GoesOn(f) => /\ at' = "sub" /\ bytes' = <<>> /\ escaped' = FALSE
                    /\ wide' = Wide(f) /\ input' = more
    /\ ~ GoesOn(f) =>
          /\ at' = "hunt"
          /\ \E junk \in Seq(Nat) :
                (\A i \in 1 .. Len(junk) : junk[i] # ZPAD) /\ input' = junk \o more

Overflows(f) == at' = "failed" /\ f.form = "sub" /\ Len(f.data) > MaxSub

OnWay(f, more) == Overflows(f) \/ GoesThrough(f, more) \/ Takes(f, more)

\* A byte of rest is the next one.
Following(rest, more) ==
    /\ Head(input) = Head(rest) /\ Tail(input) = Tail(rest) \o more
    /\ Tail(rest) \in Seq(Nat) /\ input # <<>>

\* The next byte of the input is that of what comes first.
LEMMA NextOf ==
    \A rest, more \in Seq(Nat) :
        rest # <<>> /\ input = rest \o more => Following(rest, more)
<1> SUFFICES ASSUME NEW rest \in Seq(Nat), NEW more \in Seq(Nat), rest # <<>>,
                    input = rest \o more
             PROVE  Following(rest, more)
    BY Zenon
<1>1. BothFrom(Nat, rest, more)
    BY FirstOfBoth, Zenon
<1>2. Tail(rest) \in Seq(Nat)
    OBVIOUS
<1> QED
    BY <1>1, <1>2, Zenon DEF BothFrom, Following

\* A byte in front of a header's words is read.
LEMMA LeadRead ==
    ASSUME HuntByte, NEW f \in Frames, NEW more \in Seq(Nat), NEW rest,
           at # "hunt", Inside(f, rest), input = rest \o more
    PROVE  GoesThrough(f, more)
<1>1. /\ at \in {"pad", "pad2", "format"}
      /\ at # "hex" /\ at # "bin" /\ at # "sub" /\ at # "check"
    BY DEF HuntByte, Hunting
<1> DEFINE m == Mark(f)
           w == Words(f)
           c == Body(f)
<1>2. InLead(f, rest) /\ f.form # "sub"
    BY <1>1 DEF Inside, InLead, InHex, InBin, InText, InEnd, InCheck
<1>3. /\ c \in Seq(Nat) /\ LineEnd(f) \in Seq(Nat) /\ Hex(w) \in Seq(Nat)
    BY <1>2, HeaderParts
<1>4. w \in Seq(Byte) /\ w # <<>>
    BY <1>2, WordsFacts
<1>5. ZPAD \in Nat /\ ZDLE \in Nat /\ ZHEX \in Nat /\ m \in Nat
    BY DEF ZPAD, ZDLE, ZHEX, ZBIN, ZBIN32, Mark
<1>6. f.form = "hex" => m = ZHEX
    BY DEF Mark
<1>7. c = IF f.form = "hex" THEN Hex(w) \o LineEnd(f) ELSE Zdle(w, Wide(f))
    BY DEF Body
<1> HIDE DEF m, c
<1> DEFINE a == <<ZPAD, ZDLE, m>>
           b == <<ZDLE, m>>
           d == <<m>>
<1>8. /\ a \in Seq(Nat) /\ a # <<>> /\ Head(a) = ZPAD /\ Tail(a) = b
      /\ b \in Seq(Nat) /\ b # <<>> /\ Head(b) = ZDLE /\ Tail(b) = d
      /\ d \in Seq(Nat) /\ d # <<>> /\ Head(d) = m /\ Tail(d) = <<>>
    BY <1>5
<1> HIDE DEF a, b, d
<1>9. /\ a \o c \in Seq(Nat) /\ a \o c # <<>> /\ Head(a \o c) = ZPAD /\ Tail(a \o c) = b \o c
      /\ b \o c \in Seq(Nat) /\ b \o c # <<>> /\ Head(b \o c) = ZDLE /\ Tail(b \o c) = d \o c
      /\ d \o c \in Seq(Nat) /\ d \o c # <<>> /\ Head(d \o c) = m
    <2>1. BothFrom(Nat, a, c) /\ BothFrom(Nat, b, c) /\ BothFrom(Nat, d, c)
        BY <1>3, <1>8, FirstOfBoth, Zenon
    <2> QED
        BY <1>8, <2>1, Zenon DEF BothFrom
<1>10. Tail(d \o c) = c
    <2>1. BothFrom(Nat, d, c)
        BY <1>3, <1>8, FirstOfBoth, Zenon
    <2>2. <<>> \o c = c
        BY <1>3
    <2> QED
        BY <1>8, <2>1, <2>2, Zenon DEF BothFrom
<1>11. CASE at = "pad" /\ f.form = "hex"
    <2>1. rest = a \o c
        BY <1>2, <1>6, <1>11 DEF InLead, a, c
    <2>2. Head(input) = ZPAD /\ Tail(input) = (b \o c) \o more
        <3>1. Following(a \o c, more)
            BY <1>9, <2>1, NextOf, Zenon
        <3> QED
            BY <1>9, <3>1, Zenon DEF Following
    <2>3. at' = "pad2" /\ got' = got /\ input' = (b \o c) \o more
        BY <1>11, <2>2, HuntLeads, HuntGoes
    <2>4. Inside(f, b \o c)'
        BY <1>11, <2>3 DEF Inside, InLead, b, c, m
    <2> QED
        BY <1>9, <2>3, <2>4 DEF GoesThrough
<1>12. CASE (at = "pad" /\ f.form # "hex") \/ at = "pad2"
    <2>1. rest = b \o c
        BY <1>2, <1>12 DEF InLead, b, c, m
    <2>2. Head(input) = ZDLE /\ Tail(input) = (d \o c) \o more
        <3>1. Following(b \o c, more)
            BY <1>9, <2>1, NextOf, Zenon
        <3> QED
            BY <1>9, <3>1, Zenon DEF Following
    <2>3. at' = "format" /\ got' = got /\ input' = (d \o c) \o more
        BY <1>12, <2>2, HuntLeads, HuntGoes
    <2>4. Inside(f, d \o c)'
        BY <1>2, <2>3 DEF Inside, InLead, d, c, m
    <2> QED
        BY <1>9, <2>3, <2>4 DEF GoesThrough
<1>13. CASE at = "format"
    <2>1. rest = d \o c
        BY <1>2, <1>13 DEF InLead, d, c, m
    <2>2. Head(input) = m /\ Tail(input) = c \o more
        BY <1>9, <1>10, <2>1, NextOf, Zenon DEF Following
    <2>3. CASE f.form = "hex"
        <3>1. /\ at' = "hex" /\ got' = got /\ input' = c \o more /\ bytes' = <<>>
            BY <1>6, <1>13, <2>2, <2>3, HuntLeads, HuntGoes
        <3>2. Hex(w) # <<>> /\ Hex(w) = <<>> \o Hex(w)
            <4>1. f.type \in Byte /\ f.flag \in Byte /\ Check(<<f.type, f.flag>>) \in Byte
                  /\ w = <<f.type, f.flag, Check(<<f.type, f.flag>>)>>
                BY <1>2, <2>3, FrameParts, WordsFacts
            <4> DEFINE x == Hex(w)
            <4>2. Len(x) = 6
                BY <4>1, HexFacts
            <4> HIDE DEF x, w
            <4>3. x \in Seq(Nat)
                BY <1>3 DEF x
            <4>4. x # <<>>
                <5>1. Len(x) # 0
                    BY <4>2
                <5> QED
                    BY <4>3, <5>1, EmptyIsShort, Zenon
            <4>5. x = <<>> \o x
                BY <4>3
            <4> QED
                BY <4>4, <4>5 DEF x
        <3>3. Inside(f, c)'
            <4>1. c = Hex(w) \o LineEnd(f) /\ bytes' \in Seq(Nat)
                BY <1>7, <2>3, <3>1
            <4>2. Hex(w) = bytes' \o Hex(w)
                BY <3>1, <3>2
            <4> HIDE DEF w
            <4>3. at' = "hex" /\ f.form = "hex"
                BY <2>3, <3>1
            <4> QED
                BY <1>3, <3>2, <4>1, <4>2, <4>3 DEF Inside, InHex, w
        <3> QED
            BY <1>3, <3>1, <3>3 DEF GoesThrough
    <2>4. CASE f.form # "hex"
        <3>1. f.form \in {"bin", "bin32"} /\ m = IF Wide(f) THEN ZBIN32 ELSE ZBIN
            BY <1>2, <2>4, FrameParts DEF m, Mark
        <3>2. /\ at' = "bin" /\ got' = got /\ input' = c \o more /\ bytes' = <<>>
              /\ escaped' = FALSE /\ wide' = (m = ZBIN32)
            <4>1. Leads(at, Head(input), "bin")
                BY <1>13, <2>2, <3>1, HuntLeads
            <4> QED
                BY <1>13, <2>2, <4>1, HuntGoes
        <3>3. wide' = Wide(f)
            BY <3>1, <3>2, FrameParts DEF ZBIN, ZBIN32
        <3>4. c = Left(w, escaped', wide')
            BY <1>4, <1>7, <2>4, <3>2, <3>3, WholeLeft
        <3>5. w = bytes' \o w
            <4> HIDE DEF w
            <4> QED
                BY <1>4, <3>2
        <3>6. HalfRead(w)'
            BY <3>2 DEF HalfRead
        <3>7. Inside(f, c)'
            <4> HIDE DEF w
            <4>1. bytes' \in Seq(Byte)
                BY <3>2
            <4> QED
                BY <1>4, <3>1, <3>2, <3>3, <3>4, <3>5, <3>6, <4>1 DEF Inside, InBin, w
        <3> QED
            BY <1>3, <3>2, <3>7 DEF GoesThrough
    <2> QED
        BY <2>3, <2>4
<1> QED
    BY <1>1, <1>11, <1>12, <1>13

\* A digit of a header is read.
LEMMA DigitRead ==
    ASSUME HexByte, NEW f \in Frames, NEW more \in Seq(Nat), NEW rest,
           Inside(f, rest), input = rest \o more, f.form = "hex" => f.type # ZDATA
    PROVE  OnWay(f, more)
<1>1. at = "hex"
    BY DEF HexByte
<1>2. InHex(f, rest) /\ f.form = "hex" /\ bytes \in Seq(Nat)
    BY <1>1 DEF Inside, InLead, InHex, InBin, InText, InEnd, InCheck
<1> DEFINE t == f.type
           g == f.flag
           c == Check(<<t, g>>)
           w == Hex(Words(f))
           l == LineEnd(f)
<1>3. PICK todo \in Seq(Nat) : todo # <<>> /\ w = bytes \o todo /\ rest = todo \o l
    BY <1>2, Zenon DEF InHex
<1>4. t \in Byte /\ g \in Byte /\ c \in Byte /\ Words(f) = <<t, g, c>>
    BY <1>2, FrameParts, WordsFacts
<1>5. /\ Len(w) = 6 /\ \A i \in 1 .. 6 : Nibble(w[i]) # -1
      /\ 16 * Nibble(w[1]) + Nibble(w[2]) = t
      /\ 16 * Nibble(w[3]) + Nibble(w[4]) = g
      /\ 16 * Nibble(w[5]) + Nibble(w[6]) = c
    BY <1>4, HexFacts
<1>6. l \in Seq(Nat)
    BY <1>2, HeaderParts
<1>7. \A i \in 1 .. Len(l) : l[i] # ZPAD
    <2>1. l = <<13, 10>> \/ l = <<13, 10, XON>>
        <3>1. 13 \in Nat /\ 10 \in Nat /\ XON \in Nat
            BY DEF XON
        <3>2. <<13, 10>> \o <<XON>> = <<13, 10, XON>>
            BY <3>1, Tuples, Zenon
        <3>3. <<13, 10>> \o <<>> = <<13, 10>>
            OBVIOUS
        <3> QED
            BY <3>2, <3>3 DEF LineEnd
    <2> HIDE DEF l
    <2>2. CASE l = <<13, 10>>
        BY <2>2 DEF ZPAD
    <2>3. CASE l = <<13, 10, XON>>
        <3>1. Len(l) = 3 /\ l[1] = 13 /\ l[2] = 10 /\ l[3] = 17
            BY <2>3 DEF XON
        <3>2. \A i \in 1 .. 3 : i \in {1, 2, 3}
            OBVIOUS
        <3> QED
            BY <3>1, <3>2 DEF ZPAD
    <2> QED
        BY <2>1, <2>2, <2>3
<1> DEFINE b == Head(todo)
           u == Tail(todo)
           s == Append(bytes, b)
<1>8. Moved(Nat, bytes, todo)
    BY <1>2, <1>3, FirstMoves, Zenon
<1>9. u \in Seq(Nat)
    BY <1>3
<1> HIDE DEF w, l, t, g, c, u
<1>10. /\ s \in Seq(Nat) /\ w = s \o u /\ (u = <<>> => w = s) /\ Len(w) = Len(s) + Len(u)
    BY <1>3, <1>8, Zenon DEF Moved, u
<1>11. todo \o l \in Seq(Nat) /\ todo \o l # <<>> /\ Head(input) = b
       /\ Tail(input) = (u \o l) \o more /\ u \o l \in Seq(Nat)
    <2>1. BothFrom(Nat, todo, l)
        BY <1>3, <1>6, FirstOfBoth, Zenon
    <2>2. /\ todo \o l \in Seq(Nat) /\ todo \o l # <<>>
          /\ Head(todo \o l) = b /\ Tail(todo \o l) = u \o l
        BY <2>1, Zenon DEF BothFrom, u
    <2>3. input = (todo \o l) \o more
        BY <1>3
    <2>4. Following(todo \o l, more)
        BY <2>2, <2>3, NextOf, Zenon
    <2>5. u \o l \in Seq(Nat)
        BY <1>6, <1>9
    <2> QED
        BY <2>2, <2>4, <2>5, Zenon DEF Following
<1>12. input' = (u \o l) \o more
    BY <1>11 DEF HexByte, Reads, ReadByte
<1> HIDE DEF s
<1>13. CASE Len(s) < 6
    <2>1. bytes' = s /\ at' = at /\ got' = got
        BY <1>11, <1>13 DEF HexByte, s
    <2>2. u # <<>>
        BY <1>5, <1>9, <1>10, <1>13
    <2>3. Inside(f, u \o l)'
        <3>1. at' = "hex" /\ bytes' \in Seq(Nat) /\ Hex(Words(f)) = bytes' \o u
              /\ u \o l = u \o LineEnd(f)
            BY <1>1, <1>10, <2>1 DEF w, l
        <3> QED
            BY <1>2, <1>9, <2>2, <3>1, Zenon DEF Inside, InHex
    <2>4. GoesThrough(f, more)
        BY <1>11, <1>12, <2>1, <2>3, Zenon DEF GoesThrough
    <2> QED
        BY <2>4 DEF OnWay
<1>14. CASE ~ (Len(s) < 6)
    <2>1. u = <<>> /\ w = s
        <3>1. Len(u) = 0
            BY <1>5, <1>9, <1>10, <1>14
        <3>2. u = <<>>
            BY <1>9, <3>1, EmptyIsShort, Zenon
        <3> QED
            BY <1>10, <3>2
    <2>2. HeaderIn(t, g, <<c>>, FALSE)
        <3> DEFINE value(i) == 16 * Nibble(s[2 * i - 1]) + Nibble(s[2 * i])
        <3>1. ~ (\E i \in 1 .. 6 : Nibble(s[i]) = -1)
            BY <1>5, <2>1
        <3>2. HeaderIn(value(1), value(2), <<value(3)>>, FALSE)
            BY <1>11, <1>14, <3>1, Zenon DEF HexByte, s
        <3>3. value(1) = t /\ value(2) = g /\ value(3) = c
            <4>1. 2 * 1 - 1 = 1 /\ 2 * 1 = 2 /\ 2 * 2 - 1 = 3 /\ 2 * 2 = 4 /\ 2 * 3 - 1 = 5 /\ 2 * 3 = 6
                OBVIOUS
            <4> QED
                BY <1>5, <2>1, <4>1
        <3> HIDE DEF value
        <3> QED
            BY <3>2, <3>3
    <2>3. <<c>> = CheckOf(<<t, g>>, FALSE)
        BY DEF CheckOf, c
    <2>4. t # ZDATA
        BY <1>2 DEF t
    <2>5. got' = Append(got, [type |-> t, flag |-> g]) /\ at' = "hunt"
        BY <2>2, <2>3, <2>4 DEF HeaderIn, GoTo
    <2>6. Known(f) = [type |-> t, flag |-> g] /\ ~ GoesOn(f)
        BY <1>2, <2>4 DEF Known, GoesOn, t, g
    <2>7. input' = l \o more
        <3>1. <<>> \o l = l
            BY <1>6
        <3> QED
            BY <1>12, <2>1, <3>1
    <2>8. Takes(f, more)
        BY <1>6, <1>7, <2>5, <2>6, <2>7 DEF Takes
    <2> QED
        BY <2>8 DEF OnWay
<1> QED
    BY <1>13, <1>14

\* What the next byte v does that ends no subpacket
More(v) ==
    bytes' = Append(bytes, v) /\ escaped' = FALSE /\ UNCHANGED <<at, wide, packet, got>>

Plain(v) ==
    LET s == Append(bytes, v)
        n == Len(CheckOf(<<>>, wide))
    IN  /\ at = "bin" /\ Len(s) = 2 + n => HeaderIn(s[1], s[2], SubSeq(s, 3, 2 + n), wide)
        /\ at = "bin" /\ Len(s) # 2 + n => More(v)
        /\ at = "sub" => (Fail /\ Len(s) > MaxSub) \/ More(v)
        /\ at = "check" /\ Len(s) # n => More(v)
        /\ at = "check" /\ Len(s) = n /\ s = CheckOf(packet, wide) =>
             /\ got' = Append(got, [data |-> Front(packet), ender |-> Last(packet)])
             /\ GoTo(IF Last(packet) \in {ZCRCE, ZCRCW} THEN "hunt" ELSE "sub")
             /\ wide' = wide

\* A byte that ends no subpacket does what Plain says.
LEMMA DecodedPlain ==
    ASSUME NEW v, NEW special \in BOOLEAN, Decoded(v, special), ~ special, at \in Decoding
    PROVE  Plain(v)
<1> DEFINE s == Append(bytes, v)
           n == Len(CheckOf(<<>>, wide))
           h == HeaderIn(s[1], s[2], SubSeq(s, 3, 2 + n), wide)
<1>1. CASE at = "bin" /\ Len(s) = 2 + n
    <2>1. h
        BY <1>1 DEF Decoded
    <2> HIDE DEF h
    <2> QED
        BY <1>1, <2>1 DEF Plain, h
<1>2. CASE at = "bin" /\ Len(s) # 2 + n
    BY <1>2 DEF Decoded, Plain, More
<1>3. CASE at = "sub"
    BY <1>3 DEF Decoded, Plain, More
<1>4. CASE at = "check"
    BY <1>4 DEF Decoded, Plain, More
<1> QED
    BY <1>1, <1>2, <1>3, <1>4 DEF Decoding

\* The empty sequence is the one of length 0.
LEMMA ShortIsEmpty == \A T : \A s \in Seq(T) : s = <<>> <=> Len(s) = 0
    OBVIOUS

\* A byte of what was escaped is read, and tl behind it.
HalfReads(todo, tl) ==
    /\ escaped' = TRUE /\ UNCHANGED <<at, wide, bytes, packet, got>>
    /\ input' = Left(todo, TRUE, wide) \o tl /\ Left(todo, TRUE, wide) \in Seq(Nat)
    /\ HalfRead(todo)'

WholeReads(todo, tl) ==
    /\ Plain(Head(todo))
    /\ input' = Zdle(Tail(todo), wide) \o tl

\* A byte of escaped ones is read.
LEMMA LeftRead ==
    ASSUME ZdleRead \/ DataByte, NEW todo \in Seq(Byte), NEW tl \in Seq(Nat), todo # <<>>,
           HalfRead(todo), input = Left(todo, escaped, wide) \o tl
    PROVE  HalfReads(todo, tl) \/ WholeReads(todo, tl)
<1> DEFINE l == Left(todo, escaped, wide)
           b == Head(input)
<1>1. Taken(todo, escaped, wide)
    BY LeftTaken, Zenon DEF HalfRead
<1>2. l \in Seq(Nat) /\ l # <<>>
    BY <1>1, Zenon DEF Taken
<1> HIDE DEF l
<1>3. Head(input) = Head(l) /\ Tail(input) = Tail(l) \o tl /\ Tail(l) \in Seq(Nat)
    <2>1. input = l \o tl
        BY DEF l
    <2>2. Following(l, tl)
        BY <1>2, <2>1, NextOf, Zenon
    <2> QED
        BY <2>2, Zenon DEF Following
<1>4. input' = Tail(l) \o tl
    BY <1>3 DEF ZdleRead, DataByte, Reads, ReadByte
<1>5. CASE ZdleRead
    <2>1. ~ escaped /\ b = ZDLE /\ escaped' = TRUE /\ UNCHANGED <<at, wide, bytes, packet, got>>
        BY <1>5 DEF ZdleRead
    <2>2. Tail(l) = Left(todo, TRUE, wide) /\ Len(EscapeOf(Head(todo), wide)) = 2
        BY <1>1, <1>3, <2>1, Zenon DEF Taken, l
    <2>3. HalfRead(todo)'
        BY <2>1, <2>2 DEF HalfRead
    <2>4. HalfReads(todo, tl)
        BY <1>3, <1>4, <2>1, <2>2, <2>3, Zenon DEF HalfReads
    <2> QED
        BY <2>4
<1>6. CASE DataByte
    <2> DEFINE special == escaped /\ b \in Enders
               v == IF escaped THEN Unescape(b) ELSE b
    <2>1. (escaped \/ b # ZDLE) /\ Decoded(v, special) /\ at \in Decoding
        BY <1>6, Zenon DEF DataByte
    <2>2. v = Head(todo) /\ ~ special /\ Tail(l) = Zdle(Tail(todo), wide)
        BY <1>1, <1>3, <2>1, Zenon DEF Taken, l
    <2>3. special \in BOOLEAN
        OBVIOUS
    <2> HIDE DEF special, v
    <2>4. Plain(v)
        BY <2>1, <2>2, <2>3, DecodedPlain
    <2>5. Plain(Head(todo))
        BY <2>2, <2>4, Zenon
    <2>6. WholeReads(todo, tl)
        BY <1>4, <2>2, <2>5, Zenon DEF WholeReads
    <2> QED
        BY <2>6
<1> QED
    BY <1>5, <1>6

\* A word of a binary header is read.
LEMMA WordRead ==
    ASSUME ZdleRead \/ DataByte, NEW f \in Frames, NEW more \in Seq(Nat), NEW rest,
           at = "bin", Inside(f, rest), input = rest \o more, f.form # "hex" => f.type = ZDATA
    PROVE  OnWay(f, more)
<1> DEFINE w == Words(f)
           n == Len(CheckOf(<<>>, wide))
<1>1. /\ InBin(f, rest)
      /\ f.form \in {"bin", "bin32"} /\ wide = Wide(f) /\ bytes \in Seq(Byte)
    BY DEF Inside, InLead, InHex, InBin, InText, InEnd, InCheck
<1>2. PICK todo \in Seq(Byte) : /\ todo # <<>> /\ w = bytes \o todo
                                /\ HalfRead(todo) /\ rest = Left(todo, escaped, wide)
    BY <1>1, Zenon DEF InBin
<1>3. /\ w # <<>> /\ Len(w) = 2 + n /\ w[1] = f.type /\ w[2] = f.flag
      /\ SubSeq(w, 3, 2 + n) = CheckOf(<<f.type, f.flag>>, wide)
    BY <1>1, WordsFacts
<1> DEFINE v == Head(todo)
           u == Tail(todo)
           s == Append(bytes, v)
<1>4. Moved(Byte, bytes, todo)
    BY <1>1, <1>2, FirstMoves, Zenon
<1>5. u \in Seq(Byte)
    BY <1>2
<1> HIDE DEF w, n, u
<1>6. /\ s \in Seq(Byte) /\ w = s \o u /\ (u = <<>> => w = s) /\ Len(w) = Len(s) + Len(u)
    BY <1>2, <1>4, Zenon DEF Moved, u
<1>7. HalfReads(todo, more) \/ WholeReads(todo, more)
    BY <1>2, LeftRead
<1>8. CASE HalfReads(todo, more)
    <2> PICK r : r = Left(todo, TRUE, wide)
        OBVIOUS
    <2>1. /\ escaped' = TRUE /\ at' = "bin" /\ wide' = wide /\ bytes' = bytes /\ got' = got
          /\ input' = r \o more /\ r \in Seq(Nat) /\ HalfRead(todo)'
        BY <1>8 DEF HalfReads
    <2>2. r = Left(todo, escaped', wide')
        BY <2>1
    <2>3. Inside(f, r)'
        <3>1. at' = "bin" /\ wide' = Wide(f) /\ bytes' \in Seq(Byte) /\ w = bytes' \o todo
            BY <1>1, <1>2, <2>1
        <3> QED
            BY <1>1, <1>2, <2>1, <2>2, <3>1, Zenon DEF Inside, InBin, w
    <2>4. GoesThrough(f, more)
        BY <2>1, <2>3, Zenon DEF GoesThrough
    <2> QED
        BY <2>4 DEF OnWay
<1>9. ASSUME WholeReads(todo, more), u # <<>>
      PROVE  OnWay(f, more)
    <2>1. Len(s) # 2 + n
        <3>1. Len(u) # 0
            BY <1>5, <1>9, ShortIsEmpty, Zenon
        <3> HIDE DEF s
        <3> QED
            BY <1>3, <1>5, <1>6, <3>1
    <2>2. More(v) /\ input' = Zdle(u, wide) \o more
        BY <1>9, <2>1 DEF WholeReads, Plain, n, u
    <2> PICK r : r = Left(u, FALSE, wide)
        OBVIOUS
    <2>3. Zdle(u, wide) = r /\ Zdle(u, wide) \in Seq(Nat)
        BY <1>5, <1>9, WholeLeft, ZdleFirst
    <2>4. /\ bytes' = s /\ escaped' = FALSE /\ at' = "bin" /\ wide' = wide /\ got' = got
        BY <2>2 DEF More
    <2>5. HalfRead(u)' /\ r = Left(u, escaped', wide')
        BY <2>4 DEF HalfRead
    <2> HIDE DEF s
    <2>6. Inside(f, r)'
        <3>1. at' = "bin" /\ wide' = Wide(f) /\ bytes' \in Seq(Byte) /\ w = bytes' \o u
            BY <1>1, <1>6, <2>4
        <3> QED
            BY <1>1, <1>5, <1>9, <2>5, <3>1, Zenon DEF Inside, InBin, w
    <2>7. GoesThrough(f, more)
        BY <2>2, <2>3, <2>4, <2>6, Zenon DEF GoesThrough
    <2> QED
        BY <2>7 DEF OnWay
<1>10. ASSUME WholeReads(todo, more), u = <<>>
       PROVE  OnWay(f, more)
    <2>1. w = s
        BY <1>6, <1>10
    <2>2. HeaderIn(s[1], s[2], SubSeq(s, 3, 2 + n), wide)
        <3>1. Len(s) = 2 + n
            BY <1>3, <2>1
        <3> QED
            BY <1>10, <3>1, Zenon DEF WholeReads, Plain, n
    <2> HIDE DEF s
    <2>3. HeaderIn(f.type, f.flag, CheckOf(<<f.type, f.flag>>, wide), wide)
        BY <1>3, <2>1, <2>2, Zenon
    <2>4. f.type = ZDATA /\ f.form # "sub"
        BY <1>1
    <2>5. /\ got' = Append(got, [type |-> f.type, flag |-> f.flag])
          /\ at' = "sub" /\ bytes' = <<>> /\ escaped' = FALSE /\ wide' = wide
        BY <2>3, <2>4 DEF HeaderIn, GoTo
    <2>6. Known(f) = [type |-> f.type, flag |-> f.flag] /\ GoesOn(f)
        BY <2>4 DEF Known, GoesOn
    <2>7. input' = more
        <3>1. Zdle(u, wide) = <<>>
            BY <1>5, <1>10, ZdleFirst
        <3>2. <<>> \o more = more
            OBVIOUS
        <3> QED
            BY <1>10, <3>1, <3>2, Zenon DEF WholeReads, u
    <2>8. Takes(f, more)
        BY <1>1, <2>5, <2>6, <2>7 DEF Takes
    <2> QED
        BY <2>8 DEF OnWay
<1> QED
    BY <1>7, <1>8, <1>9, <1>10

\* The end of a subpacket, from either place
LEMMA EndTyped ==
    ASSUME NEW f \in Frames, f.form = "sub"
    PROVE  LET z == Zdle(Sum(f), f.is32)
           IN  /\ z \in Seq(Nat) /\ f.ender \in Nat
               /\ End(f, FALSE) \in Seq(Nat) /\ End(f, FALSE) # <<>>
               /\ Head(End(f, FALSE)) = ZDLE /\ Tail(End(f, FALSE)) = End(f, TRUE)
               /\ End(f, TRUE) \in Seq(Nat) /\ End(f, TRUE) # <<>>
               /\ Head(End(f, TRUE)) = f.ender /\ Tail(End(f, TRUE)) = z
<1> DEFINE z == Zdle(Sum(f), f.is32)
           e == f.ender
<1>1. z \in Seq(Nat)
    BY SubpacketParts
<1>2. e \in Nat
    <2>1. f.ender \in Byte
        BY SumFacts
    <2>2. \A x \in Byte : x \in Nat
        BY DEF Byte
    <2> QED
        BY <2>1, <2>2, Zenon
<1>3. End(f, FALSE) = <<ZDLE, e>> \o z /\ End(f, TRUE) = <<e>> \o z
    BY DEF End
<1> HIDE DEF z, e
<1>4. /\ <<ZDLE, e>> \in Seq(Nat) /\ <<ZDLE, e>> # <<>>
      /\ Head(<<ZDLE, e>>) = ZDLE /\ Tail(<<ZDLE, e>>) = <<e>>
      /\ <<e>> \in Seq(Nat) /\ <<e>> # <<>> /\ Head(<<e>>) = e /\ Tail(<<e>>) = <<>>
    BY <1>2 DEF ZDLE
<1>5. BothFrom(Nat, <<ZDLE, e>>, z) /\ BothFrom(Nat, <<e>>, z)
    BY <1>1, <1>4, FirstOfBoth, Zenon
<1>6. <<>> \o z = z
    BY <1>1
<1> QED
    BY <1>1, <1>2, <1>3, <1>4, <1>5, <1>6, Zenon DEF BothFrom, z, e

\* A byte of a subpacket's data is read.
LEMMA TextRead ==
    ASSUME ZdleRead \/ DataByte, NEW f \in Frames, NEW more \in Seq(Nat), NEW rest,
           InText(f, rest), input = rest \o more
    PROVE  OnWay(f, more)
<1> DEFINE e == End(f, FALSE)
           d == f.data
           tl == e \o more
<1>1. at = "sub" /\ f.form = "sub" /\ wide = f.is32 /\ bytes \in Seq(Byte)
    BY DEF InText
<1>2. PICK todo \in Seq(Byte) : /\ todo # <<>> /\ d = bytes \o todo
                                /\ HalfRead(todo) /\ rest = Left(todo, escaped, wide) \o e
    BY Zenon DEF InText
<1>3. e \in Seq(Nat)
    BY <1>1, EndTyped
<1> DEFINE v == Head(todo)
           u == Tail(todo)
           s == Append(bytes, v)
<1>4. Moved(Byte, bytes, todo)
    BY <1>1, <1>2, FirstMoves, Zenon
<1>5. u \in Seq(Byte)
    BY <1>2
<1> HIDE DEF u, e, d
<1>6. /\ s \in Seq(Byte) /\ d = s \o u /\ (u = <<>> => d = s)
    BY <1>2, <1>4, Zenon DEF Moved, u
<1>7. tl \in Seq(Nat)
    BY <1>3
<1>8. ASSUME NEW l \in Seq(Nat) PROVE (l \o e) \o more = l \o tl /\ l \o e \in Seq(Nat)
    <2>1. Regrouped(Nat, l, e, more)
        BY <1>3, Regroup, Zenon
    <2> QED
        BY <2>1, Zenon DEF Regrouped
<1>9. input = Left(todo, escaped, wide) \o tl
    <2>1. Taken(todo, escaped, wide)
        BY <1>2, LeftTaken, Zenon DEF HalfRead
    <2>2. Left(todo, escaped, wide) \in Seq(Nat)
        BY <2>1, Zenon DEF Taken
    <2> QED
        BY <1>2, <1>8, <2>2, Zenon
<1> HIDE DEF tl
<1>10. HalfReads(todo, tl) \/ WholeReads(todo, tl)
    BY <1>2, <1>7, <1>9, LeftRead
<1>11. CASE HalfReads(todo, tl)
    <2> PICK r : r = Left(todo, TRUE, wide)
        OBVIOUS
    <2>1. /\ escaped' = TRUE /\ at' = "sub" /\ wide' = wide /\ bytes' = bytes /\ got' = got
          /\ input' = r \o tl /\ r \in Seq(Nat) /\ HalfRead(todo)'
        BY <1>1, <1>11 DEF HalfReads
    <2>2. r = Left(todo, escaped', wide')
        BY <2>1
    <2>3. Inside(f, r \o e)'
        <3>1. at' = "sub" /\ wide' = f.is32 /\ bytes' \in Seq(Byte) /\ d = bytes' \o todo
            BY <1>1, <1>2, <2>1
        <3> QED
            BY <1>1, <1>2, <2>1, <2>2, <3>1, Zenon DEF Inside, InText, d, e
    <2>4. GoesThrough(f, more)
        BY <1>8, <2>1, <2>3, Zenon DEF GoesThrough
    <2> QED
        BY <2>4 DEF OnWay
<1>12. ASSUME WholeReads(todo, tl), More(v), u # <<>>
       PROVE  OnWay(f, more)
    <2>1. input' = Zdle(u, wide) \o tl
        BY <1>12, Zenon DEF WholeReads, u
    <2> PICK r : r = Left(u, FALSE, wide)
        OBVIOUS
    <2>2. Zdle(u, wide) = r /\ Zdle(u, wide) \in Seq(Nat)
        BY <1>5, <1>12, WholeLeft, ZdleFirst
    <2>3. /\ bytes' = s /\ escaped' = FALSE /\ at' = "sub" /\ wide' = wide /\ got' = got
        BY <1>1, <1>12 DEF More
    <2>4. HalfRead(u)' /\ r = Left(u, escaped', wide')
        BY <2>3 DEF HalfRead
    <2> HIDE DEF s
    <2>5. Inside(f, r \o e)'
        <3>1. at' = "sub" /\ wide' = f.is32 /\ bytes' \in Seq(Byte) /\ d = bytes' \o u
            BY <1>1, <1>6, <2>3
        <3> QED
            BY <1>1, <1>5, <1>12, <2>4, <3>1, Zenon DEF Inside, InText, d, e
    <2>6. GoesThrough(f, more)
        BY <1>8, <2>1, <2>2, <2>3, <2>5, Zenon DEF GoesThrough
    <2> QED
        BY <2>6 DEF OnWay
<1>13. ASSUME WholeReads(todo, tl), More(v), u = <<>>
       PROVE  OnWay(f, more)
    <2>1. input' = e \o more
        <3>1. Zdle(u, wide) = <<>>
            BY <1>5, <1>13, ZdleFirst
        <3>2. <<>> \o tl = tl
            BY <1>7
        <3> QED
            BY <1>13, <3>1, <3>2, Zenon DEF WholeReads, u, tl
    <2>2. /\ bytes' = s /\ escaped' = FALSE /\ at' = "sub" /\ wide' = wide /\ got' = got
        BY <1>1, <1>13 DEF More
    <2> HIDE DEF s
    <2>3. Inside(f, e)'
        <3>1. at' = "sub" /\ wide' = f.is32 /\ d = bytes' /\ escaped' \in BOOLEAN
              /\ e = End(f, escaped')
            BY <1>1, <1>6, <1>13, <2>2 DEF e
        <3> QED
            BY <1>1, <3>1, Zenon DEF Inside, InEnd, d
    <2>4. GoesThrough(f, more)
        BY <1>3, <2>1, <2>2, <2>3, Zenon DEF GoesThrough
    <2> QED
        BY <2>4 DEF OnWay
<1>14. ASSUME WholeReads(todo, tl) PROVE (Fail /\ Len(s) > MaxSub) \/ More(v)
    BY <1>1, <1>14, Zenon DEF WholeReads, Plain
<1>15. ASSUME Fail, Len(s) > MaxSub PROVE OnWay(f, more)
    <2>1. at' = "failed"
        BY <1>15 DEF Fail, GoTo
    <2>2. Len(d) = Len(s) + Len(u) /\ Len(u) \in Nat /\ Len(s) \in Nat
        <3>1. Len(d) = Len(s) + Len(u)
            BY <1>2, <1>4, Zenon DEF Moved, u
        <3> HIDE DEF s
        <3> QED
            BY <1>5, <1>6, <3>1
    <2> HIDE DEF s
    <2>3. Len(d) > MaxSub
        BY <1>15, <2>2, FramesAssumption
    <2> QED
        BY <1>1, <2>1, <2>3, Zenon DEF OnWay, Overflows, d
<1> QED
    BY <1>10, <1>11, <1>12, <1>13, <1>14, <1>15, Zenon DEF OnWay

\* The end of a subpacket's data is read.
LEMMA EndRead ==
    ASSUME ZdleRead \/ DataByte, NEW f \in Frames, NEW more \in Seq(Nat), NEW rest,
           InEnd(f, rest), input = rest \o more
    PROVE  OnWay(f, more)
<1> DEFINE z == Zdle(Sum(f), f.is32)
           e == f.ender
<1>1. /\ at = "sub" /\ f.form = "sub" /\ wide = f.is32
      /\ f.data = bytes /\ escaped \in BOOLEAN /\ rest = End(f, escaped)
    BY DEF InEnd
<1>2. /\ z \in Seq(Nat) /\ e \in Nat
      /\ End(f, FALSE) \in Seq(Nat) /\ End(f, FALSE) # <<>>
      /\ Head(End(f, FALSE)) = ZDLE /\ Tail(End(f, FALSE)) = End(f, TRUE)
      /\ End(f, TRUE) \in Seq(Nat) /\ End(f, TRUE) # <<>>
      /\ Head(End(f, TRUE)) = e /\ Tail(End(f, TRUE)) = z
    BY <1>1, EndTyped
<1> HIDE DEF z, e
<1>3. CASE escaped = FALSE
    <2>1. Following(End(f, FALSE), more)
        BY <1>1, <1>2, <1>3, NextOf, Zenon
    <2>2. Head(input) = ZDLE /\ Tail(input) = End(f, TRUE) \o more
        BY <1>2, <2>1, Zenon DEF Following
    <2>3. ZdleRead
        BY <1>3, <2>2 DEF DataByte
    <2>4. /\ escaped' = TRUE /\ at' = "sub" /\ wide' = wide /\ bytes' = bytes /\ got' = got
          /\ input' = End(f, TRUE) \o more
        BY <1>1, <2>2, <2>3 DEF ZdleRead, Reads, ReadByte
    <2>5. Inside(f, End(f, TRUE))'
        <3>1. wide' = f.is32 /\ f.data = bytes' /\ escaped' \in BOOLEAN
              /\ End(f, TRUE) = End(f, escaped')
            BY <1>1, <2>4
        <3> QED
            BY <1>1, <2>4, <3>1, Zenon DEF Inside, InEnd
    <2>6. GoesThrough(f, more)
        BY <1>2, <2>4, <2>5, Zenon DEF GoesThrough
    <2> QED
        BY <2>6 DEF OnWay
<1>4. CASE escaped = TRUE
    <2>1. Following(End(f, TRUE), more)
        BY <1>1, <1>2, <1>4, NextOf, Zenon
    <2>2. Head(input) = e /\ Tail(input) = z \o more
        BY <1>2, <2>1, Zenon DEF Following
    <2>3. e \in Enders /\ Unescape(e) = e
        <3>1. e \in Enders
            BY <1>1, FrameParts DEF e
        <3> QED
            BY <3>1 DEF Unescape, Enders, ZCRCE, ZCRCW, ZRUB0, ZRUB1
    <2>4. DataByte
        BY <1>4 DEF ZdleRead
    <2>5. /\ packet' = Append(bytes, e) /\ at' = "check" /\ bytes' = <<>> /\ escaped' = FALSE
          /\ wide' = wide /\ got' = got /\ input' = z \o more
        BY <1>1, <1>4, <2>2, <2>3, <2>4 DEF DataByte, Decoded, GoTo, Reads, ReadByte
    <2> DEFINE c == Sum(f)
    <2>6. c \in Seq(Byte) /\ c # <<>>
        BY <1>1, SumFacts
    <2> HIDE DEF c
    <2>7. z = Left(c, escaped', wide')
        <3>1. z = Left(c, FALSE, f.is32)
            BY <2>6, WholeLeft, Zenon DEF z, c
        <3> QED
            BY <1>1, <2>5, <3>1
    <2>8. HalfRead(c)'
        BY <2>5 DEF HalfRead
    <2>9. Inside(f, z)'
        <3>1. wide' = f.is32 /\ packet' = Append(f.data, f.ender) /\ bytes' \in Seq(Byte)
              /\ c = bytes' \o c
            BY <1>1, <2>5, <2>6 DEF e
        <3> QED
            BY <1>1, <2>5, <2>6, <2>7, <2>8, <3>1, Zenon DEF Inside, InCheck, c
    <2>10. GoesThrough(f, more)
        BY <1>2, <2>5, <2>9, Zenon DEF GoesThrough
    <2> QED
        BY <2>10 DEF OnWay
<1> QED
    BY <1>1, <1>3, <1>4

\* A byte of a subpacket's check is read.
LEMMA CheckRead ==
    ASSUME ZdleRead \/ DataByte, NEW f \in Frames, NEW more \in Seq(Nat), NEW rest,
           InCheck(f, rest), input = rest \o more
    PROVE  OnWay(f, more)
<1> DEFINE w == Sum(f)
           n == Len(CheckOf(<<>>, wide))
<1>1. /\ at = "check" /\ f.form = "sub" /\ wide = f.is32 /\ bytes \in Seq(Byte)
      /\ packet = Append(f.data, f.ender)
    BY DEF InCheck
<1>2. PICK todo \in Seq(Byte) : /\ todo # <<>> /\ w = bytes \o todo
                                /\ HalfRead(todo) /\ rest = Left(todo, escaped, wide)
    BY Zenon DEF InCheck
<1>3. /\ Len(w) = n /\ w = CheckOf(packet, wide)
      /\ Front(packet) = f.data /\ Last(packet) = f.ender /\ f.ender \in Enders
    BY <1>1, SumFacts, FrameParts DEF Sum
<1> DEFINE v == Head(todo)
           u == Tail(todo)
           s == Append(bytes, v)
<1>4. Moved(Byte, bytes, todo)
    BY <1>1, <1>2, FirstMoves, Zenon
<1>5. u \in Seq(Byte)
    BY <1>2
<1> HIDE DEF w, n, u
<1>6. /\ s \in Seq(Byte) /\ w = s \o u /\ (u = <<>> => w = s) /\ Len(w) = Len(s) + Len(u)
    BY <1>2, <1>4, Zenon DEF Moved, u
<1>7. HalfReads(todo, more) \/ WholeReads(todo, more)
    BY <1>2, LeftRead
<1>8. CASE HalfReads(todo, more)
    <2> PICK r : r = Left(todo, TRUE, wide)
        OBVIOUS
    <2>1. /\ escaped' = TRUE /\ at' = "check" /\ wide' = wide /\ bytes' = bytes /\ got' = got
          /\ input' = r \o more /\ r \in Seq(Nat) /\ HalfRead(todo)' /\ packet' = packet
        BY <1>1, <1>8 DEF HalfReads
    <2>2. r = Left(todo, escaped', wide')
        BY <2>1
    <2>3. Inside(f, r)'
        <3>1. /\ wide' = f.is32 /\ bytes' \in Seq(Byte) /\ w = bytes' \o todo
              /\ packet' = Append(f.data, f.ender)
            BY <1>1, <1>2, <2>1
        <3> QED
            BY <1>1, <1>2, <2>1, <2>2, <3>1, Zenon DEF Inside, InCheck, w
    <2>4. GoesThrough(f, more)
        BY <2>1, <2>3, Zenon DEF GoesThrough
    <2> QED
        BY <2>4 DEF OnWay
<1>9. ASSUME WholeReads(todo, more), u # <<>>
      PROVE  OnWay(f, more)
    <2>1. Len(s) # n
        <3>1. Len(u) # 0
            BY <1>5, <1>9, ShortIsEmpty, Zenon
        <3> HIDE DEF s
        <3> QED
            BY <1>3, <1>5, <1>6, <3>1
    <2>2. More(v) /\ input' = Zdle(u, wide) \o more
        BY <1>1, <1>9, <2>1, Zenon DEF WholeReads, Plain, n, u
    <2> PICK r : r = Left(u, FALSE, wide)
        OBVIOUS
    <2>3. Zdle(u, wide) = r /\ Zdle(u, wide) \in Seq(Nat)
        BY <1>5, <1>9, WholeLeft, ZdleFirst
    <2>4. /\ bytes' = s /\ escaped' = FALSE /\ at' = "check" /\ wide' = wide /\ got' = got
          /\ packet' = packet
        BY <1>1, <2>2 DEF More
    <2>5. HalfRead(u)' /\ r = Left(u, escaped', wide')
        BY <2>4 DEF HalfRead
    <2> HIDE DEF s
    <2>6. Inside(f, r)'
        <3>1. /\ wide' = f.is32 /\ bytes' \in Seq(Byte) /\ w = bytes' \o u
              /\ packet' = Append(f.data, f.ender)
            BY <1>1, <1>6, <2>4
        <3> QED
            BY <1>1, <1>5, <1>9, <2>4, <2>5, <3>1, Zenon DEF Inside, InCheck, w
    <2>7. GoesThrough(f, more)
        BY <2>2, <2>3, <2>4, <2>6, Zenon DEF GoesThrough
    <2> QED
        BY <2>7 DEF OnWay
<1>10. ASSUME WholeReads(todo, more), u = <<>>
       PROVE  OnWay(f, more)
    <2>1. w = s
        BY <1>6, <1>10
    <2> HIDE DEF s
    <2>2. /\ got' = Append(got, [data |-> Front(packet), ender |-> Last(packet)])
          /\ GoTo(IF Last(packet) \in {ZCRCE, ZCRCW} THEN "hunt" ELSE "sub")
          /\ wide' = wide
        <3>1. Len(s) = n /\ s = CheckOf(packet, wide)
            BY <1>3, <2>1
        <3> QED
            BY <1>1, <1>10, <3>1, Zenon DEF WholeReads, Plain, n, s
    <2>3. Known(f) = [data |-> f.data, ender |-> f.ender] /\ Wide(f) = f.is32
        BY <1>1 DEF Known, Wide
    <2>4. GoesOn(f) <=> ~ (f.ender \in {ZCRCE, ZCRCW})
        BY <1>1, <1>3 DEF GoesOn, Enders, ZCRCE, ZCRCG, ZCRCQ, ZCRCW
    <2>5. got' = Append(got, Known(f))
        BY <1>3, <2>2, <2>3
    <2>6. input' = more
        <3>1. Zdle(u, wide) = <<>>
            BY <1>5, <1>10, ZdleFirst
        <3>2. <<>> \o more = more
            OBVIOUS
        <3> QED
            BY <1>10, <3>1, <3>2, Zenon DEF WholeReads, u
    <2>7. GoesOn(f) => /\ at' = "sub" /\ bytes' = <<>> /\ escaped' = FALSE
                       /\ wide' = Wide(f) /\ input' = more
        BY <1>1, <1>3, <2>2, <2>3, <2>4, <2>6 DEF GoTo
    <2>8. ~ GoesOn(f) => at' = "hunt"
        BY <1>3, <2>2, <2>4 DEF GoTo
    <2>9. \E junk \in Seq(Nat) :
             (\A i \in 1 .. Len(junk) : junk[i] # ZPAD) /\ input' = junk \o more
        <3>1. <<>> \in Seq(Nat) /\ input' = <<>> \o more
            BY <2>6
        <3>2. \A i \in 1 .. Len(<<>>) : <<>>[i] # ZPAD
            OBVIOUS
        <3> QED
            BY <3>1, <3>2, Zenon
    <2>10. Takes(f, more)
        BY <2>5, <2>7, <2>8, <2>9, Zenon DEF Takes
    <2> QED
        BY <2>10 DEF OnWay
<1> QED
    BY <1>7, <1>8, <1>9, <1>10, Zenon

-----------------------------------------------------------------------------
(* Frames: every step *)

\* The parts of a read that no other says
LEMMA ReadFacts ==
    ASSUME HuntByte \/ HexByte \/ ZdleRead \/ DataByte, input \in Seq(Nat)
    PROVE  /\ input # <<>> /\ input' = Tail(input) /\ input' \in Seq(Nat)
           /\ Head(input) = input[1] /\ Head(input) \in Nat
           /\ ~ MeansAbort(Head(input))
           /\ sent' = sent /\ pressed' = pressed /\ noise' = noise /\ aborted' = aborted
<1>1. Reads
    BY DEF HuntByte, HexByte, ZdleRead, DataByte
<1>2. /\ input # <<>> /\ input' = Tail(input) /\ ~ MeansAbort(Head(input))
      /\ sent' = sent /\ pressed' = pressed /\ noise' = noise /\ aborted' = aborted
    BY <1>1, Zenon DEF Reads, ReadByte
<1>3. Tail(input) \in Seq(Nat) /\ Head(input) = input[1] /\ Head(input) \in Nat
    BY <1>2
<1> QED
    BY <1>2, <1>3, Zenon

\* A receiver that fails has accepted nothing more.
LEMMA FailAccepts ==
    ASSUME HuntByte \/ HexByte \/ ZdleRead \/ DataByte, at' = "failed"
    PROVE  got' = got
<1>1. CASE HuntByte
    BY <1>1 DEF HuntByte
<1>2. CASE ZdleRead
    BY <1>2 DEF ZdleRead
<1>3. ASSUME NEW t, NEW g, NEW c, NEW w, HeaderIn(t, g, c, w) PROVE got' = got
    BY <1>3 DEF HeaderIn, GoTo, Fail
<1>4. CASE HexByte
    BY <1>3, <1>4, Zenon DEF HexByte, Fail
<1>5. CASE DataByte
    <2>1. ASSUME NEW v, NEW special \in BOOLEAN, Decoded(v, special), at \in Decoding
          PROVE  got' = got
        <3> DEFINE s == Append(bytes, v)
                   n == Len(CheckOf(<<>>, wide))
                   h == HeaderIn(s[1], s[2], SubSeq(s, 3, 2 + n), wide)
        <3>1. h => got' = got
            BY <1>3, Zenon
        <3> HIDE DEF h
        <3>2. CASE at = "bin" /\ Len(s) = 2 + n
            <4>1. h
                BY <3>2, <2>1 DEF Decoded, h
            <4> QED
                BY <3>1, <4>1
        <3>3. CASE at = "bin" /\ Len(s) # 2 + n
            BY <2>1, <3>3 DEF Decoded
        <3>4. CASE at = "sub"
            BY <2>1, <3>4 DEF Decoded, Fail
        <3>5. CASE at = "check" /\ Len(s) # n
            BY <2>1, <3>5 DEF Decoded
        <3>6. CASE at = "check" /\ Len(s) = n
            BY <2>1, <3>6 DEF Decoded, Fail, GoTo
        <3> QED
            BY <2>1, <3>2, <3>3, <3>4, <3>5, <3>6 DEF Decoding
    <2>2. PICK v, special : Decoded(v, special) /\ special \in BOOLEAN
        <3> DEFINE b == Head(input)
                   w == IF escaped THEN Unescape(b) ELSE b
                   z == escaped /\ b \in Enders
        <3>1. Decoded(w, z)
            BY <1>5, Zenon DEF DataByte
        <3>2. z \in BOOLEAN
            OBVIOUS
        <3> HIDE DEF w, z
        <3> QED
            BY <3>1, <3>2
    <2>3. at \in Decoding
        BY <1>5 DEF DataByte
    <2> QED
        BY <2>1, <2>2, <2>3
<1> QED
    BY <1>1, <1>2, <1>4, <1>5

\* Inside a frame something of it is left.
LEMMA InsideLeft ==
    ASSUME NEW f \in Frames, NEW rest \in Seq(Nat), Inside(f, rest)
    PROVE  rest # <<>> /\ at # "hunt" /\ at # "failed"
<1>1. at # "hunt" /\ at # "failed"
    BY DEF Inside, InLead, InHex, InBin, InText, InEnd, InCheck
<1>2. ASSUME NEW a \in Seq(Nat), NEW b \in Seq(Nat), a # <<>>, rest = a \o b
      PROVE  rest # <<>>
    <2>1. BothFrom(Nat, a, b)
        BY <1>2, FirstOfBoth, Zenon
    <2> QED
        BY <1>2, <2>1, Zenon DEF BothFrom
<1>3. ASSUME NEW todo \in Seq(Byte), todo # <<>>, HalfRead(todo)
      PROVE  Left(todo, escaped, wide) \in Seq(Nat) /\ Left(todo, escaped, wide) # <<>>
    <2>1. Taken(todo, escaped, wide)
        BY <1>3, LeftTaken, Zenon DEF HalfRead
    <2> QED
        BY <2>1, Zenon DEF Taken
<1>4. CASE InLead(f, rest)
    <2>1. f.form # "sub"
        BY <1>4 DEF InLead
    <2>2. Body(f) \in Seq(Nat)
        BY <2>1, HeaderParts
    <2> DEFINE a == <<ZPAD, ZDLE, ZHEX>>
               b == <<ZDLE, Mark(f)>>
               d == <<Mark(f)>>
               c == Body(f)
    <2>3. a \in Seq(Nat) /\ b \in Seq(Nat) /\ d \in Seq(Nat)
          /\ a # <<>> /\ b # <<>> /\ d # <<>>
        BY DEF ZPAD, ZDLE, ZHEX, ZBIN, ZBIN32, Mark
    <2>4. rest = a \o c \/ rest = b \o c \/ rest = d \o c
        BY <1>4 DEF InLead
    <2> HIDE DEF a, b, d, c
    <2>5. c \in Seq(Nat)
        BY <2>2 DEF c
    <2> QED
        BY <1>1, <1>2, <2>3, <2>4, <2>5
<1>5. CASE InHex(f, rest)
    <2>1. PICK todo \in Seq(Nat) : todo # <<>> /\ rest = todo \o LineEnd(f)
        BY <1>5, Zenon DEF InHex
    <2>2. LineEnd(f) \in Seq(Nat)
        <3>1. f.form # "sub"
            BY <1>5 DEF InHex
        <3> QED
            BY <3>1, HeaderParts
    <2> QED
        BY <1>1, <1>2, <2>1, <2>2
<1>6. CASE InBin(f, rest) \/ InCheck(f, rest)
    <2>1. PICK todo \in Seq(Byte) :
             todo # <<>> /\ HalfRead(todo) /\ rest = Left(todo, escaped, wide)
        BY <1>6, Zenon DEF InBin, InCheck
    <2> QED
        BY <1>1, <1>3, <2>1, Zenon
<1>7. CASE InText(f, rest)
    <2>1. PICK todo \in Seq(Byte) :
             /\ todo # <<>> /\ HalfRead(todo)
             /\ rest = Left(todo, escaped, wide) \o End(f, FALSE)
        BY <1>7, Zenon DEF InText
    <2>2. End(f, FALSE) \in Seq(Nat)
        <3>1. f.form = "sub"
            BY <1>7 DEF InText
        <3> QED
            BY <3>1, EndTyped
    <2>3. Left(todo, escaped, wide) \in Seq(Nat) /\ Left(todo, escaped, wide) # <<>>
        BY <1>3, <2>1
    <2> QED
        BY <1>1, <1>2, <2>1, <2>2, <2>3
<1>8. CASE InEnd(f, rest)
    <2>1. f.form = "sub" /\ escaped \in BOOLEAN /\ rest = End(f, escaped)
        BY <1>8 DEF InEnd
    <2>2. End(f, TRUE) # <<>> /\ End(f, FALSE) # <<>>
        BY <2>1, EndTyped
    <2> QED
        BY <1>1, <2>1, <2>2
<1> QED
    BY <1>1, <1>4, <1>5, <1>6, <1>7, <1>8, Zenon DEF Inside

\* The frame that is read is one of those sent, with what is behind it.
LEMMA OnWayKeeps ==
    ASSUME SentOK, Received, NEW f \in Frames, NEW more,
           Len(got) < Len(sent), f = sent[Len(got) + 1],
           more = Later(sent, Len(got) + 1),
           OnWay(f, more), sent' = sent, at' = "failed" => got' = got
    PROVE  Received' /\ (Failed' \/ Between' \/ Awaiting' \/ Middle')
<1> DEFINE K == {Known(g) : g \in Frames}
<1>1. /\ got \in Seq(K) /\ \A i \in 1 .. Len(got) : got[i] = Known(sent[i])
      /\ Len(got) <= Len(sent) /\ Len(got) \in Nat /\ Len(sent) \in Nat
    BY DEF Received, SentOK
<1>2. got' = got => Received'
    BY DEF Received
<1>3. CASE Overflows(f)
    <2>1. Received'
        BY <1>2, <1>3 DEF Overflows
    <2>2. Len(got) + 1 \in DOMAIN sent
        BY <1>1
    <2>3. TooLong'
        BY <1>3, <2>2 DEF Overflows, TooLong
    <2> QED
        BY <1>3, <2>1, <2>3 DEF Overflows, Failed
<1>4. CASE GoesThrough(f, more)
    <2>1. got' = got
        BY <1>4 DEF GoesThrough
    <2>2. PICK r \in Seq(Nat) : input' = r \o more /\ Inside(f, r)'
        BY <1>4, Zenon DEF GoesThrough
    <2>3. /\ Len(got') < Len(sent') /\ f = sent'[Len(got') + 1]
          /\ more = Later(sent', Len(got') + 1)
        BY <2>1
    <2>4. input' = r \o Later(sent', Len(got') + 1)
        BY <2>2, <2>3
    <2>5. Middle'
        BY <2>2, <2>3, <2>4, Zenon DEF Middle
    <2> QED
        BY <1>2, <2>1, <2>5
<1>5. CASE Takes(f, more)
    <2> DEFINE k == Known(f)
    <2>1. k \in K /\ got' = Append(got, k)
        BY <1>5 DEF Takes
    <2> HIDE DEF K, k
    <2>2. /\ got' \in Seq(K) /\ Len(got') = Len(got) + 1 /\ got'[Len(got) + 1] = k
          /\ \A i \in 1 .. Len(got) : got'[i] = got[i]
        BY <1>1, <2>1
    <2>3. \A i \in 1 .. Len(got') : got'[i] = Known(sent[i])
        <3> TAKE i \in 1 .. Len(got')
        <3>1. CASE i = Len(got) + 1
            BY <2>2, <3>1 DEF k
        <3>2. CASE i # Len(got) + 1
            <4>1. i \in 1 .. Len(got)
                BY <1>1, <2>2, <3>2
            <4> QED
                BY <1>1, <2>2, <4>1
        <3> QED
            BY <3>1, <3>2
    <2>4. Len(got') <= Len(sent')
        BY <1>1, <2>2
    <2>5. Received'
        BY <2>2, <2>3, <2>4 DEF Received, K
    <2>6. f = sent'[Len(got')] /\ Len(got') # 0 /\ more = Later(sent', Len(got'))
        BY <1>1, <2>2
    <2>7. CASE GoesOn(f)
        <3>1. /\ at' = "sub" /\ bytes' = <<>> /\ escaped' = FALSE
              /\ wide' = Wide(f) /\ input' = more
            BY <1>5, <2>7 DEF Takes
        <3>2. Awaiting'
            BY <2>6, <2>7, <3>1 DEF Awaiting
        <3> QED
            BY <2>5, <3>2
    <2>8. CASE ~ GoesOn(f)
        <3>1. PICK junk \in Seq(Nat) :
                 (\A i \in 1 .. Len(junk) : junk[i] # ZPAD) /\ input' = junk \o more
            BY <1>5, <2>8, Zenon DEF Takes
        <3>2. at' = "hunt" /\ input' = junk \o Later(sent', Len(got'))
              /\ ~ GoesOn(sent'[Len(got')])
            BY <1>5, <2>6, <2>8, <3>1 DEF Takes
        <3>3. Between'
            BY <3>1, <3>2, Zenon DEF Between
        <3> QED
            BY <2>5, <3>3
    <2> QED
        BY <2>7, <2>8
<1> QED
    BY <1>3, <1>4, <1>5 DEF OnWay

\* A subpacket that is waited for and is there is one the receiver is inside of.
LEMMA AwaitingIsMiddle ==
    ASSUME SentOK, Received, Awaiting, input # <<>>
    PROVE  Middle
<1> DEFINE k == Len(got)
           n == Len(sent)
<1>1. /\ sent \in Seq(Frames) /\ n \in Nat /\ k \in Nat /\ k <= n /\ k # 0
      /\ k \in 0 .. n
    BY DEF SentOK, Received, Awaiting
<1>2. /\ at = "sub" /\ bytes = <<>> /\ escaped = FALSE
      /\ GoesOn(sent[k]) /\ wide = Wide(sent[k]) /\ input = Later(sent, k)
    BY Zenon DEF Awaiting
<1>3. /\ k = n => Later(sent, k) = <<>>
      /\ k < n => /\ Later(sent, k) = Encoded(sent[k + 1]) \o Later(sent, k + 1)
                  /\ Later(sent, k + 1) \in Seq(Nat)
    BY <1>1, LaterFirst
<1>4. k < n
    BY <1>1, <1>2, <1>3
<1>5. PICK f \in Frames : f = sent[k + 1]
    BY <1>1, <1>4
<1>6. f.form = "sub" /\ wide = f.is32
    <2>1. k + 1 \in 1 .. Len(sent) /\ k + 1 # 1 /\ (k + 1) - 1 = k
        BY <1>1, <1>4
    <2> QED
        BY <1>2, <1>5, <2>1 DEF SentOK
<1> DEFINE e == Encoded(f)
           d == f.data
<1>7. e \in Seq(Nat)
    BY EncodedTyped
<1>8. e = Zdle(d, wide) \o End(f, FALSE)
    BY <1>6, SubpacketParts DEF End
<1>9. d \in Seq(Byte)
    BY <1>6, FrameParts
<1>10. Inside(f, e)
    <2>1. CASE d = <<>>
        <3>1. Zdle(d, wide) = <<>>
            BY <1>9, <2>1, ZdleFirst
        <3>2. End(f, FALSE) \in Seq(Nat)
            BY <1>6, EndTyped
        <3>3. e = End(f, escaped)
            <4> PICK z \in Seq(Nat) : z = End(f, FALSE)
                BY <3>2
            <4>1. <<>> \o z = z
                OBVIOUS
            <4>2. e = z
                BY <1>8, <3>1, <4>1, Zenon
            <4> QED
                BY <1>2, <4>2, Zenon
        <3>4. d = bytes
            BY <1>2, <2>1
        <3> QED
            BY <1>2, <1>6, <3>3, <3>4 DEF Inside, InEnd
    <2>2. CASE d # <<>>
        <3>1. Zdle(d, wide) = Left(d, escaped, wide)
            BY <1>2, <1>9, <2>2, WholeLeft
        <3>2. d = bytes \o d /\ bytes \in Seq(Byte)
            <4> HIDE DEF d
            <4> QED
                BY <1>2, <1>9
        <3>3. HalfRead(d)
            BY <1>2 DEF HalfRead
        <3>4. e = Left(d, escaped, wide) \o End(f, FALSE)
            BY <1>8, <3>1
        <3> HIDE DEF e
        <3> QED
            BY <1>2, <1>6, <1>9, <2>2, <3>2, <3>3, <3>4, Zenon DEF Inside, InText
    <2> QED
        BY <2>1, <2>2
<1>11. input = e \o Later(sent, k + 1)
    BY <1>2, <1>3, <1>4, <1>5
<1> QED
    BY <1>4, <1>5, <1>7, <1>10, <1>11, Zenon DEF Middle

\* Inside a frame, a read goes on with it.
LEMMA MiddleRead ==
    ASSUME HuntByte \/ HexByte \/ ZdleRead \/ DataByte, SentOK, Received, Middle,
           input \in Seq(Nat)
    PROVE  Received' /\ (Failed' \/ Between' \/ Awaiting' \/ Middle')
<1> DEFINE k == Len(got)
           n == Len(sent)
<1>1. PICK f \in Frames, rest \in Seq(Nat) :
         /\ Len(got) < Len(sent) /\ f = sent[Len(got) + 1]
         /\ input = rest \o Later(sent, Len(got) + 1)
         /\ Inside(f, rest)
    BY Zenon DEF Middle
<1>2. /\ k \in Nat /\ n \in Nat /\ sent \in Seq(Frames) /\ k + 1 \in 1 .. n
      /\ k + 1 \in 0 .. n
    <2>1. sent \in Seq(Frames) /\ k \in Nat /\ k < n
        BY <1>1 DEF SentOK, Received
    <2> QED
        BY <2>1
<1>3. PICK more \in Seq(Nat) : more = Later(sent, k + 1)
    BY <1>2, LaterFirst
<1>4. input = rest \o more
    BY <1>1, <1>3
<1>5. f.form # "sub" => (f.type = ZDATA <=> f.form # "hex")
    BY <1>1, <1>2 DEF SentOK
<1>6. OnWay(f, more)
    <2>1. CASE HuntByte
        <3>1. at # "hunt"
            BY <1>1, InsideLeft
        <3>2. Inside(f, rest) /\ HuntByte
            BY <1>1, <2>1
        <3>3. GoesThrough(f, more)
            BY <1>4, <3>1, <3>2, LeadRead
        <3> QED
            BY <3>3, Zenon DEF OnWay
    <2>2. CASE HexByte
        <3>1. f.form = "hex" => f.type # ZDATA
            BY <1>5
        <3> QED
            BY <1>1, <1>4, <2>2, <3>1, DigitRead
    <2>3. CASE ZdleRead \/ DataByte
        <3>1. at \in {"bin", "sub", "check"}
            BY <2>3 DEF ZdleRead, DataByte, Decoding
        <3>2. CASE at = "bin"
            <4>1. f.form # "hex" => f.type = ZDATA
                BY <1>1, <1>5, <3>2 DEF Inside, InLead, InHex, InBin, InText, InEnd, InCheck
            <4> QED
                BY <1>1, <1>4, <2>3, <3>2, <4>1, WordRead
        <3>3. CASE at = "sub"
            <4>1. InText(f, rest) \/ InEnd(f, rest)
                BY <1>1, <3>3 DEF Inside, InLead, InHex, InBin, InCheck
            <4> QED
                BY <1>4, <2>3, <4>1, TextRead, EndRead
        <3>4. CASE at = "check"
            <4>1. InCheck(f, rest)
                BY <1>1, <3>4 DEF Inside, InLead, InHex, InBin, InText, InEnd
            <4> QED
                BY <1>4, <2>3, <4>1, CheckRead
        <3> QED
            BY <3>1, <3>2, <3>3, <3>4
    <2> QED
        BY <2>1, <2>2, <2>3
<1>7. sent' = sent
    BY ReadFacts
<1>8. at' = "failed" => got' = got
    BY FailAccepts
<1>9. more = Later(sent, Len(got) + 1)
    BY <1>3
<1> QED
    BY <1>1, <1>6, <1>7, <1>8, <1>9, OnWayKeeps

\* Between frames, a read skips what is no header or begins one.
LEMMA BetweenRead ==
    ASSUME HuntByte \/ HexByte \/ ZdleRead \/ DataByte, SentOK, Received, Between,
           input \in Seq(Nat)
    PROVE  Received' /\ (Between' \/ Middle')
<1> DEFINE k == Len(got)
           n == Len(sent)
<1>1. at = "hunt" /\ HuntByte
    BY DEF Between, HexByte, ZdleRead, DataByte, Decoding
<1>2. PICK junk \in Seq(Nat) :
         (\A i \in 1 .. Len(junk) : junk[i] # ZPAD) /\ input = junk \o Later(sent, k)
    BY Zenon DEF Between
<1>3. /\ k \in Nat /\ n \in Nat /\ k <= n /\ sent \in Seq(Frames) /\ k \in 0 .. n
      /\ k = 0 \/ ~ GoesOn(sent[k])
    BY DEF SentOK, Received, Between
<1>4. /\ Later(sent, k) \in Seq(Nat)
      /\ k = n => Later(sent, k) = <<>>
      /\ k < n => /\ Later(sent, k) = Encoded(sent[k + 1]) \o Later(sent, k + 1)
                  /\ Later(sent, k + 1) \in Seq(Nat)
    BY <1>3, LaterFirst
<1>5. sent' = sent /\ input # <<>>
    BY ReadFacts
<1>6. ASSUME NEW q, Leads("hunt", Head(input), q)
      PROVE  at' = q /\ got' = got /\ input' = Tail(input) /\ Received'
    <2>1. at' = q /\ got' = got /\ input' = Tail(input)
        BY <1>1, <1>6, HuntGoes
    <2> QED
        BY <1>5, <2>1 DEF Received
<1>7. CASE junk # <<>>
    <2>1. Following(junk, Later(sent, k))
        BY <1>2, <1>4, <1>7, NextOf, Zenon
    <2>2. PICK j \in Seq(Nat) : j = Tail(junk)
        <3>1. Tail(junk) \in Seq(Nat)
            BY <1>7
        <3> QED
            BY <3>1, Zenon
    <2>3. Head(input) # ZPAD
        <3>1. Head(junk) = junk[1] /\ 1 \in 1 .. Len(junk)
            BY <1>7
        <3>2. junk[1] # ZPAD
            BY <1>2, <3>1
        <3> QED
            BY <2>1, <3>1, <3>2 DEF Following
    <2>4. at' = "hunt" /\ got' = got /\ input' = Tail(input) /\ Received'
        BY <1>6, <2>3, HuntLeads, Zenon
    <2>5. input' = j \o Later(sent', Len(got'))
        BY <1>5, <2>1, <2>2, <2>4 DEF Following
    <2>6. \A i \in 1 .. Len(j) : j[i] # ZPAD
        <3> TAKE i \in 1 .. Len(j)
        <3>1. i + 1 \in 1 .. Len(junk) /\ j[i] = junk[i + 1]
            BY <1>7, <2>2
        <3> QED
            BY <1>2, <3>1
    <2>7. Len(got') = 0 \/ ~ GoesOn(sent'[Len(got')])
        BY <1>3, <1>5, <2>4
    <2>8. Between'
        BY <2>4, <2>5, <2>6, <2>7, Zenon DEF Between
    <2> QED
        BY <2>4, <2>8
<1>8. CASE junk = <<>>
    <2>1. input = Later(sent, k)
        BY <1>2, <1>4, <1>8
    <2>2. k < n
        BY <1>3, <1>4, <1>5, <2>1
    <2>3. PICK f \in Frames : f = sent[k + 1]
        BY <1>3, <2>2
    <2>4. PICK more \in Seq(Nat) : more = Later(sent, k + 1)
        BY <1>4, <2>2
    <2>5. f.form # "sub"
        <3>1. k + 1 \in 1 .. Len(sent) /\ (k + 1) - 1 = k /\ (k = 0 <=> k + 1 = 1)
            BY <1>3, <2>2
        <3> QED
            BY <1>3, <2>3, <3>1 DEF SentOK
    <2> DEFINE lead == IF f.form = "hex" THEN <<ZPAD, ZDLE, ZHEX>> ELSE <<ZDLE, Mark(f)>>
               x == lead \o Body(f)
               o == <<ZPAD>>
    <2>6. Encoded(f) = o \o x /\ Body(f) \in Seq(Nat)
        BY <2>5, HeaderParts
    <2>7. x \in Seq(Nat)
        <3>1. lead \in Seq(Nat)
            BY DEF ZPAD, ZDLE, ZHEX, ZBIN, ZBIN32, Mark
        <3> HIDE DEF lead
        <3> QED
            BY <2>6, <3>1
    <2>8. o \in Seq(Nat) /\ o # <<>> /\ Head(o) = ZPAD /\ Tail(o) = <<>>
        BY DEF ZPAD
    <2> HIDE DEF o
    <2>9. Regrouped(Nat, o, x, more)
        BY <2>7, <2>8, Regroup, Zenon
    <2>10. x \o more \in Seq(Nat) /\ input = o \o (x \o more)
        BY <1>4, <2>1, <2>2, <2>3, <2>4, <2>6, <2>9, Zenon DEF Regrouped
    <2>11. BothFrom(Nat, o, x \o more)
        BY <2>8, <2>10, FirstOfBoth, Zenon
    <2>12. Head(input) = ZPAD /\ Tail(input) = x \o more
        <3>1. <<>> \o (x \o more) = x \o more
            BY <2>10
        <3> QED
            BY <2>8, <2>10, <2>11, <3>1, Zenon DEF BothFrom
    <2>13. at' = "pad" /\ got' = got /\ input' = x \o more /\ Received'
        BY <1>6, <2>12, HuntLeads, Zenon
    <2>14. Inside(f, x)'
        BY <2>5, <2>13, Zenon DEF Inside, InLead
    <2> HIDE DEF x
    <2>15. /\ Len(got') < Len(sent') /\ f = sent'[Len(got') + 1]
           /\ input' = x \o Later(sent', Len(got') + 1)
        BY <1>5, <2>2, <2>3, <2>4, <2>13
    <2>16. Middle'
        BY <2>7, <2>14, <2>15, Zenon DEF Middle
    <2> QED
        BY <2>13, <2>16
<1> QED
    BY <1>7, <1>8

\* The key is read and aborts, or becomes the next byte.
LEMMA KeyRead ==
    ASSUME HuntByte \/ HexByte \/ ZdleRead \/ DataByte, Received, KeyWaits, input \in Seq(Nat)
    PROVE  Received' /\ KeyWaits'
<1>1. /\ Head(input) = input[1] /\ ~ MeansAbort(Head(input)) /\ input' = Tail(input)
      /\ sent' = sent /\ pressed' = pressed
    BY ReadFacts
<1>2. AbortKey /\ pressed
    BY DEF KeyWaits
<1>3. input[1] # KeyChar
    BY <1>1, <1>2 DEF MeansAbort
<1>4. at = "hunt" /\ Len(input) > 1 /\ input[1] # ZPAD /\ input[2] = KeyChar
    BY <1>3 DEF KeyWaits
<1>5. HuntByte
    BY <1>4 DEF HexByte, ZdleRead, DataByte, Decoding
<1>6. Leads(at, Head(input), "hunt")
    BY <1>1, <1>4, HuntLeads
<1>7. at' = "hunt" /\ got' = got
    BY <1>5, <1>6, HuntGoes
<1>8. input' # <<>> /\ input'[1] = KeyChar
    <2>1. input # <<>> /\ input' \in Seq(Nat)
        BY ReadFacts
    <2>2. Len(input') = Len(input) - 1 /\ input'[1] = input[2] /\ Len(input) \in Nat
        BY <1>1, <1>4, <2>1
    <2>3. Len(input') # 0
        BY <1>4, <2>2
    <2>4. input' # <<>>
        BY <2>1, <2>3, ShortIsEmpty, Zenon
    <2> QED
        BY <1>4, <2>2, <2>4
<1>9. KeyWaits'
    BY <1>1, <1>2, <1>7, <1>8 DEF KeyWaits
<1>10. Received'
    BY <1>1, <1>7 DEF Received
<1> QED
    BY <1>9, <1>10

\* What does not change the receiver leaves it where it is.
LEMMA InsideStays ==
    ASSUME NEW f, NEW rest, Inside(f, rest),
           at' = at, wide' = wide, escaped' = escaped, bytes' = bytes, packet' = packet
    PROVE  Inside(f, rest)'
<1>1. InLead(f, rest) => InLead(f, rest)'
    BY DEF InLead
<1>2. InHex(f, rest) => InHex(f, rest)'
    BY Zenon DEF InHex
<1>3. ASSUME NEW todo, HalfRead(todo) PROVE HalfRead(todo)'
    BY <1>3 DEF HalfRead
<1>4. ASSUME NEW todo PROVE Left(todo, escaped, wide) = Left(todo, escaped', wide')
    OBVIOUS
<1>5. InBin(f, rest) => InBin(f, rest)'
    BY <1>3, <1>4, Zenon DEF InBin
<1>6. InText(f, rest) => InText(f, rest)'
    BY <1>3, <1>4, Zenon DEF InText
<1>7. InEnd(f, rest) => InEnd(f, rest)'
    BY DEF InEnd
<1>8. InCheck(f, rest) => InCheck(f, rest)'
    BY <1>3, <1>4, Zenon DEF InCheck
<1> QED
    BY <1>1, <1>2, <1>5, <1>6, <1>7, <1>8, Zenon DEF Inside

\* A frame goes out behind what is on its way.
LEMMA WriteKeeps ==
    ASSUME NEW f \in Frames, Write(f), SentOK, SentOK', input \in Seq(Nat), Received, Course
    PROVE  Received' /\ Course'
<1> DEFINE k == Len(got)
           e == Encoded(f)
<1>1. /\ sent' = Append(sent, f) /\ input' = input \o e
      /\ at' = at /\ wide' = wide /\ escaped' = escaped /\ bytes' = bytes
      /\ packet' = packet /\ got' = got /\ pressed' = pressed /\ noise' = noise
    BY Zenon DEF Write, readerVars
<1>2. /\ sent \in Seq(Frames) /\ k \in Nat /\ k <= Len(sent) /\ k \in 0 .. Len(sent)
      /\ Len(sent) \in Nat
    BY DEF SentOK, Received
<1>3. /\ Len(sent') = Len(sent) + 1
      /\ \A i \in 1 .. Len(sent) : sent'[i] = sent[i]
    BY <1>1, <1>2
<1>4. e \in Seq(Nat)
    BY EncodedTyped
<1> HIDE DEF e
<1>5. ASSUME NEW j \in 0 .. Len(sent), NEW a \in Seq(Nat), input = a \o Later(sent, j)
      PROVE  input' = a \o Later(sent', j)
    <2>1. Later(sent', j) = Later(sent, j) \o e /\ Later(sent, j) \in Seq(Nat)
        BY <1>1, <1>2, LaterWrite, LaterFirst DEF e
    <2>2. Regrouped(Nat, a, Later(sent, j), e)
        BY <1>4, <2>1, Regroup, Zenon
    <2> QED
        BY <1>1, <1>5, <2>1, <2>2, Zenon DEF Regrouped
<1>6. Received'
    <2>1. \A i \in 1 .. Len(got) : got[i] = Known(sent'[i])
        BY <1>2, <1>3 DEF Received
    <2> QED
        BY <1>1, <1>2, <1>3, <2>1 DEF Received
<1>7. k # 0 => sent'[k] = sent[k]
    BY <1>2, <1>3
<1>8. CASE Failed
    <2>1. PICK i \in 1 .. Len(sent) : sent[i].form = "sub" /\ Len(sent[i].data) > MaxSub
        BY <1>2, <1>8 DEF Failed, TooLong
    <2>2. i \in DOMAIN sent' /\ sent'[i] = sent[i]
        BY <1>1, <1>2
    <2>3. TooLong'
        BY <2>1, <2>2 DEF TooLong
    <2> QED
        BY <1>1, <1>6, <1>8, <2>3 DEF Failed, Course
<1>9. CASE KeyWaits
    <2>1. Len(input') = Len(input) + Len(e) /\ Len(e) \in Nat /\ Len(input) \in Nat
          /\ \A i \in 1 .. Len(input) : input'[i] = input[i]
        <3>1. Places(Nat, input, e)
            BY <1>4, ConcatPlaces, Zenon
        <3> QED
            BY <1>1, <1>4, <3>1 DEF Places
    <2>2. input # <<>> => input' # <<>> /\ input'[1] = input[1]
        <3>1. input # <<>> => Len(input) # 0
            BY ShortIsEmpty, Zenon
        <3>2. input' \in Seq(Nat)
            BY <1>1, <1>4
        <3>3. input # <<>> => Len(input') # 0 /\ 1 \in 1 .. Len(input)
            BY <2>1, <3>1
        <3>4. Len(input') # 0 => input' # <<>>
            BY <3>2, ShortIsEmpty, Zenon
        <3> QED
            BY <2>1, <3>3, <3>4
    <2>3. Len(input) > 1 => Len(input') > 1 /\ input'[1] = input[1] /\ input'[2] = input[2]
        BY <2>1
    <2>4. KeyWaits'
        BY <1>1, <1>9, <2>2, <2>3 DEF KeyWaits
    <2> QED
        BY <1>6, <2>4 DEF Course
<1>10. CASE Between
    <2>1. PICK junk \in Seq(Nat) :
             (\A i \in 1 .. Len(junk) : junk[i] # ZPAD) /\ input = junk \o Later(sent, k)
        BY <1>10, Zenon DEF Between
    <2>2. input' = junk \o Later(sent', Len(got'))
        BY <1>1, <1>2, <1>5, <2>1
    <2>3. at' = "hunt" /\ (Len(got') = 0 \/ ~ GoesOn(sent'[Len(got')]))
        BY <1>1, <1>7, <1>10 DEF Between
    <2>4. Between'
        BY <2>1, <2>2, <2>3, Zenon DEF Between
    <2> QED
        BY <1>6, <2>4 DEF Course
<1>11. CASE Awaiting
    <2>1. /\ at = "sub" /\ bytes = <<>> /\ escaped = FALSE
          /\ k # 0 /\ GoesOn(sent[k]) /\ wide = Wide(sent[k]) /\ input = Later(sent, k)
        BY <1>11, Zenon DEF Awaiting
    <2>2. input' = Later(sent', k)
        <3>1. Later(sent', k) = Later(sent, k) \o e
            BY <1>1, <1>2, LaterWrite DEF e
        <3> QED
            BY <1>1, <2>1, <3>1
    <2>3. Awaiting'
        BY <1>1, <1>7, <2>1, <2>2 DEF Awaiting
    <2> QED
        BY <1>6, <2>3 DEF Course
<1>12. CASE Middle
    <2>1. PICK g \in Frames, rest \in Seq(Nat) :
             /\ Len(got) < Len(sent) /\ g = sent[Len(got) + 1]
             /\ input = rest \o Later(sent, Len(got) + 1)
             /\ Inside(g, rest)
        BY <1>12, Zenon DEF Middle
    <2>2. k + 1 \in 0 .. Len(sent) /\ k + 1 \in 1 .. Len(sent)
        BY <1>2, <2>1
    <2>3. input' = rest \o Later(sent', k + 1)
        BY <1>5, <2>1, <2>2
    <2>4. Len(got') < Len(sent') /\ g = sent'[Len(got') + 1]
        BY <1>1, <1>2, <1>3, <2>1, <2>2
    <2>5. Inside(g, rest)'
        BY <1>1, <2>1, InsideStays
    <2>6. Middle'
        BY <1>1, <2>3, <2>4, <2>5, Zenon DEF Middle
    <2> QED
        BY <1>6, <2>6 DEF Course
<1> QED
    BY <1>8, <1>9, <1>10, <1>11, <1>12 DEF Course

\* What is sent keeps its order.
LEMMA SentKeeps ==
    ASSUME SentOK, NEW f \in Frames, sent' = Append(sent, f),
           f.form # "sub" => (f.type = ZDATA <=> f.form # "hex"),
           f.form = "sub" <=> InData,
           f.form = "sub" => f.is32 = Wide(Last(sent))
    PROVE  SentOK'
<1> DEFINE n == Len(sent)
           t == sent'
<1>1. /\ sent \in Seq(Frames) /\ n \in Nat /\ t \in Seq(Frames) /\ Len(t) = n + 1
      /\ t[n + 1] = f /\ \A i \in 1 .. n : t[i] = sent[i]
    BY DEF SentOK
<1>2. sent # <<>> <=> n # 0
    BY <1>1, ShortIsEmpty, Zenon
<1>3. n # 0 => Last(sent) = t[n]
    BY <1>1 DEF Last
<1>4. f.form = "sub" <=> n # 0 /\ GoesOn(t[n])
    BY <1>2, <1>3 DEF InData
<1>5. f.form = "sub" => f.is32 = Wide(t[n])
    BY <1>3, <1>4
<1> HIDE DEF t
<1>6. ASSUME NEW i \in 1 .. Len(t)
      PROVE  /\ t[i].form # "sub" => (t[i].type = ZDATA <=> t[i].form # "hex")
             /\ i = 1 => t[i].form # "sub"
             /\ i # 1 => (t[i].form = "sub" <=> GoesOn(t[i - 1]))
             /\ i # 1 /\ t[i].form = "sub" => t[i].is32 = Wide(t[i - 1])
    <2>1. CASE i = n + 1
        <3>1. t[i] = f /\ i - 1 = n /\ (i = 1 <=> n = 0)
            BY <1>1, <2>1
        <3> QED
            BY <1>4, <1>5, <3>1
    <2>2. CASE i # n + 1
        <3>1. i \in 1 .. n /\ t[i] = sent[i] /\ (i # 1 => t[i - 1] = sent[i - 1])
            BY <1>1, <2>2
        <3> QED
            BY <3>1 DEF SentOK
    <2> QED
        BY <2>1, <2>2
<1> QED
    BY <1>1, <1>6 DEF SentOK, t

\* A byte or the key turns up in front of what is on its way.
LEMMA FrontKeeps ==
    ASSUME NEW b \in Nat, input \in Seq(Nat), input' = <<b>> \o input
    PROVE  /\ input' \in Seq(Nat) /\ input' # <<>> /\ input'[1] = b
           /\ input # <<>> => Len(input') > 1 /\ input'[2] = input[1]
<1> DEFINE o == <<b>>
<1>1. o \in Seq(Nat) /\ Len(o) = 1 /\ o[1] = b
    OBVIOUS
<1> HIDE DEF o
<1>2. Places(Nat, o, input)
    BY <1>1, ConcatPlaces, Zenon
<1>3. /\ input' \in Seq(Nat) /\ Len(input') = Len(o) + Len(input)
      /\ \A i \in 1 .. Len(o) : input'[i] = o[i]
      /\ \A i \in 1 .. Len(input) : input'[Len(o) + i] = input[i]
    BY <1>2 DEF Places, o
<1>4. Len(input) \in Nat /\ (input # <<>> => Len(input) # 0)
    <2>1. input # <<>> => Len(input) # 0
        BY ShortIsEmpty, Zenon
    <2> QED
        BY <2>1
<1>5. Len(input') # 0 => input' # <<>>
    BY <1>3, ShortIsEmpty, Zenon
<1> QED
    BY <1>1, <1>3, <1>4, <1>5

\* A byte that is no ZPAD turns up between frames, or in front of the key.
LEMMA NoiseKeeps ==
    ASSUME MakeNoise, SentOK, input \in Seq(Nat), Received, Course, noise' # ZPAD
    PROVE  Received' /\ Course'
<1>1. PICK b \in Noise : noise' = b /\ input' = <<b>> \o input
    BY DEF MakeNoise
<1>2. b \in Nat /\ b # ZPAD /\ noise' # -1
    <2>1. b \in Nat
        BY SentBytes
    <2> QED
        BY <1>1, <2>1
<1>3. /\ noise = -1 /\ at = "hunt" /\ at' = at /\ got' = got /\ sent' = sent
      /\ pressed' = pressed
    BY DEF MakeNoise, readerVars
<1>4. /\ input' # <<>> /\ input'[1] = b
      /\ input # <<>> => Len(input') > 1 /\ input'[2] = input[1]
    BY <1>1, <1>2, FrontKeeps
<1>5. Received'
    BY <1>3 DEF Received
<1>6. CASE KeyWaits
    <2>1. KeyWaits'
        BY <1>2, <1>3, <1>4, <1>6 DEF KeyWaits
    <2> QED
        BY <1>5, <2>1 DEF Course
<1>7. CASE Between
    <2> DEFINE k == Len(got)
    <2>1. PICK junk \in Seq(Nat) :
             (\A i \in 1 .. Len(junk) : junk[i] # ZPAD) /\ input = junk \o Later(sent, k)
        BY <1>7, Zenon DEF Between
    <2>2. Later(sent, k) \in Seq(Nat)
        <3>1. sent \in Seq(Frames) /\ k \in 0 .. Len(sent)
            BY DEF SentOK, Received
        <3> QED
            BY <3>1, LaterFirst
    <2> DEFINE o == <<b>>
               j == o \o junk
    <2>3. o \in Seq(Nat) /\ Len(o) = 1 /\ o[1] = b
        BY <1>2
    <2>4. input' = o \o input
        BY <1>1
    <2> HIDE DEF o
    <2>5. Regrouped(Nat, o, junk, Later(sent, k))
        BY <2>1, <2>2, <2>3, Regroup, Zenon
    <2>6. j \in Seq(Nat) /\ input' = j \o Later(sent, k)
        BY <2>1, <2>4, <2>5, Zenon DEF Regrouped
    <2>7. Places(Nat, o, junk)
        BY <2>3, ConcatPlaces, Zenon
    <2>8. \A i \in 1 .. Len(j) : j[i] # ZPAD
        <3>1. /\ Len(j) = 1 + Len(junk) /\ j[1] = b
              /\ \A i \in 1 .. Len(junk) : j[1 + i] = junk[i]
            BY <2>3, <2>7 DEF Places
        <3> HIDE DEF j
        <3> TAKE i \in 1 .. Len(j)
        <3>2. CASE i = 1
            BY <1>2, <3>1, <3>2
        <3>3. CASE i # 1
            <4> DEFINE m == i - 1
            <4>1. m \in 1 .. Len(junk) /\ 1 + m = i
                BY <3>1, <3>3
            <4> HIDE DEF m
            <4> QED
                BY <2>1, <3>1, <4>1
        <3> QED
            BY <3>2, <3>3
    <2>9. /\ at' = "hunt" /\ (Len(got') = 0 \/ ~ GoesOn(sent'[Len(got')]))
          /\ input' = j \o Later(sent', Len(got'))
        BY <1>3, <1>7, <2>6 DEF Between
    <2> HIDE DEF j
    <2>10. Between'
        BY <2>6, <2>8, <2>9, Zenon DEF Between, j
    <2> QED
        BY <1>5, <2>10 DEF Course
<1>8. ~ Awaiting /\ ~ Middle
    <2>1. ~ Awaiting
        BY <1>3 DEF Awaiting
    <2>2. ASSUME Middle PROVE FALSE
        <3>1. PICK f \in Frames, rest \in Seq(Nat) : Inside(f, rest)
            BY <2>2, Zenon DEF Middle
        <3> QED
            BY <1>3, <3>1, InsideLeft
    <2> QED
        BY <2>1, <2>2
<1> QED
    BY <1>3, <1>6, <1>7, <1>8 DEF Course, Failed

\* A receiver that has failed was sent more than it holds.
LEMMA FailsTooLong == ASSUME Course, at = "failed" PROVE TooLong
<1>1. ASSUME Middle PROVE FALSE
    <2>1. PICK f \in Frames, rest \in Seq(Nat) : Inside(f, rest)
        BY <1>1, Zenon DEF Middle
    <2> QED
        BY <2>1, InsideLeft
<1>2. ~ KeyWaits /\ ~ Between /\ ~ Awaiting
    BY DEF KeyWaits, Between, Awaiting
<1> QED
    BY <1>1, <1>2 DEF Course, Failed

\* Every step keeps the receiver on its course.
LEMMA IntactStep == ASSUME IntactInv, [FramesNext]_frameVars PROVE IntactInv'
<1>1. SentOK /\ input \in Seq(Nat)
    BY DEF IntactInv
<1>2. ASSUME SentOK', input' \in Seq(Nat),
             ~ aborted' /\ noise' # ZPAD => Received' /\ Course'
      PROVE  IntactInv'
    BY <1>2, Zenon DEF IntactInv
<1>3. sent' = sent => SentOK'
    BY <1>1 DEF SentOK
<1>4. CASE UNCHANGED frameVars
    <2>1. /\ at' = at /\ wide' = wide /\ escaped' = escaped /\ bytes' = bytes
          /\ packet' = packet /\ got' = got /\ aborted' = aborted /\ input' = input
          /\ sent' = sent /\ pressed' = pressed /\ noise' = noise
        BY <1>4 DEF frameVars, readerVars
    <2>2. Received => Received'
        BY <2>1 DEF Received
    <2>3. KeyWaits => KeyWaits'
        BY <2>1 DEF KeyWaits
    <2>4. Between => Between'
        BY <2>1 DEF Between
    <2>5. Awaiting => Awaiting'
        BY <2>1 DEF Awaiting
    <2>6. ASSUME Middle PROVE Middle'
        <3>1. PICK f \in Frames, rest \in Seq(Nat) :
                 /\ Len(got) < Len(sent) /\ f = sent[Len(got) + 1]
                 /\ input = rest \o Later(sent, Len(got) + 1)
                 /\ Inside(f, rest)
            BY <2>6, Zenon DEF Middle
        <3>2. Inside(f, rest)'
            BY <2>1, <3>1, InsideStays
        <3>3. /\ Len(got') < Len(sent') /\ f = sent'[Len(got') + 1]
              /\ input' = rest \o Later(sent', Len(got') + 1)
            BY <2>1, <3>1
        <3> QED
            BY <3>2, <3>3, Zenon DEF Middle
    <2>7. Course => Course'
        BY <2>1, <2>3, <2>4, <2>5, <2>6 DEF Course, Failed, TooLong
    <2>8. SentOK' /\ input' \in Seq(Nat)
        BY <1>1, <1>3, <2>1
    <2> QED
        BY <1>2, <2>1, <2>2, <2>7, <2>8 DEF IntactInv
<1>5. ASSUME NEW f \in Frames, Write(f), SentOK' PROVE IntactInv'
    <2>1. input' = input \o Encoded(f) /\ aborted' = aborted /\ noise' = noise
        BY <1>5, Zenon DEF Write, readerVars
    <2>2. input' \in Seq(Nat)
        <3> DEFINE e == Encoded(f)
        <3>1. e \in Seq(Nat)
            BY EncodedTyped
        <3> HIDE DEF e
        <3> QED
            BY <1>1, <2>1, <3>1 DEF e
    <2>3. Received /\ Course => Received' /\ Course'
        BY <1>1, <1>5, WriteKeeps
    <2> QED
        BY <1>2, <1>5, <2>1, <2>2, <2>3 DEF IntactInv
<1>6. CASE SendHeader
    <2>1. PICK type \in {ZFIN, ZDATA, ZEOF}, flag \in FlagBytes, form \in {"hex", "bin", "bin32"} :
             /\ type = ZDATA <=> form # "hex"
             /\ Write([form |-> form, type |-> type, flag |-> flag])
        BY <1>6 DEF SendHeader
    <2> DEFINE f == [form |-> form, type |-> type, flag |-> flag]
    <2>2. f \in Frames
        <3>1. type \in Byte /\ flag \in Byte
            BY SentBytes
        <3> QED
            BY <3>1 DEF Frames
    <2>3. Write(f) /\ sent' = Append(sent, f)
        BY <2>1 DEF Write
    <2>4. f.form # "sub" /\ (f.type = ZDATA <=> f.form # "hex")
        BY <2>1
    <2>5. ~ InData
        BY <1>6 DEF SendHeader
    <2> HIDE DEF f
    <2>6. SentOK'
        BY <1>1, <2>2, <2>3, <2>4, <2>5, SentKeeps
    <2> QED
        BY <1>5, <2>2, <2>3, <2>6
<1>7. CASE SendSubpacket
    <2>1. PICK data \in Payloads, ender \in Enders :
             Write([form |-> "sub", data |-> data, ender |-> ender, is32 |-> Wide(Last(sent))])
        BY <1>7 DEF SendSubpacket
    <2>2. InData
        BY <1>7 DEF SendSubpacket
    <2> DEFINE w == Wide(Last(sent))
               f == [form |-> "sub", data |-> data, ender |-> ender, is32 |-> w]
    <2>3. w \in BOOLEAN
        <3>1. sent # <<>> /\ sent \in Seq(Frames)
            BY <1>1, <2>2 DEF InData, SentOK
        <3>2. Last(sent) \in Frames
            BY <3>1 DEF Last
        <3> QED
            BY <3>2, FrameParts
    <2>4. f \in Frames
        <3>1. data \in Seq(Byte)
            BY SentBytes
        <3> HIDE DEF w
        <3> QED
            BY <2>3, <3>1 DEF Frames
    <2>5. Write(f) /\ sent' = Append(sent, f)
        BY <2>1 DEF Write
    <2>6. f.form = "sub" /\ f.is32 = Wide(Last(sent))
        OBVIOUS
    <2> HIDE DEF f, w
    <2>7. SentOK'
        BY <1>1, <2>2, <2>4, <2>5, <2>6, SentKeeps
    <2> QED
        BY <1>5, <2>4, <2>5, <2>7
<1>8. CASE PressKey
    <2>1. /\ AbortKey /\ pressed' = TRUE /\ input' = <<KeyChar>> \o input
          /\ aborted' = aborted /\ noise' = noise /\ sent' = sent /\ got' = got /\ at' = at
        BY <1>8 DEF PressKey, readerVars
    <2>2. KeyChar \in Nat
        BY ConsoleInputAssumption
    <2>3. input' \in Seq(Nat) /\ input' # <<>> /\ input'[1] = KeyChar
        BY <1>1, <2>1, <2>2, FrontKeeps
    <2>4. Course => KeyWaits' \/ Failed'
        <3>1. at # "failed" => KeyWaits'
            BY <2>1, <2>3 DEF KeyWaits
        <3>2. TooLong => TooLong'
            BY <2>1 DEF TooLong
        <3> QED
            BY <2>1, <3>1, <3>2, FailsTooLong DEF Failed
    <2>5. Received => Received'
        BY <2>1 DEF Received
    <2> QED
        BY <1>2, <1>3, <2>1, <2>3, <2>4, <2>5 DEF IntactInv, Course
<1>9. CASE MakeNoise
    <2>1. /\ aborted' = aborted /\ noise = -1 /\ sent' = sent
        BY <1>9 DEF MakeNoise, readerVars
    <2>2. PICK b \in Noise : input' = <<b>> \o input
        BY <1>9 DEF MakeNoise
    <2>3. input' \in Seq(Nat)
        <3>1. b \in Nat
            BY SentBytes
        <3> QED
            BY <1>1, <2>2, <3>1, FrontKeeps
    <2>4. ~ aborted' /\ noise' # ZPAD => Received' /\ Course'
        <3> SUFFICES ASSUME ~ aborted', noise' # ZPAD PROVE Received' /\ Course'
            OBVIOUS
        <3>1. Received /\ Course
            BY <2>1 DEF IntactInv, ZPAD
        <3> QED
            BY <1>1, <1>9, <3>1, NoiseKeeps
    <2> QED
        BY <1>2, <1>3, <2>1, <2>3, <2>4
<1>10. CASE ReadAbort
    <2>1. aborted' = TRUE /\ sent' = sent /\ input # <<>> /\ input' = Tail(input)
        BY <1>10 DEF ReadAbort, ReadByte
    <2>2. input' \in Seq(Nat)
        BY <1>1, <2>1
    <2> QED
        BY <1>2, <1>3, <2>1, <2>2
<1>11. CASE HuntByte \/ HexByte \/ ZdleRead \/ DataByte
    <2>1. /\ input' \in Seq(Nat) /\ sent' = sent /\ aborted' = aborted /\ noise' = noise
        BY <1>1, <1>11, ReadFacts
    <2>2. at # "failed"
        BY <1>11 DEF HuntByte, HexByte, ZdleRead, DataByte, Hunting, Decoding
    <2>3. ASSUME Received, Course PROVE Received' /\ Course'
        <3>1. CASE KeyWaits
            BY <1>1, <1>11, <2>3, <3>1, KeyRead DEF Course
        <3>2. CASE Between
            BY <1>1, <1>11, <2>3, <3>2, BetweenRead DEF Course
        <3>3. ASSUME Middle PROVE Received' /\ Course'
            BY <1>1, <1>11, <2>3, <3>3, MiddleRead DEF Course
        <3>4. CASE Awaiting
            <4>1. input # <<>>
                BY <1>1, <1>11, ReadFacts
            <4>2. Middle
                BY <1>1, <2>3, <3>4, <4>1, AwaitingIsMiddle
            <4> QED
                BY <3>3, <4>2
        <3> QED
            BY <2>2, <2>3, <3>1, <3>2, <3>3, <3>4 DEF Course, Failed
    <2> QED
        BY <1>2, <1>3, <2>1, <2>3 DEF IntactInv
<1> QED
    BY <1>4, <1>6, <1>7, <1>8, <1>9, <1>10, <1>11 DEF FramesNext

\* What the receiver has taken is what was sent, up to where it is.
LEMMA IntactHolds == ASSUME IntactInv PROVE FramesIntact
<1> SUFFICES ASSUME ~ aborted, noise # ZPAD
             PROVE  /\ IsPrefix(got, SentFrames)
                    /\ input = <<>> /\ at # "failed" => got = SentFrames
                    /\ at = "failed" => TooLong
    BY DEF FramesIntact
<1> DEFINE K == {Known(f) : f \in Frames}
           t == SentFrames
<1>1. SentOK /\ input \in Seq(Nat) /\ Received /\ Course
    BY DEF IntactInv
<1>2. /\ sent \in Seq(Frames) /\ got \in Seq(K) /\ Len(got) <= Len(sent)
      /\ Len(got) \in Nat /\ Len(sent) \in Nat
      /\ \A i \in 1 .. Len(got) : got[i] = Known(sent[i])
    BY <1>1 DEF SentOK, Received
<1>3. t \in Seq(K) /\ Len(t) = Len(sent) /\ \A i \in 1 .. Len(sent) : t[i] = Known(sent[i])
    <2>1. DOMAIN sent = 1 .. Len(sent)
        BY <1>2
    <2>2. \A i \in 1 .. Len(sent) : Known(sent[i]) \in K
        BY <1>2
    <2>3. t = [i \in 1 .. Len(sent) |-> Known(sent[i])]
        BY <2>1 DEF SentFrames
    <2> HIDE DEF K, t
    <2>4. t \in [1 .. Len(sent) -> K] /\ \A i \in 1 .. Len(sent) : t[i] = Known(sent[i])
        BY <2>2, <2>3
    <2>5. t \in Seq(K) /\ Len(t) = Len(sent)
        <3> PICK n \in Nat : n = Len(sent)
            BY <1>2
        <3>1. t \in [1 .. n -> K]
            BY <2>4
        <3>2. t \in Seq(K) /\ Len(t) = n
            BY <3>1
        <3> QED
            BY <3>2
    <2> QED
        BY <2>4, <2>5
<1> HIDE DEF K, t
<1>4. IsPrefix(got, t)
    <2> DEFINE a == SubSeq(got, 1, Len(got))
               b == SubSeq(t, 1, Len(got))
    <2>1. /\ a \in Seq(K) /\ Len(a) = Len(got) /\ \A i \in 1 .. Len(got) : a[i] = got[i]
          /\ b \in Seq(K) /\ Len(b) = Len(got) /\ \A i \in 1 .. Len(got) : b[i] = t[i]
        BY <1>2, <1>3
    <2> HIDE DEF a, b
    <2>2. \A i \in 1 .. Len(a) : a[i] = b[i]
        BY <1>2, <1>3, <2>1
    <2>3. a = b
        BY <2>1, <2>2, SeqEqual
    <2> QED
        BY <1>2, <1>3, <2>3 DEF IsPrefix, a, b
<1>5. ASSUME input = <<>>, at # "failed" PROVE got = t
    <2>1. ~ KeyWaits
        <3>1. ~ (Len(input) > 1)
            BY <1>5
        <3> QED
            BY <1>5, <3>1 DEF KeyWaits
    <2>2. ~ Middle
        <3> SUFFICES ASSUME Middle PROVE FALSE
            OBVIOUS
        <3>1. PICK f \in Frames, rest \in Seq(Nat) :
                 /\ Len(got) < Len(sent)
                 /\ input = rest \o Later(sent, Len(got) + 1)
                 /\ Inside(f, rest)
            BY Zenon DEF Middle
        <3>2. rest # <<>>
            BY <3>1, InsideLeft
        <3> DEFINE l == Later(sent, Len(got) + 1)
        <3>3. l \in Seq(Nat)
            <4>1. Len(got) + 1 \in 0 .. Len(sent)
                BY <1>2, <3>1
            <4> QED
                BY <1>2, <4>1, LaterFirst
        <3>4. BothFrom(Nat, rest, l)
            BY <3>2, <3>3, FirstOfBoth, Zenon
        <3>5. rest \o l # <<>>
            BY <3>4, Zenon DEF BothFrom
        <3> QED
            BY <1>5, <3>1, <3>5
    <2>3. Later(sent, Len(got)) = <<>>
        <3> DEFINE l == Later(sent, Len(got))
        <3>1. l \in Seq(Nat)
            <4>1. Len(got) \in 0 .. Len(sent)
                BY <1>2
            <4> QED
                BY <1>2, <4>1, LaterFirst
        <3>2. CASE Awaiting
            BY <1>5, <3>2 DEF Awaiting
        <3>3. CASE Between
            <4>1. PICK junk \in Seq(Nat) : input = junk \o l
                BY <3>3, Zenon DEF Between
            <4> HIDE DEF l
            <4>2. Len(l) = 0
                <5>1. Len(junk \o l) = 0
                    BY <1>5, <4>1
                <5>2. Len(junk \o l) = Len(junk) + Len(l) /\ Len(junk) \in Nat /\ Len(l) \in Nat
                    BY <3>1
                <5> QED
                    BY <5>1, <5>2
            <4>3. l = <<>>
                BY <3>1, <4>2, ShortIsEmpty, Zenon
            <4> QED
                BY <4>3 DEF l
        <3> QED
            BY <1>1, <1>5, <2>1, <2>2, <3>2, <3>3 DEF Course, Failed
    <2>4. Len(got) = Len(sent)
        <3>1. Len(got) \in 0 .. Len(sent)
            BY <1>2
        <3>2. Len(got) < Len(sent) => Later(sent, Len(got)) # <<>>
            BY <1>2, <3>1, LaterFirst
        <3> QED
            BY <1>2, <2>3, <3>2
    <2>5. \A i \in 1 .. Len(got) : got[i] = t[i]
        BY <1>2, <1>3, <2>4
    <2>6. Len(got) = Len(t)
        BY <1>3, <2>4
    <2> QED
        BY <1>2, <1>3, <2>5, <2>6, SeqEqual
<1>6. at = "failed" => TooLong
    BY <1>1, FailsTooLong
<1> QED
    BY <1>4, <1>5, <1>6 DEF t

\* Nothing is sent and nothing received at first.
LEMMA IntactInit == ASSUME FramesInit PROVE IntactInv
<1>1. /\ input = <<>> /\ sent = <<>> /\ got = <<>> /\ at = "hunt"
    BY DEF FramesInit
<1>2. SentOK
    BY <1>1 DEF SentOK
<1>3. Received
    BY <1>1 DEF Received
<1>4. Between
    <2>1. Later(sent, Len(got)) = <<>>
        <3>1. <<>> \in Seq(Frames) /\ Len(<<>>) = 0 /\ 0 \in 0 .. 0
            OBVIOUS
        <3>2. Later(<<>>, 0) = <<>>
            BY <3>1, LaterFirst
        <3> QED
            BY <1>1, <3>1, <3>2
    <2>2. <<>> \in Seq(Nat) /\ <<>> \o <<>> = <<>>
        OBVIOUS
    <2>3. \A i \in 1 .. Len(<<>>) : <<>>[i] # ZPAD
        OBVIOUS
    <2>4. Len(got) = 0
        BY <1>1
    <2>5. input = <<>> \o Later(sent, Len(got))
        BY <1>1, <2>1, <2>2
    <2> QED
        BY <1>1, <2>2, <2>3, <2>4, <2>5, Zenon DEF Between
<1> QED
    BY <1>1, <1>2, <1>3, <1>4 DEF IntactInv, Course

\* For any data, settings and noise: what the receiver has taken apart is what
\* the senders put together, in order and to the last frame.
THEOREM FramesComeOutWhole == Spec => []FramesIntact
<1>1. Init => IntactInv
    BY IntactInit DEF Init
<1>2. IntactInv /\ [Next]_vars => IntactInv'
    BY PartSteps, IntactStep
<1>3. IntactInv => FramesIntact
    BY IntactHolds
<1> QED
    BY <1>1, <1>2, <1>3, PTL DEF Spec

=============================================================================
