----------------------------- MODULE DeltaUpdate -----------------------------
(***************************************************************************)
(* A patch applied to a base image chunk by chunk, each chunk where the    *)
(* output of the one before ended.  Bytes are bits, exclusive or a sum.    *)
(***************************************************************************)
EXTENDS Integers, Sequences

CONSTANTS
    Base,         \* the base image, a sequence of bits
    MaxPatch      \* bound on the bytes of the patch

ASSUME DeltaAssumption == Base \in Seq({0, 1}) /\ MaxPatch \in Nat

VARIABLES
    hasBase,      \* the caller passes the base image (or NULL)
    patch,        \* history: the bytes of the patch so far
    patchOffset,  \* ctx->patch_offset
    written,      \* ctx->target_written
    target,       \* history: the output of the calls
    shortOut      \* history: an output buffer was too small for its chunk

deltaVars == <<hasBase, patch, patchOffset, written, target, shortOut>>

DeltaInit ==
    /\ hasBase \in BOOLEAN
    /\ patch = <<>> /\ patchOffset = 0 /\ written = 0 /\ target = <<>>
    /\ shortOut = FALSE

\* Seeded fault: each chunk starts over with the base.
BaseAtChunk(i) == i

\* The byte of the base that byte i of a chunk is applied to.
BaseAt(i) == written + i

\* Byte i of the output for a chunk.  base_image_size is stored and never
\* compared: behind the base the loop reads whatever is there.
Patched(diff, beyond, i) ==
    IF ~ hasBase THEN diff[i]
    ELSE IF BaseAt(i) <= Len(Base) THEN (diff[i] + Base[BaseAt(i)]) % 2 ELSE beyond[i]

\* delta_update_apply_chunk with n bytes of which m fit into the output
Apply(n, m) ==
    /\ Len(patch) + n <= MaxPatch
    /\ \E diff \in [1 .. n -> {0, 1}], beyond \in [1 .. m -> {0, 1}] :
          /\ patch' = patch \o diff
          /\ target' = target \o [i \in 1 .. m |-> Patched(diff, beyond, i)]
    /\ written' = written + m
    /\ patchOffset' = patchOffset + n
    /\ shortOut' = (shortOut \/ m < n)
    /\ UNCHANGED hasBase

ApplyChunk == \E n \in 1 .. MaxPatch : \E m \in 1 .. n : Apply(n, m)

\* As long as every output buffer was large enough the target is, up to the
\* end of the base, the base with the patch applied byte for byte, however the
\* patch was cut.  A chunk that was too long is only seen in the two offsets,
\* which it leaves apart: every call returns 0.
PatchedInPlace ==
    /\ shortOut <=> written < patchOffset
    /\ ~ shortOut =>
          /\ Len(target) = patchOffset
          /\ \A i \in DOMAIN target :
                i <= Len(Base) =>
                  target[i] = (patch[i] + IF hasBase THEN Base[i] ELSE 0) % 2

=============================================================================
