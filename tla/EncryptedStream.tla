--------------------------- MODULE EncryptedStream ---------------------------
(***************************************************************************)
(* The envelope of a stream that is encrypted chunk by chunk and arrives   *)
(* in chunks that need not be the same.  Each call starts over with the    *)
(* first byte of the key.  Bytes are bits, so that exclusive or is a sum.  *)
(***************************************************************************)
EXTENDS Integers, SequencesExt

CONSTANTS
    KeyLen,       \* sizeof ctx->key: 32
    Keys,         \* the keys an application may set, of any length
    MaxPlain      \* bound on the bytes encrypted

ASSUME EncryptedStreamAssumption ==
    /\ KeyLen \in Nat \ {0}
    /\ Keys \subseteq Seq({0, 1})
    /\ MaxPlain \in Nat

VARIABLES
    key,          \* ctx->key, the same at both ends
    plain,        \* history: the bytes encrypted
    cipher,       \* the encrypted bytes on their way
    frames,       \* history: the lengths of the chunks on their way
    clear,        \* history: the bytes decrypted
    recut,        \* history: a chunk was not decrypted as it was encrypted
    ragged        \* history: a chunk began in the middle of the key

encVars == <<key, plain, cipher, frames, clear, recut, ragged>>

\* Seeded fault: the array is one byte longer than the key of the interface.
StoredKeyLong(k) == [i \in 1 .. KeyLen + 1 |-> IF i <= Len(k) THEN k[i] ELSE 0]

\* encrypted_stream_init: cut off, or filled up with zeros
StoredKey(k) == [i \in 1 .. KeyLen |-> IF i <= Len(k) THEN k[i] ELSE 0]

EncInit ==
    /\ \E k \in Keys : key = StoredKey(k)
    /\ plain = <<>> /\ cipher = <<>> /\ clear = <<>> /\ frames = <<>>
    /\ recut = FALSE /\ ragged = FALSE

\* The loop of encrypt and of decrypt
Masked(in) == [i \in DOMAIN in |-> (in[i] + key[1 + ((i - 1) % Len(key))]) % 2]

\* A chunk is what the output buffer has room for.
Encrypt ==
    \E n \in 1 .. MaxPlain :
       /\ Len(plain) + n <= MaxPlain
       /\ \E in \in [1 .. n -> {0, 1}] :
             plain' = plain \o in /\ cipher' = cipher \o Masked(in)
       /\ frames' = Append(frames, n)
       /\ ragged' = (ragged \/ Len(plain) % KeyLen # 0)
       /\ UNCHANGED <<key, clear, recut>>

\* The bytes may arrive cut in any way.
Decrypt ==
    \E n \in 1 .. Len(cipher) :
       /\ clear' = clear \o Masked(SubSeq(cipher, 1, n))
       /\ cipher' = SubSeq(cipher, n + 1, Len(cipher))
       /\ recut' = (recut \/ n # Head(frames))
       /\ frames' = IF recut' THEN <<0>> ELSE Tail(frames)
       /\ ragged' = (ragged \/ Len(clear) % KeyLen # 0)
       /\ UNCHANGED <<key, plain>>

\* The receiver has the sender's bytes when it decrypts the chunks as they
\* were encrypted, or when every chunk of both ends but the last is a whole
\* number of keys (as the 128 and 1024 bytes of a block are).
RoundTrip ==
    ~ recut \/ ~ ragged => IsPrefix(clear, plain) /\ (cipher = <<>> => clear = plain)

=============================================================================
