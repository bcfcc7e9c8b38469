----------------------------- MODULE ZmodemFrames -----------------------------
(***************************************************************************)
(* Headers and data subpackets of ZMODEM as bytes: what the senders write  *)
(* and how read_header_rx and read_subpacket_rx take it apart again, one   *)
(* read of the console after the other.  The four flag bytes of a header   *)
(* are one, and a check of one byte (two for the 32-bit frames) stands     *)
(* for the CRC; like it, it may have any value and is escaped.             *)
(***************************************************************************)
EXTENDS ConsoleInput, SequencesExt

CONSTANTS
    Payloads,     \* what a data subpacket may hold
    FlagBytes,    \* values of a header's flag byte
    Noise,        \* bytes that may turn up in front of a header
    MaxSub,       \* capacity of the receiver's buffer
    MaxFrames     \* bound on the frames sent

ASSUME FramesAssumption ==
    /\ Payloads \subseteq Seq(0 .. 255)
    /\ FlagBytes \subseteq 0 .. 255 /\ Noise \subseteq 0 .. 255
    /\ MaxSub \in Nat

VARIABLES
    sent,         \* the frames the sender has written
    at,           \* where the receiver is
    wide,         \* is_crc32 of the last header
    escaped,      \* a ZDLE was read, what it escapes was not
    bytes,        \* the bytes of this header, subpacket or check so far
    packet,       \* the subpacket whose check is being read
    got,          \* the frames the receiver has accepted
    pressed,      \* history: the user has pressed the abort key
    noise,        \* history: the byte that turned up, -1 if none has
    keySent,      \* history: a frame had the value of the abort key in it
    aborted       \* history: read_byte has returned -2

readerVars == <<at, wide, escaped, bytes, packet, got, aborted>>
frameVars == <<input, canCount, sent, readerVars, pressed, noise, keySent>>

ZPAD == 42   ZDLE == 24   ZBIN == 65   ZHEX == 66   ZBIN32 == 67
ZFIN == 8    ZDATA == 10  ZEOF == 11   XON == 17
ZCRCE == 104   ZCRCG == 105   ZCRCQ == 106   ZCRCW == 107
ZRUB0 == 108   ZRUB1 == 109

Enders == ZCRCE .. ZCRCW

-----------------------------------------------------------------------------
(* The senders *)

Xor40(b) == IF (b \div 64) % 2 = 1 THEN b - 64 ELSE b + 64

Check(s) ==
    LET sum[i \in 0 .. Len(s)] == IF i = 0 THEN 0 ELSE (sum[i - 1] + s[i]) % 256
    IN  sum[Len(s)]

CheckOf(s, is32) == IF is32 THEN <<Check(s), 255 - Check(s)>> ELSE <<Check(s)>>

HexDigit(d) == IF d < 10 THEN 48 + d ELSE 87 + d

Hex(s) == FlattenSeq([i \in DOMAIN s |-> <<HexDigit(s[i] \div 16), HexDigit(s[i] % 16)>>])

\* send_zdle_byte_tx
ZdleByte(b) == IF b \in {ZDLE, 17, 19, 129, 131} THEN <<ZDLE, Xor40(b)>> ELSE <<b>>

\* What other programs escape, which this receiver understands too
ForeignByte(b) ==
    CASE b = 127 -> <<ZDLE, ZRUB0>> [] b = 255 -> <<ZDLE, ZRUB1>> [] OTHER -> ZdleByte(b)

Zdle(s, is32) ==
    FlattenSeq([i \in DOMAIN s |-> IF is32 THEN ForeignByte(s[i]) ELSE ZdleByte(s[i])])

HexHeader(type, flag) ==
    <<ZPAD, ZPAD, ZDLE, ZHEX>> \o Hex(<<type, flag>> \o CheckOf(<<type, flag>>, FALSE))
      \o <<13, 10>> \o (IF type = ZFIN THEN <<>> ELSE <<XON>>)

BinHeader(type, flag, is32) ==
    <<ZPAD, ZDLE, IF is32 THEN ZBIN32 ELSE ZBIN>>
      \o Zdle(<<type, flag>> \o CheckOf(<<type, flag>>, is32), is32)

Subpacket(data, ender, is32) ==
    Zdle(data, is32) \o <<ZDLE, ender>> \o Zdle(CheckOf(Append(data, ender), is32), is32)

\* Only other programs write 32-bit frames.
Header(type, flag, form) ==
    IF form = "hex" THEN HexHeader(type, flag) ELSE BinHeader(type, flag, form = "bin32")

\* Whether frame f, and so the subpackets behind it, are 32-bit frames
Wide(f) == IF f.form = "sub" THEN f.is32 ELSE f.form = "bin32"

Encoded(f) ==
    IF f.form = "sub" THEN Subpacket(f.data, f.ender, f.is32)
    ELSE Header(f.type, f.flag, f.form)

\* Subpackets go on behind f.
GoesOn(f) == IF f.form = "sub" THEN f.ender \in {ZCRCG, ZCRCQ} ELSE f.type = ZDATA

InData == sent # <<>> /\ GoesOn(Last(sent))

\* The bytes of a frame go out behind those of the frame before.
Write(frame) ==
    /\ Len(sent) < MaxFrames
    /\ sent' = Append(sent, frame)
    /\ input' = input \o Encoded(frame)
    /\ keySent' = (keySent \/ Contains(Encoded(frame), KeyChar))
    /\ UNCHANGED <<canCount, readerVars, pressed, noise>>

SendHeader ==
    /\ ~ InData
    /\ \E type \in {ZFIN, ZDATA, ZEOF}, flag \in FlagBytes, form \in {"hex", "bin", "bin32"} :
          /\ type = ZDATA <=> form # "hex"
          /\ Write([form |-> form, type |-> type, flag |-> flag])

SendSubpacket ==
    /\ InData
    /\ \E data \in Payloads, ender \in Enders :
          Write([form |-> "sub", data |-> data, ender |-> ender, is32 |-> Wide(Last(sent))])

PressKey ==
    /\ AbortKey /\ ~ pressed
    /\ pressed' = TRUE
    /\ input' = <<KeyChar>> \o input
    /\ UNCHANGED <<canCount, sent, readerVars, noise, keySent>>

\* Something else turns up while the receiver looks for a header.
MakeNoise ==
    /\ noise = -1 /\ at = "hunt"
    /\ \E b \in Noise : noise' = b /\ input' = <<b>> \o input
    /\ UNCHANGED <<canCount, sent, readerVars, pressed, keySent>>

-----------------------------------------------------------------------------
(* The receiver *)

Hunting == {"hunt", "pad", "pad2", "format"}

Decoding == {"bin", "sub", "check"}

FramesInit ==
    /\ input = <<>> /\ canCount \in {0, 1}     \* as an earlier transfer left it
    /\ sent = <<>> /\ got = <<>>
    /\ at = "hunt" /\ wide = FALSE /\ escaped = FALSE
    /\ bytes = <<>> /\ packet = <<>>
    /\ pressed = FALSE /\ noise = -1 /\ keySent = FALSE /\ aborted = FALSE

GoTo(place) == at' = place /\ bytes' = <<>> /\ escaped' = FALSE

Fail == GoTo("failed") /\ UNCHANGED <<wide, packet, got>>

\* read_byte returns -2, which ends every function that reads.
ReadAbort ==
    /\ at # "failed"
    /\ ReadByte /\ MeansAbort(Head(input))
    /\ Fail
    /\ aborted' = TRUE
    /\ UNCHANGED <<sent, pressed, noise, keySent>>

\* read_byte returns the byte that Head(input) is.
Reads ==
    /\ ReadByte /\ ~ MeansAbort(Head(input))
    /\ UNCHANGED <<sent, pressed, noise, keySent, aborted>>

\* Seeded fault: a second ZPAD in front of ZDLE is not expected.
HuntOnePad ==
    {<<"hunt", ZPAD, "pad">>, <<"pad", ZDLE, "format">>,
     <<"format", ZHEX, "hex">>, <<"format", ZBIN, "bin">>, <<"format", ZBIN32, "bin">>}

\* The bytes that lead to a header; any other starts the search again.
Hunt ==
    {<<"hunt", ZPAD, "pad">>, <<"pad", ZPAD, "pad2">>, <<"pad", ZDLE, "format">>,
     <<"pad2", ZDLE, "format">>,
     <<"format", ZHEX, "hex">>, <<"format", ZBIN, "bin">>, <<"format", ZBIN32, "bin">>}

HuntByte ==
    /\ at \in Hunting /\ Reads
    /\ LET found == {h \in Hunt : h[1] = at /\ h[2] = Head(input)}
       IN  GoTo(IF found = {} THEN "hunt" ELSE (CHOOSE h \in found : TRUE)[3])
    /\ wide' = IF at = "format" THEN Head(input) = ZBIN32 ELSE wide
    /\ UNCHANGED <<packet, got>>

\* The header's bytes are in: a check that fails is -1 to the caller.
HeaderIn(type, flag, check, is32) ==
    IF check = CheckOf(<<type, flag>>, is32)
    THEN /\ got' = Append(got, [type |-> type, flag |-> flag])
         /\ GoTo(IF type = ZDATA THEN "sub" ELSE "hunt")
         /\ UNCHANGED <<wide, packet>>
    ELSE Fail

Nibble(c) == CASE c \in 48 .. 57 -> c - 48 [] c \in 97 .. 102 -> c - 87
               [] c \in 65 .. 70 -> c - 55 [] OTHER -> -1

HexByte ==
    /\ at = "hex" /\ Reads
    /\ LET s == Append(bytes, Head(input))
           value(i) == 16 * Nibble(s[2 * i - 1]) + Nibble(s[2 * i])
       IN  IF Len(s) < 6
           THEN bytes' = s /\ UNCHANGED <<at, wide, escaped, packet, got>>
           ELSE IF \E i \in 1 .. 6 : Nibble(s[i]) = -1 THEN Fail
           ELSE HeaderIn(value(1), value(2), <<value(3)>>, FALSE)

\* read_zdle_byte_rx, of a byte behind ZDLE
Unescape(b) == CASE b = ZRUB0 -> 127 [] b = ZRUB1 -> 255
                 [] b \in Enders -> b [] OTHER -> Xor40(b)

ZdleRead ==
    /\ at \in Decoding /\ ~ escaped
    /\ Reads /\ Head(input) = ZDLE
    /\ escaped' = TRUE
    /\ UNCHANGED <<at, wide, bytes, packet, got>>

\* The next byte v, an ender of a subpacket if special
Decoded(v, special) ==
    LET s == Append(bytes, v)
        n == Len(CheckOf(<<>>, wide))
    IN  CASE at = "bin" /\ Len(s) = 2 + n -> HeaderIn(s[1], s[2], SubSeq(s, 3, 2 + n), wide)
          [] at = "sub" /\ special ->
               packet' = s /\ GoTo("check") /\ UNCHANGED <<wide, got>>
          [] at = "sub" /\ ~ special /\ Len(s) > MaxSub -> Fail
          [] at = "check" /\ Len(s) = n /\ s # CheckOf(packet, wide) -> Fail
          [] at = "check" /\ Len(s) = n /\ s = CheckOf(packet, wide) ->
               /\ got' = Append(got, [data |-> Front(packet), ender |-> Last(packet)])
               /\ GoTo(IF Last(packet) \in {ZCRCE, ZCRCW} THEN "hunt" ELSE "sub")
               /\ UNCHANGED <<wide, packet>>
          [] OTHER -> bytes' = s /\ escaped' = FALSE /\ UNCHANGED <<at, wide, packet, got>>

DataByte ==
    /\ at \in Decoding
    /\ Reads /\ (escaped \/ Head(input) # ZDLE)
    /\ LET b == Head(input)
       IN  Decoded(IF escaped THEN Unescape(b) ELSE b, escaped /\ b \in Enders)

FramesNext ==
    \/ SendHeader \/ SendSubpacket \/ PressKey \/ MakeNoise
    \/ ReadAbort \/ HuntByte \/ HexByte \/ ZdleRead \/ DataByte

-----------------------------------------------------------------------------

\* What a receiver knows of frame f, and of the frames sent
Known(f) ==
    IF f.form = "sub" THEN [data |-> f.data, ender |-> f.ender]
    ELSE [type |-> f.type, flag |-> f.flag]

SentFrames == [i \in DOMAIN sent |-> Known(sent[i])]

\* A subpacket was sent that the receiver's buffer does not hold.
TooLong == \E i \in DOMAIN sent : sent[i].form = "sub" /\ Len(sent[i].data) > MaxSub

\* Whatever bytes the data holds, the receiver takes apart what the sender put
\* together, frame by frame and to the last one, with any one byte in front of
\* a header but a ZPAD, which hides the header behind it; and it gives up only at
\* a subpacket that does not fit.
FramesIntact ==
    ~ aborted /\ noise # ZPAD =>
       /\ IsPrefix(got, SentFrames)
       /\ input = <<>> /\ at # "failed" => got = SentFrames
       /\ at = "failed" => TooLong

\* No frame trips the watch for two CANs, although ZDLE is a CAN and the count
\* comes from an earlier transfer: a transfer is aborted only when the user
\* pressed the key, what turned up was the key's byte or a CAN, or a frame
\* holds the key's byte.
AbortHasCause == aborted => pressed \/ noise \in {CAN, KeyChar} \/ keySent

\* What the comment in console_read_byte says of -2.
AbortByUser == aborted => pressed

=============================================================================
