----------------------------- MODULE ConsoleInput -----------------------------
(***************************************************************************)
(* How console_read_byte watches for the user: it looks at every byte it   *)
(* hands to an engine, whoever sent it.  g_can_count is never reset by a   *)
(* transfer.                                                               *)
(***************************************************************************)
EXTENDS Integers, Sequences

CONSTANTS
    AbortKey,     \* setting abort_key
    KeyChar       \* setting abort_key_char

CAN == 24

ASSUME ConsoleInputAssumption == AbortKey \in BOOLEAN /\ KeyChar \in 0 .. 255

VARIABLES
    input,        \* bytes on their way from the terminal
    canCount      \* g_can_count

\* read_byte returns -2 instead of this byte.
MeansAbort(b) == AbortKey /\ (b = KeyChar \/ (b = CAN /\ canCount = 1))

\* Seeded fault: the count survives other bytes.
CanCountSticky(b) ==
    IF AbortKey /\ b = CAN THEN (canCount + 1) % 2 ELSE canCount

\* g_can_count after this byte
CanCountAfter(b) ==
    IF ~ AbortKey \/ b = KeyChar THEN canCount
    ELSE IF b = CAN THEN (canCount + 1) % 2 ELSE 0

\* console_read_byte takes the next byte.
ReadByte ==
    /\ input # <<>>
    /\ input' = Tail(input)
    /\ canCount' = CanCountAfter(Head(input))

=============================================================================
