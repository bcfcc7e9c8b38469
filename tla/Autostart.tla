------------------------------ MODULE Autostart ------------------------------
(***************************************************************************)
(* The matcher that starts a receive when "rz" and a return go by.         *)
(***************************************************************************)
EXTENDS Integers, Sequences

CONSTANTS
    BufLen,       \* slots of g_autostart_buf: 8
    IdxMod        \* values of g_autostart_idx, a multiple of BufLen

ASSUME AutostartAssumption ==
    /\ BufLen \in Nat /\ BufLen >= 3
    /\ IdxMod \in Nat \ {0} /\ IdxMod % BufLen = 0

VARIABLES
    autoBuf,      \* g_autostart_buf
    autoIdx,      \* g_autostart_idx
    started,      \* what the last call returned
    lastThree     \* history: the last bytes given, at most three

autoVars == <<autoBuf, autoIdx, started, lastThree>>

AutoBytes == {"r", "z", "return", "other"}

AutoInit ==
    /\ autoBuf = [i \in 0 .. BufLen - 1 |-> "other"]
    /\ autoIdx = 0
    /\ started = FALSE
    /\ lastThree = <<>>

\* Seeded fault: the slot is not computed behind the end of the buffer.
ThirdLastStuck(idx) == IF idx % BufLen >= 3 THEN (idx % BufLen) - 3 ELSE 0

\* The slot of the third last byte when idx is the next to be filled
ThirdLast(idx) == (idx - 3) % BufLen

AutoByte ==
    \E b \in AutoBytes :
       /\ autoBuf' = [autoBuf EXCEPT ![autoIdx % BufLen] = b]
       /\ autoIdx' = (autoIdx + 1) % IdxMod
       /\ started' =
             LET k == ThirdLast(autoIdx')
             IN  /\ autoIdx' >= 3
                 /\ autoBuf'[k] = "r"
                 /\ autoBuf'[(k + 1) % BufLen] = "z"
                 /\ autoBuf'[(k + 2) % BufLen] = "return"
       /\ lastThree' = (IF Len(lastThree) = 3 THEN Tail(lastThree) ELSE lastThree) \o <<b>>

\* A receive is started by the return that ends "rz", wherever in the buffer
\* the three are, and by nothing else; only the first calls after the index
\* has wrapped miss it.
StartsOnRz == started <=> lastThree = <<"r", "z", "return">> /\ autoIdx >= 3

=============================================================================
