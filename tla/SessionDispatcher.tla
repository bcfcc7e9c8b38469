------------------------- MODULE SessionDispatcher -------------------------
(***************************************************************************)
(* The table of sessions shared by the threads that drive the transports.  *)
(* No lock protects it: a thread may be preempted between any two accesses *)
(* to the table, so each access is a step.  A thread serves one channel,   *)
(* creates a session for it, uses it, closes it, and may close it again    *)
(* by an id it has kept.  One more thread counts the active sessions.      *)
(***************************************************************************)
EXTENDS Integers, FiniteSets

CONSTANTS
    Threads,        \* threads that use the dispatcher
    Slots,          \* MAX_DISPATCH_SESSIONS, 4 in the code
    Channel         \* Channel[t]: the channel type thread t serves

ASSUME DispatcherAssumption == Slots \in Nat \ {0}

VARIABLES
    active,         \* active[i]: sessions[i].active
    channel,        \* channel[i]: sessions[i].channel_type
    pc,             \* where a thread is
    slot,           \* the slot a thread looks at, claims, holds or has closed
    at,             \* the slot the count looks at, Slots behind the last
    count,          \* active sessions counted so far
    steady,         \* history: sessions active ever since the count began
    ever,           \* history: sessions active at any time since it began
    raced,          \* history: two threads were inside create at a time
    strayed         \* history: a kept id has closed the session of another

tableVars == <<active, channel, pc, slot>>
countVars == <<at, count, steady, ever>>
vars == <<tableVars, countVars, raced, strayed>>

Sessions == 0 .. Slots - 1

ChannelTypes == {Channel[t] : t \in Threads}

\* Where a thread is inside session_dispatcher_create
Creating == {"probe", "claim", "type"}

TypeOK ==
    /\ active \in [Sessions -> BOOLEAN]
    /\ channel \in [Sessions -> ChannelTypes]
    /\ pc \in [Threads -> {"idle", "open", "closed"} \cup Creating]
    /\ slot \in [Threads -> 0 .. Slots]
    /\ at \in 0 .. Slots /\ count \in 0 .. Slots
    /\ {raced, strayed} \subseteq BOOLEAN

\* After session_dispatcher_init, which sets every channel to the same type
Init ==
    /\ active = [i \in Sessions |-> FALSE]
    /\ \E c \in ChannelTypes : channel = [i \in Sessions |-> c]
    /\ pc = [t \in Threads |-> "idle"]
    /\ slot = [t \in Threads |-> 0]
    /\ at = Slots /\ count = 0 /\ steady = {} /\ ever = {}
    /\ raced = FALSE /\ strayed = FALSE

GoTo(t, place, i) ==
    /\ pc' = [pc EXCEPT ![t] = place]
    /\ slot' = [slot EXCEPT ![t] = i]

ActiveNow == {i \in Sessions : active[i]}

-----------------------------------------------------------------------------

Create(t) ==
    /\ pc[t] \in {"idle", "closed"}
    /\ raced' = (raced \/ \E u \in Threads : pc[u] \in Creating)
    /\ GoTo(t, "probe", 0)
    /\ UNCHANGED <<active, channel, strayed>>

\* Seeded fault: the scan runs past the end of the table.
ProbeOverruns(t) ==
    /\ pc[t] = "probe" /\ slot[t] <= Slots
    /\ slot[t] < Slots => active[slot[t]]
    /\ GoTo(t, "probe", slot[t] + 1)
    /\ UNCHANGED <<active, channel, raced, strayed>>

ProbeBusy(t) ==
    /\ pc[t] = "probe" /\ slot[t] < Slots /\ active[slot[t]]
    /\ GoTo(t, "probe", slot[t] + 1)
    /\ UNCHANGED <<active, channel, raced, strayed>>

\* Seeded fault: the slot is not tested.
ProbeAny(t) ==
    /\ pc[t] = "probe" /\ slot[t] < Slots
    /\ GoTo(t, "claim", slot[t])
    /\ UNCHANGED <<active, channel, raced, strayed>>

ProbeFree(t) ==
    /\ pc[t] = "probe" /\ slot[t] < Slots /\ ~ active[slot[t]]
    /\ GoTo(t, "claim", slot[t])
    /\ UNCHANGED <<active, channel, raced, strayed>>

\* session_dispatcher_create returns -1, which close refuses.
NoneFree(t) ==
    /\ pc[t] = "probe" /\ slot[t] = Slots
    /\ GoTo(t, "idle", 0)
    /\ UNCHANGED <<active, channel, raced, strayed>>

Claim(t) ==
    /\ pc[t] = "claim"
    /\ active' = [active EXCEPT ![slot[t]] = TRUE]
    /\ GoTo(t, "type", slot[t])
    /\ UNCHANGED <<channel, raced, strayed>>

\* Seeded fault: the channel is not set.
KeepType(t) ==
    /\ pc[t] = "type"
    /\ GoTo(t, "open", slot[t])
    /\ UNCHANGED <<active, channel, raced, strayed>>

\* The session's id is returned.
SetType(t) ==
    /\ pc[t] = "type"
    /\ channel' = [channel EXCEPT ![slot[t]] = Channel[t]]
    /\ GoTo(t, "open", slot[t])
    /\ UNCHANGED <<active, raced, strayed>>

\* Seeded fault: the slot is not freed.
CloseKeeps(t) ==
    /\ pc[t] = "open"
    /\ GoTo(t, "closed", slot[t])
    /\ UNCHANGED <<active, channel, raced, strayed>>

Close(t) ==
    /\ pc[t] = "open"
    /\ active' = [active EXCEPT ![slot[t]] = FALSE]
    /\ GoTo(t, "closed", slot[t])
    /\ UNCHANGED <<channel, raced, strayed>>

\* Nothing tells the id of a session that was closed from the id of the next.
CloseAgain(t) ==
    /\ pc[t] = "closed"
    /\ active' = [active EXCEPT ![slot[t]] = FALSE]
    /\ GoTo(t, "idle", 0)
    /\ strayed' = (strayed \/ active[slot[t]])
    /\ UNCHANGED <<channel, raced>>

Step(t) ==
    \/ Create(t) \/ ProbeBusy(t) \/ ProbeFree(t) \/ NoneFree(t)
    \/ Claim(t) \/ SetType(t) \/ Close(t) \/ CloseAgain(t)

Work ==
    /\ \E t \in Threads : Step(t)
    /\ steady' = steady \cap {i \in Sessions : active'[i]}
    /\ ever' = ever \cup {i \in Sessions : active'[i]}
    /\ UNCHANGED <<at, count>>

-----------------------------------------------------------------------------
(* session_dispatcher_get_active_count *)

\* Seeded fault: the count starts with what the last call returned.
CountStale ==
    /\ at = Slots
    /\ at' = 0 /\ UNCHANGED count
    /\ steady' = ActiveNow /\ ever' = ActiveNow
    /\ UNCHANGED <<tableVars, raced, strayed>>

Count ==
    /\ at = Slots
    /\ at' = 0 /\ count' = 0
    /\ steady' = ActiveNow /\ ever' = ActiveNow
    /\ UNCHANGED <<tableVars, raced, strayed>>

CountSlot ==
    /\ at < Slots
    /\ at' = at + 1
    /\ count' = IF active[at] THEN count + 1 ELSE count
    /\ UNCHANGED <<tableVars, steady, ever, raced, strayed>>

Next == Work \/ Count \/ CountSlot

Spec == Init /\ [][Next]_vars

-----------------------------------------------------------------------------

\* The threads that have claimed a slot
Owners == {t \in Threads : pc[t] \in {"type", "open"}}

\* Two threads never own the same session, unless two were inside create at a
\* time or an id was closed that no longer was the thread's.
NoSharedSession ==
    raced \/ strayed \/ \A t, u \in Owners : t # u => slot[t] # slot[u]

\* With the same exceptions a session stays active until its owner closes it,
\* on the owner's channel, whatever the others create and close meanwhile.
SessionStaysOpen ==
    \/ raced \/ strayed
    \/ \A t \in Owners :
          active[slot[t]] /\ (pc[t] = "open" => channel[slot[t]] = Channel[t])

\* No slot is lost: whatever was interleaved, an active session has an owner
\* who will close it.
NoLostSlot == \A i \in Sessions : active[i] => \E t \in Owners : slot[t] = i

\* The count, taken slot by slot while sessions come and go, is never lower
\* than the sessions that were active all the time and never higher than those
\* that were active at some time since it began.
CountBetween ==
    /\ Cardinality(steady \cap 0 .. at - 1) <= count
    /\ count <= Cardinality(ever \cap 0 .. at - 1)

\* The part of the inductive invariant that no interleaving breaks
TableInv ==
    /\ TypeOK
    /\ count <= at
    /\ \A t \in Threads : pc[t] # "probe" => slot[t] \in Sessions
    /\ NoLostSlot

\* The inductive invariant where nothing raced and nothing strayed: a slot on
\* its way to be claimed stays free.
DispatcherInv ==
    /\ TableInv
    /\ NoSharedSession
    /\ SessionStaysOpen
    /\ raced \/ strayed \/ \A t \in Threads : pc[t] = "claim" => ~ active[slot[t]]
    /\ raced \/ \A t, u \in Threads :
          (pc[t] \in Creating /\ pc[u] \in Creating) => t = u

=============================================================================
