---------------------- MODULE SessionDispatcherProofs ----------------------
(***************************************************************************)
(* For any number of threads and slots: no session is ever lost; sessions  *)
(* are exclusive, although closing one takes no lock, as long as no two    *)
(* threads are inside session_dispatcher_create at a time and no id is     *)
(* used after its session was closed; and a count is between the sessions  *)
(* that stayed and those that came and went.                               *)
(***************************************************************************)
EXTENDS SessionDispatcher, FiniteSetTheorems, TLAPS

\* Nothing is claimed or owned when the dispatcher has been initialised.
LEMMA DispatcherInit == Init => DispatcherInv
<1> SUFFICES ASSUME Init PROVE DispatcherInv
    OBVIOUS
<1> USE DispatcherAssumption
<1>1. \A t \in Threads : pc[t] = "idle" /\ slot[t] = 0
    BY DEF Init
<1>2. TypeOK
    <2>1. raced \in BOOLEAN /\ strayed \in BOOLEAN
        BY Zenon DEF Init
    <2>2. at \in 0 .. Slots /\ count \in 0 .. Slots
        BY DEF Init
    <2> QED
        BY <1>1, <2>1, <2>2 DEF Init, TypeOK, Sessions, Creating
<1>3. TableInv
    BY <1>1, <1>2 DEF Init, TableInv, NoLostSlot, Sessions
<1>4. NoSharedSession /\ SessionStaysOpen
    BY <1>1 DEF NoSharedSession, SessionStaysOpen, Owners
<1> QED
    BY <1>1, <1>3, <1>4 DEF DispatcherInv, Creating

\* The histories are Booleans after every step of a thread.
LEMMA HistoryTypes ==
    ASSUME TypeOK, NEW t \in Threads, Step(t)
    PROVE  raced' \in BOOLEAN /\ strayed' \in BOOLEAN
<1>1. raced \in BOOLEAN /\ strayed \in BOOLEAN
    BY DEF TypeOK
<1>2. CASE Create(t)
    BY <1>1, <1>2, Zenon DEF Create
<1>3. CASE ProbeBusy(t) \/ ProbeFree(t) \/ NoneFree(t) \/ Claim(t) \/ SetType(t) \/ Close(t)
    BY <1>1, <1>3, Zenon DEF ProbeBusy, ProbeFree, NoneFree, Claim, SetType, Close
<1>4. CASE CloseAgain(t)
    BY <1>1, <1>4, Zenon DEF CloseAgain
<1> QED
    BY <1>2, <1>3, <1>4 DEF Step

\* What has raced or strayed stays so.
LEMMA HistoriesStay ==
    ASSUME NEW t \in Threads, Step(t)
    PROVE  /\ ~ raced' => ~ raced
           /\ ~ strayed' => ~ strayed
<1>1. CASE Create(t)
    BY <1>1, Zenon DEF Create
<1>2. CASE ProbeBusy(t) \/ ProbeFree(t) \/ NoneFree(t) \/ Claim(t) \/ SetType(t) \/ Close(t)
    <2>1. UNCHANGED <<raced, strayed>>
        BY <1>2 DEF ProbeBusy, ProbeFree, NoneFree, Claim, SetType, Close
    <2> QED
        BY <2>1, Zenon
<1>3. CASE CloseAgain(t)
    BY <1>3, Zenon DEF CloseAgain
<1> QED
    BY <1>1, <1>2, <1>3 DEF Step

\* However the threads' accesses to the table are interleaved, the table and
\* the threads agree on which slots are in use.
LEMMA TableStep ==
    ASSUME TableInv, [Next]_vars
    PROVE  TableInv'
<1> USE DispatcherAssumption
<1>1. CASE UNCHANGED vars
    BY <1>1 DEF vars, tableVars, countVars, TableInv, TypeOK, NoLostSlot, Owners,
                ChannelTypes, Sessions
<1>2. CASE Work
    <2> SUFFICES ASSUME NEW t \in Threads, Step(t), UNCHANGED <<at, count>>
                 PROVE  TableInv'
        BY <1>2 DEF Work
    <2>1. raced' \in BOOLEAN /\ strayed' \in BOOLEAN
        BY HistoryTypes DEF TableInv
    <2>2. at' \in 0 .. Slots /\ count' \in 0 .. Slots /\ count' <= at'
        <3>1. at' = at /\ count' = count
            OBVIOUS
        <3> QED
            BY <3>1, Zenon DEF TableInv, TypeOK
    <2> HIDE DispatcherAssumption
    <2> DEFINE tab == /\ active \in [Sessions -> BOOLEAN]
                      /\ channel \in [Sessions -> ChannelTypes]
                      /\ pc \in [Threads -> {"idle", "open", "closed"} \cup Creating]
                      /\ slot \in [Threads -> 0 .. Slots]
                      /\ \A u \in Threads : pc[u] # "probe" => slot[u] \in Sessions
                      /\ NoLostSlot
    <2>3. tab
        BY DEF TableInv, TypeOK
    <2>4. tab'
        <3> USE <2>3, DispatcherAssumption
            DEF NoLostSlot, Owners, Creating, Sessions, GoTo
        <3>1. CASE Create(t)
            BY <3>1 DEF Create
        <3>2. CASE ProbeBusy(t)
            <4>1. slot[t] + 1 \in 0 .. Slots
                BY <3>2 DEF ProbeBusy
            <4> QED
                BY <3>2, <4>1 DEF ProbeBusy
        <3>3. CASE ProbeFree(t)
            BY <3>3 DEF ProbeFree
        <3>4. CASE NoneFree(t)
            BY <3>4 DEF NoneFree
        <3>5. CASE Claim(t)
            BY <3>5 DEF Claim
        <3>6. CASE SetType(t)
            BY <3>6 DEF SetType, ChannelTypes
        <3>7. CASE Close(t)
            BY <3>7 DEF Close
        <3>8. CASE CloseAgain(t)
            BY <3>8 DEF CloseAgain
        <3> QED
            BY <3>1, <3>2, <3>3, <3>4, <3>5, <3>6, <3>7, <3>8 DEF Step
    <2> QED
        BY <2>1, <2>2, <2>4 DEF TableInv, TypeOK
<1>3. CASE Count \/ CountSlot
    <2>1. UNCHANGED tableVars /\ UNCHANGED <<raced, strayed>>
        BY <1>3, Zenon DEF Count, CountSlot
    <2>2. at' \in 0 .. Slots /\ count' \in 0 .. Slots /\ count' <= at'
        BY <1>3 DEF Count, CountSlot, TableInv, TypeOK
    <2> QED
        BY <2>1, <2>2, Zenon DEF tableVars, TableInv, TypeOK, NoLostSlot, Owners,
            ChannelTypes, Sessions
<1> QED
    BY <1>1, <1>2, <1>3 DEF Next

\* No two threads were inside create at a time: each part of the invariant that
\* depends on it survives every step.
LEMMA DispatcherStep ==
    ASSUME DispatcherInv, [Next]_vars
    PROVE  DispatcherInv'
<1> USE DispatcherAssumption
<1>0. TableInv /\ TableInv'
    BY TableStep DEF DispatcherInv
<1> DEFINE exclusive == \A t, u \in Owners : t # u => slot[t] # slot[u]
           open == \A t \in Owners :
                      active[slot[t]] /\ (pc[t] = "open" => channel[slot[t]] = Channel[t])
           free == \A t \in Threads : pc[t] = "claim" => ~ active[slot[t]]
           alone == \A t, u \in Threads :
                      (pc[t] \in Creating /\ pc[u] \in Creating) => t = u
<1>1. CASE UNCHANGED <<tableVars, raced, strayed>>
    BY <1>0, <1>1, Zenon DEF tableVars, DispatcherInv, NoSharedSession, SessionStaysOpen, Owners
<1>2. ASSUME NEW t \in Threads, Step(t)
      PROVE  DispatcherInv'
    <2> DEFINE tab == /\ active \in [Sessions -> BOOLEAN]
                      /\ channel \in [Sessions -> ChannelTypes]
                      /\ pc \in [Threads -> {"idle", "open", "closed"} \cup Creating]
                      /\ slot \in [Threads -> 0 .. Slots]
                      /\ \A u \in Threads : pc[u] # "probe" => slot[u] \in Sessions
    <2>1. tab
        BY <1>0 DEF TableInv, TypeOK
    <2>2. ASSUME ~ raced'
          PROVE  ~ raced /\ alone'
        <3>1. ~ raced /\ alone
            <4>1. ~ raced
                BY <1>2, <2>2, HistoriesStay
            <4> QED
                BY <4>1, Zenon DEF DispatcherInv
        <3>2. CASE Create(t)
            BY <2>1, <2>2, <3>1, <3>2 DEF Create, GoTo, Creating
        <3>3. CASE ProbeBusy(t) \/ ProbeFree(t) \/ NoneFree(t) \/ Claim(t) \/ SetType(t)
                     \/ Close(t) \/ CloseAgain(t)
            BY <2>1, <3>1, <3>3 DEF ProbeBusy, ProbeFree, NoneFree, Claim, SetType, Close,
                CloseAgain, GoTo, Creating
        <3> QED
            BY <1>2, <3>1, <3>2, <3>3 DEF Step
    <2>3. ASSUME ~ raced', ~ strayed'
          PROVE  exclusive' /\ open' /\ free'
        <3>1. ~ raced /\ ~ strayed
            BY <1>2, <2>3, HistoriesStay
        <3>2. exclusive /\ open /\ free /\ alone
            BY <3>1, Zenon DEF DispatcherInv, NoSharedSession, SessionStaysOpen
        <3> HIDE DispatcherAssumption
        <3> USE <2>1, <3>2 DEF Owners, Creating, GoTo, Sessions
        <3>3. CASE Create(t)
            BY <3>3 DEF Create
        <3>4. CASE ProbeBusy(t)
            BY <3>4 DEF ProbeBusy
        <3>5. CASE ProbeFree(t)
            BY <3>5 DEF ProbeFree
        <3>6. CASE NoneFree(t)
            BY <3>6 DEF NoneFree
        <3>7. CASE Claim(t)
            BY <3>7 DEF Claim
        <3>8. CASE SetType(t)
            BY <3>8 DEF SetType
        <3>9. CASE Close(t)
            BY <3>9 DEF Close
        <3>10. CASE CloseAgain(t)
            BY <2>3, <3>10 DEF CloseAgain
        <3> QED
            BY <1>2, <3>3, <3>4, <3>5, <3>6, <3>7, <3>8, <3>9, <3>10 DEF Step
    <2> QED
        BY <1>0, <2>2, <2>3, Zenon DEF DispatcherInv, NoSharedSession, SessionStaysOpen
<1> QED
    BY <1>1, <1>2 DEF Next, Work, Count, CountSlot, vars

-----------------------------------------------------------------------------

\* The inductive invariant holds for any number of threads and slots.
THEOREM DispatcherInvariance == Spec => []DispatcherInv
<1>1. Init => DispatcherInv
    BY DispatcherInit
<1>2. DispatcherInv /\ [Next]_vars => DispatcherInv'
    BY DispatcherStep
<1> QED
    BY <1>1, <1>2, PTL DEF Spec

\* Type correctness of the table, the threads and the count
THEOREM TypeCorrect == Spec => []TypeOK
<1>1. DispatcherInv => TypeOK
    BY DEF DispatcherInv, TableInv
<1> QED
    BY <1>1, DispatcherInvariance, PTL

\* Whatever was interleaved, even where two threads claimed the same slot, an
\* active session has an owner who will close it.
THEOREM NoSlotIsLost == Spec => []NoLostSlot
<1>1. DispatcherInv => NoLostSlot
    BY DEF DispatcherInv, TableInv
<1> QED
    BY <1>1, DispatcherInvariance, PTL

\* Sessions are exclusive, unless two threads were inside create at a time or
\* an id was used after its session was closed.
THEOREM ExclusiveSessions == Spec => []NoSharedSession
<1>1. DispatcherInv => NoSharedSession
    BY DEF DispatcherInv
<1> QED
    BY <1>1, DispatcherInvariance, PTL

\* With the same exceptions a session stays active on its owner's channel
\* until its owner closes it, although closing takes no lock.
THEOREM SessionsStayOpen == Spec => []SessionStaysOpen
<1>1. DispatcherInv => SessionStaysOpen
    BY DEF DispatcherInv
<1> QED
    BY <1>1, DispatcherInvariance, PTL

-----------------------------------------------------------------------------

\* What a count relies on: while it runs, the sessions that stayed are active
\* and the active ones are among those that were seen.
CountInv ==
    /\ TypeOK
    /\ steady \subseteq ActiveNow /\ ActiveNow \subseteq ever /\ ever \subseteq Sessions
    /\ CountBetween

\* Counting one more slot moves the sizes of both bounds by at most one.
LEMMA OneMoreSlot ==
    ASSUME NEW S \in SUBSET Int, NEW k \in Nat
    PROVE  /\ Cardinality(S \cap 0 .. k - 1) \in Nat
           /\ Cardinality(S \cap 0 .. k) =
                 Cardinality(S \cap 0 .. k - 1) + (IF k \in S THEN 1 ELSE 0)
<1> DEFINE below == S \cap 0 .. k - 1
<1>1. IsFiniteSet(below)
    <2>1. IsFiniteSet(0 .. k - 1)
        BY FS_Interval
    <2>2. below \subseteq 0 .. k - 1
        OBVIOUS
    <2> QED
        BY <2>1, <2>2, FS_Subset
<1>2. Cardinality(below) \in Nat
    BY <1>1, FS_CardinalityType
<1>3. CASE k \in S
    <2>1. S \cap 0 .. k = below \cup {k} /\ k \notin below
        BY <1>3
    <2>2. Cardinality(below \cup {k}) = Cardinality(below) + 1
        BY <1>1, <2>1, FS_AddElement
    <2> QED
        BY <1>2, <1>3, <2>1, <2>2
<1>4. CASE k \notin S
    <2>1. S \cap 0 .. k = below
        BY <1>4
    <2>2. Cardinality(S \cap 0 .. k) = Cardinality(below)
        BY <2>1, Zenon
    <2> HIDE DEF below
    <2>3. Cardinality(S \cap 0 .. k) = Cardinality(below) + 0
        BY <1>2, <2>2
    <2> QED
        BY <1>2, <1>4, <2>3, Zenon DEF below
<1> QED
    BY <1>3, <1>4

\* A smaller set has no more elements below a slot.
LEMMA FewerSlots ==
    ASSUME NEW S \in SUBSET Int, NEW R \in SUBSET S, NEW k \in Nat
    PROVE  Cardinality(R \cap 0 .. k - 1) <= Cardinality(S \cap 0 .. k - 1)
<1>1. IsFiniteSet(0 .. k - 1)
    BY FS_Interval
<1>2. IsFiniteSet(S \cap 0 .. k - 1)
    <2>1. S \cap 0 .. k - 1 \subseteq 0 .. k - 1
        OBVIOUS
    <2> QED
        BY <1>1, <2>1, FS_Subset
<1>3. R \cap 0 .. k - 1 \subseteq S \cap 0 .. k - 1
    OBVIOUS
<1> QED
    BY <1>2, <1>3, FS_Subset

\* Nothing is active and nothing counted when the dispatcher has started.
LEMMA CountInit == Init => CountInv
<1> SUFFICES ASSUME Init PROVE CountInv
    OBVIOUS
<1> USE DispatcherAssumption
<1>1. TypeOK
    BY DispatcherInit DEF DispatcherInv, TableInv
<1>2. steady = {} /\ ever = {} /\ ActiveNow = {} /\ count = 0 /\ at \in Nat
    BY DEF Init, ActiveNow
<1>3. steady \cap 0 .. at - 1 = {} /\ ever \cap 0 .. at - 1 = {}
    BY <1>2
<1>4. Cardinality({}) = 0
    BY FS_EmptySet
<1> QED
    BY <1>1, <1>2, <1>3, <1>4 DEF CountInv, CountBetween

\* Sessions that come and go during a count move its bounds outwards, and each
\* slot the count passes moves it with the bounds.
LEMMA CountStep ==
    ASSUME CountInv, TypeOK', [Next]_vars
    PROVE  CountInv'
<1> USE DispatcherAssumption
<1>0. at \in Nat /\ count \in Nat /\ Sessions \subseteq Int
    BY DEF CountInv, TypeOK, Sessions
<1>1. CASE UNCHANGED vars
    BY <1>1 DEF vars, tableVars, countVars, CountInv, CountBetween, ActiveNow, Sessions
<1>2. CASE Work
    <2>1. /\ steady' \subseteq steady /\ ever \subseteq ever'
          /\ steady' \subseteq ActiveNow' /\ ActiveNow' \subseteq ever' /\ ever' \subseteq Sessions
          /\ UNCHANGED <<at, count>>
        BY <1>2 DEF Work, CountInv, ActiveNow, Sessions
    <2>2. steady \in SUBSET Int /\ ever' \in SUBSET Int
        BY <1>0, <2>1 DEF CountInv, ActiveNow
    <2>3. /\ Cardinality(steady' \cap 0 .. at - 1) <= Cardinality(steady \cap 0 .. at - 1)
          /\ Cardinality(ever \cap 0 .. at - 1) <= Cardinality(ever' \cap 0 .. at - 1)
        <3>1. steady' \in SUBSET steady /\ ever \in SUBSET ever'
            BY <2>1
        <3> QED
            BY <1>0, <2>2, <3>1, FewerSlots
    <2>4. /\ Cardinality(steady' \cap 0 .. at - 1) \in Nat
          /\ Cardinality(steady \cap 0 .. at - 1) \in Nat
          /\ Cardinality(ever \cap 0 .. at - 1) \in Nat
          /\ Cardinality(ever' \cap 0 .. at - 1) \in Nat
        BY <1>0, <2>1, <2>2, OneMoreSlot
    <2>5. CountBetween'
        BY <1>0, <2>1, <2>3, <2>4 DEF CountInv, CountBetween
    <2> QED
        BY <2>1, <2>5 DEF CountInv, Sessions
<1>3. CASE Count
    <2>1. /\ at' = 0 /\ count' = 0 /\ steady' = ActiveNow /\ ever' = ActiveNow
          /\ ActiveNow' = ActiveNow
        BY <1>3 DEF Count, tableVars, ActiveNow, Sessions
    <2>2. steady' \cap 0 .. at' - 1 = {} /\ ever' \cap 0 .. at' - 1 = {}
        BY <2>1
    <2>3. CountBetween'
        BY <2>1, <2>2, FS_EmptySet DEF CountBetween
    <2> QED
        BY <2>1, <2>3 DEF CountInv, ActiveNow, Sessions
<1>4. CASE CountSlot
    <2>1. at \in Sessions /\ at' = at + 1 /\ at' - 1 = at
        BY <1>0, <1>4 DEF CountSlot, Sessions
    <2>2. ActiveNow' = ActiveNow /\ UNCHANGED <<steady, ever>>
        BY <1>4 DEF CountSlot, tableVars, ActiveNow, Sessions
    <2>3. steady \in SUBSET Int /\ ever \in SUBSET Int
        BY <1>0 DEF CountInv, ActiveNow
    <2>4. /\ at \in steady => active[at]
          /\ active[at] => at \in ever
        BY <2>1 DEF CountInv, ActiveNow
    <2>5. count' = count + (IF active[at] THEN 1 ELSE 0)
        BY <1>0, <1>4 DEF CountSlot
    <2> DEFINE low == Cardinality(steady \cap 0 .. at - 1)
               high == Cardinality(ever \cap 0 .. at - 1)
    <2>6. /\ low \in Nat /\ high \in Nat
          /\ Cardinality(steady \cap 0 .. at) = low + (IF at \in steady THEN 1 ELSE 0)
          /\ Cardinality(ever \cap 0 .. at) = high + (IF at \in ever THEN 1 ELSE 0)
        BY <1>0, <2>3, OneMoreSlot
    <2>7. low <= count /\ count <= high
        BY DEF CountInv, CountBetween
    <2>8. /\ Cardinality(steady \cap 0 .. at) <= count'
          /\ count' <= Cardinality(ever \cap 0 .. at)
        <3> HIDE DEF low, high
        <3> QED
            BY <1>0, <2>4, <2>5, <2>6, <2>7
    <2>9. CountBetween'
        BY <2>1, <2>2, <2>8 DEF CountBetween
    <2> QED
        BY <2>2, <2>9 DEF CountInv, Sessions
<1> QED
    BY <1>1, <1>2, <1>3, <1>4 DEF Next

\* A count taken slot by slot while sessions come and go lies between the
\* sessions that stayed and those that were ever active meanwhile.
THEOREM CountsLieBetween == Spec => []CountBetween
<1>1. Init => CountInv
    BY CountInit
<1>2. CountInv /\ TypeOK' /\ [Next]_vars => CountInv'
    BY CountStep
<1>3. CountInv => CountBetween
    BY DEF CountInv
<1> QED
    BY <1>1, <1>2, <1>3, TypeCorrect, PTL DEF Spec

=============================================================================
