------------------------------- MODULE TuiProofs -------------------------------
(****************************************************************************)
(* Proofs about the render loop, for every set of pools, every set of keys  *)
(* and every scroll bound.                                                  *)
(****************************************************************************)
EXTENDS Tui, FiniteSetTheorems, TLAPS

--------------------------------------------------------------------------------
(* The inductive invariant.                                                 *)

\* The snapshots of a tick that has not lost a pool follow the pool list.
SnapsFollowPools ==
    /\ Len(snaps) < next /\ next <= Len(pools) + 1
    /\ Len(snaps) = next - 1 =>
         \A i \in DOMAIN snaps : snaps[i].name = pools[i]

\* What is on screen at the wait for a key.
FrameDrawn ==
    pc = "wait" => next = Len(pools) + 1 /\ active < Len(snaps)

\* The fallback samples a pool of the list it has read.
CandidatePicked == pc \in {"fallback", "fallback_status"} => candidate \in Pools

\* Between its two reads collect_one is about the next pool of the list.
SamplingNext == pc = "status" => next <= Len(pools)

\* Between the key and the next list, the cursor is on the chosen name ...
ChosenBeforeList ==
    pc = "discover" /\ aligned /\ chosen # NoPool =>
        active < Len(pools) /\ pools[active + 1] = chosen

\* ... and after it the cursor Draw will correct is, if the name is listed.
Cursor == IF active < Len(pools) THEN active ELSE 0
ChosenInTick ==
    InTick /\ aligned /\ In(chosen, pools) => pools[Cursor + 1] = chosen

\* Both parts of a snapshot s of p were there to be read in this tick.
ReadOf(p, s) == s.kstat \in seen[p].kstat /\ s.status \in seen[p].status

\* The present is part of what this tick may have seen, and so is what it has
\* collected, the kstat of an unfinished sample included.
SeenInTick ==
    /\ InTick => \A p \in Pools :
         KstatOf(p) \in seen[p].kstat /\ StatusOf(p) \in seen[p].status
    /\ pc = "status" => part \in seen[pools[next]].kstat
    /\ pc = "fallback_status" => part \in seen[candidate].kstat
    /\ InTick \/ pc = "wait" =>
         \A i \in DOMAIN snaps : ReadOf(snaps[i].name, snaps[i])

\* A steady pool has been sampled or is still to come.
SteadyInTick ==
    /\ InTick => steady \subseteq Readable
    /\ pc \in {"sample", "status"} => \A p \in steady :
         \/ In(p, Names(snaps))
         \/ \E i \in next..Len(pools) : pools[i] = p
    /\ pc \in {"fallback", "fallback_status"} => steady = {}

CursorInv == SnapsFollowPools /\ FrameDrawn /\ CandidatePicked /\ SamplingNext
SelectionInv == CursorInv /\ ChosenBeforeList /\ ChosenInTick /\ SelectionKept
FreshInv == SeenInTick
SteadyInv == SteadyInTick /\ NobodyIsMissing /\ GivesUpOnlyWithoutPools
IInv == TypeOK /\ SelectionInv /\ FreshInv /\ SteadyInv

--------------------------------------------------------------------------------
(* Facts about the operators.                                               *)

\* What list_pools returns is a sequence of pool names that holds every pool
\* the loop could read.
LEMMA DiscoveredProperties ==
    ASSUME TypeOK, NEW d \in Discovered
    PROVE  d \in Seq(Pools) /\ \A p \in Readable : In(p, d)
<1>1. CASE pinned # NoPool
    <2>1. d = <<pinned>> /\ pinned \in Pools
        BY <1>1, PoolsAssumption DEF Discovered, TypeOK
    <2>2. Readable \subseteq {pinned}
        BY <1>1 DEF Readable
    <2> QED BY <2>1, <2>2 DEF In
<1>2. CASE pinned = NoPool
    <2>1. d \in Lists /\ IsListing(d)
        BY <1>2 DEF Discovered
    <2>2. Cardinality(Pools) \in Nat
        BY FS_CardinalityType, PoolsAssumption
    <2>3. d \in Seq(Pools)
        BY <2>1, <2>2 DEF Lists
    <2>4. Readable \subseteq imported
        BY <1>2 DEF Readable
    <2> QED BY <2>1, <2>3, <2>4 DEF IsListing, In
<1> QED BY <1>1, <1>2

\* What the two reads return, and what is made of them.
LEMMA ReadTypes ==
    ASSUME TypeOK, NEW p \in Pools
    PROVE  /\ KstatOf(p) \in Records \cup {Nothing}
           /\ StatusOf(p) \in Texts \cup {Nothing}
           /\ Collected(p) \in Snapshots
           /\ Collected(p).name = p
           /\ Collected(p).kstat = part
           /\ Collected(p).status = StatusOf(p)
BY DEF TypeOK, KstatOf, StatusOf, Collected, Snapshots

\* The position of a listed name is an index of the program's list.
LEMMA PositionProperties ==
    ASSUME NEW d \in Seq(Pools), NEW p, In(p, d)
    PROVE  /\ Position(p, d) \in Nat
           /\ Position(p, d) < Len(d)
           /\ d[Position(p, d) + 1] = p
<1> DEFINE i == CHOOSE j \in DOMAIN d : d[j] = p
<1>1. i \in DOMAIN d /\ d[i] = p
    BY DEF In
<1>2. i \in 1..Len(d)
    BY <1>1
<1> QED BY <1>1, <1>2 DEF Position

\* A name is among the names of the snapshots when one of them bears it.
LEMMA InNames ==
    ASSUME NEW s, NEW p
    PROVE  In(p, Names(s)) <=> \E i \in DOMAIN s : s[i].name = p
BY DEF In, Names

\* The right arrow and the left arrow stay within the tabs.
LEMMA Wraps ==
    ASSUME NEW a \in Nat, NEW n \in Nat, a < n
    PROVE  /\ (a + 1) % n \in Nat
           /\ (a + 1) % n < n
           /\ a = 0 => n - 1 \in Nat
           /\ a # 0 => a - 1 \in Nat
OBVIOUS

--------------------------------------------------------------------------------
(* Type correctness.                                                        *)

\* The round of the loop after any event keeps the types of what it changes.
LEMMA GoRoundType ==
    ASSUME TypeOK, CursorInv, NEW c \in Nat, pc = "wait", c < Len(snaps), GoRound(c)
    PROVE  /\ pc' = "discover" /\ active' = c /\ active' \in Nat
           /\ chosen' = snaps[c + 1].name
           /\ chosen' \in Pools
           /\ aligned' = (Len(snaps) = Len(pools))
           /\ UNCHANGED <<world, pools, snaps, next, candidate, part, seen, steady>>
<1>1. c + 1 \in 1..Len(snaps)
    BY DEF TypeOK
<1>2. snaps[c + 1] \in Snapshots
    BY <1>1 DEF TypeOK
<1> QED BY <1>2 DEF GoRound, Snapshots

\* Every way the wait for a key ends: the loop goes round with some tab under
\* the cursor, or the program ends.
LEMMA WaitSteps ==
    ASSUME TypeOK, CursorInv, NoKey \/ WaitFails \/ Key
    PROVE  /\ pc = "wait"
           /\ \/ /\ \E c \in Nat : c < Len(snaps) /\ GoRound(c)
                 /\ focus' \in Panels /\ scroll' \in [Panels -> 0..MaxScroll]
              \/ End("quit")
              \/ End("panicked")
              \/ End("terminal")
<1> USE DEF TypeOK, CursorInv, FrameDrawn, panels
<1>1. CASE NoKey
    BY <1>1 DEF NoKey
<1>2. CASE PressQuit
    BY <1>2 DEF PressQuit
<1>3. CASE PressRight
    BY <1>3, Wraps DEF PressRight
<1>4. CASE PressLeft
    <2> DEFINE c == IF active = 0 THEN Len(snaps) - 1 ELSE active - 1
    <2>1. pc = "wait" /\ GoRound(c) /\ UNCHANGED panels
        BY <1>4 DEF PressLeft
    <2>2. c \in Nat /\ c < Len(snaps)
        BY <2>1
    <2> QED BY <2>1, <2>2
<1>5. ASSUME NEW d \in Digits, PressDigit(d)
      PROVE  /\ pc = "wait"
             /\ \/ /\ \E c \in Nat : c < Len(snaps) /\ GoRound(c)
                   /\ focus' \in Panels /\ scroll' \in [Panels -> 0..MaxScroll]
                \/ End("panicked")
    <2> DEFINE idx == (d + 255) % 256
               c == IF idx < Len(snaps) THEN idx ELSE active
    <2>1. CASE d = 0 /\ OverflowChecks
        BY <1>5, <2>1 DEF PressDigit
    <2>2. CASE ~(d = 0 /\ OverflowChecks)
        <3>1. pc = "wait" /\ GoRound(c) /\ UNCHANGED panels
            BY <1>5, <2>2 DEF PressDigit
        <3>2. idx \in Nat
            BY KeysAssumption
        <3>3. c \in Nat /\ c < Len(snaps)
            BY <3>1, <3>2
        <3> QED BY <3>1, <3>3
    <2> QED BY <2>1, <2>2
<1>6. ASSUME NEW p \in Panels, PressFocus(p)
      PROVE  /\ pc = "wait"
             /\ \E c \in Nat : c < Len(snaps) /\ GoRound(c)
             /\ focus' \in Panels /\ scroll' \in [Panels -> 0..MaxScroll]
    BY <1>6 DEF PressFocus
<1>7. CASE PressUp
    <2>1. scroll' \in [Panels -> 0..MaxScroll]
        BY <1>7, KeysAssumption DEF PressUp
    <2> QED BY <1>7, <2>1 DEF PressUp
<1>8. CASE PressDown
    <2>1. scroll' \in [Panels -> 0..MaxScroll]
        BY <1>8, KeysAssumption DEF PressDown
    <2> QED BY <1>8, <2>1 DEF PressDown
<1>9. CASE WaitFails
    BY <1>9 DEF WaitFails
<1> QED BY <1>1, <1>2, <1>3, <1>4, <1>5, <1>6, <1>7, <1>8, <1>9 DEF Key

LEMMA InitType == Init => TypeOK
BY PoolsAssumption, KeysAssumption
   DEF Init, TypeOK, PCs, Panels

LEMMA NextType == TypeOK /\ CursorInv /\ [Next]_vars => TypeOK'
<1> SUFFICES ASSUME TypeOK, CursorInv, [Next]_vars
             PROVE  TypeOK'
    OBVIOUS
<1> USE DEF PCs, Ended
<1>1. CASE Discover
    <2>1. PICK d \in Discovered :
            /\ pools' = d
            /\ active' = IF d = pools THEN active
                         ELSE IF In(Selected, d) THEN Position(Selected, d) ELSE 0
        BY <1>1 DEF Discover
    <2>2. pools' \in Seq(Pools)
        BY <2>1, DiscoveredProperties
    <2>3. active' \in Nat
        BY <2>1, DiscoveredProperties, PositionProperties DEF TypeOK
    <2>4. seen' \in [Pools -> [kstat : SUBSET (Records \cup {Nothing}),
                              status : SUBSET (Texts \cup {Nothing})]]
        BY <1>1, ReadTypes DEF Discover, Watch
    <2>5. steady' \in SUBSET Pools
        BY <1>1, PoolsAssumption DEF Discover, Watch, Readable, TypeOK
    <2> QED BY <1>1, <2>2, <2>3, <2>4, <2>5 DEF Discover, TypeOK, world, panels
<1>2. CASE Sample
    <2>1. pools[next] \in Pools
        BY <1>2 DEF Sample, TypeOK
    <2>2. part' \in Records \cup {Nothing} /\ next' \in Nat \ {0} /\ pc' \in PCs
        BY <1>2, <2>1, ReadTypes DEF Sample, TypeOK
    <2> QED BY <1>2, <2>2 DEF Sample, TypeOK, world, panels, history
<1>3. CASE SampleStatus
    <2>1. pools[next] \in Pools
        BY <1>3 DEF SampleStatus, TypeOK, CursorInv, SamplingNext
    <2>2. Collected(pools[next]) \in Snapshots
        BY <2>1, ReadTypes
    <2>3. snaps' \in Seq(Snapshots)
        BY <1>3, <2>2 DEF SampleStatus, TypeOK
    <2> QED BY <1>3, <2>3 DEF SampleStatus, TypeOK, world, panels, history
<1>4. CASE FallbackList
    <2>1. PICK d \in Discovered :
            IF d = <<>> THEN pc' = "unsampled" /\ UNCHANGED candidate
                        ELSE pc' = "fallback" /\ candidate' = d[1]
        BY <1>4 DEF FallbackList
    <2>2. d \in Seq(Pools)
        BY DiscoveredProperties
    <2>3. candidate' \in Pools \cup {NoPool} /\ pc' \in PCs
        BY <2>1, <2>2 DEF TypeOK
    <2> QED BY <1>4, <2>3 DEF FallbackList, TypeOK, world, panels, history
<1>5. CASE FallbackSample
    <2>1. candidate \in Pools
        BY <1>5 DEF FallbackSample, CursorInv, CandidatePicked
    <2>2. /\ part' \in Records \cup {Nothing} /\ pc' \in PCs
          /\ candidate' \in Pools \cup {NoPool}
        BY <1>5, <2>1, ReadTypes DEF FallbackSample, TypeOK
    <2> QED BY <1>5, <2>2 DEF FallbackSample, TypeOK, world, panels, history
<1>6. CASE FallbackStatus
    <2>1. candidate \in Pools
        BY <1>6 DEF FallbackStatus, CursorInv, CandidatePicked
    <2>2. Collected(candidate) \in Snapshots
        BY <2>1, ReadTypes
    <2>3. <<candidate>> \in Seq(Pools) /\ <<Collected(candidate)>> \in Seq(Snapshots)
        BY <2>1, <2>2
    <2>4. pools' \in Seq(Pools) /\ snaps' \in Seq(Snapshots)
        BY <1>6, <2>3 DEF FallbackStatus
    <2> QED BY <1>6, <2>4 DEF FallbackStatus, TypeOK, world, panels, history
<1>7. CASE Draw
    BY <1>7 DEF Draw, TypeOK, world, panels, history
<1>8. CASE NoKey \/ WaitFails \/ Key
    <2>1. CASE End("quit") \/ End("panicked") \/ End("terminal")
        BY <2>1 DEF End, TypeOK, world, panels, history
    <2>2. ASSUME NEW c \in Nat, c < Len(snaps), GoRound(c),
                 focus' \in Panels, scroll' \in [Panels -> 0..MaxScroll]
          PROVE  TypeOK'
        BY <1>8, <2>2, WaitSteps, GoRoundType DEF TypeOK, world
    <2> QED BY <1>8, <2>1, <2>2, WaitSteps
<1>9. CASE Host
    <2>1. /\ imported' \in SUBSET Pools /\ unreadable' \in SUBSET imported'
          /\ record' \in [Pools -> Records] /\ text' \in [Pools -> Texts]
          /\ answering' \in BOOLEAN /\ pinned' = pinned
        <3>1. CASE ZpoolChanges
            BY <1>9, <3>1 DEF Host, ZpoolChanges, TypeOK
        <3>2. ASSUME NEW p \in Pools, Import(p) \/ Export(p) \/ ScanFileChanges(p)
              PROVE  <2>1!:
            BY <1>9, <3>2 DEF Host, Import, Export, ScanFileChanges, TypeOK
        <3>3. ASSUME NEW p \in Pools, PoolChanges(p)
              PROVE  <2>1!:
            <4>1. \/ UNCHANGED record
                  \/ \E r \in Records : record' = [record EXCEPT ![p] = r]
                BY <3>3 DEF PoolChanges
            <4>2. \/ UNCHANGED text
                  \/ \E t \in Texts : text' = [text EXCEPT ![p] = t]
                BY <3>3 DEF PoolChanges
            <4>3. record' \in [Pools -> Records]
                BY <4>1 DEF TypeOK
            <4>4. text' \in [Pools -> Texts]
                BY <4>2 DEF TypeOK
            <4> QED BY <1>9, <3>3, <4>3, <4>4 DEF Host, PoolChanges, TypeOK
        <3> QED BY <1>9, <3>1, <3>2, <3>3 DEF Host
    <2>2. \A p \in Pools : /\ KstatOf(p)' \in Records \cup {Nothing}
                          /\ StatusOf(p)' \in Texts \cup {Nothing}
        BY <2>1 DEF KstatOf, StatusOf
    <2>3. seen' \in [Pools -> [kstat : SUBSET (Records \cup {Nothing}),
                              status : SUBSET (Texts \cup {Nothing})]]
        BY <1>9, <2>2 DEF Host, Record, TypeOK
    <2>4. steady' \in SUBSET Pools
        BY <1>9 DEF Host, Record, TypeOK
    <2> QED BY <1>9, <2>1, <2>3, <2>4 DEF Host, TypeOK, loop, panels
<1>10. CASE Stopped \/ UNCHANGED vars
    BY <1>10 DEF Stopped, vars, world, loop, history, panels, TypeOK
<1> QED BY <1>1, <1>2, <1>3, <1>4, <1>5, <1>6, <1>7, <1>8, <1>9, <1>10
        DEF Next, Loop

--------------------------------------------------------------------------------
(* The cursor is in range whenever a frame is drawn.                        *)

LEMMA InitCursor == Init => CursorInv
BY DEF Init, CursorInv, SnapsFollowPools, FrameDrawn, CandidatePicked, SamplingNext

LEMMA NextCursor == TypeOK /\ CursorInv /\ [Next]_vars => CursorInv'
<1> SUFFICES ASSUME TypeOK, CursorInv, [Next]_vars
             PROVE  CursorInv'
    OBVIOUS
<1> USE DEF CursorInv, FrameDrawn, CandidatePicked, SamplingNext
<1>1. CASE Discover
    <2>1. PICK d \in Discovered : pools' = d
        BY <1>1 DEF Discover
    <2>2. Len(pools') \in Nat
        BY <2>1, DiscoveredProperties
    <2> QED BY <1>1, <2>2 DEF Discover, SnapsFollowPools
<1>2. CASE Sample
    BY <1>2 DEF Sample, SnapsFollowPools, SamplingNext, TypeOK
<1>3. CASE SampleStatus
    <2> DEFINE p == pools[next]
               s == Collected(p)
    <2>1. next <= Len(pools) /\ p \in Pools
        BY <1>3 DEF SampleStatus, SamplingNext, TypeOK
    <2>2. s \in Snapshots /\ s.name = p
        BY <2>1, ReadTypes
    <2>3. /\ snaps' = Append(snaps, s) /\ next' = next + 1
          /\ pools' = pools /\ pc' = "sample"
        BY <1>3 DEF SampleStatus
    <2>4. /\ Len(snaps') = Len(snaps) + 1
          /\ \A i \in 1..Len(snaps) : snaps'[i] = snaps[i]
          /\ snaps'[Len(snaps) + 1] = s
        BY <2>2, <2>3 DEF TypeOK
    <2> HIDE DEF p, s
    <2> QED BY <2>1, <2>2, <2>3, <2>4 DEF p, SnapsFollowPools, SamplingNext, TypeOK
<1>4. CASE FallbackList
    <2>1. PICK d \in Discovered :
            IF d = <<>> THEN pc' = "unsampled" /\ UNCHANGED candidate
                        ELSE pc' = "fallback" /\ candidate' = d[1]
        BY <1>4 DEF FallbackList
    <2>2. d \in Seq(Pools)
        BY DiscoveredProperties
    <2>3. d # <<>> => d[1] \in Pools
        BY <2>2
    <2> QED BY <1>4, <2>1, <2>3 DEF FallbackList, SnapsFollowPools
<1>5. CASE FallbackSample
    BY <1>5 DEF FallbackSample, SnapsFollowPools, SamplingNext
<1>6. CASE FallbackStatus
    <2> DEFINE s == Collected(candidate)
    <2>1. candidate \in Pools /\ s.name = candidate
        BY <1>6, ReadTypes DEF FallbackStatus
    <2>2. /\ snaps' = <<s>> /\ pools' = <<candidate>>
          /\ next' = 2 /\ pc' = "sample"
        BY <1>6 DEF FallbackStatus
    <2>3. /\ Len(snaps') = 1 /\ Len(pools') = 1 /\ DOMAIN snaps' = {1}
          /\ snaps'[1].name = candidate /\ pools'[1] = candidate
        BY <2>1, <2>2
    <2> QED BY <2>2, <2>3 DEF SnapsFollowPools, SamplingNext
<1>7. CASE Draw
    <2>1. Len(snaps) > 0 /\ Len(snaps) \in Nat
        BY <1>7 DEF Draw, TypeOK
    <2>2. /\ pc = "sample" /\ pc' \in {"wait", "terminal"} /\ next > Len(pools)
          /\ UNCHANGED <<snaps, pools, next, candidate>>
          /\ active' = IF active >= Len(snaps) THEN 0 ELSE active
        BY <1>7 DEF Draw
    <2>3. active' < Len(snaps)
        BY <2>1, <2>2 DEF TypeOK
    <2>4. next = Len(pools) + 1
        <3>1. Len(pools) \in Nat /\ next \in Nat /\ next <= Len(pools) + 1
            BY DEF SnapsFollowPools, TypeOK
        <3> QED BY <2>2, <3>1
    <2> QED BY <2>2, <2>3, <2>4 DEF SnapsFollowPools
<1>8. CASE NoKey \/ WaitFails \/ Key
    <2>1. CASE End("quit") \/ End("panicked") \/ End("terminal")
        BY <2>1 DEF End, SnapsFollowPools
    <2>2. ASSUME NEW c \in Nat, c < Len(snaps), GoRound(c)
          PROVE  CursorInv'
        BY <1>8, <2>2, WaitSteps, GoRoundType DEF SnapsFollowPools
    <2> QED BY <1>8, <2>1, <2>2, WaitSteps
<1>9. CASE Host
    BY <1>9 DEF Host, loop, SnapsFollowPools
<1>10. CASE Stopped \/ UNCHANGED vars
    BY <1>10 DEF Stopped, vars, loop, SnapsFollowPools
<1> QED BY <1>1, <1>2, <1>3, <1>4, <1>5, <1>6, <1>7, <1>8, <1>9, <1>10
        DEF Next, Loop

--------------------------------------------------------------------------------
(* The selection follows its name.                                          *)

LEMMA InitSelection == Init => SelectionInv
BY InitCursor, PoolsAssumption
   DEF Init, SelectionInv, ChosenBeforeList, ChosenInTick, SelectionKept, InTick

LEMMA NextSelection == TypeOK /\ SelectionInv /\ [Next]_vars => SelectionInv'
<1> SUFFICES ASSUME TypeOK, SelectionInv, [Next]_vars
             PROVE  SelectionInv'
    OBVIOUS
<1>0. CursorInv' /\ TypeOK'
    BY NextCursor, NextType DEF SelectionInv
<1> USE DEF SelectionInv, InTick
<1>1. CASE Discover
    <2>1. PICK d \in Discovered :
            /\ pools' = d
            /\ active' = IF d = pools THEN active
                         ELSE IF In(Selected, d) THEN Position(Selected, d) ELSE 0
        BY <1>1 DEF Discover
    <2>2. d \in Seq(Pools)
        BY DiscoveredProperties
    <2>3. /\ pc = "discover" /\ pc' = "sample"
          /\ chosen' = chosen /\ aligned' = aligned
        BY <1>1 DEF Discover
    <2>4. ASSUME aligned, In(chosen, d)
          PROVE  d[Cursor' + 1] = chosen
        <3>1. chosen # NoPool
            BY <2>2, <2>4, PoolsAssumption DEF In
        <3>2. Selected = chosen /\ active < Len(pools) /\ pools[active + 1] = chosen
            BY <2>3, <2>4, <3>1 DEF ChosenBeforeList, Selected
        <3>3. CASE d = pools
            BY <2>1, <3>2, <3>3 DEF Cursor
        <3>4. CASE d # pools
            <4>1. active' = Position(chosen, d)
                BY <2>1, <2>4, <3>2, <3>4
            <4> QED BY <2>1, <2>2, <2>4, <4>1, PositionProperties DEF Cursor
        <3> QED BY <3>3, <3>4
    <2>5. ChosenInTick'
        BY <2>1, <2>3, <2>4 DEF ChosenInTick, In
    <2> QED BY <1>0, <2>3, <2>5 DEF ChosenBeforeList, SelectionKept
<1>2. CASE Sample
    BY <1>0, <1>2 DEF Sample, ChosenBeforeList, ChosenInTick, SelectionKept,
                      Cursor, InTick, history, In
<1>3. CASE SampleStatus
    BY <1>0, <1>3 DEF SampleStatus, ChosenBeforeList, ChosenInTick, SelectionKept,
                      Cursor, InTick, history, In
<1>4. CASE FallbackList
    BY <1>0, <1>4 DEF FallbackList, ChosenBeforeList, ChosenInTick, SelectionKept,
                      Cursor, InTick, history, In
<1>5. CASE FallbackSample
    BY <1>0, <1>5 DEF FallbackSample, ChosenBeforeList, ChosenInTick, SelectionKept,
                      Cursor, InTick, history, In
<1>6. CASE FallbackStatus
    <2>1. pools' = <<candidate>> /\ pc' = "sample" /\ active' = active
          /\ chosen' = chosen
        BY <1>6 DEF FallbackStatus, history
    <2>2. Cursor' = 0
        BY <2>1 DEF Cursor, TypeOK
    <2>3. In(chosen', pools') => chosen' = candidate
        BY <2>1 DEF In
    <2> QED BY <1>0, <2>1, <2>2, <2>3
            DEF ChosenBeforeList, ChosenInTick, SelectionKept
<1>7. CASE Draw
    <2>1. /\ pc = "sample" /\ pc' \in {"wait", "terminal"}
          /\ active' = IF active >= Len(snaps) THEN 0 ELSE active
          /\ snaps' = snaps /\ pools' = pools /\ next' = next
          /\ chosen' = chosen /\ aligned' = aligned
          /\ snaps # <<>>
        BY <1>7 DEF Draw, history
    <2>2. ASSUME pc' = "wait", aligned, Len(snaps) = Len(pools), In(chosen, pools)
          PROVE  snaps[active' + 1].name = chosen
        <3>1. active' = Cursor
            BY <2>1, <2>2 DEF Cursor, TypeOK
        <3>2. pools[active' + 1] = chosen
            BY <2>1, <2>2, <3>1 DEF ChosenInTick
        <3>3. next = Len(pools) + 1 /\ active' < Len(snaps)
            BY <1>0, <2>1, <2>2 DEF CursorInv, FrameDrawn
        <3>4. active' + 1 \in DOMAIN snaps
            BY <1>0, <3>3, <2>1 DEF TypeOK
        <3> QED BY <2>2, <3>2, <3>3, <3>4 DEF CursorInv, SnapsFollowPools, TypeOK
    <2>3. SelectionKept'
        BY <2>1, <2>2 DEF SelectionKept, AllSampled, In
    <2> QED BY <1>0, <2>1, <2>3 DEF ChosenBeforeList, ChosenInTick, InTick
<1>8. CASE NoKey \/ WaitFails \/ Key
    <2>1. CASE End("quit") \/ End("panicked") \/ End("terminal")
        BY <1>0, <2>1 DEF End, ChosenBeforeList, ChosenInTick, SelectionKept
    <2>2. ASSUME NEW c \in Nat, c < Len(snaps), GoRound(c)
          PROVE  SelectionInv'
        <3>1. /\ pc = "wait" /\ pc' = "discover" /\ active' = c
              /\ chosen' = snaps[c + 1].name
              /\ aligned' = (Len(snaps) = Len(pools))
              /\ pools' = pools
            BY <1>8, <2>2, WaitSteps, GoRoundType
        <3>2. next = Len(pools) + 1
            BY <3>1 DEF CursorInv, FrameDrawn
        <3>3. c + 1 \in DOMAIN snaps
            BY <2>2 DEF TypeOK
        <3>4. Len(snaps) = Len(pools) => snaps[c + 1].name = pools[c + 1]
            BY <3>2, <3>3 DEF CursorInv, SnapsFollowPools, TypeOK
        <3>5. ChosenBeforeList'
            BY <2>2, <3>1, <3>4 DEF ChosenBeforeList
        <3> QED BY <1>0, <3>1, <3>5 DEF ChosenInTick, SelectionKept
    <2> QED BY <1>8, <2>1, <2>2, WaitSteps
<1>9. CASE Host
    BY <1>0, <1>9 DEF Host, loop, ChosenBeforeList, ChosenInTick, SelectionKept,
                      Cursor, AllSampled, In
<1>10. CASE Stopped \/ UNCHANGED vars
    BY <1>0, <1>10 DEF Stopped, vars, loop, history, ChosenBeforeList, ChosenInTick,
                      SelectionKept, Cursor, AllSampled, In
<1> QED BY <1>1, <1>2, <1>3, <1>4, <1>5, <1>6, <1>7, <1>8, <1>9, <1>10
        DEF Next, Loop

--------------------------------------------------------------------------------
(* What a frame shows was true in its tick.                                 *)

LEMMA InitFresh == Init => FreshInv
BY DEF Init, FreshInv, SeenInTick, InTick

LEMMA NextFresh == TypeOK /\ CursorInv /\ FreshInv /\ [Next]_vars => FreshInv'
<1> SUFFICES ASSUME TypeOK, CursorInv, FreshInv, [Next]_vars
             PROVE  FreshInv'
    OBVIOUS
<1> USE DEF FreshInv, SeenInTick, InTick
<1>0. UNCHANGED world => \A p : KstatOf(p)' = KstatOf(p) /\ StatusOf(p)' = StatusOf(p)
    BY DEF world, KstatOf, StatusOf
<1>1. CASE Discover
    <2>1. /\ pc' = "sample" /\ snaps' = <<>> /\ UNCHANGED world
          /\ seen' = [p \in Pools |-> [kstat |-> {KstatOf(p)},
                                       status |-> {StatusOf(p)}]]
        BY <1>1 DEF Discover, Watch
    <2> QED BY <2>1, <1>0 DEF ReadOf
<1>2. CASE Sample
    <2>1. /\ pc = "sample" /\ seen' = seen /\ UNCHANGED <<world, pools, snaps>>
          /\ pools[next] \in Pools
        BY <1>2 DEF Sample, history, TypeOK
    <2>2. CASE Reads(pools[next])
        BY <1>0, <1>2, <2>1, <2>2 DEF Sample, ReadOf
    <2>3. CASE ~Reads(pools[next])
        BY <1>0, <1>2, <2>1, <2>3 DEF Sample, ReadOf
    <2> QED BY <2>2, <2>3
<1>3. CASE SampleStatus
    <2> DEFINE p == pools[next]
               s == Collected(p)
    <2>1. /\ pc = "status" /\ pc' = "sample" /\ seen' = seen /\ UNCHANGED world
          /\ snaps' = Append(snaps, s) /\ p \in Pools
        BY <1>3 DEF SampleStatus, CursorInv, SamplingNext, history, TypeOK
    <2>2. s \in Snapshots /\ s.name = p /\ ReadOf(p, s)
        BY <2>1, ReadTypes DEF ReadOf
    <2>3. \A i \in DOMAIN snaps' :
             snaps'[i] = s \/ \E j \in DOMAIN snaps : snaps'[i] = snaps[j]
        BY <2>1, <2>2 DEF TypeOK
    <2>4. \A i \in DOMAIN snaps' : ReadOf(snaps'[i].name, snaps'[i])
        BY <2>1, <2>2, <2>3
    <2> QED BY <1>0, <2>1, <2>4 DEF ReadOf
<1>4. CASE FallbackList
    <2>1. pc = "sample" /\ seen' = seen /\ snaps' = snaps /\ UNCHANGED world
          /\ pc' \in {"fallback", "unsampled"}
        BY <1>4 DEF FallbackList, history
    <2> QED BY <1>0, <2>1 DEF ReadOf
<1>5. CASE FallbackSample
    <2>1. /\ pc = "fallback" /\ seen' = seen /\ UNCHANGED <<world, snaps>>
          /\ candidate \in Pools
        BY <1>5 DEF FallbackSample, history, CursorInv, CandidatePicked
    <2>2. CASE Reads(candidate)
        BY <1>0, <1>5, <2>1, <2>2 DEF FallbackSample, ReadOf
    <2>3. CASE ~Reads(candidate)
        BY <1>5, <2>3 DEF FallbackSample
    <2> QED BY <2>2, <2>3
<1>6. CASE FallbackStatus
    <2>1. /\ pc = "fallback_status" /\ pc' = "sample"
          /\ seen' = seen /\ UNCHANGED world
          /\ candidate \in Pools /\ snaps' = <<Collected(candidate)>>
        BY <1>6 DEF FallbackStatus, history, CursorInv, CandidatePicked
    <2>2. ReadOf(candidate, Collected(candidate)) /\ Collected(candidate).name = candidate
        BY <2>1, ReadTypes DEF ReadOf
    <2>3. \A i \in DOMAIN snaps' : snaps'[i] = Collected(candidate)
        BY <2>1
    <2> QED BY <1>0, <2>1, <2>2, <2>3 DEF ReadOf
<1>7. CASE Draw
    BY <1>7 DEF Draw, history, ReadOf
<1>8. CASE NoKey \/ WaitFails \/ Key
    <2>1. CASE End("quit") \/ End("panicked") \/ End("terminal")
        BY <2>1 DEF End
    <2>2. ASSUME NEW c \in Nat, GoRound(c)
          PROVE  FreshInv'
        BY <2>2 DEF GoRound
    <2> QED BY <1>8, <2>1, <2>2, WaitSteps
<1>9. CASE Host
    <2>1. UNCHANGED <<pc, snaps, pools, next, part, candidate>>
        BY <1>9 DEF Host, loop
    <2>2. CASE InTick
        <3>1. seen' = [p \in Pools |->
                         [kstat |-> seen[p].kstat \cup {KstatOf(p)'},
                          status |-> seen[p].status \cup {StatusOf(p)'}]]
            BY <1>9, <2>2 DEF Host, Record
        <3>2. \A p \in Pools : /\ KstatOf(p)' \in seen'[p].kstat
                              /\ StatusOf(p)' \in seen'[p].status
                              /\ seen[p].kstat \subseteq seen'[p].kstat
                              /\ seen[p].status \subseteq seen'[p].status
            BY <3>1
        <3>3. \A i \in DOMAIN snaps : snaps[i].name \in Pools
            <4>1. \A i \in DOMAIN snaps : snaps[i] \in Snapshots
                BY DEF TypeOK
            <4> QED BY <4>1 DEF Snapshots
        <3>4. pc = "status" => pools[next] \in Pools
            BY DEF CursorInv, SamplingNext, TypeOK
        <3>5. pc = "fallback_status" => candidate \in Pools
            BY DEF CursorInv, CandidatePicked
        <3>6. \A i \in DOMAIN snaps' : ReadOf(snaps[i].name, snaps[i])'
            BY <2>1, <2>2, <3>2, <3>3 DEF ReadOf
        <3> QED BY <2>1, <2>2, <3>2, <3>4, <3>5, <3>6
    <2>3. CASE ~InTick
        <3>1. seen' = seen
            BY <1>9, <2>3 DEF Host, Record
        <3> QED BY <2>1, <2>3, <3>1 DEF ReadOf
    <2> QED BY <2>2, <2>3
<1>10. CASE Stopped \/ UNCHANGED vars
    <2>1. UNCHANGED <<pc, snaps, seen, world, pools, next, part, candidate>>
        BY <1>10 DEF Stopped, vars, loop, history
    <2> QED BY <1>0, <2>1 DEF ReadOf
<1> QED BY <1>1, <1>2, <1>3, <1>4, <1>5, <1>6, <1>7, <1>8, <1>9, <1>10
        DEF Next, Loop

--------------------------------------------------------------------------------
(* No steady pool is lost.                                                  *)

LEMMA InitSteady == Init => SteadyInv
BY DEF Init, SteadyInv, SteadyInTick, NobodyIsMissing, GivesUpOnlyWithoutPools, InTick

LEMMA NextSteady == TypeOK /\ CursorInv /\ SteadyInv /\ [Next]_vars => SteadyInv'
<1> SUFFICES ASSUME TypeOK, CursorInv, SteadyInv, [Next]_vars
             PROVE  SteadyInv'
    OBVIOUS
<1> USE DEF SteadyInv, SteadyInTick, NobodyIsMissing, GivesUpOnlyWithoutPools, InTick
<1>0. UNCHANGED world => Readable' = Readable
    BY DEF world, Readable
<1>1. CASE Discover
    <2>1. PICK d \in Discovered : pools' = d
        BY <1>1 DEF Discover
    <2>2. /\ pc' = "sample" /\ next' = 1 /\ steady' = Readable /\ UNCHANGED world
        BY <1>1 DEF Discover, Watch
    <2>3. \A p \in steady' : \E i \in next'..Len(pools') : pools'[i] = p
        BY <2>1, <2>2, DiscoveredProperties DEF In
    <2> QED BY <1>0, <2>2, <2>3
<1>2. CASE Sample
    <2>0. /\ pc = "sample" /\ UNCHANGED <<world, steady, pools, snaps>>
          /\ next <= Len(pools) /\ pools[next] \in Pools
        BY <1>2 DEF Sample, history, TypeOK
    <2>1. CASE Reads(pools[next])
        <3>1. pc' = "status" /\ next' = next
            BY <1>2, <2>1 DEF Sample
        <3> QED BY <1>0, <2>0, <3>1 DEF In, Names
    <2>2. CASE ~Reads(pools[next])
        <3>1. pools[next] \notin steady
            BY <2>0, <2>2 DEF Reads, Readable
        <3>2. pc' = "sample" /\ next' = next + 1
            BY <1>2, <2>0, <2>2 DEF Sample
        <3>3. \A q \in steady :
                 \/ In(q, Names(snaps))
                 \/ \E i \in (next + 1)..Len(pools) : pools[i] = q
            BY <2>0, <3>1 DEF TypeOK
        <3> QED BY <1>0, <2>0, <3>2, <3>3 DEF In, Names
    <2> QED BY <2>1, <2>2
<1>3. CASE SampleStatus
    <2> DEFINE p == pools[next]
               s == Collected(p)
    <2>0. /\ pc = "status" /\ pc' = "sample" /\ UNCHANGED <<world, steady, pools>>
          /\ next' = next + 1 /\ next <= Len(pools) /\ p \in Pools
          /\ snaps' = Append(snaps, s)
        BY <1>3 DEF SampleStatus, CursorInv, SamplingNext, history, TypeOK
    <2>1. s \in Snapshots /\ s.name = p
        BY <2>0, ReadTypes
    <2>2. /\ DOMAIN snaps' = 1..(Len(snaps) + 1)
          /\ \A i \in 1..Len(snaps) : snaps'[i] = snaps[i]
          /\ snaps'[Len(snaps) + 1] = s
        BY <2>0, <2>1 DEF TypeOK
    <2>3. \A q : In(q, Names(snaps)) => In(q, Names(snaps'))
        <3>1. DOMAIN snaps = 1..Len(snaps) /\ Len(snaps) \in Nat
            BY DEF TypeOK
        <3>2. \A i \in DOMAIN snaps : i \in DOMAIN snaps' /\ snaps'[i] = snaps[i]
            BY <2>2, <3>1
        <3> QED BY <3>2, InNames
    <2>4. In(p, Names(snaps'))
        <3>1. Len(snaps) + 1 \in DOMAIN snaps'
            BY <2>2 DEF TypeOK
        <3> QED BY <2>1, <2>2, <3>1, InNames
    <2>5. \A q \in steady :
             \/ In(q, Names(snaps'))
             \/ \E i \in (next + 1)..Len(pools) : pools[i] = q
        <3>1. ASSUME NEW q \in steady, ~In(q, Names(snaps'))
              PROVE  \E i \in (next + 1)..Len(pools) : pools[i] = q
            <4>1. q # p /\ ~In(q, Names(snaps))
                BY <2>3, <2>4, <3>1
            <4>2. PICK i \in next..Len(pools) : pools[i] = q
                BY <2>0, <3>1, <4>1
            <4> HIDE DEF s
            <4>3. i # next
                BY <4>1, <4>2
            <4> QED BY <4>2, <4>3 DEF TypeOK
        <3> QED BY <3>1
    <2>6. Names(snaps)' = Names(snaps')
        BY DEF Names
    <2> QED BY <1>0, <2>0, <2>5, <2>6 DEF In
<1>4. CASE FallbackList
    <2>1. /\ pc = "sample" /\ next > Len(pools) /\ snaps = <<>>
          /\ steady' = steady /\ UNCHANGED world /\ pc' \in {"unsampled", "fallback"}
        BY <1>4 DEF FallbackList, history
    <2>2. steady = {}
        BY <2>1 DEF In, Names, TypeOK
    <2> QED BY <2>1, <2>2
<1>5. CASE FallbackSample
    <2>1. pc = "fallback" /\ steady' = steady
          /\ pc' \in {"fallback_status", "unsampled"}
        BY <1>5 DEF FallbackSample, history
    <2> QED BY <2>1
<1>6. CASE FallbackStatus
    <2>1. pc = "fallback_status" /\ pc' = "sample" /\ steady' = steady
        BY <1>6 DEF FallbackStatus, history
    <2> QED BY <2>1
<1>7. CASE Draw
    <2>1. /\ pc = "sample" /\ pc' \in {"wait", "terminal"} /\ next > Len(pools)
          /\ UNCHANGED <<steady, snaps, pools, next>>
        BY <1>7 DEF Draw, history
    <2>2. \A p \in steady : In(p, Names(snaps))
        BY <2>1 DEF TypeOK
    <2> QED BY <2>1, <2>2 DEF In, Names
<1>8. CASE NoKey \/ WaitFails \/ Key
    <2>1. CASE End("quit") \/ End("panicked") \/ End("terminal")
        BY <2>1 DEF End
    <2>2. ASSUME NEW c \in Nat, GoRound(c)
          PROVE  SteadyInv'
        BY <2>2 DEF GoRound
    <2> QED BY <1>8, <2>1, <2>2, WaitSteps
<1>9. CASE Host
    <2>1. UNCHANGED <<pc, snaps, pools, next>>
        BY <1>9 DEF Host, loop
    <2>2. steady' \subseteq steady /\ (InTick => steady' \subseteq Readable')
        BY <1>9 DEF Host, Record
    <2>3. ~InTick => steady' = steady
        BY <1>9 DEF Host, Record
    <2> QED BY <2>1, <2>2, <2>3 DEF In, Names
<1>10. CASE Stopped \/ UNCHANGED vars
    <2>1. UNCHANGED <<pc, snaps, pools, next, steady, world>>
        BY <1>10 DEF Stopped, vars, loop, history
    <2> QED BY <1>0, <2>1 DEF In, Names
<1> QED BY <1>1, <1>2, <1>3, <1>4, <1>5, <1>6, <1>7, <1>8, <1>9, <1>10
        DEF Next, Loop

--------------------------------------------------------------------------------
(* The theorems.                                                            *)

\* The inductive invariant holds in every reachable state of the loop.
THEOREM Invariant == Spec => []IInv
<1>1. Init => IInv
    BY InitType, InitSelection, InitFresh, InitSteady DEF IInv
<1>2. IInv /\ [Next]_vars => IInv'
    BY NextType, NextSelection, NextFresh, NextSteady DEF IInv, SelectionInv
<1> QED BY <1>1, <1>2, PTL DEF Spec

\* Every variable of run_tui and every change of the host keeps its type.
THEOREM TypeCorrect == Spec => []TypeOK
<1>1. IInv => TypeOK
    BY DEF IInv
<1> QED BY <1>1, Invariant, PTL

\* snaps[active] never panics: whatever pools come and go and whatever keys are
\* pressed, the cursor of a drawn frame is on one of its tabs.
THEOREM CursorInRange == Spec => []ActiveInRange
<1>1. IInv => ActiveInRange
    BY DEF IInv, SelectionInv, CursorInv, FrameDrawn, ActiveInRange
<1> QED BY <1>1, Invariant, PTL

\* The selection follows its pool by name over any change of the list, as long
\* as no read fails.
THEOREM SelectionFollows == Spec => []SelectionKept
<1>1. IInv => SelectionKept
    BY DEF IInv, SelectionInv
<1> QED BY <1>1, Invariant, PTL

\* No frame shows anything older than its own tick: neither a scan nor a tree of
\* before, nor the placeholder of a tick in which zpool did not answer.
THEOREM FramesFresh == Spec => []FramesAreFresh
<1>1. IInv => FramesAreFresh
    BY DEF IInv, FreshInv, SeenInTick, ReadOf, FramesAreFresh
<1> QED BY <1>1, Invariant, PTL

\* A pool readable all through a tick is on that tick's frame.
THEOREM NobodyMissing == Spec => []NobodyIsMissing
<1>1. IInv => NobodyIsMissing
    BY DEF IInv, SteadyInv
<1> QED BY <1>1, Invariant, PTL

\* For want of a pool the loop ends in no tick that had one readable all through.
THEOREM FailsWithoutPools == Spec => []GivesUpOnlyWithoutPools
<1>1. IInv => GivesUpOnlyWithoutPools
    BY DEF IInv, SteadyInv
<1> QED BY <1>1, Invariant, PTL
================================================================================
