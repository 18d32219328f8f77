------------------------------ MODULE EreportsProofs ------------------------------
(****************************************************************************)
(* Proofs about the follower of Ereports, for every set of blocks, every    *)
(* interleaving and any number of events: what is in the pipe is the end of *)
(* what the child has written, and the reader has dealt with all before it. *)
(* Then about the two queues: the buffer and the window are ends of what    *)
(* the reader has pushed, so that the map shows the newest ereports.  Last  *)
(* about the map itself: each row counts what the screen has of its device, *)
(* whatever the offsets, and none is too wide for the panel.                *)
(****************************************************************************)
EXTENDS ErrorMap, SequenceTheorems, FiniteSetTheorems, Induction, TLAPS

\* The types of what the follower works on.
FollowerType ==
    /\ now \in 0..MaxTime
    /\ log \in Seq([kind : Kinds, at : 0..MaxTime]) /\ Len(log) <= MaxEvents
    /\ written \in 0..Len(log)
    /\ pipe \in Seq(Blocks)
    /\ pending \in [Fields -> 0..MaxEvents]
    /\ read \in Seq(Reports)

\* How many blocks the reader has taken from the pipe.
Consumed == written - Len(pipe)

\* The pipe holds the last blocks written, in order.
PipeIsTheEnd ==
    /\ Consumed \in Nat
    /\ \A i \in 1..Len(pipe) : pipe[i] = Consumed + i

\* Of the blocks consumed, exactly the kept ones were pushed, in order.
ReadInOrder ==
    /\ \A i \in 1..Len(read) : read[i].id <= Consumed
    /\ \A i, j \in 1..Len(read) : i < j => read[i].id < read[j].id
    /\ \A e \in 1..Consumed : log[e].kind.class \in Kept =>
          \E i \in 1..Len(read) : read[i].id = e

\* What the parser holds is younger than every ereport pushed.
PendingIsYoung ==
    \A f \in Fields :
        /\ pending[f] <= Consumed
        /\ pending[f] = 0 \/ \A i \in 1..Len(read) : pending[f] > read[i].id

IInv == FollowerType /\ PipeIsTheEnd /\ ReadInOrder /\ PendingIsYoung /\ NeverReused

--------------------------------------------------------------------------------

\* The ids of the ereports pushed are numbers.
LEMMA ReadIds ==
    ASSUME read \in Seq(Reports), NEW i \in 1..Len(read)
    PROVE  read[i] \in Reports /\ read[i].id \in Blocks /\ read[i].id \in Nat
<1>1. read[i] \in Reports
    BY ElementOfSeq
<1> QED BY <1>1 DEF Reports, Blocks

\* Nothing is written, read or held at the start.
LEMMA InitIInv == Init => IInv
<1> SUFFICES ASSUME Init PROVE IInv
    OBVIOUS
<1> USE BoundsAssumption
<1>1. log \in Seq([kind : Kinds, at : 0..MaxTime]) /\ Len(log) <= MaxEvents
    <2>1. PICK n \in 0..Replayed : log \in [1..n -> {[kind |-> k, at |-> 0] : k \in Kinds}]
        BY DEF Init
    <2>2. log \in [1..n -> [kind : Kinds, at : 0..MaxTime]]
        BY <2>1
    <2>3. n \in Nat /\ n <= MaxEvents
        OBVIOUS
    <2> DEFINE K == [kind : Kinds, at : 0..MaxTime]
    <2> HIDE DEF K
    <2>4. ASSUME NEW s \in [1..n -> K] PROVE s \in Seq(K) /\ Len(s) = n
        BY <2>3
    <2> QED BY <2>2, <2>3, <2>4 DEF K
<1>2. FollowerType
    BY <1>1 DEF Init, FollowerType
<1>3. PipeIsTheEnd /\ ReadInOrder /\ PendingIsYoung /\ NeverReused
    BY DEF Init, PipeIsTheEnd, Consumed, ReadInOrder, PendingIsYoung, NeverReused
<1> QED BY <1>2, <1>3 DEF IInv

\* The clock, the kernel and the child's death leave the follower as it is.
LEMMA PostIInv == IInv /\ Post => IInv'
<1> SUFFICES ASSUME IInv, Post PROVE IInv'
    OBVIOUS
<1>1. PICK k \in Kinds : log' = Append(log, [kind |-> k, at |-> now])
    BY DEF Post
<1>2. /\ log \in Seq([kind : Kinds, at : 0..MaxTime]) /\ now \in 0..MaxTime
      /\ Len(log) \in Nat /\ Len(log) < MaxEvents /\ MaxEvents \in Nat
    BY BoundsAssumption DEF IInv, FollowerType, Post
<1>3. /\ log' \in Seq([kind : Kinds, at : 0..MaxTime]) /\ Len(log') = Len(log) + 1
      /\ \A e \in 1..Len(log) : log'[e] = log[e]
    BY <1>1, <1>2
<1>4. UNCHANGED <<now, written, pipe, pending, read>>
    BY DEF Post, follower
<1>5. FollowerType'
    BY <1>2, <1>3, <1>4 DEF IInv, FollowerType
<1>6. ReadInOrder'
    <2>1. Consumed' = Consumed /\ Consumed \in Nat /\ Consumed <= Len(log)
        BY <1>2, <1>4 DEF Consumed, IInv, FollowerType, PipeIsTheEnd
    <2>2. \A e \in 1..Consumed : log'[e] = log[e]
        BY <1>2, <1>3, <2>1
    <2> QED BY <1>4, <2>1, <2>2 DEF IInv, ReadInOrder
<1> QED BY <1>4, <1>5, <1>6 DEF IInv, PipeIsTheEnd, Consumed, PendingIsYoung, NeverReused

\* A block joins the end of the pipe.
LEMMA ChildWritesIInv == IInv /\ ChildWrites => IInv'
<1> SUFFICES ASSUME IInv, ChildWrites PROVE IInv'
    OBVIOUS
<1>1. UNCHANGED <<now, log, pending, read>>
    BY DEF ChildWrites, kernel
<1>2. CASE UNCHANGED <<written, pipe>>
    BY <1>1, <1>2 DEF IInv, FollowerType, PipeIsTheEnd, Consumed, ReadInOrder,
                      PendingIsYoung, NeverReused
<1>3. CASE written' = written + 1 /\ pipe' = Append(pipe, written + 1)
    <2>1. /\ written \in Nat /\ written < Len(log) /\ pipe \in Seq(Blocks)
          /\ Len(log) \in Nat /\ Len(log) <= MaxEvents /\ MaxEvents \in Nat
        BY BoundsAssumption DEF IInv, FollowerType, ChildWrites
    <2>2. written + 1 \in Blocks
        BY <2>1 DEF Blocks
    <2>3. /\ pipe' \in Seq(Blocks) /\ Len(pipe') = Len(pipe) + 1 /\ Len(pipe) \in Nat
          /\ \A i \in 1..Len(pipe) : pipe'[i] = pipe[i]
          /\ pipe'[Len(pipe) + 1] = written + 1
        BY <1>3, <2>1, <2>2
    <2>4. Consumed' = Consumed
        BY <1>3, <2>1, <2>3 DEF Consumed
    <2>5. FollowerType'
        BY <1>1, <1>3, <2>1, <2>3 DEF IInv, FollowerType
    <2>6. PipeIsTheEnd'
        <3>1. ASSUME NEW i \in 1..Len(pipe') PROVE pipe'[i] = Consumed + i
            <4>1. CASE i \in 1..Len(pipe)
                BY <2>3, <4>1 DEF IInv, PipeIsTheEnd
            <4>2. CASE i = Len(pipe) + 1
                BY <2>1, <2>3, <4>2 DEF Consumed
            <4> QED BY <2>3, <4>1, <4>2
        <3> QED BY <2>4, <3>1 DEF IInv, PipeIsTheEnd
    <2> QED BY <1>1, <2>4, <2>5, <2>6 DEF IInv, ReadInOrder, PendingIsYoung, NeverReused
<1> QED BY <1>2, <1>3 DEF ChildWrites

\* The reader takes the first block of the pipe: the next one after those
\* consumed.  If it is kept it is pushed, with rows younger than what was pushed
\* before, and the parser is empty; if not, what it has left is younger still.
LEMMA ReadBlockIInv == IInv /\ ReadBlock => IInv'
<1> SUFFICES ASSUME IInv, ReadBlock PROVE IInv'
    OBVIOUS
<1> DEFINE e == Head(pipe)
<1>1. /\ pipe \in Seq(Blocks) /\ pipe # <<>> /\ Len(pipe) \in Nat \ {0}
      /\ pipe' = Tail(pipe) /\ e = pipe[1] /\ e \in Blocks
      /\ written \in Nat /\ written <= Len(log) /\ Len(log) \in Nat
      /\ MaxEvents \in Nat /\ MaxTime \in Nat
      /\ UNCHANGED <<now, log, written>>
    BY BoundsAssumption DEF IInv, FollowerType, ReadBlock, kernel
<1>2. /\ pipe' \in Seq(Blocks) /\ Len(pipe') = Len(pipe) - 1
      /\ \A i \in 1..Len(pipe') : pipe'[i] = pipe[i + 1]
    BY <1>1
<1>3. Consumed \in Nat /\ e = Consumed + 1 /\ Consumed' = e /\ e \in 1..Len(log)
    BY <1>1, <1>2 DEF IInv, PipeIsTheEnd, Consumed
<1>4. PipeIsTheEnd'
    <2>1. ASSUME NEW i \in 1..Len(pipe') PROVE pipe'[i] = Consumed' + i
        <3>1. i + 1 \in 1..Len(pipe) /\ pipe'[i] = pipe[i + 1]
            BY <1>1, <1>2
        <3>2. pipe[i + 1] = Consumed + (i + 1)
            BY <3>1 DEF IInv, PipeIsTheEnd
        <3> QED BY <1>1, <1>2, <1>3, <3>1, <3>2
    <2>2. Consumed' \in Nat
        BY <1>3
    <2> QED BY <2>1, <2>2 DEF PipeIsTheEnd
<1>5. Fed(e) \in [Fields -> 0..MaxEvents]
    BY <1>1 DEF IInv, FollowerType, Fed, Blocks
<1>6. ASSUME NEW f \in Fields
      PROVE  /\ Fed(e)[f] \in 0..MaxEvents /\ Fed(e)[f] <= e
             /\ Fed(e)[f] = 0 \/ \A i \in 1..Len(read) : Fed(e)[f] > read[i].id
    <2>1. /\ pending[f] \in 0..MaxEvents /\ pending[f] <= Consumed
          /\ pending[f] = 0 \/ \A i \in 1..Len(read) : pending[f] > read[i].id
        BY <1>6 DEF IInv, FollowerType, PendingIsYoung
    <2>2. \A i \in 1..Len(read) : read[i].id <= Consumed /\ read[i].id \in Nat
        BY ReadIds DEF IInv, FollowerType, ReadInOrder
    <2>3. Fed(e)[f] = IF f \in log[e].kind.rows THEN e ELSE pending[f]
        BY <1>6 DEF Fed
    <2> QED BY <1>1, <1>3, <1>5, <2>1, <2>2, <2>3 DEF Blocks
<1>7. CASE log[e].kind.class \in Kept
    <2>1. /\ read' = Append(read, Report(e)) /\ pending' = [f \in Fields |-> 0]
        BY <1>7 DEF ReadBlock
    <2>2. Report(e) \in Reports /\ Report(e).id = e /\ Report(e).from = Fed(e)
        BY <1>1, <1>5 DEF Report, Reports, IInv, FollowerType
    <2>3. /\ read \in Seq(Reports) /\ Len(read) \in Nat
          /\ read' \in Seq(Reports) /\ Len(read') = Len(read) + 1
          /\ \A i \in 1..Len(read) : read'[i] = read[i]
          /\ read'[Len(read) + 1] = Report(e)
        BY <2>1, <2>2 DEF IInv, FollowerType
    <2>4. \A i \in 1..Len(read) : read[i].id \in Nat /\ read[i].id < e
        <3>1. \A i \in 1..Len(read) : read[i].id \in Nat /\ read[i].id <= Consumed
            BY <2>3, ReadIds DEF IInv, ReadInOrder
        <3> QED BY <1>3, <3>1
    <2>5. pending' \in [Fields -> 0..MaxEvents] /\ \A f \in Fields : pending'[f] = 0
        BY <1>1, <2>1
    <2>6. FollowerType'
        BY <1>1, <1>2, <2>3, <2>5 DEF IInv, FollowerType
    <2>7. PendingIsYoung'
        BY <1>1, <1>3, <2>5 DEF PendingIsYoung, Blocks
    <2>8. ReadInOrder'
        <3>1. ASSUME NEW i \in 1..Len(read') PROVE read'[i].id <= Consumed'
            <4>1. CASE i \in 1..Len(read)
                <5>1. read'[i].id \in Nat /\ read'[i].id < e
                    BY <2>3, <2>4, <4>1
                <5> QED BY <1>3, <5>1
            <4>2. CASE i = Len(read) + 1
                BY <1>3, <2>2, <2>3, <4>2
            <4> QED BY <2>3, <4>1, <4>2
        <3>2. ASSUME NEW i \in 1..Len(read'), NEW j \in 1..Len(read'), i < j
              PROVE  read'[i].id < read'[j].id
            <4>1. i \in 1..Len(read)
                BY <2>3, <3>2
            <4>2. CASE j \in 1..Len(read)
                BY <2>3, <3>2, <4>1, <4>2 DEF IInv, ReadInOrder
            <4>3. CASE j = Len(read) + 1
                BY <2>2, <2>3, <2>4, <4>1, <4>3
            <4> QED BY <2>3, <4>2, <4>3
        <3>3. ASSUME NEW b \in 1..Consumed', log'[b].kind.class \in Kept
              PROVE  \E i \in 1..Len(read') : read'[i].id = b
            <4>1. CASE b = e
                BY <2>2, <2>3, <4>1
            <4>2. CASE b # e
                <5>1. b \in 1..Consumed /\ log[b].kind.class \in Kept
                    BY <1>1, <1>3, <3>3, <4>2
                <5>2. PICK i \in 1..Len(read) : read[i].id = b
                    BY <5>1 DEF IInv, ReadInOrder
                <5> QED BY <2>3, <5>2
            <4> QED BY <4>1, <4>2
        <3> QED BY <3>1, <3>2, <3>3 DEF ReadInOrder
    <2>9. NeverReused'
        <3> SUFFICES ASSUME NEW i \in 1..Len(read'), NEW j \in 1..Len(read'), i < j,
                            NEW f \in Fields
                     PROVE  read'[j].from[f] = 0 \/ read'[j].from[f] > read'[i].id
            BY <2>3 DEF NeverReused
        <3>1. i \in 1..Len(read) /\ read'[i] = read[i]
            BY <2>3
        <3>2. CASE j \in 1..Len(read)
            BY <2>3, <3>1, <3>2 DEF IInv, NeverReused
        <3>3. CASE j = Len(read) + 1
            BY <1>6, <2>2, <2>3, <3>1, <3>3
        <3> QED BY <2>3, <3>2, <3>3
    <2> QED BY <1>4, <2>6, <2>7, <2>8, <2>9 DEF IInv
<1>8. CASE log[e].kind.class \notin Kept
    <2>1. read' = read /\ (pending' = pending \/ pending' = Fed(e))
        BY <1>8 DEF ReadBlock
    <2>2. pending' \in [Fields -> 0..MaxEvents]
        BY <1>5, <2>1 DEF IInv, FollowerType
    <2>3. FollowerType'
        BY <1>1, <1>2, <2>1, <2>2 DEF IInv, FollowerType
    <2>4. ReadInOrder'
        <3>1. \A i \in 1..Len(read) : read[i].id \in Nat /\ read[i].id <= Consumed
            BY ReadIds DEF IInv, FollowerType, ReadInOrder
        <3>2. \A i \in 1..Len(read) : read[i].id <= e
            BY <1>3, <3>1
        <3>3. \A b \in 1..e : log[b].kind.class \in Kept => b \in 1..Consumed
            BY <1>3, <1>8
        <3> QED BY <1>1, <1>3, <2>1, <3>2, <3>3 DEF IInv, ReadInOrder
    <2>5. PendingIsYoung'
        <3>1. ASSUME NEW f \in Fields
              PROVE  /\ pending'[f] <= e
                     /\ pending'[f] = 0 \/ \A i \in 1..Len(read) : pending'[f] > read[i].id
            <4>1. CASE pending' = Fed(e)
                BY <1>6, <4>1
            <4>2. CASE pending' = pending
                <5>1. pending[f] \in 0..MaxEvents /\ pending[f] <= Consumed
                    BY DEF IInv, FollowerType, PendingIsYoung
                <5>2. pending'[f] <= e
                    BY <1>3, <4>2, <5>1
                <5> QED BY <4>2, <5>2 DEF IInv, PendingIsYoung
            <4> QED BY <2>1, <4>1, <4>2
        <3> QED BY <1>3, <2>1, <3>1 DEF PendingIsYoung
    <2> QED BY <1>4, <2>1, <2>3, <2>4, <2>5 DEF IInv, NeverReused
<1> QED BY <1>7, <1>8

\* Every step preserves the invariant.
LEMMA IInvInductive == IInv /\ [Next]_vars => IInv'
<1> SUFFICES ASSUME IInv, [Next]_vars PROVE IInv'
    OBVIOUS
<1>1. CASE Pass
    <2>1. now' \in 0..MaxTime /\ UNCHANGED <<log, written, pipe, pending, read>>
        BY <1>1, BoundsAssumption DEF Pass, follower, IInv, FollowerType
    <2> QED BY <2>1 DEF IInv, FollowerType, PipeIsTheEnd, Consumed, ReadInOrder,
                        PendingIsYoung, NeverReused
<1>2. CASE ChildDies \/ ReaderEnds \/ Tick \/ Quit \/ Stopped \/ UNCHANGED vars
    <2>1. UNCHANGED <<now, log, written, pipe, pending, read>>
        BY <1>2 DEF ChildDies, ReaderEnds, Tick, Drain, Refresh, Quit, Stopped, vars,
                    kernel, follower
    <2> QED BY <2>1 DEF IInv, FollowerType, PipeIsTheEnd, Consumed, ReadInOrder,
                        PendingIsYoung, NeverReused
<1> QED BY <1>1, <1>2, PostIInv, ChildWritesIInv, ReadBlockIInv DEF Next, Follow

\* The invariant holds throughout.
THEOREM Invariant == Spec => []IInv
    BY InitIInv, IInvInductive, PTL DEF Spec

\* No row is ever given to two ereports that the reader has pushed.
THEOREM RowsServeOnce == Spec => []NeverReused
<1>1. IInv => NeverReused
    BY DEF IInv
<1> QED BY Invariant, <1>1, PTL

\* Every kept event that was written is in the pipe or was pushed, once and in
\* order: follower and pipe lose, repeat and reorder nothing.
THEOREM FollowerComplete == Spec => []NothingLost
<1>1. IInv => NothingLost
    <2> SUFFICES ASSUME IInv PROVE NothingLost
        OBVIOUS
    <2> DEFINE ids == Ids(read)
               all == ids \o pipe
    <2>1. /\ read \in Seq(Reports) /\ pipe \in Seq(Blocks)
          /\ Len(read) \in Nat /\ Len(pipe) \in Nat /\ written \in Nat
          /\ Consumed \in Nat /\ written = Consumed + Len(pipe)
        BY DEF IInv, FollowerType, PipeIsTheEnd, Consumed
    <2>2. /\ ids \in Seq(Blocks) /\ Len(ids) = Len(read)
          /\ \A i \in 1..Len(read) : ids[i] = read[i].id
        <3>1. ids = [i \in 1..Len(read) |-> read[i].id]
            BY <2>1, LenProperties DEF Ids
        <3>2. \A i \in 1..Len(read) : read[i].id \in Blocks
            BY <2>1, ReadIds
        <3> HIDE DEF ids
        <3> QED BY <2>1, <3>1, <3>2
    <2>3. /\ Len(all) = Len(read) + Len(pipe) /\ DOMAIN all = 1..Len(all)
          /\ \A i \in 1..Len(read) : all[i] = read[i].id
          /\ \A i \in Len(read) + 1..Len(all) : all[i] = pipe[i - Len(read)]
        <3>1. /\ all \in Seq(Blocks) /\ Len(all) = Len(ids) + Len(pipe)
              /\ \A i \in 1..Len(ids) + Len(pipe) :
                    all[i] = IF i <= Len(ids) THEN ids[i] ELSE pipe[i - Len(ids)]
            BY <2>1, <2>2, ConcatProperties
        <3>2. DOMAIN all = 1..Len(all)
            BY <3>1, LenProperties
        <3> HIDE DEF ids, all
        <3> QED BY <2>1, <2>2, <3>1, <3>2
    <2>4. /\ \A i \in 1..Len(read) : all[i] \in Nat /\ all[i] <= Consumed
          /\ \A i \in Len(read) + 1..Len(all) : all[i] = Consumed + (i - Len(read))
        <3>1. \A i \in 1..Len(read) : read[i].id \in Nat /\ read[i].id <= Consumed
            BY <2>1, ReadIds DEF IInv, ReadInOrder
        <3>2. \A i \in 1..Len(pipe) : pipe[i] = Consumed + i
            BY DEF IInv, PipeIsTheEnd
        <3>3. ASSUME NEW i \in Len(read) + 1..Len(all)
              PROVE  all[i] = Consumed + (i - Len(read))
            <4>1. all[i] = pipe[i - Len(read)]
                BY <2>3
            <4> HIDE DEF all
            <4>2. i - Len(read) \in 1..Len(pipe)
                BY <2>1, <2>3
            <4> QED BY <3>2, <4>1, <4>2
        <3> HIDE DEF all
        <3> QED BY <2>3, <3>1, <3>3
    <2>5. ASSUME NEW i \in DOMAIN all, NEW j \in DOMAIN all, i < j
          PROVE  all[i] < all[j]
        <3>1. CASE j \in 1..Len(read)
            <4>1. i \in 1..Len(read)
                BY <2>1, <2>3, <2>5, <3>1
            <4> QED BY <2>3, <2>5, <3>1, <4>1 DEF IInv, ReadInOrder
        <3>2. CASE j \notin 1..Len(read)
            <4> HIDE DEF all
            <4>1. j \in Len(read) + 1..Len(all)
                BY <2>1, <2>3, <3>2
            <4>2. CASE i \in 1..Len(read)
                BY <2>1, <2>4, <4>1, <4>2
            <4>3. CASE i \notin 1..Len(read)
                BY <2>1, <2>3, <2>4, <2>5, <4>1, <4>3
            <4> QED BY <4>2, <4>3
        <3> QED BY <3>1, <3>2
    <2>6. ASSUME NEW b \in KeptIds(written) PROVE b \in {all[i] : i \in DOMAIN all}
        <3>1. b \in 1..written /\ log[b].kind.class \in Kept
            BY <2>6 DEF KeptIds
        <3>2. CASE b <= Consumed
            <4>1. PICK i \in 1..Len(read) : read[i].id = b
                BY <2>1, <3>1, <3>2 DEF IInv, ReadInOrder
            <4> HIDE DEF all
            <4> QED BY <2>1, <2>3, <4>1
        <3>3. CASE b > Consumed
            <4> HIDE DEF all
            <4> DEFINE x == Len(read) + (b - Consumed)
            <4>1. x \in Len(read) + 1..Len(all) /\ Consumed + (x - Len(read)) = b
                BY <2>1, <2>3, <3>1, <3>3
            <4> HIDE DEF x
            <4>2. all[x] = b
                BY <2>4, <4>1
            <4> QED BY <2>1, <2>3, <4>1, <4>2
        <3> QED BY <2>1, <3>1, <3>2, <3>3
    <2> QED BY <2>5, <2>6 DEF NothingLost
<1> QED BY Invariant, <1>1, PTL

--------------------------------------------------------------------------------
(* The two queues and the screen.                                           *)

\* From older to newer.
SortedByTime(s) == \A i, j \in 1..Len(s) : i < j => s[i].ts <= s[j].ts

\* The types of the rest.
LoopType ==
    /\ child \in {"running", "dead", "reaped"}
    /\ reader \in {"reading", "stopped"}
    /\ buffer \in Seq(Reports)
    /\ window \in Seq(Reports)
    /\ ui \in {"idle", "drained", "ended"}
    /\ screen \in Seq(Reports) /\ Len(screen) <= WindowCap
    /\ taken \in 0..Len(read)

\* The reader stamps what it pushes.
ReadIsSorted == SortedByTime(read) /\ \A i \in 1..Len(read) : read[i].ts <= now

\* The buffer holds the newest of what was pushed since the last drain: all of
\* it, or as much as it can hold.
BufferIsTheEnd ==
    /\ Len(buffer) <= Len(read) - taken /\ Len(buffer) <= BufferCap
    /\ Len(buffer) = Len(read) - taken \/ Len(buffer) = BufferCap
    /\ \A i \in 1..Len(buffer) : buffer[i] = read[Len(read) - Len(buffer) + i]

\* The window holds what was pushed before the last drain, in its order.
WindowWasRead ==
    /\ SortedByTime(window)
    /\ \A p \in 1..Len(window) : \E i \in 1..taken : window[p] = read[i]

\* The last c of the window are the last c of what was pushed before the last
\* drain; where the two part, c are enough or the rest is too old.
CommonEnd(c) ==
    /\ c <= taken
    /\ \A j \in 0..c - 1 : window[Len(window) - j] = read[taken - j]
    /\ c < Len(window) => c >= WindowCap
    /\ c < taken => (c >= WindowCap \/ read[taken - c].ts < now - Window)
WindowIsTheEnd == \E c \in 0..Len(window) : CommonEnd(c)

WInv == LoopType /\ ReadIsSorted /\ BufferIsTheEnd /\ WindowWasRead /\ WindowIsTheEnd

\* Parts of a sequence that follow one another are joined by appending.
LEMMA SubSeqGrows ==
    ASSUME NEW S, NEW s \in Seq(S), NEW k \in 0..Len(s), NEW n \in 1..Len(s)
    PROVE  /\ n <= k => SubSeq(s, k + 1, n) = <<>>
           /\ n > k => SubSeq(s, k + 1, n) = Append(SubSeq(s, k + 1, n - 1), s[n])
<1>1. CASE n <= k
    BY <1>1, SubSeqProperties
<1>2. CASE n > k
    <2> DEFINE a == SubSeq(s, k + 1, n)
               b == SubSeq(s, k + 1, n - 1)
    <2>1. /\ a \in Seq(S) /\ Len(a) = n - k
          /\ \A i \in 1..n - k : a[i] = s[k + i]
        BY <1>2, SubSeqProperties
    <2>2. /\ b \in Seq(S) /\ Len(b) = n - k - 1
          /\ \A i \in 1..n - k - 1 : b[i] = s[k + i]
        BY <1>2, SubSeqProperties
    <2> HIDE DEF a, b
    <2>3. s[n] \in S
        BY ElementOfSeq
    <2> DEFINE c == Append(b, s[n])
    <2>4. /\ c \in Seq(S) /\ Len(c) = n - k /\ c[n - k] = s[n]
          /\ \A i \in 1..n - k - 1 : c[i] = s[k + i]
        BY <1>2, <2>2, <2>3, AppendProperties
    <2> HIDE DEF c
    <2>5. \A i \in 1..Len(a) : a[i] = c[i]
        <3>1. ASSUME NEW i \in 1..Len(a) PROVE a[i] = c[i]
            <4>1. CASE i = n - k
                BY <2>1, <2>4, <4>1
            <4>2. CASE i # n - k
                BY <2>1, <2>4, <4>2
            <4> QED BY <4>1, <4>2
        <3> QED BY <3>1
    <2>6. a = c
        BY <2>1, <2>4, <2>5, SeqEqual
    <2> QED BY <1>2, <2>6 DEF a, b, c
<1> QED BY <1>1, <1>2

\* In the order of their times, the ereports that are not older than the window
\* are those after some position, and Retained is the sequence of these.
LEMMA RetainedOfSorted ==
    ASSUME NEW s \in Seq(Reports), SortedByTime(s), now \in Int
    PROVE  \E k \in 0..Len(s) :
              /\ Retained(s) = SubSeq(s, k + 1, Len(s))
              /\ \A i \in 1..k : s[i].ts < now - Window
              /\ \A i \in k + 1..Len(s) : s[i].ts >= now - Window
<1> USE BoundsAssumption
<1>0. Len(s) \in Nat /\ \A i \in 1..Len(s) : s[i] \in Reports /\ s[i].ts \in Int
    <2>1. \A i \in 1..Len(s) : s[i] \in Reports
        BY ElementOfSeq
    <2>2. \A r \in Reports : r.ts \in Int
        BY DEF Reports
    <2> QED BY <2>1, <2>2
<1>1. \E k \in 0..Len(s) :
         /\ \A i \in 1..k : s[i].ts < now - Window
         /\ \A i \in k + 1..Len(s) : s[i].ts >= now - Window
    <2> DEFINE young == {i \in 1..Len(s) : s[i].ts >= now - Window}
    <2>1. CASE young = {}
        BY <1>0, <2>1
    <2>2. CASE young # {}
        <3>0. young \in SUBSET Nat
            BY <1>0
        <3> HIDE DEF young
        <3>1. PICK m \in young : \A n \in young : m <= n
            BY <2>2, <3>0, LeastNumber
        <3> USE DEF young
        <3>2. \A i \in m..Len(s) : s[i].ts >= now - Window
            BY <1>0, <3>1 DEF SortedByTime
        <3>3. \A i \in 1..m - 1 : s[i].ts < now - Window
            BY <1>0, <3>1
        <3>4. m - 1 \in 0..Len(s) /\ m - 1 + 1 = m
            BY <1>0, <3>1
        <3> QED BY <3>2, <3>3, <3>4
    <2> QED BY <2>1, <2>2
<1>2. PICK k \in 0..Len(s) :
         /\ \A i \in 1..k : s[i].ts < now - Window
         /\ \A i \in k + 1..Len(s) : s[i].ts >= now - Window
    BY <1>1
<1> DEFINE body(f) == [n \in 0..Len(s) |->
                         IF n = 0 THEN <<>>
                         ELSE IF s[n].ts >= now - Window THEN Append(f[n - 1], s[n])
                         ELSE f[n - 1]]
           g == [n \in 0..Len(s) |-> SubSeq(s, k + 1, n)]
           kept == CHOOSE f : f = body(f)
<1>3. g = body(g)
    <2>1. ASSUME NEW n \in 0..Len(s) PROVE g[n] = body(g)[n]
        <3>1. CASE n = 0
            BY <1>0, <3>1, SubSeqProperties
        <3>2. CASE n \in 1..k
            <4>1. g[n] = <<>>
                BY <1>0, <3>2, SubSeqGrows
            <4>2. g[n - 1] = <<>>
                <5>1. CASE n = 1
                    BY <1>0, <3>2, <5>1, SubSeqProperties
                <5>2. CASE n > 1
                    BY <1>0, <3>2, <5>2, SubSeqGrows
                <5> QED BY <3>2, <5>1, <5>2
            <4>3. ~(s[n].ts >= now - Window)
                BY <1>0, <1>2, <3>2
            <4> HIDE DEF g
            <4> QED BY <1>0, <3>2, <4>1, <4>2, <4>3
        <3>3. CASE n \in k + 1..Len(s)
            <4>1. n \in 1..Len(s) /\ n > k /\ n # 0 /\ n - 1 \in 0..Len(s)
                BY <1>0, <3>3
            <4>2. g[n] = Append(g[n - 1], s[n])
                BY <1>0, <4>1, SubSeqGrows
            <4>3. s[n].ts >= now - Window
                BY <1>2, <3>3
            <4> HIDE DEF g
            <4>4. body(g)[n] = IF n = 0 THEN <<>>
                               ELSE IF s[n].ts >= now - Window THEN Append(g[n - 1], s[n])
                               ELSE g[n - 1]
                OBVIOUS
            <4> HIDE DEF body
            <4>5. body(g)[n] = Append(g[n - 1], s[n])
                BY <4>1, <4>3, <4>4
            <4> QED BY <4>2, <4>5
        <3> HIDE DEF g, body
        <3> QED BY <1>0, <3>1, <3>2, <3>3
    <2> HIDE DEF g
    <2>2. g = [n \in 0..Len(s) |-> g[n]]
        BY DEF g
    <2> QED BY <2>1, <2>2
<1>4. kept = body(kept)
    <2> HIDE DEF body, g
    <2> QED BY <1>3
<1>5. Retained(s) = kept[Len(s)]
    BY DEF Retained
<1> HIDE DEF kept
<1>6. 0..Len(s) \subseteq {n \in 0..Len(s) : kept[n] = g[n]}
    <2> DEFINE S == {n \in 0..Len(s) : kept[n] = g[n]}
    <2>1. ASSUME NEW n \in 0..Len(s) PROVE kept[n] = body(kept)[n] /\ g[n] = body(g)[n]
        <3> HIDE DEF body, g
        <3> QED BY <1>3, <1>4
    <2> HIDE DEF g
    <2>2. 0 \in S
        BY <1>0, <2>1
    <2>3. ASSUME NEW n \in 0..Len(s) - 1, n \in S PROVE n + 1 \in S
        <3>1. n + 1 \in 0..Len(s) /\ kept[n] = g[n] /\ n + 1 # 0 /\ (n + 1) - 1 = n
            BY <1>0, <2>3
        <3> QED BY <2>1, <3>1
    <2> HIDE DEF S
    <2>4. Len(s) \in Int /\ 0 \in Int /\ \A n \in 0..Len(s) - 1 : n \in S => n + 1 \in S
        BY <1>0, <2>3
    <2>5. 0..Len(s) \subseteq S
        BY <2>2, <2>4, InductionUp, Zenon
    <2> QED BY <2>5 DEF S
<1>7. kept[Len(s)] = SubSeq(s, k + 1, Len(s))
    BY <1>0, <1>6
<1> QED BY <1>2, <1>5, <1>7

\* The last n of an end of a sequence are an end of the sequence.
LEMMA LastOfEnd ==
    ASSUME NEW S, NEW s \in Seq(S), NEW k \in 0..Len(s), NEW n \in Nat
    PROVE  \E m \in k..Len(s) :
              /\ Last(n, SubSeq(s, k + 1, Len(s))) = SubSeq(s, m + 1, Len(s))
              /\ Len(s) - m <= n
              /\ m > k => Len(s) - m = n
<1> DEFINE a == SubSeq(s, k + 1, Len(s))
<1>0. Len(s) \in Nat
    OBVIOUS
<1>1. /\ a \in Seq(S) /\ Len(a) = Len(s) - k
      /\ \A i \in 1..Len(a) : a[i] = s[k + i]
    BY <1>0, SubSeqProperties
<1> HIDE DEF a
<1>2. CASE Len(a) <= n
    <2>1. Last(n, a) = a
        BY <1>2 DEF Last
    <2> QED BY <1>0, <1>1, <1>2, <2>1 DEF a
<1>3. CASE Len(a) > n
    <2> DEFINE m == Len(s) - n
               b == SubSeq(a, Len(a) - n + 1, Len(a))
               c == SubSeq(s, m + 1, Len(s))
    <2>1. m \in k..Len(s) /\ m > k /\ Len(s) - m = n
        BY <1>0, <1>1, <1>3
    <2>2. /\ b \in Seq(S) /\ Len(b) = n
          /\ \A i \in 1..n : b[i] = a[Len(a) - n + i]
        BY <1>0, <1>1, <1>3, SubSeqProperties
    <2>3. /\ c \in Seq(S) /\ Len(c) = n
          /\ \A i \in 1..n : c[i] = s[m + i]
        BY <1>0, <2>1, SubSeqProperties
    <2>4. \A i \in 1..n : Len(a) - n + i \in 1..Len(a) /\ k + (Len(a) - n + i) = m + i
        BY <1>0, <1>1, <1>3
    <2> HIDE DEF b, c
    <2>5. \A i \in 1..Len(b) : b[i] = c[i]
        BY <1>1, <2>2, <2>3, <2>4
    <2>6. b = c
        BY <2>2, <2>3, <2>5, SeqEqual
    <2>7. Last(n, a) = b
        <3>1. ~(Len(a) <= n)
            BY <1>0, <1>1, <1>3
        <3> QED BY <3>1, Zenon DEF Last, b
    <2> QED BY <2>1, <2>6, <2>7 DEF a, c
<1> QED BY <1>0, <1>1, <1>2, <1>3

\* What a refresh leaves in the window: an end of what was pushed before the last
\* drain, all of it recent, and nothing before it that is recent and had room.
LEMMA RefreshShows ==
    ASSUME IInv, WInv, Refresh
    PROVE  \E n \in 0..taken :
              /\ window' = SubSeq(read, n + 1, taken)
              /\ taken - n <= WindowCap
              /\ \A i \in n + 1..taken : read[i].ts >= now - Window
              /\ n > 0 => (taken - n = WindowCap \/ read[n].ts < now - Window)
<1> DEFINE lw == Len(window)
<1>0. /\ window \in Seq(Reports) /\ read \in Seq(Reports)
      /\ lw \in Nat /\ Len(read) \in Nat /\ taken \in 0..Len(read)
      /\ WindowCap \in Nat /\ now \in Int
    BY BoundsAssumption DEF IInv, FollowerType, WInv, LoopType
<1> HIDE DEF lw
<1>1. PICK k \in 0..lw :
         /\ Retained(window) = SubSeq(window, k + 1, lw)
         /\ \A i \in 1..k : window[i].ts < now - Window
         /\ \A i \in k + 1..lw : window[i].ts >= now - Window
    BY <1>0, RetainedOfSorted DEF lw, WInv, WindowWasRead
<1>2. PICK m \in k..lw :
         /\ window' = SubSeq(window, m + 1, lw)
         /\ lw - m <= WindowCap
         /\ m > k => lw - m = WindowCap
    BY <1>0, <1>1, LastOfEnd DEF lw, Refresh
<1>3. PICK c \in 0..lw : CommonEnd(c)
    BY DEF WInv, WindowIsTheEnd, lw
<1> DEFINE l == lw - m
           n == taken - l
<1>4. /\ c <= taken /\ (c < lw => c >= WindowCap)
      /\ \A j \in 0..c - 1 : window[lw - j] = read[taken - j]
      /\ c < taken => (c >= WindowCap \/ read[taken - c].ts < now - Window)
    BY <1>3 DEF CommonEnd, lw
<1>5. l \in 0..c /\ n \in 0..taken /\ taken - n = l
    <2>1. /\ taken \in Nat /\ WindowCap \in Nat /\ lw \in Nat /\ c \in Nat /\ m \in Nat
          /\ c <= lw /\ m <= lw /\ c <= taken
        BY <1>0, <1>1, <1>2, <1>3, <1>4
    <2>2. (c < lw => c >= WindowCap) /\ lw - m <= WindowCap
        BY <1>2, <1>4
    <2>3. lw - m <= c
        BY <2>1, <2>2
    <2> QED BY <2>1, <2>3
<1>6. \A i \in 1..l : window[m + i] = read[n + i]
    <2> SUFFICES ASSUME NEW i \in 1..l PROVE window[m + i] = read[n + i]
        OBVIOUS
    <2>1. l - i \in 0..c - 1 /\ lw - (l - i) = m + i /\ taken - (l - i) = n + i
        BY <1>0, <1>1, <1>2, <1>5
    <2> HIDE DEF l, n
    <2> QED BY <1>4, <2>1
<1>7. window' = SubSeq(read, n + 1, taken)
    <2> DEFINE a == SubSeq(window, m + 1, lw)
               b == SubSeq(read, n + 1, taken)
    <2>1. a \in Seq(Reports) /\ Len(a) = l /\ \A i \in 1..l : a[i] = window[m + i]
        BY <1>0, <1>1, <1>2, SubSeqProperties DEF lw
    <2>2. b \in Seq(Reports) /\ Len(b) = l /\ \A i \in 1..l : b[i] = read[n + i]
        <3> HIDE DEF l, n
        <3>1. n + 1 \in 1..Len(read) + 1 /\ taken \in 0..Len(read) /\ n <= taken
            BY <1>0, <1>5
        <3>2. /\ b \in Seq(Reports) /\ Len(b) = (IF n + 1 <= taken THEN taken - (n + 1) + 1 ELSE 0)
              /\ \A i \in 1..taken - (n + 1) + 1 : b[i] = read[(n + 1) + i - 1]
            BY <1>0, <3>1, SubSeqProperties
        <3>3. \A i \in 1..l : (n + 1) + i - 1 = n + i /\ i \in 1..taken - (n + 1) + 1
            BY <1>0, <1>5
        <3>4. Len(b) = l
            BY <1>0, <1>5, <3>2
        <3> HIDE DEF b
        <3> QED BY <3>2, <3>3, <3>4
    <2> HIDE DEF a, b, l, n
    <2>3. a = b
        BY <1>6, <2>1, <2>2, SeqEqual
    <2> QED BY <1>2, <2>3 DEF a, b
<1>8. ASSUME NEW i \in n + 1..taken PROVE read[i].ts >= now - Window
    <2>1. i - n \in 1..l /\ n + (i - n) = i
        BY <1>0, <1>5
    <2>2. m + (i - n) \in k + 1..lw
        BY <1>0, <1>1, <1>2, <1>5, <2>1
    <2> HIDE DEF l, n
    <2> QED BY <1>1, <1>6, <2>1, <2>2
<1>9. ASSUME n > 0, l # WindowCap PROVE read[n].ts < now - Window
    <2>1. m = k /\ l < WindowCap
        BY <1>0, <1>1, <1>2, <1>5, <1>9
    <2>2. CASE c = l
        BY <1>0, <1>1, <1>4, <1>5, <1>9, <2>1, <2>2
    <2>3. CASE c > l
        <3>1. l \in 0..c - 1 /\ lw - l = k /\ k \in 1..k
            BY <1>0, <1>1, <1>2, <1>5, <2>1, <2>3
        <3>2. window[k] = read[n]
            BY <1>4, <3>1
        <3> HIDE DEF l, n
        <3> QED BY <1>1, <3>1, <3>2
    <2> QED BY <1>0, <1>5, <2>2, <2>3
<1>10. taken - n <= WindowCap /\ (n > 0 => (taken - n = WindowCap \/ read[n].ts < now - Window))
    BY <1>2, <1>5, <1>9
<1> HIDE DEF l, n
<1> QED BY <1>5, <1>7, <1>8, <1>10

\* At the start both queues are empty, and what was posted before has been read
\* by nobody.
LEMMA InitWInv == Init => WInv
<1> SUFFICES ASSUME Init PROVE WInv
    OBVIOUS
<1> USE BoundsAssumption DEF Init
<1>1. LoopType /\ ReadIsSorted /\ BufferIsTheEnd /\ WindowWasRead
    BY DEF LoopType, ReadIsSorted, SortedByTime, BufferIsTheEnd, WindowWasRead
<1>2. CommonEnd(0)
    BY DEF CommonEnd
<1> QED BY <1>1, <1>2 DEF WInv, WindowIsTheEnd

\* A push keeps the buffer the end of what was pushed, dropping its oldest when it
\* is full.
LEMMA PushWInv == IInv /\ IInv' /\ WInv /\ ReadBlock => WInv'
<1> SUFFICES ASSUME IInv, IInv', WInv, ReadBlock PROVE WInv'
    OBVIOUS
<1>0. /\ read \in Seq(Reports) /\ read' \in Seq(Reports) /\ buffer \in Seq(Reports)
      /\ Len(read) \in Nat /\ Len(buffer) \in Nat /\ taken \in 0..Len(read)
      /\ BufferCap \in Nat \ {0} /\ now \in 0..MaxTime
      /\ UNCHANGED <<now, child, window, ui, screen, taken>>
      /\ reader' \in {"reading", "stopped"}
    <2>1. reader' \in {"reading", "stopped"}
        BY DEF ReadBlock
    <2>2. UNCHANGED <<now, child, window, ui, screen, taken>>
        BY DEF ReadBlock, kernel
    <2> QED BY <2>1, <2>2, BoundsAssumption DEF IInv, FollowerType, WInv, LoopType
<1>1. CASE UNCHANGED <<buffer, read>>
    BY <1>0, <1>1 DEF WInv, LoopType, ReadIsSorted, SortedByTime, BufferIsTheEnd,
                      WindowWasRead, WindowIsTheEnd, CommonEnd
<1>2. CASE buffer' = Push(buffer, Report(Head(pipe))) /\ read' = Append(read, Report(Head(pipe)))
    <2> DEFINE r == Report(Head(pipe))
    <2>1. r.ts = now
        BY DEF Report
    <2> HIDE DEF r
    <2>2. /\ Len(read') = Len(read) + 1 /\ read'[Len(read) + 1] = r
          /\ \A i \in 1..Len(read) : read'[i] = read[i]
        BY <1>0, <1>2, AppendProperties DEF r
    <2>3. r \in Reports
        <3>1. Len(read) + 1 \in 1..Len(read')
            BY <1>0, <2>2
        <3> QED BY <1>0, <2>2, <3>1, ElementOfSeq
    <2>4. /\ buffer' \in Seq(Reports)
          /\ Len(buffer') = (IF Len(buffer) = BufferCap THEN BufferCap ELSE Len(buffer) + 1)
          /\ buffer'[Len(buffer')] = r
          /\ \A i \in 1..Len(buffer') - 1 :
                buffer'[i] = buffer[Len(buffer) - (Len(buffer') - 1) + i]
        <3>1. CASE Len(buffer) = BufferCap
            <4> DEFINE t == Tail(buffer)
            <4>1. /\ t \in Seq(Reports) /\ Len(t) = BufferCap - 1
                  /\ \A i \in 1..BufferCap - 1 : t[i] = buffer[i + 1]
                BY <1>0, <3>1
            <4>2. buffer' = Append(t, r)
                BY <1>2, <3>1 DEF Push, r
            <4> HIDE DEF t
            <4>3. /\ buffer' \in Seq(Reports) /\ Len(buffer') = BufferCap
                  /\ buffer'[BufferCap] = r
                  /\ \A i \in 1..BufferCap - 1 : buffer'[i] = t[i]
                BY <1>0, <2>3, <4>1, <4>2, AppendProperties
            <4>4. ASSUME NEW i \in 1..BufferCap - 1
                  PROVE  buffer'[i] = buffer[BufferCap - (BufferCap - 1) + i]
                <5>1. BufferCap - (BufferCap - 1) + i = i + 1
                    BY <1>0
                <5> QED BY <4>1, <4>3, <5>1
            <4> QED BY <1>0, <3>1, <4>3, <4>4
        <3>2. CASE Len(buffer) # BufferCap
            <4>1. buffer' = Append(buffer, r)
                BY <1>2, <3>2 DEF Push, r
            <4>2. /\ buffer' \in Seq(Reports) /\ Len(buffer') = Len(buffer) + 1
                  /\ buffer'[Len(buffer) + 1] = r
                  /\ \A i \in 1..Len(buffer) : buffer'[i] = buffer[i]
                BY <1>0, <2>3, <4>1, AppendProperties
            <4>3. \A i \in 1..Len(buffer') - 1 :
                      i \in 1..Len(buffer) /\ Len(buffer) - (Len(buffer') - 1) + i = i
                BY <1>0, <4>2
            <4>4. \A i \in 1..Len(buffer') - 1 :
                      buffer'[i] = buffer[Len(buffer) - (Len(buffer') - 1) + i]
                BY <4>2, <4>3
            <4> QED BY <3>2, <4>2, <4>4
        <3> QED BY <3>1, <3>2
    <2>5. BufferIsTheEnd'
        <3>1. /\ Len(buffer) <= Len(read) - taken /\ Len(buffer) <= BufferCap
              /\ Len(buffer) = Len(read) - taken \/ Len(buffer) = BufferCap
              /\ \A i \in 1..Len(buffer) : buffer[i] = read[Len(read) - Len(buffer) + i]
            BY DEF WInv, BufferIsTheEnd
        <3>2. /\ Len(buffer') <= Len(read') - taken /\ Len(buffer') <= BufferCap
              /\ Len(buffer') = Len(read') - taken \/ Len(buffer') = BufferCap
            BY <1>0, <2>2, <2>4, <3>1
        <3>3. ASSUME NEW i \in 1..Len(buffer')
              PROVE  buffer'[i] = read'[Len(read') - Len(buffer') + i]
            <4>1. CASE i = Len(buffer')
                BY <1>0, <2>2, <2>4, <4>1
            <4>2. CASE i # Len(buffer')
                <5> DEFINE p == Len(buffer) - (Len(buffer') - 1) + i
                           q == Len(read) - Len(buffer) + p
                <5>1. i \in 1..Len(buffer') - 1 /\ p \in 1..Len(buffer)
                    BY <1>0, <2>4, <4>2
                <5>2. q \in 1..Len(read) /\ q = Len(read') - Len(buffer') + i
                    BY <1>0, <2>2, <2>4, <3>1, <5>1
                <5>3. buffer'[i] = buffer[p]
                    BY <2>4, <5>1
                <5> HIDE DEF p
                <5>4. buffer[p] = read[q]
                    BY <3>1, <5>1
                <5> HIDE DEF q
                <5>5. read'[q] = read[q]
                    BY <2>2, <5>2
                <5> QED BY <5>2, <5>3, <5>4, <5>5
            <4> QED BY <4>1, <4>2
        <3> QED BY <1>0, <3>2, <3>3 DEF BufferIsTheEnd
    <2>6. ReadIsSorted'
        <3>1. \A i \in 1..Len(read') : i \in 1..Len(read) \/ i = Len(read) + 1
            BY <1>0, <2>2
        <3>2. \A i \in 1..Len(read) : read'[i].ts <= now
            BY <2>2 DEF WInv, ReadIsSorted
        <3>3. read'[Len(read) + 1].ts = now
            BY <2>1, <2>2
        <3>4. ASSUME NEW i \in 1..Len(read'), NEW j \in 1..Len(read'), i < j
              PROVE  read'[i].ts <= read'[j].ts
            <4>1. i \in 1..Len(read)
                BY <1>0, <2>2, <3>4
            <4>2. CASE j \in 1..Len(read)
                BY <2>2, <3>4, <4>1, <4>2 DEF WInv, ReadIsSorted, SortedByTime
            <4>3. CASE j = Len(read) + 1
                BY <3>2, <3>3, <4>1, <4>3
            <4> QED BY <3>1, <4>2, <4>3
        <3>5. \A i \in 1..Len(read') : read'[i].ts <= now
            BY <1>0, <3>1, <3>2, <3>3
        <3> QED BY <1>0, <3>4, <3>5 DEF ReadIsSorted, SortedByTime
    <2>7. LoopType'
        BY <1>0, <2>2, <2>4 DEF WInv, LoopType
    <2>8. WindowWasRead'
        <3>1. \A i \in 1..taken : i \in 1..Len(read)
            BY <1>0
        <3> QED BY <1>0, <2>2, <3>1 DEF WInv, WindowWasRead, SortedByTime
    <2>9. WindowIsTheEnd'
        <3>1. PICK c \in 0..Len(window) : CommonEnd(c)
            BY DEF WInv, WindowIsTheEnd
        <3>2. \A j \in 0..c - 1 : taken - j \in 1..Len(read)
            BY <1>0, <3>1 DEF CommonEnd
        <3>3. c < taken => taken - c \in 1..Len(read)
            BY <1>0, <3>1 DEF CommonEnd
        <3>4. CommonEnd(c)'
            BY <1>0, <2>2, <3>1, <3>2, <3>3 DEF CommonEnd
        <3> QED BY <1>0, <3>4 DEF WindowIsTheEnd
    <2> QED BY <2>5, <2>6, <2>7, <2>8, <2>9 DEF WInv
<1> QED BY <1>1, <1>2 DEF ReadBlock

\* A drain puts the end of what was pushed behind the window.  If the buffer has
\* dropped none since the last drain the common end grows by it; otherwise it is a
\* full buffer, more than the window keeps.
LEMMA DrainWInv == IInv /\ WInv /\ Drain => WInv'
<1> SUFFICES ASSUME IInv, WInv, Drain PROVE WInv'
    OBVIOUS
<1> DEFINE lw == Len(window)
           lb == Len(buffer)
           lr == Len(read)
<1>0. /\ read \in Seq(Reports) /\ buffer \in Seq(Reports) /\ window \in Seq(Reports)
      /\ lr \in Nat /\ lb \in Nat /\ lw \in Nat /\ taken \in 0..lr
      /\ BufferCap \in Nat \ {0} /\ WindowCap \in Nat /\ WindowCap <= BufferCap
      /\ UNCHANGED <<now, child, reader, screen, read>>
      /\ window' = window \o buffer /\ buffer' = <<>> /\ taken' = lr
      /\ ui' = "drained" /\ now \in Int
    BY BoundsAssumption DEF IInv, FollowerType, WInv, LoopType, Drain, kernel, follower
<1>n. /\ lr \in Nat /\ lb \in Nat /\ lw \in Nat /\ taken \in 0..lr /\ taken' = lr
      /\ BufferCap \in Nat \ {0} /\ WindowCap \in Nat /\ WindowCap <= BufferCap
    BY <1>0
<1>1. /\ window' \in Seq(Reports) /\ Len(window') = lw + lb
      /\ \A i \in 1..lw : window'[i] = window[i]
      /\ \A i \in 1..lb : window'[lw + i] = buffer[i]
    <2>1. \A i \in 1..lw + lb : window'[i] = IF i <= lw THEN window[i] ELSE buffer[i - lw]
        BY <1>0, ConcatProperties
    <2>2. window' \in Seq(Reports) /\ Len(window') = lw + lb
        BY <1>0, ConcatProperties
    <2> HIDE DEF lw, lb
    <2>3. \A i \in 1..lw : window'[i] = window[i]
        BY <1>n, <2>1
    <2>4. \A i \in 1..lb : lw + i \in 1..lw + lb /\ ~(lw + i <= lw) /\ lw + i - lw = i
        BY <1>n
    <2>5. \A i \in 1..lb : window'[lw + i] = buffer[i]
        <3> SUFFICES ASSUME NEW i \in 1..lb PROVE window'[lw + i] = buffer[i]
            OBVIOUS
        <3> DEFINE p == lw + i
        <3>1. p \in 1..lw + lb /\ ~(p <= lw) /\ p - lw = i
            BY <1>n
        <3> HIDE DEF p
        <3>2. window'[p] = buffer[i]
            BY <2>1, <3>1
        <3> QED BY <3>2 DEF p
    <2> QED BY <2>2, <2>3, <2>5
<1>2. /\ lb <= lr - taken /\ lb <= BufferCap /\ (lb = lr - taken \/ lb = BufferCap)
      /\ \A i \in 1..lb : buffer[i] = read[lr - lb + i]
    BY DEF WInv, BufferIsTheEnd
<1>3. PICK c \in 0..lw : CommonEnd(c)
    BY DEF WInv, WindowIsTheEnd
<1>4. /\ c <= taken /\ (c < lw => c >= WindowCap)
      /\ \A j \in 0..c - 1 : window[lw - j] = read[taken - j]
      /\ c < taken => (c >= WindowCap \/ read[taken - c].ts < now - Window)
    BY <1>3 DEF CommonEnd, lw
<1>5. /\ \A i, j \in 1..lr : i < j => read[i].ts <= read[j].ts
      /\ \A i, j \in 1..lw : i < j => window[i].ts <= window[j].ts
      /\ \A p \in 1..lw : \E i \in 1..taken : window[p] = read[i]
    BY DEF WInv, ReadIsSorted, WindowWasRead, SortedByTime
<1>6. \A j \in 0..lb - 1 : window'[lw + lb - j] = read[lr - j]
    <2> SUFFICES ASSUME NEW j \in 0..lb - 1 PROVE window'[lw + lb - j] = read[lr - j]
        OBVIOUS
    <2> DEFINE i == lb - j
    <2> HIDE DEF lw, lb, lr
    <2>1. i \in 1..lb /\ lw + lb - j = lw + i /\ lr - lb + i = lr - j
        BY <1>0
    <2> HIDE DEF i
    <2>2. window'[lw + i] = buffer[i]
        BY <1>1, <2>1
    <2>3. buffer[i] = read[lr - lb + i]
        BY <1>2, <2>1
    <2> QED BY <2>1, <2>2, <2>3
<1>7. WindowIsTheEnd'
    <2> HIDE DEF lw, lb, lr
    <2>1. CASE lb = lr - taken
        <3>0. PICK d \in Nat : d = c + lb
            BY <1>n
        <3>1. d \in 0..Len(window') /\ d <= taken' /\ (d < Len(window') => d >= WindowCap)
            BY <1>n, <1>1, <1>4, <2>1, <3>0
        <3>2. ASSUME NEW j \in 0..d - 1 PROVE window'[Len(window') - j] = read'[taken' - j]
            <4>1. CASE j < lb
                <5>1. window'[lw + lb - j] = read[lr - j]
                    BY <1>n, <1>6, <4>1
                <5>2. Len(window') - j = lw + lb - j /\ taken' - j = lr - j /\ read' = read
                    BY <1>0, <1>1
                <5> QED BY <5>1, <5>2
            <4>2. CASE j >= lb
                <5> DEFINE i == j - lb
                <5>1. /\ i \in 0..c - 1 /\ lw - i \in 1..lw
                      /\ Len(window') - j = lw - i /\ taken' - j = taken - i
                    BY <1>n, <1>1, <2>1, <3>0, <4>2
                <5> HIDE DEF i
                <5>2. window'[lw - i] = window[lw - i]
                    BY <1>1, <5>1
                <5>3. window[lw - i] = read[taken - i]
                    BY <1>4, <5>1
                <5> QED BY <1>0, <5>1, <5>2, <5>3
            <4> QED BY <1>n, <4>1, <4>2
        <3>3. d < taken' => (d >= WindowCap \/ read'[taken' - d].ts < now' - Window)
            <4>1. taken' - d = taken - c /\ (d < taken' => c < taken) /\ (c >= WindowCap => d >= WindowCap)
                BY <1>n, <2>1, <3>0
            <4> QED BY <1>0, <1>4, <4>1
        <3>4. CommonEnd(d)'
            BY <3>1, <3>2, <3>3 DEF CommonEnd
        <3> QED BY <3>1, <3>4 DEF WindowIsTheEnd
    <2>2. CASE lb = BufferCap
        <3>0. PICK d \in Nat : d = lb
            BY <1>n
        <3>1. d \in 0..Len(window') /\ d <= taken' /\ d >= WindowCap
            BY <1>n, <1>1, <1>2, <2>2, <3>0
        <3>2. \A j \in 0..d - 1 : window'[Len(window') - j] = read'[taken' - j]
            BY <1>0, <1>1, <1>6, <3>0
        <3>3. CommonEnd(d)'
            BY <3>1, <3>2 DEF CommonEnd
        <3> QED BY <3>1, <3>3 DEF WindowIsTheEnd
    <2> QED BY <1>2, <2>1, <2>2
<1>8. ASSUME NEW p \in 1..lw + lb PROVE \E i \in 1..lr : window'[p] = read[i] /\ (p > lw => i > taken) /\ (p <= lw => i <= taken) /\ (p > lw => i = lr - lb + (p - lw))
    <2> HIDE DEF lw, lb, lr
    <2>1. CASE p <= lw
        <3>1. PICK i \in 1..taken : window[p] = read[i]
            BY <1>n, <1>5, <2>1
        <3> QED BY <1>n, <1>1, <2>1, <3>1
    <2>2. CASE p > lw
        <3> DEFINE i == lr - lb + (p - lw)
        <3>1. p - lw \in 1..lb /\ i \in 1..lr /\ i > taken /\ lw + (p - lw) = p
            BY <1>n, <1>2, <2>2
        <3>2. window'[p] = read[i]
            BY <1>1, <1>2, <3>1
        <3> HIDE DEF i
        <3>3. i = lr - lb + (p - lw)
            BY DEF i
        <3> QED BY <1>n, <2>2, <3>1, <3>2, <3>3
    <2> QED BY <1>n, <2>1, <2>2
<1>9. WindowWasRead'
    <2> HIDE DEF lw, lb, lr
    <2>1. ASSUME NEW p \in 1..Len(window') PROVE \E i \in 1..taken' : window'[p] = read'[i]
        BY <1>0, <1>1, <1>8
    <2>2. ASSUME NEW p \in 1..Len(window'), NEW q \in 1..Len(window'), p < q
          PROVE  window'[p].ts <= window'[q].ts
        <3>1. CASE q <= lw
            <4>1. p \in 1..lw /\ q \in 1..lw
                BY <1>0, <2>2, <3>1
            <4> QED BY <1>1, <1>5, <2>2, <4>1
        <3>2. CASE q > lw
            <4>1. PICK i \in 1..lr :
                    window'[p] = read[i] /\ (p > lw => i = lr - lb + (p - lw)) /\ (p <= lw => i <= taken)
                BY <1>1, <1>8, <2>2
            <4>2. PICK j \in 1..lr :
                    window'[q] = read[j] /\ j > taken /\ j = lr - lb + (q - lw)
                BY <1>1, <1>8, <2>2, <3>2
            <4>3. i < j
                BY <1>0, <1>1, <2>2, <4>1, <4>2
            <4> QED BY <1>5, <4>1, <4>2, <4>3
        <3> QED BY <1>0, <1>1, <3>1, <3>2
    <2> QED BY <2>1, <2>2 DEF WindowWasRead, SortedByTime
<1>10. LoopType' /\ ReadIsSorted' /\ BufferIsTheEnd'
    <2>1. Len(buffer') = 0 /\ buffer' \in Seq(Reports)
        BY <1>0
    <2> HIDE DEF lw, lb
    <2> QED BY <1>0, <1>1, <2>1 DEF WInv, LoopType, ReadIsSorted, SortedByTime, BufferIsTheEnd
<1> QED BY <1>7, <1>9, <1>10 DEF WInv

\* A refresh makes the window an end of what was pushed before the last drain.
LEMMA RefreshWInv == IInv /\ WInv /\ Refresh => WInv'
<1> SUFFICES ASSUME IInv, WInv, Refresh PROVE WInv'
    OBVIOUS
<1>1. PICK n \in 0..taken :
         /\ window' = SubSeq(read, n + 1, taken)
         /\ taken - n <= WindowCap
         /\ \A i \in n + 1..taken : read[i].ts >= now - Window
         /\ n > 0 => (taken - n = WindowCap \/ read[n].ts < now - Window)
    BY RefreshShows
<1>2. /\ read \in Seq(Reports) /\ Len(read) \in Nat /\ taken \in 0..Len(read)
      /\ WindowCap \in Nat
      /\ UNCHANGED <<now, child, reader, buffer, read, taken>>
      /\ screen' = window' /\ ui' = "idle"
    BY BoundsAssumption DEF IInv, FollowerType, WInv, LoopType, Refresh, kernel, follower
<1>3. PICK c \in Nat : c = taken - n
    BY <1>2
<1>4. /\ window' \in Seq(Reports) /\ Len(window') = c
      /\ \A i \in 1..c : window'[i] = read[n + i] /\ n + i \in 1..taken
    <2> DEFINE w == SubSeq(read, n + 1, taken)
    <2>1. n + 1 \in Int /\ taken \in Int /\ \A i \in n + 1..taken : read[i] \in Reports
        BY <1>2, ElementOfSeq
    <2>2. /\ w \in Seq(Reports)
          /\ Len(w) = IF n + 1 <= taken THEN taken - (n + 1) + 1 ELSE 0
          /\ \A i \in 1..taken - (n + 1) + 1 : w[i] = read[n + 1 + i - 1]
        BY <2>1, SubSeqProperties
    <2> HIDE DEF w
    <2>3. Len(w) = c
        BY <1>2, <1>3, <2>2
    <2>4. \A i \in 1..c : i \in 1..taken - (n + 1) + 1 /\ n + 1 + i - 1 = n + i /\ n + i \in 1..taken
        BY <1>2, <1>3
    <2>5. window' = w
        BY <1>1 DEF w
    <2> QED BY <2>2, <2>3, <2>4, <2>5
<1>5. LoopType'
    BY <1>1, <1>2, <1>3, <1>4 DEF WInv, LoopType
<1>6. ReadIsSorted' /\ BufferIsTheEnd'
    BY <1>2 DEF WInv, ReadIsSorted, SortedByTime, BufferIsTheEnd
<1>7. WindowWasRead'
    <2>1. \A i, j \in 1..c : i < j => n + i \in 1..Len(read) /\ n + j \in 1..Len(read) /\ n + i < n + j
        BY <1>2, <1>3
    <2>2. \A i, j \in 1..c : i < j => read[n + i].ts <= read[n + j].ts
        BY <2>1 DEF WInv, ReadIsSorted, SortedByTime
    <2>3. SortedByTime(window)'
        BY <1>4, <2>2 DEF SortedByTime
    <2> QED BY <1>2, <1>4, <2>3 DEF WindowWasRead
<1>8. CommonEnd(c)'
    <2>1. c <= taken' /\ ~(c < Len(window'))
        BY <1>2, <1>3, <1>4
    <2>2. ASSUME NEW j \in 0..c - 1 PROVE window'[Len(window') - j] = read'[taken' - j]
        <3>1. c - j \in 1..c /\ n + (c - j) = taken - j
            BY <1>2, <1>3
        <3>2. window'[c - j] = read[n + (c - j)]
            BY <1>4, <3>1
        <3> QED BY <1>2, <1>4, <3>1, <3>2
    <2>3. ASSUME c < taken' PROVE c >= WindowCap \/ read'[taken' - c].ts < now' - Window
        <3>1. taken - c = n /\ n > 0
            BY <1>2, <1>3, <2>3
        <3> QED BY <1>1, <1>2, <1>3, <3>1
    <2> QED BY <2>1, <2>2, <2>3 DEF CommonEnd
<1>9. c \in 0..Len(window')
    BY <1>4
<1> QED BY <1>5, <1>6, <1>7, <1>8, <1>9 DEF WInv, WindowIsTheEnd

\* The two invariants together are inductive.
LEMMA BothInductive == IInv /\ WInv /\ [Next]_vars => (IInv /\ WInv)'
<1> SUFFICES ASSUME IInv, WInv, [Next]_vars PROVE (IInv /\ WInv)'
    OBVIOUS
<1>1. IInv'
    BY IInvInductive
<1>2. CASE Pass
    <2>1. /\ now' = now + 1 /\ now \in Int /\ Len(read) \in Nat /\ taken \in 0..Len(read)
          /\ UNCHANGED <<child, reader, buffer, window, ui, screen, read, taken>>
        BY <1>2, BoundsAssumption DEF Pass, follower, IInv, FollowerType, WInv, LoopType
    <2>2. \A i \in 1..Len(read) : read[i].ts \in Int /\ read[i].ts <= now
        <3>1. \A i \in 1..Len(read) : read[i] \in Reports
            BY ElementOfSeq DEF IInv, FollowerType
        <3> QED BY <3>1, BoundsAssumption DEF Reports, WInv, ReadIsSorted
    <2>3. ReadIsSorted'
        BY <2>1, <2>2 DEF WInv, ReadIsSorted, SortedByTime
    <2>4. PICK c \in 0..Len(window) : CommonEnd(c)
        BY DEF WInv, WindowIsTheEnd
    <2>5. CommonEnd(c)'
        <3>1. ASSUME c < taken, read[taken - c].ts < now - Window
              PROVE  read[taken - c].ts < now' - Window
            <4>1. taken - c \in 1..Len(read)
                BY <2>1, <3>1
            <4> QED BY <2>1, <2>2, <3>1, <4>1, BoundsAssumption
        <3> QED BY <2>1, <2>4, <3>1 DEF CommonEnd
    <2> QED BY <1>1, <2>1, <2>3, <2>4, <2>5
            DEF WInv, LoopType, BufferIsTheEnd, WindowWasRead, SortedByTime, WindowIsTheEnd
<1>3. CASE Post \/ ChildWrites \/ ChildDies \/ ReaderEnds \/ Quit \/ Stopped \/ UNCHANGED vars
    <2>1. /\ UNCHANGED <<now, buffer, window, screen, read, taken>>
          /\ child' \in {"running", "dead", "reaped"} /\ reader' \in {"reading", "stopped"}
          /\ ui' \in {"idle", "drained", "ended"}
        <3>1. CASE Post \/ Stopped \/ UNCHANGED vars
            BY <3>1 DEF Post, Stopped, vars, kernel, follower, WInv, LoopType
        <3>2. CASE ChildWrites \/ ChildDies \/ ReaderEnds \/ Quit
            BY <3>2 DEF ChildWrites, ChildDies, ReaderEnds, Quit, kernel, WInv, LoopType
        <3> QED BY <1>3, <3>1, <3>2
    <2>2. WInv'
        BY <2>1 DEF WInv, LoopType, ReadIsSorted, SortedByTime, BufferIsTheEnd, WindowWasRead,
                    WindowIsTheEnd, CommonEnd
    <2> QED BY <1>1, <2>2
<1>4. CASE ReadBlock
    BY <1>1, <1>4, PushWInv
<1>5. CASE Drain
    BY <1>1, <1>5, DrainWInv
<1>6. CASE Refresh
    BY <1>1, <1>6, RefreshWInv
<1> QED BY <1>2, <1>3, <1>4, <1>5, <1>6 DEF Next, Follow, Tick

\* Every variable has its type, neither queue outgrows its cap, and the map shows
\* no more ereports than the window holds.
THEOREM TypeCorrect == Spec => []TypeOK
<1>1. Init => IInv /\ WInv
    BY InitIInv, InitWInv
<1>2. IInv /\ WInv => TypeOK
    BY DEF IInv, FollowerType, WInv, LoopType, BufferIsTheEnd, TypeOK
<1> QED BY <1>1, <1>2, BothInductive, PTL DEF Spec

\* The ring buffer and the trimmed window implement the error window: whatever the
\* order of pushes, drains and refreshes, a frame shows exactly the newest of the
\* recent ereports, as many as fit.
THEOREM ShowsExactlyTheNewest == Spec => ShowsTheNewest
<1>1. Init => EW!Init
    BY BoundsAssumption DEF Init, EW!Init
<1>2. IInv /\ WInv /\ IInv' /\ [Next]_vars => [EW!Next]_(EW!vars)
    <2> SUFFICES ASSUME IInv, WInv, IInv', [Next]_vars PROVE [EW!Next]_(EW!vars)
        OBVIOUS
    <2>1. CASE Pass
        <3>1. now' > now /\ UNCHANGED <<read, taken, screen>>
            BY <2>1, BoundsAssumption DEF Pass, IInv, FollowerType
        <3> QED BY <3>1 DEF EW!Next, EW!Pass
    <2>2. CASE Post \/ ChildWrites \/ ChildDies \/ ReaderEnds \/ Quit \/ Stopped \/ UNCHANGED vars
        <3>1. UNCHANGED <<read, taken, screen, now>>
            BY <2>2 DEF Post, ChildWrites, ChildDies, ReaderEnds, Quit, Stopped, vars, kernel, follower
        <3> QED BY <3>1 DEF EW!vars
    <2>3. CASE ReadBlock
        <3>1. UNCHANGED <<taken, screen, now>>
            BY <2>3 DEF ReadBlock, kernel
        <3>2. CASE read' = read
            BY <3>1, <3>2 DEF EW!vars
        <3>3. CASE read' = Append(read, Report(Head(pipe)))
            <4> DEFINE r == Report(Head(pipe))
            <4>1. r.ts = now
                BY DEF Report
            <4> HIDE DEF r
            <4>2. r \in Reports
                <5>1. Len(read) + 1 \in 1..Len(read') /\ read'[Len(read) + 1] = r /\ read' \in Seq(Reports)
                    BY <3>3, AppendProperties DEF r, IInv, FollowerType
                <5> QED BY <5>1, ElementOfSeq
            <4> QED BY <3>1, <3>3, <4>1, <4>2 DEF EW!Next, EW!Arrive, r
        <3> QED BY <2>3, <3>2, <3>3 DEF ReadBlock
    <2>4. CASE Drain
        BY <2>4 DEF Drain, kernel, EW!Next, EW!Take
    <2>5. CASE Refresh
        <3>1. screen' = window' /\ UNCHANGED <<read, taken, now>>
            BY <2>5 DEF Refresh, kernel
        <3>2. EW!Show
            BY <2>5, <3>1, RefreshShows DEF EW!Show
        <3> QED BY <3>2 DEF EW!Next
    <2> QED BY <2>1, <2>2, <2>3, <2>4, <2>5 DEF Next, Follow, Tick
<1>3. Init => IInv /\ WInv
    BY InitIInv, InitWInv
<1> QED BY <1>1, <1>2, <1>3, BothInductive, PTL DEF Spec, ShowsTheNewest, EW!Spec

--------------------------------------------------------------------------------
(* The error surface map: numbers.                                          *)

\* The greatest of a set, and the greater of two.
LEMMA MaxOfSet ==
    ASSUME NEW m \in Nat, NEW S \in SUBSET (0 .. m), S # {}
    PROVE  Max(S) \in S /\ \A n \in S : n <= Max(S)
<1>1. PICK k \in S : \A n \in S : n <= k
    BY GreatestNumber
<1>2. \A n \in S : n \in Nat
    OBVIOUS
<1>3. \A n \in S : k >= n
    BY <1>1, <1>2
<1>4. Max(S) \in S /\ \A n \in S : Max(S) >= n
    BY <1>1, <1>3, Zenon DEF Max
<1>5. \A n \in S : n <= Max(S)
    BY <1>2, <1>4
<1> QED BY <1>4, <1>5

LEMMA OfTwo ==
    ASSUME NEW a \in Int, NEW b \in Int
    PROVE  /\ Max({a, b}) = IF a >= b THEN a ELSE b
           /\ Min({a, b}) = IF a <= b THEN a ELSE b
BY DEF Max, Min

\* What a division rounds down to.
LEMMA Quotient ==
    ASSUME NEW a \in Nat, NEW b \in Nat \ {0}
    PROVE  /\ a \div b \in Nat /\ b * (a \div b) <= a /\ a < b * (a \div b) + b
OBVIOUS

LEMMA ProductGrows ==
    ASSUME NEW a \in Nat, NEW b \in Nat, NEW c \in Nat, a <= b
    PROVE  a * c <= b * c /\ c * a <= c * b
<1>1. PICK d \in Nat : b = a + d
    <2>1. b - a \in Nat /\ b = a + (b - a)
        OBVIOUS
    <2> QED BY <2>1
<1>2. b * c = a * c + d * c /\ c * b = c * a + c * d
    BY <1>1
<1>3. d * c \in Nat /\ c * d \in Nat
    OBVIOUS
<1> QED BY <1>2, <1>3

LEMMA QuotientGrows ==
    ASSUME NEW a \in Nat, NEW c \in Nat, NEW b \in Nat \ {0}, a <= c
    PROVE  a \div b <= c \div b
<1>1. PICK p, q \in Nat : p = a \div b /\ q = c \div b
    BY Quotient
<1>2. b * p <= a /\ c < b * q + b
    BY <1>1, Quotient
<1>3. ASSUME q + 1 <= p PROVE FALSE
    <2>1. b * (q + 1) <= b * p
        BY <1>3, ProductGrows
    <2>2. b * (q + 1) = b * q + b
        OBVIOUS
    <2> QED BY <1>2, <2>1, <2>2
<1> QED BY <1>1, <1>3

--------------------------------------------------------------------------------
(* The rows of the map.                                                     *)

\* The ereports of a device are some of those on the screen.
LEMMA EventsOf ==
    ASSUME TypeOK, NEW device
    PROVE  /\ Events(device) \subseteq 1 .. Len(screen) /\ IsFiniteSet(Events(device))
           /\ Total(device) \in Nat /\ Total(device) <= WindowCap
<1>1. DOMAIN screen = 1 .. Len(screen) /\ Len(screen) \in Nat /\ Len(screen) <= WindowCap
    BY DEF TypeOK
<1>2. Events(device) \subseteq 1 .. Len(screen)
    BY <1>1 DEF Events
<1>3. IsFiniteSet(1 .. Len(screen)) /\ Cardinality(1 .. Len(screen)) = Len(screen)
    <2>1. 1 \in Int /\ Len(screen) \in Int /\ Len(screen) - 1 + 1 = Len(screen)
          /\ (1 > Len(screen) => Len(screen) = 0)
        BY <1>1
    <2> QED BY <2>1, FS_Interval
<1>4. IsFiniteSet(Events(device)) /\ Total(device) <= Len(screen)
    BY <1>2, <1>3, FS_Subset DEF Total
<1>5. Total(device) \in Nat
    BY <1>4, FS_CardinalityType DEF Total
<1>6. WindowCap \in Nat
    BY BoundsAssumption
<1> QED BY <1>1, <1>2, <1>4, <1>5, <1>6

\* The rows are the devices, each the one that has as many before it as its
\* place says.
IsOrder(at) ==
    /\ at \in [DOMAIN Devices -> DOMAIN Devices]
    /\ \A i \in DOMAIN Devices : \E n \in DOMAIN Devices : at[n] = i
    /\ \A n, m \in DOMAIN Devices : n < m => Before(at[n], at[m])

RowOf(i, cols) ==
    [name |-> Devices[i], buckets |-> Buckets(Devices[i], cols), total |-> Total(Devices[i])]

LEMMA OrderOfRows ==
    ASSUME TypeOK
    PROVE  \E at : /\ IsOrder(at)
                   /\ \A cols : HeatList(cols) = [n \in DOMAIN Devices |-> RowOf(at[n], cols)]
<1> DEFINE D == DOMAIN Devices
           ahead(i) == {j \in D : Before(j, i)}
           rank == [i \in D |-> Cardinality(ahead(i))]
           at == [n \in D |-> CHOOSE i \in D : rank[i] = n - 1]
<1>1. PICK k \in Nat : D = 1 .. k
    BY MapAssumption
<1>2. \A i \in D : Total(Devices[i]) \in Nat
    BY EventsOf
<1>3. /\ \A i \in D : ~Before(i, i)
      /\ \A i, j \in D : i = j \/ Before(i, j) \/ Before(j, i)
      /\ \A i, j, l \in D : Before(i, j) /\ Before(j, l) => Before(i, l)
    BY <1>1, <1>2 DEF Before
<1>4. IsFiniteSet(D) /\ Cardinality(D) = k
    <2>1. 1 \in Int /\ k \in Int /\ k - 1 + 1 = k /\ (1 > k => k = 0)
        OBVIOUS
    <2> HIDE DEF D
    <2> QED BY <1>1, <2>1, FS_Interval
<1>5. ASSUME NEW i \in D
      PROVE  IsFiniteSet(ahead(i)) /\ rank[i] = Cardinality(ahead(i)) /\ rank[i] \in 0 .. k - 1
    <2>1. ahead(i) \in SUBSET D /\ i \notin ahead(i) /\ rank[i] = Cardinality(ahead(i))
        BY <1>3
    <2> HIDE DEF rank, ahead, D
    <2>2. IsFiniteSet(ahead(i)) /\ rank[i] <= k /\ rank[i] # k
        BY <1>4, <2>1, FS_Subset
    <2>3. rank[i] \in Nat
        BY <2>1, <2>2, FS_CardinalityType
    <2> QED BY <2>1, <2>2, <2>3
<1>6. ASSUME NEW i \in D, NEW j \in D, Before(i, j) PROVE rank[i] < rank[j]
    <2>1. ahead(i) \in SUBSET ahead(j) /\ ahead(i) # ahead(j)
        BY <1>3, <1>6
    <2>2. IsFiniteSet(ahead(j)) /\ rank[i] = Cardinality(ahead(i))
          /\ rank[j] = Cardinality(ahead(j)) /\ rank[i] \in Nat /\ rank[j] \in Nat
        BY <1>5
    <2> HIDE DEF rank, ahead
    <2>3. Cardinality(ahead(i)) <= Cardinality(ahead(j))
          /\ Cardinality(ahead(i)) # Cardinality(ahead(j))
        BY <2>1, <2>2, FS_Subset
    <2> QED BY <2>2, <2>3
<1> HIDE DEF rank
<1>14. ASSUME NEW i \in D PROVE rank[i] \in Nat /\ rank[i] + 1 \in D /\ (rank[i] + 1) - 1 = rank[i]
    <2>1. rank[i] \in 0 .. k - 1
        BY <1>5
    <2> HIDE DEF D
    <2> QED BY <1>1, <2>1
<1>7. \A n \in D : \E i \in D : rank[i] = n - 1
    <2> DEFINE T == 0 .. k - 1
    <2>1. rank \in [D -> T]
        <3>1. rank = [i \in D |-> rank[i]]
            BY DEF rank
        <3> QED BY <1>5, <3>1
    <2>2. \A i, j \in D : rank[i] = rank[j] => i = j
        <3>1. \A i \in D : rank[i] \in Nat
            BY <1>14
        <3> QED BY <1>3, <1>6, <3>1
    <2>3. IsFiniteSet(T) /\ Cardinality(T) = k
        <3>1. 0 \in Int /\ k - 1 \in Int /\ (k - 1) - 0 + 1 = k /\ (0 > k - 1 => k = 0)
            OBVIOUS
        <3> QED BY <3>1, FS_Interval
    <2> HIDE DEF T, D
    <2>4. rank \in Injection(D, T)
        BY <2>1, <2>2 DEF Injection, IsInjective
    <2>5. rank \in Surjection(D, T)
        BY <1>4, <2>3, <2>4, FS_Injection
    <2>6. \A t \in T : \E i \in D : rank[i] = t
        BY <2>5 DEF Surjection
    <2>7. \A n \in D : n - 1 \in T
        BY <1>1 DEF T
    <2> QED BY <2>6, <2>7
<1>8. ASSUME NEW n \in D PROVE at[n] \in D /\ rank[at[n]] = n - 1
    <2> HIDE DEF D
    <2> QED BY <1>7
<1>13. at = [n \in D |-> at[n]]
    OBVIOUS
<1> HIDE DEF at
<1>9. ASSUME NEW i \in D PROVE \E n \in D : at[n] = i
    <2>1. PICK n \in D : n = rank[i] + 1 /\ rank[i] = n - 1
        BY <1>14
    <2>2. at[n] \in D /\ rank[at[n]] = rank[i] /\ rank[i] \in Nat
        BY <1>8, <1>14, <2>1
    <2>3. at[n] = i
        BY <1>3, <1>6, <2>2
    <2> QED BY <2>3
<1>10. ASSUME NEW n \in D, NEW m \in D, n < m PROVE Before(at[n], at[m])
    <2>1. /\ at[n] \in D /\ rank[at[n]] = n - 1 /\ n \in Nat
          /\ at[m] \in D /\ rank[at[m]] = m - 1 /\ m \in Nat
        BY <1>1, <1>8
    <2> QED BY <1>3, <1>6, <1>10, <2>1
<1>11. ASSUME NEW cols PROVE HeatList(cols) = [n \in D |-> RowOf(at[n], cols)]
    <2>1. \A n \in D : (CHOOSE i \in D : Cardinality({j \in D : Before(j, i)}) = n - 1) = at[n]
        <3>1. \A i \in D : rank[i] = Cardinality({j \in D : Before(j, i)})
            BY DEF rank
        <3>2. ASSUME NEW n \in D
              PROVE  (CHOOSE i \in D : rank[i] = n - 1)
                        = CHOOSE i \in D : Cardinality({j \in D : Before(j, i)}) = n - 1
            <4>1. \A i \in D : rank[i] = n - 1 <=> Cardinality({j \in D : Before(j, i)}) = n - 1
                BY <3>1
            <4> QED BY <4>1, Zenon
        <3> QED BY <3>2 DEF at
    <2> QED BY <2>1, Zenon DEF HeatList, RowOf
<1>12. IsOrder(at)
    <2>1. at \in [D -> D]
        BY <1>8, <1>13
    <2> QED BY <1>9, <1>10, <2>1 DEF IsOrder
<1> QED BY <1>11, <1>12

\* So every device has one row, and they are ranked.
LEMMA RowsAreRanked ==
    ASSUME TypeOK, NEW cols
    PROVE  IsRanked(HeatList(cols))
<1> DEFINE D == DOMAIN Devices
           heat == HeatList(cols)
           place(name) == CHOOSE n \in DOMAIN heat : heat[n].name = name
<1>1. PICK at : IsOrder(at) /\ heat = [n \in D |-> RowOf(at[n], cols)]
    BY OrderOfRows, Zenon
<1>2. /\ at \in [D -> D] /\ \A i \in D : \E n \in D : at[n] = i
      /\ \A n, m \in D : n < m => Before(at[n], at[m])
    BY <1>1 DEF IsOrder
<1>3. /\ DOMAIN heat = D
      /\ \A n \in D : heat[n].name = Devices[at[n]] /\ heat[n].total = Total(Devices[at[n]])
    BY <1>1 DEF RowOf
<1> HIDE DEF heat
<1>4. \A i \in D : Total(Devices[i]) \in Nat
    BY EventsOf
<1>5. PICK k \in Nat : D = 1 .. k
    BY MapAssumption
<1>6. \A i, j \in D : Devices[i] = Devices[j] => i = j
    BY MapAssumption
<1>7. \A n, m \in D : at[n] = at[m] => n = m
    <2>1. \A i \in D : ~Before(i, i)
        BY <1>4, <1>5 DEF Before
    <2>2. \A n, m \in D : n = m \/ n < m \/ m < n
        BY <1>5
    <2> QED BY <1>2, <2>1, <2>2
<1>8. ASSUME NEW i \in D PROVE place(Devices[i]) \in D /\ at[place(Devices[i])] = i
    <2>1. PICK n \in D : at[n] = i
        BY <1>2
    <2>2. heat[n].name = Devices[i]
        BY <1>3, <2>1
    <2>3. \A m \in D : heat[m].name = Devices[i] => m = n
        BY <1>2, <1>3, <1>6, <1>7, <2>1
    <2>4. place(Devices[i]) = n
        BY <1>3, <2>2, <2>3
    <2> QED BY <2>1, <2>4
<1>9. {heat[n].name : n \in DOMAIN heat} = {Devices[i] : i \in D}
    BY <1>2, <1>3
<1>10. ASSUME NEW i \in D, NEW j \in D, place(Devices[i]) < place(Devices[j])
       PROVE  \/ heat[place(Devices[i])].total > heat[place(Devices[j])].total
              \/ heat[place(Devices[i])].total = heat[place(Devices[j])].total /\ i < j
    <2> HIDE DEF place
    <2>1. PICK n, m \in D : /\ n = place(Devices[i]) /\ at[n] = i
                            /\ m = place(Devices[j]) /\ at[m] = j
        BY <1>8
    <2>2. Before(i, j)
        BY <1>2, <1>10, <2>1
    <2>3. heat[n].total = Total(Devices[i]) /\ heat[m].total = Total(Devices[j])
        BY <1>3, <2>1
    <2> QED BY <2>1, <2>2, <2>3 DEF Before
<1> QED BY <1>9, <1>10 DEF IsRanked, heat

--------------------------------------------------------------------------------
(* The strip of a row.                                                      *)

\* Cells that count what is in them hold together what is in none after them.
LEMMA CellsTogether ==
    ASSUME NEW all, IsFiniteSet(all), NEW m \in Nat, NEW cell \in [all -> 0 .. m],
           NEW buckets, \A c \in 0 .. m : buckets[c] = Cardinality({i \in all : cell[i] = c}),
           NEW c \in 0 .. m
    PROVE  UpTo(buckets, m)[c] = Cardinality({i \in all : cell[i] <= c})
<1> DEFINE value(f, n) == IF n = 0 THEN buckets[0] ELSE f[n - 1] + buckets[n]
           counted(f) == f = [n \in 0 .. m |-> value(f, n)]
           upto == CHOOSE f : counted(f)
           held(n) == Cardinality({i \in all : cell[i] <= n})
           sums == [n \in 0 .. m |-> held(n)]
<1>1. held(0) = buckets[0]
    <2>1. {i \in all : cell[i] <= 0} = {i \in all : cell[i] = 0}
        OBVIOUS
    <2> QED BY <2>1
<1>2. ASSUME NEW n \in 1 .. m PROVE held(n) = held(n - 1) + buckets[n]
    <2> DEFINE S == {i \in all : cell[i] <= n - 1}
               T == {i \in all : cell[i] = n}
    <2>1. /\ {i \in all : cell[i] <= n} = S \cup T /\ S \cap T = {}
          /\ S \in SUBSET all /\ T \in SUBSET all
        OBVIOUS
    <2>2. buckets[n] = Cardinality(T) /\ held(n - 1) = Cardinality(S)
        OBVIOUS
    <2> HIDE DEF S, T
    <2>3. IsFiniteSet(S) /\ IsFiniteSet(T)
        BY <2>1, FS_Subset
    <2>4. Cardinality(S) \in Nat /\ Cardinality(T) \in Nat /\ Cardinality({}) = 0
        BY <2>3, FS_CardinalityType, FS_EmptySet
    <2>5. Cardinality(S \cup T) = Cardinality(S) + Cardinality(T) - Cardinality(S \cap T)
        BY <2>3, FS_Union
    <2>6. held(n) = Cardinality(S \cup T)
        BY <2>1
    <2>7. Cardinality(S \cap T) = 0
        BY <2>1, <2>4
    <2> HIDE DEF held
    <2> QED BY <2>2, <2>4, <2>5, <2>6, <2>7
<1> HIDE DEF held
<1>3. counted(sums)
    <2>1. ASSUME NEW n \in 0 .. m PROVE held(n) = value(sums, n)
        <3>1. n # 0 => n \in 1 .. m /\ n - 1 \in 0 .. m
            OBVIOUS
        <3> QED BY <1>1, <1>2, <3>1
    <2> HIDE DEF value
    <2> QED BY <2>1, Zenon
<1>4. counted(upto)
    <2> HIDE DEF counted
    <2> QED BY <1>3
<1> HIDE DEF sums
<1>5. \A n \in 0 .. m : upto[n] = value(upto, n)
    <2> HIDE DEF upto, value
    <2> QED BY <1>4
<1> HIDE DEF upto
<1> DEFINE S == {n \in 0 .. m : upto[n] = held(n)}
<1>6. 0 \in S
    BY <1>1, <1>5
<1>7. ASSUME NEW n \in 0 .. m - 1, n \in S PROVE n + 1 \in S
    <2>1. n + 1 \in 1 .. m /\ n + 1 \in 0 .. m /\ (n + 1) - 1 = n /\ n + 1 # 0
        OBVIOUS
    <2>2. upto[n + 1] = upto[n] + buckets[n + 1]
        BY <1>5, <2>1
    <2>3. held(n + 1) = held(n) + buckets[n + 1]
        BY <1>2, <2>1
    <2> QED BY <1>7, <2>1, <2>2, <2>3
<1> HIDE DEF S
<1>8. 0 \in Int /\ m \in Int /\ (0 <= m => 0 \in S) /\ \A n \in 0 .. m - 1 : n \in S => n + 1 \in S
    BY <1>6, <1>7
<1>9. 0 .. m \subseteq S
    BY <1>8, InductionUp, Zenon
<1>10. upto[c] = held(c)
    BY <1>9 DEF S
<1>11. UpTo(buckets, m) = upto
    BY DEF UpTo, upto
<1> QED BY <1>10, <1>11 DEF held

\* The cell of an offset is one of the strip; larger offsets are not to the left
\* of it, and one in the first half is in the first half.
LEMMA BucketIs ==
    ASSUME NEW o \in Nat, NEW size \in Nat \ {0}, NEW cols \in Nat
    PROVE  /\ Cells(cols) \in Nat \ {0} /\ (cols > 1 => Cells(cols) = cols)
           /\ Bucket(o, size, cols) \in 0 .. Cells(cols) - 1
           /\ \A p \in Nat : o <= p => Bucket(o, size, cols) <= Bucket(p, size, cols)
           /\ 2 * o < size /\ cols > 1 => Bucket(o, size, cols) <= (cols - 1) \div 2
<1>1. PICK n \in Nat \ {0} : n = Cells(cols) /\ (cols > 1 => n = cols)
    BY OfTwo DEF Cells
<1> DEFINE capped(p) == IF p <= size - 1 THEN p ELSE size - 1
           q(p) == (capped(p) * n) \div size
<1>2. ASSUME NEW p \in Nat
      PROVE  /\ capped(p) \in Nat /\ capped(p) * n \in Nat /\ q(p) \in Nat
             /\ size * q(p) <= capped(p) * n
             /\ Bucket(p, size, cols) = IF q(p) <= n - 1 THEN q(p) ELSE n - 1
    <2>1. capped(p) \in Nat /\ capped(p) = Min({p, size - 1})
        <3>1. PICK r \in Nat : r = size - 1
            OBVIOUS
        <3>2. Min({p, r}) = IF p <= r THEN p ELSE r
            BY OfTwo
        <3> QED BY <3>1, <3>2
    <2>2. PICK a \in Nat : a = capped(p) * n
        BY <2>1
    <2>3. q(p) \in Nat /\ size * q(p) <= a
        BY <2>2, Quotient
    <2>4. Bucket(p, size, cols) = Min({q(p), n - 1})
        BY <1>1, <2>1 DEF Bucket
    <2> HIDE DEF q, capped
    <2>5. Min({q(p), n - 1}) = IF q(p) <= n - 1 THEN q(p) ELSE n - 1
        <3>1. PICK x, y \in Nat : x = q(p) /\ y = n - 1
            BY <2>3
        <3>2. Min({x, y}) = IF x <= y THEN x ELSE y
            BY OfTwo
        <3> QED BY <3>1, <3>2
    <2> QED BY <2>1, <2>2, <2>3, <2>4, <2>5
<1>3. ASSUME NEW p \in Nat, o <= p PROVE q(o) <= q(p)
    <2>1. capped(o) <= capped(p) /\ capped(o) \in Nat /\ capped(p) \in Nat
        BY <1>3
    <2> HIDE DEF capped
    <2>2. capped(o) * n <= capped(p) * n
        BY <2>1, ProductGrows
    <2>3. capped(o) * n \in Nat /\ capped(p) * n \in Nat
        BY <1>2, <1>3
    <2> QED BY <2>2, <2>3, QuotientGrows
<1>4. ASSUME 2 * o < size, n > 1 PROVE 2 * q(o) < n
    <2>1. capped(o) = o
        BY <1>4
    <2>2. PICK b \in Nat : b = q(o) /\ size * b <= o * n
        BY <1>2, <2>1
    <2>3. ASSUME n <= 2 * b PROVE FALSE
        <3>1. size * n <= size * (2 * b)
            BY <2>3, ProductGrows
        <3>2. size * (2 * b) = 2 * (size * b)
            OBVIOUS
        <3>3. (2 * o + 1) * n <= size * n
            BY <1>4, ProductGrows
        <3>4. (2 * o + 1) * n = 2 * (o * n) + n
            OBVIOUS
        <3>5. size * b \in Nat /\ o * n \in Nat /\ size * n \in Nat
            OBVIOUS
        <3> QED BY <2>2, <3>1, <3>2, <3>3, <3>4, <3>5
    <2> QED BY <2>2, <2>3
<1> HIDE DEF q
<1>5. ASSUME 2 * o < size, cols > 1 PROVE Bucket(o, size, cols) <= (cols - 1) \div 2
    <2>1. PICK b \in Nat : b = q(o) /\ 2 * b < cols
        BY <1>1, <1>2, <1>4, <1>5
    <2>2. b <= (cols - 1) \div 2
        BY <2>1
    <2>3. Bucket(o, size, cols) = b
        BY <1>1, <1>2, <1>5, <2>1
    <2> QED BY <2>2, <2>3
<1>6. ASSUME NEW p \in Nat, o <= p PROVE Bucket(o, size, cols) <= Bucket(p, size, cols)
    BY <1>2, <1>3, <1>6
<1>7. Bucket(o, size, cols) \in 0 .. n - 1
    BY <1>2
<1> QED BY <1>1, <1>5, <1>6, <1>7

\* What a row counts is what the screen has of its device.
LEMMA RowCounts ==
    ASSUME TypeOK, NEW cols \in Nat, NEW d \in DOMAIN Devices
    PROVE  CountsTheScreen(RowOf(d, cols), cols)
<1> DEFINE device == Devices[d]
           all == {i \in DOMAIN screen : Path(screen[i]) = device}
           offset(i) == Offset(screen[i])
           offsets == {offset(i) : i \in all}
           size == Size(device)
           last == Cells(cols) - 1
           buckets == Buckets(device, cols)
           upto == UpTo(buckets, last)
           held(o) == Cardinality({i \in all : offset(i) <= o})
<1>1. all = Events(device) /\ IsFiniteSet(all) /\ Total(device) = Cardinality(all)
    <2>1. all = Events(device)
        BY DEF Events
    <2> QED BY <2>1, EventsOf DEF Total
<1>2. \A i \in DOMAIN screen : offset(i) \in 0 .. WordMax
    <2> SUFFICES ASSUME NEW i \in DOMAIN screen PROVE offset(i) \in 0 .. WordMax
        OBVIOUS
    <2>1. screen[i] \in Reports
        BY DEF TypeOK
    <2>2. screen[i].from["offset"] \in 0 .. MaxEvents
        BY <2>1, MapAssumption DEF Reports
    <2>3. screen[i].from["offset"] # 0 => screen[i].from["offset"] \in Blocks
        BY <2>2, BoundsAssumption DEF Blocks
    <2> QED BY <2>2, <2>3, MapAssumption DEF Offset
<1>3. WordMax \in Nat \ {0}
    BY MapAssumption
<1> HIDE DEF offset
<1>4. offsets \subseteq 0 .. WordMax /\ \A i \in all : offset(i) \in Nat /\ offset(i) \in offsets
    BY <1>2
<1>5. all # {} => /\ Max(offsets) \in offsets /\ \A o \in offsets : o <= Max(offsets)
                  /\ size = SaturatingAdd(Max(offsets), 1)
    <2>1. all # {} => offsets # {}
        OBVIOUS
    <2>2. all # {} => size = SaturatingAdd(Max(offsets), 1)
        BY <1>1 DEF Size, offset
    <2> HIDE DEF offsets, size, all
    <2> QED BY <1>3, <1>4, <2>1, <2>2, MaxOfSet
<1>6. size \in Nat \ {0} /\ (all # {} => size >= Max(offsets))
    <2>1. CASE all = {}
        BY <1>1, <2>1 DEF Size
    <2>2. CASE all # {}
        <3>1. PICK m \in 0 .. WordMax : m = Max(offsets)
            BY <1>4, <1>5, <2>2
        <3>2. size = SaturatingAdd(m, 1)
            BY <1>5, <2>2, <3>1
        <3> HIDE DEF size
        <3> QED BY <1>3, <3>1, <3>2 DEF SaturatingAdd
    <2> QED BY <2>1, <2>2
<1> HIDE DEF size
<1> DEFINE cell == [i \in all |-> Bucket(offset(i), size, cols)]
<1>7. last \in Nat /\ cell \in [all -> 0 .. last]
    <2>1. Cells(cols) \in Nat \ {0}
        BY <1>6, BucketIs
    <2>2. \A i \in all : Bucket(offset(i), size, cols) \in 0 .. last
        BY <1>4, <1>6, BucketIs
    <2> QED BY <2>1, <2>2
<1>8. \A c \in 0 .. last : buckets[c] = Cardinality({i \in all : cell[i] = c})
    <2> SUFFICES ASSUME NEW c \in 0 .. last
                 PROVE  buckets[c] = Cardinality({i \in all : cell[i] = c})
        OBVIOUS
    <2>1. buckets[c] = Cardinality({i \in all : Bucket(Offset(screen[i]), size, cols) = c})
        BY <1>1 DEF Buckets, size
    <2>2. {i \in all : Bucket(Offset(screen[i]), size, cols) = c} = {i \in all : cell[i] = c}
        BY DEF offset
    <2> QED BY <2>1, <2>2
<1> HIDE DEF cell, buckets, last
<1>9. ASSUME NEW c \in 0 .. last PROVE upto[c] = Cardinality({i \in all : cell[i] <= c})
    <2> HIDE DEF all
    <2> QED BY <1>1, <1>7, <1>8, CellsTogether
<1>10. \A i \in all : cell[i] \in 0 .. last
    BY <1>7
<1>11. \A i, j \in all : offset(i) <= offset(j) => cell[i] <= cell[j]
    BY <1>4, <1>6, BucketIs DEF cell
<1> HIDE DEF upto
<1>12. upto[last] = Cardinality(all)
    <2>1. {i \in all : cell[i] <= last} = all
        BY <1>7, <1>10
    <2>2. last \in 0 .. last
        BY <1>7
    <2>3. upto[last] = Cardinality({i \in all : cell[i] <= last})
        BY <1>9, <2>2
    <2> HIDE DEF all
    <2> QED BY <2>1, <2>3
<1>13. ASSUME NEW c \in 0 .. last
       PROVE  \E o \in offsets \cup {-1} : upto[c] = held(o)
    <2> DEFINE left == {offset(i) : i \in {j \in all : cell[j] <= c}}
    <2>1. CASE left = {}
        <3>1. {i \in all : cell[i] <= c} = {i \in all : offset(i) <= -1}
            BY <1>4, <2>1
        <3> QED BY <1>9, <3>1
    <2>2. CASE left # {}
        <3>1. left \in SUBSET (0 .. WordMax)
            BY <1>4
        <3>2. PICK m \in left : \A n \in left : n <= m
            <4> HIDE DEF left
            <4> QED BY <1>3, <2>2, <3>1, GreatestNumber
        <3>3. PICK j \in all : cell[j] <= c /\ offset(j) = m
            BY <3>2
        <3>4. ASSUME NEW i \in all PROVE cell[i] <= c <=> offset(i) <= m
            <4>1. cell[i] <= c => offset(i) <= m
                BY <3>2
            <4>2. offset(i) <= m => cell[i] <= c
                <5>1. offset(i) <= m => cell[i] <= cell[j]
                    BY <1>11, <3>3
                <5> QED BY <1>7, <1>10, <3>3, <5>1
            <4> QED BY <4>1, <4>2
        <3>5. {i \in all : cell[i] <= c} = {i \in all : offset(i) <= m}
            BY <3>4
        <3>6. m \in offsets
            BY <3>3
        <3> QED BY <1>9, <3>5, <3>6
    <2> QED BY <2>1, <2>2
<1>14. ASSUME NEW o \in offsets, 2 * o < Max(offsets), cols > 1
       PROVE  upto[(cols - 1) \div 2] >= held(o)
    <2>1. o \in Nat /\ all # {} /\ Max(offsets) \in Nat
        BY <1>4, <1>5
    <2>2. 2 * o < size
        BY <1>5, <1>6, <1>14, <2>1
    <2>3. Cells(cols) = cols /\ Bucket(o, size, cols) <= (cols - 1) \div 2
        BY <1>6, <1>14, <2>1, <2>2, BucketIs
    <2>4. PICK c \in 0 .. last : c = (cols - 1) \div 2
        BY <1>14, <2>3 DEF last
    <2> DEFINE S == {i \in all : offset(i) <= o}
               T == {i \in all : cell[i] <= c}
    <2>5. PICK j \in all : offset(j) = o
        OBVIOUS
    <2>6. cell[j] <= c
        BY <2>3, <2>4, <2>5 DEF cell
    <2>7. S \in SUBSET T
        <3>1. ASSUME NEW i \in all, offset(i) <= o PROVE cell[i] <= c
            <4>1. cell[i] <= cell[j]
                BY <1>11, <2>5, <3>1
            <4> QED BY <1>7, <1>10, <2>6, <4>1
        <3> QED BY <3>1
    <2>8. T \in SUBSET all
        OBVIOUS
    <2>9. upto[c] = Cardinality(T) /\ held(o) = Cardinality(S)
        BY <1>9
    <2> HIDE DEF S, T, all, held
    <2>10. IsFiniteSet(T)
        BY <1>1, <2>8, FS_Subset
    <2>11. IsFiniteSet(S) /\ Cardinality(S) <= Cardinality(T)
        BY <2>7, <2>10, FS_Subset
    <2>12. Cardinality(S) \in Nat /\ Cardinality(T) \in Nat
        BY <2>10, <2>11, FS_CardinalityType
    <2> QED BY <2>4, <2>9, <2>11, <2>12
<1>15. /\ RowOf(d, cols).name = device /\ RowOf(d, cols).total = Cardinality(all)
       /\ RowOf(d, cols).buckets = buckets
    BY <1>1 DEF RowOf, buckets
<1> QED BY <1>12, <1>13, <1>14, <1>15 DEF CountsTheScreen, upto, last, offset

\* The map tells the screen.
LEMMA MapByScreen == TypeOK => MapTellsTheScreen
<1> SUFFICES ASSUME TypeOK, NEW cols \in Columns
             PROVE  /\ IsRanked(HeatList(cols))
                    /\ \A n \in DOMAIN HeatList(cols) : CountsTheScreen(HeatList(cols)[n], cols)
    BY DEF MapTellsTheScreen
<1>1. cols \in Nat
    BY MapAssumption
<1>2. PICK at : IsOrder(at) /\ HeatList(cols) = [n \in DOMAIN Devices |-> RowOf(at[n], cols)]
    BY OrderOfRows, Zenon
<1>3. ASSUME NEW n \in DOMAIN Devices PROVE CountsTheScreen(RowOf(at[n], cols), cols)
    BY <1>1, <1>2, RowCounts DEF IsOrder
<1> QED BY <1>2, <1>3, RowsAreRanked

--------------------------------------------------------------------------------
(* The layout of a row.                                                     *)

\* A row fits, or is the seven columns of its count.
LEMMA RowsFit ==
    ASSUME NEW width \in Nat, NEW total \in Nat, total < 10000
    PROVE  /\ CountWidth(total) = 7
           /\ RowWidth(width, total) \in Nat
           /\ RowWidth(width, total) <= width \/ RowWidth(width, total) = 7
<1>1. CountWidth(total) = 7
    <2>1. Digits(total) \in 1 .. 4
        BY DEF Digits
    <2> HIDE DEF Digits
    <2>2. Max({4, Digits(total)}) = 4
        BY <2>1, OfTwo
    <2> QED BY <2>2 DEF CountWidth
<1>2. NameWidth(width) = IF width >= 70 THEN 28 ELSE IF width >= 44 THEN 20
                         ELSE IF width >= 28 THEN width - 11 ELSE 0
    BY DEF NameWidth
<1>3. StripCols(width) \in Nat /\ (width < 44 => StripCols(width) = 0)
      /\ (width >= 70 => StripCols(width) <= width - 39)
      /\ (width >= 44 /\ width < 70 => StripCols(width) <= width - 31)
    <2>1. CASE width >= 70
        <3>1. PICK w \in Nat : w = width - 28 - 2 - 9
            BY <2>1
        <3>2. StripCols(width) = Min({w, 40})
            BY <2>1, <3>1 DEF StripCols
        <3>3. Min({w, 40}) = IF w <= 40 THEN w ELSE 40
            BY OfTwo
        <3> QED BY <2>1, <3>1, <3>2, <3>3
    <2>2. CASE width >= 44 /\ width < 70
        <3>1. PICK w \in Nat : w = width - 20 - 2 - 9 /\ w >= 13
            BY <2>2
        <3>2. StripCols(width) = Max({4, Min({w, 40})})
            BY <2>2, <3>1 DEF StripCols, Clamp
        <3>5. Min({w, 40}) = IF w <= 40 THEN w ELSE 40
            BY OfTwo
        <3>3. PICK m \in Nat : m = Min({w, 40}) /\ m = IF w <= 40 THEN w ELSE 40
            BY <3>5
        <3>4. Max({4, m}) = IF 4 >= m THEN 4 ELSE m
            BY OfTwo
        <3> QED BY <2>2, <3>1, <3>2, <3>3, <3>4
    <2>3. CASE width < 44
        BY <2>3 DEF StripCols
    <2> QED BY <2>1, <2>2, <2>3
<1>4. PICK name \in Nat : name = NameWidth(width)
    BY <1>2
<1>5. PICK strip \in Nat : strip = StripCols(width)
    BY <1>3
<1>6. RowWidth(width, total) = (IF name > 0 THEN name + 1 ELSE 0)
                                 + (IF strip > 0 THEN strip + 1 ELSE 0) + 7
    BY <1>1, <1>4, <1>5 DEF RowWidth
<1>7. CASE width < 28
    <2>1. name = 0 /\ strip = 0
        BY <1>2, <1>3, <1>4, <1>5, <1>7
    <2> QED BY <1>1, <1>6, <2>1
<1>8. CASE width >= 28 /\ width < 44
    <2>1. name = width - 11 /\ strip = 0
        BY <1>2, <1>3, <1>4, <1>5, <1>8
    <2>2. RowWidth(width, total) = (width - 11 + 1) + 0 + 7
        BY <1>6, <1>8, <2>1
    <2>3. RowWidth(width, total) \in Nat
        BY <1>6
    <2> QED BY <1>1, <2>2, <2>3
<1>9. CASE width >= 44 /\ width < 70
    <2>1. name = 20 /\ strip <= width - 31
        BY <1>2, <1>3, <1>4, <1>5, <1>9
    <2>2. RowWidth(width, total) <= 21 + (strip + 1) + 7
        BY <1>6, <2>1
    <2>3. RowWidth(width, total) \in Nat
        BY <1>6
    <2>4. 21 + (strip + 1) + 7 <= width
        BY <2>1
    <2> QED BY <1>1, <2>2, <2>3, <2>4
<1>10. CASE width >= 70
    <2>1. name = 28 /\ strip <= width - 39
        BY <1>2, <1>3, <1>4, <1>5, <1>10
    <2>2. RowWidth(width, total) <= 29 + (strip + 1) + 7
        BY <1>6, <2>1
    <2>3. RowWidth(width, total) \in Nat
        BY <1>6
    <2>4. 29 + (strip + 1) + 7 <= width
        BY <2>1
    <2> QED BY <1>1, <2>2, <2>3, <2>4
<1> QED BY <1>7, <1>8, <1>9, <1>10

\* The larger of the panel and the count is the room a row has.
LEMMA CountsFit == TypeOK => CountIsNotCrowdedOut
<1> SUFFICES ASSUME TypeOK, NEW width \in Widths, NEW n \in DOMAIN Devices
             PROVE  RowWidth(width, Total(Devices[n]))
                      <= Max({width, CountWidth(Total(Devices[n]))})
    BY DEF CountIsNotCrowdedOut
<1>1. width \in Nat /\ WindowCap < 10000 /\ WindowCap \in Nat
    BY MapAssumption, BoundsAssumption
<1>2. Total(Devices[n]) \in Nat /\ Total(Devices[n]) <= WindowCap
    BY EventsOf
<1>3. PICK total \in Nat : total = Total(Devices[n]) /\ total < 10000
    BY <1>1, <1>2
<1>4. /\ CountWidth(total) = 7 /\ RowWidth(width, total) \in Nat
      /\ RowWidth(width, total) <= width \/ RowWidth(width, total) = 7
    BY <1>1, <1>3, RowsFit
<1>5. Max({width, 7}) = IF width >= 7 THEN width ELSE 7
    BY <1>1, OfTwo
<1>6. Max({width, CountWidth(total)}) = Max({width, 7})
    BY <1>4
<1>7. RowWidth(width, total) <= Max({width, CountWidth(total)})
    BY <1>1, <1>4, <1>5, <1>6
<1> QED BY <1>3, <1>7

\* The map is a true picture of the ereports on the screen in every reachable
\* state: its order, its totals and the cells of its strips (device_heat_list).
THEOREM MapTells == Spec => []MapTellsTheScreen
BY TypeCorrect, MapByScreen, PTL

\* At no width of the panel, and for no number of ereports, do name and strip
\* push the count of a row of the map off the edge; in a panel narrower than the
\* count the row is the count alone (the map panel of render_frame_scrolled).
THEOREM CountsAreNotCrowdedOut == Spec => []CountIsNotCrowdedOut
BY TypeCorrect, CountsFit, PTL
================================================================================
