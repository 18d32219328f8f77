------------------------------ MODULE SessionProofs ------------------------------
(****************************************************************************)
(* Proofs about Session.  Whatever fails, and whenever a signal arrives: the*)
(* invariant records what main has touched at each of its steps, and why it *)
(* is leaving.                                                              *)
(*                                                                          *)
(* And about Demo, for a scan of any length, a first error at any tick of   *)
(* it and a window of any size: every frame is that of the last tick but    *)
(* one that the counter has passed.                                         *)
(****************************************************************************)
EXTENDS Demo, SequenceTheorems, Induction, TLAPS

\* Nothing has ended yet, and nothing was refused.
Undecided ==
    pc \in {"start", "collect", "raw", "alternate", "backend", "source", "loop"} =>
        how = "none" /\ code = 0 /\ refused = {}

\* Only the loop leads to the restoration.
Restoring == pc \in {"restore", "leave"} => how \in {"quit", "error"} /\ code = 0

\* --once and the interactive session have no step in common but the first.
Apart ==
    /\ pc = "collect" => once
    /\ pc \in {"raw", "alternate", "backend", "source", "loop", "restore", "leave"} => ~once

\* What the terminal has not been asked for it has not changed.
Untouched ==
    /\ pc \in {"start", "collect", "raw"} => ~raw /\ ~alternate
    /\ pc = "alternate" => ~alternate

\* The first half of the restoration.
HalfRestored == pc = "leave" /\ raw => "raw" \in refused

\* Only a source holds a child, and only these steps hold a source.
Held == child = "running" => pc \in {"collect", "loop", "ended"}

IInv ==
    /\ TypeOK /\ Undecided /\ Restoring /\ Apart /\ Untouched /\ HalfRestored /\ Held
    /\ TerminalRestored /\ ChildNeverOutlives /\ ExitTells

USE DEF TypeOK, PCs, Endings, Undecided, Restoring, Apart, Untouched, HalfRestored, Held,
        TerminalRestored, ChildNeverOutlives, ExitTells, IInv, vars, arguments, terminal,
        program, Exit, Goto

\* The program has touched nothing when it starts.
LEMMA InitIInv == Init => IInv
BY DEF Init

\* No step of --once disturbs the invariant.
LEMMA OnceIInv == IInv /\ Once => IInv'
<1> SUFFICES ASSUME IInv, Once PROVE IInv'
    OBVIOUS
<1>1. CASE OnceDemo
    BY <1>1 DEF OnceDemo, Output
<1>2. CASE OnceOpen
    BY <1>2 DEF OnceOpen, SpawnFollower
<1>3. CASE OncePrint
    BY <1>3 DEF OncePrint, Output, DropFollower
<1>4. CASE OnceFails
    BY <1>4 DEF OnceFails
<1> QED BY <1>1, <1>2, <1>3, <1>4 DEF Once

\* No step of the setting up does, whether it succeeds or fails.
LEMMA SetupIInv == IInv /\ Setup => IInv'
<1> SUFFICES ASSUME IInv, Setup PROVE IInv'
    OBVIOUS
<1>1. CASE Refuse
    BY <1>1 DEF Refuse
<1>2. CASE Accept
    BY <1>2 DEF Accept
<1>3. CASE EnableRaw
    BY <1>3 DEF EnableRaw
<1>4. CASE EnterAlternate
    BY <1>4 DEF EnterAlternate
<1>5. CASE OpenBackend
    BY <1>5 DEF OpenBackend
<1>6. CASE SetupFails
    BY <1>6 DEF SetupFails
<1>7. CASE OpenSource
    BY <1>7 DEF OpenSource, SpawnFollower
<1> QED BY <1>1, <1>2, <1>3, <1>4, <1>5, <1>6, <1>7 DEF Setup

\* No end of the loop does: each drops the follower first.
LEMMA LoopEndsIInv == IInv /\ LoopEnds => IInv'
<1> SUFFICES ASSUME IInv, LoopEnds PROVE IInv'
    OBVIOUS
<1>1. CASE Quit
    BY <1>1 DEF Quit, DropFollower
<1>2. CASE LoopFails
    BY <1>2 DEF LoopFails, DropFollower
<1>3. CASE Panic
    BY <1>3 DEF Panic, DropFollower
<1> QED BY <1>1, <1>2, <1>3 DEF LoopEnds

\* No step of the restoration does, whatever the terminal refuses.
LEMMA RestoreIInv == IInv /\ Restore => IInv'
<1> SUFFICES ASSUME IInv, Restore PROVE IInv'
    OBVIOUS
<1>1. CASE DisableRaw
    <2>1. CASE raw' = FALSE /\ UNCHANGED refused
        <3>1. ~raw' /\ raw' \in BOOLEAN /\ refused' = refused
            BY <2>1
        <3> QED BY <1>1, <3>1 DEF DisableRaw
    <2>2. CASE refused' = refused \cup {"raw"} /\ UNCHANGED raw
        <3>1. refused' \subseteq {"raw", "alternate"} /\ "raw" \in refused'
            BY <2>2
        <3> QED BY <1>1, <2>2, <3>1 DEF DisableRaw
    <2> QED BY <1>1, <2>1, <2>2 DEF DisableRaw
<1>2. CASE LeaveAlternate
    <2>1. /\ how \in {"quit", "error"} /\ how' = how /\ pc' = "ended" /\ ~once'
          /\ code' = IF how = "quit" THEN 0 ELSE 1
        BY <1>2 DEF LeaveAlternate
    <2>2. /\ refused' \subseteq {"raw", "alternate"} /\ refused \subseteq refused'
          /\ raw' = raw /\ alternate' \in BOOLEAN
          /\ alternate' => "alternate" \in refused'
        <3>1. CASE alternate' = FALSE /\ UNCHANGED refused
            BY <1>2, <3>1 DEF LeaveAlternate
        <3>2. CASE refused' = refused \cup {"alternate"} /\ UNCHANGED alternate
            BY <1>2, <3>2 DEF LeaveAlternate
        <3> QED BY <1>2, <3>1, <3>2 DEF LeaveAlternate
    <2>3. TypeOK'
        BY <1>2, <2>1, <2>2 DEF LeaveAlternate
    <2>4. (Undecided /\ Restoring /\ Apart /\ Untouched /\ HalfRestored)'
        BY <2>1
    <2>5. (Held /\ ChildNeverOutlives)'
        BY <1>2, <2>1 DEF LeaveAlternate
    <2>6. TerminalRestored'
        <3>1. raw => "raw" \in refused
            BY <1>2 DEF LeaveAlternate
        <3> QED BY <2>1, <2>2, <3>1
    <2>7. ExitTells'
        BY <2>1
    <2> QED BY <2>3, <2>4, <2>5, <2>6, <2>7
<1> QED BY <1>1, <1>2 DEF Restore

\* The world disturbs it at no step, a signal included.
LEMMA WorldIInv == IInv /\ World => IInv'
<1> SUFFICES ASSUME IInv, World PROVE IInv'
    OBVIOUS
<1>1. CASE PoolsChange
    BY <1>1 DEF PoolsChange
<1>2. CASE ChildDies
    BY <1>2 DEF ChildDies
<1>3. CASE Killed
    BY <1>3 DEF Killed
<1>4. CASE Interrupted
    BY <1>4 DEF Interrupted
<1> QED BY <1>1, <1>2, <1>3, <1>4 DEF World

\* The invariant holds throughout.
THEOREM Invariant == Spec => []IInv
<1>1. IInv /\ [Next]_vars => IInv'
    <2> SUFFICES ASSUME IInv, [Next]_vars PROVE IInv'
        OBVIOUS
    <2>1. CASE UNCHANGED vars
        BY <2>1
    <2>2. CASE Turn \/ Ended
        BY <2>1, <2>2 DEF Turn, Ended
    <2> QED BY <2>1, <2>2, OnceIInv, SetupIInv, LoopEndsIInv, RestoreIInv, WorldIInv DEF Next
<1> HIDE DEF IInv, vars
<1> QED BY InitIInv, <1>1, PTL DEF Spec

HIDE DEF TypeOK, PCs, Endings, Undecided, Restoring, Apart, Untouched, HalfRestored, Held,
         TerminalRestored, ChildNeverOutlives, ExitTells, IInv, vars, arguments, terminal,
         program, Exit, Goto

\* The types, and with them the exit statuses there are.
THEOREM TypeCorrect == Spec => []TypeOK
<1>1. IInv => TypeOK
    BY DEF IInv
<1> QED BY Invariant, <1>1, PTL

\* A session that ends by itself gives the terminal back as far as it is let.
THEOREM TerminalGivenBack == Spec => []TerminalRestored
<1>1. IInv => TerminalRestored
    BY DEF IInv
<1> QED BY Invariant, <1>1, PTL

\* The child of the follower outlives nothing but a signal and a failed --once.
THEOREM ChildEnds == Spec => []ChildNeverOutlives
<1>1. IInv => ChildNeverOutlives
    BY DEF IInv
<1> QED BY Invariant, <1>1, PTL

\* The exit status tells how the program ended.
THEOREM StatusTells == Spec => []ExitTells
<1>1. IInv => ExitTells
    BY DEF IInv
<1> QED BY Invariant, <1>1, PTL

--------------------------------------------------------------------------------
(* The replay.                                                              *)

\* Nothing is drawn, or the frame is the sample of a tick.
FrameIsOfATick ==
    \/ tick = 0 /\ frame = NoFrame /\ window = <<>>
    \/ tick >= 2 /\ frame = Sample(scenario, Limited(tick - 1))

DemoInv ==
    /\ scenario \in Scenarios /\ late \in BOOLEAN /\ tick \in 0 .. MaxTick
    /\ window \in Seq(1 .. MaxTick) /\ Len(window) <= WindowCap
    /\ FrameIsOfATick
    /\ MapIsOfTheTick

--------------------------------------------------------------------------------

\* A cut window ends as the one that was cut.
LEMMA NewestProperties ==
    ASSUME NEW S, NEW s \in Seq(S)
    PROVE  /\ Newest(s) \in Seq(S) /\ Len(Newest(s)) <= WindowCap
           /\ s = <<>> => Newest(s) = <<>>
           /\ s # <<>> => Newest(s) # <<>> /\ Last(Newest(s)) = s[Len(s)]
<1> USE TicksAssumption
<1>1. Len(s) \in Nat /\ (s = <<>> <=> Len(s) = 0)
    OBVIOUS
<1>2. CASE Len(s) <= WindowCap
    BY <1>1, <1>2 DEF Newest, Last
<1>3. CASE Len(s) > WindowCap
    <2> DEFINE first == Len(s) - WindowCap + 1
    <2>1. /\ first \in 1 .. Len(s) /\ Len(s) \in 1 .. Len(s)
          /\ Len(s) - first + 1 = WindowCap /\ Newest(s) = SubSeq(s, first, Len(s))
        BY <1>1, <1>3 DEF Newest
    <2> HIDE DEF first
    <2>2. /\ SubSeq(s, first, Len(s)) \in Seq(S)
          /\ Len(SubSeq(s, first, Len(s))) = WindowCap
          /\ SubSeq(s, first, Len(s))[WindowCap] = s[Len(s)]
        BY <1>1, <2>1
    <2> DEFINE cut == SubSeq(s, first, Len(s))
    <2>3. Newest(s) = cut /\ cut \in Seq(S) /\ Len(cut) = WindowCap /\ cut[WindowCap] = s[Len(s)]
        BY <2>1, <2>2
    <2> HIDE DEF cut
    <2>4. cut # <<>> /\ Last(cut) = s[Len(s)]
        BY <2>3 DEF Last
    <2>5. s # <<>>
        BY <1>1, <1>3
    <2> QED BY <2>3, <2>4, <2>5
<1> QED BY <1>1, <1>2, <1>3

\* A tick of the demo: the scan ends at the last one, and a tick has reports if
\* and only if the frame of that tick, limited or not, has errors.
LEMMA SampleProperties ==
    ASSUME NEW sc \in Scenarios, NEW t \in Nat
    PROVE  /\ Limited(t) \in 0 .. Ticks
           /\ Sample(sc, Limited(t)).errors = 0 <=> Errors(sc, t) = 0
           /\ Sample(sc, Limited(t)).errors \in Nat /\ Errors(sc, t) \in Nat
           /\ Errors(sc, t) > 0 => Sample(sc, Limited(t)).examined = Limited(t)
           /\ Sample(sc, Limited(t)).examined \in 0 .. Ticks
           /\ Sample(sc, Limited(t)).scan = "finished" => sc = "done" \/ t >= Ticks
<1> USE TicksAssumption
<1>1. Limited(t) \in 0 .. Ticks /\ (t < Ticks => Limited(t) = t) /\ (t >= Ticks => Limited(t) = Ticks)
    BY DEF Limited
<1>2. /\ Errors(sc, t) \in Nat /\ Errors(sc, Limited(t)) \in Nat
      /\ Errors(sc, Limited(t)) = 0 <=> Errors(sc, t) = 0
    BY <1>1 DEF Errors
<1>3. CASE sc \in {"scanning", "errors"}
    <2>1. Sample(sc, Limited(t)) = ScanFrame(sc, Limited(t))
        BY <1>3 DEF Sample
    <2> QED BY <1>1, <1>2, <2>1 DEF ScanFrame
<1>4. CASE sc = "done"
    <2>1. Sample(sc, Limited(t)) = [scan |-> "finished", examined |-> Ticks, errors |-> 0,
                                    states |-> Healthy, target |-> FALSE]
        BY <1>4 DEF Sample, NoFrame
    <2> QED BY <1>1, <1>2, <1>4, <2>1 DEF Errors
<1>5. CASE sc = "fault"
    BY <1>1, <1>2, <1>5 DEF Sample, NoFrame, Errors
<1> QED BY <1>3, <1>4, <1>5 DEF Scenarios

\* Errors do not go away: a tick without has none before it.
LEMMA ErrorsStay ==
    ASSUME NEW sc, NEW t \in Nat, NEW u \in Nat, t <= u, Errors(sc, u) = 0
    PROVE  Errors(sc, t) = 0
BY TicksAssumption DEF Errors

\* The reports of a tick are as many as its errors, all with its number.
LEMMA ReportsProperties ==
    ASSUME NEW sc, NEW S, NEW t \in Nat, t \in S, Errors(sc, t) \in Nat
    PROVE  /\ Reports(sc, t) \in Seq(S) /\ Len(Reports(sc, t)) = Errors(sc, t)
           /\ \A i \in 1 .. Errors(sc, t) : Reports(sc, t)[i] = t
BY DEF Reports

LEMMA InitDemoInv == DemoInit => DemoInv
BY TicksAssumption DEF DemoInit, DemoInv, FrameIsOfATick, MapIsOfTheTick, NoFrame

\* A turn draws the second of the two ticks it has taken, and its reports.
LEMMA PollDemoInv == DemoInv /\ Poll => DemoInv'
<1> SUFFICES ASSUME DemoInv, Poll PROVE DemoInv'
    OBVIOUS
<1> DEFINE t == tick + 1
           n == Errors(scenario, t)
           more == window \o Reports(scenario, t)
<1>1. /\ scenario \in Scenarios /\ late \in BOOLEAN /\ window \in Seq(1 .. MaxTick)
      /\ tick \in 0 .. MaxTick /\ tick + 2 <= MaxTick
      /\ scenario' = scenario /\ late' = late /\ tick' = tick + 2
      /\ frame' = Sample(scenario, Limited(t))
      /\ window' = IF late THEN <<>> ELSE Newest(more)
    BY DEF DemoInv, Poll
<1>2. /\ t \in Nat /\ t \in 1 .. MaxTick /\ tick' - 1 = t
      /\ tick' >= 2 /\ tick' \in 0 .. MaxTick
    BY <1>1, TicksAssumption
<1> HIDE DEF t
<1>3. /\ frame'.errors = 0 <=> n = 0
      /\ frame'.errors \in Nat /\ n \in Nat
      /\ n > 0 => frame'.examined = Limited(t)
    BY <1>1, <1>2, SampleProperties
<1>4. FrameIsOfATick'
    BY <1>1, <1>2 DEF FrameIsOfATick
<1>5. /\ Reports(scenario, t) \in Seq(1 .. MaxTick) /\ Len(Reports(scenario, t)) = n
      /\ \A i \in 1 .. n : Reports(scenario, t)[i] = t
    <2> DEFINE S == 1 .. MaxTick
    <2>1. t \in Nat /\ t \in S
        BY <1>2
    <2> HIDE DEF S
    <2>2. /\ Reports(scenario, t) \in Seq(S) /\ Len(Reports(scenario, t)) = n
          /\ \A i \in 1 .. n : Reports(scenario, t)[i] = t
        BY <1>3, <2>1, ReportsProperties
    <2> QED BY <2>2 DEF S
<1> HIDE DEF n
<1>6. /\ more \in Seq(1 .. MaxTick)
      /\ n = 0 /\ window = <<>> => more = <<>>
      /\ n > 0 => more # <<>> /\ more[Len(more)] = t
    <2>1. more \in Seq(1 .. MaxTick) /\ Len(more) = Len(window) + n
        <3> DEFINE S == 1 .. MaxTick
        <3>1. window \in Seq(S) /\ Reports(scenario, t) \in Seq(S)
            BY <1>1, <1>5
        <3> HIDE DEF S
        <3> QED BY <1>5, <3>1, ConcatProperties DEF S
    <2>2. CASE n = 0
        BY <1>1, <2>1, <2>2
    <2>3. CASE n > 0
        <3>1. more[Len(window) + n] = Reports(scenario, t)[n]
            BY <1>1, <1>3, <1>5, <2>3
        <3> QED BY <1>1, <1>3, <1>5, <2>1, <2>3, <3>1
    <2> QED BY <1>3, <2>1, <2>2, <2>3
<1> HIDE DEF more
<1>7. n = 0 => window = <<>>
    <2>1. CASE tick = 0 /\ window = <<>>
        BY <2>1
    <2>2. CASE tick >= 2 /\ frame = Sample(scenario, Limited(tick - 1)) /\ n = 0
        <3>1. tick - 1 \in Nat /\ tick - 1 <= t
            BY <1>1, <2>2 DEF t
        <3>2. Errors(scenario, tick - 1) = 0
            BY <1>2, <2>2, <3>1, ErrorsStay DEF n
        <3>3. frame.errors = 0
            BY <1>1, <2>2, <3>1, <3>2, SampleProperties
        <3> QED BY <3>3 DEF DemoInv, MapIsOfTheTick
    <2> QED BY <2>1, <2>2 DEF DemoInv, FrameIsOfATick
<1>8. /\ window' \in Seq(1 .. MaxTick) /\ Len(window') <= WindowCap
      /\ n = 0 => window' = <<>>
      /\ late => window' = <<>>
      /\ n > 0 /\ ~late => window' # <<>>
      /\ window' # <<>> => Last(window') = t
    <2>1. CASE late
        BY <1>1, <2>1, TicksAssumption
    <2>2. CASE ~late
        <3>1. window' = Newest(more)
            BY <1>1, <2>2
        <3> QED BY <1>3, <1>6, <1>7, <2>2, <3>1, NewestProperties
    <2> QED BY <2>1, <2>2
<1>9. MapIsOfTheTick'
    <2>1. window' # <<>> => Last(window') = tick' - 1 /\ frame'.examined = Limited(tick' - 1)
        <3> SUFFICES ASSUME window' # <<>>
                     PROVE  Last(window') = tick' - 1 /\ frame'.examined = Limited(tick' - 1)
            OBVIOUS
        <3>1. n > 0
            BY <1>3, <1>8
        <3>2. frame'.examined = Limited(t) /\ tick' - 1 = t
            BY <1>2, <1>3, <3>1
        <3> QED BY <1>8, <3>2
    <2>2. frame'.errors = 0 \/ late' => window' = <<>>
        BY <1>1, <1>3, <1>8
    <2>3. frame'.errors > 0 /\ ~late' => window' # <<>>
        BY <1>1, <1>3, <1>8
    <2> QED BY <2>1, <2>2, <2>3 DEF MapIsOfTheTick
<1> QED BY <1>1, <1>2, <1>4, <1>8, <1>9 DEF DemoInv

\* The session around the loop leaves the replay alone.
LEMMA UnchangedDemoInv == DemoInv /\ UNCHANGED demo => DemoInv'
BY DEF DemoInv, demo, FrameIsOfATick, MapIsOfTheTick

\* The invariant holds throughout.
THEOREM DemoInvariant == DemoSpec => []DemoInv
<1>1. DemoInv /\ [DemoNext]_demoVars => DemoInv'
    BY PollDemoInv, UnchangedDemoInv DEF DemoNext, SessionStep, demoVars
<1> QED BY InitDemoInv, <1>1, PTL DEF DemoSpec

\* The error map is always of the tick of which the frame above it is: of the
\* frame's own age while the scan runs, ahead of it when the scan is finished.
THEOREM MapMatchesTick == DemoSpec => []MapIsOfTheTick
<1>1. DemoInv => MapIsOfTheTick
    BY DEF DemoInv
<1> QED BY DemoInvariant, <1>1, PTL

\* What a finished scan shows does not change, however long the replay runs on.
THEOREM FinishedForever == DemoSpec => FinishedStays
<1>1. DemoInv /\ [DemoNext]_demoVars => [frame.scan = "finished" => frame' = frame]_demoVars
    <2> SUFFICES ASSUME DemoInv, DemoNext, frame.scan = "finished" PROVE frame' = frame
        OBVIOUS
    <2>1. CASE Poll
        <3>1. /\ tick >= 2 /\ frame = Sample(scenario, Limited(tick - 1))
              /\ scenario \in Scenarios /\ tick \in Nat
              /\ frame' = Sample(scenario, Limited(tick + 1))
            BY <2>1 DEF DemoInv, FrameIsOfATick, NoFrame, Poll
        <3>2. tick - 1 \in Nat /\ tick + 1 \in Nat
            BY <3>1
        <3>3. scenario = "done" \/ tick - 1 >= Ticks
            BY <3>1, <3>2, SampleProperties
        <3>4. CASE scenario = "done"
            BY <3>1, <3>4 DEF Sample
        <3>5. CASE tick - 1 >= Ticks
            <4>1. Limited(tick - 1) = Ticks /\ Limited(tick + 1) = Ticks
                BY <3>1, <3>5, TicksAssumption DEF Limited
            <4> QED BY <3>1, <4>1
        <3> QED BY <3>3, <3>4, <3>5
    <2>2. CASE SessionStep
        BY <2>2 DEF SessionStep, demo
    <2> QED BY <2>1, <2>2 DEF DemoNext
<1> QED BY DemoInvariant, <1>1, PTL DEF DemoSpec, FinishedStays

\* What the frame shows is never more than there is, and the window is bounded.
THEOREM ReplayTypes == DemoSpec => []DemoTypeOK
<1>1. DemoSpec => Spec
    <2>1. [DemoNext]_demoVars => [Next]_vars
        BY DEF DemoNext, Poll, SessionStep, demoVars
    <2> QED BY <2>1, PTL DEF DemoSpec, DemoInit, Spec
<1>2. TypeOK /\ DemoInv => DemoTypeOK
    <2> SUFFICES ASSUME TypeOK, DemoInv PROVE DemoTypeOK
        OBVIOUS
    <2>1. Range(window) \subseteq 1 .. MaxTick
        <3>1. \A i \in DOMAIN window : window[i] \in 1 .. MaxTick
            <4> DEFINE S == 1 .. MaxTick
            <4>1. window \in Seq(S)
                BY DEF DemoInv
            <4> HIDE DEF S
            <4>2. \A i \in DOMAIN window : window[i] \in S
                BY <4>1
            <4> QED BY <4>2 DEF S
        <3> QED BY <3>1, Zenon DEF Range
    <2>2. frame.examined \in 0 .. Ticks
        <3>1. CASE frame = NoFrame
            BY <3>1, TicksAssumption DEF NoFrame
        <3>2. CASE tick >= 2 /\ frame = Sample(scenario, Limited(tick - 1))
            <4>1. tick - 1 \in Nat /\ scenario \in Scenarios
                BY <3>2, TicksAssumption DEF DemoInv
            <4> QED BY <3>2, <4>1, SampleProperties
        <3> QED BY <3>1, <3>2 DEF DemoInv, FrameIsOfATick
    <2> QED BY <2>1, <2>2 DEF DemoTypeOK, DemoInv
<1> QED BY <1>1, <1>2, TypeCorrect, DemoInvariant, PTL

\* What is judged of four rows: a pool, its mirror, and the mirror's two disks.
FourRows ==
    /\ DOMAIN frame.states = 1 .. 4 /\ frame.states # <<>>
    /\ \A r \in 1 .. 4 : frame.states[r] \in H!States

Below(v) == IF v = 1 THEN {2} ELSE IF v = 2 THEN {3, 4} ELSE {}

LEMMA FourRowsAre ==
    ASSUME FourRows
    PROVE  /\ DOMAIN Rows = 1 .. 4 /\ \A r \in 1 .. 4 : Rows[r].state = frame.states[r]
           /\ \A v \in 1 .. 4 : H!Children(v) = Below(v)
           /\ \A v \in 1 .. 4 : Children[v] = <<>> <=> v \in {3, 4}
<1>1. DOMAIN Rows = 1 .. 4 /\ \A r \in 1 .. 4 : Rows[r].state = frame.states[r]
    BY DEF FourRows, Rows
<1>2. Children = << <<2>>, <<3, 4>>, <<>>, <<>> >>
    BY DEF FourRows, Drawn, Children
<1>3. /\ Children[1] = <<2>> /\ Children[2] = <<3, 4>>
      /\ Children[3] = <<>> /\ Children[4] = <<>>
    BY <1>2
<1>4. /\ H!Range(<<2>>) = {2} /\ H!Range(<<3, 4>>) = {3, 4} /\ H!Range(<<>>) = {}
    BY DEF H!Range
<1>5. ASSUME NEW v \in 1 .. 4
      PROVE  /\ H!Children(v) = Below(v)
             /\ Children[v] = <<>> <=> v \in {3, 4}
    <2>1. v = 1 \/ v = 2 \/ v = 3 \/ v = 4
        OBVIOUS
    <2>2. H!Children(v) = H!Range(Children[v])
        BY DEF H!Children
    <2>3. <<2>> # <<>> /\ <<3, 4>> # <<>>
        OBVIOUS
    <2> QED BY <1>3, <1>4, <2>1, <2>2, <2>3 DEF Below
<1> QED BY <1>1, <1>5

\* The walk hands the worst grade up, row by row.
LEMMA FourRowsHealth ==
    ASSUME FourRows
    PROVE  \E h :
              /\ \A v \in 1 .. 4 :
                    h[v] = H!Worst({H!Grade(frame.states[v])} \cup {h[c] : c \in Below(v)})
              /\ H!TreeHealth = h[1]
<1> DEFINE own(v) == {H!Grade(frame.states[v])}
           value(v, f) == H!Worst(own(v) \cup {f[c] : c \in Below(v)})
           walked(f) == f = [v \in 1 .. 4 |-> value(v, f)]
           h4 == H!Worst(own(4))
           h3 == H!Worst(own(3))
           h2 == H!Worst(own(2) \cup {h3, h4})
           h1 == H!Worst(own(1) \cup {h2})
           f == [v \in 1 .. 4 |-> IF v = 1 THEN h1 ELSE IF v = 2 THEN h2
                                 ELSE IF v = 3 THEN h3 ELSE h4]
           health == CHOOSE g : walked(g)
<1>1. walked(f)
    <2> HIDE DEF h1, h2, h3, h4
    <2>1. f[1] = h1 /\ f[2] = h2 /\ f[3] = h3 /\ f[4] = h4
        OBVIOUS
    <2>2. \A v \in 1 .. 4 : f[v] = value(v, f)
        <3> HIDE DEF f
        <3>1. /\ {f[c] : c \in Below(1)} = {h2} /\ {f[c] : c \in Below(2)} = {h3, h4}
              /\ {f[c] : c \in Below(3)} = {} /\ {f[c] : c \in Below(4)} = {}
            BY <2>1 DEF Below
        <3> HIDE DEF own
        <3>2. /\ value(1, f) = h1 /\ value(2, f) = h2 /\ value(3, f) = h3 /\ value(4, f) = h4
            BY <3>1 DEF h1, h2, h3, h4
        <3> HIDE DEF value
        <3> QED BY <2>1, <3>2
    <2> HIDE DEF value
    <2> QED BY <2>2
<1>2. walked(health)
    <2> HIDE DEF walked, f
    <2> QED BY <1>1
<1>3. \A v \in 1 .. 4 : health[v] = value(v, health)
    <2> HIDE DEF health, value
    <2> QED BY <1>2
<1>4. H!TreeHealth = health[1]
    <2>1. \A v \in 1 .. 4 : \A g :
              value(v, g) = H!Worst({H!Grade(Rows[v].state)} \cup {g[c] : c \in H!Children(v)})
        BY FourRowsAre
    <2>2. DOMAIN Rows = 1 .. 4
        BY FourRowsAre
    <2>3. \A g : walked(g) <=> g = [v \in DOMAIN Rows |->
              H!Worst({H!Grade(Rows[v].state)} \cup {g[c] : c \in H!Children(v)})]
        <3> HIDE DEF value
        <3> QED BY <2>1, <2>2
    <2>4. (CHOOSE g : walked(g)) = (CHOOSE g : g = [v \in DOMAIN Rows |->
              H!Worst({H!Grade(Rows[v].state)} \cup {g[c] : c \in H!Children(v)})])
        <3> HIDE DEF walked
        <3> QED BY <2>3, Zenon
    <2> QED BY <2>4 DEF H!TreeHealth, H!Root
<1> HIDE DEF health
<1> QED BY <1>3, <1>4

\* They are a tree of Induction.
Disks == [v \in 1 .. 4 |-> Below(v)]

LEMMA FourRowsAreATree == IsTree(4, Disks)
<1>1. ASSUME NEW v \in 1 .. 4
      PROVE  Disks[v] \in SUBSET (1 .. 4) /\ Disks[v] \subseteq v + 1 .. 4
    BY DEF Disks, Below
<1>2. ASSUME NEW r \in 2 .. 4 PROVE \E p \in 1 .. 4 : r \in Disks[p]
    <2>1. Disks[1] = {2} /\ Disks[2] = {3, 4}
        BY DEF Disks, Below
    <2> QED BY <2>1
<1>3. Disks \in [1 .. 4 -> SUBSET (1 .. 4)]
    BY <1>1 DEF Disks
<1> QED BY <1>1, <1>2, <1>3 DEF IsTree

\* The searches find what any row is.
LEMMA FourRowsFaulted ==
    ASSUME FourRows
    PROVE  H!HasFaulted <=> \E v \in 1 .. 4 : frame.states[v] = "faulted"
<1> DEFINE own == {v \in 1 .. 4 : frame.states[v] = "faulted"}
           walked(f) == f = [v \in 1 .. 4 |->
                                \/ Rows[v].state = "faulted"
                                \/ \E c \in H!Children(v) : f[c]]
           found == CHOOSE f : walked(f)
<1>1. ASSUME NEW f PROVE walked(f) <=> Finds(4, Disks, own, f)
    <2>1. \A v \in 1 .. 4 : v \in own <=> Rows[v].state = "faulted"
        BY FourRowsAre
    <2>2. \A v \in 1 .. 4 : H!Children(v) = Disks[v]
        BY FourRowsAre DEF Disks
    <2> DEFINE here(v) == v \in own \/ \E c \in Disks[v] : f[c]
               there(v) == \/ Rows[v].state = "faulted"
                           \/ \E c \in H!Children(v) : f[c]
    <2>3. ASSUME NEW v \in 1 .. 4 PROVE here(v) = there(v)
        <3>1. here(v) <=> there(v)
            <4>1. (\E c \in Disks[v] : f[c]) <=> \E c \in H!Children(v) : f[c]
                BY <2>2
            <4> HIDE DEF own
            <4> QED BY <2>1, <4>1
        <3> HIDE DEF own
        <3> QED BY <3>1
    <2>4. (f = [v \in 1 .. 4 |-> here(v)]) <=> (f = [v \in 1 .. 4 |-> there(v)])
        <3> HIDE DEF here, there
        <3> QED BY <2>3
    <2> HIDE DEF own
    <2> QED BY <2>4 DEF Finds
<1>2. found[1] <=> own # {}
    <2>1. own \in SUBSET (1 .. 4)
        OBVIOUS
    <2> HIDE DEF own, walked
    <2>2. walked(found)
        BY <1>1, <2>1, FourRowsAreATree, Finding
    <2> HIDE DEF found
    <2> QED BY <1>1, <2>1, <2>2, FourRowsAreATree, Finding
<1>3. H!HasFaulted <=> found[1]
    <2>1. DOMAIN Rows = 1 .. 4
        BY FourRowsAre
    <2> QED BY <2>1 DEF H!HasFaulted, H!Root
<1> HIDE DEF found
<1> QED BY <1>2, <1>3

LEMMA FourRowsRecoverable ==
    ASSUME FourRows
    PROVE  H!HasRecoverableLeaf <=>
              \/ \E v \in 1 .. 4 : frame.states[v] = "unavail"
              \/ \E v \in 3 .. 4 : frame.states[v] = "degraded"
<1> DEFINE own == {v \in 1 .. 4 : \/ frame.states[v] = "unavail"
                                  \/ v \in {3, 4} /\ frame.states[v] = "degraded"}
           walked(f) == f = [v \in 1 .. 4 |->
                                \/ Rows[v].state = "unavail"
                                \/ Children[v] = <<>> /\ Rows[v].state = "degraded"
                                \/ \E c \in H!Children(v) : f[c]]
           found == CHOOSE f : walked(f)
<1>1. ASSUME NEW f PROVE walked(f) <=> Finds(4, Disks, own, f)
    <2>1. ASSUME NEW v \in 1 .. 4
          PROVE  v \in own <=> (\/ Rows[v].state = "unavail"
                                \/ Children[v] = <<>> /\ Rows[v].state = "degraded")
        BY FourRowsAre
    <2>2. \A v \in 1 .. 4 : H!Children(v) = Disks[v]
        BY FourRowsAre DEF Disks
    <2> DEFINE here(v) == v \in own \/ \E c \in Disks[v] : f[c]
               there(v) == \/ Rows[v].state = "unavail"
                           \/ Children[v] = <<>> /\ Rows[v].state = "degraded"
                           \/ \E c \in H!Children(v) : f[c]
    <2>3. ASSUME NEW v \in 1 .. 4 PROVE here(v) = there(v)
        <3>1. here(v) <=> there(v)
            <4>1. (\E c \in Disks[v] : f[c]) <=> \E c \in H!Children(v) : f[c]
                BY <2>2
            <4> HIDE DEF own
            <4> QED BY <2>1, <4>1
        <3> HIDE DEF own
        <3> QED BY <3>1
    <2>4. (f = [v \in 1 .. 4 |-> here(v)]) <=> (f = [v \in 1 .. 4 |-> there(v)])
        <3> HIDE DEF here, there
        <3> QED BY <2>3
    <2> HIDE DEF own
    <2> QED BY <2>4 DEF Finds
<1>2. found[1] <=> own # {}
    <2>1. own \in SUBSET (1 .. 4)
        OBVIOUS
    <2> HIDE DEF own, walked
    <2>2. walked(found)
        BY <1>1, <2>1, FourRowsAreATree, Finding
    <2> HIDE DEF found
    <2> QED BY <1>1, <2>1, <2>2, FourRowsAreATree, Finding
<1>3. H!HasRecoverableLeaf <=> found[1]
    <2>1. DOMAIN Rows = 1 .. 4
        BY FourRowsAre
    <2> QED BY <2>1 DEF H!HasRecoverableLeaf, H!Root
<1>4. own # {} <=> (\/ \E v \in 1 .. 4 : frame.states[v] = "unavail"
                    \/ \E v \in 3 .. 4 : frame.states[v] = "degraded")
    <2>1. \A v \in 3 .. 4 : v \in 1 .. 4 /\ v \in {3, 4}
        OBVIOUS
    <2>2. \A v \in own : v \in 1 .. 4 /\ (frame.states[v] = "unavail" \/ v \in 3 .. 4)
        OBVIOUS
    <2>3. \A v \in own : frame.states[v] = "unavail" \/ frame.states[v] = "degraded"
        OBVIOUS
    <2>4. \A v \in 1 .. 4 : frame.states[v] = "unavail" => v \in own
        BY Zenon
    <2>5. \A v \in 3 .. 4 : frame.states[v] = "degraded" => v \in own
        BY <2>1
    <2> HIDE DEF own
    <2> QED BY <2>2, <2>3, <2>4, <2>5
<1> HIDE DEF found
<1> QED BY <1>2, <1>3, <1>4

\* What is drawn of each scenario.
LEMMA DrawnFrames ==
    ASSUME DemoInv, Drawn
    PROVE  /\ FourRows /\ scenario \in Scenarios
           /\ frame.scan \in {"none", "scanning", "finished"}
           /\ frame.errors \in Nat
           /\ scenario # "errors" => frame.errors = 0
           /\ scenario = "fault" =>
                 /\ frame.scan = "none"
                 /\ frame.states = <<"degraded", "degraded", "online", "faulted">>
           /\ scenario # "fault" =>
                 /\ frame.scan # "none"
                 /\ frame.states = IF frame.errors > 0
                                   THEN <<"degraded", "online", "online", "online">>
                                   ELSE <<"online", "online", "online", "online">>
<1>1. tick >= 2 /\ frame = Sample(scenario, Limited(tick - 1)) /\ scenario \in Scenarios
    BY DEF DemoInv, FrameIsOfATick, Drawn, NoFrame
<1>2. PICK t \in Nat : t = Limited(tick - 1)
    <2>1. tick - 1 \in Nat
        BY <1>1, TicksAssumption DEF DemoInv
    <2> QED BY <2>1, TicksAssumption DEF Limited
<1>3. Errors(scenario, t) \in Nat /\ (scenario # "errors" => Errors(scenario, t) = 0)
    BY <1>2, TicksAssumption DEF Errors
<1>4. <<"degraded">> \o Tail(Healthy) = <<"degraded", "online", "online", "online">>
    <2> DEFINE S == {"degraded", "online"}
               first == <<"degraded">>
               rest == <<"online", "online", "online">>
               all == <<"degraded", "online", "online", "online">>
    <2>1. Tail(Healthy) = rest
        BY DEF Healthy
    <2>2. /\ first \in Seq(S) /\ Len(first) = 1 /\ first[1] = "degraded"
          /\ rest \in Seq(S) /\ Len(rest) = 3
          /\ rest[1] = "online" /\ rest[2] = "online" /\ rest[3] = "online"
          /\ all \in Seq(S) /\ Len(all) = 4
          /\ all[1] = "degraded" /\ all[2] = "online" /\ all[3] = "online" /\ all[4] = "online"
        <3>1. first \in Seq(S) /\ Len(first) = 1 /\ first[1] = "degraded"
            OBVIOUS
        <3>2. /\ rest \in Seq(S) /\ Len(rest) = 3
              /\ rest[1] = "online" /\ rest[2] = "online" /\ rest[3] = "online"
            OBVIOUS
        <3>3. all \in Seq(S) /\ Len(all) = 4
            OBVIOUS
        <3>4. all[1] = "degraded" /\ all[2] = "online" /\ all[3] = "online" /\ all[4] = "online"
            OBVIOUS
        <3> HIDE DEF first, rest, all
        <3> QED BY <3>1, <3>2, <3>3, <3>4
    <2> HIDE DEF S, first, rest, all
    <2>3. /\ first \o rest \in Seq(S) /\ Len(first \o rest) = 4
          /\ \A i \in 1 .. 4 : (first \o rest)[i] = IF i <= 1 THEN first[i] ELSE rest[i - 1]
        <3>1. /\ first \o rest \in Seq(S) /\ Len(first \o rest) = Len(first) + Len(rest)
              /\ \A i \in 1 .. Len(first) + Len(rest) : (first \o rest)[i] =
                    IF i <= Len(first) THEN first[i] ELSE rest[i - Len(first)]
            <4>1. first \in Seq(S) /\ rest \in Seq(S)
                BY <2>2
            <4> QED BY <4>1, ConcatProperties
        <3> QED BY <2>2, <3>1
    <2>4. \A i \in 1 .. 4 : (first \o rest)[i] = all[i]
        BY <2>2, <2>3
    <2>5. first \o rest = all
        BY <2>2, <2>3, <2>4, SeqEqual
    <2> QED BY <2>1, <2>5 DEF first, all
<1>5. /\ frame.scan \in {"none", "scanning", "finished"} /\ frame.errors \in Nat
      /\ scenario # "errors" => frame.errors = 0
      /\ scenario = "fault" =>
            /\ frame.scan = "none"
            /\ frame.states = <<"degraded", "degraded", "online", "faulted">>
      /\ scenario # "fault" =>
            /\ frame.scan # "none"
            /\ frame.states = IF frame.errors > 0
                              THEN <<"degraded", "online", "online", "online">>
                              ELSE <<"online", "online", "online", "online">>
    <2>1. CASE scenario \in {"scanning", "errors"}
        <3>1. frame = ScanFrame(scenario, t)
            BY <1>1, <1>2, <2>1 DEF Sample
        <3>2. /\ frame.scan \in {"scanning", "finished"} /\ frame.errors = Errors(scenario, t)
              /\ frame.states = IF Errors(scenario, t) > 0
                                THEN <<"degraded">> \o Tail(Healthy) ELSE Healthy
            BY <3>1 DEF ScanFrame
        <3> QED BY <1>3, <1>4, <2>1, <3>2 DEF Healthy
    <2>2. CASE scenario = "done"
        <3>1. frame = [scan |-> "finished", examined |-> Ticks, errors |-> 0,
                       states |-> Healthy, target |-> FALSE]
            BY <1>1, <2>2 DEF Sample, NoFrame
        <3> QED BY <2>2, <3>1 DEF Healthy
    <2>3. CASE scenario = "fault"
        <3>1. frame = [scan |-> "none", examined |-> 0, errors |-> 0, target |-> FALSE,
                       states |-> <<"degraded", "degraded", "online", "faulted">>]
            BY <1>1, <2>3 DEF Sample, NoFrame
        <3> QED BY <2>3, <3>1
    <2> QED BY <1>1, <2>1, <2>2, <2>3 DEF Scenarios
<1>6. FourRows
    <2>1. \/ frame.states = <<"degraded", "degraded", "online", "faulted">>
          \/ frame.states = <<"degraded", "online", "online", "online">>
          \/ frame.states = <<"online", "online", "online", "online">>
        BY <1>1, <1>5
    <2>2. DOMAIN frame.states = 1 .. 4 /\ frame.states # <<>>
        <3>1. DOMAIN frame.states = 1 .. 4 /\ Len(frame.states) = 4
            BY <2>1
        <3> QED BY <3>1
    <2>3. \A r \in 1 .. 4 : frame.states[r] \in H!States
        BY <2>1 DEF H!States
    <2> QED BY <2>2, <2>3 DEF FourRows
<1> QED BY <1>1, <1>5, <1>6

\* How four rows are judged.
LEMMA FourRowsJudged ==
    ASSUME FourRows
    PROVE  /\ (\E r \in 1 .. 4 : frame.states[r] = "faulted") => H!TreeHealth = "fault"
           /\ (\A r \in 1 .. 4 : frame.states[r] = "online") => H!TreeHealth = "healthy"
           /\ (/\ frame.states[1] = "degraded"
               /\ \A r \in 2 .. 4 : frame.states[r] = "online") => H!TreeHealth = "degraded"
<1>1. PICK h :
          /\ \A v \in 1 .. 4 :
                h[v] = H!Worst({H!Grade(frame.states[v])} \cup {h[c] : c \in Below(v)})
          /\ H!TreeHealth = h[1]
    BY FourRowsHealth
<1> DEFINE g(v) == H!Grade(frame.states[v])
<1>2. /\ h[4] = H!Worst({g(4)}) /\ h[3] = H!Worst({g(3)})
      /\ h[2] = H!Worst({g(2), h[3], h[4]}) /\ h[1] = H!Worst({g(1), h[2]})
    <2>1. /\ {h[c] : c \in Below(1)} = {h[2]} /\ {h[c] : c \in Below(2)} = {h[3], h[4]}
          /\ {h[c] : c \in Below(3)} = {} /\ {h[c] : c \in Below(4)} = {}
        BY DEF Below
    <2>2. \A v \in 1 .. 4 : h[v] = H!Worst({g(v)} \cup {h[c] : c \in Below(v)})
        BY <1>1
    <2> HIDE DEF g
    <2>3. /\ h[4] = H!Worst({g(4)} \cup {}) /\ h[3] = H!Worst({g(3)} \cup {})
          /\ h[2] = H!Worst({g(2)} \cup {h[3], h[4]}) /\ h[1] = H!Worst({g(1)} \cup {h[2]})
        <3>1. 1 \in 1 .. 4 /\ 2 \in 1 .. 4 /\ 3 \in 1 .. 4 /\ 4 \in 1 .. 4
            OBVIOUS
        <3>2. /\ h[4] = H!Worst({g(4)} \cup {h[c] : c \in Below(4)})
              /\ h[3] = H!Worst({g(3)} \cup {h[c] : c \in Below(3)})
              /\ h[2] = H!Worst({g(2)} \cup {h[c] : c \in Below(2)})
              /\ h[1] = H!Worst({g(1)} \cup {h[c] : c \in Below(1)})
            BY <2>2, <3>1, Zenon
        <3> QED BY <2>1, <3>2, Zenon
    <2>4. /\ {g(4)} \cup {} = {g(4)} /\ {g(3)} \cup {} = {g(3)}
          /\ {g(2)} \cup {h[3], h[4]} = {g(2), h[3], h[4]} /\ {g(1)} \cup {h[2]} = {g(1), h[2]}
        OBVIOUS
    <2> QED BY <2>3, <2>4
<1>3. ASSUME NEW v \in 1 .. 4
      PROVE  /\ frame.states[v] = "online" => g(v) = "healthy"
             /\ frame.states[v] = "degraded" => g(v) = "degraded"
             /\ frame.states[v] = "faulted" => g(v) = "fault"
    BY DEF H!Grade, H!TabSeverity
<1> HIDE DEF g
<1>4. ASSUME \E r \in 1 .. 4 : frame.states[r] = "faulted" PROVE h[1] = "fault"
    <2>1. g(1) = "fault" \/ g(2) = "fault" \/ g(3) = "fault" \/ g(4) = "fault"
        BY <1>3, <1>4
    <2> QED BY <1>2, <2>1 DEF H!Worst
<1>5. ASSUME \A r \in 1 .. 4 : frame.states[r] = "online" PROVE h[1] = "healthy"
    BY <1>2, <1>3, <1>5 DEF H!Worst
<1>6. ASSUME frame.states[1] = "degraded", \A r \in 2 .. 4 : frame.states[r] = "online"
      PROVE  h[1] = "degraded"
    <2>1. g(1) = "degraded" /\ g(2) = "healthy" /\ g(3) = "healthy" /\ g(4) = "healthy"
        BY <1>3, <1>6
    <2>2. h[2] = "healthy"
        BY <1>2, <2>1 DEF H!Worst
    <2> QED BY <1>2, <2>1, <2>2 DEF H!Worst
<1> QED BY <1>1, <1>4, <1>5, <1>6

\* Every frame of every scenario is judged as what the scenario is for.
THEOREM ReplayIsJudged == DemoSpec => []DemoIsJudged
<1>1. DemoInv => DemoIsJudged
    <2> SUFFICES ASSUME DemoInv, Drawn PROVE DemoIsJudged
        BY DEF DemoIsJudged
    <2>1. /\ FourRows /\ scenario \in Scenarios
          /\ frame.scan \in {"none", "scanning", "finished"}
          /\ frame.errors \in Nat
          /\ scenario # "errors" => frame.errors = 0
          /\ scenario = "fault" =>
                /\ frame.scan = "none"
                /\ frame.states = <<"degraded", "degraded", "online", "faulted">>
          /\ scenario # "fault" =>
                /\ frame.scan # "none"
                /\ frame.states = IF frame.errors > 0
                                  THEN <<"degraded", "online", "online", "online">>
                                  ELSE <<"online", "online", "online", "online">>
        BY DrawnFrames
    <2>2. CASE scenario = "fault"
        <3>1. frame.states[4] = "faulted"
            BY <2>1, <2>2
        <3>2. H!TreeHealth = "fault"
            BY <2>1, <3>1, FourRowsJudged
        <3>3. H!HeaderBadge(ScanOfFrame) = "none"
            BY <2>1, <2>2 DEF ScanOfFrame, H!HeaderBadge
        <3> QED BY <2>2, <3>2, <3>3 DEF DemoIsJudged
    <2>3. CASE scenario # "fault"
        <3>1. /\ frame.states[1] = IF frame.errors > 0 THEN "degraded" ELSE "online"
              /\ \A r \in 2 .. 4 : frame.states[r] = "online"
            BY <2>1, <2>3
        <3>2. H!TreeHealth = IF frame.errors > 0 THEN "degraded" ELSE "healthy"
            <4>1. frame.errors = 0 => \A r \in 1 .. 4 : frame.states[r] = "online"
                BY <3>1
            <4> QED BY <2>1, <3>1, <4>1, FourRowsJudged
        <3>3. ~H!HasRecoverableLeaf /\ ~H!HasFaulted
            <4>1. \A r \in 1 .. 4 : frame.states[r] \in {"online", "degraded"}
                BY <3>1
            <4>2. \A r \in 3 .. 4 : frame.states[r] = "online"
                BY <3>1
            <4> QED BY <2>1, <4>1, <4>2, FourRowsRecoverable, FourRowsFaulted
        <3>4. /\ ScanOfFrame = [state |-> frame.scan, errors |-> frame.errors]
              /\ ScanOfFrame # H!NoScan
            BY <2>1, <2>3 DEF ScanOfFrame, H!NoScan
        <3>5. H!RetryNeeded(ScanOfFrame) <=> (frame.errors > 0 /\ frame.scan # "finished")
            BY <3>3, <3>4 DEF H!RetryNeeded
        <3>6. H!HeaderBadge(ScanOfFrame) =
                  IF frame.errors > 0 /\ frame.scan # "finished" THEN "RETRY" ELSE "none"
            BY <3>3, <3>4, <3>5 DEF H!HeaderBadge, H!RetryBadge
        <3> QED BY <2>1, <2>3, <3>2, <3>6 DEF DemoIsJudged
    <2> QED BY <2>2, <2>3
<1> QED BY <1>1, DemoInvariant, PTL
================================================================================
