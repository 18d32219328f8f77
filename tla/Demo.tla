---------------------------------- MODULE Demo ----------------------------------
(****************************************************************************)
(* Sessions with --demo: DemoSource (src/app.rs) replays a scenario of      *)
(* src/demo.rs tick by tick, and the loop of run_tui draws it.  The counter *)
(* is advanced by every sample, whoever asks for it; the loop asks twice a  *)
(* turn, once to list the pools and once to sample the one listed.          *)
(*                                                                          *)
(* Session is what main does around the loop; Health judges the tree.       *)
(****************************************************************************)
EXTENDS Session, Sequences, SequencesExt

CONSTANTS
    Ticks,        \* the scan takes so many ticks
    FirstError,   \* the tick of the first error of the errors scenario
    WindowCap,    \* the 100 of run_tui's window
    MaxTick       \* bound on the counter

ASSUME TicksAssumption ==
    /\ Ticks \in Nat \ {0} /\ FirstError \in 1 .. Ticks - 1
    /\ WindowCap \in Nat \ {0} /\ MaxTick \in Nat

Scenarios == {"scanning", "done", "errors", "fault"}

VARIABLES
    scenario,
    late,         \* is the clock past the time stamps of the demo?
    tick,         \* of DemoSource
    window,       \* `ereports' of run_tui
    frame         \* what the last frame shows

demo == <<scenario, late, tick, window, frame>>
demoVars == <<vars, demo>>

NoFrame == [scan |-> "none", examined |-> 0, errors |-> 0,
            states |-> <<>>, target |-> FALSE]

DemoInit ==
    /\ Init
    /\ scenario \in Scenarios /\ late \in BOOLEAN
    /\ tick = 0 /\ window = <<>> /\ frame = NoFrame

\* How many errors a tick has seen, up to the seven of each in the code.
Errors(sc, t) == IF sc = "errors" /\ t >= FirstError THEN t - FirstError + 1 ELSE 0

\* The states are those of the pool, its mirror, and the two disks.
Healthy == <<"online", "online", "online", "online">>

\* A mutant: the disk that is being replaced is drawn as one that is missing.
ScanFrameDegraded(sc, t) ==
    [scan |-> IF t >= Ticks THEN "finished" ELSE "scanning",
     examined |-> t,
     errors |-> Errors(sc, t),
     states |-> IF t < Ticks THEN <<"degraded", "degraded", "online", "degraded">>
                             ELSE Healthy,
     target |-> t < Ticks]

ScanFrame(sc, t) ==
    [scan |-> IF t >= Ticks THEN "finished" ELSE "scanning",
     examined |-> t,
     errors |-> Errors(sc, t),
     states |-> IF Errors(sc, t) > 0 THEN <<"degraded">> \o Tail(Healthy) ELSE Healthy,
     target |-> t < Ticks]

\* demo::sample for a tick that DemoSource has limited.
Sample(sc, t) ==
    CASE sc \in {"scanning", "errors"} -> ScanFrame(sc, t)
      [] sc = "done" ->
            [NoFrame EXCEPT !.scan = "finished", !.examined = Ticks, !.states = Healthy]
      [] sc = "fault" ->
            [NoFrame EXCEPT !.states = <<"degraded", "degraded", "online", "faulted">>]

\* A mutant: the replay stops before its end.
LimitedShort(t) == IF t < Ticks THEN t ELSE Ticks - 1

Limited(t) == IF t < Ticks THEN t ELSE Ticks

\* demo::ereports: all of them so far, as if they had just happened.
Reports(sc, t) == [i \in 1 .. Errors(sc, t) |-> t]

Newest(s) == IF Len(s) <= WindowCap THEN s ELSE SubSeq(s, Len(s) - WindowCap + 1, Len(s))

\* Mutants of Poll: the sample's tick is not limited, ...
PollUnlimited ==
    /\ pc = "loop" /\ source = "demo" /\ tick + 2 <= MaxTick
    /\ tick' = tick + 2
    /\ frame' = Sample(scenario, tick + 1)
    /\ window' = IF late THEN <<>> ELSE Newest(window \o Reports(scenario, tick + 1))
    /\ UNCHANGED <<vars, scenario, late>>
\* ... the ereports are those of the next tick.
PollAhead ==
    /\ pc = "loop" /\ source = "demo" /\ tick + 2 <= MaxTick
    /\ tick' = tick + 2
    /\ frame' = Sample(scenario, Limited(tick + 1))
    /\ window' = IF late THEN <<>> ELSE Newest(window \o Reports(scenario, tick + 2))
    /\ UNCHANGED <<vars, scenario, late>>

\* One turn of the loop: the list of pools is a sample whose tick is lost.  All
\* ereports have the age of the demo, not of the session.
Poll ==
    /\ pc = "loop" /\ source = "demo" /\ tick + 2 <= MaxTick
    /\ tick' = tick + 2
    /\ frame' = Sample(scenario, Limited(tick + 1))
    /\ window' = IF late THEN <<>> ELSE Newest(window \o Reports(scenario, tick + 1))
    /\ UNCHANGED <<vars, scenario, late>>

\* Everything else that main and the world do.
SessionStep == Next /\ UNCHANGED demo

DemoNext == Poll \/ SessionStep

\* The loop turns at least once every interval.
DemoSpec == DemoInit /\ [][DemoNext]_demoVars /\ WF_demoVars(Poll)

--------------------------------------------------------------------------------
(* Properties.                                                              *)

\* The frame's pool as the rows of a text: pool, mirror, two disks.
Drawn == frame.states # <<>>
Rows == [r \in DOMAIN frame.states |->
            [indent |-> IF r < 3 THEN r - 1 ELSE 2, state |-> frame.states[r]]]
Children == IF Drawn THEN << <<2>>, <<3, 4>>, <<>>, <<>> >> ELSE <<>>

H == INSTANCE Health WITH
        Indents <- 0 .. 2, MaxRows <- 4, rows <- Rows, children <- Children,
        nodes <- <<>>, pc <- "done"

ScanOfFrame ==
    IF frame.scan = "none" THEN H!NoScan
    ELSE [state |-> frame.scan, errors |-> frame.errors]

\* The window stays within its cap although every turn adds all ereports so far,
\* and no frame shows more examined than there is, however long the replay runs.
DemoTypeOK ==
    /\ TypeOK
    /\ scenario \in Scenarios /\ late \in BOOLEAN
    /\ tick \in 0 .. MaxTick
    /\ Len(window) <= WindowCap /\ Range(window) \subseteq 1 .. MaxTick
    /\ frame.examined \in 0 .. Ticks

\* A scan of the demo is over when it is over: whatever is polled later, the
\* frame stays as it is.  (The error map beside it does not: MapIsOfTheTick.)
FinishedStays == [][frame.scan = "finished" => frame' = frame]_demoVars

\* Each scenario is judged as what it is for, in every frame: only unfinished
\* errors ask for a retry; a running rebuild and a clean end raise nothing; the
\* fault marks the tab and asks for nothing, for want of a scan.
DemoIsJudged ==
    Drawn =>
        /\ H!HeaderBadge(ScanOfFrame) =
              IF scenario = "errors" /\ frame.scan = "scanning" /\ frame.errors > 0
              THEN "RETRY" ELSE "none"
        /\ H!TreeHealth =
              CASE scenario = "fault" -> "fault"
                [] scenario = "errors" /\ frame.errors > 0 -> "degraded"
                [] OTHER -> "healthy"

\* The ereports of the error map are of the tick of which the frame's sample is,
\* although the counter was advanced twice in between: while the scan runs the
\* newest has the age of the scan above it.  Only the sample is limited: when the
\* scan is finished the frame stands still and the map goes on, its newest ereport
\* is later than anything the frame shows.  Once the clock is past the age of the
\* demo the map has none.
MapIsOfTheTick ==
    /\ window # <<>> => Last(window) = tick - 1 /\ frame.examined = Limited(tick - 1)
    /\ frame.errors = 0 \/ late => window = <<>>
    /\ frame.errors > 0 /\ ~late => window # <<>>

\* Every scan of the demo comes to its end, as long as the loop runs.
DemoEnds ==
    (pc = "loop" /\ source = "demo" /\ scenario # "fault")
        ~> (frame.scan = "finished" \/ pc # "loop")
================================================================================
