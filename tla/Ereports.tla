-------------------------------- MODULE Ereports --------------------------------
(****************************************************************************)
(* The way of an ereport from the kernel to the error surface map: the      *)
(* child `zpool events -fv' copies the kernel's events to a pipe, the       *)
(* reader thread of EventFollower parses them into a ring buffer            *)
(* (src/collect/events.rs), and every tick of run_tui drains the buffer     *)
(* into the window the map is drawn from (src/app.rs).                      *)
(*                                                                          *)
(* The child, the reader thread and the render loop run concurrently; the   *)
(* buffer's mutex makes a push and a drain atomic.  One block of the pipe   *)
(* is one event: its lines are read one by one, but only the blank line     *)
(* that ends the block does anything the other threads can see.             *)
(****************************************************************************)
EXTENDS Integers, Sequences, FiniteSets

CONSTANTS
    Fields,        \* payload rows an ereport keeps (vdev_path, io_offset ...)
    Kinds,         \* blocks the kernel may post: class and rows present
    BufferCap,     \* BUFFER_CAP of the ring buffer
    WindowCap,     \* the 100 of run_tui's window
    Window,        \* ERROR_WINDOW_SECS, in units of the clock
    Replayed,      \* events already in the kernel's queue at start, at most
    MaxEvents,     \* bound on the events posted
    MaxTime        \* bound on the clock

\* The classes flush tells apart; a `none' block has no class row, a `garbled'
\* one has a line that is not UTF-8.
Classes == {"io", "checksum", "other", "none", "garbled"}
Kept == {"io", "checksum"}

ASSUME KindsAssumption ==
    Kinds \subseteq [class : Classes, rows : SUBSET Fields]
ASSUME BoundsAssumption ==
    /\ BufferCap \in Nat \ {0} /\ WindowCap \in Nat \ {0}
    /\ WindowCap <= BufferCap
    /\ Window \in Nat /\ MaxEvents \in Nat /\ Replayed \in 0..MaxEvents /\ MaxTime \in Nat

VARIABLES
    now,           \* the wall clock
    log,           \* the kernel's events, each with the time it happened
    child,         \* the zpool process: running, dead (not yet waited for) ...
    written,       \* how many events it has copied to the pipe
    pipe,          \* events written and not yet read, as positions in log
    reader,        \* the reader thread
    pending,       \* the parser: per field, the block its row came from, or 0
    buffer,        \* the ring buffer of EventFollower
    window,        \* `ereports' of run_tui
    ui,            \* run_tui: between ticks, in a tick, or over
    screen,        \* the ereports of the frame last drawn
    read,          \* history: every ereport pushed
    taken          \* history: how many of them had been pushed at the drain

kernel == <<now, log>>
follower == <<child, written, pipe, reader, pending>>
vars == <<kernel, follower, buffer, window, ui, screen, read, taken>>

Blocks == 1..MaxEvents
Reports == [id : Blocks, from : [Fields -> 0..MaxEvents], ts : 0..MaxTime]

--------------------------------------------------------------------------------
(* The kernel and the clock.                                                *)

\* The queue may hold events from before zresmon started.
Init ==
    /\ now \in 0..MaxTime
    /\ \E n \in 0..Replayed :
         log \in [1..n -> {[kind |-> k, at |-> 0] : k \in Kinds}]
    /\ child = "running" /\ written = 0 /\ pipe = <<>>
    /\ reader = "reading" /\ pending = [f \in Fields |-> 0]
    /\ buffer = <<>> /\ window = <<>>
    /\ ui = "idle" /\ screen = <<>>
    /\ read = <<>> /\ taken = 0

Pass ==
    /\ now < MaxTime
    /\ now' = now + 1
    /\ UNCHANGED <<log, follower, buffer, window, ui, screen, read, taken>>

Post ==
    /\ Len(log) < MaxEvents
    /\ \E k \in Kinds : log' = Append(log, [kind |-> k, at |-> now])
    /\ UNCHANGED <<now, follower, buffer, window, ui, screen, read, taken>>

--------------------------------------------------------------------------------
(* The child.                                                               *)

\* `zpool events -f' copies the queue from its start, then what is posted.  A
\* pipe nobody reads any more kills it.
ChildWrites ==
    /\ child = "running" /\ written < Len(log)
    /\ IF reader = "reading"
       THEN /\ written' = written + 1
            /\ pipe' = Append(pipe, written + 1)
            /\ UNCHANGED child
       ELSE child' = "dead" /\ UNCHANGED <<written, pipe>>
    /\ UNCHANGED <<kernel, reader, pending, buffer, window, ui, screen, read, taken>>

ChildDies ==
    /\ child = "running"
    /\ child' = "dead"
    /\ UNCHANGED <<kernel, written, pipe, reader, pending, buffer, window, ui,
                   screen, read, taken>>

--------------------------------------------------------------------------------
(* The reader thread.                                                       *)

\* The fields the parser holds at the blank line that ends block e: its own
\* rows, and what earlier blocks have left.
Fed(e) == [f \in Fields |-> IF f \in log[e].kind.rows THEN e ELSE pending[f]]

\* flush: only a kept class takes the fields out of the parser, and the time is
\* that of the parsing.
Report(e) == [id |-> e, from |-> Fed(e), ts |-> now]

\* Mutants of Push: the buffer grows; ... a full one keeps what it has.
PushUnbounded(b, r) == Append(b, r)
PushIfRoom(b, r) == IF Len(b) = BufferCap THEN b ELSE Append(b, r)
Push(b, r) == Append(IF Len(b) = BufferCap THEN Tail(b) ELSE b, r)

\* Mutants of ReadBlock: a kept ereport leaves its rows in the parser;
\* ... a block is dropped when the parser still holds rows of an earlier one.
ReadBlockWithoutTake ==
    /\ reader = "reading" /\ pipe # <<>>
    /\ LET e == Head(pipe)
           class == log[e].kind.class
       IN /\ reader' = IF class = "garbled" THEN "stopped" ELSE reader
          /\ pending' = IF class = "garbled" THEN pending ELSE Fed(e)
          /\ IF class \in Kept
             THEN buffer' = Push(buffer, Report(e)) /\ read' = Append(read, Report(e))
             ELSE UNCHANGED <<buffer, read>>
    /\ pipe' = Tail(pipe)
    /\ UNCHANGED <<kernel, child, written, window, ui, screen, taken>>
ReadBlockIfClean ==
    /\ reader = "reading" /\ pipe # <<>>
    /\ LET e == Head(pipe)
           class == log[e].kind.class
           clean == pending = [f \in Fields |-> 0]
       IN /\ reader' = IF class = "garbled" THEN "stopped" ELSE reader
          /\ pending' = IF class = "other" THEN Fed(e) ELSE [f \in Fields |-> 0]
          /\ IF class \in Kept /\ clean
             THEN buffer' = Push(buffer, Report(e)) /\ read' = Append(read, Report(e))
             ELSE UNCHANGED <<buffer, read>>
    /\ pipe' = Tail(pipe)
    /\ UNCHANGED <<kernel, child, written, window, ui, screen, taken>>

ReadBlock ==
    /\ reader = "reading" /\ pipe # <<>>
    /\ LET e == Head(pipe)
           class == log[e].kind.class
       IN /\ reader' = IF class = "garbled" THEN "stopped" ELSE reader
          /\ pending' = IF class \in Kept THEN [f \in Fields |-> 0]
                        ELSE IF class = "garbled" THEN pending ELSE Fed(e)
          /\ IF class \in Kept
             THEN buffer' = Push(buffer, Report(e)) /\ read' = Append(read, Report(e))
             ELSE UNCHANGED <<buffer, read>>
    /\ pipe' = Tail(pipe)
    /\ UNCHANGED <<kernel, child, written, window, ui, screen, taken>>

\* lines() ends with the child's end of the pipe; nothing spawns a new child.
ReaderEnds ==
    /\ reader = "reading" /\ pipe = <<>> /\ child # "running"
    /\ reader' = "stopped"
    /\ UNCHANGED <<kernel, child, written, pipe, pending, buffer, window, ui,
                   screen, read, taken>>

--------------------------------------------------------------------------------
(* The render loop.                                                         *)

Last(n, s) == IF Len(s) <= n THEN s ELSE SubSeq(s, Len(s) - n + 1, Len(s))

\* retain: those that are not older than the window, in their order.
Retained(s) ==
    LET kept[n \in 0..Len(s)] ==
            IF n = 0 THEN <<>>
            ELSE IF s[n].ts >= now - Window THEN Append(kept[n - 1], s[n])
            ELSE kept[n - 1]
    IN  kept[Len(s)]

\* Mutants of Drain: the window is replaced, not extended;
\* ... nothing is drained into a full window.
DrainReplacing ==
    /\ ui = "idle"
    /\ window' = buffer /\ buffer' = <<>>
    /\ ui' = "drained" /\ taken' = Len(read)
    /\ UNCHANGED <<kernel, follower, screen, read>>
DrainIfRoom ==
    /\ ui = "idle" /\ ui' = "drained"
    /\ IF Len(window) < WindowCap
       THEN window' = window \o buffer /\ buffer' = <<>> /\ taken' = Len(read)
       ELSE UNCHANGED <<window, buffer, taken>>
    /\ UNCHANGED <<kernel, follower, screen, read>>

\* ereports.extend(source.ereports())
Drain ==
    /\ ui = "idle"
    /\ window' = window \o buffer
    /\ buffer' = <<>>
    /\ ui' = "drained"
    /\ taken' = Len(read)
    /\ UNCHANGED <<kernel, follower, screen, read>>

\* Mutant of Refresh: old ereports are weeded out only to make room.
RefreshWhenFull ==
    /\ ui = "drained"
    /\ window' = Last(WindowCap,
                      IF Len(window) > WindowCap THEN Retained(window) ELSE window)
    /\ screen' = window' /\ ui' = "idle"
    /\ UNCHANGED <<kernel, follower, buffer, read, taken>>

\* Retain by age, then by number from the front, and draw.
Refresh ==
    /\ ui = "drained"
    /\ window' = Last(WindowCap, Retained(window))
    /\ screen' = window'
    /\ ui' = "idle"
    /\ UNCHANGED <<kernel, follower, buffer, read, taken>>

\* The loop ends, between two ticks or because the frame cannot be drawn, and
\* EventFollower is dropped: kill, wait.
Quit ==
    /\ ui \in {"idle", "drained"}
    /\ ui' = "ended"
    /\ child' = "reaped"
    /\ UNCHANGED <<kernel, written, pipe, reader, pending, buffer, window, screen,
                   read, taken>>

Stopped == ui = "ended" /\ UNCHANGED vars

Follow == ChildWrites \/ ReadBlock
Tick == Drain \/ Refresh
Next == Pass \/ Post \/ ChildDies \/ Follow \/ ReaderEnds \/ Tick \/ Quit \/ Stopped

\* The child and the reader are runnable.  Nothing makes the loop tick: every
\* tick waits for `zpool status' before it drains, and that wait has no bound
\* (status.rs:39, HardTimeout in StatusCommand).
Spec == Init /\ [][Next]_vars /\ WF_vars(ChildWrites) /\ WF_vars(ReadBlock)
             /\ WF_vars(ReaderEnds)

--------------------------------------------------------------------------------
(* Properties.                                                              *)

\* Every variable has its type; both queues stay within their caps.
TypeOK ==
    /\ now \in 0..MaxTime
    /\ log \in Seq([kind : Kinds, at : 0..MaxTime]) /\ Len(log) <= MaxEvents
    /\ child \in {"running", "dead", "reaped"}
    /\ written \in 0..Len(log)
    /\ pipe \in Seq(Blocks)
    /\ reader \in {"reading", "stopped"}
    /\ pending \in [Fields -> 0..MaxEvents]
    /\ buffer \in Seq(Reports) /\ Len(buffer) <= BufferCap
    /\ window \in Seq(Reports)
    /\ ui \in {"idle", "drained", "ended"}
    /\ screen \in Seq(Reports) /\ Len(screen) <= WindowCap
    /\ read \in Seq(Reports)
    /\ taken \in 0..Len(read)

\* With a ring buffer in the reader and a window trimmed by age and by number in
\* the loop, the map still shows exactly the newest of the recent ereports: two
\* bounded queues in a row lose nothing one of the window's size would keep.
EW == INSTANCE ErrorWindow WITH
         Ereport <- Reports, Capacity <- WindowCap, arrived <- read, shown <- screen
ShowsTheNewest == EW!Spec

KeptIds(n) == {e \in 1..n : log[e].kind.class \in Kept}
Ids(s) == [i \in DOMAIN s |-> s[i].id]

\* As long as the reader runs, every kept event the child has written is either
\* still in the pipe or was pushed, once and in the kernel's order.
NothingLost ==
    reader = "reading" =>
        LET all == Ids(read) \o pipe
        IN /\ \A i, j \in DOMAIN all : i < j => all[i] < all[j]
           /\ KeptIds(written) \subseteq {all[i] : i \in DOMAIN all}

\* A row that was given to one kept ereport is never given to a later one.
NeverReused ==
    \A i, j \in DOMAIN read : i < j =>
        \A f \in Fields : read[j].from[f] = 0 \/ read[j].from[f] > read[i].id

\* What the two liveness properties presuppose: the loop comes round for ever.
\* Then no `zpool status' hangs, and the loop has not ended.
LoopTicks == []<><<Refresh>>_vars

OnScreen(e) == \E i \in DOMAIN screen : screen[i].id = e
\* An ereport of event e need not be shown any more: as many as the map may hold
\* are newer, or it is older than the window.
Superseded(e) ==
    \E i \in DOMAIN read : read[i].id = e /\ i + WindowCap <= Len(read)
Outdated(e) ==
    \E i \in DOMAIN read : read[i].id = e /\ now > read[i].ts + Window

\* As long as the loop ticks, every kept event is drawn on a frame, unless newer
\* ones or the window's age have overtaken it or the follower -- its child, its
\* reader -- has ended.  Neither of the two queues keeps it for ever.
Delivered ==
    LoopTicks =>
        \A e \in Blocks :
            (e \in KeptIds(Len(log)))
              ~> \/ OnScreen(e) \/ Superseded(e) \/ Outdated(e)
                 \/ child # "running" \/ reader = "stopped"

\* As long as the loop ticks, an ereport that has become older than the window
\* leaves the screen, even when nothing new arrives.
StaleLeaves ==
    LoopTicks =>
        \A e \in Blocks : (OnScreen(e) /\ Outdated(e)) ~> ~OnScreen(e)

--------------------------------------------------------------------------------
(* What the documents say and the code does not do.                         *)

\* app.rs:606: the map shows the errors that happen now, not ever.
ShowsOnlyRecent ==
    [][Refresh => \A i \in DOMAIN screen' : log[screen'[i].id].at >= now - Window]_vars

\* events.rs:22: a block is one event; an ereport holds its own block's rows.
OwnRows ==
    \A i \in DOMAIN read : \A f \in Fields : read[i].from[f] \in {0, read[i].id}
================================================================================
