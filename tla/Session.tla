-------------------------------- MODULE Session --------------------------------
(****************************************************************************)
(* main in src/main.rs, from its arguments to its exit: what it does to the *)
(* terminal and to the child of the event follower, on every way out.       *)
(*                                                                          *)
(* Each call that may fail is an action for its success and one for its     *)
(* failure.  The terminal, the pools and the child change or fail at any    *)
(* moment; a signal ends the process between any two steps.                 *)
(****************************************************************************)
EXTENDS Naturals

VARIABLES
    \* the command line, which does not change
    once,       \* --once
    source,     \* "demo" or "live"
    pinned,     \* --pool
    \* the host
    visible,    \* what a live sample would meet: "none", "unreadable", "readable"
    child,      \* zpool events: "none", "running", "gone" (not waited for), "reaped"
    \* the terminal
    raw,        \* is it in raw mode?
    alternate,  \* does it show the alternate screen?
    refused,    \* the steps of the restoration that it refused
    \* the program
    pc,
    how,        \* how it ends
    code        \* its exit status

arguments == <<once, source, pinned>>
terminal == <<raw, alternate, refused>>
program == <<pc, how, code>>
vars == <<arguments, visible, child, terminal, program>>

PCs == {"start", "collect", "raw", "alternate", "backend", "source", "loop",
        "restore", "leave", "ended"}
Endings == {"none", "printed", "refused", "setup", "quit", "error", "panic", "signal"}

Init ==
    /\ once \in BOOLEAN /\ source \in {"demo", "live"} /\ pinned \in BOOLEAN
    /\ visible \in {"none", "unreadable", "readable"}
    /\ child = "none"
    /\ raw = FALSE /\ alternate = FALSE /\ refused = {}
    /\ pc = "start" /\ how = "none" /\ code = 0

Exit(ending, status) == pc' = "ended" /\ how' = ending /\ code' = status
Goto(step) == pc' = step /\ UNCHANGED <<how, code>>

\* EventFollower::spawn(..).ok(): a failure leaves no follower.
SpawnFollower == child' \in {"running", "none"}

\* EventFollower::drop: kill and wait.
DropFollower == child' = IF child = "none" THEN "none" ELSE "reaped"

--------------------------------------------------------------------------------
(* --once.                                                                  *)

\* println! panics when nobody reads the output any more.
Output == Exit("printed", 0) \/ Exit("panic", 101)

OnceDemo ==
    /\ pc = "start" /\ once /\ source = "demo"
    /\ Output
    /\ UNCHANGED <<arguments, visible, child, terminal>>

OnceOpen ==
    /\ pc = "start" /\ once /\ source = "live"
    /\ SpawnFollower
    /\ Goto("collect")
    /\ UNCHANGED <<arguments, visible, terminal>>

\* A pool named with --pool that is not there is sampled all the same.
Samples == (visible = "readable") \/ (pinned /\ visible = "none")

\* A mutant: the source is forgotten, not dropped.
OncePrintForgetting ==
    /\ pc = "collect" /\ Samples
    /\ Output
    /\ UNCHANGED <<arguments, visible, child, terminal>>

\* The source is dropped before anything is printed.
OncePrint ==
    /\ pc = "collect" /\ Samples
    /\ DropFollower
    /\ Output
    /\ UNCHANGED <<arguments, visible, terminal>>

\* process::exit(2) runs no destructor.
OnceFails ==
    /\ pc = "collect" /\ ~Samples
    /\ Exit("error", 2)
    /\ UNCHANGED <<arguments, visible, child, terminal>>

--------------------------------------------------------------------------------
(* The interactive session: the setting up.                                 *)

\* Whether a pool can be read is not looked at, nor whether --pool names one.
Refuse ==
    /\ pc = "start" /\ ~once /\ source = "live" /\ visible = "none"
    /\ Exit("refused", 2)
    /\ UNCHANGED <<arguments, visible, child, terminal>>

Accept ==
    /\ pc = "start" /\ ~once
    /\ source = "live" => visible # "none"
    /\ Goto("raw")
    /\ UNCHANGED <<arguments, visible, child, terminal>>

EnableRaw ==
    /\ pc = "raw" /\ raw' = TRUE
    /\ Goto("alternate")
    /\ UNCHANGED <<arguments, visible, child, alternate, refused>>

EnterAlternate ==
    /\ pc = "alternate" /\ alternate' = TRUE
    /\ Goto("backend")
    /\ UNCHANGED <<arguments, visible, child, raw, refused>>

OpenBackend ==
    /\ pc = "backend"
    /\ Goto("source")
    /\ UNCHANGED <<arguments, visible, child, terminal>>

\* `?' on any of the three.
SetupFails ==
    /\ pc \in {"raw", "alternate", "backend"}
    /\ Exit("setup", 1)
    /\ UNCHANGED <<arguments, visible, child, terminal>>

OpenSource ==
    /\ pc = "source"
    /\ IF source = "live" THEN SpawnFollower ELSE UNCHANGED child
    /\ Goto("loop")
    /\ UNCHANGED <<arguments, visible, terminal>>

--------------------------------------------------------------------------------
(* The loop, and what follows it.  run_tui owns the source: however it ends,*)
(* the follower is dropped before main goes on.                             *)

\* One turn of the loop; Ctrl-C is a key without a meaning.
Turn == pc = "loop" /\ UNCHANGED vars

Quit ==
    /\ pc = "loop"
    /\ DropFollower
    /\ pc' = "restore" /\ how' = "quit" /\ UNCHANGED code
    /\ UNCHANGED <<arguments, visible, terminal>>

\* A mutant: the error is propagated where it occurs.
LoopFailsAtOnce ==
    /\ pc = "loop"
    /\ DropFollower
    /\ Exit("error", 1)
    /\ UNCHANGED <<arguments, visible, terminal>>

\* `?' in run_tui: no pool could be sampled, or the terminal failed, drawing a
\* frame, waiting for a key or reading it.
LoopFails ==
    /\ pc = "loop"
    /\ DropFollower
    /\ pc' = "restore" /\ how' = "error" /\ UNCHANGED code
    /\ UNCHANGED <<arguments, visible, terminal>>

\* Unwinding drops the source; nothing restores the terminal.
Panic ==
    /\ pc = "loop"
    /\ DropFollower
    /\ Exit("panic", 101)
    /\ UNCHANGED <<arguments, visible, terminal>>

\* A mutant: a step that fails ends the restoration.
DisableRawOrExit ==
    /\ pc = "restore"
    /\ \/ raw' = FALSE /\ Goto("leave") /\ UNCHANGED refused
       \/ refused' = refused \cup {"raw"} /\ Exit("error", 1) /\ UNCHANGED raw
    /\ UNCHANGED <<arguments, visible, child, alternate>>

\* `let _': what the terminal refuses does not stop the restoration.
DisableRaw ==
    /\ pc = "restore"
    /\ \/ raw' = FALSE /\ UNCHANGED refused
       \/ refused' = refused \cup {"raw"} /\ UNCHANGED raw
    /\ Goto("leave")
    /\ UNCHANGED <<arguments, visible, child, alternate>>

\* A mutant: the result of the loop is lost.
LeaveAlternateWell ==
    /\ pc = "leave"
    /\ \/ alternate' = FALSE /\ UNCHANGED refused
       \/ refused' = refused \cup {"alternate"} /\ UNCHANGED alternate
    /\ Exit(how, 0)
    /\ UNCHANGED <<arguments, visible, child, raw>>

\* ... and then the result of the loop.
LeaveAlternate ==
    /\ pc = "leave"
    /\ \/ alternate' = FALSE /\ UNCHANGED refused
       \/ refused' = refused \cup {"alternate"} /\ UNCHANGED alternate
    /\ Exit(how, IF how = "quit" THEN 0 ELSE 1)
    /\ UNCHANGED <<arguments, visible, child, raw>>

--------------------------------------------------------------------------------
(* The world.                                                               *)

PoolsChange ==
    /\ \E v \in {"none", "unreadable", "readable"} \ {visible} : visible' = v
    /\ UNCHANGED <<arguments, child, terminal, program>>

\* By itself, or because it writes to a pipe nobody reads any more.
ChildDies ==
    /\ child = "running" /\ child' = "gone"
    /\ UNCHANGED <<arguments, visible, terminal, program>>

\* SIGTERM, SIGHUP: no destructor runs.
Killed ==
    /\ pc # "ended"
    /\ Exit("signal", 143)
    /\ UNCHANGED <<arguments, visible, child, terminal>>

\* Ctrl-C is a signal, to the child as well, until the terminal is raw.
Interrupted ==
    /\ pc # "ended" /\ ~raw
    /\ child' = IF child = "running" THEN "gone" ELSE child
    /\ Exit("signal", 130)
    /\ UNCHANGED <<arguments, visible, terminal>>

World == PoolsChange \/ ChildDies \/ Killed \/ Interrupted

Once == OnceDemo \/ OnceOpen \/ OncePrint \/ OnceFails
Setup == Refuse \/ Accept \/ EnableRaw \/ EnterAlternate \/ OpenBackend \/ SetupFails
            \/ OpenSource
LoopEnds == Quit \/ LoopFails \/ Panic
Restore == DisableRaw \/ LeaveAlternate

Ended == pc = "ended" /\ UNCHANGED vars

Next == Once \/ Setup \/ Turn \/ LoopEnds \/ Restore \/ World \/ Ended

Spec == Init /\ [][Next]_vars

--------------------------------------------------------------------------------
(* Properties.                                                              *)

\* Every variable of main and of what it changes has its type; there are six exit
\* statuses.
TypeOK ==
    /\ once \in BOOLEAN /\ source \in {"demo", "live"} /\ pinned \in BOOLEAN
    /\ visible \in {"none", "unreadable", "readable"}
    /\ child \in {"none", "running", "gone", "reaped"}
    /\ raw \in BOOLEAN /\ alternate \in BOOLEAN
    /\ refused \subseteq {"raw", "alternate"}
    /\ pc \in PCs /\ how \in Endings /\ code \in {0, 1, 2, 101, 130, 143}

\* A session that the user or an error in the loop ends gives the terminal back
\* as far as the terminal lets it: neither an error of the loop nor a refused
\* step keeps main from the other steps.  One that prints or refuses to start
\* has never touched the terminal.
TerminalRestored ==
    /\ pc = "ended" /\ how \in {"quit", "error"} =>
          /\ raw => "raw" \in refused
          /\ alternate => "alternate" \in refused
    /\ how \in {"printed", "refused"} => ~raw /\ ~alternate /\ refused = {}

\* No way out leaves the child of the follower running, a panic included, but
\* two that run no destructor: a signal, and the exit of a failed --once.
ChildNeverOutlives ==
    pc = "ended" /\ child = "running" =>
        \/ how = "signal"
        \/ once /\ how = "error"

\* The exit status tells a monitoring agent what happened: 0 if and only if the
\* snapshot was printed or the user has quit, 2 if there was nothing to observe,
\* 1 if the terminal or the loop failed -- whatever the restoration met.
ExitTells ==
    pc = "ended" =>
        /\ code = 0 <=> how \in {"printed", "quit"}
        /\ code = 2 <=> how = (IF once THEN "error" ELSE "refused")
        /\ code = 1 <=> how \in {"setup", "error"} /\ ~once
================================================================================
