----------------------------- MODULE StatusCommand -----------------------------
(****************************************************************************)
(* wait_with_timeout in src/collect/status.rs: `zpool status -v' run as a   *)
(* child, once for every pool and tick, with a deadline.  The child writes, *)
(* closes its output and exits when it likes, or never.                     *)
(*                                                                          *)
(* Time passes only while the caller is blocked: its own steps take none,   *)
(* so a bound on the clock is a bound on the waiting.                       *)
(****************************************************************************)
EXTENDS Naturals

CONSTANTS
    Timeout,      \* the 5 s of run_status
    Nap,          \* the 20 ms between two polls
    MaxOutput,    \* bound on what a child writes
    MaxCalls,     \* bound on the calls
    MaxTime       \* bound on the clock

ASSUME TimesAssumption ==
    /\ Timeout \in Nat /\ Nap \in Nat \ {0}
    /\ MaxOutput \in Nat /\ MaxCalls \in Nat /\ MaxTime \in Nat

VARIABLES
    now,
    calls,        \* calls made so far
    pc,           \* of the caller: idle, or where it is in wait_with_timeout
    deadline,     \* of the current call
    wake,         \* when its sleep ends
    captured,     \* what it has read of the output
    result,       \* of the last call
    child,        \* of the last call
    stdout,       \* the child's end of the pipe
    valid,        \* is what the child has written UTF-8?
    output,       \* how much it has written
    closedAt,     \* history: when it closed the pipe
    zombies       \* children of the calls so far that nobody has waited for

caller == <<calls, pc, deadline, wake, captured, result, zombies>>
process == <<child, stdout, valid, output, closedAt>>
vars == <<now, caller, process>>

Statuses == {"success", "failure"}

Init ==
    /\ now = 0 /\ calls = 0
    /\ pc = "idle" /\ deadline = 0 /\ wake = 0
    /\ captured = 0 /\ result = "none"
    /\ child = "none" /\ stdout = "closed" /\ valid = TRUE /\ output = 0
    /\ closedAt = 0 /\ zombies = 0

Return(r) ==
    /\ pc' = "idle" /\ result' = r
    /\ UNCHANGED <<calls, deadline, wake, captured>>

\* A call begins: the child is spawned with its output piped.
Spawn ==
    /\ pc = "idle" /\ calls < MaxCalls
    /\ calls' = calls + 1
    /\ pc' = "read" /\ result' = "none"
    /\ deadline' = now + Timeout
    /\ captured' = 0
    /\ child' = "running" /\ stdout' = "open" /\ output' = 0
    /\ valid' \in BOOLEAN
    /\ UNCHANGED <<now, wake, closedAt, zombies>>

\* ... or zpool is not there.
SpawnFails ==
    /\ pc = "idle" /\ calls < MaxCalls
    /\ calls' = calls + 1
    /\ result' = "error" /\ child' = "none"
    /\ UNCHANGED <<now, pc, deadline, wake, captured, stdout, valid, output,
                   closedAt, zombies>>

\* Mutant of Read: it takes what is there.
ReadAvailable ==
    /\ pc = "read"
    /\ captured' = IF valid THEN output ELSE 0
    /\ pc' = "poll"
    /\ UNCHANGED <<now, calls, deadline, wake, result, zombies, process>>

\* read_to_string: blocks until the output is closed, and gives nothing of an
\* output that is not UTF-8.
Read ==
    /\ pc = "read" /\ stdout = "closed"
    /\ captured' = IF valid THEN output ELSE 0
    /\ pc' = "poll"
    /\ UNCHANGED <<now, calls, deadline, wake, result, zombies, process>>

\* try_wait has found the child's exit status.
PollExited ==
    /\ pc = "poll" /\ child \in Statuses
    /\ Return(IF child = "success" THEN "ok" ELSE "error")
    /\ UNCHANGED <<now, zombies, process>>

\* Mutants of PollExpired: the loop goes on after the kill;
\* ... the deadline ends the call only before the output is closed.
PollExpiredStaying ==
    /\ pc = "poll" /\ child = "running" /\ now >= deadline
    /\ pc' = "sleep" /\ wake' = now
    /\ zombies' = zombies + 1
    /\ UNCHANGED <<now, calls, deadline, captured, result, process>>
PollExpiredIfOpen ==
    /\ pc = "poll" /\ child = "running" /\ now >= deadline /\ stdout = "open"
    /\ Return("error")
    /\ child' = "killed" /\ zombies' = zombies + 1
    /\ UNCHANGED <<now, stdout, valid, output, closedAt>>

\* The deadline is over: the child is killed, and never waited for.
PollExpired ==
    /\ pc = "poll" /\ child = "running" /\ now >= deadline
    /\ Return("error")
    /\ child' = "killed" /\ zombies' = zombies + 1
    /\ UNCHANGED <<now, stdout, valid, output, closedAt>>

\* Mutant of PollRunning: it sleeps whatever the time.
PollRunningAlways ==
    /\ pc = "poll" /\ child = "running"
    /\ pc' = "sleep" /\ wake' = now + Nap
    /\ UNCHANGED <<now, calls, deadline, captured, result, zombies, process>>

\* The child runs and the deadline is not reached.
PollRunning ==
    /\ pc = "poll" /\ child = "running" /\ now < deadline
    /\ pc' = "sleep" /\ wake' = now + Nap
    /\ UNCHANGED <<now, calls, deadline, captured, result, zombies, process>>

\* The child's status cannot be asked for: it is left as it is, running or not.
PollFails ==
    /\ pc = "poll"
    /\ Return("error")
    /\ zombies' = zombies + 1
    /\ UNCHANGED <<now, process>>

Wake ==
    /\ pc = "sleep" /\ now >= wake
    /\ pc' = "poll"
    /\ UNCHANGED <<now, calls, deadline, wake, captured, result, zombies, process>>

--------------------------------------------------------------------------------
(* The child.                                                               *)

Write ==
    /\ child = "running" /\ stdout = "open" /\ output < MaxOutput
    /\ output' = output + 1
    /\ UNCHANGED <<now, caller, child, stdout, valid, closedAt>>

\* A child may close its output and go on running.
Close ==
    /\ child = "running" /\ stdout = "open"
    /\ stdout' = "closed" /\ closedAt' = now
    /\ UNCHANGED <<now, caller, child, valid, output>>

Exit ==
    /\ child = "running"
    /\ child' \in Statuses
    /\ stdout' = "closed"
    /\ closedAt' = IF stdout = "open" THEN now ELSE closedAt
    /\ UNCHANGED <<now, caller, valid, output>>

Blocked ==
    \/ pc = "idle"
    \/ pc = "read" /\ stdout = "open"
    \/ pc = "sleep" /\ now < wake

Pass ==
    /\ Blocked /\ now < MaxTime
    /\ now' = now + 1
    /\ UNCHANGED <<caller, process>>

Runs == Spawn \/ SpawnFails \/ Read \/ PollExited \/ PollExpired \/ PollRunning \/ Wake
Caller == Runs \/ PollFails
Next == Caller \/ Write \/ Close \/ Exit \/ Pass

\* The caller runs on and the clock ticks; the child owes nothing, and nothing
\* makes try_wait fail.
Spec == Init /\ [][Next]_vars /\ WF_vars(Runs) /\ WF_vars(Pass)

--------------------------------------------------------------------------------
(* Properties.                                                              *)

\* Every variable has its type.
TypeOK ==
    /\ now \in Nat /\ deadline \in Nat /\ wake \in Nat /\ closedAt \in Nat
    /\ calls \in 0..MaxCalls
    /\ pc \in {"idle", "read", "poll", "sleep"}
    /\ captured \in 0..MaxOutput /\ output \in 0..MaxOutput
    /\ result \in {"none", "ok", "error"}
    /\ child \in {"none", "running", "killed"} \cup Statuses
    /\ stdout \in {"open", "closed"}
    /\ valid \in BOOLEAN
    /\ zombies \in 0..MaxCalls

\* Output handed to the parser is never a part of what zpool had to say: a call
\* succeeds only with the whole output of a child that exited with success (or
\* with none, when the output is not UTF-8).
OutputIsWhole ==
    result = "ok" => /\ child = "success"
                     /\ captured = IF valid THEN output ELSE 0

\* Once the child has closed its output, the call ends at its deadline or one
\* nap later, or as late after the closing; the deadline bounds nothing before.
TimelyOnceClosed ==
    pc \in {"poll", "sleep"} =>
        now <= (IF deadline > closedAt THEN deadline ELSE closedAt) + Nap

\* A call returns when its child closes the output, even if the child hangs
\* afterwards (and the instance's clock still has the time to tell).
ReturnsOnceClosed ==
    (pc = "read" /\ stdout = "closed" /\ now + Timeout + Nap <= MaxTime)
        ~> pc = "idle"

--------------------------------------------------------------------------------
(* What the documents say and the code does not do.                         *)

\* status.rs:13: a hard timeout.
HardTimeout == pc # "idle" => now <= deadline + Nap
================================================================================
