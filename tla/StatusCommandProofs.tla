-------------------------- MODULE StatusCommandProofs --------------------------
(****************************************************************************)
(* Proofs about wait_with_timeout, for every timeout and every length of    *)
(* nap, output and clock.                                                   *)
(****************************************************************************)
EXTENDS StatusCommand, TLAPS

\* While the caller has not noticed that the output is closed, no time passes.
ReadAtOnce == pc = "read" /\ stdout = "closed" => now = closedAt

\* Past the read, the output is closed and what was read is all of it.
Collected ==
    pc \in {"poll", "sleep"} =>
        stdout = "closed" /\ captured = IF valid THEN output ELSE 0

Limit == (IF deadline > closedAt THEN deadline ELSE closedAt) + Nap

\* A sleep ends in time.
Napping == pc = "sleep" => wake <= Limit

\* Only the run of a child can change what it has written.
IInv == /\ TypeOK /\ ReadAtOnce /\ Collected /\ Napping
        /\ OutputIsWhole /\ TimelyOnceClosed
        /\ pc # "idle" => result = "none"
        /\ zombies <= calls /\ (pc # "idle" => zombies < calls)

LEMMA InitInv == Init => IInv
BY TimesAssumption
   DEF Init, IInv, TypeOK, ReadAtOnce, Collected, Napping, OutputIsWhole,
       TimelyOnceClosed

LEMMA NextInv == IInv /\ [Next]_vars => IInv'
<1> SUFFICES ASSUME IInv, [Next]_vars
             PROVE  IInv'
    OBVIOUS
<1> USE TimesAssumption
    DEF IInv, TypeOK, ReadAtOnce, Collected, Napping, Limit, OutputIsWhole,
        TimelyOnceClosed, Statuses
<1>1. CASE Spawn
    BY <1>1 DEF Spawn
<1>2. CASE SpawnFails
    BY <1>2 DEF SpawnFails
<1>3. CASE Read
    BY <1>3 DEF Read, process
<1>4. CASE PollExited
    BY <1>4 DEF PollExited, Return, process
<1>5. CASE PollExpired
    BY <1>5 DEF PollExpired, Return
<1>6. CASE PollRunning
    BY <1>6 DEF PollRunning, process
<1>7. CASE Wake
    BY <1>7 DEF Wake, process
<1>8. CASE Write
    BY <1>8 DEF Write, caller
<1>9. CASE Close
    BY <1>9 DEF Close, caller
<1>10. CASE Exit
    BY <1>10 DEF Exit, caller
<1>11. CASE Pass
    BY <1>11 DEF Pass, Blocked, caller, process
<1>12. CASE PollFails
    BY <1>12 DEF PollFails, Return, process
<1>13. CASE UNCHANGED vars
    BY <1>13 DEF vars, caller, process
<1> QED BY <1>1, <1>2, <1>3, <1>4, <1>5, <1>6, <1>7, <1>8, <1>9, <1>10, <1>11,
           <1>12, <1>13 DEF Next, Caller, Runs

\* The strengthened invariant holds in every reachable state.
THEOREM Invariant == Spec => []IInv
BY InitInv, NextInv, PTL DEF Spec

\* Types, and never more unreaped children than calls.
THEOREM TypeCorrect == Spec => []TypeOK
<1>1. IInv => TypeOK
    BY DEF IInv
<1> QED BY <1>1, Invariant, PTL

\* The parser is only ever given the whole output of a successful zpool.
THEOREM OutputComplete == Spec => []OutputIsWhole
<1>1. IInv => OutputIsWhole
    BY DEF IInv
<1> QED BY <1>1, Invariant, PTL

\* A call is over one nap after its deadline or after the closing of the output,
\* whichever is later.
THEOREM Timely == Spec => []TimelyOnceClosed
<1>1. IInv => TimelyOnceClosed
    BY DEF IInv
<1> QED BY <1>1, Invariant, PTL
================================================================================
