------------------------------ MODULE ErrorWindow ------------------------------
(****************************************************************************)
(* What the error surface map promises: ereports arrive, and from time to   *)
(* time the map shows the newest of those that had arrived and are not      *)
(* older than the window -- all of them, or as many as the map may hold.    *)
(****************************************************************************)
EXTENDS Integers, Sequences

CONSTANTS Ereport,    \* the ereports that may arrive
          Capacity,   \* how many ereports the map may hold
          Window      \* how long an ereport is shown, in units of time

VARIABLES arrived,    \* every ereport that has arrived, oldest first
          taken,      \* how many of them the display has taken
          shown,      \* the ereports on the map
          now

vars == <<arrived, taken, shown, now>>

Init == arrived = <<>> /\ taken = 0 /\ shown = <<>> /\ now \in Nat

Arrive ==
    /\ \E r \in Ereport : r.ts = now /\ arrived' = Append(arrived, r)
    /\ UNCHANGED <<taken, shown, now>>

Take == taken' = Len(arrived) /\ UNCHANGED <<arrived, shown, now>>

\* The last ones that were taken: all recent, and no recent one before them that
\* the map could have held as well.
Show ==
    /\ \E n \in 0 .. taken :
          /\ shown' = SubSeq(arrived, n + 1, taken)
          /\ taken - n <= Capacity
          /\ \A i \in n + 1 .. taken : arrived[i].ts >= now - Window
          /\ n > 0 => taken - n = Capacity \/ arrived[n].ts < now - Window
    /\ UNCHANGED <<arrived, taken, now>>

Pass == now' > now /\ UNCHANGED <<arrived, taken, shown>>

Next == Arrive \/ Take \/ Show \/ Pass

Spec == Init /\ [][Next]_vars
================================================================================
