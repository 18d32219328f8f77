-------------------------------- MODULE Outline --------------------------------
(****************************************************************************)
(* What reading an indented listing promises: each row belongs to the last  *)
(* row above it that is less indented, or to the first row if there is none.*)
(****************************************************************************)
EXTENDS Naturals, Sequences

CONSTANT Indents        \* the indentations a row may have

VARIABLES depths,       \* of the rows that have been read, in order
          edges         \* <<p, r>>: row r belongs to row p

vars == <<depths, edges>>

Rows == 1 .. Len(depths)

\* Row p is the last one with an indentation below d.
IsGroup(p, d) ==
    /\ p \in Rows /\ depths[p] < d
    /\ \A i \in Rows : i > p => depths[i] >= d

Init == depths = <<>> /\ edges = {}

FirstRow(d) == Rows = {} /\ UNCHANGED edges

GroupedRow(d) ==
    \E p \in Rows :
        /\ IsGroup(p, d)
        /\ edges' = edges \cup {<<p, Len(depths) + 1>>}

UngroupedRow(d) ==
    /\ Rows # {} /\ \A i \in Rows : depths[i] >= d
    /\ edges' = edges \cup {<<1, Len(depths) + 1>>}

Next ==
    \E d \in Indents :
        /\ depths' = Append(depths, d)
        /\ FirstRow(d) \/ GroupedRow(d) \/ UngroupedRow(d)

Spec == Init /\ [][Next]_vars
================================================================================
