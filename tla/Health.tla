--------------------------------- MODULE Health ---------------------------------
(****************************************************************************)
(* What src/model.rs, src/ui.rs and src/app.rs conclude from the tree of    *)
(* StatusTree: the health of the tab, the badge of the header, the lines of *)
(* the two panels.  The program walks the tree; the properties say the same *)
(* by the text alone.                                                       *)
(****************************************************************************)
EXTENDS StatusTree, SequencesExt

\* A snapshot's scan as far as the badge goes; or none.
NoScan == [state |-> "none", errors |-> 0]
Scans == {NoScan} \cup
         [state : {"idle", "scanning", "finished", "canceled"}, errors : 0 .. 1]

\* The walks need a finished tree; its root is the first row.
HasTree == pc = "done" /\ rows # <<>>
Root == 1
Children(v) == Range(children[v])

\* A mutant: only what is gone is a fault.
TabSeverityOfGone(state) ==
    CASE state \in {"online", "offline"}              -> 0
      [] state \in {"degraded", "faulted"}            -> 1
      [] state \in {"removed", "unavail"}             -> 2

TabSeverity(state) ==
    CASE state \in {"online", "offline"}              -> 0
      [] state = "degraded"                           -> 1
      [] state \in {"faulted", "removed", "unavail"}  -> 2

Grade(state) ==
    CASE TabSeverity(state) = 0 -> "healthy"
      [] TabSeverity(state) = 1 -> "degraded"
      [] OTHER                  -> "fault"

Worst(grades) ==
    IF "fault" \in grades THEN "fault"
    ELSE IF "degraded" \in grades THEN "degraded" ELSE "healthy"

\* A mutant: interior vdevs only pass on the health of their children.
TreeHealthOfLeaves ==
    LET health[v \in DOMAIN rows] ==
            IF children[v] = <<>> THEN Grade(rows[v].state)
            ELSE Worst({health[c] : c \in Children(v)})
    IN  health[Root]

TreeHealth ==
    LET health[v \in DOMAIN rows] ==
            Worst({Grade(rows[v].state)} \cup {health[c] : c \in Children(v)})
    IN  health[Root]

\* A mutant: no vdev with children is recoverable by itself.
RecoverableOnlyLeaf ==
    LET recoverable[v \in DOMAIN rows] ==
            IF children[v] = <<>> THEN rows[v].state \in {"degraded", "unavail"}
            ELSE \E c \in Children(v) : recoverable[c]
    IN  recoverable[Root]

HasRecoverableLeaf ==
    LET recoverable[v \in DOMAIN rows] ==
            \/ rows[v].state = "unavail"
            \/ children[v] = <<>> /\ rows[v].state = "degraded"
            \/ \E c \in Children(v) : recoverable[c]
    IN  recoverable[Root]

RetryNeeded(scan) ==
    \/ scan # NoScan /\ scan.errors > 0 /\ scan.state # "finished"
    \/ HasRecoverableLeaf

HasFaulted ==
    LET faulted[v \in DOMAIN rows] ==
            \/ rows[v].state = "faulted"
            \/ \E c \in Children(v) : faulted[c]
    IN  faulted[Root]

RetryBadge(scan) ==
    CASE RetryNeeded(scan) -> "RETRY"
      [] ~RetryNeeded(scan) /\ HasFaulted -> "REPLACE"
      [] OTHER -> "none"

\* Only a header with a scan line has room for a badge.
HeaderBadge(scan) == IF scan = NoScan THEN "none" ELSE RetryBadge(scan)

\* The vdev panel: the vdev, then the lines of its children, one level deeper.
VdevLines ==
    LET Deeper(line) == [line EXCEPT !.depth = @ + 1]
        lines[v \in DOMAIN rows] ==
            <<[row |-> v, depth |-> 0]>> \o
            FlattenSeq([i \in DOMAIN children[v] |->
                [n \in DOMAIN lines[children[v][i]] |->
                    Deeper(lines[children[v][i]][n])]])
    IN  lines[Root]

\* The devices of the error map.
CollectLeaves ==
    LET leaves[v \in DOMAIN rows] ==
            IF children[v] = <<>> THEN <<v>>
            ELSE FlattenSeq([i \in DOMAIN children[v] |-> leaves[children[v][i]]])
    IN  leaves[Root]

--------------------------------------------------------------------------------
(* By the text.                                                             *)

\* A row is a leaf if the next one is not deeper.  The first row has taken
\* every row that is under no other.
IsLeaf(r) ==
    \/ r = Len(rows)
    \/ r # 1 /\ rows[r + 1].indent <= rows[r].indent

\* A row is as deep in the tree as there are groups around it.
Level(r) ==
    IF r = 1 THEN 0
    ELSE 1 + Cardinality({i \in 2 .. r - 1 :
                \A j \in i + 1 .. r : rows[j].indent > rows[i].indent})

\* The panels show every row of the text, once, in its order and at its level,
\* and the error map has a line for every leaf, once and in the same order.
PanelIsTheText ==
    HasTree =>
        LET leaves == CollectLeaves
        IN  /\ VdevLines = [r \in DOMAIN rows |-> [row |-> r, depth |-> Level(r)]]
            /\ Range(leaves) = {r \in DOMAIN rows : IsLeaf(r)}
            /\ \A i, j \in DOMAIN leaves : i < j => leaves[i] < leaves[j]

\* The tab's health is that of the worst row, wherever it hangs.
HealthIsTheWorstRow ==
    HasTree =>
        /\ TreeHealth = "fault" <=>
              \E r \in DOMAIN rows : rows[r].state \in {"faulted", "removed", "unavail"}
        /\ TreeHealth = "healthy" <=>
              \A r \in DOMAIN rows : rows[r].state \in {"online", "offline"}

\* A retry is asked for if and only if a vdev can still recover -- a degraded
\* disk, or anything unavailable -- or an unfinished scan has met errors.
RetryOnlyWhatRecovers ==
    HasTree => \A scan \in Scans :
        RetryNeeded(scan) <=>
            \/ \E r \in DOMAIN rows : rows[r].state = "unavail"
            \/ \E r \in DOMAIN rows : IsLeaf(r) /\ rows[r].state = "degraded"
            \/ scan.errors > 0 /\ scan.state \in {"idle", "scanning", "canceled"}

\* What badge and tab say together, in a header with a scan line.  REPLACE stands
\* under a fault mark only, and over a healthy tab there is no badge but for the
\* errors of an unfinished scan.  The fault mark does not exclude RETRY: anything
\* unavailable has both at once, and so has what is faulted or removed beside a
\* degraded disk or such errors; if nothing can recover it is REPLACE, or no badge
\* at all when disks are only removed.
BadgeBesideTab ==
    HasTree => \A scan \in Scans \ {NoScan} :
        LET has(state) == \E r \in DOMAIN rows : rows[r].state = state
            weak == \E r \in DOMAIN rows : IsLeaf(r) /\ rows[r].state = "degraded"
            errors == scan.errors > 0 /\ scan.state # "finished"
            badge == HeaderBadge(scan)
        IN  /\ badge = "REPLACE" => TreeHealth = "fault"
            /\ TreeHealth = "healthy" => badge = IF errors THEN "RETRY" ELSE "none"
            /\ has("unavail") => TreeHealth = "fault" /\ badge = "RETRY"
            /\ TreeHealth = "fault" /\ ~has("unavail") =>
                  badge = IF weak \/ errors THEN "RETRY"
                          ELSE IF has("faulted") THEN "REPLACE" ELSE "none"
================================================================================
