----------------------------- MODULE SnapshotProofs -----------------------------
(****************************************************************************)
(* Proofs about the merge of Snapshot, for any number of dRAID vdevs and    *)
(* any amount of work.                                                      *)
(****************************************************************************)
EXTENDS Snapshot, Induction, TLAPS

\* The least number of a set.
LEMMA MinOf ==
    ASSUME NEW S \in SUBSET Nat, S # {}
    PROVE  Min(S) \in S /\ \A n \in S : Min(S) <= n
    BY LeastNumber DEF Min

\* The greatest number of a set, if there is a bound.
LEMMA MaxOf ==
    ASSUME NEW m \in Nat, NEW S \in SUBSET (0 .. m), S # {}
    PROVE  Max(S) \in S
<1> DEFINE mirror == {m - n : n \in S}
<1>0. \A n \in S : n \in Nat /\ n <= m
    OBVIOUS
<1>1. mirror \in SUBSET Nat /\ mirror # {}
    <2>1. \A n \in S : m - n \in mirror
        OBVIOUS
    <2>2. \A k \in mirror : k \in Nat
        BY <1>0
    <2> HIDE DEF mirror
    <2> QED BY <2>1, <2>2
<1> HIDE DEF mirror
<1>2. PICK k \in mirror : \A n \in mirror : k <= n
    BY <1>1, LeastNumber
<1>3. PICK x \in S : k = m - x
    BY <1>2 DEF mirror
<1>4. \A y \in S : m - y \in mirror
    BY DEF mirror
<1>5. \A y \in S : y <= x
    BY <1>0, <1>2, <1>3, <1>4
<1> QED BY <1>0, <1>5 DEF Max

--------------------------------------------------------------------------------

\* Between the two reads the snapshot is the record of the first, whatever the
\* host has done since.
KstatFirst ==
    pc = "status" =>
        \/ snap = Placeholder(NoScan)
        \/ begun # NeverScanned /\ snap = Placeholder(RecordOf(begun))

\* What the first read makes of the scan.
LEMMA RecordIs == KstatRecord = NoScan \/ (scan # NeverScanned /\ KstatRecord = RecordOf(scan))
    BY Zenon DEF KstatRecord

LEMMA KstatFirstInv == KstatFirst /\ [Next]_vars => KstatFirst'
<1> SUFFICES ASSUME KstatFirst, [Next]_vars PROVE KstatFirst'
    OBVIOUS
<1>1. CASE ReadKstat
    <2>1. KstatRecord = NoScan \/ (scan # NeverScanned /\ KstatRecord = RecordOf(scan))
        BY RecordIs
    <2> QED
        BY <1>1, <2>1 DEF ReadKstat, KstatFirst, RecordOf, Placeholder, NoScan, Unknown
<1>2. CASE KstatFails
    BY <1>2 DEF KstatFails, KstatFirst
<1>3. CASE Returns
    BY <1>3 DEF Returns, KstatFirst
<1>4. CASE Host \/ UNCHANGED vars
    <2>1. UNCHANGED <<pc, snap, begun>>
        BY <1>4 DEF Host, vars
    <2> QED
        BY <2>1 DEF KstatFirst, RecordOf, Placeholder, NoScan, Unknown
<1> QED
    BY <1>1, <1>2, <1>3, <1>4 DEF Next

\* No merge takes the record of the kstat out of a snapshot.
LEMMA MergeKeepsRecord ==
    ASSUME Returns, snap.scan # NoScan
    PROVE  snap'.scan = snap.scan
<1>1. ASSUME NEW text PROVE Merged(text).scan = snap.scan
    BY DEF Merged
<1> QED
    BY <1>1 DEF Returns

\* collect_one (app.rs 81-169) keeps the errors of an unfinished scan once it
\* has read them: the retry they ask for does not depend on zpool, nor on what
\* the host does between the two reads.
THEOREM RetryAsked == Spec => RetryIsAsked
<1> DEFINE Asks == Returns /\ snap.scan # NoScan /\ begun.errors > 0
                           /\ begun.state # "finished" =>
                       snap'.scan.errors > 0 /\ snap'.scan.state # "finished"
<1>1. Init => KstatFirst
    BY DEF Init, KstatFirst
<1>2. KstatFirst => Asks
    <2> SUFFICES ASSUME KstatFirst, Returns, snap.scan # NoScan,
                        begun.errors > 0, begun.state # "finished"
                 PROVE  snap'.scan.errors > 0 /\ snap'.scan.state # "finished"
        OBVIOUS
    <2>1. snap.scan = RecordOf(begun)
        BY DEF KstatFirst, Returns, Placeholder
    <2>2. RecordOf(begun).errors > 0 /\ RecordOf(begun).state # "finished"
        BY DEF RecordOf
    <2> QED
        BY <2>1, <2>2, MergeKeepsRecord
<1> QED
    BY <1>1, <1>2, KstatFirstInv, PTL DEF Spec, RetryIsAsked

--------------------------------------------------------------------------------
(* The parsers, and the type of a snapshot.                                 *)

\* What the host has.
HostType ==
    /\ scan \in KernelScans /\ rebuilds \in [Vdevs -> Rebuilds]
    /\ file \in {"there", "absent", "unreadable"} /\ answers \in BOOLEAN

LEMMA HostTypeInv == HostType /\ [Next]_vars => HostType'
<1> USE VdevsAssumption, TotalAssumption
<1> SUFFICES ASSUME HostType, [Next]_vars PROVE HostType'
    OBVIOUS
<1>1. CASE UNCHANGED <<scan, rebuilds>>
    <2>1. file' \in {"there", "absent", "unreadable"} /\ answers' \in BOOLEAN
        <3>1. CASE UNCHANGED <<file, answers>>
            BY <3>1 DEF HostType
        <3>2. CASE SourcesChange
            BY <3>2 DEF SourcesChange
        <3> QED BY <1>1, <3>1, <3>2 DEF Next, Host, vars, ReadKstat, KstatFails, Returns, host
    <2> QED BY <1>1, <2>1 DEF HostType
<1>2. CASE UNCHANGED <<rebuilds, file, answers>> /\ (StartScan \/ ScanGoesOn \/ ScanIsResumed \/ ScanIsCanceled)
    <2>1. CASE StartScan
        <3>1. scan' \in KernelScans
            BY <2>1 DEF StartScan, KernelScans, Funcs
        <3> QED BY <1>2, <3>1 DEF HostType
    <2>2. CASE ScanGoesOn \/ ScanIsResumed \/ ScanIsCanceled
        <3>1. Scanning /\ scan # NeverScanned
            BY <2>2 DEF ScanGoesOn, ScanIsResumed, ScanIsCanceled, Scanning, NeverScanned
        <3>2. /\ scan \in [func : Funcs, state : {"scanning", "paused", "finished", "canceled"},
                           done : 0 .. Total, errors : 0 .. 1]
              /\ scan.state = "paused" => scan.func = "scrub"
            BY <3>1 DEF HostType, KernelScans
        <3>3. scan' \in KernelScans
            BY <2>2, <3>2 DEF ScanGoesOn, ScanIsResumed, ScanIsCanceled, KernelScans
        <3> QED BY <1>2, <3>3 DEF HostType
    <2> QED BY <1>2, <2>1, <2>2
<1>3. ASSUME NEW v \in Vdevs, StartRebuild(v) \/ RebuildGoesOn(v), UNCHANGED <<scan, file, answers>>
      PROVE  HostType'
    <2>2. rebuilds[v] \in Rebuilds /\ (rebuilds[v].state = "active" => rebuilds[v].errors = 0)
        BY DEF HostType, Rebuilds, NeverRebuilt
    <2>3. rebuilds' \in [Vdevs -> Rebuilds]
        <3>1. CASE StartRebuild(v)
            BY <3>1 DEF StartRebuild, HostType, Rebuilds
        <3>2. CASE RebuildGoesOn(v)
            <4>1. /\ rebuilds[v] \in [state : {"active", "complete", "canceled"}, done : 0 .. Total,
                                      errors : 0 .. 1]
                  /\ rebuilds[v].errors = 0
                BY <2>2, <3>2 DEF RebuildGoesOn, Rebuilds, NeverRebuilt
            <4>2. PICK r \in Rebuilds : rebuilds' = [rebuilds EXCEPT ![v] = r]
                <5>1. CASE rebuilds[v].done < Total /\ rebuilds' = [rebuilds EXCEPT ![v].done = @ + 1]
                    <6> DEFINE r == [rebuilds[v] EXCEPT !.done = @ + 1]
                    <6>1. r \in Rebuilds
                        BY <3>2, <4>1, <5>1 DEF Rebuilds, RebuildGoesOn
                    <6>2. rebuilds' = [rebuilds EXCEPT ![v] = r]
                        BY <5>1
                    <6> QED BY <6>1, <6>2
                <5>2. CASE \E e \in 0 .. 1 : rebuilds' = [rebuilds EXCEPT
                             ![v] = [state |-> "complete", done |-> Total, errors |-> e]]
                    <6>1. PICK e \in 0 .. 1 : rebuilds' = [rebuilds EXCEPT
                             ![v] = [state |-> "complete", done |-> Total, errors |-> e]]
                        BY <5>2
                    <6>2. [state |-> "complete", done |-> Total, errors |-> e] \in Rebuilds
                        BY DEF Rebuilds
                    <6> QED BY <6>1, <6>2
                <5>3. CASE rebuilds' = [rebuilds EXCEPT ![v].state = "canceled"]
                    BY <4>1, <5>3 DEF Rebuilds
                <5> QED BY <3>2, <5>1, <5>2, <5>3 DEF RebuildGoesOn
            <4> QED BY <4>2 DEF HostType
        <3> QED BY <1>3, <3>1, <3>2
    <2> QED BY <1>3, <2>3 DEF HostType
<1> QED
    BY <1>1, <1>2, <1>3 DEF Next, Host, SourcesChange, ReadKstat, KstatFails, Returns, host, vars,
       StartScan, ScanGoesOn, ScanIsResumed, ScanIsCanceled, StartRebuild, RebuildGoesOn

\* A line says of what it is about no more than is so.
LineIsOf(l, i) ==
    /\ l = NoLine \/ /\ i \in OnRecord
                     /\ l.word \in {"in progress", "paused", "completed", "canceled"}
                     /\ l.errors = Run(i).errors /\ l.func \in Funcs
                     /\ l.func = IF i = 0 THEN scan.func ELSE "resilver"
    /\ l.word = "in progress" =>
          Run(i).state \in {"scanning", "active"} /\ l.pct = Run(i).done /\ l.pct # Unknown
    /\ l.word = "paused" => Run(i).state = "paused" /\ ~l.vdev
    /\ l.word = "completed" => Run(i).state \in {"finished", "complete"}
    /\ l.word = "canceled" => Run(i).state = "canceled"
    /\ l.pct # Unknown =>
          /\ l.pct = Run(i).done /\ l.pct \in 0 .. Total
          /\ Run(i).state \in {"scanning", "paused", "active"}
    /\ l.vdev => i # 0
    /\ Run(i).errors \in 0 .. 1

LEMMA LineTells ==
    ASSUME HostType, NEW b \in 0 .. 1, NEW i \in 0 .. NumVdevs
    PROVE  LineIsOf(Lines(b)[i], i)
<1> USE VdevsAssumption, TotalAssumption
<1>0. NoLine.word = "none" /\ NoLine.pct = Unknown /\ NoLine.vdev = FALSE
    BY DEF NoLine
<1>1. CASE i = 0
    <2>1. Lines(b)[i] = LineOfScan(b) /\ Run(i) = scan /\ scan \in KernelScans
        BY <1>1 DEF Lines, Run, HostType
    <2>2. CASE scan = NeverScanned
        <3>1. Lines(b)[i] = NoLine
            BY <2>1, <2>2 DEF LineOfScan
        <3>2. scan.errors \in 0 .. 1
            BY <2>2 DEF NeverScanned
        <3> QED BY <1>0, <2>1, <3>1, <3>2 DEF LineIsOf
    <2>3. CASE scan # NeverScanned
        <3> DEFINE l == LineOfScan(b)
        <3>1. scan \in [func : Funcs, state : {"scanning", "paused", "finished", "canceled"},
                        done : 0 .. Total, errors : 0 .. 1]
            BY <2>1, <2>3 DEF KernelScans
        <3>2. /\ l.errors = scan.errors /\ l.vdev = FALSE /\ l.func = scan.func
              /\ l.word = CASE scan.state = "scanning" -> "in progress"
                            [] scan.state = "paused"   -> "paused"
                            [] scan.state = "finished" -> "completed"
                            [] scan.state = "canceled" -> "canceled"
              /\ l.pct = IF Scanning THEN scan.done ELSE Unknown
            BY <2>3 DEF LineOfScan
        <3> HIDE DEF l
        <3>3. /\ l.word \in {"in progress", "paused", "completed", "canceled"}
              /\ l.word = "in progress" => scan.state = "scanning"
              /\ l.word = "paused" => scan.state = "paused"
              /\ l.word = "completed" => scan.state = "finished"
              /\ l.word = "canceled" => scan.state = "canceled"
            <4>1. CASE scan.state = "scanning"
                BY <3>2, <4>1
            <4>2. CASE scan.state = "paused"
                BY <3>2, <4>2
            <4>3. CASE scan.state = "finished"
                BY <3>2, <4>3
            <4>4. CASE scan.state = "canceled"
                BY <3>2, <4>4
            <4> QED BY <3>1, <4>1, <4>2, <4>3, <4>4
        <3>4. /\ scan.done \in 0 .. Total /\ scan.done # Unknown /\ scan.errors \in 0 .. 1
              /\ scan.func \in Funcs
              /\ Scanning <=> scan.state \in {"scanning", "paused"}
            BY <3>1 DEF Unknown, Scanning
        <3>5. i \in OnRecord
            BY <2>1, <3>1 DEF OnRecord
        <3>6. LineIsOf(l, i)
            BY <1>1, <2>1, <3>2, <3>3, <3>4, <3>5 DEF LineIsOf
        <3> QED BY <2>1, <3>6 DEF l
    <2> QED BY <2>2, <2>3
<1>2. CASE i # 0
    <2>1. /\ Lines(b)[i] = LineOfRebuild(rebuilds[i], b) /\ Run(i) = rebuilds[i]
          /\ i \in Vdevs /\ rebuilds[i] \in Rebuilds
        BY <1>2 DEF Lines, Run, HostType, Vdevs
    <2>2. CASE rebuilds[i] = NeverRebuilt
        <3>1. Lines(b)[i] = NoLine
            BY <2>1, <2>2 DEF LineOfRebuild
        <3>2. rebuilds[i].errors \in 0 .. 1
            BY <2>2 DEF NeverRebuilt
        <3> QED BY <1>0, <2>1, <3>1, <3>2 DEF LineIsOf
    <2>3. CASE rebuilds[i] # NeverRebuilt
        <3> DEFINE r == rebuilds[i]
                   l == LineOfRebuild(r, b)
        <3>1. r \in [state : {"active", "complete", "canceled"}, done : 0 .. Total, errors : 0 .. 1]
            BY <2>1, <2>3 DEF Rebuilds
        <3>2. /\ l.errors = r.errors /\ l.func = "resilver"
              /\ l.word = CASE r.state = "active"   -> "in progress"
                            [] r.state = "complete" -> "completed"
                            [] r.state = "canceled" -> "canceled"
              /\ l.pct = IF r.state = "active" THEN r.done ELSE Unknown
            BY <2>3 DEF LineOfRebuild
        <3>3. i \in OnRecord
            BY <2>1, <3>1 DEF OnRecord
        <3> HIDE DEF r, l
        <3>4. /\ l.word \in {"in progress", "completed", "canceled"}
              /\ l.word = "in progress" => r.state = "active"
              /\ l.word = "completed" => r.state = "complete"
              /\ l.word = "canceled" => r.state = "canceled"
            <4>1. CASE r.state = "active"
                BY <3>2, <4>1
            <4>2. CASE r.state = "complete"
                BY <3>2, <4>2
            <4>3. CASE r.state = "canceled"
                BY <3>2, <4>3
            <4> QED BY <3>1, <4>1, <4>2, <4>3
        <3>5. r.done \in 0 .. Total /\ r.done # Unknown /\ r.errors \in 0 .. 1
            BY <3>1 DEF Unknown
        <3>6. Run(i) = r /\ l.func \in Funcs
            BY <2>1, <3>2 DEF r, Funcs
        <3>7. LineIsOf(l, i)
            BY <1>2, <3>2, <3>3, <3>4, <3>5, <3>6 DEF LineIsOf
        <3> QED BY <2>1, <3>7 DEF l, r
    <2> QED BY <2>2, <2>3
<1> QED BY <1>1, <1>2

\* A text is that of the host, or empty.
LEMMA TextIs ==
    ASSUME NEW text \in Texts
    PROVE  /\ \/ /\ \E b \in 0 .. 1 : text.lines = Lines(b)
                 /\ text.header \in {TRUE, scan # NeverScanned} /\ text.rows
              \/ text.lines = NoLines /\ ~text.header /\ ~text.rows /\ text.target = Unknown
           /\ text.target \in {Unknown} \cup Percentages
<1>1. CASE text = [header |-> FALSE, lines |-> NoLines, rows |-> FALSE, target |-> Unknown]
    <2>1. text.lines = NoLines /\ text.header = FALSE /\ text.rows = FALSE /\ text.target = Unknown
        BY <1>1
    <2> QED BY <2>1
<1>2. ASSUME NEW h \in {TRUE, scan # NeverScanned}, NEW b \in 0 .. 1,
             NEW t \in {Unknown} \cup Percentages,
             text = [header |-> h, lines |-> Lines(b), rows |-> TRUE, target |-> t]
      PROVE  /\ \E c \in 0 .. 1 : text.lines = Lines(c)
             /\ text.header \in {TRUE, scan # NeverScanned} /\ text.rows
             /\ text.target \in {Unknown} \cup Percentages
    <2>1. text.lines = Lines(b) /\ text.header = h /\ text.rows = TRUE /\ text.target = t
        BY <1>2
    <2>2. text.rows
        BY <2>1
    <2>3. text.header \in {TRUE, scan # NeverScanned}
        BY <2>1, Zenon
    <2>4. text.target \in {Unknown} \cup Percentages
        BY <2>1, Zenon
    <2> QED BY <2>1, <2>2, <2>3, <2>4, Zenon
<1>3. \/ text = [header |-> FALSE, lines |-> NoLines, rows |-> FALSE, target |-> Unknown]
      \/ \E h \in {TRUE, scan # NeverScanned}, b \in 0 .. 1, t \in {Unknown} \cup Percentages :
            text = [header |-> h, lines |-> Lines(b), rows |-> TRUE, target |-> t]
    BY DEF Texts
<1> QED BY <1>1, <1>2, <1>3, Zenon

\* What a record made of the wording says is so of something on record.
TextTells(stats) ==
    /\ \E i \in OnRecord : SaysFunc(stats, i)
    /\ \E i \in OnRecord : SaysState(stats, i)
    /\ \E i \in OnRecord : SaysProgress(stats, i)
    /\ \E i \in OnRecord : SaysErrors(stats, i)

LEMMA ParsedIsReal ==
    ASSUME HostType, NEW text \in Texts, ScanOfText(text) # NoScan
    PROVE  ScanOfText(text) \in ScanStats /\ TextTells(ScanOfText(text))
<1> USE VdevsAssumption, TotalAssumption
<1> DEFINE lines == text.lines
<1>1. PICK b \in 0 .. 1 : lines = Lines(b) /\ text.header \in {TRUE, scan # NeverScanned}
    <2> SUFFICES ASSUME lines = NoLines, ~text.header PROVE FALSE
        BY TextIs
    <2>1. \A i \in DOMAIN lines : ~lines[i].vdev
        BY DEF NoLines, NoLine
    <2> QED BY <2>1 DEF ScanOfText, ParseScanSection, ProbeRebuild
<1> DEFINE Pos == 0 .. NumVdevs
<1>2. DOMAIN lines = Pos /\ Pos \in SUBSET Nat
    BY <1>1 DEF Lines
<1>3. ASSUME NEW i \in Pos
      PROVE  LineIsOf(lines[i], i)
    BY <1>1, <1>3, LineTells
<1>4. NoLine.func = "none" /\ NoLine.word = "none" /\ NoLine.pct = Unknown /\ NoLine.vdev = FALSE
    BY DEF NoLine
<1> HIDE DEF Pos
<1>5. CASE ParseScanSection(text) # NoScan
    <2> DEFINE s == ParseScanSection(text)
    <2>1. /\ ScanOfText(text) = s /\ lines # NoLines
          /\ s = [func |-> FuncOfText(lines), state |-> StateOfText(lines),
                  progress |-> ProgressOfText(lines), errors |-> 0]
        BY <1>5 DEF ScanOfText, ParseScanSection, lines
    <2>2. /\ s.func = FuncOfText(lines) /\ s.state = StateOfText(lines)
          /\ s.progress = ProgressOfText(lines) /\ s.errors = 0
        BY <2>1
    <2>3. PICK some \in Pos : lines[some] # NoLine
        <3>1. lines = [i \in Pos |-> lines[i]]
            BY <1>1 DEF Lines, Pos
        <3> QED BY <2>1, <3>1 DEF NoLines, Pos
    <2>4. /\ some \in OnRecord /\ lines[some].func \in Funcs
          /\ lines[some].func = IF some = 0 THEN scan.func ELSE "resilver"
          /\ lines[some].word \in {"in progress", "paused", "completed", "canceled"}
        BY <1>3, <2>3 DEF LineIsOf
    <2> HIDE DEF s, lines
    <2>5. \E i \in OnRecord : SaysErrors(s, i)
        BY <2>2, <2>4 DEF SaysErrors
    <2>6. \E i \in OnRecord : SaysFunc(s, i)
        <3>1. CASE \E i \in DOMAIN lines : lines[i].func = "resilver"
            <4>1. PICK i \in Pos : lines[i].func = "resilver"
                BY <1>2, <3>1
            <4>2. i \in OnRecord /\ lines[i].func = IF i = 0 THEN scan.func ELSE "resilver"
                BY <1>3, <1>4, <4>1 DEF LineIsOf
            <4>3. s.func = "resilver"
                BY <2>2, <3>1 DEF FuncOfText
            <4> QED BY <4>1, <4>2, <4>3 DEF SaysFunc
        <3>2. CASE ~ \E i \in DOMAIN lines : lines[i].func = "resilver"
            <4>1. s.func = "scrub"
                BY <2>2, <3>2 DEF FuncOfText
            <4>2. lines[some].func = "scrub"
                BY <1>2, <2>4, <3>2 DEF Funcs
            <4> QED BY <2>4, <4>1, <4>2 DEF SaysFunc
        <3> QED BY <3>1, <3>2
    <2>7. CASE Says(lines, "in progress")
        <3>1. StateOfText(lines) = "scanning"
            BY <2>7 DEF StateOfText
        <3>2. PICK running \in Pos : lines[running].word = "in progress"
            BY <1>2, <2>7 DEF Says
        <3>3. /\ running \in OnRecord /\ Run(running).state \in {"scanning", "active"}
              /\ lines[running].pct # Unknown
            BY <1>3, <1>4, <3>2 DEF LineIsOf
        <3>4. \E i \in OnRecord : SaysState(s, i)
            BY <2>2, <3>1, <3>3 DEF SaysState
        <3> DEFINE hits == {i \in DOMAIN lines : lines[i].pct # Unknown}
        <3>5. hits \in SUBSET Nat /\ hits # {} /\ hits \subseteq Pos
            BY <1>2, <3>3
        <3>6. ProgressPct(lines) = lines[Min(hits)].pct
            BY <3>5 DEF ProgressPct
        <3>7. Min(hits) \in hits
            <4> HIDE DEF hits
            <4> QED BY <3>5, MinOf
        <3>8. PICK k \in Pos : k = Min(hits) /\ lines[k].pct # Unknown
            BY <3>5, <3>7
        <3>9. s.progress = lines[k].pct
            BY <2>2, <3>1, <3>6, <3>8 DEF ProgressOfText
        <3>10. /\ k \in OnRecord /\ lines[k].pct = Run(k).done /\ lines[k].pct \in 0 .. Total
               /\ Run(k).state \in {"scanning", "paused", "active"}
            BY <1>3, <1>4, <3>8 DEF LineIsOf
        <3>11. SaysProgress(s, k)
            BY <2>2, <3>1, <3>9, <3>10 DEF SaysProgress, Unfinished
        <3>12. s \in ScanStats
            <4>1. s.progress \in {Unknown} \cup 0 .. Total
                BY <3>9, <3>10
            <4>2. FuncOfText(lines) \in Funcs
                BY DEF FuncOfText, Funcs
            <4> QED BY <2>1, <2>2, <3>1, <4>1, <4>2 DEF ScanStats
        <3> QED BY <2>1, <2>5, <2>6, <3>4, <3>10, <3>11, <3>12 DEF TextTells
    <2>8. CASE ~Says(lines, "in progress")
        <3>1. StateOfText(lines) = (IF Says(lines, "canceled") THEN "canceled" ELSE "finished")
            BY <2>8 DEF StateOfText
        <3>2. s.progress = OfBytes(ScanBytes(lines)) /\ s.progress \in {Unknown, Total}
            BY <2>2, <3>1 DEF ProgressOfText, OfBytes
        <3>3. s \in ScanStats
            <4>1. FuncOfText(lines) \in Funcs
                BY DEF FuncOfText, Funcs
            <4>2. Total \in 0 .. Total
                OBVIOUS
            <4> QED BY <2>1, <2>2, <3>1, <3>2, <4>1, <4>2 DEF ScanStats
        <3>4. \E i \in OnRecord : SaysState(s, i)
            <4>1. CASE Says(lines, "canceled")
                <5>1. PICK i \in Pos : lines[i].word = "canceled"
                    BY <1>2, <4>1 DEF Says
                <5>2. i \in OnRecord /\ Run(i).state = "canceled"
                    BY <1>3, <1>4, <5>1 DEF LineIsOf
                <5> QED BY <2>2, <3>1, <4>1, <5>2 DEF SaysState
            <4>2. CASE ~Says(lines, "canceled")
                <5>1. lines[some].word \in {"paused", "completed"}
                    BY <1>2, <2>4, <2>8, <4>2 DEF Says
                <5>2. Run(some).state \in {"paused", "finished", "complete"}
                    BY <1>3, <5>1 DEF LineIsOf
                <5> QED BY <2>2, <2>4, <3>1, <4>2, <5>2 DEF SaysState
            <4> QED BY <4>1, <4>2
        <3>5. \E i \in OnRecord : SaysProgress(s, i)
            <4>1. CASE s.progress = Unknown
                BY <2>4, <4>1 DEF SaysProgress
            <4>2. CASE s.progress # Unknown
                <5> DEFINE completed(f) == {i \in DOMAIN lines : lines[i].word = "completed" /\ lines[i].func = f}
                           hits == IF completed("resilver") # {} THEN completed("resilver")
                                   ELSE completed("scrub")
                <5>1. hits # {}
                    BY <3>2, <4>2 DEF OfBytes, ScanBytes
                <5>2. hits \subseteq {i \in Pos : lines[i].word = "completed"}
                    BY <1>2
                <5> HIDE DEF hits
                <5>3. PICK i \in Pos : lines[i].word = "completed"
                    BY <5>1, <5>2
                <5>4. i \in OnRecord /\ Run(i).state \in {"finished", "complete"}
                    BY <1>3, <1>4, <5>3 DEF LineIsOf
                <5>5. s.state # "scanning" /\ s.progress = Total
                    BY <2>2, <3>1, <3>2, <4>2
                <5> QED BY <5>4, <5>5 DEF SaysProgress
            <4> QED BY <4>1, <4>2
        <3> QED BY <2>1, <2>5, <2>6, <3>3, <3>4, <3>5 DEF TextTells
    <2> QED BY <2>7, <2>8
<1>6. CASE ParseScanSection(text) = NoScan
    <2> DEFINE rebuilt == {i \in DOMAIN lines : lines[i].vdev}
               live == {i \in rebuilt : lines[i].word # "canceled"}
               k == IF live # {} THEN Min(live) ELSE Max(rebuilt)
               s == ScanOfText(text)
    <2>1. s = ProbeRebuild(text) /\ s # NoScan
        BY <1>6 DEF ScanOfText
    <2>2. rebuilt # {}
        BY <2>1 DEF ProbeRebuild, lines
    <2>3. k \in rebuilt /\ (live # {} => k \in live)
        <3>1. live \in SUBSET Nat /\ rebuilt \in SUBSET (0 .. NumVdevs) /\ live \subseteq rebuilt
            BY <1>2 DEF Pos
        <3> HIDE DEF rebuilt, live
        <3> QED BY <2>2, <3>1, MinOf, MaxOf
    <2>4. k \in Pos /\ lines[k].vdev
        BY <1>2, <2>3
    <2>5. s = CASE lines[k].word = "in progress" ->
                    [func |-> "resilver", state |-> "scanning", progress |-> Unknown, errors |-> 0]
                [] lines[k].word = "completed" ->
                    [func |-> "resilver", state |-> "finished", progress |-> Total,
                     errors |-> lines[k].errors]
                [] lines[k].word = "canceled" ->
                    [func |-> "resilver", state |-> "canceled", progress |-> Unknown, errors |-> 0]
        BY <2>1, <2>2 DEF ProbeRebuild, lines
    <2>6. scan = NeverScanned
        <3>1. lines # NoLines
            <4>1. NoLines[k].vdev = FALSE
                BY <1>4, <2>4 DEF NoLines, Pos
            <4> QED BY <2>4, <4>1
        <3>2. CASE text.header
            <4>1. ParseScanSection(text).func = FuncOfText(lines)
                BY <3>1, <3>2 DEF ParseScanSection
            <4>2. FuncOfText(lines) \in Funcs /\ NoScan.func \notin Funcs
                BY DEF FuncOfText, Funcs, NoScan
            <4> QED BY <1>6, <4>1, <4>2
        <3> QED BY <1>1, <3>2
    <2> HIDE DEF k, s, lines
    <2>7. /\ lines[k].word \in {"in progress", "completed", "canceled"} /\ k \in OnRecord /\ k # 0
          /\ lines[k].errors = Run(k).errors /\ LineIsOf(lines[k], k)
        <3>1. lines[k] # NoLine
            BY <1>4, <2>4
        <3> QED BY <1>3, <2>4, <3>1 DEF LineIsOf
    <2>8. /\ SaysFunc(s, k) /\ SaysState(s, k) /\ SaysProgress(s, k) /\ SaysErrors(s, k)
          /\ s \in ScanStats
        <3>1. CASE lines[k].word = "in progress"
            <4>1. s = [func |-> "resilver", state |-> "scanning", progress |-> Unknown, errors |-> 0]
                BY <2>5, <3>1
            <4>2. s \in ScanStats
                BY <4>1 DEF ScanStats, Funcs
            <4>3. Run(k).state \in {"scanning", "active"}
                BY <2>7, <3>1 DEF LineIsOf
            <4> QED BY <2>7, <4>1, <4>2, <4>3 DEF SaysFunc, SaysState, SaysProgress, SaysErrors
        <3>2. CASE lines[k].word = "completed"
            <4>1. s = [func |-> "resilver", state |-> "finished", progress |-> Total,
                       errors |-> Run(k).errors]
                BY <2>5, <2>7, <3>2
            <4>2. Run(k).state \in {"finished", "complete"} /\ Run(k).errors \in 0 .. 1
                BY <2>7, <3>2 DEF LineIsOf
            <4>3. s \in ScanStats
                BY <4>1, <4>2 DEF ScanStats, Funcs
            <4> QED BY <2>6, <2>7, <4>1, <4>2, <4>3 DEF SaysFunc, SaysState, SaysProgress, SaysErrors
        <3>3. CASE lines[k].word = "canceled"
            <4>1. s = [func |-> "resilver", state |-> "canceled", progress |-> Unknown, errors |-> 0]
                BY <2>5, <3>3
            <4>2. s \in ScanStats
                BY <4>1 DEF ScanStats, Funcs
            <4>3. Run(k).state = "canceled"
                BY <2>7, <3>3 DEF LineIsOf
            <4> QED BY <2>7, <4>1, <4>2, <4>3 DEF SaysFunc, SaysState, SaysProgress, SaysErrors
        <3> QED BY <2>7, <3>1, <3>2, <3>3
    <2> QED BY <2>7, <2>8 DEF s, TextTells
<1> QED BY <1>5, <1>6

\* The record of the kstat is that of the scan, or none.
LEMMA RecordIsReal ==
    ASSUME NEW s \in KernelScans, s # NeverScanned
    PROVE  RecordOf(s) \in ScanStats
<1> USE TotalAssumption
<1>1. /\ s \in [func : Funcs, state : {"scanning", "paused", "finished", "canceled"},
                done : 0 .. Total, errors : 0 .. 1]
      /\ s.state = "finished" => s.done = Total
    BY DEF KernelScans
<1>2. /\ RecordOf(s).func = s.func /\ RecordOf(s).progress = s.done /\ RecordOf(s).errors = s.errors
      /\ RecordOf(s).state = IF s.state \in {"scanning", "paused"} THEN "scanning" ELSE s.state
    BY DEF RecordOf
<1>4. RecordOf(s) \in ScanStats
    <2>1. RecordOf(s).state \in {"scanning", "finished", "canceled"}
        BY <1>1, <1>2
    <2>2. s.done \in {Unknown} \cup 0 .. Total
        BY <1>1
    <2> QED BY <1>1, <2>1, <2>2 DEF RecordOf, ScanStats
<1> QED BY <1>4

\* How far anything is that is not over.
Progresses == {Run(i).done : i \in Unfinished}

\* That is a part of the whole; and so is what a row may carry.
LEMMA PercentagesType ==
    ASSUME HostType
    PROVE  Percentages \subseteq Progresses /\ Progresses \subseteq 0 .. Total
<1> USE VdevsAssumption, TotalAssumption
<1>1. ASSUME NEW i \in Unfinished PROVE Run(i).done \in 0 .. Total
    <2>1. i \in 0 .. NumVdevs /\ Run(i).state \in {"scanning", "paused", "active"}
        BY DEF Unfinished, OnRecord
    <2>2. CASE i = 0
        BY <2>1, <2>2 DEF Run, HostType, KernelScans, NeverScanned
    <2>3. CASE i # 0
        <3>1. rebuilds[i] \in Rebuilds /\ Run(i) = rebuilds[i]
            BY <2>1, <2>3 DEF Run, HostType, Vdevs
        <3> QED BY <2>1, <3>1 DEF Rebuilds, NeverRebuilt
    <2> QED BY <2>2, <2>3
<1>2. ASSUME NEW t \in {scan} \cup Range(rebuilds), t.state \in {"scanning", "active"}
      PROVE  t.done \in Progresses
    <2>1. PICK i \in 0 .. NumVdevs : t = Run(i)
        <3>1. CASE t = scan
            BY <3>1 DEF Run
        <3>2. CASE t \in Range(rebuilds)
            <4>1. PICK v \in Vdevs : t = rebuilds[v]
                BY <3>2 DEF Range, HostType
            <4>2. v \in 0 .. NumVdevs /\ v # 0
                BY DEF Vdevs
            <4> QED BY <4>1, <4>2 DEF Run
        <3> QED BY <3>1, <3>2
    <2>2. i \in Unfinished
        BY <1>2, <2>1 DEF Unfinished, OnRecord
    <2> QED BY <2>1, <2>2 DEF Progresses
<1>3. Percentages \subseteq Progresses
    BY <1>2 DEF Percentages
<1> QED BY <1>1, <1>3 DEF Progresses

\* The first percentage of a text in which a row has one as well is that of
\* something that is not over.
LEMMA PctIsReal ==
    ASSUME HostType, NEW text \in Texts, text.target # Unknown
    PROVE  StatusPct(text) \in Progresses
<1> USE VdevsAssumption
<1> DEFINE lines == text.lines
           hits == {i \in DOMAIN lines : lines[i].pct # Unknown}
<1>1. PICK b \in 0 .. 1 : lines = Lines(b)
    BY TextIs
<1>2. text.target \in Progresses
    BY TextIs, PercentagesType
<1>3. CASE hits = {}
    BY <1>2, <1>3 DEF StatusPct, ProgressPct
<1>4. CASE hits # {}
    <2>1. hits \in SUBSET Nat /\ hits \subseteq 0 .. NumVdevs
        BY <1>1 DEF Lines
    <2>2. ProgressPct(lines) = lines[Min(hits)].pct
        BY <1>4 DEF ProgressPct
    <2>3. Min(hits) \in hits
        <3> HIDE DEF hits
        <3> QED BY <1>4, <2>1, MinOf
    <2>4. PICK k \in 0 .. NumVdevs : k = Min(hits) /\ lines[k].pct # Unknown
        BY <2>1, <2>3
    <2>5. StatusPct(text) = lines[k].pct
        BY <2>2, <2>4 DEF StatusPct
    <2> HIDE DEF hits, lines
    <2>6. LineIsOf(lines[k], k)
        BY <1>1, LineTells
    <2>7. /\ lines[k].pct = Run(k).done /\ Run(k).state \in {"scanning", "paused", "active"}
        BY <2>4, <2>6 DEF LineIsOf
    <2>8. k \in Unfinished
        BY <2>7 DEF Unfinished, OnRecord
    <2> QED BY <2>5, <2>7, <2>8 DEF Progresses
<1> QED BY <1>3, <1>4

SnapType ==
    /\ pc \in {"kstat", "status"} /\ snap \in Snapshots \cup {NoSnapshot}
    /\ begun \in KernelScans
    /\ pc = "status" => snap \in Snapshots

IInv == HostType /\ SnapType /\ KstatFirst

\* The record of one read and the text of the other make a snapshot.
LEMMA MergedType ==
    ASSUME HostType, snap \in Snapshots, NEW text \in Texts
    PROVE  Merged(text) \in Snapshots
<1>1. snap.scan \in {NoScan} \cup ScanStats /\ snap.tree \in {"placeholder", "parsed"}
    BY DEF Snapshots
<1>2. ScanOfText(text) \in {NoScan} \cup ScanStats
    BY ParsedIsReal
<1>3. text.target \in {Unknown} \cup 0 .. Total
    BY TextIs, PercentagesType
<1>4. text.target # Unknown => StatusPct(text) \in 0 .. Total
    BY PctIsReal, PercentagesType
<1> DEFINE s == IF snap.scan # NoScan THEN snap.scan ELSE ScanOfText(text)
           t == IF text.rows THEN "parsed" ELSE snap.tree
           p == IF text.target # Unknown /\ snap.scan # NoScan /\ StatusPct(text) # Unknown
                THEN StatusPct(text) ELSE text.target
<1>5. s \in {NoScan} \cup ScanStats /\ t \in {"placeholder", "parsed"} /\ p \in {Unknown} \cup 0 .. Total
    BY <1>1, <1>2, <1>3, <1>4
<1>6. Merged(text) = [scan |-> s, tree |-> t, rebuild_pct |-> p]
    BY DEF Merged
<1> HIDE DEF s, t, p
<1> QED BY <1>5, <1>6 DEF Snapshots

LEMMA IInvInductive == IInv /\ [Next]_vars => IInv'
<1> SUFFICES ASSUME IInv, [Next]_vars PROVE IInv'
    OBVIOUS
<1>1. HostType' /\ KstatFirst'
    BY HostTypeInv, KstatFirstInv DEF IInv
<1>2. SnapType'
    <2>1. CASE ReadKstat
        <3>1. KstatRecord \in {NoScan} \cup ScanStats
            BY RecordIs, RecordIsReal DEF IInv, HostType
        <3>2. Placeholder(KstatRecord) \in Snapshots
            BY <3>1 DEF Placeholder, Snapshots
        <3>3. scan \in KernelScans
            BY DEF IInv, HostType
        <3> QED BY <2>1, <3>2, <3>3 DEF ReadKstat, SnapType
    <2>2. CASE KstatFails
        BY <2>2 DEF KstatFails, IInv, SnapType
    <2>3. CASE Returns
        <3>1. snap' \in Snapshots
            BY <2>3, MergedType DEF Returns, IInv, SnapType
        <3>2. pc' = "kstat" /\ begun' \in KernelScans
            BY <2>3 DEF Returns, KernelScans
        <3> QED BY <3>1, <3>2 DEF SnapType
    <2>4. CASE Host \/ UNCHANGED vars
        BY <2>4 DEF Host, vars, IInv, SnapType
    <2> QED BY <2>1, <2>2, <2>3, <2>4 DEF Next
<1> QED BY <1>1, <1>2 DEF IInv

LEMMA InitIInv == Init => IInv
<1> SUFFICES ASSUME Init PROVE IInv
    OBVIOUS
<1>1. rebuilds = [v \in Vdevs |-> NeverRebuilt] /\ NeverRebuilt.state = "none" /\ NeverRebuilt \in Rebuilds
    BY DEF Init, NeverRebuilt, Rebuilds
<1>2. rebuilds \in [Vdevs -> Rebuilds]
    BY <1>1
<1>3. HostType
    BY <1>2 DEF Init, HostType
<1>4. SnapType /\ KstatFirst
    BY DEF Init, SnapType, KstatFirst, KernelScans
<1> QED BY <1>3, <1>4 DEF IInv

\* The host and the call keep their types; above all, neither the wording nor the
\* merge makes a record the program has no name for.
THEOREM TypeCorrect == Spec => []TypeOK
<1>1. IInv => TypeOK
    <2>1. \A s \in Snapshots : s # NoSnapshot
        BY DEF Snapshots, NoSnapshot
    <2> QED BY <2>1 DEF IInv, HostType, SnapType, TypeOK
<1> QED BY InitIInv, IInvInductive, <1>1, PTL DEF Spec

\* A snapshot of collect_one (app.rs 81-169) is the kstat's record as it was at the
\* first read; without one, each of its fields is of something on record at the
\* second.  For any number of vdevs, scans beside rebuilds, and whatever happens
\* between the reads.
THEOREM SnapshotReal == Spec => SnapshotIsReal
<1> DEFINE Real == Returns =>
        /\ snap.scan # NoScan => snap'.scan = RecordOf(begun)
        /\ snap.scan = NoScan /\ snap'.scan # NoScan =>
              /\ \E i \in OnRecord : SaysFunc(snap'.scan, i)
              /\ \E i \in OnRecord : SaysState(snap'.scan, i)
              /\ \E i \in OnRecord : SaysProgress(snap'.scan, i)
              /\ \E i \in OnRecord : SaysErrors(snap'.scan, i)
        /\ snap'.rebuild_pct \in {Unknown} \cup {Run(i).done : i \in Unfinished}
<1>1. IInv => Real
    <2> SUFFICES ASSUME IInv, Returns
                 PROVE  /\ snap.scan # NoScan => snap'.scan = RecordOf(begun)
                        /\ snap.scan = NoScan /\ snap'.scan # NoScan => TextTells(snap'.scan)
                        /\ snap'.rebuild_pct \in {Unknown} \cup Progresses
        BY DEF TextTells, Progresses
    <2>1. /\ snap.rebuild_pct = Unknown
          /\ snap.scan # NoScan => snap.scan = RecordOf(begun)
        BY DEF Placeholder, IInv, KstatFirst, Returns
    <2>2. snap.scan # NoScan => snap'.scan = RecordOf(begun)
        BY <2>1, MergeKeepsRecord
    <2>3. CASE UNCHANGED snap
        BY <2>1, <2>2, <2>3
    <2>4. ASSUME NEW text \in Texts, snap' = Merged(text)
          PROVE  /\ snap.scan = NoScan /\ snap'.scan # NoScan => TextTells(snap'.scan)
                 /\ snap'.rebuild_pct \in {Unknown} \cup Progresses
        <3>1. /\ snap'.scan = IF snap.scan # NoScan THEN snap.scan ELSE ScanOfText(text)
              /\ snap'.rebuild_pct =
                    IF text.target # Unknown /\ snap.scan # NoScan /\ StatusPct(text) # Unknown
                    THEN StatusPct(text) ELSE text.target
            BY <2>4 DEF Merged
        <3>2. snap'.rebuild_pct \in {Unknown} \cup Progresses
            BY <3>1, PctIsReal, TextIs, PercentagesType DEF IInv
        <3>3. ASSUME snap.scan = NoScan, snap'.scan # NoScan PROVE TextTells(snap'.scan)
            <4>1. snap'.scan = ScanOfText(text)
                BY <3>1, <3>3
            <4> QED BY <3>3, <4>1, ParsedIsReal DEF IInv
        <3> QED BY <3>2, <3>3
    <2> QED BY <2>2, <2>3, <2>4 DEF Returns
<1> QED BY InitIInv, IInvInductive, <1>1, PTL DEF Spec, SnapshotIsReal

\* A text whose rows are printed says "in progress" of whatever goes on.
LEMMA SaysInProgress ==
    ASSUME NEW b \in 0 .. 1, scan.state = "scanning" \/ Rebuilding
    PROVE  Says(Lines(b), "in progress") /\ Lines(b) # NoLines
<1> USE VdevsAssumption
<1>1. PICK i \in 0 .. NumVdevs : Lines(b)[i].word = "in progress"
    <2>1. CASE scan.state = "scanning"
        <3>1. scan # NeverScanned
            BY <2>1 DEF NeverScanned
        <3>2. LineOfScan(b).word = "in progress"
            BY <2>1, <3>1 DEF LineOfScan
        <3>3. Lines(b)[0] = LineOfScan(b)
            BY DEF Lines
        <3>4. Lines(b)[0].word = "in progress"
            BY <3>2, <3>3, Zenon
        <3>5. 0 \in 0 .. NumVdevs
            OBVIOUS
        <3> QED BY <3>4, <3>5, Zenon
    <2>2. CASE Rebuilding
        <3>1. PICK v \in Vdevs : rebuilds[v].state = "active"
            BY <2>2 DEF Rebuilding
        <3> DEFINE r == rebuilds[v]
        <3>2. r # NeverRebuilt
            BY <3>1 DEF NeverRebuilt
        <3>3. LineOfRebuild(r, b).word = "in progress"
            BY <3>1, <3>2 DEF LineOfRebuild
        <3>4. v \in 0 .. NumVdevs /\ v # 0
            BY DEF Vdevs
        <3>5. Lines(b)[v] = LineOfRebuild(r, b)
            BY <3>4 DEF Lines
        <3> QED BY <3>3, <3>4, <3>5
    <2> QED BY <2>1, <2>2
<1>2. i \in DOMAIN Lines(b)
    BY DEF Lines
<1>3. NoLines[i].word = "none"
    BY DEF NoLines, NoLine
<1> QED BY <1>1, <1>2, <1>3 DEF Says

\* Where the scan: section is there, whatever goes on makes its state "scanning".
LEMMA SectionIsScanning ==
    ASSUME NEW text, NEW b \in 0 .. 1, text.lines = Lines(b), text.header,
           scan.state = "scanning" \/ Rebuilding
    PROVE  ScanOfText(text).state = "scanning"
<1> DEFINE s == ParseScanSection(text)
<1>1. Says(text.lines, "in progress") /\ text.lines # NoLines
    BY SaysInProgress
<1>2. StateOfText(text.lines) = "scanning"
    BY <1>1 DEF StateOfText
<1>3. s.state = "scanning"
    BY <1>1, <1>2 DEF ParseScanSection
<1>4. NoScan.state # "scanning"
    BY DEF NoScan
<1>5. s # NoScan
    BY <1>3, <1>4
<1> QED BY <1>3, <1>5 DEF ScanOfText

\* Where it is not, the first line of a rebuild that is not canceled decides.
LEMMA ProbeIsScanning ==
    ASSUME HostType, NEW text, NEW b \in 0 .. 1, text.lines = Lines(b), ~text.header,
           ActiveBeforeComplete
    PROVE  ScanOfText(text).state = "scanning"
<1> USE VdevsAssumption
<1> DEFINE lines == text.lines
           rebuilt == {i \in DOMAIN lines : lines[i].vdev}
           live == {i \in rebuilt : lines[i].word # "canceled"}
<1>1. ScanOfText(text) = ProbeRebuild(text)
    BY DEF ScanOfText, ParseScanSection
<1>2. PICK v \in Vdevs : /\ rebuilds[v].state = "active"
                        /\ \A u \in 1 .. v - 1 : rebuilds[u].state # "complete"
    BY DEF ActiveBeforeComplete
<1>3. DOMAIN lines = 0 .. NumVdevs
    BY DEF Lines
<1>4. v \in live
    <2>1. rebuilds[v] # NeverRebuilt
        BY <1>2 DEF NeverRebuilt
    <2>2. v \in 0 .. NumVdevs /\ v # 0
        BY DEF Vdevs
    <2>3. lines[v] = LineOfRebuild(rebuilds[v], b)
        BY <2>2 DEF Lines
    <2>4. LineOfRebuild(rebuilds[v], b).vdev /\ LineOfRebuild(rebuilds[v], b).word = "in progress"
        BY <1>2, <2>1 DEF LineOfRebuild
    <2> QED BY <1>3, <2>2, <2>3, <2>4
<1>5. ASSUME NEW i \in live, i <= v PROVE lines[i].word = "in progress"
    <2>1. i \in 0 .. NumVdevs /\ lines[i].vdev /\ lines[i].word # "canceled"
        BY <1>3
    <2>2. i # 0
        <3>1. CASE i = 0
            <4>1. lines[i] = LineOfScan(b)
                BY <3>1 DEF Lines
            <4>2. LineOfScan(b).vdev = FALSE
                BY DEF LineOfScan, NoLine
            <4> QED BY <2>1, <4>1, <4>2
        <3> QED BY <3>1
    <2>3. i \in Vdevs /\ lines[i] = LineOfRebuild(rebuilds[i], b)
        BY <2>1, <2>2 DEF Lines, Vdevs
    <2>4. rebuilds[i] # NeverRebuilt
        <3>1. CASE rebuilds[i] = NeverRebuilt
            <4>1. lines[i] = NoLine
                BY <2>3, <3>1 DEF LineOfRebuild
            <4>2. NoLine.vdev = FALSE
                BY DEF NoLine
            <4> QED BY <2>1, <4>1, <4>2
        <3> QED BY <3>1
    <2>5. rebuilds[i].state # "complete"
        <3>1. i \in 1 .. v - 1 \/ i = v
            BY <1>5, <2>3 DEF Vdevs
        <3> QED BY <1>2, <3>1
    <2>6. rebuilds[i].state \in {"active", "canceled"}
        BY <2>3, <2>4, <2>5 DEF HostType, Rebuilds
    <2>7. rebuilds[i].state = "canceled" => LineOfRebuild(rebuilds[i], b).word = "canceled"
        BY <2>4 DEF LineOfRebuild
    <2>8. rebuilds[i].state = "active" => LineOfRebuild(rebuilds[i], b).word = "in progress"
        BY <2>4 DEF LineOfRebuild
    <2> QED BY <2>1, <2>3, <2>6, <2>7, <2>8
<1>6. Min(live) \in live /\ Min(live) <= v
    <2>1. live \in SUBSET Nat /\ live # {}
        BY <1>3, <1>4
    <2> HIDE DEF live
    <2> QED BY <1>4, <2>1, MinOf
<1> DEFINE k == Min(live)
<1>7. lines[k].word = "in progress"
    BY <1>5, <1>6
<1>8. rebuilt # {} /\ live # {}
    BY <1>4
<1>9. ProbeRebuild(text) = [func |-> "resilver", state |-> "scanning", progress |-> Unknown, errors |-> 0]
    BY <1>7, <1>8 DEF ProbeRebuild
<1> QED BY <1>1, <1>9

\* A scan that runs throughout a call of collect_one is shown running, with either
\* of the two sources (app.rs 81-169).  A rebuild is, if the kstat has no scan on
\* record, zpool answers, and the pool was scanned once or no vdev printed before
\* the active one is complete.
THEOREM RunningShown == Spec => RunningIsShown
<1> DEFINE Shown == Returns =>
        /\ /\ begun.state = "scanning" /\ scan.state = "scanning"
           /\ snap.scan # NoScan \/ snap'.tree = "parsed"
           => snap'.scan.state = "scanning"
        /\ /\ Rebuilding /\ snap.scan = NoScan /\ snap'.tree = "parsed"
           /\ scan # NeverScanned \/ ActiveBeforeComplete
           => snap'.scan.state = "scanning"
<1>1. IInv => Shown
    <2> SUFFICES ASSUME IInv, Returns PROVE Shown
        OBVIOUS
    <2>1. snap.tree = "placeholder"
        BY DEF IInv, KstatFirst, Returns, Placeholder
    <2>2. ASSUME NEW text \in Texts, snap' = Merged(text), snap'.tree = "parsed", snap.scan = NoScan,
                 \/ begun.state = "scanning" /\ scan.state = "scanning"
                 \/ Rebuilding /\ (scan # NeverScanned \/ ActiveBeforeComplete)
          PROVE  snap'.scan.state = "scanning"
        <3>1. snap'.tree = (IF text.rows THEN "parsed" ELSE snap.tree) /\ snap'.scan = ScanOfText(text)
            BY <2>2 DEF Merged
        <3>2. PICK b \in 0 .. 1 : text.lines = Lines(b) /\ text.header \in {TRUE, scan # NeverScanned}
            BY <2>1, <2>2, <3>1, TextIs
        <3>3. CASE text.header
            BY <2>2, <3>1, <3>2, <3>3, SectionIsScanning
        <3>4. CASE ~text.header
            <4>1. scan = NeverScanned
                BY <3>2, <3>4
            <4>2. scan.state # "scanning"
                BY <4>1 DEF NeverScanned
            <4>3. ActiveBeforeComplete
                BY <2>2, <4>1, <4>2
            <4> QED BY <3>1, <3>2, <3>4, <4>3, ProbeIsScanning DEF IInv
        <3> QED BY <3>3, <3>4
    <2>3. ASSUME snap.scan # NoScan, begun.state = "scanning" PROVE snap'.scan.state = "scanning"
        <3>1. snap.scan = RecordOf(begun)
            BY <2>3 DEF IInv, KstatFirst, Returns, Placeholder
        <3>2. RecordOf(begun).state = "scanning"
            BY <2>3 DEF RecordOf
        <3> QED BY <2>3, <3>1, <3>2, MergeKeepsRecord
    <2>4. ASSUME snap.scan = NoScan, snap'.tree = "parsed"
          PROVE  \E text \in Texts : snap' = Merged(text)
        BY <2>1, <2>4 DEF Returns
    <2> QED BY <2>2, <2>3, <2>4
<1> QED BY InitIInv, IInvInductive, <1>1, PTL DEF Spec, RunningIsShown
================================================================================
