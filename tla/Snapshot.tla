-------------------------------- MODULE Snapshot --------------------------------
(****************************************************************************)
(* collect_one in src/app.rs: one snapshot of a pool put together from two  *)
(* reads of a host that goes on between them, the scan kstat (kstat.rs) and *)
(* the wording of `zpool status' (status.rs).  The kstat wins; without it   *)
(* the scan: section is parsed, and without that the dRAID rebuild lines.   *)
(*                                                                          *)
(* A line of the text is what the code can tell of it: whether a word or a  *)
(* number is in it.  A rate, a time, a vdev's name is not.                  *)
(****************************************************************************)
EXTENDS Naturals, FiniteSetsExt, Functions

CONSTANTS NumVdevs,     \* the number of dRAID vdevs
          Total         \* the work of a scan, done step by step

ASSUME VdevsAssumption == NumVdevs \in Nat
ASSUME TotalAssumption == Total \in Nat \ {0}

Vdevs == 1 .. NumVdevs      \* in the order of the text
Funcs == {"scrub", "resilver"}
Unknown == Total + 1        \* no number

VARIABLES
    scan,       \* the host: the pool's last scan
    rebuilds,   \* the host: the last rebuild of each dRAID vdev
    file,       \* the host: the scan kstat is there, absent, or not readable
    answers,    \* the host: zpool answers this user, in time
    pc,         \* where collect_one is: before its "kstat" or "status" read
    snap,       \* the snapshot under construction, and then what is returned
    begun       \* history: during a call, the scan at the kstat read

host == <<scan, rebuilds, file, answers>>
vars == <<scan, rebuilds, file, answers, pc, snap, begun>>

NeverScanned == [func |-> "none", state |-> "none", done |-> 0, errors |-> 0]
NeverRebuilt == [state |-> "none", done |-> 0, errors |-> 0]

KernelScans ==
    {NeverScanned} \cup
    {s \in [func : Funcs, state : {"scanning", "paused", "finished", "canceled"},
            done : 0 .. Total, errors : 0 .. 1] :
        /\ s.state = "paused" => s.func = "scrub"
        /\ s.state = "finished" => s.done = Total}

Rebuilds ==
    {NeverRebuilt} \cup
    {r \in [state : {"active", "complete", "canceled"}, done : 0 .. Total, errors : 0 .. 1] :
        /\ r.state = "complete" => r.done = Total
        /\ r.state # "complete" => r.errors = 0}

\* What ScanStats says, as far as it is shown.
ScanStats == [func : Funcs, state : {"scanning", "finished", "canceled"},
              progress : {Unknown} \cup 0 .. Total, errors : 0 .. 1]
NoScan == [func |-> "none", state |-> "none", progress |-> Unknown, errors |-> 0]

\* rebuild_pct is that of the row of a rebuild target, if there is one.
Snapshots == [scan : {NoScan} \cup ScanStats, tree : {"placeholder", "parsed"},
              rebuild_pct : {Unknown} \cup 0 .. Total]
Placeholder(s) == [scan |-> s, tree |-> "placeholder", rebuild_pct |-> Unknown]
NoSnapshot == [scan |-> NoScan, tree |-> "none", rebuild_pct |-> Unknown]

Init ==
    /\ scan \in KernelScans /\ rebuilds = [v \in Vdevs |-> NeverRebuilt]
    /\ file \in {"there", "absent", "unreadable"} /\ answers \in BOOLEAN
    /\ pc = "kstat" /\ snap = NoSnapshot /\ begun = NeverScanned

--------------------------------------------------------------------------------
(* The host.  A scrub may run beside rebuilds (docs/CONSTRAINTS.md, section  *)
(* 1; scripts/lab.sh:234).                                                  *)

Scanning == scan.state \in {"scanning", "paused"}
Rebuilding == \E v \in Vdevs : rebuilds[v].state = "active"

StartScan ==
    /\ ~Scanning
    /\ \E f \in Funcs :
          scan' = [func |-> f, state |-> "scanning", done |-> 0, errors |-> 0]
    /\ UNCHANGED rebuilds

ScanGoesOn ==
    /\ scan.state = "scanning"
    /\ \/ scan.done < Total /\ scan' = [scan EXCEPT !.done = @ + 1]
       \/ scan' = [scan EXCEPT !.errors = 1]
       \/ scan.done = Total /\ scan' = [scan EXCEPT !.state = "finished"]
       \/ scan.func = "scrub" /\ scan' = [scan EXCEPT !.state = "paused"]
    /\ UNCHANGED rebuilds

ScanIsResumed ==
    /\ scan.state = "paused" /\ scan' = [scan EXCEPT !.state = "scanning"]
    /\ UNCHANGED rebuilds

ScanIsCanceled ==
    /\ Scanning /\ scan' = [scan EXCEPT !.state = "canceled"]
    /\ UNCHANGED rebuilds

StartRebuild(v) ==
    /\ rebuilds[v].state # "active"
    /\ rebuilds' = [rebuilds EXCEPT ![v] = [state |-> "active", done |-> 0, errors |-> 0]]
    /\ UNCHANGED scan

RebuildGoesOn(v) ==
    /\ rebuilds[v].state = "active"
    /\ \/ /\ rebuilds[v].done < Total
          /\ rebuilds' = [rebuilds EXCEPT ![v].done = @ + 1]
       \/ /\ rebuilds[v].done = Total
          /\ \E e \in 0 .. 1 : rebuilds' = [rebuilds EXCEPT
                 ![v] = [state |-> "complete", done |-> Total, errors |-> e]]
       \/ rebuilds' = [rebuilds EXCEPT ![v].state = "canceled"]
    /\ UNCHANGED scan

SourcesChange ==
    /\ file' \in {"there", "absent", "unreadable"} /\ answers' \in BOOLEAN
    /\ <<file, answers>>' # <<file, answers>>
    /\ UNCHANGED <<scan, rebuilds>>

Host ==
    /\ \/ /\ \/ StartScan \/ ScanGoesOn \/ ScanIsResumed \/ ScanIsCanceled
             \/ \E v \in Vdevs : StartRebuild(v) \/ RebuildGoesOn(v)
          /\ UNCHANGED <<file, answers>>
       \/ SourcesChange
    /\ UNCHANGED <<pc, snap, begun>>

--------------------------------------------------------------------------------
(* What zpool prints of it.                                                 *)

\* bytes: a number after the word "resilvered", "repaired" or, in the line of a
\* rebuild, after the name of the vdev.  Nothing is printed of what never was.
NoLine == [func |-> "none", vdev |-> FALSE, errors |-> 0, word |-> "none",
           pct |-> Unknown, bytes |-> Unknown]

LineOfScan(b) ==
    IF scan = NeverScanned THEN NoLine
    ELSE [func |-> scan.func, vdev |-> FALSE, errors |-> scan.errors,
          word  |-> CASE scan.state = "scanning" -> "in progress"
                      [] scan.state = "paused"   -> "paused"
                      [] scan.state = "finished" -> "completed"
                      [] scan.state = "canceled" -> "canceled",
          pct   |-> IF Scanning THEN scan.done ELSE Unknown,
          bytes |-> IF scan.state = "finished" THEN b ELSE Unknown]

LineOfRebuild(r, b) ==
    IF r = NeverRebuilt THEN NoLine
    ELSE [func |-> "resilver", vdev |-> TRUE, errors |-> r.errors,
          word  |-> CASE r.state = "active"   -> "in progress"
                      [] r.state = "complete" -> "completed"
                      [] r.state = "canceled" -> "canceled",
          pct   |-> IF r.state = "active" THEN r.done ELSE Unknown,
          bytes |-> IF r.state = "complete" THEN b ELSE Unknown]

\* The line of the scan, then those of the vdevs in their order.
Lines(b) ==
    [i \in 0 .. NumVdevs |-> IF i = 0 THEN LineOfScan(b) ELSE LineOfRebuild(rebuilds[i], b)]
NoLines == [i \in 0 .. NumVdevs |-> NoLine]

\* How far anything is that goes on now.  (A paused scrub writes nothing.)
Percentages ==
    {s.done : s \in {t \in {scan} \cup Range(rebuilds) : t.state \in {"scanning", "active"}}}

\* Some builds print "scan: none requested" when only vdevs were rebuilt, some
\* nothing.  A row may carry the percentage of what writes to it.  A text
\* that is not UTF-8 has been read as empty.
Texts ==
    {[header |-> h, lines |-> Lines(b), rows |-> TRUE, target |-> t] :
        h \in {TRUE, scan # NeverScanned}, b \in 0 .. 1, t \in {Unknown} \cup Percentages}
    \cup {[header |-> FALSE, lines |-> NoLines, rows |-> FALSE, target |-> Unknown]}

--------------------------------------------------------------------------------
(* The parsers.                                                             *)

\* The line and all indented ones after it are one text to these.
Says(lines, word) == \E i \in DOMAIN lines : lines[i].word = word

\* A mutant: a canceled line decides although something is in progress.
StateOfTextCanceled(lines) ==
    CASE Says(lines, "canceled")                                 -> "canceled"
      [] Says(lines, "in progress") /\ ~Says(lines, "canceled")  -> "scanning"
      [] OTHER                                                   -> "finished"

StateOfText(lines) ==
    CASE Says(lines, "in progress")                              -> "scanning"
      [] Says(lines, "canceled") /\ ~Says(lines, "in progress")  -> "canceled"
      [] OTHER                                                   -> "finished"

FuncOfText(lines) ==
    IF \E i \in DOMAIN lines : lines[i].func = "resilver" THEN "resilver" ELSE "scrub"

\* The first "% done".
ProgressPct(lines) ==
    LET hits == {i \in DOMAIN lines : lines[i].pct # Unknown}
    IN  IF hits = {} THEN Unknown ELSE lines[Min(hits)].pct

\* The number after "resilvered", which in the line of a rebuild is the name of
\* a vdev and no number; or else after "repaired".
ScanBytes(lines) ==
    LET completed(f) == {i \in DOMAIN lines : lines[i].word = "completed" /\ lines[i].func = f}
        hits == IF completed("resilver") # {} THEN completed("resilver")
                ELSE completed("scrub")
    IN  IF hits = {} \/ lines[Min(hits)].vdev THEN Unknown ELSE lines[Min(hits)].bytes

\* ScanStats::progress of a record whose examined and to_examine are the bytes.
OfBytes(bytes) == IF bytes \in {Unknown, 0} THEN Unknown ELSE Total

\* A mutant: the bytes, if there are any, before the percentage.
ProgressOfTextBytes(lines) ==
    IF ScanBytes(lines) # Unknown THEN OfBytes(ScanBytes(lines)) ELSE ProgressPct(lines)

ProgressOfText(lines) ==
    IF StateOfText(lines) = "scanning" /\ ProgressPct(lines) # Unknown
    THEN ProgressPct(lines)
    ELSE OfBytes(ScanBytes(lines))

ParseScanSection(text) ==
    IF ~text.header \/ text.lines = NoLines THEN NoScan
    ELSE [func |-> FuncOfText(text.lines), state |-> StateOfText(text.lines),
          progress |-> ProgressOfText(text.lines), errors |-> 0]

ProbeRebuild(text) ==
    LET Record(l) ==
            CASE l.word = "in progress" ->
                    [func |-> "resilver", state |-> "scanning",
                     progress |-> Unknown, errors |-> 0]
              [] l.word = "completed" ->
                    [func |-> "resilver", state |-> "finished",
                     progress |-> Total, errors |-> l.errors]
              [] l.word = "canceled" ->
                    [func |-> "resilver", state |-> "canceled",
                     progress |-> Unknown, errors |-> 0]
        rebuilt == {i \in DOMAIN text.lines : text.lines[i].vdev}
        live == {i \in rebuilt : text.lines[i].word # "canceled"}
    IN  IF rebuilt = {} THEN NoScan
        ELSE Record(text.lines[IF live # {} THEN Min(live) ELSE Max(rebuilt)])

ScanOfText(text) ==
    IF ParseScanSection(text) # NoScan THEN ParseScanSection(text) ELSE ProbeRebuild(text)

\* progress of parse_status: the first "% done" of the whole text.
StatusPct(text) ==
    IF ProgressPct(text.lines) # Unknown THEN ProgressPct(text.lines) ELSE text.target

--------------------------------------------------------------------------------
(* collect_one.                                                             *)

\* The fields of the kstat; that a scrub is paused has no name in its state.
RecordOf(s) ==
    [func |-> s.func,
     state |-> IF s.state \in {"scanning", "paused"} THEN "scanning" ELSE s.state,
     progress |-> s.done, errors |-> s.errors]

\* A mutant: the state of a paused scrub, which has a flag of its own.
KstatRecordPaused ==
    IF file = "absent" \/ scan = NeverScanned THEN NoScan
    ELSE [RecordOf(scan) EXCEPT !.state = scan.state]

\* parse_scan_kstat; the record of a pool that was never scanned is zeros.
KstatRecord ==
    IF file = "absent" \/ scan = NeverScanned THEN NoScan ELSE RecordOf(scan)

ReadKstat ==
    /\ pc = "kstat" /\ file # "unreadable"
    /\ snap' = Placeholder(KstatRecord) /\ begun' = scan
    /\ pc' = "status"
    /\ UNCHANGED host

\* The file is there and cannot be read: the only error of collect_one.
KstatFails ==
    /\ pc = "kstat" /\ file = "unreadable"
    /\ snap' = NoSnapshot
    /\ UNCHANGED <<pc, begun, host>>

\* A mutant: the wording of zpool replaces the record of the kstat.
MergedWording(text) ==
    [scan |-> IF ScanOfText(text) # NoScan THEN ScanOfText(text) ELSE snap.scan,
     tree |-> IF text.rows THEN "parsed" ELSE snap.tree,
     rebuild_pct |-> text.target]

Merged(text) ==
    [scan |-> IF snap.scan # NoScan THEN snap.scan ELSE ScanOfText(text),
     tree |-> IF text.rows THEN "parsed" ELSE snap.tree,
     rebuild_pct |->
        IF text.target # Unknown /\ snap.scan # NoScan /\ StatusPct(text) # Unknown
        THEN StatusPct(text) ELSE text.target]

Returns ==
    /\ pc = "status" /\ pc' = "kstat"
    /\ \/ answers /\ \E text \in Texts : snap' = Merged(text)
       \/ ~answers /\ UNCHANGED snap
    /\ begun' = NeverScanned
    /\ UNCHANGED host

Next == ReadKstat \/ KstatFails \/ Returns \/ Host

Spec == Init /\ [][Next]_vars

--------------------------------------------------------------------------------
(* Properties.                                                              *)

\* The host and the call have their types: above all, a record that is returned
\* is never in a state the program has no name for.
TypeOK ==
    /\ scan \in KernelScans /\ rebuilds \in [Vdevs -> Rebuilds]
    /\ file \in {"there", "absent", "unreadable"} /\ answers \in BOOLEAN
    /\ pc \in {"kstat", "status"} /\ snap \in Snapshots \cup {NoSnapshot}
    /\ begun \in KernelScans
    /\ pc = "status" => snap # NoSnapshot

\* What the host has on record: the scan, and the rebuild of each vdev.
Run(i) == IF i = 0 THEN scan ELSE rebuilds[i]
OnRecord == {i \in 0 .. NumVdevs : Run(i).state # "none"}
Unfinished == {i \in OnRecord : Run(i).state \in {"scanning", "paused", "active"}}

\* What a record made of the wording says of one of them.  A scrub that is paused
\* reads as finished, and a finished one may lend the others its bytes.
SaysFunc(stats, i) == stats.func = IF i = 0 THEN scan.func ELSE "resilver"
SaysState(stats, i) ==
    CASE stats.state = "scanning" -> Run(i).state \in {"scanning", "active"}
      [] stats.state = "finished" -> Run(i).state \in {"finished", "complete", "paused"}
      [] stats.state = "canceled" -> Run(i).state = "canceled"
SaysProgress(stats, i) ==
    \/ stats.progress = Unknown
    \/ stats.state = "scanning" /\ i \in Unfinished /\ stats.progress = Run(i).done
    \/ /\ stats.state # "scanning" /\ Run(i).state \in {"finished", "complete"}
       /\ stats.progress = Total
SaysErrors(stats, i) ==
    stats.errors = 0 \/ (scan = NeverScanned /\ stats.errors = Run(i).errors)

\* A scan the kstat has on record is shown as it was at that read, every field of
\* it, whatever zpool says of it or of a rebuild.  Without the kstat every field
\* is of something on record at the second read, and if only one thing is, of that
\* one.  Of several it can be a mixture: the state of a rebuild with the percentage
\* of the scrub beside it, and a scrub is called a resilver as soon as any rebuild
\* is on record.  Errors are told of rebuilds only: those in the line of a scan are
\* dropped (docs/ZFS-MONITORING.md:116 says they are not).  The percentage of a
\* rebuild target is that of something unfinished, which may be a scrub.
SnapshotIsReal ==
    [][Returns =>
        /\ snap.scan # NoScan => snap'.scan = RecordOf(begun)
        /\ snap.scan = NoScan /\ snap'.scan # NoScan =>
              /\ \E i \in OnRecord : SaysFunc(snap'.scan, i)
              /\ \E i \in OnRecord : SaysState(snap'.scan, i)
              /\ \E i \in OnRecord : SaysProgress(snap'.scan, i)
              /\ \E i \in OnRecord : SaysErrors(snap'.scan, i)
        /\ snap'.rebuild_pct \in {Unknown} \cup {Run(i).done : i \in Unfinished}]_vars

\* A vdev is being rebuilt and none before it, in the order of the text, is done.
ActiveBeforeComplete ==
    \E v \in Vdevs : /\ rebuilds[v].state = "active"
                     /\ \A u \in 1 .. v - 1 : rebuilds[u].state # "complete"

\* Whatever one of the two sources is missing, a scan that runs throughout the call
\* is shown running.  A rebuild that runs is not in three cases: if the kstat has
\* any scan on record, an old finished one too, that one is shown (SnapshotIsReal);
\* if the pool was never scanned, its text may have no scan: section, and then a
\* complete vdev printed before the active one makes it FINISHED (the comment at
\* status.rs:182 ranks active before complete); and if zpool does not answer.
RunningIsShown ==
    [][Returns =>
        /\ /\ begun.state = "scanning" /\ scan.state = "scanning"
           /\ snap.scan # NoScan \/ snap'.tree = "parsed"
           => snap'.scan.state = "scanning"
        /\ /\ Rebuilding /\ snap.scan = NoScan /\ snap'.tree = "parsed"
           /\ scan # NeverScanned \/ ActiveBeforeComplete
           => snap'.scan.state = "scanning"]_vars

\* An unfinished scan that has met errors asks for a retry whenever its record
\* could be read, whatever zpool says of it later or does not say.
RetryIsAsked ==
    [][Returns /\ snap.scan # NoScan /\ begun.errors > 0 /\ begun.state # "finished" =>
        snap'.scan.errors > 0 /\ snap'.scan.state # "finished"]_vars

\* What src/model.rs (line 32) says of ScanState::Finished: "The last scan completed
\* normally."
FinishedIsCompleted ==
    [][Returns /\ snap'.scan.state = "finished" =>
        \E one \in {begun, scan} \cup Range(rebuilds) :
            one.state \in {"finished", "complete"}]_vars
================================================================================
