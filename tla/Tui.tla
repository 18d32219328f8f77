---------------------------------- MODULE Tui ----------------------------------
(****************************************************************************)
(* The render loop of zresmon (run_tui in src/app.rs) over a live source.   *)
(*                                                                          *)
(* Every tick the loop lists the pools of the kernel, samples them one by   *)
(* one, draws one frame and waits for a key.  A sample is two reads, of the *)
(* scan kstat and of `zpool status'.  Nothing is locked meanwhile: between  *)
(* any two of these steps a pool may be imported or exported, its scan and  *)
(* its vdevs may change, its scan kstat may become unreadable and the zpool *)
(* command may stop answering.                                              *)
(*                                                                          *)
(* A sequence is indexed from 1 here and from 0 in the program; `active'    *)
(* keeps the program's value, so pools[active] reads pools[active + 1].     *)
(****************************************************************************)
EXTENDS Naturals, Sequences, FiniteSets

CONSTANTS
    Pools,           \* pool names, as numbers in their sort order
    NoPool,          \* "no name", not a pool
    Pins,            \* what --pool may give: pools, or NoPool without it
    Records,         \* what a scan kstat may tell
    Texts,           \* what `zpool status' may tell of a pool
    Nothing,         \* what is read where there is nothing to read
    OverflowChecks,  \* is integer overflow checked (cargo's dev profile)?
    Keys,            \* the kinds of keys the user of this instance presses
    Digits,          \* the digit keys this user presses
    MaxScroll        \* bound on a panel's stored scroll offset

Panels == {"tree", "map"}
KeyKinds == {"quit", "right", "left", "digit", "focus", "up", "down"}

ASSUME PoolsAssumption ==
    /\ Pools \subseteq Nat
    /\ IsFiniteSet(Pools)
    /\ NoPool \notin Pools
    /\ Pins \subseteq Pools \cup {NoPool}
ASSUME KeysAssumption ==
    /\ OverflowChecks \in BOOLEAN
    /\ Keys \subseteq KeyKinds
    /\ Digits \subseteq 0..9
    /\ MaxScroll \in Nat

VARIABLES
    pinned,          \* LiveSource's pool: the argument of --pool, or NoPool
    \* the host, changed by others at any time
    imported,        \* the pools with a directory under /proc/spl/kstat/zfs
    unreadable,      \* those whose scan kstat exists and cannot be read
    record,          \* what each pool's scan kstat tells
    text,            \* what `zpool status' tells of each pool
    answering,       \* does `zpool status' answer in time?
    \* the local variables of run_tui
    pc,
    pools,           \* the tab order: the last list of pools
    active,          \* index of the selected tab, from 0
    snaps,           \* this tick's snapshots
    next,            \* position in pools of the next pool to sample
    candidate,       \* the pool LiveSource::sample has picked
    part,            \* what collect_one has read of the kstat
    focus,           \* panel_focus
    scroll,          \* tree_scroll and map_scroll
    \* history, read by the properties only
    chosen,          \* name under the cursor when the user last looked
    aligned,         \* had that frame a tab for every pool of the list?
    seen,            \* per pool, what each of the two reads could have
                     \* returned in this tick so far
    steady           \* pools readable at every moment of this tick so far

world == <<pinned, imported, unreadable, record, text, answering>>
panels == <<focus, scroll>>
history == <<chosen, aligned, seen, steady>>
loop == <<pc, pools, active, snaps, next, candidate, part, panels>>
vars == <<world, loop, history>>

\* The user has quit; there was nothing to sample (the error of
\* `source.sample()?'); the terminal failed; a key panicked.
Ended == {"quit", "unsampled", "terminal", "panicked"}
PCs == {"discover", "sample", "status", "fallback", "fallback_status", "wait"}
          \cup Ended

--------------------------------------------------------------------------------
(* Reading the host.                                                        *)

\* What the two reads of collect_one have found: Snapshot says what is made
\* of them.  Without an answer of `zpool status' a snapshot has the healthy
\* placeholder for a tree.
Snapshots == [name : Pools, kstat : Records \cup {Nothing},
                            status : Texts \cup {Nothing}]

\* kstat::read_scan fails only when the scan file exists and cannot be read; a
\* pool that is not there is read as one without a scan.
Reads(p) == p \notin unreadable
KstatOf(p) == IF p \in imported THEN record[p] ELSE Nothing

\* status::run_status(Some(p)) fails for an absent pool as for a silent zpool.
StatusOf(p) == IF p \in imported /\ answering THEN text[p] ELSE Nothing

\* kstat::list_pools: the imported pools, sorted by name.
IsListing(d) ==
    /\ \A i, j \in DOMAIN d : i < j => d[i] < d[j]
    /\ {d[i] : i \in DOMAIN d} = imported

\* Source::pools of the live source: --pool pins the list to one name.
Lists == UNION {[1..n -> Pools] : n \in 0..Cardinality(Pools)}
Discovered ==
    IF pinned # NoPool THEN {<<pinned>>} ELSE {d \in Lists : IsListing(d)}

Names(s) == [i \in DOMAIN s |-> s[i].name]
In(p, s) == \E i \in DOMAIN s : s[i] = p
Position(p, s) == (CHOOSE i \in DOMAIN s : s[i] = p) - 1

Readable == (IF pinned # NoPool THEN {pinned} ELSE imported) \ unreadable

--------------------------------------------------------------------------------
(* One tick.                                                                *)

InTick == pc \in {"sample", "status", "fallback", "fallback_status"}

Init ==
    /\ pinned \in Pins
    /\ imported \in SUBSET Pools
    /\ unreadable = {}
    /\ record \in [Pools -> Records] /\ text \in [Pools -> Texts]
    /\ answering = TRUE
    /\ pc = "discover"
    /\ pools = <<>> /\ active = 0
    /\ snaps = <<>> /\ next = 1
    /\ candidate = NoPool /\ part = Nothing
    /\ focus = "tree" /\ scroll = [p \in Panels |-> 0]
    /\ chosen = NoPool /\ aligned = TRUE
    /\ seen = [p \in Pools |-> [kstat |-> {}, status |-> {}]] /\ steady = {}

\* The tick begins: what its reads could return at this moment.
Watch ==
    /\ seen' = [p \in Pools |-> [kstat |-> {KstatOf(p)}, status |-> {StatusOf(p)}]]
    /\ steady' = Readable

\* pools.get(active).cloned()
Selected == IF active < Len(pools) THEN pools[active + 1] ELSE NoPool

\* Mutants of Discover: the cursor keeps its index over a change of the list;
\* ... the pools are sampled again only when the list has changed;
\* ... the list is read only once.
DiscoverKeepingIndex ==
    /\ pc = "discover"
    /\ \E d \in Discovered : pools' = d
    /\ snaps' = <<>> /\ next' = 1 /\ pc' = "sample"
    /\ Watch
    /\ UNCHANGED <<world, active, candidate, part, panels, chosen, aligned>>
DiscoverCaching ==
    /\ pc = "discover"
    /\ \E d \in Discovered :
         /\ pools' = d
         /\ active' = IF d = pools THEN active
                      ELSE IF In(Selected, d) THEN Position(Selected, d) ELSE 0
         /\ IF d = pools THEN UNCHANGED <<snaps, next>>
                         ELSE snaps' = <<>> /\ next' = 1
    /\ pc' = "sample"
    /\ Watch
    /\ UNCHANGED <<world, candidate, part, panels, chosen, aligned>>
DiscoverOnce ==
    /\ pc = "discover"
    /\ \E d \in Discovered : pools' = IF pools = <<>> THEN d ELSE pools
    /\ snaps' = <<>> /\ next' = 1 /\ pc' = "sample"
    /\ Watch
    /\ UNCHANGED <<world, active, candidate, part, panels, chosen, aligned>>

\* The pool list is read again, and the selection follows its name to the new
\* list; a name that is gone selects the first tab.
Discover ==
    /\ pc = "discover"
    /\ \E d \in Discovered :
         /\ pools' = d
         /\ active' = IF d = pools THEN active
                      ELSE IF In(Selected, d) THEN Position(Selected, d) ELSE 0
    /\ snaps' = <<>> /\ next' = 1
    /\ pc' = "sample"
    /\ Watch
    /\ UNCHANGED <<world, candidate, part, panels, chosen, aligned>>

\* Mutant of Sample: the first unreadable pool ends the loop over the pools.
SampleBreaking ==
    /\ pc = "sample" /\ next <= Len(pools)
    /\ IF Reads(pools[next])
       THEN part' = KstatOf(pools[next]) /\ pc' = "status" /\ UNCHANGED next
       ELSE next' = Len(pools) + 1 /\ UNCHANGED <<part, pc>>
    /\ UNCHANGED <<world, pools, active, snaps, candidate, panels, history>>

\* One turn of `for p in &pools': collect_one reads the kstat.  A pool that
\* cannot be read leaves no trace.
Sample ==
    /\ pc = "sample" /\ next <= Len(pools)
    /\ IF Reads(pools[next])
       THEN part' = KstatOf(pools[next]) /\ pc' = "status" /\ UNCHANGED next
       ELSE next' = next + 1 /\ UNCHANGED <<part, pc>>
    /\ UNCHANGED <<world, pools, active, snaps, candidate, panels, history>>

\* What collect_one returns: the kstat of then and the status of now.
Collected(p) == [name |-> p, kstat |-> part, status |-> StatusOf(p)]

\* ... and later runs `zpool status', whose failure is no error.
SampleStatus ==
    /\ pc = "status"
    /\ snaps' = Append(snaps, Collected(pools[next]))
    /\ next' = next + 1
    /\ pc' = "sample" /\ part' = Nothing
    /\ UNCHANGED <<world, pools, active, candidate, panels, history>>

\* Mutant of FallbackList: taken when any pool, not every pool, was unreadable.
FallbackListEager ==
    /\ pc = "sample" /\ next > Len(pools)
    /\ Len(snaps) < Len(pools) \/ snaps = <<>>
    /\ \E d \in Discovered :
         IF d = <<>> THEN pc' = "unsampled" /\ UNCHANGED candidate
                     ELSE pc' = "fallback" /\ candidate' = d[1]
    /\ UNCHANGED <<world, pools, active, snaps, next, part, panels, history>>

\* snaps.is_empty(): LiveSource::sample lists the pools once more and takes
\* the first; with none visible its error ends the program.
FallbackList ==
    /\ pc = "sample" /\ next > Len(pools) /\ snaps = <<>>
    /\ \E d \in Discovered :
         IF d = <<>> THEN pc' = "unsampled" /\ UNCHANGED candidate
                     ELSE pc' = "fallback" /\ candidate' = d[1]
    /\ UNCHANGED <<world, pools, active, snaps, next, part, panels, history>>

\* ... and reads its kstat; `?' ends the program when it cannot be read.
FallbackSample ==
    /\ pc = "fallback"
    /\ IF Reads(candidate)
       THEN pc' = "fallback_status" /\ part' = KstatOf(candidate)
                                    /\ UNCHANGED candidate
       ELSE pc' = "unsampled" /\ candidate' = NoPool /\ UNCHANGED part
    /\ UNCHANGED <<world, pools, active, snaps, next, panels, history>>

\* Its snapshot and its name are all that is left of the tick's lists.
FallbackStatus ==
    /\ pc = "fallback_status"
    /\ snaps' = <<Collected(candidate)>>
    /\ pools' = <<candidate>>
    /\ next' = 2
    /\ pc' = "sample"
    /\ candidate' = NoPool /\ part' = Nothing
    /\ UNCHANGED <<world, active, panels, history>>

\* Mutant of Draw: the frame is drawn with the cursor where it was.
DrawUnclamped ==
    /\ pc = "sample" /\ next > Len(pools) /\ snaps # <<>>
    /\ pc' \in {"wait", "terminal"}
    /\ UNCHANGED <<world, pools, active, snaps, next, candidate, part, panels, history>>

\* The cursor is brought back into range and the frame is drawn; the `?' of
\* terminal.draw ends the loop when the terminal fails, however many pools
\* have been sampled.
Draw ==
    /\ pc = "sample" /\ next > Len(pools) /\ snaps # <<>>
    /\ active' = IF active >= Len(snaps) THEN 0 ELSE active
    /\ pc' \in {"wait", "terminal"}
    /\ UNCHANGED <<world, pools, snaps, next, candidate, part, panels, history>>

--------------------------------------------------------------------------------
(* The wait for a key.  Whatever it brings, the loop goes round; the name   *)
(* under the cursor is what the user has chosen.                            *)

GoRound(cursor) ==
    /\ pc' = "discover"
    /\ active' = cursor
    /\ chosen' = snaps[cursor + 1].name
    /\ aligned' = (Len(snaps) = Len(pools))
    /\ UNCHANGED <<world, pools, snaps, next, candidate, part, seen, steady>>

\* The poll times out, or brings an event that is not a bound key press.
NoKey == pc = "wait" /\ GoRound(active) /\ UNCHANGED panels

End(how) ==
    /\ pc' = how
    /\ UNCHANGED <<world, pools, active, snaps, next, candidate, part, panels, history>>

\* event::poll or event::read fails: their `?' ends the loop.
WaitFails == pc = "wait" /\ End("terminal")

PressQuit == pc = "wait" /\ "quit" \in Keys /\ End("quit")

PressRight ==
    /\ pc = "wait" /\ "right" \in Keys
    /\ GoRound((active + 1) % Len(snaps))
    /\ UNCHANGED panels

PressLeft ==
    /\ pc = "wait" /\ "left" \in Keys
    /\ GoRound(IF active = 0 THEN Len(snaps) - 1 ELSE active - 1)
    /\ UNCHANGED panels

\* norm(c) as u8 - b'1': for '0' the subtraction leaves the byte's range, which
\* panics when overflow is checked and wraps to 255 otherwise.
PressDigit(d) ==
    /\ pc = "wait" /\ "digit" \in Keys /\ d \in Digits
    /\ IF d = 0 /\ OverflowChecks
       THEN End("panicked")
       ELSE LET idx == (d + 255) % 256
            IN /\ GoRound(IF idx < Len(snaps) THEN idx ELSE active)
               /\ UNCHANGED panels

PressFocus(p) ==
    /\ pc = "wait" /\ "focus" \in Keys
    /\ focus' = p
    /\ GoRound(active) /\ UNCHANGED scroll

\* Mutant of PressUp: a plain subtraction where the code saturates.
PressUpWrapping ==
    /\ pc = "wait" /\ "up" \in Keys
    /\ scroll' = [scroll EXCEPT ![focus] = (@ + MaxScroll + 1) % (MaxScroll + 2)]
    /\ GoRound(active) /\ UNCHANGED focus

PressUp ==
    /\ pc = "wait" /\ "up" \in Keys
    /\ scroll' = [scroll EXCEPT ![focus] = IF @ = 0 THEN 0 ELSE @ - 1]
    /\ GoRound(active) /\ UNCHANGED focus

\* The stored offset grows without regard to the panel's content.
PressDown ==
    /\ pc = "wait" /\ "down" \in Keys
    /\ scroll[focus] < MaxScroll
    /\ scroll' = [scroll EXCEPT ![focus] = @ + 1]
    /\ GoRound(active) /\ UNCHANGED focus

--------------------------------------------------------------------------------
(* The host, at any moment.                                                 *)

\* What the reads of this tick could return after the change.
Record ==
    IF InTick
    THEN /\ seen' = [p \in Pools |-> [kstat |-> seen[p].kstat \cup {KstatOf(p)'},
                                      status |-> seen[p].status \cup {StatusOf(p)'}]]
         /\ steady' = steady \cap Readable'
    ELSE UNCHANGED <<seen, steady>>

Import(p) ==
    /\ p \notin imported
    /\ imported' = imported \cup {p}
    /\ UNCHANGED <<unreadable, record, text, answering>>

Export(p) ==
    /\ p \in imported
    /\ imported' = imported \ {p}
    /\ unreadable' = unreadable \ {p}
    /\ UNCHANGED <<record, text, answering>>

ScanFileChanges(p) ==
    /\ p \in imported
    /\ unreadable' = IF p \in unreadable THEN unreadable \ {p}
                                         ELSE unreadable \cup {p}
    /\ UNCHANGED <<imported, record, text, answering>>

\* A scan starts, goes on or ends; a vdev fails or recovers.
PoolChanges(p) ==
    /\ \/ /\ \E r \in Records \ {record[p]} : record' = [record EXCEPT ![p] = r]
          /\ UNCHANGED text
       \/ /\ \E t \in Texts \ {text[p]} : text' = [text EXCEPT ![p] = t]
          /\ UNCHANGED record
    /\ UNCHANGED <<imported, unreadable, answering>>

ZpoolChanges ==
    /\ answering' = ~answering
    /\ UNCHANGED <<imported, unreadable, record, text>>

Host ==
    /\ \/ \E p \in Pools : Import(p) \/ Export(p) \/ ScanFileChanges(p)
                             \/ PoolChanges(p)
       \/ ZpoolChanges
    /\ UNCHANGED <<pinned, loop, chosen, aligned>>
    /\ Record

Key ==
    \/ PressQuit \/ PressRight \/ PressLeft \/ PressUp \/ PressDown
    \/ \E d \in Digits : PressDigit(d)
    \/ \E p \in Panels : PressFocus(p)

Loop ==
    \/ Discover \/ Sample \/ SampleStatus
    \/ FallbackList \/ FallbackSample \/ FallbackStatus
    \/ Draw \/ NoKey \/ WaitFails \/ Key

Stopped == pc \in Ended /\ UNCHANGED vars

Next == Loop \/ Host \/ Stopped

\* Every step of the loop returns: reads of procfs do, `zpool status' is taken
\* to end within its timeout, and poll(interval) returns when no key comes.
Spec == Init /\ [][Next]_vars /\ WF_vars(Loop)

--------------------------------------------------------------------------------
(* Properties.                                                              *)

\* Every variable has its type; both scroll offsets stay within the bound.
TypeOK ==
    /\ imported \in SUBSET Pools
    /\ unreadable \in SUBSET imported
    /\ pinned \in Pins
    /\ record \in [Pools -> Records] /\ text \in [Pools -> Texts]
    /\ answering \in BOOLEAN
    /\ pc \in PCs
    /\ pools \in Seq(Pools)
    /\ active \in Nat
    /\ snaps \in Seq(Snapshots)
    /\ next \in Nat \ {0}
    /\ candidate \in Pools \cup {NoPool}
    /\ part \in Records \cup {Nothing}
    /\ focus \in Panels
    /\ scroll \in [Panels -> 0..MaxScroll]
    /\ chosen \in Pools \cup {NoPool}
    /\ aligned \in BOOLEAN
    /\ seen \in [Pools -> [kstat : SUBSET (Records \cup {Nothing}),
                          status : SUBSET (Texts \cup {Nothing})]]
    /\ steady \in SUBSET Pools

\* snaps[active] (app.rs:686) never indexes past the snapshots, however the
\* list shrinks and whatever keys were pressed on the frame before.
ActiveInRange == pc = "wait" => active < Len(snaps)

AllSampled == Len(snaps) = Len(pools)

\* "The selected pool is preserved by name across rediscoveries": the pool the
\* user had chosen is the one shown, wherever it has moved in the list, when
\* neither that frame nor this one has lost a pool to a failed read.
SelectionKept ==
    pc = "wait" /\ aligned /\ AllSampled /\ In(chosen, pools)
        => snaps[active + 1].name = chosen

\* What a tab shows is of this very tick, in both its parts: the scan one that
\* the kstat had and the tree one that `zpool status' gave, each at some moment
\* of the tick.  They need not be of the same moment.  In particular a pool is
\* shown without what `zpool status' knows of it, as a healthy placeholder,
\* only in a tick in which zpool did not answer for it, and never from an
\* earlier tick.
FramesAreFresh ==
    pc = "wait" => \A i \in DOMAIN snaps :
        /\ snaps[i].kstat \in seen[snaps[i].name].kstat
        /\ snaps[i].status \in seen[snaps[i].name].status

\* A pool that was there and readable all through the tick has a tab, however
\* many others failed or vanished around it.
NobodyIsMissing ==
    pc = "wait" => \A p \in steady : In(p, Names(snaps))

\* For want of a pool the loop ends only in a tick in which no pool was there
\* and readable all the time: one failing pool never takes the display down.
\* (The terminal's own errors end the loop as well, whatever the pools.)
GivesUpOnlyWithoutPools == pc = "unsampled" => steady = {}

Mirrors ==
    /\ {snaps[i].name : i \in DOMAIN snaps} = Readable
    /\ \A i \in DOMAIN snaps :
         /\ snaps[i].kstat = KstatOf(snaps[i].name)
         /\ snaps[i].status = StatusOf(snaps[i].name)

\* Once the host stops changing, frames keep coming until the program ends,
\* and from some moment on every one of them shows the host as it is.
Converges ==
    <>[][FALSE]_world =>
        /\ []<>(pc = "wait" \/ pc \in Ended)
        /\ <>[](pc = "wait" => Mirrors)

--------------------------------------------------------------------------------
(* What the documents say and the code does not do.                         *)

\* app.rs:635: a selection is preserved by name as long as its pool is shown.
SelectionSurvives ==
    pc = "wait" /\ In(chosen, Names(snaps)) => snaps[active + 1].name = chosen
================================================================================
