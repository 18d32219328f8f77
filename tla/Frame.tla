---------------------------------- MODULE Frame ----------------------------------
(****************************************************************************)
(* What a frame (render_frame_scrolled in src/app.rs, src/ui.rs) makes of   *)
(* the tree of a pool: the mark and the style of its tab, the counters of a *)
(* row, and the part of the vdev panel that the stored scroll offset leaves *)
(* in view.  The offset is kept by run_tui, which knows neither the length  *)
(* of the panel nor its height; the frame corrects a copy of it.            *)
(****************************************************************************)
EXTENDS Health

CONSTANTS
    Unit,       \* 1024 in the code; in a run smaller, the units then lie closer
    Counts      \* counters to print and to read back

ASSUME CountersAssumption == Unit \in Nat /\ Unit > 1 /\ Counts \subseteq Nat

--------------------------------------------------------------------------------
(* The tab bar.                                                             *)

Marker(health) ==
    CASE health = "fault"    -> <<"fault">>
      [] health = "degraded" -> <<"degraded">>
      [] health = "healthy"  -> <<>>

\* A mutant: a scan hides the mark of the health.
TabMarkersOne(health, scanning) == IF scanning THEN <<"scan">> ELSE Marker(health)

TabMarkers(health, scanning) ==
    Marker(health) \o IF scanning THEN <<"scan">> ELSE <<>>

TabColor(health, scanning, active) ==
    CASE active -> "cyan"
      [] ~active /\ health = "fault" -> "red"
      [] ~active /\ health = "degraded" -> "yellow"
      [] ~active /\ health = "healthy" -> IF scanning THEN "yellow" ELSE "gray"

--------------------------------------------------------------------------------
(* The counters of a row.  A token after the state is a number, with or     *)
(* without a unit, or a word of a remark.                                   *)

Kilo == Unit
Mega == Unit * Kilo
Giga == Unit * Mega
Tera == Unit * Giga
Peta == Unit * Tera
Exa == Unit * Peta

Word == [kind |-> "word", value |-> 0]

\* What zpool prints for a counter: a large one is rounded, in the largest unit
\* it has.
Humanized(n) ==
    LET in(unit) == (n + unit \div 2) \div unit
    IN  CASE n < Kilo              -> [kind |-> "number", value |-> n]
          [] n >= Kilo /\ n < Mega -> [kind |-> "K", value |-> in(Kilo)]
          [] n >= Mega /\ n < Giga -> [kind |-> "M", value |-> in(Mega)]
          [] n >= Giga /\ n < Tera -> [kind |-> "G", value |-> in(Giga)]
          [] n >= Tera /\ n < Peta -> [kind |-> "T", value |-> in(Tera)]
          [] n >= Peta /\ n < Exa  -> [kind |-> "P", value |-> in(Peta)]
          [] n >= Exa              -> [kind |-> "E", value |-> in(Exa)]

\* A mutant: only plain numbers are counters.
ParseCounterPlain(t) == IF t.kind = "number" THEN {t.value} ELSE {}

\* The value of a token, or nothing: a word, or a unit that is not in the table.
ParseCounter(t) ==
    CASE t.kind = "number" -> {t.value}
      [] t.kind = "K"      -> {t.value * Kilo}
      [] t.kind = "M"      -> {t.value * Mega}
      [] t.kind = "G"      -> {t.value * Giga}
      [] t.kind = "T"      -> {t.value * Tera}
      [] t.kind = "P"      -> {t.value * Peta}
      [] t.kind \in {"E", "word"} -> {}

\* READ, WRITE, CKSUM: the last three numbers, or zeros if there are not three.
ParseCounters(tokens) ==
    LET counters == {j \in DOMAIN tokens : ParseCounter(tokens[j]) # {}}
        after(j) == Cardinality({l \in counters : l > j})
        column(i) == CHOOSE j \in counters : after(j) = 3 - i
    IN  [i \in 1 .. 3 |-> IF Cardinality(counters) < 3 THEN 0
                          ELSE CHOOSE v \in ParseCounter(tokens[column(i)]) : TRUE]

--------------------------------------------------------------------------------
(* The panel.                                                               *)

DrawnOffset(stored, total) ==
    IF stored < total THEN stored ELSE IF total = 0 THEN 0 ELSE total - 1

\* A mutant: no line in a panel without room.
VisibleStrictly(lines, stored, height) ==
    LET first == DrawnOffset(stored, Len(lines)) + 1
        last == IF first + height - 1 <= Len(lines) THEN first + height - 1 ELSE Len(lines)
    IN  SubSeq(lines, first, last)

\* At least one line, even in a panel without room.
Visible(lines, stored, height) ==
    LET first == DrawnOffset(stored, Len(lines)) + 1
        room == IF height = 0 THEN 1 ELSE height
        last == IF first + room - 1 <= Len(lines) THEN first + room - 1 ELSE Len(lines)
    IN  SubSeq(lines, first, last)

\* The position in the title, shown when not everything fits: <<line, of>>.
TitlePosition(lines, stored, height) ==
    IF height > 0 /\ Len(lines) > height
    THEN <<DrawnOffset(stored, Len(lines)) + 1, Len(lines)>>
    ELSE <<>>

\* run_tui: KeyCode::Up, saturating.
Up(stored) == IF stored = 0 THEN 0 ELSE stored - 1

--------------------------------------------------------------------------------
(* Properties.                                                              *)

HealthGrades == {"healthy", "degraded", "fault"}

\* Without colors (NO_COLOR), and on the active tab, the marks alone tell every
\* health and a running scan apart; and no scan hides a row that is gone or
\* faulted, neither its mark nor the red of an inactive tab.
MarksAreEnough ==
    HasTree =>
        LET gone == \E r \in DOMAIN rows : rows[r].state \in {"faulted", "removed", "unavail"}
        IN  /\ \A scanning \in BOOLEAN :
                  /\ gone <=> "fault" \in Range(TabMarkers(TreeHealth, scanning))
                  /\ gone <=> TabColor(TreeHealth, scanning, FALSE) = "red"
            /\ \A g, h \in HealthGrades : \A s, t \in BOOLEAN :
                  TabMarkers(g, s) = TabMarkers(h, t) => (g = h /\ s = t)

\* What is read back of a counter is it, rounded in its own unit.
ReadsAs(seen, actual) ==
    /\ seen = 0 <=> actual = 0
    /\ actual < Kilo => seen = actual
    /\ actual >= Kilo =>
          \E unit \in {Kilo, Mega, Giga, Tera, Peta} :
              /\ unit <= actual /\ actual < Unit * unit
              /\ unit <= seen /\ seen <= Unit * unit

\* Printed by zpool before the words of a remark and read back.
Survive(actual, words) ==
    LET row == [i \in 1 .. 3 |-> Humanized(actual[i])] \o [i \in 1 .. words |-> Word]
        seen == ParseCounters(row)
    IN  IF \E i \in 1 .. 3 : actual[i] >= Exa
        THEN \A i \in 1 .. 3 : seen[i] = 0
        ELSE \A i \in 1 .. 3 : ReadsAs(seen[i], actual[i])

\* Every row of these counters, whatever remark follows them.
RowsSurvive ==
    \A read, write, cksum \in Counts : \A words \in 0 .. 2 :
        Survive(<<read, write, cksum>>, words)

\* A row with errors never reads as one without, whatever remark follows its
\* counters, and no counter takes the place of another or loses its unit, as long
\* as all three are below 1024^6.  Beyond that, zpool prints E, which the table of
\* parse_counter_token ends before: then all three columns read 0.
CountersSurvive == HasTree => RowsSurvive

\* Whatever offset is stored -- kept over a change of the pool, or beyond the
\* end -- the panel is never empty and shows consecutive lines, under the
\* position of the first; every line can be scrolled to.  The up key moves the
\* view by one line, but not until the presses beyond the end are taken back.
PanelIsNeverLost ==
    HasTree =>
        LET lines == VdevLines
            top(stored, height) == Visible(lines, stored, height)[1].row
        IN  \A height \in 0 .. MaxRows + 1 :
               /\ \A stored \in 0 .. MaxRows + 1 :
                     LET shown == Visible(lines, stored, height)
                         at == TitlePosition(lines, stored, height)
                     IN  /\ shown # <<>>
                         /\ \A i \in DOMAIN shown : shown[i].row = shown[1].row + i - 1
                         /\ at # <<>> => shown[1] = lines[at[1]]
                         /\ top(Up(stored), height) =
                               IF stored \in 1 .. Len(lines) - 1
                               THEN top(stored, height) - 1 ELSE top(stored, height)
               /\ \A n \in DOMAIN lines : \E stored \in 0 .. MaxRows :
                     Visible(lines, stored, height)[1] = lines[n]
================================================================================
