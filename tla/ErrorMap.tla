--------------------------------- MODULE ErrorMap ---------------------------------
(****************************************************************************)
(* What the error surface map makes of the ereports on the screen: a strip  *)
(* of cells for every leaf of the vdev tree (device_heat_list in src/ui.rs, *)
(* the map panel of render_frame_scrolled in src/app.rs).  Offsets are      *)
(* those of the vdev, in a machine word; a device is the size of the        *)
(* largest offset it has reported.                                          *)
(****************************************************************************)
EXTENDS Ereports, FiniteSetsExt

CONSTANTS
    Devices,    \* the leaves of the tree, in the order of the panel
    PathOf,     \* the vdev_path row of a block
    OffsetOf,   \* its io_offset row
    WordMax,    \* u64::MAX
    Columns,    \* lengths of a strip to look at
    Widths      \* widths of the panel to look at

ASSUME MapAssumption ==
    \* the names of the leaves are the paths of the devices, no two the same
    /\ Devices \in Seq(STRING) /\ {"path", "offset"} \subseteq Fields
    /\ WindowCap < 10000
    /\ WordMax \in Nat \ {0} /\ Columns \subseteq Nat /\ Widths \subseteq Nat
    /\ DOMAIN PathOf = Blocks /\ OffsetOf \in [Blocks -> 0 .. WordMax]
    /\ \A i, j \in DOMAIN Devices : Devices[i] = Devices[j] => i = j

\* flush: a row that is missing reads as "" and as 0.
Path(r) == IF r.from["path"] = 0 THEN "" ELSE PathOf[r.from["path"]]
Offset(r) == IF r.from["offset"] = 0 THEN 0 ELSE OffsetOf[r.from["offset"]]

\* The ereports of a device: its name in the tree is the whole path, or they
\* are nowhere in the map.
Events(device) == {i \in DOMAIN screen : Path(screen[i]) = device}
Total(device) == Cardinality(Events(device))

SaturatingAdd(a, b) == IF a + b <= WordMax THEN a + b ELSE WordMax

\* One more than the largest offset; a device that has reported none has two.
Size(device) ==
    IF Events(device) = {} THEN 2
    ELSE SaturatingAdd(Max({Offset(screen[i]) : i \in Events(device)}), 1)

\* surface_grid, with one row.
Cells(cols) == Max({cols, 1})

Bucket(offset, size, cols) ==
    Min({(Min({offset, size - 1}) * Cells(cols)) \div size, Cells(cols) - 1})

Buckets(device, cols) ==
    [cell \in 0 .. Cells(cols) - 1 |->
        Cardinality({i \in Events(device) :
            Bucket(Offset(screen[i]), Size(device), cols) = cell})]

\* A mutant: a later device with as many events comes first.
BeforeUnstably(i, j) ==
    \/ Total(Devices[i]) > Total(Devices[j])
    \/ Total(Devices[i]) = Total(Devices[j]) /\ i > j

\* The sort is stable.
Before(i, j) ==
    \/ Total(Devices[i]) > Total(Devices[j])
    \/ Total(Devices[i]) = Total(Devices[j]) /\ i < j

\* The rows of the map: the device whose rank it is.
HeatList(cols) ==
    [n \in DOMAIN Devices |->
        LET i == CHOOSE i \in DOMAIN Devices :
                    Cardinality({j \in DOMAIN Devices : Before(j, i)}) = n - 1
        IN  [name |-> Devices[i], buckets |-> Buckets(Devices[i], cols),
             total |-> Total(Devices[i])]]

--------------------------------------------------------------------------------
(* The layout of a row in a panel of a given inner width.                   *)

Clamp(n, low, high) == Max({low, Min({n, high})})

NameWidth(width) ==
    CASE width >= 70                 -> 28
      [] width >= 44 /\ width < 70   -> 20
      [] width >= 28 /\ width < 44   -> width - 11
      [] width < 28                  -> 0

\* A mutant: the column of the count is not set aside.
StripColsUpToTheEdge(width) ==
    CASE width >= 70                 -> Min({width - 28 - 2, 40})
      [] width >= 44 /\ width < 70   -> Clamp(width - 20 - 2, 4, 40)
      [] width < 44                  -> 0

StripCols(width) ==
    CASE width >= 70                 -> Min({width - 28 - 2 - 9, 40})
      [] width >= 44 /\ width < 70   -> Clamp(width - 20 - 2 - 9, 4, 40)
      [] width < 44                  -> 0

\* Name and strip are followed by a space; the count takes at least four places
\* and its unit three more.
Digits(n) ==
    CASE n < 10                  -> 1
      [] n >= 10 /\ n < 100      -> 2
      [] n >= 100 /\ n < 1000    -> 3
      [] n >= 1000 /\ n < 10000  -> 4
CountWidth(total) == Max({4, Digits(total)}) + 3

RowWidth(width, total) ==
    LET column(n) == IF n > 0 THEN n + 1 ELSE 0
    IN  column(NameWidth(width)) + column(StripCols(width)) + CountWidth(total)

--------------------------------------------------------------------------------
(* Properties.                                                              *)

\* Every device has one row, the worst first and equals in the order of the tree.
IsRanked(heat) ==
    LET place(name) == CHOOSE n \in DOMAIN heat : heat[n].name = name
    IN  /\ {heat[n].name : n \in DOMAIN heat} = {Devices[i] : i \in DOMAIN Devices}
        /\ \A i, j \in DOMAIN Devices :
              LET one == place(Devices[i])
                  other == place(Devices[j])
              IN  one < other => \/ heat[one].total > heat[other].total
                                 \/ heat[one].total = heat[other].total /\ i < j

\* What the cells hold together, up to any one.
UpTo(buckets, last) ==
    LET upto[cell \in 0 .. last] ==
            IF cell = 0 THEN buckets[0] ELSE upto[cell - 1] + buckets[cell]
    IN  upto

\* A row counts the ereports on the screen that name its device.
CountsTheScreen(row, cols) ==
    LET all == {i \in DOMAIN screen : Path(screen[i]) = row.name}
        offsets == {Offset(screen[i]) : i \in all}
        upto == UpTo(row.buckets, Cells(cols) - 1)
    IN  /\ row.total = Cardinality(all)
        /\ upto[Cells(cols) - 1] = row.total
        \* the cells up to any one hold the least offsets
        /\ \A cell \in 0 .. Cells(cols) - 1 :
              \E o \in offsets \cup {-1} :
                  upto[cell] = Cardinality({i \in all : Offset(screen[i]) <= o})
        \* offsets in the first half are in the first half
        /\ \A o \in offsets :
              2 * o < Max(offsets) /\ cols > 1 =>
                  upto[(cols - 1) \div 2] >=
                      Cardinality({i \in all : Offset(screen[i]) <= o})

\* Every device has one row, the worst first and equals in the order of the
\* tree.  A row counts the ereports on the screen that name the device, each in
\* one cell of the strip, from left to right as their offsets, at the first and
\* at the last offset of a word as well; those that name no device are in no row.
MapTellsTheScreen ==
    \A cols \in Columns :
        LET heat == HeatList(cols)
        IN  IsRanked(heat) /\ \A n \in DOMAIN heat : CountsTheScreen(heat[n], cols)

\* Neither the name nor the strip takes the place of the count, which comes last:
\* at every width a row is as wide as the panel at most or, where the panel is too
\* narrow for the count itself, nothing but the count.  (Its end is cut off then;
\* so it is in a panel of less than seven columns.)
CountIsNotCrowdedOut ==
    \A width \in Widths : \A n \in DOMAIN Devices :
        LET total == Total(Devices[n])
        IN  RowWidth(width, total) <= Max({width, CountWidth(total)})
================================================================================
