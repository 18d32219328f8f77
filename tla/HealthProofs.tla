------------------------------ MODULE HealthProofs ------------------------------
(****************************************************************************)
(* Proofs about what Health and Frame conclude from a finished tree, for    *)
(* every set of indentations and texts of every length.  The tree is known  *)
(* by the text: the outline of StatusTreeProofs says which row is under     *)
(* which.  A walk of the tree is a recursive function; that it has the      *)
(* values it computes is Recursion down the text, for children come after   *)
(* their parents.                                                           *)
(****************************************************************************)
EXTENDS Frame, StatusTreeProofs, SequenceTheorems, FiniteSetTheorems, Induction

\* Row p is the last shallower one above row r, or else the first.
IsParent(p, r) ==
    /\ p < r
    /\ p = 1 \/ rows[p].indent < rows[r].indent
    /\ \A i \in p + 1 .. r - 1 : rows[i].indent >= rows[r].indent

\* The tree has these edges and no others, and at the end all are folded.
Parented ==
    \A p, r \in 1 .. Len(rows) : <<p, r>> \in Edges <=> IsParent(p, r)
ListIsFolded == pc = "done" => Len(nodes) <= 1

\* Children stand in the order of the text, and the next one comes after them.
ChildrenAscend ==
    \A r \in 1 .. Len(rows) : \A i, j \in DOMAIN children[r] :
        i < j => children[r][i] < children[r][j]
NextAscends ==
    \A k \in 1 .. Len(nodes) : k < Len(nodes) =>
        \A i \in DOMAIN children[nodes[k].row] : children[nodes[k].row][i] < nodes[k + 1].row

HInv == IInv /\ Parented /\ ListIsFolded /\ ChildrenAscend /\ NextAscends

\* What the walks are about.
DoneTree ==
    /\ rows \in Seq(Row) /\ Len(rows) \in Nat \ {0} /\ DOMAIN rows = 1 .. Len(rows)
    /\ \A r \in 1 .. Len(rows) : rows[r].indent \in Nat /\ rows[r].state \in States
    /\ \A r \in 1 .. Len(rows) : children[r] \in Seq(1 .. Len(rows))
    /\ \A p, r \in 1 .. Len(rows) : r \in Children(p) <=> IsParent(p, r)
    /\ ChildrenAscend

--------------------------------------------------------------------------------

\* A row that is read gets the parent that Outline gives it.
LEMMA ReadRowParented ==
    ASSUME HInv, NEW row \in Row, ReadRow(row), IInv',
           NEW n \in Nat, n = Len(rows), NEW d \in Nat, d = row.indent
    PROVE  Parented'
<1>1. Elements /\ Elements'
    BY TypeByElement, PTL DEF HInv, IInv
<1>2. rows' = Append(rows, row) /\ rows \in Seq(Row)
    BY DEF ReadRow, HInv, IInv, TypeOK
<1>3. /\ Len(rows') = n + 1 /\ rows'[n + 1] = row
      /\ \A i \in 1 .. n : rows'[i] = rows[i]
    BY <1>2
<1>4. /\ Depths = [i \in 1 .. n |-> rows[i].indent]
      /\ Depths' = [i \in 1 .. n + 1 |-> rows'[i].indent]
    BY <1>1, <1>3 DEF Depths, Elements
<1>5. PICK e \in Indents : /\ Depths' = Append(Depths, e)
                           /\ O!FirstRow(e) \/ O!GroupedRow(e) \/ O!UngroupedRow(e)
    BY ReadRowRefines DEF HInv, O!Next
<1>6. Depths \in Seq(Nat) /\ Len(Depths) = n
    <2>1. \A i \in 1 .. n : rows[i].indent \in Nat
        BY <1>1 DEF Elements
    <2> QED BY <1>1, <1>4, <2>1
<1>7. e = d
    <2>1. Depths'[n + 1] = d
        BY <1>1, <1>3, <1>4
    <2>2. Depths'[n + 1] = e
        BY <1>5, <1>6
    <2> QED BY <2>1, <2>2
<1>8. O!Rows = 1 .. n /\ \A i \in 1 .. n : Depths[i] = rows[i].indent /\ rows[i].indent \in Nat
    BY <1>1, <1>4, <1>6 DEF O!Rows, Elements
<1>9. EdgesBetweenRows /\ EdgesBetweenRows'
    BY <1>1, EdgesByRow, PTL
<1>10. ASSUME NEW p \in 1 .. n, NEW r \in 1 .. n
       PROVE  IsParent(p, r)' <=> IsParent(p, r)
    <2>1. \A i \in p + 1 .. r - 1 : rows'[i] = rows[i]
        BY <1>1, <1>3
    <2> QED BY <1>3, <2>1 DEF IsParent
<1>11. ASSUME NEW p \in 1 .. n + 1 PROVE ~IsParent(n + 1, p)'
    BY DEF IsParent
<1>12. CASE n = 0
    <2>1. O!FirstRow(d)
        BY <1>5, <1>7, <1>8, <1>12 DEF O!GroupedRow, O!UngroupedRow
    <2>2. Edges' = Edges
        BY <2>1 DEF O!FirstRow, Edges
    <2>3. Edges' = {}
        BY <1>9, <1>12, <2>2 DEF EdgesBetweenRows
    <2> QED BY <1>3, <1>11, <1>12, <2>3 DEF Parented
<1>13. ASSUME n # 0,
              NEW g \in 1 .. n, Edges' = Edges \cup {<<g, n + 1>>},
              g = 1 \/ rows[g].indent < d,
              \A i \in 1 .. n : i > g => rows[i].indent >= d
       PROVE  Parented'
    <2>1. ASSUME NEW p \in 1 .. n PROVE IsParent(p, n + 1)' <=> p = g
        <3>1. ASSUME IsParent(p, n + 1)', p # g PROVE FALSE
            <4>1. /\ p = 1 \/ rows[p].indent < d
                  /\ \A i \in p + 1 .. n : rows[i].indent >= d
                <5>1. /\ p = 1 \/ rows'[p].indent < rows'[n + 1].indent
                      /\ \A i \in p + 1 .. (n + 1) - 1 : rows'[i].indent >= rows'[n + 1].indent
                    BY <3>1 DEF IsParent
                <5>2. (n + 1) - 1 = n /\ \A i \in p + 1 .. n : i \in 1 .. n
                    BY <1>1
                <5> QED BY <1>3, <5>1, <5>2
            <4> QED BY <1>1, <1>3, <1>8, <1>13, <3>1, <4>1
        <3>2. ASSUME p = g PROVE IsParent(p, n + 1)'
            BY <1>1, <1>3, <1>13, <3>2 DEF IsParent
        <3> QED BY <3>1, <3>2
    <2>2. ASSUME NEW p \in 1 .. n + 1, NEW r \in 1 .. n + 1
          PROVE  <<p, r>> \in Edges' <=> IsParent(p, r)'
        <3>1. CASE p = n + 1
            <4>1. <<p, r>> \notin Edges'
                BY <1>1, <1>9, <1>13, <3>1 DEF EdgesBetweenRows
            <4> QED BY <1>11, <3>1, <4>1
        <3>2. CASE p \in 1 .. n /\ r = n + 1
            <4>1. <<p, r>> \notin Edges
                BY <1>1, <1>9, <3>2 DEF EdgesBetweenRows
            <4> QED BY <1>13, <2>1, <3>2, <4>1
        <3>3. CASE p \in 1 .. n /\ r \in 1 .. n
            <4>1. <<p, r>> \in Edges' <=> <<p, r>> \in Edges
                BY <1>1, <1>13, <3>3
            <4> QED BY <1>10, <3>3, <4>1 DEF HInv, Parented
        <3> QED BY <1>1, <3>1, <3>2, <3>3
    <2> QED BY <1>3, <2>2 DEF Parented
<1>14. CASE n # 0
    <2>1. CASE O!GroupedRow(d)
        <3>1. PICK g \in O!Rows : O!IsGroup(g, d) /\ Edges' = Edges \cup {<<g, Len(Depths) + 1>>}
            BY <2>1 DEF O!GroupedRow, Edges
        <3> QED BY <1>6, <1>8, <1>13, <1>14, <3>1 DEF O!IsGroup
    <2>2. CASE O!UngroupedRow(d)
        <3>1. /\ \A i \in 1 .. n : rows[i].indent >= d
              /\ Edges' = Edges \cup {<<1, Len(Depths) + 1>>}
            BY <1>8, <2>2 DEF O!UngroupedRow, Edges
        <3> QED BY <1>1, <1>6, <1>13, <1>14, <3>1
    <2>3. ~O!FirstRow(d)
        BY <1>1, <1>8, <1>14 DEF O!FirstRow
    <2> QED BY <1>5, <1>7, <2>1, <2>2, <2>3
<1> QED BY <1>12, <1>14

\* A fold leaves the children of a row in order.
LEMMA FoldAscends ==
    ASSUME Elements, ChildrenAscend, NextAscends,
           NEW k \in 0 .. Len(nodes), k = 0 => nodes = <<>>,
           NEW r \in 1 .. Len(rows)
    PROVE  \A i, j \in DOMAIN FoldedTo(k)[r] :
              i < j => FoldedTo(k)[r][i] < FoldedTo(k)[r][j]
<1>1. CASE FoldedTo(k)[r] = children[r]
    BY <1>1 DEF ChildrenAscend
<1>2. ASSUME NEW j \in k + 1 .. Len(nodes), j > 1, nodes[j - 1].row = r,
             FoldedTo(k)[r] = Append(children[r], nodes[j].row)
      PROVE  \A i, l \in DOMAIN FoldedTo(k)[r] :
                i < l => FoldedTo(k)[r][i] < FoldedTo(k)[r][l]
    <2>1. j - 1 \in 1 .. Len(nodes) /\ j - 1 < Len(nodes) /\ (j - 1) + 1 = j /\ j \in 1 .. Len(nodes)
        BY <1>2 DEF Elements
    <2>2. \A i \in DOMAIN children[r] : children[r][i] < nodes[j].row
        BY <1>2, <2>1 DEF NextAscends
    <2>3. \A i, l \in DOMAIN children[r] : i < l => children[r][i] < children[r][l]
        BY DEF ChildrenAscend
    <2>4. children[r] \in Seq(1 .. Len(rows)) /\ nodes[j].row \in 1 .. Len(rows)
        BY <2>1 DEF Elements
    <2> DEFINE s == children[r]
               x == nodes[j].row
    <2>5. s \in Seq(1 .. Len(rows)) /\ x \in 1 .. Len(rows)
          /\ (\A i \in DOMAIN s : s[i] < x) /\ \A i, l \in DOMAIN s : i < l => s[i] < s[l]
        BY <2>2, <2>3, <2>4
    <2>6. FoldedTo(k)[r] = Append(s, x)
        BY <1>2
    <2> HIDE DEF s, x
    <2>7. /\ DOMAIN Append(s, x) = 1 .. Len(s) + 1 /\ DOMAIN s = 1 .. Len(s) /\ Len(s) \in Nat
          /\ \A i \in 1 .. Len(s) : Append(s, x)[i] = s[i]
          /\ Append(s, x)[Len(s) + 1] = x
        BY <2>5
    <2> QED BY <2>5, <2>6, <2>7
<1>3. \/ FoldedTo(k)[r] = children[r]
      \/ \E j \in k + 1 .. Len(nodes) :
            /\ j > 1 /\ nodes[j - 1].row = r
            /\ FoldedTo(k)[r] = Append(children[r], nodes[j].row)
    BY Folds
<1> QED BY <1>1, <1>2, <1>3

\* A row that is read comes after all children there are.
LEMMA ReadRowAscends ==
    ASSUME HInv, NEW row \in Row, ReadRow(row)
    PROVE  ChildrenAscend' /\ NextAscends'
<1>1. Elements /\ TypeOK
    BY TypeByElement DEF HInv, IInv
<1>2. PICK k \in 0 .. Len(nodes) : Reads(k, row)
    BY <1>1, Reading
<1>3. PICK n \in Nat : n = Len(rows)
    BY <1>1 DEF Elements
<1>4. (k = 0 => nodes = <<>>) /\ Len(rows') = n + 1 /\ Len(nodes') = k + 1 /\ k \in Nat
    BY <1>1, <1>2, <1>3 DEF Reads, Keeps, Elements
<1>5. /\ \A r \in 1 .. n : children'[r] = FoldedTo(k)[r]
      /\ children'[n + 1] = <<>>
      /\ \A j \in 1 .. k : nodes'[j].row = nodes[j].row
      /\ nodes'[k + 1].row = n + 1
    BY <1>2, <1>3 DEF Reads
<1>6. ChildrenAscend'
    <2>1. ASSUME NEW r \in 1 .. n + 1
          PROVE  \A i, j \in DOMAIN children'[r] : i < j => children'[r][i] < children'[r][j]
        <3>1. CASE r = n + 1
            BY <1>5, <3>1
        <3>2. CASE r \in 1 .. n
            <4>1. \A i, j \in DOMAIN FoldedTo(k)[r] :
                    i < j => FoldedTo(k)[r][i] < FoldedTo(k)[r][j]
                BY <1>1, <1>3, <1>4, <3>2, FoldAscends DEF HInv
            <4> QED BY <1>5, <3>2, <4>1
        <3> QED BY <3>1, <3>2
    <2> QED BY <1>4, <2>1 DEF ChildrenAscend
<1>7. NextAscends'
    <2>1. ASSUME NEW j \in 1 .. k, NEW i \in DOMAIN children'[nodes'[j].row]
          PROVE  children'[nodes'[j].row][i] < nodes'[j + 1].row
        <3>1. j \in 1 .. Len(nodes) /\ nodes[j].row \in 1 .. n
            BY <1>1, <1>3, <1>4 DEF Elements
        <3>2. PICK r \in 1 .. n : r = nodes[j].row
            BY <3>1
        <3>3. children'[nodes'[j].row] = FoldedTo(k)[r] /\ FoldedTo(k)[r] \in Seq(1 .. n)
            BY <1>1, <1>3, <1>4, <1>5, <3>2, Folds
        <3>4. CASE j = k
            BY <1>5, <2>1, <3>3, <3>4
        <3>5. CASE j < k
            <4>1. Child(k, r) = {}
                <5>1. ASSUME NEW l \in k + 1 .. Len(nodes), nodes[l - 1].row = r PROVE FALSE
                    <6>1. j < l - 1 /\ l - 1 \in 1 .. Len(nodes)
                        BY <1>1, <3>5, <1>4, <5>1 DEF Elements
                    <6>2. nodes[j].row < nodes[l - 1].row
                        BY <1>1, <3>1, <6>1 DEF HInv, IInv, Descending, Elements
                    <6> QED BY <3>1, <3>2, <5>1, <6>2
                <5> QED BY <5>1 DEF Child
            <4>2. FoldedTo(k)[r] = children[r]
                BY <1>1, <1>3, <4>1 DEF FoldedTo, Elements
            <4>3. children[r][i] < nodes[j + 1].row
                <5>1. j < Len(nodes)
                    BY <1>1, <1>4, <3>5 DEF Elements
                <5>2. \A l \in DOMAIN children[r] : children[r][l] < nodes[j + 1].row
                    BY <3>1, <3>2, <5>1 DEF HInv, NextAscends
                <5> QED BY <2>1, <3>3, <4>2, <5>2
            <4>4. nodes'[j + 1].row = nodes[j + 1].row
                BY <1>4, <1>5, <3>5
            <4> QED BY <3>3, <4>2, <4>3, <4>4
        <3> QED BY <1>4, <3>4, <3>5
    <2>2. \A j \in 1 .. Len(nodes') : j < Len(nodes') => j \in 1 .. k
        BY <1>4
    <2> QED BY <2>1, <2>2 DEF NextAscends
<1> QED BY <1>6, <1>7

\* The tree is the outline of the text all along.
THEOREM TreeIsTheOutline == Spec => []HInv
<1>1. Init => HInv
    <2> SUFFICES ASSUME Init PROVE HInv
        OBVIOUS
    <2>1. Len(rows) = 0
        BY DEF Init
    <2>2. ChildrenAscend /\ NextAscends
        BY DEF Init, ChildrenAscend, NextAscends
    <2> QED BY <2>1, <2>2, InitInv DEF HInv, Parented, ListIsFolded, Init
<1>2. HInv /\ IInv' /\ [Next]_vars => HInv'
    <2> SUFFICES ASSUME HInv, IInv', [Next]_vars PROVE HInv'
        OBVIOUS
    <2>1. ASSUME NEW row \in Row, ReadRow(row) PROVE HInv'
        <3>1. pc' = "rows"
            BY <2>1 DEF ReadRow
        <3>2. Len(rows) \in Nat
            BY DEF HInv, IInv, TypeOK
        <3>3. row.indent \in Nat
            BY IndentsAssumption DEF Row
        <3> QED BY <2>1, <3>1, <3>2, <3>3, ReadRowParented, ReadRowAscends DEF HInv, ListIsFolded
    <2>2. CASE Finish
        <3>1. Edges' = Edges /\ rows' = rows
            BY <2>2, FinishRefines DEF HInv, Finish
        <3>2. Len(nodes') <= 1
            <4>1. nodes' = <<>> \/ nodes' = <<nodes[1]>>
                BY <2>2 DEF Finish
            <4> QED BY <4>1
        <3>3. ChildrenAscend' /\ NextAscends'
            <4>1. Elements
                BY TypeByElement DEF HInv, IInv
            <4>2. 1 \in 0 .. Len(nodes) \/ rows = <<>>
                BY <4>1 DEF HInv, IInv, TopIsFirst, Elements
            <4>3. \A r \in 1 .. Len(rows) : \A i, j \in DOMAIN FoldedTo(1)[r] :
                    i < j => FoldedTo(1)[r][i] < FoldedTo(1)[r][j]
                BY <4>1, <4>2, FoldAscends DEF HInv
            <4>4. ChildrenAscend'
                BY <2>2, <4>3 DEF Finish, ChildrenAscend
            <4> QED BY <3>2, <4>4, <4>1 DEF NextAscends
        <3> QED BY <3>1, <3>2, <3>3 DEF HInv, Parented, IsParent, ListIsFolded
    <2>3. CASE UNCHANGED vars
        BY <2>3 DEF vars, HInv, Parented, ListIsFolded, ChildrenAscend, NextAscends, IsParent, Edges, FoldedEdges, ListEdges
    <2> QED BY <2>1, <2>2, <2>3 DEF Next
<1> QED BY <1>1, <1>2, Invariant, PTL DEF Spec

\* At the end of a text that has rows, the children of a row are its rows.
LEMMA TreeAtTheEnd == HInv /\ HasTree => DoneTree
<1> SUFFICES ASSUME HInv, HasTree PROVE DoneTree
    OBVIOUS
<1>1. Elements
    BY TypeByElement DEF HInv, IInv
<1>2. rows \in Seq(Row) /\ Len(rows) \in Nat \ {0} /\ DOMAIN rows = 1 .. Len(rows)
    BY DEF HInv, IInv, TypeOK, HasTree
<1>3. \A r \in 1 .. Len(rows) : rows[r].indent \in Nat /\ rows[r].state \in States
    <2>1. \A r \in 1 .. Len(rows) : rows[r] \in Row
        BY <1>2
    <2> QED BY <1>1, <2>1 DEF Elements, Row
<1>4. ListEdges = {}
    BY <1>1 DEF HInv, ListIsFolded, HasTree, ListEdges, Elements
<1>5. ASSUME NEW p \in 1 .. Len(rows), NEW r \in 1 .. Len(rows)
      PROVE  r \in Children(p) <=> IsParent(p, r)
    <2>1. <<p, r>> \in FoldedEdges <=> IsParent(p, r)
        BY <1>4 DEF HInv, Parented, Edges
    <2>2. <<p, r>> \in FoldedEdges <=> \E i \in DOMAIN children[p] : children[p][i] = r
        BY <1>2 DEF FoldedEdges
    <2> QED BY <2>1, <2>2 DEF Children, Range
<1> QED BY <1>1, <1>2, <1>3, <1>5 DEF DoneTree, Elements, HInv

--------------------------------------------------------------------------------
(* The shape of the tree.                                                   *)

\* Every row but the first is under an earlier one.
LEMMA ParentOf ==
    ASSUME DoneTree, NEW r \in 2 .. Len(rows)
    PROVE  \E p \in 1 .. r - 1 : IsParent(p, r)
<1> DEFINE shallower == {i \in 1 .. r - 1 : rows[i].indent < rows[r].indent}
<1>1. \A i \in 1 .. r : rows[i].indent \in Nat
    BY DEF DoneTree
<1>2. CASE shallower = {}
    <2>1. \A i \in 1 .. r - 1 : rows[i].indent >= rows[r].indent
        BY <1>1, <1>2
    <2> QED BY <2>1 DEF IsParent
<1>3. CASE shallower # {}
    <2>1. r \in Nat /\ shallower \in SUBSET (0 .. r)
        OBVIOUS
    <2>2. PICK p \in shallower : \A i \in shallower : i <= p
        <3> HIDE DEF shallower
        <3> QED BY <1>3, <2>1, GreatestNumber
    <2>3. \A i \in p + 1 .. r - 1 : rows[i].indent >= rows[r].indent
        BY <1>1, <2>2
    <2> QED BY <2>2, <2>3 DEF IsParent
<1> QED BY <1>2, <1>3

\* Children come later in the text.
LEMMA ChildrenAreLater ==
    ASSUME DoneTree, NEW v \in 1 .. Len(rows)
    PROVE  Children(v) \subseteq v + 1 .. Len(rows)
<1> SUFFICES ASSUME NEW c \in Children(v) PROVE c \in v + 1 .. Len(rows)
    OBVIOUS
<1>1. c \in 1 .. Len(rows)
    BY DEF DoneTree, Children, Range
<1>2. v < c
    BY <1>1 DEF DoneTree, IsParent
<1> QED BY <1>1, <1>2 DEF DoneTree

\* The rows without children are the leaves of the text.
LEMMA LeafHasNoChildren ==
    ASSUME DoneTree, NEW r \in 1 .. Len(rows)
    PROVE  children[r] = <<>> <=> IsLeaf(r)
<1>1. children[r] \in Seq(1 .. Len(rows)) /\ Len(rows) \in Nat
    BY DEF DoneTree
<1>2. \A i \in 1 .. Len(rows) : rows[i].indent \in Nat
    BY DEF DoneTree
<1>3. ASSUME children[r] # <<>> PROVE ~IsLeaf(r)
    <2>1. 1 \in DOMAIN children[r] /\ children[r][1] \in 1 .. Len(rows)
        BY <1>1, <1>3
    <2>2. PICK c \in 1 .. Len(rows) : c \in Children(r)
        BY <2>1 DEF Children, Range
    <2>3. IsParent(r, c)
        BY <2>2 DEF DoneTree
    <2>4. r < c /\ (r # 1 => rows[r].indent < rows[c].indent)
        BY <2>3 DEF IsParent
    <2>5. r # 1 => rows[r + 1].indent > rows[r].indent
        <3>1. CASE c = r + 1
            BY <1>2, <2>4, <3>1
        <3>2. CASE c # r + 1
            <4>1. r + 1 \in r + 1 .. c - 1 /\ r + 1 \in 1 .. Len(rows)
                BY <1>1, <2>4, <3>2
            <4>2. rows[r + 1].indent >= rows[c].indent
                BY <2>3, <4>1 DEF IsParent
            <4> QED BY <1>2, <2>4, <4>1, <4>2
        <3> QED BY <3>1, <3>2
    <2>6. r # Len(rows) /\ r + 1 \in 1 .. Len(rows)
        BY <1>1, <2>4
    <2> QED BY <1>2, <2>5, <2>6 DEF IsLeaf
<1>4. ASSUME ~IsLeaf(r) PROVE children[r] # <<>>
    <2>1. r + 1 \in 1 .. Len(rows)
        BY <1>1, <1>4 DEF IsLeaf
    <2>2. r = 1 \/ rows[r].indent < rows[r + 1].indent
        BY <1>2, <1>4, <2>1 DEF IsLeaf
    <2>3. IsParent(r, r + 1)
        BY <2>2 DEF IsParent
    <2>4. r + 1 \in Children(r)
        BY <2>1, <2>3 DEF DoneTree
    <2> QED BY <2>4 DEF Children, Range
<1> QED BY <1>3, <1>4

\* So it is a tree of the kind that walks are proved about.
Below == [v \in 1 .. Len(rows) |-> Children(v)]

LEMMA BelowIsATree ==
    ASSUME DoneTree
    PROVE  IsTree(Len(rows), Below)
<1>1. ASSUME NEW v \in 1 .. Len(rows)
      PROVE  Children(v) \subseteq v + 1 .. Len(rows) /\ Children(v) \in SUBSET (1 .. Len(rows))
    <2>1. Children(v) \subseteq v + 1 .. Len(rows)
        BY ChildrenAreLater
    <2> QED BY <2>1 DEF DoneTree
<1>2. ASSUME NEW r \in 2 .. Len(rows)
      PROVE  \E p \in 1 .. Len(rows) : r \in Children(p)
    <2>1. PICK p \in 1 .. r - 1 : IsParent(p, r)
        BY ParentOf
    <2>2. p \in 1 .. Len(rows) /\ r \in 1 .. Len(rows)
        BY DEF DoneTree
    <2> QED BY <2>1, <2>2 DEF DoneTree
<1> QED BY <1>1, <1>2 DEF IsTree, Below, DoneTree

--------------------------------------------------------------------------------
(* The walks of the tree.                                                   *)

\* TreeHealth is the grade that the root gets.
LEMMA TreeHealthIs ==
    ASSUME DoneTree
    PROVE  \E h \in [1 .. Len(rows) -> HealthGrades] :
              /\ \A v \in 1 .. Len(rows) :
                    h[v] = Worst({Grade(rows[v].state)} \cup {h[c] : c \in Children(v)})
              /\ TreeHealth = h[Root]
<1> DEFINE V == 1 .. Len(rows)
           value(v, f) == Worst({Grade(rows[v].state)} \cup {f[c] : c \in Children(v)})
           step == [v \in V |-> [f \in [V -> HealthGrades] |-> value(v, f)]]
           walked(f) == f = [v \in V |-> value(v, f)]
           health == CHOOSE f : walked(f)
<1>1. \A grades : Worst(grades) \in HealthGrades
    BY DEF Worst, HealthGrades
<1>2. IsWalk(Len(rows), Below, HealthGrades, step)
    <2>1. step \in [V -> [[V -> HealthGrades] -> HealthGrades]]
        BY <1>1
    <2>2. ASSUME NEW v \in V, NEW f \in [V -> HealthGrades], NEW g \in [V -> HealthGrades],
                 \A c \in Children(v) : f[c] = g[c]
          PROVE  step[v][f] = step[v][g]
        <3>1. {f[c] : c \in Children(v)} = {g[c] : c \in Children(v)}
            BY <2>2
        <3> QED BY <3>1
    <2>3. HealthGrades # {}
        BY DEF HealthGrades
    <2> HIDE DEF step
    <2> QED BY <2>1, <2>2, <2>3 DEF IsWalk, Below
<1>3. PICK h : IsComputed(Len(rows), HealthGrades, step, h)
    <2> HIDE DEF step
    <2> QED BY <1>2, BelowIsATree, Walks
<1>4. h \in [V -> HealthGrades] /\ \A v \in V : h[v] = step[v][h]
    <2> HIDE DEF step
    <2> QED BY <1>3 DEF IsComputed
<1>6. walked(h)
    BY <1>4
<1>7. walked(health)
    <2> HIDE DEF walked
    <2> QED BY <1>6
<1>8. health \in [V -> HealthGrades] /\ \A v \in V : health[v] = value(v, health)
    <2>1. \A v \in V : health[v] = value(v, health)
        <3> HIDE DEF health, value
        <3> QED BY <1>7
    <2>2. \A v \in V : value(v, health) \in HealthGrades
        BY <1>1
    <2> HIDE DEF health, value
    <2> QED BY <1>7, <2>1, <2>2
<1>9. TreeHealth = health[Root]
    <2>1. DOMAIN rows = V
        BY DEF DoneTree
    <2> QED BY <2>1 DEF TreeHealth
<1> HIDE DEF health
<1> QED BY <1>8, <1>9

\* TreeHealth by the text.
Gone(r) == rows[r].state \in {"faulted", "removed", "unavail"}
Sound(r) == rows[r].state \in {"online", "offline"}

LEMMA TreeHealthByText ==
    ASSUME DoneTree
    PROVE  /\ TreeHealth \in HealthGrades
           /\ TreeHealth = "fault" <=> \E r \in 1 .. Len(rows) : Gone(r)
           /\ TreeHealth = "healthy" <=> \A r \in 1 .. Len(rows) : Sound(r)
<1> DEFINE V == 1 .. Len(rows)
<1>1. PICK h \in [V -> HealthGrades] :
          /\ \A v \in V : h[v] = Worst({Grade(rows[v].state)} \cup {h[c] : c \in Children(v)})
          /\ TreeHealth = h[Root]
    BY TreeHealthIs
<1>2. Root \in V
    BY DEF DoneTree, Root
<1>3. ASSUME NEW v \in V
      PROVE  /\ Grade(rows[v].state) = "fault" <=> Gone(v)
             /\ Grade(rows[v].state) = "healthy" <=> Sound(v)
    <2>1. rows[v].state \in States
        BY DEF DoneTree
    <2> QED BY <2>1 DEF States, Grade, TabSeverity, Gone, Sound
<1>4. ASSUME NEW v \in V
      PROVE  /\ h[v] = "fault" <=> (Gone(v) \/ \E c \in Children(v) : h[c] = "fault")
             /\ h[v] # "healthy" <=> (~Sound(v) \/ \E c \in Children(v) : h[c] # "healthy")
    <2> DEFINE below == {Grade(rows[v].state)} \cup {h[c] : c \in Children(v)}
    <2>1. h[v] = Worst(below)
        BY <1>1
    <2>2. Grade(rows[v].state) \in HealthGrades
        BY DEF Grade, HealthGrades
    <2>3. \A c \in Children(v) : h[c] \in HealthGrades
        BY ChildrenAreLater, <1>1
    <2>4. below \subseteq HealthGrades
        BY <2>2, <2>3
    <2> HIDE DEF below
    <2>5. h[v] = "fault" <=> "fault" \in below
        BY <2>1 DEF Worst
    <2>6. h[v] # "healthy" <=> \E g \in below : g # "healthy"
        BY <2>1, <2>4 DEF Worst, HealthGrades
    <2> QED BY <1>3, <2>5, <2>6 DEF below
<1>5. TreeHealth = "fault" <=> \E r \in V : Gone(r)
    <2> DEFINE G == {v \in V : h[v] = "fault"}
               own == {v \in V : Gone(v)}
    <2>1. \A v \in V : v \in G <=> (v \in own \/ \E c \in Children(v) : c \in G)
        BY <1>4, ChildrenAreLater
    <2>2. G \in SUBSET V /\ own \in SUBSET V
        OBVIOUS
    <2>3. Root \in G <=> own # {}
        <3> HIDE DEF G, own
        <3>1. \A v \in V : v \in G <=> (v \in own \/ \E c \in Below[v] : c \in G)
            BY <2>1 DEF Below
        <3> QED BY <2>2, <3>1, BelowIsATree, Arrives DEF Root
    <2> QED BY <1>1, <1>2, <2>3
<1>6. TreeHealth = "healthy" <=> \A r \in V : Sound(r)
    <2> DEFINE G == {v \in V : h[v] # "healthy"}
               own == {v \in V : ~Sound(v)}
    <2>1. \A v \in V : v \in G <=> (v \in own \/ \E c \in Children(v) : c \in G)
        BY <1>4, ChildrenAreLater
    <2>2. G \in SUBSET V /\ own \in SUBSET V
        OBVIOUS
    <2>3. Root \in G <=> own # {}
        <3> HIDE DEF G, own
        <3>1. \A v \in V : v \in G <=> (v \in own \/ \E c \in Below[v] : c \in G)
            BY <2>1 DEF Below
        <3> QED BY <2>2, <3>1, BelowIsATree, Arrives DEF Root
    <2> QED BY <1>1, <1>2, <2>3
<1> QED BY <1>1, <1>2, <1>5, <1>6
\* HasRecoverableLeaf and HasFaulted by the text.
LEMMA RecoverableByText ==
    ASSUME DoneTree
    PROVE  HasRecoverableLeaf <=>
              \/ \E r \in 1 .. Len(rows) : rows[r].state = "unavail"
              \/ \E r \in 1 .. Len(rows) : IsLeaf(r) /\ rows[r].state = "degraded"
<1> DEFINE V == 1 .. Len(rows)
           own == {v \in V : rows[v].state = "unavail" \/ (IsLeaf(v) /\ rows[v].state = "degraded")}
           walked(f) == f = [v \in V |->
                                \/ rows[v].state = "unavail"
                                \/ children[v] = <<>> /\ rows[v].state = "degraded"
                                \/ \E c \in Children(v) : f[c]]
           recoverable == CHOOSE f : walked(f)
<1>1. ASSUME NEW f PROVE walked(f) <=> Finds(Len(rows), Below, own, f)
    <2>1. \A v \in V : v \in own <=>
              (rows[v].state = "unavail" \/ (children[v] = <<>> /\ rows[v].state = "degraded"))
        BY LeafHasNoChildren
    <2> HIDE DEF own
    <2> QED BY <2>1 DEF Finds, Below
<1>2. own \in SUBSET V
    OBVIOUS
<1>3. recoverable[Root] <=> own # {}
    <2> HIDE DEF own, walked
    <2>1. \E f : walked(f)
        BY <1>1, <1>2, BelowIsATree, Finding
    <2>2. walked(recoverable)
        BY <2>1
    <2> HIDE DEF recoverable
    <2> QED BY <1>1, <1>2, <2>2, BelowIsATree, Finding DEF Root
<1>4. HasRecoverableLeaf <=> recoverable[Root]
    <2>1. DOMAIN rows = V
        BY DEF DoneTree
    <2> QED BY <2>1 DEF HasRecoverableLeaf
<1> HIDE DEF recoverable
<1> QED BY <1>3, <1>4

LEMMA FaultedByText ==
    ASSUME DoneTree
    PROVE  HasFaulted <=> \E r \in 1 .. Len(rows) : rows[r].state = "faulted"
<1> DEFINE V == 1 .. Len(rows)
           own == {v \in V : rows[v].state = "faulted"}
           walked(f) == f = [v \in V |->
                                \/ rows[v].state = "faulted"
                                \/ \E c \in Children(v) : f[c]]
           faulted == CHOOSE f : walked(f)
<1>1. ASSUME NEW f PROVE walked(f) <=> Finds(Len(rows), Below, own, f)
    BY DEF Finds, Below
<1>2. own \in SUBSET V
    OBVIOUS
<1>3. faulted[Root] <=> own # {}
    <2> HIDE DEF own, walked
    <2>1. \E f : walked(f)
        BY <1>1, <1>2, BelowIsATree, Finding
    <2>2. walked(faulted)
        BY <2>1
    <2> HIDE DEF faulted
    <2> QED BY <1>1, <1>2, <2>2, BelowIsATree, Finding DEF Root
<1>4. HasFaulted <=> faulted[Root]
    <2>1. DOMAIN rows = V
        BY DEF DoneTree
    <2> QED BY <2>1 DEF HasFaulted
<1> HIDE DEF faulted
<1> QED BY <1>3, <1>4

--------------------------------------------------------------------------------
(* The properties.                                                          *)

\* The health of a tab is that of the worst row, for every text.
THEOREM TabShowsTheWorst == Spec => []HealthIsTheWorstRow
<1>1. DoneTree => HealthIsTheWorstRow
    BY TreeHealthByText DEF DoneTree, HealthIsTheWorstRow, Gone, Sound
<1>2. ~HasTree => HealthIsTheWorstRow
    BY DEF HealthIsTheWorstRow
<1> QED BY <1>1, <1>2, TreeAtTheEnd, TreeIsTheOutline, PTL

\* A scan counts for the retry as the theorem says.
LEMMA RetryByText ==
    ASSUME DoneTree, NEW scan \in Scans
    PROVE  /\ scan.errors \in 0 .. 1
           /\ RetryNeeded(scan) <=>
                  \/ \E r \in 1 .. Len(rows) : rows[r].state = "unavail"
                  \/ \E r \in 1 .. Len(rows) : IsLeaf(r) /\ rows[r].state = "degraded"
                  \/ scan.errors > 0 /\ scan.state \in {"idle", "scanning", "canceled"}
<1>1. /\ scan.errors \in 0 .. 1
      /\ (scan # NoScan /\ scan.errors > 0 /\ scan.state # "finished")
            <=> (scan.errors > 0 /\ scan.state \in {"idle", "scanning", "canceled"})
    BY DEF Scans, NoScan
<1> QED BY <1>1, RecoverableByText DEF RetryNeeded

\* A retry is asked for when something can still recover, and only then.
THEOREM RetryIsForWhatRecovers == Spec => []RetryOnlyWhatRecovers
<1>1. DoneTree => RetryOnlyWhatRecovers
    BY RetryByText DEF DoneTree, RetryOnlyWhatRecovers
<1>2. ~HasTree => RetryOnlyWhatRecovers
    BY DEF RetryOnlyWhatRecovers
<1> QED BY <1>1, <1>2, TreeAtTheEnd, TreeIsTheOutline, PTL

\* What the badge of the header and the mark of the tab say together: REPLACE only
\* under a fault mark; over a healthy tab only the RETRY of a scan's errors; under a
\* fault mark RETRY for anything unavailable or still recovering, else REPLACE for
\* what is faulted, else no badge.
THEOREM BadgeByTheTab == Spec => []BadgeBesideTab
<1>1. ASSUME DoneTree, NEW scan \in Scans \ {NoScan}
      PROVE  LET has(state) == \E r \in 1 .. Len(rows) : rows[r].state = state
                 weak == \E r \in 1 .. Len(rows) : IsLeaf(r) /\ rows[r].state = "degraded"
                 errors == scan.errors > 0 /\ scan.state # "finished"
                 badge == HeaderBadge(scan)
             IN  /\ badge = "REPLACE" => TreeHealth = "fault"
                 /\ TreeHealth = "healthy" => badge = IF errors THEN "RETRY" ELSE "none"
                 /\ has("unavail") => TreeHealth = "fault" /\ badge = "RETRY"
                 /\ TreeHealth = "fault" /\ ~has("unavail") =>
                       badge = IF weak \/ errors THEN "RETRY"
                               ELSE IF has("faulted") THEN "REPLACE" ELSE "none"
    <2> DEFINE has(state) == \E r \in 1 .. Len(rows) : rows[r].state = state
               weak == \E r \in 1 .. Len(rows) : IsLeaf(r) /\ rows[r].state = "degraded"
               errors == scan.errors > 0 /\ scan.state # "finished"
    <2>1. HeaderBadge(scan) = IF RetryNeeded(scan) THEN "RETRY"
                              ELSE IF HasFaulted THEN "REPLACE" ELSE "none"
        BY DEF HeaderBadge, RetryBadge
    <2>2. RetryNeeded(scan) <=> (errors \/ HasRecoverableLeaf)
        BY DEF RetryNeeded
    <2>3. /\ HasRecoverableLeaf <=> (has("unavail") \/ weak)
          /\ HasFaulted <=> has("faulted")
        BY <1>1, RecoverableByText, FaultedByText
    <2>4. /\ has("unavail") \/ has("faulted") => TreeHealth = "fault"
          /\ TreeHealth = "healthy" => ~has("unavail") /\ ~weak /\ ~has("faulted")
        <3>1. \A r \in 1 .. Len(rows) :
                  /\ rows[r].state \in {"faulted", "unavail"} => Gone(r)
                  /\ rows[r].state \in {"unavail", "degraded", "faulted"} => ~Sound(r)
            BY DEF Gone, Sound
        <3> QED BY <1>1, <3>1, TreeHealthByText
    <2> HIDE DEF has, weak, errors
    <2>5. /\ HeaderBadge(scan) = "REPLACE" => TreeHealth = "fault"
          /\ TreeHealth = "healthy" => HeaderBadge(scan) = IF errors THEN "RETRY" ELSE "none"
          /\ has("unavail") => TreeHealth = "fault" /\ HeaderBadge(scan) = "RETRY"
          /\ TreeHealth = "fault" /\ ~has("unavail") =>
                HeaderBadge(scan) = IF weak \/ errors THEN "RETRY"
                                    ELSE IF has("faulted") THEN "REPLACE" ELSE "none"
        BY <2>1, <2>2, <2>3, <2>4
    <2> QED BY <2>5 DEF has, weak, errors
<1>2. DoneTree => BadgeBesideTab
    <2>1. DoneTree => DOMAIN rows = 1 .. Len(rows)
        BY DEF DoneTree
    <2> QED BY <1>1, <2>1 DEF BadgeBesideTab
<1>3. ~HasTree => BadgeBesideTab
    BY DEF BadgeBesideTab
<1> QED BY <1>2, <1>3, TreeAtTheEnd, TreeIsTheOutline, PTL

\* The marks of the tab bar tell every health and a running scan apart without
\* colors, and a scan hides no row that is gone.
THEOREM MarksSuffice == Spec => []MarksAreEnough
<1>1. ASSUME NEW h \in HealthGrades, NEW s \in BOOLEAN
      PROVE  /\ DOMAIN TabMarkers(h, s) = 1 .. Len(TabMarkers(h, s))
             /\ Len(TabMarkers(h, s)) = (IF h = "healthy" THEN 0 ELSE 1) + (IF s THEN 1 ELSE 0)
             /\ \A i \in 1 .. Len(TabMarkers(h, s)) :
                   TabMarkers(h, s)[i] = IF i = 1 /\ h # "healthy" THEN h ELSE "scan"
    <2>1. Marker(h) = IF h = "healthy" THEN <<>> ELSE <<h>>
        BY DEF HealthGrades, Marker
    <2>2. PICK marks : marks = TabMarkers(h, s)
        OBVIOUS
    <2>3. PICK n : n = (IF h = "healthy" THEN 0 ELSE 1) + (IF s THEN 1 ELSE 0)
        OBVIOUS
    <2>4. /\ DOMAIN marks = 1 .. Len(marks) /\ Len(marks) = n
          /\ \A i \in 1 .. Len(marks) :
                marks[i] = IF i = 1 /\ h # "healthy" THEN h ELSE "scan"
        <3>1. CASE h = "healthy" /\ s
            <4>1. n = 1 /\ marks = <<>> \o <<"scan">>
                BY <2>1, <2>2, <2>3, <3>1 DEF TabMarkers
            <4>2. marks = <<"scan">>
                BY <4>1
            <4> QED BY <3>1, <4>1, <4>2
        <3>2. CASE h = "healthy" /\ ~s
            <4>1. n = 0 /\ marks = <<>>
                BY <2>1, <2>2, <2>3, <3>2 DEF TabMarkers
            <4> QED BY <3>2, <4>1
        <3>3. CASE h # "healthy" /\ s
            <4> DEFINE first == <<h>>
                       second == <<"scan">>
            <4>1. n = 2
                BY <2>3, <3>3
            <4>2. marks = first \o second
                BY <2>1, <2>2, <3>3, Zenon DEF TabMarkers
            <4>3. /\ first \in Seq({h, "scan"}) /\ Len(first) = 1 /\ first[1] = h
                  /\ second \in Seq({h, "scan"}) /\ Len(second) = 1 /\ second[1] = "scan"
                OBVIOUS
            <4> HIDE DEF first, second
            <4>4. /\ first \o second \in Seq({h, "scan"})
                  /\ Len(first \o second) = Len(first) + Len(second)
                  /\ \A i \in 1 .. Len(first) + Len(second) :
                        (first \o second)[i] =
                            IF i <= Len(first) THEN first[i] ELSE second[i - Len(first)]
                <5> DEFINE S == {h, "scan"}
                <5>1. first \in Seq(S) /\ second \in Seq(S)
                    BY <4>3
                <5> HIDE DEF S
                <5> QED BY <5>1, ConcatProperties DEF S
            <4>5. (first \o second)[1] = first[1] /\ (first \o second)[2] = second[1]
                BY <4>3, <4>4
            <4>6. marks[1] = h /\ marks[2] = "scan" /\ DOMAIN marks = 1 .. 2 /\ Len(marks) = 2
                BY <4>2, <4>3, <4>4, <4>5
            <4> QED BY <3>3, <4>1, <4>6
        <3>4. CASE h # "healthy" /\ ~s
            <4>1. n = 1 /\ marks = <<h>> \o <<>>
                BY <2>1, <2>2, <2>3, <3>4 DEF TabMarkers
            <4>2. marks = <<h>>
                BY <4>1
            <4> QED BY <3>4, <4>1, <4>2
        <3> QED BY <3>1, <3>2, <3>3, <3>4
    <2> QED BY <2>2, <2>3, <2>4, Zenon
<1>2. ASSUME NEW g \in HealthGrades, NEW h \in HealthGrades,
             NEW s \in BOOLEAN, NEW t \in BOOLEAN,
             TabMarkers(g, s) = TabMarkers(h, t)
      PROVE  g = h /\ s = t
    <2>1. /\ (IF g = "healthy" THEN 0 ELSE 1) + (IF s THEN 1 ELSE 0)
                = (IF h = "healthy" THEN 0 ELSE 1) + (IF t THEN 1 ELSE 0)
          /\ ~(g = "healthy" /\ ~s) =>
                (IF g # "healthy" THEN g ELSE "scan") = (IF h # "healthy" THEN h ELSE "scan")
        BY <1>1, <1>2
    <2> QED BY <2>1 DEF HealthGrades
<1>3. ASSUME NEW h \in HealthGrades, NEW s \in BOOLEAN
      PROVE  /\ h = "fault" <=> "fault" \in Range(TabMarkers(h, s))
             /\ h = "fault" <=> TabColor(h, s, FALSE) = "red"
    <2>1. h = "fault" =>
              1 \in DOMAIN TabMarkers(h, s) /\ TabMarkers(h, s)[1] = "fault"
        BY <1>1
    <2>2. h # "fault" => \A i \in DOMAIN TabMarkers(h, s) : TabMarkers(h, s)[i] # "fault"
        BY <1>1
    <2>3. h = "fault" <=> "fault" \in Range(TabMarkers(h, s))
        BY <2>1, <2>2 DEF Range
    <2>4. h = "fault" <=> TabColor(h, s, FALSE) = "red"
        BY DEF TabColor, HealthGrades
    <2> QED BY <2>3, <2>4
<1>4. DoneTree => MarksAreEnough
    <2> SUFFICES ASSUME DoneTree PROVE MarksAreEnough
        OBVIOUS
    <2>1. /\ TreeHealth \in HealthGrades
          /\ TreeHealth = "fault" <=>
                \E r \in DOMAIN rows : rows[r].state \in {"faulted", "removed", "unavail"}
        BY TreeHealthByText DEF DoneTree, Gone
    <2> QED BY <1>2, <1>3, <2>1 DEF MarksAreEnough
<1>5. ~HasTree => MarksAreEnough
    BY DEF MarksAreEnough
<1> QED BY <1>4, <1>5, TreeAtTheEnd, TreeIsTheOutline, PTL

--------------------------------------------------------------------------------
(* Flattening: FlattenSeq is a recursion along the sequence.                *)

IsFlattening(seqs, flat) ==
    /\ DOMAIN flat = 1 .. Len(seqs)
    /\ flat[1] = seqs[1]
    /\ \A i \in 2 .. Len(seqs) : flat[i] = flat[i - 1] \o seqs[i]

LEMMA Flattening ==
    ASSUME NEW X, NEW seqs \in Seq(Seq(X)), seqs # <<>>
    PROVE  \E flat \in [1 .. Len(seqs) -> Seq(X)] :
              IsFlattening(seqs, flat) /\ FlattenSeq(seqs) = flat[Len(seqs)]
<1> DEFINE A == Seq(X)
           walked(f) == f = [i \in 1 .. Len(seqs) |->
                                IF i = 1 THEN seqs[i] ELSE f[i - 1] \o seqs[i]]
           flatten == CHOOSE f : walked(f)
<1>1. PICK k \in Nat : k = Len(seqs) /\ k # 0
    OBVIOUS
<1>2. /\ \A i \in 1 .. k : seqs[i] \in A
      /\ \A s, t \in A : s \o t \in A
    BY <1>1
<1> DEFINE step == [i \in 1 .. k |-> [s \in A |-> IF i = 1 THEN seqs[1] ELSE s \o seqs[i]]]
<1>3. PICK f \in [0 .. k -> A] : \A i \in 1 .. k : f[i] = step[i][f[i - 1]]
    <2>1. seqs[1] \in A
        BY <1>1, <1>2
    <2>2. step \in [1 .. k -> [A -> A]]
        <3> HIDE DEF A
        <3> QED BY <1>1, <1>2, <2>1
    <2> DEFINE first == seqs[1]
    <2> HIDE DEF step, A, first
    <2>3. IsStepUp(k, A, first, step)
        BY <2>1, <2>2 DEF IsStepUp, first
    <2>4. PICK f : IsCarried(k, A, first, step, f)
        BY <2>3, Recursion, Zenon
    <2> QED BY <2>4 DEF IsCarried
<1> DEFINE g == [i \in 1 .. k |-> f[i]]
<1>4. walked(g)
    <2> HIDE DEF A
    <2>1. ASSUME NEW i \in 1 .. k
          PROVE  g[i] = IF i = 1 THEN seqs[i] ELSE g[i - 1] \o seqs[i]
        <3>1. i - 1 \in 0 .. k /\ (i # 1 => i - 1 \in 1 .. k)
            OBVIOUS
        <3>2. f[i - 1] \in A
            BY <3>1
        <3>3. f[i] = IF i = 1 THEN seqs[1] ELSE f[i - 1] \o seqs[i]
            BY <1>3, <3>2
        <3> QED BY <3>1, <3>3
    <2> HIDE DEF g
    <2>2. g = [i \in 1 .. k |-> g[i]]
        BY DEF g
    <2> QED BY <1>1, <2>1, <2>2
<1>5. walked(flatten)
    <2> HIDE DEF walked, g
    <2> QED BY <1>4
<1>6. FlattenSeq(seqs) = flatten[Len(seqs)]
    BY <1>1 DEF FlattenSeq
<1> HIDE DEF flatten
<1>7. /\ DOMAIN flatten = 1 .. k /\ flatten[1] = seqs[1]
      /\ \A i \in 2 .. k : flatten[i] = flatten[i - 1] \o seqs[i]
    <2> DEFINE body(i) == IF i = 1 THEN seqs[i] ELSE flatten[i - 1] \o seqs[i]
    <2>1. flatten = [i \in 1 .. k |-> body(i)]
        BY <1>1, <1>5
    <2> HIDE DEF body
    <2>2. DOMAIN flatten = 1 .. k /\ \A i \in 1 .. k : flatten[i] = body(i)
        BY <2>1
    <2>3. \A i \in 2 .. k : i # 1 /\ i \in 1 .. k
        OBVIOUS
    <2>4. 1 \in 1 .. k
        BY <1>1
    <2> QED BY <2>2, <2>3, <2>4, Zenon DEF body
<1>8. \A i \in 1 .. k : flatten[i] \in A
    <2> DEFINE S == {i \in 1 .. k : flatten[i] \in A}
    <2>1. 1 \in S
        BY <1>1, <1>2, <1>7
    <2>2. \A i \in 1 .. k - 1 : i \in S => i + 1 \in S
        <3> SUFFICES ASSUME NEW i \in 1 .. k - 1, i \in S PROVE i + 1 \in S
            OBVIOUS
        <3>1. i + 1 \in 2 .. k /\ i + 1 \in 1 .. k /\ (i + 1) - 1 = i
            BY <1>1
        <3>2. flatten[i + 1] = flatten[i] \o seqs[i + 1]
            BY <1>7, <3>1
        <3> QED BY <1>2, <3>1, <3>2
    <2> HIDE DEF S
    <2>3. 1 \in Int /\ k \in Int /\ (1 <= k => 1 \in S)
          /\ \A i \in 1 .. k - 1 : i \in S => i + 1 \in S
        BY <1>1, <2>1, <2>2
    <2>4. 1 .. k \subseteq S
        BY <2>3, InductionUp, Zenon
    <2> QED BY <2>4 DEF S
<1>9. flatten \in [1 .. k -> A]
    <2>1. flatten = [i \in 1 .. k |-> flatten[i]]
        <3> DEFINE body(i) == IF i = 1 THEN seqs[i] ELSE flatten[i - 1] \o seqs[i]
        <3>1. flatten = [i \in 1 .. k |-> body(i)]
            BY <1>1, <1>5
        <3> HIDE DEF body
        <3> QED BY <3>1
    <2> HIDE DEF A
    <2> QED BY <1>8, <2>1
<1> QED BY <1>1, <1>6, <1>7, <1>9 DEF IsFlattening

\* Consecutive pieces of a function make one piece.
Piece(all, a, b) == [n \in 1 .. b - a |-> all[a + n]]

LEMMA IsPiece ==
    ASSUME NEW X, NEW all \in [Nat -> X], NEW a \in Nat, NEW b \in Nat, a <= b
    PROVE  /\ Piece(all, a, b) \in Seq(X) /\ Len(Piece(all, a, b)) = b - a
           /\ \A n \in 1 .. b - a : Piece(all, a, b)[n] = all[a + n]
BY DEF Piece

LEMMA Pieces ==
    ASSUME NEW X, NEW all \in [Nat -> X], NEW a \in Nat, NEW b \in Nat, NEW c \in Nat,
           a <= b, b <= c
    PROVE  Piece(all, a, b) \o Piece(all, b, c) = Piece(all, a, c)
<1>1. a <= c
    OBVIOUS
<1> DEFINE s == Piece(all, a, b)
           t == Piece(all, b, c)
           u == Piece(all, a, c)
<1>2. /\ s \in Seq(X) /\ Len(s) = b - a /\ \A n \in 1 .. b - a : s[n] = all[a + n]
      /\ t \in Seq(X) /\ Len(t) = c - b /\ \A n \in 1 .. c - b : t[n] = all[b + n]
      /\ u \in Seq(X) /\ Len(u) = c - a /\ \A n \in 1 .. c - a : u[n] = all[a + n]
    <2>1. /\ s \in Seq(X) /\ Len(s) = b - a /\ \A n \in 1 .. b - a : s[n] = all[a + n]
        BY IsPiece
    <2>2. /\ t \in Seq(X) /\ Len(t) = c - b /\ \A n \in 1 .. c - b : t[n] = all[b + n]
        BY IsPiece
    <2>3. /\ u \in Seq(X) /\ Len(u) = c - a /\ \A n \in 1 .. c - a : u[n] = all[a + n]
        BY <1>1, IsPiece
    <2> QED BY <2>1, <2>2, <2>3
<1> HIDE DEF s, t, u
<1>3. /\ s \o t \in Seq(X) /\ Len(s \o t) = Len(s) + Len(t)
      /\ \A i \in 1 .. Len(s) + Len(t) :
            (s \o t)[i] = IF i <= Len(s) THEN s[i] ELSE t[i - Len(s)]
    BY <1>2, ConcatProperties
<1>4. Len(s) + Len(t) = Len(u)
    BY <1>2
<1>5. ASSUME NEW i \in 1 .. Len(u) PROVE (s \o t)[i] = u[i]
    <2>1. CASE i <= b - a
        BY <1>2, <1>3, <1>4, <2>1
    <2>2. CASE ~(i <= b - a)
        <3>1. i - (b - a) \in 1 .. c - b /\ b + (i - (b - a)) = a + i /\ i \in 1 .. c - a
            BY <1>2, <2>2
        <3> QED BY <1>2, <1>3, <1>4, <2>2, <3>1
    <2> QED BY <2>1, <2>2
<1>6. s \o t = u
    BY <1>2, <1>3, <1>4, <1>5, SeqEqual
<1> QED BY <1>6 DEF s, t, u

LEMMA FlattenPieces ==
    ASSUME NEW X, NEW all \in [Nat -> X], NEW k \in Nat, NEW e \in [0 .. k -> Nat],
           \A i \in 1 .. k : e[i - 1] <= e[i],
           NEW seqs, seqs = [i \in 1 .. k |-> Piece(all, e[i - 1], e[i])]
    PROVE  FlattenSeq(seqs) = Piece(all, e[0], e[k])
<1>1. ASSUME NEW i \in 1 .. k PROVE Piece(all, e[i - 1], e[i]) \in Seq(X)
    <2>1. i - 1 \in 0 .. k /\ i \in 0 .. k
        OBVIOUS
    <2>2. e[i - 1] \in Nat /\ e[i] \in Nat /\ e[i - 1] <= e[i]
        BY <2>1
    <2> QED BY <2>2, IsPiece
<1>2. seqs \in Seq(Seq(X)) /\ Len(seqs) = k
    <2> DEFINE A == Seq(X)
    <2>1. \A i \in 1 .. k : seqs[i] \in A
        BY <1>1
    <2>2. seqs = [i \in 1 .. k |-> seqs[i]]
        OBVIOUS
    <2> HIDE DEF A
    <2>3. seqs \in Seq(A) /\ Len(seqs) = k
        BY <2>1, <2>2
    <2> QED BY <2>3 DEF A
<1>3. CASE k = 0
    <2>1. seqs = <<>> /\ FlattenSeq(seqs) = <<>>
        BY <1>2, <1>3 DEF FlattenSeq
    <2>2. Piece(all, e[0], e[0]) = <<>>
        <3>1. e[0] - e[0] = 0
            OBVIOUS
        <3> QED BY <3>1 DEF Piece
    <2> QED BY <1>3, <2>1, <2>2
<1>4. CASE k # 0
    <2>7. seqs # <<>> /\ Len(seqs) = k
        BY <1>2, <1>4
    <2>8. PICK flat \in [1 .. Len(seqs) -> Seq(X)] :
              IsFlattening(seqs, flat) /\ FlattenSeq(seqs) = flat[Len(seqs)]
        BY <1>2, <2>7, Flattening, Zenon
    <2>1. IsFlattening(seqs, flat) /\ FlattenSeq(seqs) = flat[k]
        BY <2>7, <2>8
    <2> DEFINE S == {i \in 1 .. k : e[0] <= e[i] /\ flat[i] = Piece(all, e[0], e[i])}
    <2>2. 1 \in S
        BY <1>2, <1>4, <2>1 DEF IsFlattening
    <2>3. \A i \in 1 .. k - 1 : i \in S => i + 1 \in S
        <3> SUFFICES ASSUME NEW i \in 1 .. k - 1, i \in S PROVE i + 1 \in S
            OBVIOUS
        <3>1. i + 1 \in 2 .. k /\ i + 1 \in 1 .. k /\ (i + 1) - 1 = i
            OBVIOUS
        <3>2. e[i] <= e[i + 1] /\ e[0] \in Nat /\ e[i] \in Nat /\ e[i + 1] \in Nat
            BY <3>1
        <3>3. flat[i + 1] = flat[i] \o seqs[i + 1] /\ seqs[i + 1] = Piece(all, e[i], e[i + 1])
            BY <1>2, <2>1, <3>1 DEF IsFlattening
        <3>5. e[0] <= e[i] /\ flat[i] = Piece(all, e[0], e[i])
            OBVIOUS
        <3>6. Piece(all, e[0], e[i]) \o Piece(all, e[i], e[i + 1]) = Piece(all, e[0], e[i + 1])
            BY <3>2, <3>5, Pieces
        <3>4. flat[i + 1] = Piece(all, e[0], e[i + 1])
            BY <3>3, <3>5, <3>6
        <3> QED BY <3>1, <3>2, <3>4
    <2> HIDE DEF S
    <2>6. 1 \in Int /\ k \in Int /\ (1 <= k => 1 \in S)
          /\ \A i \in 1 .. k - 1 : i \in S => i + 1 \in S
        BY <2>2, <2>3
    <2>4. 1 .. k \subseteq S
        BY <2>6, InductionUp, Zenon
    <2>5. k \in S
        BY <1>4, <2>4
    <2> QED BY <2>1, <2>5 DEF S
<1> QED BY <1>3, <1>4

--------------------------------------------------------------------------------
(* A vdev and all that is under it stand together in the text.              *)

\* Row e is the last that is under v.
IsEnd(v, e) ==
    /\ e \in v .. Len(rows)
    /\ \A i \in v + 1 .. e : v = 1 \/ rows[i].indent > rows[v].indent
    /\ e = Len(rows) \/ (v # 1 /\ rows[e + 1].indent <= rows[v].indent)

End(v) == CHOOSE e : IsEnd(v, e)

\* There is one.
LEMMA EndOf ==
    ASSUME DoneTree, NEW v \in 1 .. Len(rows)
    PROVE  IsEnd(v, End(v))
<1>1. \A i \in 1 .. Len(rows) : rows[i].indent \in Nat
    BY DEF DoneTree
<1>2. Len(rows) \in Nat
    BY DEF DoneTree
<1> DEFINE after == {i \in v + 1 .. Len(rows) : v # 1 /\ rows[i].indent <= rows[v].indent}
<1>3. CASE after = {}
    <2>1. \A i \in v + 1 .. Len(rows) : v = 1 \/ rows[i].indent > rows[v].indent
        BY <1>1, <1>2, <1>3
    <2>2. IsEnd(v, Len(rows))
        BY <1>2, <2>1 DEF IsEnd
    <2> QED BY <2>2 DEF End
<1>4. CASE after # {}
    <2>1. PICK n \in after : \A i \in after : n <= i
        <3>1. after \in SUBSET Nat
            OBVIOUS
        <3> HIDE DEF after
        <3> QED BY <1>4, <3>1, LeastNumber
    <2>2. \A i \in v + 1 .. n - 1 : rows[i].indent > rows[v].indent
        BY <1>1, <1>2, <2>1
    <2>3. n - 1 \in v .. Len(rows) /\ (n - 1) + 1 = n
        BY <1>2
    <2>4. IsEnd(v, n - 1)
        BY <2>1, <2>2, <2>3 DEF IsEnd
    <2> QED BY <2>4 DEF End
<1> QED BY <1>3, <1>4

\* The rows under a child are under its parent, no other child is among them,
\* and the next one comes right after them.
LEMMA ChildInText ==
    ASSUME DoneTree, NEW v \in 1 .. Len(rows), NEW c \in Children(v)
    PROVE  /\ c \in v + 1 .. End(v) /\ End(c) \in c .. End(v)
           /\ \A i \in v + 1 .. c - 1 : rows[i].indent >= rows[c].indent
           /\ \A i \in c + 1 .. End(c) : rows[i].indent > rows[c].indent /\ i \notin Children(v)
           /\ End(c) < End(v) => End(c) + 1 \in Children(v)
<1>1. Len(rows) \in Nat /\ \A i \in 1 .. Len(rows) : rows[i].indent \in Nat
    BY DEF DoneTree
<1>2. c \in v + 1 .. Len(rows) /\ c \in 1 .. Len(rows)
    BY <1>1, ChildrenAreLater
<1>3. PICK e : e = End(v) /\ IsEnd(v, e)
    BY EndOf
<1>4. PICK d : d = End(c) /\ IsEnd(c, d)
    BY <1>2, EndOf
<1>5. IsParent(v, c)
    BY <1>2 DEF DoneTree
<1>6. /\ v = 1 \/ rows[v].indent < rows[c].indent
      /\ \A i \in v + 1 .. c - 1 : rows[i].indent >= rows[c].indent
    BY <1>5 DEF IsParent
<1>7. e \in v .. Len(rows) /\ d \in c .. Len(rows)
    BY <1>3, <1>4 DEF IsEnd
<1>8. /\ \A i \in v + 1 .. e : v = 1 \/ rows[i].indent > rows[v].indent
      /\ e = Len(rows) \/ (v # 1 /\ rows[e + 1].indent <= rows[v].indent)
    BY <1>3 DEF IsEnd
<1>9. /\ \A i \in c + 1 .. d : rows[i].indent > rows[c].indent
      /\ d = Len(rows) \/ rows[d + 1].indent <= rows[c].indent
    BY <1>1, <1>2, <1>4 DEF IsEnd
<1>10. c <= e
    <2> SUFFICES ASSUME ~(c <= e) PROVE FALSE
        OBVIOUS
    <2>1. e + 1 \in v + 1 .. c /\ e + 1 \in 1 .. Len(rows) /\ e # Len(rows)
        BY <1>1, <1>2, <1>7
    <2>2. rows[e + 1].indent >= rows[c].indent
        BY <1>1, <1>2, <1>6, <2>1
    <2> QED BY <1>1, <1>2, <1>6, <1>8, <2>1, <2>2
<1>11. d <= e
    <2> SUFFICES ASSUME ~(d <= e) PROVE FALSE
        OBVIOUS
    <2>1. e + 1 \in c + 1 .. d /\ e + 1 \in 1 .. Len(rows) /\ e # Len(rows)
        BY <1>1, <1>2, <1>7, <1>10
    <2> QED BY <1>1, <1>2, <1>6, <1>8, <1>9, <2>1
<1>12. ASSUME NEW i \in c + 1 .. d PROVE i \notin Children(v)
    <2>1. i \in 1 .. Len(rows) /\ c \in v + 1 .. i - 1
        BY <1>1, <1>2, <1>7
    <2>2. ~IsParent(v, i)
        BY <1>1, <1>2, <1>9, <2>1 DEF IsParent
    <2> QED BY <2>1, <2>2 DEF DoneTree
<1>13. ASSUME d < e PROVE d + 1 \in Children(v)
    <2>1. d + 1 \in 1 .. Len(rows) /\ d + 1 \in v + 1 .. e /\ d # Len(rows)
        BY <1>1, <1>2, <1>7, <1>13
    <2>2. rows[d + 1].indent <= rows[c].indent
        BY <1>9, <2>1
    <2>3. ASSUME NEW i \in v + 1 .. d PROVE rows[i].indent >= rows[d + 1].indent
        <3>1. i \in 1 .. Len(rows)
            BY <1>1, <1>7
        <3>2. rows[i].indent >= rows[c].indent
            <4>1. CASE i < c
                BY <1>2, <1>6, <4>1
            <4>2. CASE i = c
                BY <1>1, <1>2, <4>2
            <4>3. CASE i > c
                BY <1>1, <1>2, <1>7, <1>9, <3>1, <4>3
            <4> QED BY <1>2, <4>1, <4>2, <4>3
        <3> QED BY <1>1, <1>2, <2>1, <2>2, <3>1, <3>2
    <2>4. v < d + 1 /\ (d + 1) - 1 = d /\ (v = 1 \/ rows[v].indent < rows[d + 1].indent)
        BY <1>1, <1>7, <1>8, <2>1
    <2>5. IsParent(v, d + 1)
        BY <2>3, <2>4 DEF IsParent
    <2> QED BY <2>1, <2>5 DEF DoneTree
<1> QED BY <1>2, <1>3, <1>4, <1>6, <1>7, <1>9, <1>10, <1>11, <1>12, <1>13

\* So the children part the rows under a vdev among them, from place to place.
IsParting(v, e) ==
    /\ e \in [0 .. Len(children[v]) -> Nat]
    /\ e[0] = v /\ e[Len(children[v])] = End(v)
    /\ \A i \in 1 .. Len(children[v]) :
          /\ e[i - 1] < e[i]
          /\ children[v][i] = e[i - 1] + 1 /\ End(children[v][i]) = e[i]

LEMMA PartingOf ==
    ASSUME DoneTree, NEW v \in 1 .. Len(rows)
    PROVE  \E e : IsParting(v, e)
<1>1. Len(rows) \in Nat /\ \A i \in 1 .. Len(rows) : rows[i].indent \in Nat
    BY DEF DoneTree
<1>2. PICK s \in Seq(1 .. Len(rows)) : s = children[v]
    BY DEF DoneTree
<1>3. /\ \A i, j \in 1 .. Len(s) : i < j => s[i] < s[j]
      /\ \A x : x \in Children(v) <=> \E i \in 1 .. Len(s) : s[i] = x
    <2>1. \A i, j \in 1 .. Len(s) : i < j => s[i] < s[j]
        <3>1. DOMAIN children[v] = 1 .. Len(s)
            BY <1>2
        <3> QED BY <1>2, <3>1 DEF DoneTree, ChildrenAscend
    <2>2. Children(v) = Range(s) /\ DOMAIN s = 1 .. Len(s)
        BY <1>2 DEF Children
    <2> QED BY <2>1, <2>2 DEF Range
<1>4. Len(s) \in Nat /\ \A i \in 1 .. Len(s) : s[i] \in 1 .. Len(rows) /\ s[i] \in Children(v)
    BY <1>3
<1>5. \A i \in 1 .. Len(s) :
          /\ s[i] \in v + 1 .. End(v) /\ End(s[i]) \in s[i] .. End(v)
          /\ \A j \in s[i] + 1 .. End(s[i]) : j \notin Children(v)
          /\ End(s[i]) < End(v) => End(s[i]) + 1 \in Children(v)
    BY <1>4, ChildInText
<1>6. End(v) \in v .. Len(rows) /\ (End(v) # v => v + 1 \in Children(v))
    <2>1. IsEnd(v, End(v))
        BY EndOf
    <2>2. End(v) \in v .. Len(rows)
        BY <2>1 DEF IsEnd
    <2>3. ASSUME End(v) # v PROVE v + 1 \in Children(v)
        <3>1. v + 1 \in v + 1 .. End(v) /\ v + 1 \in 1 .. Len(rows)
            BY <1>1, <2>2, <2>3
        <3>2. v = 1 \/ rows[v].indent < rows[v + 1].indent
            BY <1>1, <2>1, <3>1 DEF IsEnd
        <3>3. IsParent(v, v + 1)
            BY <3>2 DEF IsParent
        <3> QED BY <3>1, <3>3 DEF DoneTree
    <2> QED BY <2>2, <2>3
<1> DEFINE e == [i \in 0 .. Len(s) |-> IF i = 0 THEN v ELSE End(s[i])]
<1>7. e \in [0 .. Len(s) -> Nat]
    BY <1>1, <1>4, <1>5, <1>6
<1>8. e[Len(s)] = End(v)
    <2>1. CASE Len(s) = 0
        BY <1>3, <1>6, <2>1
    <2>2. CASE Len(s) # 0
        <3> DEFINE k == Len(s)
        <3>1. k \in 1 .. Len(s) /\ e[k] = End(s[k])
            BY <1>4, <2>2
        <3>2. ASSUME End(s[k]) # End(v) PROVE FALSE
            <4>1. End(s[k]) + 1 \in Children(v) /\ s[k] < End(s[k]) + 1
                BY <1>5, <1>6, <3>1, <3>2
            <4>2. PICK j \in 1 .. Len(s) : s[j] = End(s[k]) + 1
                BY <1>3, <4>1
            <4> QED BY <1>3, <1>4, <3>1, <4>1, <4>2
        <3> QED BY <3>1, <3>2
    <2> QED BY <2>1, <2>2
<1>9. ASSUME NEW i \in 1 .. Len(s)
      PROVE  e[i - 1] < e[i] /\ s[i] = e[i - 1] + 1 /\ End(s[i]) = e[i]
    <2>1. e[i] = End(s[i]) /\ i - 1 \in 0 .. Len(s) /\ (i # 1 => i - 1 \in 1 .. Len(s))
        OBVIOUS
    <2>2. s[i] = e[i - 1] + 1
        <3>1. CASE i = 1
            <4>1. v + 1 \in Children(v)
                BY <1>5, <1>6
            <4>2. PICK j \in 1 .. Len(s) : s[j] = v + 1
                BY <1>3, <4>1
            <4>3. j = 1
                <5>1. ASSUME 1 < j PROVE FALSE
                    <6>1. 1 \in 1 .. Len(s)
                        BY <3>1
                    <6>2. s[1] < s[j]
                        BY <1>3, <5>1, <6>1
                    <6>3. s[1] \in v + 1 .. End(v)
                        BY <1>5, <6>1
                    <6>4. PICK x \in Int : x = s[1] /\ x >= v + 1
                        BY <1>6, <6>3
                    <6> QED BY <4>2, <6>2, <6>4
                <5>2. j = 1 \/ 1 < j
                    OBVIOUS
                <5> QED BY <5>1, <5>2
            <4> QED BY <3>1, <4>2, <4>3
        <3>2. CASE i # 1
            <4>1. PICK m \in 1 .. Len(s) : m = i - 1
                BY <2>1, <3>2
            <4>2. PICK x, y, d \in Int : x = s[m] /\ y = s[i] /\ d = End(x)
                <5>1. s[m] \in Int /\ s[i] \in Int /\ End(s[m]) \in Int
                    BY <1>4, <1>5, <1>6
                <5> QED BY <5>1
            <4>3. /\ x < y /\ y \in Children(v) /\ y <= End(v) /\ End(v) \in Int
                  /\ \A j \in x + 1 .. d : j \notin Children(v)
                  /\ x <= d /\ (d < End(v) => d + 1 \in Children(v))
                <5>1. x < y
                    BY <1>3, <4>1, <4>2
                <5>2. y \in Children(v) /\ y <= End(v) /\ End(v) \in Int
                    BY <1>4, <1>5, <1>6, <4>2
                <5>3. /\ \A j \in x + 1 .. d : j \notin Children(v)
                      /\ x <= d /\ (d < End(v) => d + 1 \in Children(v))
                    BY <1>5, <4>2
                <5> QED BY <5>1, <5>2, <5>3
            <4>4. d < y
                <5>1. ASSUME ~(d < y) PROVE FALSE
                    <6>1. y \in x + 1 .. d
                        BY <4>3, <5>1
                    <6> QED BY <4>3, <6>1
                <5> QED BY <5>1
            <4>5. PICK j \in 1 .. Len(s) : s[j] = d + 1
                <5>1. d + 1 \in Children(v)
                    BY <4>3, <4>4
                <5> QED BY <1>3, <5>1
            <4>6. j # m /\ ~(j < m)
                <5>1. ASSUME j < m PROVE s[j] < s[m]
                    BY <1>3, <5>1
                <5>2. s[j] = d + 1 /\ s[m] = x /\ x <= d
                    BY <4>2, <4>3, <4>5
                <5>3. s[j] # s[m] /\ ~(s[j] < s[m])
                    BY <5>2
                <5> QED BY <5>1, <5>3
            <4>7. j = i \/ i < j
                BY <4>1, <4>6
            <4>8. j = i \/ y < d + 1
                BY <1>3, <4>2, <4>5, <4>7
            <4>9. y = d + 1
                BY <4>2, <4>4, <4>5, <4>8
            <4>10. e[i - 1] = d
                BY <4>1, <4>2
            <4> QED BY <4>2, <4>9, <4>10
        <3> QED BY <3>1, <3>2
    <2>3. End(s[i]) \in s[i] .. End(v) /\ e[i - 1] \in Nat
        BY <1>5, <1>7, <2>1
    <2> QED BY <1>4, <1>6, <2>1, <2>2, <2>3
<1> HIDE DEF e
<1>10. e[0] = v
    BY <1>4 DEF e
<1> QED BY <1>2, <1>7, <1>8, <1>9, <1>10 DEF IsParting

--------------------------------------------------------------------------------
(* The lines of the vdev panel.                                             *)

\* The groups around row r that are under v, itself among them.
Around(v, r) ==
    {i \in v + 1 .. r : \A j \in i + 1 .. r : rows[j].indent > rows[i].indent}

Depth(v, r) == Cardinality(Around(v, r))

\* Under a child a row is one level less deep than under the vdev.
LEMMA DepthUnder ==
    ASSUME NEW v \in Nat, NEW r \in Nat
    PROVE  /\ IsFiniteSet(Around(v, r)) /\ Depth(v, r) \in Nat
           /\ r = v => Depth(v, r) = 0
<1>1. IsFiniteSet(v + 1 .. r)
    BY FS_Interval
<1>2. Around(v, r) \subseteq v + 1 .. r
    BY DEF Around
<1>3. IsFiniteSet(Around(v, r))
    BY <1>1, <1>2, FS_Subset
<1>4. Depth(v, r) \in Nat
    BY <1>3, FS_CardinalityType DEF Depth
<1>5. ASSUME r = v PROVE Depth(v, r) = 0
    <2>1. Around(v, r) = {}
        BY <1>2, <1>5
    <2> QED BY <2>1, FS_EmptySet DEF Depth
<1> QED BY <1>3, <1>4, <1>5

LEMMA DepthUnderChild ==
    ASSUME DoneTree, NEW v \in 1 .. Len(rows), NEW c \in Children(v), NEW r \in c .. End(c)
    PROVE  Depth(v, r) = Depth(c, r) + 1
<1>1. /\ c \in v + 1 .. End(v) /\ End(c) \in c .. End(v)
      /\ \A i \in v + 1 .. c - 1 : rows[i].indent >= rows[c].indent
      /\ \A i \in c + 1 .. End(c) : rows[i].indent > rows[c].indent
    BY ChildInText
<1>2. /\ Len(rows) \in Nat /\ End(v) \in v .. Len(rows)
      /\ \A i \in 1 .. Len(rows) : rows[i].indent \in Nat
    <2>1. IsEnd(v, End(v))
        BY EndOf
    <2> QED BY <2>1 DEF DoneTree, IsEnd
<1>3. ASSUME NEW i \in v + 1 .. c - 1 PROVE i \notin Around(v, r)
    <2>1. c \in i + 1 .. r /\ ~(rows[c].indent > rows[i].indent)
        BY <1>1, <1>2
    <2> QED BY <2>1 DEF Around
<1>4. c \in Around(v, r)
    BY <1>1, <1>2 DEF Around
<1>5. ASSUME NEW i \in c + 1 .. r PROVE i \in Around(v, r) <=> i \in Around(c, r)
    BY <1>1, <1>2 DEF Around
<1>6. Around(v, r) = Around(c, r) \cup {c} /\ c \notin Around(c, r)
    <2>1. Around(v, r) \subseteq v + 1 .. r /\ Around(c, r) \subseteq c + 1 .. r
        BY DEF Around
    <2>2. \A i \in v + 1 .. r : i \in v + 1 .. c - 1 \/ i = c \/ i \in c + 1 .. r
        BY <1>1, <1>2
    <2>3. \A i \in c + 1 .. r : i \in v + 1 .. r /\ i # c
        BY <1>1, <1>2
    <2> QED BY <1>3, <1>4, <1>5, <2>1, <2>2, <2>3
<1>7. c \in Nat /\ r \in Nat
    BY <1>1, <1>2
<1>8. IsFiniteSet(Around(c, r))
    BY <1>7, DepthUnder
<1> QED BY <1>6, <1>8, FS_AddElement DEF Depth

\* Under the root it is as deep as the text says.
LEMMA DepthUnderRoot ==
    ASSUME DoneTree, NEW r \in 1 .. Len(rows)
    PROVE  Depth(1, r) = Level(r)
<1>1. CASE r = 1
    BY <1>1, DepthUnder DEF Level
<1>2. CASE r # 1
    <2> DEFINE groups == {i \in 2 .. r - 1 :
                            \A j \in i + 1 .. r : rows[j].indent > rows[i].indent}
    <2>1. r \in 2 .. Len(rows) /\ 1 + 1 = 2
        BY <1>2
    <2>2. Around(1, r) = groups \cup {r} /\ r \notin groups
        BY <2>1 DEF Around
    <2>3. IsFiniteSet(2 .. r - 1) /\ groups \subseteq 2 .. r - 1
        BY FS_Interval
    <2>4. IsFiniteSet(groups) /\ Cardinality(groups) \in Nat
        <3> HIDE DEF groups
        <3>1. IsFiniteSet(groups)
            BY <2>3, FS_Subset
        <3> QED BY <3>1, FS_CardinalityType
    <2>5. Cardinality(groups \cup {r}) = Cardinality(groups) + 1
        <3> HIDE DEF groups
        <3> QED BY <2>2, <2>4, FS_AddElement
    <2>6. Level(r) = 1 + Cardinality(groups)
        BY <1>2 DEF Level
    <2> HIDE DEF groups
    <2>7. Depth(1, r) = Cardinality(groups) + 1
        BY <2>2, <2>5, Zenon DEF Depth
    <2> QED BY <2>4, <2>6, <2>7
<1> QED BY <1>1, <1>2

\* The lines of the rows under v, as v counts their depth.
Line == [row : Nat, depth : Nat]
LinesUnder(v) == [r \in Nat |-> [row |-> r, depth |-> Depth(v, r)]]
PanelOf(v) == Piece(LinesUnder(v), v - 1, End(v))

\* What the walk makes of a vdev, given what it made of those under it.
WalkedLines(v, lines) ==
    <<[row |-> v, depth |-> 0]>> \o
    FlattenSeq([i \in DOMAIN children[v] |->
        [n \in DOMAIN lines[children[v][i]] |->
            [lines[children[v][i]][n] EXCEPT !.depth = @ + 1]]])

LEMMA LinesStep ==
    ASSUME DoneTree, NEW v \in 1 .. Len(rows), NEW lines,
           \A c \in Children(v) : lines[c] = PanelOf(c)
    PROVE  WalkedLines(v, lines) = PanelOf(v)
<1> DEFINE s == children[v]
           k == Len(children[v])
           all == LinesUnder(v)
           seqs == [i \in DOMAIN children[v] |->
                       [n \in DOMAIN lines[children[v][i]] |->
                           [lines[children[v][i]][n] EXCEPT !.depth = @ + 1]]]
<1>1. PICK e : IsParting(v, e)
    BY PartingOf
<1>2. /\ e \in [0 .. k -> Nat] /\ e[0] = v /\ e[k] = End(v)
      /\ \A i \in 1 .. k : e[i - 1] < e[i] /\ s[i] = e[i - 1] + 1 /\ End(s[i]) = e[i]
    BY <1>1 DEF IsParting
<1>3. k \in Nat /\ DOMAIN children[v] = 1 .. k /\ Len(rows) \in Nat
    BY DEF DoneTree
<1>4. all \in [Nat -> Line]
    <2>1. ASSUME NEW r \in Nat PROVE [row |-> r, depth |-> Depth(v, r)] \in Line
        <3>1. PICK d \in Nat : d = Depth(v, r)
            BY DepthUnder
        <3> QED BY <3>1 DEF Line
    <2> QED BY <2>1 DEF LinesUnder
<1>5. ASSUME NEW i \in 1 .. k PROVE seqs[i] = Piece(all, e[i - 1], e[i])
    <2>1. PICK c, a, b \in Nat : c = s[i] /\ a = e[i - 1] /\ b = e[i]
        <3>1. i - 1 \in 0 .. k /\ i \in 0 .. k
            BY <1>3
        <3> HIDE DEF s
        <3>2. e[i - 1] \in Nat /\ e[i] \in Nat /\ s[i] = e[i - 1] + 1
            BY <1>2, <3>1
        <3>3. s[i] \in Nat
            BY <3>2
        <3> QED BY <3>2, <3>3, Zenon
    <2>2. c = a + 1 /\ End(c) = b /\ a < b
        BY <1>2, <2>1
    <2>3. c \in Children(v)
        BY <1>3, <2>1 DEF Children, Range
    <2>4. lines[c] = [n \in 1 .. b - a |-> [row |-> a + n, depth |-> Depth(c, a + n)]]
        <3>1. lines[c] = Piece(LinesUnder(c), a, b)
            <4>1. c - 1 = a
                BY <2>2
            <4> QED BY <2>2, <2>3, <4>1 DEF PanelOf
        <3>2. \A n \in 1 .. b - a : a + n \in Nat
            OBVIOUS
        <3> QED BY <3>1, <3>2 DEF Piece, LinesUnder
    <2>5. ASSUME NEW n \in 1 .. b - a
          PROVE  [lines[c][n] EXCEPT !.depth = @ + 1] = all[a + n]
        <3>1. a + n \in c .. End(c) /\ a + n \in Nat
            BY <2>2
        <3>2. Depth(v, a + n) = Depth(c, a + n) + 1
            BY <2>3, <3>1, DepthUnderChild
        <3>3. lines[c][n] = [row |-> a + n, depth |-> Depth(c, a + n)]
            BY <2>4
        <3>4. all[a + n] = [row |-> a + n, depth |-> Depth(v, a + n)]
            BY <3>1 DEF LinesUnder
        <3> QED BY <3>2, <3>3, <3>4
    <2>6. seqs[i] = [n \in DOMAIN lines[c] |-> [lines[c][n] EXCEPT !.depth = @ + 1]]
        BY <1>3, <2>1
    <2>7. DOMAIN lines[c] = 1 .. b - a
        BY <2>4
    <2>8. Piece(all, a, b) = [n \in 1 .. b - a |-> all[a + n]]
        BY DEF Piece
    <2> HIDE DEF all, seqs
    <2>9. seqs[i] = [n \in 1 .. b - a |-> all[a + n]]
        BY <2>5, <2>6, <2>7, Zenon
    <2> QED BY <2>1, <2>8, <2>9
<1>6. seqs = [i \in 1 .. k |-> Piece(all, e[i - 1], e[i])]
    <2>1. seqs = [i \in 1 .. k |-> seqs[i]]
        BY <1>3
    <2> HIDE DEF seqs, all
    <2> QED BY <1>5, <2>1
<1>7. FlattenSeq(seqs) = Piece(all, v, End(v))
    <2>1. ASSUME NEW i \in 1 .. k PROVE e[i - 1] <= e[i]
        <3>1. i - 1 \in 0 .. k /\ i \in 0 .. k
            BY <1>3
        <3>2. e[i - 1] \in Nat /\ e[i] \in Nat /\ e[i - 1] < e[i]
            BY <1>2, <3>1
        <3> QED BY <3>2
    <2> HIDE DEF all, seqs, k
    <2>2. FlattenSeq(seqs) = Piece(all, e[0], e[k])
        BY <1>2, <1>3, <1>4, <1>6, <2>1, FlattenPieces
    <2> QED BY <1>2, <2>2
<1>8. <<[row |-> v, depth |-> 0]>> = Piece(all, v - 1, v)
    <2>1. v - (v - 1) = 1 /\ (v - 1) + 1 = v /\ v \in Nat
        OBVIOUS
    <2>2. all[v] = [row |-> v, depth |-> 0]
        BY <2>1, DepthUnder DEF LinesUnder
    <2> HIDE DEF all
    <2> QED BY <2>1, <2>2 DEF Piece
<1>9. Piece(all, v - 1, v) \o Piece(all, v, End(v)) = Piece(all, v - 1, End(v))
    <2>1. IsEnd(v, End(v))
        BY EndOf
    <2>2. v - 1 \in Nat /\ v \in Nat /\ End(v) \in Nat /\ v - 1 <= v /\ v <= End(v)
        BY <1>3, <2>1 DEF IsEnd
    <2> HIDE DEF all
    <2> QED BY <1>4, <2>2, Pieces
<1>10. WalkedLines(v, lines) = <<[row |-> v, depth |-> 0]>> \o FlattenSeq(seqs)
    BY DEF WalkedLines
<1> HIDE DEF seqs
<1> QED BY <1>7, <1>8, <1>9, <1>10 DEF PanelOf

\* So the panel is the text.
LEMMA PanelByText ==
    ASSUME DoneTree
    PROVE  VdevLines = [r \in DOMAIN rows |-> [row |-> r, depth |-> Level(r)]]
<1> DEFINE V == 1 .. Len(rows)
           walked(f) == f = [v \in V |-> WalkedLines(v, f)]
           lines == CHOOSE f : walked(f)
           panels == [v \in V |-> PanelOf(v)]
<1>1. \A v \in V : Children(v) \subseteq V
    <2>1. \A v \in V : Children(v) \subseteq v + 1 .. Len(rows)
        BY ChildrenAreLater
    <2> QED BY <2>1
<1>2. walked(panels)
    <2>1. ASSUME NEW v \in V PROVE WalkedLines(v, panels) = PanelOf(v)
        <3>1. \A c \in Children(v) : panels[c] = PanelOf(c)
            BY <1>1
        <3> HIDE DEF panels
        <3> QED BY <3>1, LinesStep
    <2> QED BY <2>1, Zenon
<1>3. walked(lines)
    <2> HIDE DEF walked
    <2> QED BY <1>2
<1>4. \A v \in V : lines[v] = WalkedLines(v, lines)
    <2> HIDE DEF lines
    <2> QED BY <1>3
<1> DEFINE other == {v \in V : lines[v] # PanelOf(v)}
<1>5. ASSUME other # {} PROVE FALSE
    <2>1. PICK v \in other : \A c \in other : c <= v
        <3>1. other \in SUBSET (0 .. Len(rows)) /\ Len(rows) \in Nat
            BY DEF DoneTree
        <3> HIDE DEF other
        <3> QED BY <1>5, <3>1, GreatestNumber
    <2>2. \A c \in Children(v) : c \in V /\ v < c
        BY ChildrenAreLater
    <2> HIDE DEF lines
    <2>3. \A c \in Children(v) : lines[c] = PanelOf(c)
        BY <2>1, <2>2
    <2>4. WalkedLines(v, lines) = PanelOf(v)
        BY <2>3, LinesStep
    <2> QED BY <1>4, <2>4
<1>6. 1 \in V /\ DOMAIN rows = V /\ Len(rows) \in Nat
    BY DEF DoneTree
<1>7. VdevLines = lines[1]
    BY <1>6 DEF VdevLines, WalkedLines, Root
<1> HIDE DEF lines
<1>8. VdevLines = PanelOf(1)
    BY <1>5, <1>6, <1>7
<1>9. End(1) = Len(rows)
    <2>1. IsEnd(1, End(1))
        BY <1>6, EndOf
    <2> QED BY <2>1 DEF IsEnd
<1>10. PanelOf(1) = [r \in V |-> [row |-> r, depth |-> Depth(1, r)]]
    <2>1. 1 - 1 = 0 /\ Len(rows) - 0 = Len(rows) /\ \A r \in V : 0 + r = r /\ r \in Nat
        BY <1>6
    <2> QED BY <1>9, <2>1 DEF PanelOf, Piece, LinesUnder
<1>11. \A r \in V : Depth(1, r) = Level(r)
    BY DepthUnderRoot
<1> QED BY <1>6, <1>8, <1>10, <1>11

--------------------------------------------------------------------------------
(* The devices of the error map.                                            *)

LeavesUpto(m) == Cardinality({r \in 1 .. m : IsLeaf(r)})

LEMMA LeafCount ==
    ASSUME NEW m \in Nat
    PROVE  /\ LeavesUpto(m) \in Nat
           /\ m = 0 => LeavesUpto(m) = 0
           /\ IsLeaf(m + 1) => LeavesUpto(m + 1) = LeavesUpto(m) + 1
           /\ ~IsLeaf(m + 1) => LeavesUpto(m + 1) = LeavesUpto(m)
<1> DEFINE upto == {r \in 1 .. m : IsLeaf(r)}
           next == {r \in 1 .. m + 1 : IsLeaf(r)}
<1>1. IsFiniteSet(upto)
    <2>1. IsFiniteSet(1 .. m) /\ upto \subseteq 1 .. m
        BY FS_Interval
    <2> HIDE DEF upto
    <2> QED BY <2>1, FS_Subset
<1>2. IsLeaf(m + 1) => next = upto \cup {m + 1} /\ m + 1 \notin upto
    OBVIOUS
<1>3. ~IsLeaf(m + 1) => next = upto
    OBVIOUS
<1>4. m = 0 => upto = {}
    OBVIOUS
<1>5. LeavesUpto(m) = Cardinality(upto) /\ LeavesUpto(m + 1) = Cardinality(next)
    BY DEF LeavesUpto
<1> HIDE DEF upto, next
<1>6. Cardinality(upto) \in Nat /\ (upto = {} => Cardinality(upto) = 0)
    BY <1>1, FS_CardinalityType, FS_EmptySet
<1>7. m + 1 \notin upto => Cardinality(upto \cup {m + 1}) = Cardinality(upto) + 1
    BY <1>1, FS_AddElement
<1> QED BY <1>2, <1>3, <1>4, <1>5, <1>6, <1>7

\* Further on there are no fewer leaves.
LEMMA LeavesGrow ==
    ASSUME NEW a \in Nat, NEW b \in Nat, a <= b
    PROVE  LeavesUpto(a) <= LeavesUpto(b)
<1> DEFINE S == {n \in a .. b : LeavesUpto(a) <= LeavesUpto(n)}
<1>1. a \in S
    <2>1. LeavesUpto(a) \in Nat
        BY LeafCount
    <2> QED BY <2>1
<1>2. ASSUME NEW n \in a .. b - 1, n \in S PROVE n + 1 \in S
    <2>1. n \in Nat
        OBVIOUS
    <2>2. /\ LeavesUpto(a) \in Nat /\ LeavesUpto(n) \in Nat
          /\ LeavesUpto(n + 1) = LeavesUpto(n) + 1 \/ LeavesUpto(n + 1) = LeavesUpto(n)
        BY <2>1, LeafCount
    <2>3. LeavesUpto(a) <= LeavesUpto(n)
        BY <1>2
    <2>4. n + 1 \in a .. b /\ LeavesUpto(a) <= LeavesUpto(n + 1)
        BY <2>2, <2>3
    <2> QED BY <2>4
<1> HIDE DEF S
<1>3. a \in Int /\ b \in Int /\ (a <= b => a \in S) /\ \A n \in a .. b - 1 : n \in S => n + 1 \in S
    BY <1>1, <1>2
<1>4. a .. b \subseteq S
    BY <1>3, InductionUp, Zenon
<1>5. b \in S
    BY <1>4
<1> QED BY <1>5 DEF S

\* The leaves in the order of the text.
IsNthLeaf(n, r) == r \in 1 .. Len(rows) /\ IsLeaf(r) /\ LeavesUpto(r) = n

LeafList ==
    [n \in Nat |-> IF \E r : IsNthLeaf(n, r) THEN CHOOSE r : IsNthLeaf(n, r) ELSE 0]

LEMMA LeafListIs ==
    ASSUME DoneTree
    PROVE  /\ LeafList \in [Nat -> Nat]
           /\ \A n \in 1 .. LeavesUpto(Len(rows)) : IsNthLeaf(n, LeafList[n])
           /\ \A r \in 1 .. Len(rows) : IsLeaf(r) => LeafList[LeavesUpto(r)] = r
<1>1. Len(rows) \in Nat
    BY DEF DoneTree
<1>2. ASSUME NEW n \in Nat
      PROVE  /\ LeafList[n] \in Nat
             /\ (\E r : IsNthLeaf(n, r)) => IsNthLeaf(n, LeafList[n])
    <2>1. CASE \E r : IsNthLeaf(n, r)
        <3>1. LeafList[n] = CHOOSE r : IsNthLeaf(n, r)
            BY <2>1 DEF LeafList
        <3>2. IsNthLeaf(n, LeafList[n])
            BY <2>1, <3>1
        <3> QED BY <3>2 DEF IsNthLeaf
    <2>2. CASE ~\E r : IsNthLeaf(n, r)
        <3>1. LeafList[n] = 0
            BY <2>2 DEF LeafList
        <3> QED BY <2>2, <3>1
    <2> QED BY <2>1, <2>2
<1>3. LeafList \in [Nat -> Nat]
    <2>1. LeafList = [n \in Nat |-> LeafList[n]]
        BY DEF LeafList
    <2> QED BY <1>2, <2>1
<1>4. ASSUME NEW n \in 1 .. LeavesUpto(Len(rows)) PROVE IsNthLeaf(n, LeafList[n])
    <2> DEFINE enough == {r \in 1 .. Len(rows) : n <= LeavesUpto(r)}
    <2>1. LeavesUpto(Len(rows)) \in Nat /\ LeavesUpto(0) = 0
        BY <1>1, LeafCount
    <2>2. Len(rows) # 0
        BY <2>1
    <2>3. enough \in SUBSET Nat /\ Len(rows) \in enough
        BY <1>1, <2>2
    <2>4. PICK r \in enough : \A i \in enough : r <= i
        <3> HIDE DEF enough
        <3> QED BY <2>3, LeastNumber
    <2>5. PICK m \in Nat : r = m + 1
        <3>1. r - 1 \in Nat /\ r = (r - 1) + 1
            OBVIOUS
        <3> QED BY <3>1
    <2>6. m < n \/ LeavesUpto(m) < n
        <3>1. LeavesUpto(m) \in Nat
            BY LeafCount
        <3>2. m \notin enough
            BY <2>4, <2>5
        <3>3. m \in 1 .. Len(rows) \/ m = 0
            BY <1>1, <2>4, <2>5
        <3> QED BY <2>1, <3>1, <3>2, <3>3
    <2>7. LeavesUpto(m) < n
        <3>1. LeavesUpto(m) \in Nat
            BY LeafCount
        <3>2. m \notin enough
            BY <2>4, <2>5
        <3>3. m \in 1 .. Len(rows) \/ m = 0
            BY <1>1, <2>4, <2>5
        <3> QED BY <2>1, <3>1, <3>2, <3>3
    <2>8. LeavesUpto(r) = n /\ IsLeaf(r)
        <3>1. /\ LeavesUpto(m) \in Nat /\ n <= LeavesUpto(r)
              /\ IsLeaf(r) => LeavesUpto(r) = LeavesUpto(m) + 1
              /\ ~IsLeaf(r) => LeavesUpto(r) = LeavesUpto(m)
            BY <2>4, <2>5, LeafCount
        <3> QED BY <2>7, <3>1
    <2>9. IsNthLeaf(n, r)
        BY <2>4, <2>8 DEF IsNthLeaf
    <2> QED BY <1>2, <2>9
<1>5. ASSUME NEW r \in 1 .. Len(rows), NEW i \in 1 .. Len(rows), IsLeaf(i), r < i
      PROVE  LeavesUpto(r) < LeavesUpto(i)
    <2>1. PICK m \in Nat : i = m + 1
        <3>1. i - 1 \in Nat /\ i = (i - 1) + 1
            OBVIOUS
        <3> QED BY <3>1
    <2>2. LeavesUpto(i) = LeavesUpto(m) + 1 /\ LeavesUpto(m) \in Nat /\ LeavesUpto(r) \in Nat
        BY <1>5, <2>1, LeafCount
    <2>3. r \in Nat /\ r <= m
        BY <1>5, <2>1
    <2>4. LeavesUpto(r) <= LeavesUpto(m)
        BY <2>3, LeavesGrow
    <2> QED BY <2>2, <2>4
<1>6. ASSUME NEW r \in 1 .. Len(rows), IsLeaf(r) PROVE LeafList[LeavesUpto(r)] = r
    <2>1. PICK n \in Nat : n = LeavesUpto(r)
        BY <1>1, LeafCount
    <2>2. IsNthLeaf(n, r)
        BY <1>6, <2>1 DEF IsNthLeaf
    <2>3. PICK i : i = LeafList[n] /\ IsNthLeaf(n, i)
        BY <1>2, <2>2
    <2>4. i \in 1 .. Len(rows) /\ IsLeaf(i) /\ LeavesUpto(i) = n
        BY <2>3 DEF IsNthLeaf
    <2>5. ~(r < i) /\ ~(i < r)
        BY <1>5, <1>6, <2>1, <2>4
    <2> QED BY <2>1, <2>3, <2>4, <2>5
<1> QED BY <1>3, <1>4, <1>6

\* The leaves under v.
DevicesOf(v) == Piece(LeafList, LeavesUpto(v - 1), LeavesUpto(End(v)))

WalkedLeaves(v, leaves) ==
    IF children[v] = <<>> THEN <<v>>
    ELSE FlattenSeq([i \in DOMAIN children[v] |-> leaves[children[v][i]]])

LEMMA LeavesStep ==
    ASSUME DoneTree, NEW v \in 1 .. Len(rows), NEW leaves,
           \A c \in Children(v) : leaves[c] = DevicesOf(c)
    PROVE  WalkedLeaves(v, leaves) = DevicesOf(v)
<1> DEFINE s == children[v]
           k == Len(children[v])
           seqs == [i \in DOMAIN children[v] |-> leaves[children[v][i]]]
<1>1. PICK e : IsParting(v, e)
    BY PartingOf
<1>2. /\ e \in [0 .. k -> Nat] /\ e[0] = v /\ e[k] = End(v)
      /\ \A i \in 1 .. k : e[i - 1] < e[i] /\ s[i] = e[i - 1] + 1 /\ End(s[i]) = e[i]
    BY <1>1 DEF IsParting
<1>3. k \in Nat /\ DOMAIN children[v] = 1 .. k /\ (k = 0 <=> s = <<>>)
    BY DEF DoneTree
<1>4. LeafList \in [Nat -> Nat] /\ (IsLeaf(v) => LeafList[LeavesUpto(v)] = v)
    BY LeafListIs
<1>5. PICK m \in Nat : v = m + 1 /\ v - 1 = m
    <2>1. v - 1 \in Nat /\ v = (v - 1) + 1
        OBVIOUS
    <2> QED BY <2>1
<1>6. /\ LeavesUpto(m) \in Nat /\ LeavesUpto(v) \in Nat
      /\ IsLeaf(v) => LeavesUpto(v) = LeavesUpto(m) + 1
      /\ ~IsLeaf(v) => LeavesUpto(v) = LeavesUpto(m)
    BY <1>5, LeafCount
<1>7. s = <<>> <=> IsLeaf(v)
    BY LeafHasNoChildren
<1>8. CASE s = <<>>
    <2>1. End(v) = v
        BY <1>2, <1>3, <1>8
    <2>2. PICK a \in Nat : a = LeavesUpto(m) /\ LeavesUpto(v) = a + 1 /\ LeafList[a + 1] = v
        BY <1>4, <1>6, <1>7, <1>8
    <2>3. DevicesOf(v) = Piece(LeafList, a, a + 1)
        BY <1>5, <2>1, <2>2 DEF DevicesOf
    <2>4. (a + 1) - a = 1
        OBVIOUS
    <2>5. Piece(LeafList, a, a + 1) = <<v>>
        BY <2>2, <2>4 DEF Piece
    <2> QED BY <1>8, <2>3, <2>5 DEF WalkedLeaves
<1>9. CASE s # <<>>
    <2> DEFINE f == [i \in 0 .. k |-> LeavesUpto(e[i])]
    <2>1. f \in [0 .. k -> Nat]
        <3>1. \A i \in 0 .. k : LeavesUpto(e[i]) \in Nat
            BY <1>2, LeafCount
        <3> QED BY <3>1
    <2>2. ASSUME NEW i \in 1 .. k
          PROVE  f[i - 1] <= f[i] /\ seqs[i] = Piece(LeafList, f[i - 1], f[i])
        <3>1. i - 1 \in 0 .. k /\ i \in 0 .. k
            BY <1>3
        <3>2. PICK a, b \in Nat : a = e[i - 1] /\ b = e[i]
            BY <1>2, <3>1
        <3>3. a < b /\ s[i] = a + 1 /\ End(s[i]) = b
            BY <1>2, <3>2
        <3>4. f[i - 1] = LeavesUpto(a) /\ f[i] = LeavesUpto(b) /\ (a + 1) - 1 = a /\ a <= b
            BY <3>1, <3>2, <3>3
        <3>5. s[i] \in Children(v) /\ seqs[i] = leaves[s[i]]
            BY <1>3 DEF Children, Range
        <3>6. DevicesOf(s[i]) = Piece(LeafList, f[i - 1], f[i])
            BY <3>3, <3>4 DEF DevicesOf
        <3>7. f[i - 1] <= f[i]
            BY <3>4, LeavesGrow
        <3> QED BY <3>5, <3>6, <3>7
    <2>3. seqs = [i \in 1 .. k |-> Piece(LeafList, f[i - 1], f[i])]
        <3>1. seqs = [i \in 1 .. k |-> seqs[i]]
            BY <1>3
        <3> HIDE DEF seqs, f, k
        <3> QED BY <2>2, <3>1
    <2>4. f[0] = LeavesUpto(v) /\ f[k] = LeavesUpto(End(v))
        BY <1>2, <1>3
    <2>5. FlattenSeq(seqs) = Piece(LeafList, f[0], f[k])
        <3> HIDE DEF seqs, f, k
        <3>1. \A i \in 1 .. k : f[i - 1] <= f[i]
            BY <2>2
        <3> QED BY <1>3, <1>4, <2>1, <2>3, <3>1, FlattenPieces
    <2>6. LeavesUpto(v) = LeavesUpto(m)
        BY <1>6, <1>7, <1>9
    <2>7. WalkedLeaves(v, leaves) = FlattenSeq(seqs)
        BY <1>9 DEF WalkedLeaves
    <2> HIDE DEF seqs, f
    <2> QED BY <1>5, <2>4, <2>5, <2>6, <2>7 DEF DevicesOf
<1> QED BY <1>8, <1>9

\* So the error map has the leaves of the text.
LEMMA DevicesByText ==
    ASSUME DoneTree
    PROVE  LET leaves == CollectLeaves
           IN  /\ Range(leaves) = {r \in DOMAIN rows : IsLeaf(r)}
               /\ \A i, j \in DOMAIN leaves : i < j => leaves[i] < leaves[j]
<1> DEFINE V == 1 .. Len(rows)
           walked(f) == f = [v \in V |-> WalkedLeaves(v, f)]
           leaves == CHOOSE f : walked(f)
           devices == [v \in V |-> DevicesOf(v)]
<1>1. \A v \in V : Children(v) \subseteq V
    <2>1. \A v \in V : Children(v) \subseteq v + 1 .. Len(rows)
        BY ChildrenAreLater
    <2> QED BY <2>1
<1>2. walked(devices)
    <2>1. ASSUME NEW v \in V PROVE WalkedLeaves(v, devices) = DevicesOf(v)
        <3>1. \A c \in Children(v) : devices[c] = DevicesOf(c)
            BY <1>1
        <3> HIDE DEF devices
        <3> QED BY <3>1, LeavesStep
    <2> QED BY <2>1, Zenon
<1>3. walked(leaves)
    <2> HIDE DEF walked
    <2> QED BY <1>2
<1>4. \A v \in V : leaves[v] = WalkedLeaves(v, leaves)
    <2> HIDE DEF leaves
    <2> QED BY <1>3
<1> DEFINE other == {v \in V : leaves[v] # DevicesOf(v)}
<1>5. ASSUME other # {} PROVE FALSE
    <2>1. PICK v \in other : \A c \in other : c <= v
        <3>1. other \in SUBSET (0 .. Len(rows)) /\ Len(rows) \in Nat
            BY DEF DoneTree
        <3> HIDE DEF other
        <3> QED BY <1>5, <3>1, GreatestNumber
    <2>2. \A c \in Children(v) : c \in V /\ v < c
        BY ChildrenAreLater
    <2> HIDE DEF leaves
    <2>3. \A c \in Children(v) : leaves[c] = DevicesOf(c)
        BY <2>1, <2>2
    <2>4. WalkedLeaves(v, leaves) = DevicesOf(v)
        BY <2>3, LeavesStep
    <2> QED BY <1>4, <2>4
<1>6. 1 \in V /\ DOMAIN rows = V /\ Len(rows) \in Nat
    BY DEF DoneTree
<1>7. CollectLeaves = leaves[1]
    BY <1>6 DEF CollectLeaves, WalkedLeaves, Root
<1> HIDE DEF leaves
<1>8. CollectLeaves = DevicesOf(1)
    BY <1>5, <1>6, <1>7
<1>9. End(1) = Len(rows)
    <2>1. IsEnd(1, End(1))
        BY <1>6, EndOf
    <2> QED BY <2>1 DEF IsEnd
<1>10. PICK k \in Nat : k = LeavesUpto(Len(rows))
    BY <1>6, LeafCount
<1>11. CollectLeaves = [n \in 1 .. k |-> LeafList[n]]
    <2>1. 1 - 1 = 0 /\ LeavesUpto(0) = 0 /\ k - 0 = k /\ \A n \in 1 .. k : 0 + n = n
        BY LeafCount
    <2> QED BY <1>8, <1>9, <1>10, <2>1 DEF DevicesOf, Piece
<1> DEFINE list == CollectLeaves
<1>12. DOMAIN list = 1 .. k /\ \A n \in 1 .. k : list[n] = LeafList[n]
    BY <1>11
<1> HIDE DEF list
<1>13. \A n \in 1 .. k : IsNthLeaf(n, list[n])
    BY <1>10, <1>12, LeafListIs
<1>14. ASSUME NEW r \in V, IsLeaf(r) PROVE \E n \in 1 .. k : list[n] = r
    <2>1. PICK m \in Nat : r = m + 1
        <3>1. r - 1 \in Nat /\ r = (r - 1) + 1
            OBVIOUS
        <3> QED BY <3>1
    <2>2. LeavesUpto(m) \in Nat /\ LeavesUpto(r) = LeavesUpto(m) + 1
        BY <1>14, <2>1, LeafCount
    <2>3. r \in Nat /\ r <= Len(rows)
        BY <1>6
    <2>4. LeavesUpto(r) <= k
        BY <1>6, <1>10, <2>3, LeavesGrow
    <2>5. LeavesUpto(r) \in 1 .. k
        BY <2>2, <2>4
    <2>6. LeafList[LeavesUpto(r)] = r
        BY <1>14, LeafListIs
    <2> QED BY <1>12, <2>5, <2>6
<1>15. Range(list) = {r \in V : IsLeaf(r)}
    BY <1>12, <1>13, <1>14 DEF Range, IsNthLeaf
<1>16. ASSUME NEW i \in 1 .. k, NEW j \in 1 .. k, i < j PROVE list[i] < list[j]
    <2>1. PICK a, b \in Nat : /\ a = list[i] /\ LeavesUpto(a) = i
                              /\ b = list[j] /\ LeavesUpto(b) = j
        BY <1>13 DEF IsNthLeaf
    <2>2. ~(b <= a)
        BY <1>16, <2>1, LeavesGrow
    <2> QED BY <2>1, <2>2
<1> QED BY <1>6, <1>12, <1>15, <1>16 DEF list

\* Whatever the text, the panels show it: every row once, in order, at its level,
\* and a line of the error map for each leaf (vdev_lines, collect_leaves).
THEOREM PanelsAreTheText == Spec => []PanelIsTheText
<1>1. HInv => PanelIsTheText
    <2>1. ASSUME DoneTree PROVE PanelIsTheText
        BY <2>1, PanelByText, DevicesByText DEF PanelIsTheText
    <2>2. ASSUME ~HasTree PROVE PanelIsTheText
        BY <2>2 DEF PanelIsTheText
    <2> QED BY <2>1, <2>2, TreeAtTheEnd
<1> QED BY <1>1, TreeIsTheOutline, PTL

--------------------------------------------------------------------------------
(* The part of the panel that is in view.                                   *)

\* The view begins at the offset that is drawn and has at least one line.
IsView(shown, lines, d) ==
    /\ shown # <<>>
    /\ \E m \in 1 .. Len(lines) :
          /\ DOMAIN shown = 1 .. m
          /\ \A i \in 1 .. m : d + i \in 1 .. Len(lines) /\ shown[i] = lines[d + i]

LEMMA VisibleIs ==
    ASSUME NEW S, NEW lines \in Seq(S), Len(lines) # 0,
           NEW stored \in Nat, NEW height \in Nat
    PROVE  IsView(Visible(lines, stored, height), lines, DrawnOffset(stored, Len(lines)))
<1>1. PICK k \in Nat \ {0} : k = Len(lines)
    OBVIOUS
<1>2. PICK d \in 0 .. k - 1 :
          /\ d = DrawnOffset(stored, k)
          /\ d = IF stored < k THEN stored ELSE k - 1
    BY DEF DrawnOffset
<1>3. PICK last \in d + 1 .. k : Visible(lines, stored, height) = SubSeq(lines, d + 1, last)
    <2> DEFINE room == IF height = 0 THEN 1 ELSE height
               end == IF (d + 1) + room - 1 <= k THEN (d + 1) + room - 1 ELSE k
    <2>1. end \in d + 1 .. k
        OBVIOUS
    <2>2. Visible(lines, stored, height) = SubSeq(lines, d + 1, end)
        BY <1>1, <1>2 DEF Visible
    <2> HIDE DEF end
    <2> QED BY <2>1, <2>2
<1>4. PICK v : v = Visible(lines, stored, height)
    OBVIOUS
<1>5. /\ v \in Seq(S) /\ Len(v) = last - d
      /\ \A i \in 1 .. last - d : v[i] = lines[d + i]
    <2>1. d + 1 \in 1 .. Len(lines) + 1 /\ last \in d .. Len(lines)
        BY <1>1
    <2>2. /\ SubSeq(lines, d + 1, last) \in Seq(S)
          /\ Len(SubSeq(lines, d + 1, last)) = last - d
          /\ \A i \in 1 .. last - d : SubSeq(lines, d + 1, last)[i] = lines[d + i]
        <3>1. lines \in Seq(S) /\ d + 1 \in 1 .. Len(lines) + 1 /\ last \in (d + 1) - 1 .. Len(lines)
            BY <2>1
        <3>2. last - (d + 1) + 1 = last - d /\ \A i \in 1 .. last - d : (d + 1) + i - 1 = d + i
            OBVIOUS
        <3> QED BY <3>1, <3>2, SubSeqProperties
    <2> QED BY <1>3, <1>4, <2>2
<1>6. last - d \in 1 .. k /\ \A i \in 1 .. last - d : d + i \in 1 .. k
    BY <1>1
<1>7. DOMAIN v = 1 .. last - d /\ v # <<>>
    BY <1>5, <1>6
<1> QED BY <1>1, <1>2, <1>4, <1>5, <1>6, <1>7 DEF IsView

\* Whatever offset is stored, the panel is in view.
LEMMA PanelInView ==
    ASSUME DoneTree, Len(rows) <= MaxRows
    PROVE  PanelIsNeverLost
<1>1. PICK k \in Nat \ {0} : k = Len(rows) /\ DOMAIN rows = 1 .. k /\ k <= MaxRows
    BY DEF DoneTree
<1> DEFINE lines == VdevLines
<1>2. lines = VdevLines
    OBVIOUS
<1> HIDE DEF lines
<1>3. lines = [r \in 1 .. k |-> [row |-> r, depth |-> Level(r)]]
    BY <1>1, <1>2, PanelByText
<1>4. PICK S : lines \in Seq(S)
    <2> DEFINE T == {lines[r] : r \in 1 .. k}
    <2>1. lines = [r \in 1 .. k |-> lines[r]] /\ \A r \in 1 .. k : lines[r] \in T
        BY <1>3
    <2> HIDE DEF T
    <2>2. lines \in Seq(T)
        BY <2>1
    <2> QED BY <2>2
<1>5. Len(lines) = k /\ DOMAIN lines = 1 .. k /\ \A r \in 1 .. k : lines[r].row = r
    BY <1>3, <1>4
<1> DEFINE drawn(stored) == IF stored < k THEN stored ELSE k - 1
           top(stored, height) == Visible(lines, stored, height)[1].row
<1>6. ASSUME NEW stored \in Nat, NEW height \in Nat
      PROVE  LET shown == Visible(lines, stored, height)
             IN  /\ DrawnOffset(stored, k) = drawn(stored) /\ drawn(stored) + 1 \in 1 .. k
                 /\ 1 \in DOMAIN shown /\ shown # <<>>
                 /\ shown[1] = lines[drawn(stored) + 1]
                 /\ \A i \in DOMAIN shown : i \in Nat /\ shown[i].row = drawn(stored) + i
    <2>1. DrawnOffset(stored, k) = drawn(stored) /\ drawn(stored) \in 0 .. k - 1
        BY DEF DrawnOffset
    <2>5. IsView(Visible(lines, stored, height), lines, drawn(stored))
        BY <1>4, <1>5, <2>1, VisibleIs
    <2> HIDE DEF drawn
    <2>2. PICK m \in 1 .. k :
             /\ DOMAIN Visible(lines, stored, height) = 1 .. m
             /\ Visible(lines, stored, height) # <<>>
             /\ \A i \in 1 .. m :
                   /\ drawn(stored) + i \in 1 .. k
                   /\ Visible(lines, stored, height)[i] = lines[drawn(stored) + i]
        BY <1>5, <2>5 DEF IsView
    <2>3. 1 \in 1 .. m
        OBVIOUS
    <2>4. \A i \in 1 .. m : Visible(lines, stored, height)[i].row = drawn(stored) + i
        BY <1>5, <2>2
    <2> QED BY <2>1, <2>2, <2>3, <2>4
<1>7. ASSUME NEW stored \in Nat, NEW height \in Nat
      PROVE  LET shown == Visible(lines, stored, height)
                 at == TitlePosition(lines, stored, height)
             IN  /\ shown # <<>>
                 /\ \A i \in DOMAIN shown : shown[i].row = shown[1].row + i - 1
                 /\ at # <<>> => shown[1] = lines[at[1]]
    <2>1. PICK shown : shown = Visible(lines, stored, height)
        OBVIOUS
    <2>2. PICK d \in 0 .. k - 1 : d = drawn(stored)
        OBVIOUS
    <2>3. /\ DrawnOffset(stored, k) = d /\ 1 \in DOMAIN shown /\ shown # <<>>
          /\ shown[1] = lines[d + 1] /\ \A i \in DOMAIN shown : shown[i].row = d + i
          /\ DOMAIN shown \subseteq Nat
        BY <1>6, <2>1, <2>2
    <2>4. shown[1].row = d + 1
        BY <2>3
    <2>5. \A i \in DOMAIN shown : shown[i].row = shown[1].row + i - 1
        BY <2>3, <2>4
    <2>6. ASSUME TitlePosition(lines, stored, height) # <<>>
          PROVE  TitlePosition(lines, stored, height)[1] = d + 1
        BY <1>5, <2>3, <2>6 DEF TitlePosition
    <2> QED BY <2>1, <2>3, <2>5, <2>6
<1>8. ASSUME NEW stored \in Nat, NEW height \in Nat
      PROVE  top(Up(stored), height) =
                IF stored \in 1 .. Len(lines) - 1
                THEN top(stored, height) - 1 ELSE top(stored, height)
    <2>1. Up(stored) \in Nat /\ Up(stored) = IF stored = 0 THEN 0 ELSE stored - 1
        BY DEF Up
    <2>2. top(stored, height) = drawn(stored) + 1
        BY <1>6
    <2>3. top(Up(stored), height) = drawn(Up(stored)) + 1
        BY <1>6, <2>1
    <2> HIDE DEF top
    <2> QED BY <1>5, <2>1, <2>2, <2>3
<1>9. ASSUME NEW height \in Nat, NEW n \in 1 .. k
      PROVE  \E stored \in 0 .. MaxRows : Visible(lines, stored, height)[1] = lines[n]
    <2>1. PICK stored \in Nat : stored = n - 1
        OBVIOUS
    <2>2. stored \in 0 .. MaxRows /\ drawn(stored) + 1 = n
        BY <1>1, <2>1, MaxRowsAssumption
    <2>3. Visible(lines, stored, height)[1] = lines[drawn(stored) + 1]
        BY <1>6
    <2> QED BY <2>2, <2>3
<1>10. \A n \in 0 .. MaxRows + 1 : n \in Nat
    BY MaxRowsAssumption
<1>11. ASSUME NEW height \in 0 .. MaxRows + 1, NEW stored \in 0 .. MaxRows + 1
       PROVE  LET shown == Visible(lines, stored, height)
                  at == TitlePosition(lines, stored, height)
              IN  /\ shown # <<>>
                  /\ \A i \in DOMAIN shown : shown[i].row = shown[1].row + i - 1
                  /\ at # <<>> => shown[1] = lines[at[1]]
                  /\ top(Up(stored), height) =
                        IF stored \in 1 .. Len(lines) - 1
                        THEN top(stored, height) - 1 ELSE top(stored, height)
    <2>1. stored \in Nat /\ height \in Nat
        BY <1>10
    <2> HIDE DEF top
    <2> QED BY <1>7, <1>8, <2>1
<1>12. ASSUME NEW height \in 0 .. MaxRows + 1
       PROVE  \A n \in DOMAIN lines :
                 \E stored \in 0 .. MaxRows : Visible(lines, stored, height)[1] = lines[n]
    BY <1>5, <1>9, <1>10
<1> QED BY <1>11, <1>12, Zenon DEF PanelIsNeverLost, lines

\* No offset that run_tui can store loses the panel (the scroll correction of
\* render_frame_scrolled).
THEOREM PanelStaysInView == Spec => []PanelIsNeverLost
<1>1. HInv => PanelIsNeverLost
    <2>1. ASSUME DoneTree, HInv PROVE PanelIsNeverLost
        <3>1. Len(rows) <= MaxRows
            BY <2>1 DEF HInv, IInv, TypeOK
        <3> QED BY <2>1, <3>1, PanelInView
    <2>2. ASSUME ~HasTree PROVE PanelIsNeverLost
        BY <2>2 DEF PanelIsNeverLost
    <2> QED BY <2>1, <2>2, TreeAtTheEnd
<1> QED BY <1>1, TreeIsTheOutline, PTL

--------------------------------------------------------------------------------
(* The counters of a row.                                                   *)

Kinds == {"number", "K", "M", "G", "T", "P", "E", "word"}
Tokens == [kind : Kinds, value : Nat]

\* A counter below 1024^6 in its unit.
Rounded(n, unit) == (n + unit \div 2) \div unit
UnitOf(n) ==
    IF n < Kilo THEN 1 ELSE IF n < Mega THEN Kilo ELSE IF n < Giga THEN Mega
    ELSE IF n < Tera THEN Giga ELSE IF n < Peta THEN Tera ELSE Peta

\* A counter as it is read back from what zpool prints for it.
AsPrinted(n) == IF n < Kilo THEN n ELSE Rounded(n, UnitOf(n)) * UnitOf(n)

\* A product of a positive number and one that is not less than two.
LEMMA Multiplied ==
    ASSUME NEW a \in Nat, NEW b \in Nat, b > 0, a > 1
    PROVE  a * b \in Nat /\ a * b > b
OBVIOUS

\* The units are larger and larger.
LEMMA UnitsGrow ==
    /\ {Kilo, Mega, Giga, Tera, Peta, Exa} \subseteq Nat
    /\ Kilo > 1 /\ Mega > Kilo /\ Giga > Mega /\ Tera > Giga /\ Peta > Tera /\ Exa > Peta
<1>1. Unit \in Nat /\ Unit > 1
    BY CountersAssumption
<1>2. Kilo \in Nat /\ Kilo > 1
    BY <1>1 DEF Kilo
<1>3. Mega \in Nat /\ Mega > Kilo
    BY <1>1, <1>2, Multiplied DEF Mega
<1>4. Giga \in Nat /\ Giga > Mega
    BY <1>1, <1>2, <1>3, Multiplied DEF Giga
<1>5. Tera \in Nat /\ Tera > Giga
    BY <1>1, <1>2, <1>3, <1>4, Multiplied DEF Tera
<1>6. Peta \in Nat /\ Peta > Tera
    BY <1>1, <1>2, <1>3, <1>4, <1>5, Multiplied DEF Peta
<1>7. Exa \in Nat /\ Exa > Peta
    BY <1>1, <1>2, <1>3, <1>4, <1>5, <1>6, Multiplied DEF Exa
<1> QED BY <1>2, <1>3, <1>4, <1>5, <1>6, <1>7

\* Division, as far as it is needed.
LEMMA Quotient ==
    ASSUME NEW a \in Nat, NEW b \in Nat, b > 0
    PROVE  a \div b \in Nat /\ b * (a \div b) <= a /\ a < b * (a \div b) + b
OBVIOUS

\* A number rounded in a unit not above it stays between the unit and the next.
LEMMA Rounding ==
    ASSUME NEW n \in Nat, NEW unit \in Nat, NEW many \in Nat, unit > 0,
           unit <= n, n < many * unit
    PROVE  /\ Rounded(n, unit) \in Nat
           /\ unit <= Rounded(n, unit) * unit /\ Rounded(n, unit) * unit <= many * unit
<1>1. PICK half \in Nat : half = unit \div 2 /\ half < unit
    BY Quotient
<1>2. PICK q \in Nat : /\ q = (n + half) \div unit
                       /\ unit * q <= n + half /\ n + half < unit * q + unit
    <2>1. n + half \in Nat
        OBVIOUS
    <2> QED BY <2>1, Quotient
<1>3. q > 0
    <2> SUFFICES ASSUME q = 0 PROVE FALSE
        OBVIOUS
    <2>1. unit * q = 0
        BY <1>2
    <2> QED BY <1>1, <1>2, <2>1
<1>4. q <= many
    <2> SUFFICES ASSUME q > many PROVE FALSE
        OBVIOUS
    <2>1. PICK d \in Nat : q = many + 1 + d
        <3>1. q - many - 1 \in Nat
            OBVIOUS
        <3> QED BY <3>1
    <2>2. unit * q = unit * many + unit + unit * d
        BY <2>1
    <2>3. unit * d \in Nat /\ unit * many \in Nat /\ unit * many = many * unit
        OBVIOUS
    <2>4. unit * many + unit + unit * d <= n + half
        BY <1>2, <2>2
    <2> QED BY <1>1, <2>3, <2>4
<1>5. Rounded(n, unit) = q
    BY <1>1, <1>2 DEF Rounded
<1>6. unit <= q * unit /\ q * unit <= many * unit
    <2>1. PICK d \in Nat : q = 1 + d
        <3>1. q - 1 \in Nat
            BY <1>3
        <3> QED BY <3>1
    <2>2. PICK e \in Nat : many = q + e
        <3>1. many - q \in Nat
            BY <1>4
        <3> QED BY <3>1
    <2>3. q * unit = unit + d * unit /\ d * unit \in Nat
        BY <2>1
    <2>4. many * unit = q * unit + e * unit /\ e * unit \in Nat /\ q * unit \in Nat
        BY <2>2
    <2> QED BY <2>3, <2>4
<1> QED BY <1>5, <1>6

\* A counter below 1024^6 is one token, and it is read as the theorem says; a
\* larger one is a token that is not read.
LEMMA CounterAsPrinted ==
    ASSUME NEW n \in Nat
    PROVE  /\ Humanized(n) \in Tokens
           /\ n < Exa => ParseCounter(Humanized(n)) = {AsPrinted(n)} /\ ReadsAs(AsPrinted(n), n)
           /\ n >= Exa => ParseCounter(Humanized(n)) = {}
<1>1. /\ {Kilo, Mega, Giga, Tera, Peta, Exa} \subseteq Nat
      /\ Kilo > 1 /\ Mega > Kilo /\ Giga > Mega /\ Tera > Giga /\ Peta > Tera /\ Exa > Peta
    BY UnitsGrow
<1>2. ASSUME NEW unit \in {Kilo, Mega, Giga, Tera, Peta}, unit <= n, n < Unit * unit
      PROVE  Rounded(n, unit) \in Nat /\ ReadsAs(Rounded(n, unit) * unit, n)
    <2>1. unit \in Nat /\ unit > 0 /\ unit >= Kilo /\ Unit \in Nat /\ Kilo \in Nat /\ Kilo > 1
        BY <1>1, CountersAssumption
    <2>2. PICK q \in Nat : q = Rounded(n, unit) /\ unit <= q * unit /\ q * unit <= Unit * unit
        BY <1>2, <2>1, Rounding
    <2>3. PICK m \in Nat : m = q * unit
        BY <2>1
    <2>4. m # 0 /\ n # 0 /\ ~(n < Kilo)
        BY <1>2, <2>1, <2>2, <2>3
    <2>5. ReadsAs(m, n)
        BY <1>2, <2>2, <2>3, <2>4 DEF ReadsAs
    <2> QED BY <2>2, <2>3, <2>5
<1>3. CASE n < Kilo
    <2>1. Humanized(n) = [kind |-> "number", value |-> n]
        BY <1>1, <1>3 DEF Humanized
    <2>2. AsPrinted(n) = n /\ n < Exa /\ ~(n >= Exa)
        BY <1>1, <1>3 DEF AsPrinted
    <2>3. ReadsAs(n, n)
        <3>1. ~(n >= Kilo)
            BY <1>1, <1>3
        <3> QED BY <3>1 DEF ReadsAs
    <2>4. Humanized(n) \in Tokens
        BY <2>1, <2>3 DEF Tokens, Kinds
    <2>5. ParseCounter(Humanized(n)) = {AsPrinted(n)}
        BY <2>1, <2>2 DEF ParseCounter
    <2>6. ReadsAs(AsPrinted(n), n)
        BY <2>2, <2>3
    <2> QED BY <2>2, <2>4, <2>5, <2>6
<1>4. CASE n >= Kilo /\ n < Mega
    <2>1. Humanized(n) = [kind |-> "K", value |-> Rounded(n, Kilo)]
        BY <1>1, <1>4 DEF Humanized, Rounded
    <2>2. AsPrinted(n) = Rounded(n, Kilo) * Kilo /\ n < Exa /\ ~(n >= Exa)
        BY <1>1, <1>4 DEF AsPrinted, UnitOf
    <2>3. Rounded(n, Kilo) \in Nat /\ ReadsAs(Rounded(n, Kilo) * Kilo, n)
        BY <1>2, <1>4 DEF Mega
    <2>4. Humanized(n) \in Tokens
        BY <2>1, <2>3 DEF Tokens, Kinds
    <2>5. ParseCounter(Humanized(n)) = {AsPrinted(n)}
        BY <2>1, <2>2 DEF ParseCounter
    <2>6. ReadsAs(AsPrinted(n), n)
        BY <2>2, <2>3
    <2> QED BY <2>2, <2>4, <2>5, <2>6
<1>5. CASE n >= Mega /\ n < Giga
    <2>1. Humanized(n) = [kind |-> "M", value |-> Rounded(n, Mega)]
        BY <1>1, <1>5 DEF Humanized, Rounded
    <2>2. AsPrinted(n) = Rounded(n, Mega) * Mega /\ n < Exa /\ ~(n >= Exa)
        BY <1>1, <1>5 DEF AsPrinted, UnitOf
    <2>3. Rounded(n, Mega) \in Nat /\ ReadsAs(Rounded(n, Mega) * Mega, n)
        BY <1>2, <1>5 DEF Giga
    <2>4. Humanized(n) \in Tokens
        BY <2>1, <2>3 DEF Tokens, Kinds
    <2>5. ParseCounter(Humanized(n)) = {AsPrinted(n)}
        BY <2>1, <2>2 DEF ParseCounter
    <2>6. ReadsAs(AsPrinted(n), n)
        BY <2>2, <2>3
    <2> QED BY <2>2, <2>4, <2>5, <2>6
<1>6. CASE n >= Giga /\ n < Tera
    <2>1. Humanized(n) = [kind |-> "G", value |-> Rounded(n, Giga)]
        BY <1>1, <1>6 DEF Humanized, Rounded
    <2>2. AsPrinted(n) = Rounded(n, Giga) * Giga /\ n < Exa /\ ~(n >= Exa)
        BY <1>1, <1>6 DEF AsPrinted, UnitOf
    <2>3. Rounded(n, Giga) \in Nat /\ ReadsAs(Rounded(n, Giga) * Giga, n)
        BY <1>2, <1>6 DEF Tera
    <2>4. Humanized(n) \in Tokens
        BY <2>1, <2>3 DEF Tokens, Kinds
    <2>5. ParseCounter(Humanized(n)) = {AsPrinted(n)}
        BY <2>1, <2>2 DEF ParseCounter
    <2>6. ReadsAs(AsPrinted(n), n)
        BY <2>2, <2>3
    <2> QED BY <2>2, <2>4, <2>5, <2>6
<1>7. CASE n >= Tera /\ n < Peta
    <2>1. Humanized(n) = [kind |-> "T", value |-> Rounded(n, Tera)]
        BY <1>1, <1>7 DEF Humanized, Rounded
    <2>2. AsPrinted(n) = Rounded(n, Tera) * Tera /\ n < Exa /\ ~(n >= Exa)
        BY <1>1, <1>7 DEF AsPrinted, UnitOf
    <2>3. Rounded(n, Tera) \in Nat /\ ReadsAs(Rounded(n, Tera) * Tera, n)
        BY <1>2, <1>7 DEF Peta
    <2>4. Humanized(n) \in Tokens
        BY <2>1, <2>3 DEF Tokens, Kinds
    <2>5. ParseCounter(Humanized(n)) = {AsPrinted(n)}
        BY <2>1, <2>2 DEF ParseCounter
    <2>6. ReadsAs(AsPrinted(n), n)
        BY <2>2, <2>3
    <2> QED BY <2>2, <2>4, <2>5, <2>6
<1>8. CASE n >= Peta /\ n < Exa
    <2>1. Humanized(n) = [kind |-> "P", value |-> Rounded(n, Peta)]
        BY <1>1, <1>8 DEF Humanized, Rounded
    <2>2. AsPrinted(n) = Rounded(n, Peta) * Peta /\ n < Exa /\ ~(n >= Exa)
        BY <1>1, <1>8 DEF AsPrinted, UnitOf
    <2>3. Rounded(n, Peta) \in Nat /\ ReadsAs(Rounded(n, Peta) * Peta, n)
        BY <1>2, <1>8 DEF Exa
    <2>4. Humanized(n) \in Tokens
        BY <2>1, <2>3 DEF Tokens, Kinds
    <2>5. ParseCounter(Humanized(n)) = {AsPrinted(n)}
        BY <2>1, <2>2 DEF ParseCounter
    <2>6. ReadsAs(AsPrinted(n), n)
        BY <2>2, <2>3
    <2> QED BY <2>2, <2>4, <2>5, <2>6
<1>9. CASE n >= Exa
    <2>1. Humanized(n) = [kind |-> "E", value |-> Rounded(n, Exa)]
        BY <1>1, <1>9 DEF Humanized, Rounded
    <2>2. Rounded(n, Exa) \in Nat
        <3>1. PICK half \in Nat : half = Exa \div 2
            BY <1>1, Quotient
        <3>2. n + half \in Nat /\ Exa \in Nat /\ Exa > 0
            BY <1>1
        <3> QED BY <3>1, <3>2, Quotient DEF Rounded
    <2> QED BY <1>9, <2>1, <2>2, <1>1 DEF Tokens, Kinds, ParseCounter
<1> QED BY <1>1, <1>3, <1>4, <1>5, <1>6, <1>7, <1>8, <1>9

\* Three counters, with any number of words after them: those below 1024^6, and
\* they alone, are counted, and if all three are, each is read in its place.
LEMMA CountersAsPrinted ==
    ASSUME NEW f \in [1 .. 3 -> Nat], NEW w \in Nat, NEW i \in 1 .. 3
    PROVE  LET seen == ParseCounters([c \in 1 .. 3 |-> Humanized(f[c])]
                                        \o [c \in 1 .. w |-> Word])
           IN  /\ (\E c \in 1 .. 3 : f[c] >= Exa) => seen[i] = 0
               /\ (\A c \in 1 .. 3 : f[c] < Exa) => seen[i] = AsPrinted(f[i])
<1> DEFINE head == [c \in 1 .. 3 |-> Humanized(f[c])]
           tail == [c \in 1 .. w |-> Word]
           tokens == head \o tail
           counters == {j \in DOMAIN tokens : ParseCounter(tokens[j]) # {}}
           after(j) == Cardinality({l \in counters : l > j})
           column(c) == CHOOSE j \in counters : after(j) = 3 - c
<1>0. Exa \in Nat
    BY UnitsGrow
<1>1. /\ head \in Seq(Tokens) /\ Len(head) = 3
      /\ \A c \in 1 .. 3 : head[c] = Humanized(f[c])
    <2>1. \A c \in 1 .. 3 : Humanized(f[c]) \in Tokens
        BY CounterAsPrinted
    <2> QED BY <2>1
<1>2. /\ tail \in Seq(Tokens) /\ Len(tail) = w
      /\ \A c \in 1 .. w : tail[c] = Word
    <2>1. Word \in Tokens
        BY DEF Word, Tokens, Kinds
    <2> QED BY <2>1
<1>3. ParseCounter(Word) = {}
    BY DEF ParseCounter, Word
<1> HIDE DEF head, tail
<1>4. /\ head \o tail \in Seq(Tokens) /\ Len(head \o tail) = Len(head) + Len(tail)
      /\ \A c \in 1 .. Len(head) + Len(tail) :
            (head \o tail)[c] = IF c <= Len(head) THEN head[c] ELSE tail[c - Len(head)]
    BY <1>1, <1>2, ConcatProperties
<1>5. /\ DOMAIN tokens = 1 .. 3 + w
      /\ \A c \in 1 .. 3 : tokens[c] = Humanized(f[c])
      /\ \A c \in 4 .. 3 + w : tokens[c] = Word
    <2>1. \A c \in 4 .. 3 + w : c - 3 \in 1 .. w
        OBVIOUS
    <2> QED BY <1>1, <1>2, <1>4, <2>1
<1> HIDE DEF tokens
<1>6. counters = {c \in 1 .. 3 : f[c] < Exa}
    <2>1. ASSUME NEW c \in 1 .. 3
          PROVE  c \in 1 .. 3 + w /\ (ParseCounter(tokens[c]) # {} <=> f[c] < Exa)
        <3>1. PICK n \in Nat : n = f[c]
            OBVIOUS
        <3>2. /\ n < Exa => ParseCounter(Humanized(n)) = {AsPrinted(n)}
              /\ n >= Exa => ParseCounter(Humanized(n)) = {}
            BY CounterAsPrinted
        <3>3. tokens[c] = Humanized(n)
            BY <1>5, <3>1
        <3>4. n < Exa \/ n >= Exa
            BY <1>0
        <3>5. n >= Exa => ~(n < Exa)
            BY <1>0
        <3>6. ParseCounter(tokens[c]) # {} <=> n < Exa
            BY <3>2, <3>3, <3>4, <3>5, Zenon
        <3> QED BY <3>1, <3>6
    <2>2. \A c \in 1 .. 3 + w : c \in 1 .. 3 \/ c \in 4 .. 3 + w
        OBVIOUS
    <2>3. \A c \in 4 .. 3 + w : ParseCounter(tokens[c]) = {}
        BY <1>3, <1>5
    <2> QED BY <1>5, <2>1, <2>2, <2>3
<1> HIDE DEF counters
<1>7. ParseCounters(tokens) =
          [c \in 1 .. 3 |-> IF Cardinality(counters) < 3 THEN 0
                            ELSE CHOOSE v \in ParseCounter(tokens[column(c)]) : TRUE]
    BY DEF ParseCounters, counters
<1>8. IsFiniteSet(1 .. 3) /\ Cardinality(1 .. 3) = 3
    <2>1. 1 \in Int /\ 3 \in Int /\ 3 - 1 + 1 = 3 /\ ~(1 > 3)
        OBVIOUS
    <2> QED BY <2>1, FS_Interval
<1>9. ASSUME \E c \in 1 .. 3 : f[c] >= Exa PROVE ParseCounters(tokens)[i] = 0
    <2>1. counters \subseteq 1 .. 3 /\ counters # 1 .. 3
        BY <1>0, <1>6, <1>9
    <2>2. /\ IsFiniteSet(counters) /\ Cardinality(counters) <= 3
          /\ Cardinality(counters) # 3
        <3> DEFINE three == 1 .. 3
        <3>1. IsFiniteSet(three) /\ Cardinality(three) = 3 /\ counters \in SUBSET three
              /\ three # counters
            BY <1>8, <2>1
        <3> HIDE DEF three
        <3>2. /\ IsFiniteSet(counters) /\ Cardinality(counters) <= Cardinality(three)
              /\ Cardinality(three) = Cardinality(counters) => three = counters
            BY <3>1, FS_Subset
        <3> QED BY <3>1, <3>2
    <2>3. Cardinality(counters) \in Nat
        BY <2>2, FS_CardinalityType
    <2>4. Cardinality(counters) < 3
        BY <2>2, <2>3
    <2> HIDE DEF column
    <2> QED BY <1>7, <2>4
<1>10. ASSUME \A c \in 1 .. 3 : f[c] < Exa PROVE ParseCounters(tokens)[i] = AsPrinted(f[i])
    <2>1. counters = 1 .. 3
        BY <1>6, <1>10
    <2>2. ASSUME NEW j \in 1 .. 3 PROVE after(j) = 3 - j
        <3>1. {l \in counters : l > j} = j + 1 .. 3
            BY <2>1
        <3>2. Cardinality(j + 1 .. 3) = 3 - j
            <4>1. j + 1 \in Int /\ 3 \in Int /\ 3 - (j + 1) + 1 = 3 - j /\ (j + 1 > 3 => 3 - j = 0)
                OBVIOUS
            <4> QED BY <4>1, FS_Interval
        <3> QED BY <3>1, <3>2
    <2>3. column(i) = i
        <3>1. \A j \in counters : after(j) = 3 - i <=> j = i
            <4> HIDE DEF after
            <4> QED BY <2>1, <2>2
        <3>2. i \in counters
            BY <2>1
        <3> HIDE DEF after
        <3> QED BY <3>1, <3>2
    <2>4. ~(Cardinality(counters) < 3)
        BY <1>8, <2>1
    <2> HIDE DEF column
    <2>5. ParseCounters(tokens)[i] = CHOOSE v \in ParseCounter(tokens[column(i)]) : TRUE
        BY <1>7, <2>4
    <2>6. ParseCounter(tokens[i]) = {AsPrinted(f[i])}
        BY <1>5, <1>10, CounterAsPrinted
    <2> QED BY <2>3, <2>5, <2>6
<1> QED BY <1>9, <1>10 DEF tokens, head, tail

\* Every row survives.
LEMMA AllCountersSurvive ==
    ASSUME NEW actual \in [1 .. 3 -> Nat], NEW words \in Nat
    PROVE  Survive(actual, words)
<1> DEFINE seen == ParseCounters([i \in 1 .. 3 |-> Humanized(actual[i])] \o
                                 [i \in 1 .. words |-> Word])
<1>1. ASSUME NEW i \in 1 .. 3
      PROVE  /\ (\E c \in 1 .. 3 : actual[c] >= Exa) => seen[i] = 0
             /\ (\A c \in 1 .. 3 : actual[c] < Exa) => seen[i] = AsPrinted(actual[i])
    BY CountersAsPrinted
<1>2. ASSUME NEW i \in 1 .. 3, actual[i] < Exa
      PROVE  ReadsAs(AsPrinted(actual[i]), actual[i])
    BY <1>2, CounterAsPrinted
<1>3. \A i \in 1 .. 3 : ~(actual[i] >= Exa) => actual[i] < Exa
    BY UnitsGrow
<1> HIDE DEF seen
<1>4. CASE \E c \in 1 .. 3 : actual[c] >= Exa
    <2>1. \A i \in 1 .. 3 : seen[i] = 0
        BY <1>1, <1>4
    <2> QED BY <1>4, <2>1 DEF Survive, seen
<1>5. CASE ~ \E c \in 1 .. 3 : actual[c] >= Exa
    <2>1. \A i \in 1 .. 3 : ReadsAs(seen[i], actual[i])
        <3>1. \A i \in 1 .. 3 : actual[i] < Exa
            BY <1>3, <1>5
        <3> QED BY <1>1, <1>2, <3>1
    <2> QED BY <1>5, <2>1 DEF Survive, seen
<1> QED BY <1>4, <1>5

\* No row whose counters are below 1024^6 reads as one without errors, no counter
\* takes the place of another, and each keeps its unit; a row with a larger one
\* reads as zeros, for the table of units ends before it (parse_counters).
THEOREM ErrorsAreCounted == Spec => []CountersSurvive
<1>1. CountersSurvive
    <2>1. ASSUME NEW read \in Counts, NEW write \in Counts, NEW cksum \in Counts,
                 NEW words \in 0 .. 2
          PROVE  Survive(<<read, write, cksum>>, words)
        <3>1. <<read, write, cksum>> \in [1 .. 3 -> Nat] /\ words \in Nat
            BY CountersAssumption
        <3> QED BY <3>1, AllCountersSurvive
    <2> QED BY <2>1 DEF RowsSurvive, CountersSurvive
<1> QED BY <1>1, PTL
================================================================================
