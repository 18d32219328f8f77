---------------------------- MODULE StatusTreeProofs ----------------------------
(****************************************************************************)
(* Proofs about the fold of StatusTree, for every set of indentations and   *)
(* texts of every length.                                                   *)
(****************************************************************************)
EXTENDS StatusTree, TLAPS

\* The first row is at the top of the list for good.
TopIsFirst ==
    /\ rows = <<>> <=> nodes = <<>>
    /\ nodes # <<>> => nodes[1].row = 1 /\ nodes[1].indent <= rows[1].indent

\* The list goes down the text and to the right.
Descending ==
    \A j, k \in DOMAIN nodes :
        j < k => nodes[j].indent <= nodes[k].indent /\ nodes[j].row < nodes[k].row

OwnIndent ==
    \A k \in DOMAIN nodes : k > 1 => nodes[k].indent = rows[nodes[k].row].indent

\* No row below the one of a node is shallower than the next node: the node
\* could still be the group of anything that comes.
Open ==
    pc = "rows" =>
        \A k \in DOMAIN nodes, i \in DOMAIN rows :
            i > nodes[k].row =>
                k < Len(nodes) /\ rows[i].indent >= nodes[k + 1].indent

IInv == TypeOK /\ TopIsFirst /\ Descending /\ OwnIndent /\ Open

--------------------------------------------------------------------------------
\* TypeOK, by element.
Elements ==
    /\ DOMAIN rows = 1 .. Len(rows) /\ Len(rows) \in Nat
    /\ DOMAIN nodes = 1 .. Len(nodes) /\ Len(nodes) \in Nat
    /\ nodes \in Seq([indent : Indents, row : 1 .. Len(rows)])
    /\ DOMAIN children = 1 .. Len(rows)
    /\ \A r \in 1 .. Len(rows) :
          /\ rows[r].indent \in Indents /\ rows[r].indent \in Nat
          /\ children[r] \in Seq(1 .. Len(rows))
    /\ \A k \in 1 .. Len(nodes) :
          /\ nodes[k].indent \in Indents /\ nodes[k].indent \in Nat
          /\ nodes[k].row \in 1 .. Len(rows)
          /\ nodes[k] = [indent |-> nodes[k].indent, row |-> nodes[k].row]

LEMMA TypeByElement == TypeOK => Elements
<1> SUFFICES ASSUME TypeOK PROVE Elements
    OBVIOUS
<1>1. DOMAIN rows = 1 .. Len(rows) /\ Len(rows) \in Nat
    BY DEF TypeOK
<1>2. DOMAIN nodes = 1 .. Len(nodes) /\ Len(nodes) \in Nat
    BY DEF TypeOK
<1>3. ASSUME NEW r \in 1 .. Len(rows)
      PROVE  /\ rows[r].indent \in Indents /\ rows[r].indent \in Nat
             /\ children[r] \in Seq(1 .. Len(rows))
    <2>1. rows[r] \in Row
        BY DEF TypeOK
    <2>2. children[r] \in Seq(1 .. Len(rows))
        BY <1>1 DEF TypeOK
    <2> QED
        BY <2>1, <2>2, IndentsAssumption DEF Row
<1>4. ASSUME NEW k \in 1 .. Len(nodes)
      PROVE  /\ nodes[k].indent \in Indents /\ nodes[k].indent \in Nat
             /\ nodes[k].row \in 1 .. Len(rows)
             /\ nodes[k] = [indent |-> nodes[k].indent, row |-> nodes[k].row]
    <2> DEFINE Node == [indent : Indents, row : 1 .. Len(rows)]
    <2>1. nodes \in Seq(Node)
        BY <1>1 DEF TypeOK
    <2> HIDE DEF Node
    <2>2. nodes[k] \in Node
        BY <2>1
    <2> QED
        BY <2>2, IndentsAssumption DEF Node
<1>5. nodes \in Seq([indent : Indents, row : 1 .. Len(rows)])
    BY <1>1 DEF TypeOK
<1> QED
    BY <1>1, <1>2, <1>3, <1>4, <1>5 DEF Elements, TypeOK

\* What a fold does to the children of a row: nothing, or the row of the next
\* node is added to them.
LEMMA Folds ==
    ASSUME Elements, NEW k \in 0 .. Len(nodes), k = 0 => nodes = <<>>,
           NEW r \in 1 .. Len(rows)
    PROVE  /\ DOMAIN FoldedTo(k) = 1 .. Len(rows)
           /\ FoldedTo(k)[r] \in Seq(1 .. Len(rows))
           /\ \/ /\ Child(k, r) = {}
                 /\ FoldedTo(k)[r] = children[r]
              \/ \E j \in k + 1 .. Len(nodes) :
                    /\ j > 1 /\ nodes[j - 1].row = r
                    /\ FoldedTo(k)[r] = Append(children[r], nodes[j].row)
<1>1. CASE Child(k, r) = {}
    BY <1>1 DEF FoldedTo, Elements
<1>2. CASE Child(k, r) # {}
    <2> DEFINE c == CHOOSE j \in Child(k, r) : TRUE
    <2>1. c \in Child(k, r)
        BY <1>2
    <2>2. FoldedTo(k)[r] = Append(children[r], nodes[c].row)
        BY <1>2 DEF FoldedTo, Elements
    <2> HIDE DEF c
    <2>3. c \in k + 1 .. Len(nodes) /\ nodes[c - 1].row = r
        BY <2>1 DEF Child
    <2>4. c \in 1 .. Len(nodes) /\ c > 1
        <3>1. k # 0
            BY <2>3 DEF Elements
        <3> QED
            BY <2>3, <3>1 DEF Elements
    <2>5. nodes[c].row \in 1 .. Len(rows)
        BY <2>4 DEF Elements
    <2>6. DOMAIN FoldedTo(k) = 1 .. Len(rows)
        BY DEF FoldedTo, Elements
    <2> QED
        BY <2>2, <2>3, <2>4, <2>5, <2>6 DEF Elements
<1> QED
    BY <1>1, <1>2

Has(s, c) == \E i \in DOMAIN s : s[i] = c

LEMMA Appending ==
    ASSUME NEW S, NEW s \in Seq(S), NEW x \in S, NEW c
    PROVE  Has(Append(s, x), c) <=> Has(s, c) \/ x = c
<1> DEFINE t == Append(s, x)
<1>1. /\ DOMAIN t = 1 .. Len(s) + 1 /\ DOMAIN s = 1 .. Len(s) /\ Len(s) \in Nat
      /\ \A i \in 1 .. Len(s) : t[i] = s[i]
      /\ t[Len(s) + 1] = x
    OBVIOUS
<1> HIDE DEF t
<1>2. ASSUME NEW i \in DOMAIN t, t[i] = c
      PROVE  Has(s, c) \/ x = c
    <2>1. CASE i = Len(s) + 1
        BY <1>1, <1>2, <2>1
    <2>2. CASE i \in 1 .. Len(s)
        BY <1>1, <1>2, <2>2 DEF Has
    <2> QED
        BY <1>1, <2>1, <2>2
<1>3. ASSUME Has(s, c) \/ x = c
      PROVE  Has(t, c)
    <2>1. Len(s) + 1 \in DOMAIN t /\ DOMAIN s \subseteq DOMAIN t
        BY <1>1
    <2> QED
        BY <1>1, <1>3, <2>1 DEF Has
<1>4. Has(t, c) <=> Has(s, c) \/ x = c
    BY <1>2, <1>3 DEF Has
<1> QED
    BY <1>4 DEF t

\* The edges of the list past the k-th node.
ListEdge(k, p, c) ==
    \E j \in k + 1 .. Len(nodes) :
        j > 1 /\ nodes[j - 1].row = p /\ nodes[j].row = c

\* A fold moves edges from the list to the vectors, and loses none.
LEMMA FoldMovesEdges ==
    ASSUME Elements, Descending, NEW k \in 0 .. Len(nodes), k = 0 => nodes = <<>>,
           NEW p \in 1 .. Len(rows), NEW c \in 1 .. Len(rows)
    PROVE  Has(FoldedTo(k)[p], c) <=> Has(children[p], c) \/ ListEdge(k, p, c)
<1>1. CASE Child(k, p) = {} /\ FoldedTo(k)[p] = children[p]
    <2>1. ~ListEdge(k, p, c)
        BY <1>1 DEF Child, ListEdge
    <2> QED
        BY <1>1, <2>1
<1>2. ASSUME NEW j \in k + 1 .. Len(nodes), j > 1, nodes[j - 1].row = p,
             FoldedTo(k)[p] = Append(children[p], nodes[j].row)
      PROVE  Has(FoldedTo(k)[p], c) <=> Has(children[p], c) \/ ListEdge(k, p, c)
    <2>1. j \in 1 .. Len(nodes)
        BY <1>2 DEF Elements
    <2>2. children[p] \in Seq(1 .. Len(rows)) /\ nodes[j].row \in 1 .. Len(rows)
        BY <2>1 DEF Elements
    <2>3. Has(FoldedTo(k)[p], c) <=> Has(children[p], c) \/ nodes[j].row = c
        <3> DEFINE S == 1 .. Len(rows)
        <3>1. children[p] \in Seq(S) /\ nodes[j].row \in S
            BY <2>2
        <3> HIDE DEF S
        <3>2. Has(Append(children[p], nodes[j].row), c)
                <=> Has(children[p], c) \/ nodes[j].row = c
            BY <3>1, Appending, Zenon
        <3> QED
            BY <1>2, <3>2
    <2>4. ASSUME NEW l \in k + 1 .. Len(nodes), l > 1, nodes[l - 1].row = p
          PROVE  l = j
        <3>. Len(nodes) \in Nat
            BY DEF Elements
        <3>1. l - 1 \in 1 .. Len(nodes) /\ j - 1 \in 1 .. Len(nodes)
            BY <1>2, <2>4
        <3>2. nodes[l - 1].row = nodes[j - 1].row /\ nodes[j - 1].row \in Nat
            BY <1>2, <2>4, <3>1 DEF Elements
        <3>3. l - 1 \in DOMAIN nodes /\ j - 1 \in DOMAIN nodes
            BY <3>1 DEF Elements
        <3>4. ~(l - 1 < j - 1) /\ ~(j - 1 < l - 1)
            BY <3>2, <3>3 DEF Descending
        <3> QED
            BY <3>1, <3>4
    <2>5. ListEdge(k, p, c) <=> nodes[j].row = c
        BY <1>2, <2>4 DEF ListEdge
    <2> QED
        BY <2>3, <2>5
<1> QED
    BY <1>1, <1>2, Folds

\* What a new row of indentation d finds of the nodes it keeps.
LEMMA Keeping ==
    ASSUME Elements, NEW k \in 0 .. Len(nodes), k = 0 => nodes = <<>>,
           NEW d \in Indents
    PROVE  /\ Len(KeptNodes(k, d)) = k
           /\ KeptNodes(k, d) \in Seq([indent : Indents, row : 1 .. Len(rows)])
           /\ \A j \in 1 .. k :
                /\ KeptNodes(k, d)[j].row = nodes[j].row
                /\ KeptNodes(k, d)[j].indent =
                      IF k = 1 /\ nodes[1].indent >= d THEN d ELSE nodes[j].indent
<1> DEFINE Node == [indent : Indents, row : 1 .. Len(rows)]
<1>1. CASE k = 1 /\ nodes[1].indent >= d
    <2>1. 1 \in 1 .. Len(nodes)
        BY <1>1 DEF Elements
    <2> DEFINE top == [indent |-> d, row |-> nodes[1].row]
    <2>2. KeptNodes(k, d) = <<top>>
        BY <1>1 DEF KeptNodes
    <2>3. top \in Node /\ top.indent = d /\ top.row = nodes[1].row
        BY <2>1 DEF Elements
    <2> HIDE DEF top, Node
    <2>4. Len(<<top>>) = 1 /\ <<top>> \in Seq(Node) /\ <<top>>[1] = top
        BY <2>3
    <2>5. KeptNodes(k, d) \in Seq(Node) /\ Len(KeptNodes(k, d)) = k
        BY <1>1, <2>2, <2>4
    <2>6. ASSUME NEW j \in 1 .. k
          PROVE  /\ KeptNodes(k, d)[j].row = nodes[j].row
                 /\ KeptNodes(k, d)[j].indent = d
        <3>1. j = 1
            BY <1>1
        <3> QED
            BY <2>2, <2>3, <2>4, <3>1
    <2> QED
        BY <1>1, <2>5, <2>6 DEF Node
<1>2. CASE ~(k = 1 /\ nodes[1].indent >= d)
    <2>1. KeptNodes(k, d) = SubSeq(nodes, 1, k)
        BY <1>2 DEF KeptNodes
    <2>2. nodes \in Seq(Node)
        BY DEF Elements
    <2> HIDE DEF Node
    <2>3. SubSeq(nodes, 1, k) \in Seq(Node) /\ Len(SubSeq(nodes, 1, k)) = k
        BY <2>2
    <2>4. \A j \in 1 .. k : SubSeq(nodes, 1, k)[j] = nodes[j]
        BY <2>2
    <2> QED
        BY <1>2, <2>1, <2>3, <2>4 DEF Node
<1> QED
    BY <1>1, <1>2

LEMMA IsFunction ==
    ASSUME NEW S, NEW s \in Seq(S), NEW n, Len(s) = n
    PROVE  s \in [1 .. n -> S]
OBVIOUS

\* ReadRow by element.
Reads(k, row) ==
    /\ Keeps(k, row.indent)
    /\ rows' \in Seq(Row) /\ Len(rows') = Len(rows) + 1
    /\ \A i \in 1 .. Len(rows) : rows'[i] = rows[i]
    /\ rows'[Len(rows) + 1] = row
    /\ nodes' \in Seq([indent : Indents, row : 1 .. Len(rows) + 1])
    /\ Len(nodes') = k + 1
    /\ \A j \in 1 .. k :
          /\ nodes'[j].row = nodes[j].row
          /\ nodes'[j].indent =
                IF k = 1 /\ nodes[1].indent >= row.indent THEN row.indent
                ELSE nodes[j].indent
    /\ nodes'[k + 1] = [indent |-> row.indent, row |-> Len(rows) + 1]
    /\ children' \in [1 .. Len(rows) + 1 -> Seq(1 .. Len(rows) + 1)]
    /\ \A r \in 1 .. Len(rows) : children'[r] = FoldedTo(k)[r]
    /\ children'[Len(rows) + 1] = <<>>

LEMMA Reading ==
    ASSUME TypeOK, NEW row \in Row, ReadRow(row)
    PROVE  \E k \in 0 .. Len(nodes) : Reads(k, row)
<1>1. Elements
    BY TypeByElement
<1>2. Len(rows) \in Nat /\ Len(nodes) \in Nat
    BY <1>1 DEF Elements
<1> PICK k \in 0 .. Len(nodes) :
        /\ Keeps(k, row.indent)
        /\ children' = Append(FoldedTo(k), <<>>)
        /\ nodes' = Append(KeptNodes(k, row.indent),
                           [indent |-> row.indent, row |-> Len(rows) + 1])
    BY DEF ReadRow
<1>3. (k = 0 => nodes = <<>>) /\ row.indent \in Indents
    BY DEF Keeps, Row
<1>4. /\ rows' \in Seq(Row) /\ Len(rows') = Len(rows) + 1
      /\ \A i \in 1 .. Len(rows) : rows'[i] = rows[i]
      /\ rows'[Len(rows) + 1] = row
    BY DEF ReadRow, TypeOK
<1>5. /\ nodes' \in Seq([indent : Indents, row : 1 .. Len(rows) + 1])
      /\ Len(nodes') = k + 1
      /\ \A j \in 1 .. k : nodes'[j] = KeptNodes(k, row.indent)[j]
      /\ nodes'[k + 1] = [indent |-> row.indent, row |-> Len(rows) + 1]
    <2> DEFINE Node == [indent : Indents, row : 1 .. Len(rows)]
               NewNode == [indent : Indents, row : 1 .. Len(rows) + 1]
               new == [indent |-> row.indent, row |-> Len(rows) + 1]
               kept == KeptNodes(k, row.indent)
    <2>1. kept \in Seq(Node) /\ Len(kept) = k
        BY <1>1, <1>3, Keeping
    <2>2. new \in NewNode
        BY <1>2, <1>3
    <2>3. Node \subseteq NewNode
        BY <1>2
    <2>4. nodes' = Append(kept, new)
        OBVIOUS
    <2> HIDE DEF Node, NewNode, new, kept
    <2>5. kept \in Seq(NewNode)
        BY <2>1, <2>3
    <2>6. /\ Append(kept, new) \in Seq(NewNode) /\ Len(Append(kept, new)) = k + 1
          /\ \A j \in 1 .. k : Append(kept, new)[j] = kept[j]
          /\ Append(kept, new)[k + 1] = new
        BY <2>1, <2>2, <2>5
    <2> QED
        BY <2>4, <2>6 DEF NewNode, new, kept
<1>6. /\ children' \in [1 .. Len(rows) + 1 -> Seq(1 .. Len(rows) + 1)]
      /\ \A r \in 1 .. Len(rows) : children'[r] = FoldedTo(k)[r]
      /\ children'[Len(rows) + 1] = <<>>
    <2> DEFINE S == Seq(1 .. Len(rows) + 1)
               folded == FoldedTo(k)
    <2>1. folded \in [1 .. Len(rows) -> S]
        <3>1. ASSUME NEW r \in 1 .. Len(rows) PROVE folded[r] \in S
            <4>1. folded[r] \in Seq(1 .. Len(rows))
                BY <1>1, <1>3, Folds
            <4> QED
                BY <1>2, <4>1
        <3>2. folded = [r \in 1 .. Len(rows) |-> folded[r]]
            BY <1>1 DEF FoldedTo, Elements
        <3> HIDE DEF folded, S
        <3> QED
            BY <3>1, <3>2
    <2>2. <<>> \in S /\ children' = Append(folded, <<>>)
        OBVIOUS
    <2> HIDE DEF S, folded
    <2>3. folded \in Seq(S) /\ Len(folded) = Len(rows)
        BY <1>2, <2>1
    <2>4. /\ Append(folded, <<>>) \in Seq(S)
          /\ Len(Append(folded, <<>>)) = Len(rows) + 1
          /\ \A r \in 1 .. Len(rows) : Append(folded, <<>>)[r] = folded[r]
          /\ Append(folded, <<>>)[Len(rows) + 1] = <<>>
        BY <1>2, <2>2, <2>3
    <2>5. Append(folded, <<>>) \in [1 .. Len(rows) + 1 -> S]
        BY <2>4, IsFunction
    <2>6. /\ children' \in [1 .. Len(rows) + 1 -> S]
          /\ \A r \in 1 .. Len(rows) : children'[r] = folded[r]
          /\ children'[Len(rows) + 1] = <<>>
        BY <2>2, <2>4, <2>5
    <2> QED
        BY <2>6 DEF S, folded
<1>7. \A j \in 1 .. k :
          /\ KeptNodes(k, row.indent)[j].row = nodes[j].row
          /\ KeptNodes(k, row.indent)[j].indent =
                IF k = 1 /\ nodes[1].indent >= row.indent THEN row.indent
                ELSE nodes[j].indent
    BY <1>1, <1>3, Keeping
<1>8. Reads(k, row)
    BY <1>4, <1>5, <1>6, <1>7 DEF Reads
<1> QED
    BY <1>8

\* A new row is below what is left open: everything past the last kept node is
\* no shallower.
LEMMA NoneShallower ==
    ASSUME IInv, pc = "rows", NEW row \in Row, NEW k \in 1 .. Len(nodes),
           Reads(k, row), NEW i \in 1 .. Len(rows), i > nodes[k].row
    PROVE  rows[i].indent >= row.indent
<1>1. Elements
    BY TypeByElement DEF IInv
<1>2. k < Len(nodes) /\ rows[i].indent >= nodes[k + 1].indent
    BY <1>1 DEF IInv, Open, Elements
<1>3. k + 1 \in 1 .. Len(nodes)
    BY <1>1, <1>2 DEF Elements
<1>4. nodes[k + 1].indent >= row.indent
    <2>1. \A j \in k + 1 .. Len(nodes) : nodes[j].indent >= row.indent
        BY DEF Reads, Keeps
    <2>2. k + 1 \in k + 1 .. Len(nodes)
        BY <1>3
    <2> QED
        BY <2>1, <2>2
<1>5. row.indent \in Nat
    BY IndentsAssumption DEF Row
<1>6. rows[i].indent \in Nat /\ nodes[k + 1].indent \in Nat
    BY <1>1, <1>3 DEF Elements
<1> QED
    BY <1>2, <1>4, <1>5, <1>6

LEMMA ReadRowInv ==
    ASSUME IInv, NEW row \in Row, ReadRow(row)
    PROVE  IInv'
<1> DEFINE n == Len(rows)
<1>1. TypeOK /\ Elements /\ pc = "rows" /\ pc' = pc /\ n < MaxRows
    BY TypeByElement DEF IInv, ReadRow
<1>2. n \in Nat /\ Len(nodes) \in Nat /\ row.indent \in Nat
    BY <1>1, IndentsAssumption DEF Elements, Row
<1> PICK k \in 0 .. Len(nodes) : Reads(k, row)
    BY <1>1, Reading
<1>3. TypeOK'
    <2>1. DOMAIN rows' = 1 .. n + 1 /\ Len(rows') = n + 1
        BY <1>2 DEF Reads
    <2>2. nodes' \in Seq([indent : Indents, row : DOMAIN rows'])
        BY <2>1 DEF Reads
    <2>3. children' \in [DOMAIN rows' -> Seq(DOMAIN rows')]
        BY <2>1 DEF Reads
    <2> QED
        BY <1>1, <1>2, <2>1, <2>2, <2>3, MaxRowsAssumption DEF TypeOK, Reads
<1>4. Elements'
    <2>1. TypeOK' => Elements'
        BY TypeByElement, PTL
    <2> QED
        BY <1>3, <2>1
<1> DEFINE d == row.indent
<1>5. DOMAIN nodes' = 1 .. k + 1 /\ DOMAIN rows' = 1 .. n + 1 /\ k \in Nat
    BY <1>2 DEF Reads
<1>6. nodes'[k + 1].row = n + 1 /\ nodes'[k + 1].indent = d
    BY DEF Reads
<1>7. k = 0 => n = 0 /\ rows = <<>> /\ nodes = <<>>
    BY DEF Reads, Keeps, IInv, TopIsFirst
<1>8. ASSUME NEW j \in 1 .. k
      PROVE  /\ j \in 1 .. Len(nodes)
             /\ nodes'[j].row = nodes[j].row /\ nodes[j].row \in 1 .. n
             /\ k > 1 => nodes'[j].indent = nodes[j].indent
             /\ nodes'[j].indent <= d /\ nodes'[j].indent <= nodes[j].indent
             /\ nodes[j].indent \in Nat /\ nodes'[j].indent \in Nat
    <2>1. j \in 1 .. Len(nodes)
        BY <1>2
    <2>2. nodes[j].row \in 1 .. n /\ nodes[j].indent \in Nat
        BY <1>1, <2>1 DEF Elements
    <2>3. /\ nodes'[j].row = nodes[j].row
          /\ nodes'[j].indent = IF k = 1 /\ nodes[1].indent >= d THEN d
                                ELSE nodes[j].indent
        BY DEF Reads
    <2>4. CASE k = 1
        BY <1>2, <2>1, <2>2, <2>3, <2>4
    <2>5. CASE k > 1
        <3>1. nodes[k].indent < d /\ k \in 1 .. Len(nodes)
            BY <1>2, <2>5 DEF Reads, Keeps
        <3>2. nodes[k].indent \in Nat
            BY <1>1, <3>1 DEF Elements
        <3>3. j = k \/ nodes[j].indent <= nodes[k].indent
            <4>1. j \in DOMAIN nodes /\ k \in DOMAIN nodes
                BY <1>1, <2>1, <3>1 DEF Elements
            <4>2. j = k \/ j < k
                BY <1>5
            <4> QED
                BY <4>1, <4>2 DEF IInv, Descending
        <3> QED
            BY <1>2, <2>1, <2>2, <2>3, <2>5, <3>1, <3>2, <3>3
    <2> QED
        BY <1>5, <2>4, <2>5
<1>9. TopIsFirst'
    <2>1. rows' # <<>> /\ nodes' # <<>>
        BY <1>2, <1>5
    <2>2. CASE k = 0
        <3>1. nodes'[1].row = 1 /\ nodes'[1].indent = d /\ rows'[1] = row
            BY <1>6, <1>7, <2>2 DEF Reads
        <3> QED
            BY <1>2, <2>1, <3>1 DEF TopIsFirst
    <2>3. CASE k > 0
        <3>1. 1 \in 1 .. k /\ 1 \in 1 .. Len(nodes) /\ nodes # <<>>
            BY <1>2, <1>5, <2>3
        <3>2. 1 \in 1 .. n /\ nodes[1].row = 1
              /\ nodes[1].indent <= rows[1].indent
            BY <1>8, <3>1 DEF IInv, TopIsFirst
        <3>3. rows'[1] = rows[1] /\ rows[1].indent \in Nat
            BY <1>1, <3>2 DEF Reads, Elements
        <3> QED
            BY <1>8, <2>1, <3>1, <3>2, <3>3 DEF TopIsFirst
    <2> QED
        BY <1>5, <2>2, <2>3
<1>10. Descending'
    <2> SUFFICES ASSUME NEW j \in 1 .. k + 1, NEW l \in 1 .. k + 1, j < l
                 PROVE  /\ nodes'[j].indent <= nodes'[l].indent
                        /\ nodes'[j].row < nodes'[l].row
        BY <1>5 DEF Descending
    <2>1. j \in 1 .. k
        BY <1>5
    <2>2. CASE l = k + 1
        BY <1>2, <1>6, <1>8, <2>1, <2>2
    <2>3. CASE l \in 1 .. k
        <3>1. k > 1 /\ j \in DOMAIN nodes /\ l \in DOMAIN nodes
            BY <1>1, <1>5, <1>8, <2>1, <2>3 DEF Elements
        <3>2. nodes[j].indent <= nodes[l].indent /\ nodes[j].row < nodes[l].row
            BY <3>1 DEF IInv, Descending
        <3> QED
            BY <1>8, <2>1, <2>3, <3>1, <3>2
    <2> QED
        BY <1>5, <2>2, <2>3
<1>11. OwnIndent'
    <2> SUFFICES ASSUME NEW l \in 1 .. k + 1, l > 1
                 PROVE  nodes'[l].indent = rows'[nodes'[l].row].indent
        BY <1>5 DEF OwnIndent
    <2>1. CASE l = k + 1
        BY <1>6, <2>1 DEF Reads
    <2>2. CASE l \in 1 .. k
        <3>1. k > 1 /\ l \in DOMAIN nodes
            BY <1>1, <1>5, <1>8, <2>2 DEF Elements
        <3>2. nodes[l].indent = rows[nodes[l].row].indent
            BY <3>1 DEF IInv, OwnIndent
        <3>3. rows'[nodes[l].row] = rows[nodes[l].row]
            BY <1>8, <2>2 DEF Reads
        <3> QED
            BY <1>8, <2>2, <3>1, <3>2, <3>3
    <2> QED
        BY <1>5, <2>1, <2>2
<1>12. Open'
    <2> SUFFICES ASSUME NEW l \in 1 .. k + 1, NEW i \in 1 .. n + 1,
                        i > nodes'[l].row
                 PROVE  l < k + 1 /\ rows'[i].indent >= nodes'[l + 1].indent
        BY <1>5 DEF Open, Reads
    <2>1. l \in 1 .. k
        BY <1>2, <1>5, <1>6
    <2>2. l \in 1 .. Len(nodes) /\ i > nodes[l].row
        BY <1>8, <2>1
    <2>3. i = n + 1 => rows'[i].indent = d
        BY DEF Reads
    <2>4. i \in 1 .. n => rows'[i] = rows[i]
        BY DEF Reads
    <2>5. i = n + 1 \/ i \in 1 .. n
        BY <1>2
    <2>6. CASE l = k
        <3>1. i \in 1 .. n => rows[i].indent >= d
            BY <1>1, <2>2, <2>6, NoneShallower
        <3> QED
            BY <1>2, <1>5, <1>6, <2>3, <2>4, <2>5, <2>6, <3>1
    <2>7. CASE l < k
        <3>1. l + 1 \in 1 .. k /\ k > 1
            BY <1>5, <2>1, <2>7
        <3>2. nodes'[l + 1].indent = nodes[l + 1].indent /\ nodes'[l + 1].indent <= d
            BY <1>8, <3>1
        <3>3. i \in 1 .. n => rows[i].indent >= nodes[l + 1].indent
            BY <1>1, <2>2 DEF IInv, Open, Elements
        <3> QED
            BY <1>2, <1>5, <2>3, <2>4, <2>5, <2>7, <3>2, <3>3
    <2> QED
        BY <1>5, <2>1, <2>6, <2>7
<1> QED
    BY <1>3, <1>9, <1>10, <1>11, <1>12 DEF IInv

LEMMA FinishInv ==
    ASSUME IInv, Finish
    PROVE  IInv'
<1>1. TypeOK /\ Elements /\ Len(rows) \in Nat /\ Len(nodes) \in Nat
    BY TypeByElement DEF IInv, Elements
<1>2. rows' = rows /\ pc' = "done"
    BY DEF Finish
<1>3. CASE nodes = <<>>
    <2>1. nodes' = <<>> /\ rows = <<>>
        BY <1>3 DEF Finish, IInv, TopIsFirst
    <2>2. children' = children
        <3>1. DOMAIN children = {}
            BY <1>1, <2>1 DEF Elements
        <3> QED
            BY <3>1 DEF Finish, FoldedTo, TypeOK
    <2> QED
        BY <1>1, <1>2, <2>1, <2>2
           DEF IInv, TypeOK, TopIsFirst, Descending, OwnIndent, Open
<1>4. CASE nodes # <<>>
    <2>1. 1 \in 0 .. Len(nodes) /\ 1 \in 1 .. Len(nodes)
        BY <1>1, <1>4 DEF TypeOK
    <2>2. nodes' = <<nodes[1]>>
        BY <1>4 DEF Finish
    <2>3. children' \in [1 .. Len(rows) -> Seq(1 .. Len(rows))]
        <3>1. \A r \in 1 .. Len(rows) :
                 FoldedTo(1)[r] \in Seq(1 .. Len(rows))
            BY <1>1, <2>1, Folds
        <3> DEFINE S == Seq(1 .. Len(rows))
                   folded == FoldedTo(1)
        <3>2. folded = [r \in 1 .. Len(rows) |-> folded[r]]
            BY <1>1 DEF FoldedTo, Elements
        <3>3. children' = folded /\ \A r \in 1 .. Len(rows) : folded[r] \in S
            BY <3>1 DEF Finish
        <3> HIDE DEF S, folded
        <3>4. children' \in [1 .. Len(rows) -> S]
            BY <3>2, <3>3
        <3> QED
            BY <3>4 DEF S
    <2>4. nodes' \in Seq([indent : Indents, row : 1 .. Len(rows)])
          /\ Len(nodes') = 1 /\ nodes'[1] = nodes[1]
        <3> DEFINE Node == [indent : Indents, row : 1 .. Len(rows)]
                   top == nodes[1]
        <3>1. nodes' = <<top>> /\ top \in Node
            BY <1>1, <2>1, <2>2 DEF Elements
        <3> HIDE DEF Node, top
        <3>2. nodes' \in Seq(Node) /\ Len(nodes') = 1 /\ nodes'[1] = top
            BY <3>1
        <3> QED
            BY <3>2 DEF Node, top
    <2>5. TypeOK'
        <3>1. DOMAIN rows' = 1 .. Len(rows)
            BY <1>1, <1>2 DEF Elements
        <3>2. nodes' \in Seq([indent : Indents, row : DOMAIN rows'])
            BY <2>4, <3>1
        <3>3. children' \in [DOMAIN rows' -> Seq(DOMAIN rows')]
            BY <2>3, <3>1
        <3>4. rows' \in Seq(Row) /\ Len(rows') <= MaxRows
            BY <1>1, <1>2 DEF TypeOK
        <3> QED
            BY <1>2, <3>2, <3>3, <3>4 DEF TypeOK
    <2>6. TopIsFirst'
        <3>1. nodes' # <<>>
            <4>1. Len(nodes') = 1 /\ Len(<<>>) = 0
                BY <2>4
            <4> QED
                BY <4>1
        <3>2. rows # <<>> /\ nodes[1].row = 1 /\ nodes[1].indent <= rows[1].indent
            BY <1>4 DEF IInv, TopIsFirst
        <3> QED
            BY <1>2, <2>4, <3>1, <3>2 DEF TopIsFirst
    <2>7. (Descending /\ OwnIndent)'
        BY <2>4 DEF Descending, OwnIndent
    <2> QED
        BY <1>2, <2>5, <2>6, <2>7 DEF IInv, Open
<1> QED
    BY <1>3, <1>4

LEMMA InitInv == Init => IInv
<1> SUFFICES ASSUME Init PROVE IInv
    OBVIOUS
<1>1. rows = <<>> /\ nodes = <<>> /\ children = <<>> /\ pc = "rows"
    BY DEF Init
<1>2. TypeOK
    BY <1>1, MaxRowsAssumption DEF TypeOK
<1> QED
    BY <1>1, <1>2 DEF IInv, TopIsFirst, Descending, OwnIndent, Open

\* The list of nodes is in order and leaves open what may still get children,
\* throughout the reading of a text.
THEOREM Invariant == Spec => []IInv
<1>1. IInv /\ [Next]_vars => IInv'
    <2> SUFFICES ASSUME IInv, [Next]_vars PROVE IInv'
        OBVIOUS
    <2>1. ASSUME NEW row \in Row, ReadRow(row) PROVE IInv'
        BY <2>1, ReadRowInv
    <2>2. CASE Finish
        BY <2>2, FinishInv
    <2>3. CASE UNCHANGED vars
        BY <2>3 DEF vars, IInv, TypeOK, TopIsFirst, Descending, OwnIndent, Open
    <2> QED
        BY <2>1, <2>2, <2>3 DEF Next
<1> QED
    BY <1>1, InitInv, PTL DEF Spec

\* The parser's lists hold rows that have been read (parse_status, status.rs
\* 324-432).
THEOREM TypeCorrect == Spec => []TypeOK
<1>1. IInv => TypeOK
    BY DEF IInv
<1> QED
    BY <1>1, Invariant, PTL

--------------------------------------------------------------------------------
(* The refinement.                                                          *)

Edges == FoldedEdges \cup ListEdges

\* Whatever is folded, the tree has the edge from p to c.
Edge(p, c) == Has(children[p], c) \/ ListEdge(1, p, c)

EdgesBetweenRows ==
    /\ Edges \subseteq (1 .. Len(rows)) \X (1 .. Len(rows))
    /\ \A p, c \in 1 .. Len(rows) : <<p, c>> \in Edges <=> Edge(p, c)

LEMMA EdgesByRow == Elements => EdgesBetweenRows
<1> SUFFICES ASSUME Elements PROVE EdgesBetweenRows
    OBVIOUS
<1> DEFINE N == DOMAIN rows
<1>1. DOMAIN rows = 1 .. Len(rows)
    BY DEF Elements
<1>2. FoldedEdges \subseteq (1 .. Len(rows)) \X (1 .. Len(rows))
    <2>1. FoldedEdges \subseteq N \X N
        BY Zenon DEF FoldedEdges
    <2> HIDE DEF N
    <2>2. N = 1 .. Len(rows)
        BY <1>1 DEF N
    <2> QED
        BY <2>1, <2>2
<1>3. ASSUME NEW p \in 1 .. Len(rows), NEW c \in 1 .. Len(rows)
      PROVE  <<p, c>> \in FoldedEdges <=> Has(children[p], c)
    <2>1. <<p, c>> \in N \X N
        BY <1>1
    <2>2. <<p, c>>[1] = p /\ <<p, c>>[2] = c
        OBVIOUS
    <2>3. <<p, c>> \in FoldedEdges <=> Has(children[<<p, c>>[1]], <<p, c>>[2])
        BY <2>1, Zenon DEF FoldedEdges, Has
    <2> QED
        BY <2>2, <2>3
<1>4. ListEdges \subseteq (1 .. Len(rows)) \X (1 .. Len(rows))
    <2> SUFFICES ASSUME NEW k \in 2 .. Len(nodes)
                 PROVE  nodes[k - 1].row \in 1 .. Len(rows)
                        /\ nodes[k].row \in 1 .. Len(rows)
        BY DEF ListEdges
    <2>1. k - 1 \in 1 .. Len(nodes) /\ k \in 1 .. Len(nodes)
        BY DEF Elements
    <2> QED
        BY <2>1 DEF Elements
<1>5. ASSUME NEW p \in 1 .. Len(rows), NEW c \in 1 .. Len(rows)
      PROVE  <<p, c>> \in ListEdges <=> ListEdge(1, p, c)
    BY DEF ListEdge, ListEdges
<1> QED
    BY <1>2, <1>3, <1>4, <1>5 DEF Edges, Edge, EdgesBetweenRows

\* The edges of the list up to the k-th node.
KeptEdge(k, p, c) == \E j \in 2 .. k : nodes[j - 1].row = p /\ nodes[j].row = c

\* Folding as such leaves the tree as it is.
LEMMA FoldKeepsEdges ==
    ASSUME Elements, Descending, NEW k \in 1 .. Len(nodes),
           NEW p \in 1 .. Len(rows), NEW c \in 1 .. Len(rows)
    PROVE  Edge(p, c) <=> Has(FoldedTo(k)[p], c) \/ KeptEdge(k, p, c)
<1>1. k \in 0 .. Len(nodes) /\ k # 0 /\ Len(nodes) \in Nat
    BY DEF Elements
<1>2. Has(FoldedTo(k)[p], c) <=> Has(children[p], c) \/ ListEdge(k, p, c)
    BY <1>1, FoldMovesEdges
<1>3. ListEdge(1, p, c) <=> ListEdge(k, p, c) \/ KeptEdge(k, p, c)
    BY <1>1 DEF ListEdge, KeptEdge
<1> QED
    BY <1>2, <1>3 DEF Edge

LEMMA NewEdge ==
    ASSUME IInv, NEW row \in Row, ReadRow(row), IInv',
           NEW k \in 0 .. Len(nodes), Reads(k, row), NEW n \in Nat, n = Len(rows)
    PROVE  /\ k = 0 => Edges' = {} /\ Edges = {}
           /\ k > 0 => Edges' = Edges \cup {<<nodes[k].row, n + 1>>}
<1>1. Elements /\ Elements' /\ Descending
    BY TypeByElement, PTL DEF IInv
<1>2. /\ n \in Nat /\ Len(nodes) \in Nat /\ k \in Nat
      /\ Len(rows') = n + 1 /\ Len(nodes') = k + 1
    BY <1>1 DEF Elements, Reads
<1>8. nodes'[k + 1].row = n + 1 /\ \A j \in 1 .. k : nodes'[j].row = nodes[j].row
    BY DEF Reads
<1>3. /\ Edges \subseteq (1 .. n) \X (1 .. n)
      /\ \A p, c \in 1 .. n : <<p, c>> \in Edges <=> Edge(p, c)
    BY <1>1, EdgesByRow DEF EdgesBetweenRows
<1>4. /\ Edges' \subseteq (1 .. n + 1) \X (1 .. n + 1)
      /\ \A p, c \in 1 .. n + 1 : <<p, c>> \in Edges' <=> Edge(p, c)'
    <2>1. Elements' => EdgesBetweenRows'
        BY EdgesByRow, PTL
    <2> QED
        BY <1>1, <1>2, <2>1 DEF EdgesBetweenRows
\* Edges between the rows that were there are those that were there.
<1>5. ASSUME NEW p \in 1 .. n, NEW c \in 1 .. n, k > 0
      PROVE  Edge(p, c)' <=> Edge(p, c)
    <2>1. Has(children[p], c)' <=> Has(FoldedTo(k)[p], c)
        BY DEF Reads, Has
    <2>2. ListEdge(1, p, c)' <=> KeptEdge(k, p, c)
        <3>1. ListEdge(1, p, c)' <=>
                \E j \in 2 .. k + 1 : nodes'[j - 1].row = p /\ nodes'[j].row = c
            BY <1>2 DEF ListEdge
        <3>2. \A j \in 2 .. k : /\ nodes'[j].row = nodes[j].row
                                /\ nodes'[j - 1].row = nodes[j - 1].row
            BY <1>2, <1>8
        <3>3. nodes'[k + 1].row # c
            BY <1>2, <1>8
        <3>4. \A j \in 2 .. k + 1 : j \in 2 .. k \/ j = k + 1
            BY <1>2
        <3>5. 2 .. k \subseteq 2 .. k + 1
            BY <1>2
        <3> QED
            BY <3>1, <3>2, <3>3, <3>4, <3>5 DEF KeptEdge
    <2>3. k \in 1 .. Len(nodes) /\ p \in 1 .. Len(rows) /\ c \in 1 .. Len(rows)
        BY <1>2, <1>5
    <2>4. Edge(p, c) <=> Has(FoldedTo(k)[p], c) \/ KeptEdge(k, p, c)
        BY <1>1, <2>3, FoldKeepsEdges
    <2>5. Edge(p, c)' <=> Has(children[p], c)' \/ ListEdge(1, p, c)'
        BY DEF Edge
    <2> QED
        BY <2>1, <2>2, <2>4, <2>5
\* Nothing is under the new row, which is under the last node kept.
<1>6. ASSUME NEW c \in 1 .. n + 1
      PROVE  ~Edge(n + 1, c)'
    <2>1. ~Has(children[n + 1], c)'
        BY DEF Reads, Has
    <2>2. ASSUME NEW j \in 2 .. k + 1
          PROVE  nodes'[j - 1].row # n + 1
        <3>1. j - 1 \in 1 .. k /\ j - 1 \in 1 .. Len(nodes)
            BY <1>2
        <3>2. nodes[j - 1].row \in 1 .. n
            BY <1>1, <3>1 DEF Elements
        <3> QED
            BY <1>2, <1>8, <3>1, <3>2
    <2>3. ~ListEdge(1, n + 1, c)'
        BY <1>2, <2>2 DEF ListEdge
    <2> QED
        BY <2>1, <2>3 DEF Edge
<1>7. ASSUME NEW p \in 1 .. n, k > 0
      PROVE  Edge(p, n + 1)' <=> p = nodes[k].row
    <2>1. ~Has(children[p], n + 1)'
        <3>1. (k = 0 => nodes = <<>>) /\ children'[p] = FoldedTo(k)[p]
            BY <1>7 DEF Reads
        <3>2. children'[p] \in Seq(1 .. n)
            BY <1>1, <3>1, Folds
        <3> QED
            BY <1>2, <3>2 DEF Has
    <2>2. ASSUME NEW j \in 1 .. k
          PROVE  nodes'[j].row # n + 1
        <3>1. j \in 1 .. Len(nodes)
            BY <1>2
        <3>2. nodes[j].row \in 1 .. n
            BY <1>1, <3>1 DEF Elements
        <3> QED
            BY <1>2, <1>8, <3>2
    <2>3. ListEdge(1, p, n + 1)' <=>
            \E j \in 2 .. k + 1 : nodes'[j - 1].row = p /\ nodes'[j].row = n + 1
        BY <1>2 DEF ListEdge
    <2>4. k + 1 \in 2 .. k + 1 /\ (k + 1) - 1 = k /\ k \in 1 .. k
        BY <1>2, <1>7
    <2>5. \A j \in 2 .. k + 1 : j \in 1 .. k \/ j = k + 1
        BY <1>2
    <2>6. ListEdge(1, p, n + 1)' <=> p = nodes[k].row
        BY <1>8, <2>2, <2>3, <2>4, <2>5
    <2> QED
        BY <2>1, <2>6 DEF Edge
<1>9. CASE k = 0
    <2>1. n = 0
        BY <1>9 DEF Reads, Keeps, IInv, TopIsFirst
    <2>2. 1 .. n = {} /\ 1 .. n + 1 = {n + 1}
        BY <2>1
    <2> QED
        BY <1>3, <1>4, <1>6, <1>9, <2>2
<1>10. CASE k > 0
    <2>1. nodes[k].row \in 1 .. n
        BY <1>1, <1>2, <1>10 DEF Elements
    <2>2. 1 .. n + 1 = (1 .. n) \cup {n + 1}
        BY <1>2
    <2>3. ASSUME NEW e \in Edges' PROVE e \in Edges \cup {<<nodes[k].row, n + 1>>}
        <3>1. PICK p, c \in 1 .. n + 1 : e = <<p, c>>
            BY <1>4, <2>3
        <3>2. Edge(p, c)'
            BY <1>4, <2>3, <3>1
        <3>3. p \in 1 .. n
            BY <1>6, <2>2, <3>2
        <3> QED
            BY <1>3, <1>5, <1>7, <1>10, <2>2, <3>1, <3>2, <3>3
    <2>4. ASSUME NEW e \in Edges PROVE e \in Edges'
        <3>1. PICK p, c \in 1 .. n : e = <<p, c>>
            BY <1>3, <2>4
        <3>2. Edge(p, c)'
            BY <1>3, <1>5, <1>10, <2>4, <3>1
        <3> QED
            BY <1>4, <2>2, <3>1, <3>2
    <2>5. <<nodes[k].row, n + 1>> \in Edges'
        BY <1>4, <1>7, <1>10, <2>1, <2>2
    <2> QED
        BY <1>10, <2>3, <2>4, <2>5
<1> QED
    BY <1>2, <1>9, <1>10

\* A row that is read arrives in the outline.
LEMMA ReadRowRefines ==
    ASSUME IInv, NEW row \in Row, ReadRow(row), IInv'
    PROVE  O!Next
<1> DEFINE n == Len(rows)
           d == row.indent
<1>1. Elements /\ TypeOK /\ pc = "rows"
    BY TypeByElement DEF IInv, ReadRow
<1> PICK k \in 0 .. Len(nodes) : Reads(k, row)
    BY <1>1, Reading
<1>2. n \in Nat /\ Len(nodes) \in Nat /\ k \in Nat /\ d \in Indents /\ d \in Nat
    <2>1. d \in Indents /\ d \in Nat
        BY IndentsAssumption DEF Row
    <2>2. n \in Nat /\ Len(nodes) \in Nat
        BY <1>1 DEF Elements
    <2> QED
        BY <2>1, <2>2
<1>3. Depths = [i \in 1 .. n |-> rows[i].indent] /\ Depths \in Seq(Nat) /\ Len(Depths) = n
    <2>1. Depths = [i \in 1 .. n |-> rows[i].indent]
        BY <1>1 DEF Depths, Elements
    <2>2. \A i \in 1 .. n : rows[i].indent \in Nat
        BY <1>1 DEF Elements
    <2> QED
        BY <1>2, <2>1, <2>2
<1>4. Depths' = Append(Depths, d)
    <2>1. Depths' = [i \in 1 .. n + 1 |-> rows'[i].indent]
        BY <1>2 DEF Depths, Reads
    <2>2. \A i \in 1 .. n : rows'[i].indent = Depths[i]
        BY <1>3 DEF Reads
    <2>3. rows'[n + 1].indent = d
        BY DEF Reads
    <2> QED
        BY <1>2, <1>3, <2>1, <2>2, <2>3
<1>5. O!Rows = 1 .. n
    BY <1>3 DEF O!Rows
<1>6. /\ k = 0 => Edges' = {} /\ Edges = {}
      /\ k > 0 => Edges' = Edges \cup {<<nodes[k].row, n + 1>>}
    BY <1>2, NewEdge
<1>7. \A i \in 1 .. n : Depths[i] = rows[i].indent
    BY <1>3
<1>8. ASSUME k = 0 PROVE O!FirstRow(d)
    <2>1. n = 0
        BY <1>8 DEF Reads, Keeps, IInv, TopIsFirst
    <2>2. O!Rows = {}
        BY <1>5, <2>1
    <2> QED
        BY <1>6, <1>8, <2>2 DEF O!FirstRow, Edges
<1>9. ASSUME k > 0 PROVE O!GroupedRow(d) \/ O!UngroupedRow(d)
    <2> DEFINE p == nodes[k].row
    <2>1. k \in 1 .. Len(nodes) /\ p \in 1 .. n /\ n # 0
        BY <1>1, <1>2, <1>9 DEF Elements
    <2>2. \A i \in 1 .. n : i > p => rows[i].indent >= d
        BY <1>1, <2>1, NoneShallower
    <2>3. CASE rows[p].indent < d
        <3>1. O!IsGroup(p, d)
            BY <1>5, <1>7, <2>1, <2>2, <2>3 DEF O!IsGroup
        <3>2. O!GroupedRow(d)
            BY <1>3, <1>5, <1>6, <1>9, <2>1, <3>1 DEF O!GroupedRow, Edges
        <3> QED
            BY <3>2
    <2>4. CASE ~(rows[p].indent < d)
        <3>1. k = 1
            <4>1. k > 1 => nodes[k].indent < d /\ nodes[k].indent = rows[p].indent
                BY <1>1, <2>1 DEF Reads, Keeps, IInv, OwnIndent, Elements
            <4> QED
                BY <1>2, <1>9, <2>4, <4>1
        <3>2. p = 1
            BY <1>2, <2>1, <3>1 DEF IInv, TopIsFirst
        <3>3. \A i \in 1 .. n : rows[i].indent >= d
            <4> TAKE i \in 1 .. n
            <4>1. CASE i = 1
                BY <1>1, <1>2, <2>1, <2>4, <3>2, <4>1 DEF Elements
            <4>2. CASE i > p
                BY <2>2, <4>2
            <4> QED
                BY <3>2, <4>1, <4>2
        <3>4. O!UngroupedRow(d)
            BY <1>3, <1>5, <1>6, <1>7, <1>9, <2>1, <3>2, <3>3
               DEF O!UngroupedRow, Edges
        <3> QED
            BY <3>4
    <2> QED
        BY <2>3, <2>4
<1> QED
    BY <1>2, <1>4, <1>8, <1>9 DEF O!Next

\* The fold at the end of the text changes nothing.
LEMMA FinishRefines ==
    ASSUME IInv, Finish, IInv'
    PROVE  UNCHANGED <<Depths, Edges>>
<1>1. Elements /\ Elements' /\ Descending
    BY TypeByElement, PTL DEF IInv
<1>2. rows' = rows /\ children' = FoldedTo(1)
    BY DEF Finish
<1>3. Depths' = Depths
    BY <1>2 DEF Depths
<1>4. EdgesBetweenRows /\ EdgesBetweenRows'
    BY <1>1, EdgesByRow, PTL
<1>5. ASSUME NEW p \in 1 .. Len(rows), NEW c \in 1 .. Len(rows)
      PROVE  Edge(p, c)' <=> Edge(p, c)
    <2>1. nodes # <<>>
        BY DEF IInv, TopIsFirst
    <2>2. 1 \in 1 .. Len(nodes) /\ Len(nodes') = 1
        BY <1>1, <2>1 DEF Finish, Elements
    <2>3. Edge(p, c) <=> Has(FoldedTo(1)[p], c)
        <3>1. ~KeptEdge(1, p, c)
            BY DEF KeptEdge
        <3> QED
            BY <1>1, <2>2, <3>1, FoldKeepsEdges
    <2>4. ~ListEdge(1, p, c)'
        BY <2>2 DEF ListEdge
    <2>5. Has(children[p], c)' <=> Has(FoldedTo(1)[p], c)
        BY <1>2 DEF Has
    <2> QED
        BY <2>3, <2>4, <2>5 DEF Edge
<1>6. Edges' = Edges
    BY <1>2, <1>4, <1>5 DEF EdgesBetweenRows
<1> QED
    BY <1>3, <1>6

\* The tree that parse_status folds (status.rs 324-432) is the outline of the
\* text: every row sits under the last shallower row above it, however the
\* list of open rows was folded, for texts of every length and depth.
THEOREM ParsesTheOutline == Spec => IsTheOutline
<1>1. Init => O!Init
    <2> SUFFICES ASSUME Init PROVE O!Init
        OBVIOUS
    <2>1. rows = <<>> /\ nodes = <<>>
        BY DEF Init
    <2> QED
        BY <2>1 DEF O!Init, Depths, FoldedEdges, ListEdges
<1>2. IInv /\ IInv' /\ [Next]_vars => [O!Next]_O!vars
    <2> SUFFICES ASSUME IInv, IInv', [Next]_vars PROVE [O!Next]_O!vars
        OBVIOUS
    <2>1. ASSUME NEW row \in Row, ReadRow(row) PROVE O!Next
        BY <2>1, ReadRowRefines
    <2>2. CASE Finish
        BY <2>2, FinishRefines DEF O!vars, Edges
    <2>3. CASE UNCHANGED vars
        BY <2>3 DEF vars, O!vars, Depths, FoldedEdges, ListEdges
    <2> QED
        BY <2>1, <2>2, <2>3 DEF Next
<1> QED
    BY <1>1, <1>2, Invariant, PTL DEF Spec, IsTheOutline, O!Spec
================================================================================
