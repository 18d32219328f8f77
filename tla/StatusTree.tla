------------------------------ MODULE StatusTree ------------------------------
(****************************************************************************)
(* parse_status in src/collect/status.rs: the indented rows of `zpool       *)
(* status -v' folded into a tree of vdevs, and what src/model.rs and        *)
(* src/ui.rs conclude from that tree.                                       *)
(*                                                                          *)
(* A row is known by its number, so that the vectors of children hold       *)
(* numbers.  Lines without a state, headings and the text after "errors:"   *)
(* leave the parser as it is and have no action.                            *)
(****************************************************************************)
EXTENDS Naturals, Sequences, FiniteSets

CONSTANTS Indents,      \* the indentations a row may have
          MaxRows       \* bound on the rows of a text

ASSUME IndentsAssumption == Indents \subseteq Nat
ASSUME MaxRowsAssumption == MaxRows \in Nat

States == {"online", "degraded", "faulted", "offline", "removed", "unavail"}

VARIABLES
    rows,       \* what has been read: the indentation and state of each row
    nodes,      \* the flat list: rows whose children may still come
    children,   \* of each row, what has been folded into it
    pc          \* "rows", or "done" at the end of the text

vars == <<rows, nodes, children, pc>>

Row == [indent : Indents, state : States]

Init ==
    /\ rows = <<>> /\ nodes = <<>> /\ children = <<>>
    /\ pc = "rows"

\* A row of indentation d leaves k nodes on the list: up to the last shallower
\* one.  The first stays whatever comes.
Keeps(k, d) ==
    /\ \A j \in k + 1 .. Len(nodes) : nodes[j].indent >= d
    /\ k > 1 => nodes[k].indent < d
    /\ k = 0 => nodes = <<>>

\* Every node after the k-th becomes the last child of the node before it.
Child(k, r) == {j \in k + 1 .. Len(nodes) : nodes[j - 1].row = r}

FoldedTo(k) ==
    [r \in DOMAIN children |->
        IF Child(k, r) = {} THEN children[r]
        ELSE Append(children[r], nodes[CHOOSE j \in Child(k, r) : TRUE].row)]

\* A mutant: the row that takes the place at the top is put one to the left.
KeptNodesLeft(k, d) ==
    IF k = 1 /\ nodes[1].indent >= d THEN <<[indent |-> d - 1, row |-> nodes[1].row]>>
    ELSE SubSeq(nodes, 1, k)

\* A first row that is not shallower takes the indentation of the new row.
KeptNodes(k, d) ==
    IF k = 1 /\ nodes[1].indent >= d THEN <<[indent |-> d, row |-> nodes[1].row]>>
    ELSE SubSeq(nodes, 1, k)

\* A mutant: a row only sends its sibling up, not what is around that.
ReadRowFoldingOne(row) ==
    LET n == Len(nodes)
        k == IF n > 1 /\ nodes[n].indent >= row.indent THEN n - 1 ELSE n
    IN  /\ pc = "rows" /\ Len(rows) < MaxRows
        /\ rows' = Append(rows, row)
        /\ children' = Append(FoldedTo(k), <<>>)
        /\ nodes' = Append(KeptNodes(k, row.indent),
                           [indent |-> row.indent, row |-> Len(rows) + 1])
        /\ UNCHANGED pc

\* A row with a state: deeper rows are folded, the row joins the list.
ReadRow(row) ==
    /\ pc = "rows" /\ Len(rows) < MaxRows
    /\ \E k \in 0 .. Len(nodes) :
          /\ Keeps(k, row.indent)
          /\ children' = Append(FoldedTo(k), <<>>)
          /\ nodes' = Append(KeptNodes(k, row.indent),
                             [indent |-> row.indent, row |-> Len(rows) + 1])
    /\ rows' = Append(rows, row)
    /\ UNCHANGED pc

\* A mutant: the root is taken off the list without its last branch.
FinishUnfolded ==
    /\ pc = "rows" /\ pc' = "done"
    /\ nodes' = IF nodes = <<>> THEN <<>> ELSE <<nodes[1]>>
    /\ UNCHANGED <<rows, children>>

\* The text ends, what is left of the list is folded.
Finish ==
    /\ pc = "rows" /\ pc' = "done"
    /\ children' = FoldedTo(1)
    /\ nodes' = IF nodes = <<>> THEN <<>> ELSE <<nodes[1]>>
    /\ UNCHANGED rows

Next == (\E row \in Row : ReadRow(row)) \/ Finish

Spec == Init /\ [][Next]_vars

--------------------------------------------------------------------------------
(* The tree as Outline sees it: edges that are folded, and those the list   *)
(* stands for.                                                              *)

FoldedEdges == {e \in (DOMAIN rows) \X (DOMAIN rows) :
                  \E i \in DOMAIN children[e[1]] : children[e[1]][i] = e[2]}

ListEdges == {<<nodes[k - 1].row, nodes[k].row>> : k \in 2 .. Len(nodes)}

Depths == [i \in DOMAIN rows |-> rows[i].indent]

O == INSTANCE Outline WITH depths <- Depths, edges <- FoldedEdges \cup ListEdges

TypeOK ==
    /\ rows \in Seq(Row) /\ Len(rows) <= MaxRows
    /\ nodes \in Seq([indent : Indents, row : DOMAIN rows])
    /\ children \in [DOMAIN rows -> Seq(DOMAIN rows)]
    /\ pc \in {"rows", "done"}

\* The tree that is being folded is the outline of the text: every row sits
\* under the last shallower row above it, however the list is folded.
IsTheOutline == O!Spec
================================================================================
