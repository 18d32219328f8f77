--------------------------------- MODULE MCTui ---------------------------------
(* Instances of Tui for TLC: what can be read, --pool and keys. *)
EXTENDS Tui

MCPools2 == {1, 2}
MCPools3 == {1, 2, 3}
NotPinned == {NoPool}
PinnedOrNot == {NoPool, 1}

\* A scan runs or has never been; every pool has a fault, which only
\* `zpool status' tells.
MCRecords == {Nothing, "scanning"}
MCTexts == {"faulted"}

\* Hosts of which only the list of pools matters: no kstat tells of a scan and
\* zpool knows nothing.
NoRecords == {Nothing}
NoTexts == {Nothing}

NoKeys == {}
AllKeys == KeyKinds
TabKeys == {"quit", "right", "left", "digit"}
MCDigits == {0, 2, 3}
NoDigits == {}
================================================================================
