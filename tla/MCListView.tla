----------------------------- MODULE MCListView -----------------------------
(* Three rows within two milliseconds, pages of one row, two searches of   *)
(* which one finds every row; one row commits while the list is read.      *)
EXTENDS ListView, TLC

CONSTANTS q1, q2, Late

Found == {{q1}, {q1, q2}}
MCInit ==
    /\ Init
    /\ \A i \in RowIds : table[i].in \in Found
    /\ committed = RowIds \ {Late}
MCSpec == MCInit /\ [][Next]_vars
Symmetry == Permutations(Slots)
=============================================================================
