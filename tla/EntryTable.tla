------------------------------ MODULE EntryTable ------------------------------
(***************************************************************************)
(* What the database promises about the recommendations table, without the *)
(* migration, the openings that overlap and the processes that stop: once  *)
(* it serves, an entry has one row, and it takes no second one; and the    *)
(* rows that readers find change in no other way, not even for a moment.   *)
(* SchemaMigration implements this module.                                 *)
(***************************************************************************)
CONSTANTS
    Row,   \* what a row may be; its key is what it is about
    None   \* the key of the rows from before entries were recorded

VARIABLES
    rows,    \* the rows that readers find
    serves   \* whether the database has been opened

vars == <<rows, serves>>

Clashes(some) == \E r, s \in some : r # s /\ r.key = s.key /\ r.key # None

Init == rows \subseteq Row /\ ~serves

Serve ==
    /\ ~Clashes(rows)
    /\ serves' = TRUE
    /\ UNCHANGED rows

Accept(row) ==
    /\ serves /\ ~Clashes(rows \cup {row})
    /\ rows' = rows \cup {row}
    /\ UNCHANGED serves

Next == Serve \/ \E row \in Row : Accept(row)

Spec == Init /\ [][Next]_vars
=============================================================================
