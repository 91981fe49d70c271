--------------------------- MODULE MCSchemaMigration ---------------------------
(* The small instance on which TLC checks SchemaMigration: three of the columns, *)
(* two of which a fresh table has; old rows without an entry time and with one,  *)
(* and two of one entry.                                                         *)
EXTENDS SchemaMigration, TLC

ColumnsOfMC == <<"evaluated_at", "entry_time", "track">>
FreshOfMC == {"evaluated_at", "track"}
OldRowsOfMC == {{}, {[id |-> 0, key |-> None], [id |-> 1, key |-> None]},
                {[id |-> 0, key |-> "x"], [id |-> 1, key |-> None]},
                {[id |-> 0, key |-> "x"], [id |-> 1, key |-> "x"]}}
Alike == Permutations(Openers)
=============================================================================
