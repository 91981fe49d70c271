---------------------------- MODULE SchemaMigration ----------------------------
(***************************************************************************)
(* The opening of the database: DataStore.__init__ of src/data_store.py    *)
(* brings the recommendations table of any earlier version up to date,     *)
(* statement by statement.  Every run, every check of the monitor and      *)
(* every API request, the container's health check among them, constructs  *)
(* a DataStore, so openings overlap each other and the writes of a process *)
(* that is open already, and the process may stop between two statements.  *)
(*                                                                         *)
(* Python's sqlite3 module commits a DDL statement at once, unless an      *)
(* INSERT has opened a transaction; the transaction holds the write lock   *)
(* until it commits, and is rolled back when the connection closes or the  *)
(* process stops.                                                          *)
(***************************************************************************)
EXTENDS Integers, Sequences, FiniteSets

CONSTANTS
    Openers,      \* threads and processes that construct a DataStore
    Columns,      \* _RECOMMENDATIONS_OUTCOME_COLUMNS, in order
    FreshColumns, \* those of them that CREATE TABLE has as well
    Ids,          \* the rest of a row: run time, probability and verdict
    Keys,         \* values of (market, track, entry_time) in new rows
    OldRows,      \* what an earlier version may have left in the table
    None          \* no table, no transaction, and a NULL in a row's key

AllColumns == {Columns[i] : i \in DOMAIN Columns}
Row == [id : Ids, key : Keys \cup {None}]
Clashes(rows) == \E r, s \in rows : r # s /\ r.key = s.key /\ r.key # None

ASSUME MigrationAssumption ==
    /\ Columns \in Seq(STRING) /\ FreshColumns \subseteq AllColumns
    /\ OldRows \subseteq SUBSET Row
    /\ \A rows \in SUBSET Row : rows # None
    /\ None \notin Keys

\* The tables as a connection sees them: whether recommendations exists, its
\* columns, its rows, whether its primary key has the track and whether entries are
\* unique; and the rows of recommendations_new, where it exists.
Tables == [main : BOOLEAN, cols : SUBSET AllColumns, rows : SUBSET Row,
           wide : BOOLEAN, unique : BOOLEAN, side : (SUBSET Row) \cup {None}]
Steps == {"idle", "create", "columns", "key", "drop_side", "create_side", "copy", "drop_main",
          "rename", "index", "commit", "done", "failed"}
Transaction == [by : Openers, tables : Tables]
ASSUME TransactionAssumption == None \notin Transaction
Opener == [pc : Steps, column : 1..(Len(Columns) + 1), alone : BOOLEAN]

VARIABLES
    db,      \* the committed tables
    txn,     \* the transaction that holds the write lock, with its tables
    opener,  \* opener[o]: where o is in _init_schema
    opened,  \* history: some DataStore has been constructed
    kept     \* history: rows that were there or have been accepted

vars == <<db, txn, opener, opened, kept>>

TypeOK ==
    /\ db \in Tables
    /\ txn \in Transaction \cup {None}
    /\ opener \in [Openers -> Opener]
    /\ opened \in BOOLEAN
    /\ kept \in SUBSET Row

Empty == [main |-> FALSE, cols |-> {}, rows |-> {}, wide |-> FALSE, unique |-> FALSE, side |-> None]

\* A new file; or a version that had the first n of the columns and the narrow key;
\* or one that had all of them and the wide key, before entries were unique.
Old(n, rows) ==
    [Empty EXCEPT !.main = TRUE, !.cols = {Columns[i] : i \in 1..n}, !.rows = rows]
Widened(rows) == [Old(Len(Columns), rows) EXCEPT !.wide = TRUE]
Init ==
    /\ db \in {Empty} \cup {Old(n, rows) : n \in 0..Len(Columns), rows \in OldRows}
              \cup {Widened(rows) : rows \in OldRows}
    /\ txn = None
    /\ opener = [o \in Openers |-> [pc |-> "idle", column |-> 1, alone |-> TRUE]]
    /\ opened = FALSE
    /\ kept = db.rows

Active(o) == opener[o].pc \notin {"idle", "done", "failed"}
MayWrite(o) == txn # None => txn.by = o
View == IF txn = None THEN db ELSE txn.tables

-----------------------------------------------------------------------------
(* _init_schema, statement by statement *)

\* A DataStore is constructed.
Open(o) ==
    /\ ~Active(o)
    /\ LET alone == \A x \in Openers : x # o => ~Active(x) IN
       opener' = [x \in Openers |->
                    IF x = o THEN [pc |-> "create", column |-> 1, alone |-> alone]
                    ELSE IF Active(x) THEN [opener[x] EXCEPT !.alone = FALSE] ELSE opener[x]]
    /\ UNCHANGED <<db, txn, opened, kept>>

\* Bug to be caught: the connection is in autocommit mode.
NoStatement == {}

\* The statements that open a transaction: the INSERT.
Dml == {"copy"}

\* o runs the statement at which it stands, with the given result, and goes on.
Execute(o, tables, next) ==
    /\ opener' = [opener EXCEPT ![o] = next]
    /\ IF txn = None /\ opener[o].pc \notin Dml THEN db' = tables /\ UNCHANGED txn
       ELSE txn' = [by |-> o, tables |-> tables] /\ UNCHANGED db
    /\ UNCHANGED <<opened, kept>>
At(o, pc) == opener[o].pc = pc /\ MayWrite(o)
Then(o, pc) == [opener[o] EXCEPT !.pc = pc]

CreateMain(o) ==
    /\ At(o, "create")
    /\ Execute(o, IF View.main THEN View
                  ELSE [View EXCEPT !.main = TRUE, !.cols = FreshColumns, !.wide = TRUE],
               Then(o, "columns"))

\* Bug to be caught: every other column is skipped.
AddColumnSkipping(o) ==
    LET i == opener[o].column IN
    /\ At(o, "columns") /\ i <= Len(Columns)
    /\ Execute(o, [View EXCEPT !.cols = @ \cup {Columns[i]}], [opener[o] EXCEPT !.column = i + 2])

\* One ALTER TABLE ADD COLUMN; that the column is there already is not an error.
AddColumn(o) ==
    LET i == opener[o].column IN
    /\ At(o, "columns") /\ i <= Len(Columns)
    /\ Execute(o, [View EXCEPT !.cols = @ \cup {Columns[i]}], [opener[o] EXCEPT !.column = i + 1])

\* _widen_recommendations_primary_key looks at the key first.
CheckKey(o) ==
    /\ opener[o].pc = "columns" /\ opener[o].column > Len(Columns)
    /\ opener' = [opener EXCEPT ![o].pc = IF db.wide THEN "index" ELSE "drop_side"]
    /\ UNCHANGED <<db, txn, opened, kept>>

\* Bug to be caught: a table that an interrupted opening left is not dropped first.
LeaveSide(o) == At(o, "drop_side") /\ Execute(o, View, Then(o, "create_side"))

\* Then: drop what an interrupted opening left, build the new table, move the rows,
\* and put it in the place of the old one.
DropSide(o) ==
    At(o, "drop_side") /\ Execute(o, [View EXCEPT !.side = None], Then(o, "create_side"))
CreateSide(o) ==
    /\ At(o, "create_side") /\ View.side = None
    /\ Execute(o, [View EXCEPT !.side = {}], Then(o, "copy"))
CopyRows(o) ==
    /\ At(o, "copy") /\ View.side # None
    /\ Execute(o, [View EXCEPT !.side = @ \cup View.rows], Then(o, "drop_main"))
DropMain(o) ==
    /\ At(o, "drop_main") /\ View.main
    /\ Execute(o, [View EXCEPT !.main = FALSE, !.rows = {}, !.unique = FALSE], Then(o, "rename"))

\* Bug to be caught: the index is thought to outlive the table it was on.
RenameAsDone(o) ==
    /\ At(o, "rename") /\ View.side # None /\ ~View.main
    /\ Execute(o, [View EXCEPT !.main = TRUE, !.cols = AllColumns, !.rows = View.side,
                               !.wide = TRUE, !.side = None], Then(o, "commit"))

RenameSide(o) ==
    /\ At(o, "rename") /\ View.side # None /\ ~View.main
    /\ Execute(o, [View EXCEPT !.main = TRUE, !.cols = AllColumns, !.rows = View.side,
                               !.wide = TRUE, !.side = None], Then(o, "index"))

\* CREATE UNIQUE INDEX IF NOT EXISTS.
CreateIndex(o) ==
    /\ At(o, "index") /\ View.main /\ ~Clashes(View.rows)
    /\ Execute(o, [View EXCEPT !.unique = TRUE], Then(o, "commit"))

\* The connection commits, and the constructor returns.
Commit(o) ==
    /\ opener[o].pc = "commit"
    /\ opener' = [opener EXCEPT ![o].pc = "done"]
    /\ IF txn # None /\ txn.by = o THEN db' = txn.tables /\ txn' = None
       ELSE UNCHANGED <<db, txn>>
    /\ opened' = TRUE
    /\ UNCHANGED kept

\* A statement raises: the lock is not given back within ten seconds, the new table
\* has been created or dropped by another, the old one is gone, or rows clash.  The
\* connection is closed and its transaction rolled back.
Refused(o) ==
    \/ Active(o) /\ opener[o].pc # "commit" /\ ~MayWrite(o)
    \/ At(o, "create_side") /\ View.side # None
    \/ At(o, "copy") /\ View.side = None
    \/ At(o, "drop_main") /\ ~View.main
    \/ At(o, "rename") /\ (View.side = None \/ View.main)
    \/ At(o, "index") /\ (~View.main \/ Clashes(View.rows))
Raise(o) ==
    /\ Refused(o)
    /\ opener' = [opener EXCEPT ![o].pc = "failed"]
    /\ txn' = IF txn # None /\ txn.by = o THEN None ELSE txn
    /\ UNCHANGED <<db, opened, kept>>

-----------------------------------------------------------------------------
(* The open database, and the container *)

\* Bug to be caught: a plain INSERT into a table whose index went unnoticed.
InsertAlways(row) ==
    /\ opened /\ txn = None /\ db.main
    /\ db' = [db EXCEPT !.rows = @ \cup {row}]
    /\ kept' = kept \cup {row}
    /\ UNCHANGED <<txn, opener, opened>>

\* save_run by a process whose DataStore has been constructed: INSERT OR IGNORE.
Insert(row) ==
    /\ opened /\ txn = None /\ db.main
    /\ IF db.unique /\ Clashes(db.rows \cup {row}) THEN UNCHANGED <<db, kept>>
       ELSE db' = [db EXCEPT !.rows = @ \cup {row}] /\ kept' = kept \cup {row}
    /\ UNCHANGED <<txn, opener, opened>>

\* The process stops: its openings are gone and its transaction is rolled back.
Crash ==
    /\ txn' = None
    /\ opener' = [o \in Openers |-> [pc |-> "idle", column |-> 1, alone |-> TRUE]]
    /\ UNCHANGED <<db, opened, kept>>

Opening(o) ==
    \/ Open(o) \/ CreateMain(o) \/ AddColumn(o) \/ CheckKey(o) \/ DropSide(o) \/ CreateSide(o)
    \/ CopyRows(o) \/ DropMain(o) \/ RenameSide(o) \/ CreateIndex(o) \/ Commit(o) \/ Raise(o)

Next ==
    \/ Crash
    \/ \E o \in Openers : Opening(o)
    \/ \E k \in Keys, id \in Ids : Insert([id |-> id, key |-> k])

Spec == Init /\ [][Next]_vars

-----------------------------------------------------------------------------
(* What must hold *)

\* No row that an earlier version left or a run has saved is ever lost, whichever
\* openings overlap and wherever the process stops.
NoRowIsLost == kept \subseteq db.rows

\* Once a constructor has returned, and from then on, readers find the table with
\* all columns, the wide key and the unique index: no later or overlapping opening
\* takes any of it away, not even for a moment.
OpenedIsCurrent == opened => db.main /\ db.cols = AllColumns /\ db.wide /\ db.unique

\* From then on an entry has one row, which is what the announcement memory, the
\* monitor and the performance figures take for granted (BR37).
EntriesAreUnique == opened => ~Clashes(db.rows)

\* An opening that meets no other one succeeds, whatever interrupted openings have
\* left behind, unless the table holds two rows of one entry.
LoneOpeningSucceeds ==
    \A o \in Openers : opener[o].pc = "failed" /\ opener[o].alone => Clashes(db.rows)

\* Openings are invisible: whatever the rows are moved through and whoever stops in the
\* middle of it, readers find the rows of before and those accepted since, no more and
\* no fewer, at every moment.
Table == INSTANCE EntryTable WITH rows <- db.rows, serves <- opened
ImplementsTable == Table!Spec
=============================================================================
