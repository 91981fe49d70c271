------------------------- MODULE SchemaMigrationProofs -------------------------
(* Proofs about SchemaMigration, for every number of openings that overlap and *)
(* every earlier version of the table.                                         *)
EXTENDS SchemaMigration, TLAPS

\* o has the transaction open.
Holds(o) == txn # None /\ txn.by = o

\* The steps after all columns have been added, and those of them inside the
\* transaction that moves the rows.
Moving == {"drop_main", "rename"}
Past == {"drop_side", "create_side", "copy", "index", "commit"} \cup Moving

\* The transaction of o has the rows that count: in the new table, then in its place.
MovedSoFar(o) ==
    LET t == txn.tables
        pc == opener[o].pc
    IN /\ pc \in Moving \cup {"index", "commit"}
       /\ pc \in Moving => t.side # None /\ kept \subseteq t.side
       /\ pc = "rename" => ~t.unique
       /\ pc \in {"index", "commit"} =>
             kept \subseteq t.rows /\ t.main /\ t.cols = AllColumns /\ t.wide
       /\ pc = "commit" => t.unique
       /\ t.unique => ~Clashes(t.rows)

\* What an opening has achieved in the committed tables by the time it is at a step.
DoneSoFar(o) ==
    LET pc == opener[o].pc
    IN /\ pc = "create" => opener[o].column = 1
       /\ pc \in Past \cup {"columns"} => db.main
       /\ pc = "columns" => \A i \in 1..(opener[o].column - 1) : Columns[i] \in db.cols
       /\ pc \in Past => db.cols = AllColumns
       /\ pc \in {"index", "commit"} /\ ~Holds(o) => db.wide
       /\ pc = "commit" /\ ~Holds(o) => db.unique

OpenerInv(o) == /\ opener[o].pc \in Moving => Holds(o)
                /\ Holds(o) => MovedSoFar(o)
                /\ DoneSoFar(o)

\* A unique index is one over rows that do not clash.
IndexIsTrue == db.unique => ~Clashes(db.rows)

\* Where there is no table there are no columns.
NewIsEmpty == ~db.main => db.cols = {}

\* The inductive invariant.
IInv == /\ TypeOK /\ NoRowIsLost /\ OpenedIsCurrent /\ IndexIsTrue /\ NewIsEmpty
        /\ \A o \in Openers : OpenerInv(o)

\* The columns are numbered from 1 on.
LEMMA ColumnsAreNumbered == /\ Len(Columns) \in Nat /\ DOMAIN Columns = 1..Len(Columns)
                            /\ \A i \in 1..Len(Columns) : Columns[i] \in AllColumns
  BY MigrationAssumption DEF AllColumns

\* The database starts as any earlier version may have left it.
LEMMA InvInit == Init => IInv
  <1> SUFFICES ASSUME Init PROVE IInv
    OBVIOUS
  <1>1. \/ db = Empty
        \/ \E n \in 0..Len(Columns), rows \in OldRows : db = Old(n, rows)
        \/ \E rows \in OldRows : db = Widened(rows)
    BY DEF Init
  <1>e. Empty \in Tables /\ ~Empty.unique /\ Empty.cols = {}
    BY DEF Empty, Tables
  <1>o. ASSUME NEW n \in 0..Len(Columns), NEW rows \in OldRows
        PROVE  Old(n, rows) \in Tables /\ ~Old(n, rows).unique /\ Old(n, rows).main
    <2>1. {Columns[i] : i \in 1..n} \in SUBSET AllColumns
      BY ColumnsAreNumbered
    <2>2. rows \in SUBSET Row
      BY MigrationAssumption
    <2>3. QED
      BY <1>e, <2>1, <2>2 DEF Old, Tables
  <1>w. ASSUME NEW rows \in OldRows
        PROVE  Widened(rows) \in Tables /\ ~Widened(rows).unique /\ Widened(rows).main
    <2> DEFINE old == Old(Len(Columns), rows)
    <2>1. Len(Columns) \in 0..Len(Columns)
      BY ColumnsAreNumbered
    <2>2. old \in Tables /\ ~old.unique /\ old.main
      BY <1>o, <2>1
    <2>3. Widened(rows) = [old EXCEPT !.wide = TRUE]
      BY DEF Widened
    <2> HIDE DEF old
    <2>4. QED
      BY <2>2, <2>3 DEF Tables
  <1>d. db \in Tables /\ ~db.unique /\ (~db.main => db.cols = {})
    BY <1>1, <1>e, <1>o, <1>w
  <1>2. TypeOK /\ IndexIsTrue
    <2>1. [pc |-> "idle", column |-> 1, alone |-> TRUE] \in Opener
      BY ColumnsAreNumbered DEF Opener, Steps
    <2>2. opener \in [Openers -> Opener] /\ txn \in Transaction \cup {None}
      BY <2>1 DEF Init
    <2>3. opened \in BOOLEAN /\ kept \in SUBSET Row
      BY <1>d DEF Init, Tables
    <2>4. QED
      BY <1>d, <2>2, <2>3 DEF TypeOK, IndexIsTrue
  <1>3. \A o \in Openers : OpenerInv(o)
    <2>1. \A o \in Openers : opener[o].pc = "idle" /\ ~Holds(o)
      BY DEF Init, Holds
    <2>2. QED
      BY <2>1 DEF OpenerInv, DoneSoFar, Moving, Past
  <1>4. NoRowIsLost /\ OpenedIsCurrent
    BY DEF Init, NoRowIsLost, OpenedIsCurrent
  <1>5. NewIsEmpty
    BY <1>d DEF NewIsEmpty
  <1>6. QED
    BY <1>2, <1>3, <1>4, <1>5 DEF IInv

\* The committed tables only ever gain.
Grows == /\ db.main => db'.main
         /\ db.cols \subseteq db'.cols /\ db'.cols \subseteq AllColumns
         /\ db.wide => db'.wide
         /\ db.unique => db'.unique

\* An opening that does not move keeps its part of the invariant while the tables gain.
LEMMA OthersStand ==
  ASSUME NEW o \in Openers, OpenerInv(o), Grows,
         opener'[o].pc = opener[o].pc, opener'[o].column = opener[o].column,
         Holds(o)' <=> Holds(o), Holds(o) => txn' = txn /\ kept' = kept
  PROVE  OpenerInv(o)'
  <1>1. (opener[o].pc \in Moving => Holds(o))'
    BY DEF OpenerInv
  <1>2. (Holds(o) => MovedSoFar(o))'
    BY DEF OpenerInv, MovedSoFar
  <1>3. DoneSoFar(o)'
    <2>1. DoneSoFar(o) /\ (opener[o].pc = "create" => opener[o].column = 1)
      BY DEF OpenerInv, DoneSoFar
    <2>2. opener[o].pc \in Past \cup {"columns"} => db'.main
      BY <2>1 DEF DoneSoFar, Grows
    <2>3. opener[o].pc = "columns" => \A i \in 1..(opener[o].column - 1) : Columns[i] \in db'.cols
      BY <2>1 DEF DoneSoFar, Grows
    <2>4. opener[o].pc \in Past => db'.cols = AllColumns
      BY <2>1 DEF DoneSoFar, Grows
    <2>5. opener[o].pc \in {"index", "commit"} /\ ~Holds(o) => db'.wide
      BY <2>1 DEF DoneSoFar, Grows
    <2>6. opener[o].pc = "commit" /\ ~Holds(o) => db'.unique
      BY <2>1 DEF DoneSoFar, Grows
    <2>7. QED
      BY <2>1, <2>2, <2>3, <2>4, <2>5, <2>6 DEF DoneSoFar
  <1>4. QED
    BY <1>1, <1>2, <1>3 DEF OpenerInv

\* The steps before the rows are moved run without a transaction, those that move
\* them inside the opening's own.
LEMMA WhereStatementsRun ==
  ASSUME IInv, NEW o \in Openers, NEW pc, At(o, pc)
  PROVE  /\ pc \in {"create", "columns", "drop_side", "create_side", "copy"} => txn = None
         /\ pc \in Moving => Holds(o)
         /\ Holds(o) \/ txn = None
  <1>1. opener[o].pc = pc /\ (Holds(o) \/ txn = None) /\ OpenerInv(o)
    BY DEF IInv, At, MayWrite, Holds
  <1>2. Holds(o) => pc \in Moving \cup {"index", "commit"}
    BY <1>1 DEF OpenerInv, MovedSoFar
  <1>3. QED
    BY <1>1, <1>2 DEF OpenerInv, Moving

\* A statement outside a transaction is committed at once.
LEMMA StatementStep ==
  ASSUME IInv, NEW o \in Openers, NEW tables \in Tables, NEW next \in Opener, txn = None,
         opener[o].pc \notin Dml, Execute(o, tables, next),
         tables.main, db.cols \subseteq tables.cols, db.wide => tables.wide,
         db.unique => tables.unique, tables.unique => ~Clashes(tables.rows),
         tables.rows = db.rows,
         next.pc \notin Moving, (~Holds(o) => DoneSoFar(o))'
  PROVE  IInv'
  <1>1. db' = tables /\ txn' = txn /\ opener' = [opener EXCEPT ![o] = next]
        /\ UNCHANGED <<opened, kept>>
    BY DEF Execute
  <1>2. TypeOK'
    BY <1>1 DEF IInv, TypeOK
  <1>3. NoRowIsLost' /\ IndexIsTrue' /\ NewIsEmpty'
    BY <1>1 DEF IInv, NoRowIsLost, IndexIsTrue, NewIsEmpty
  <1>4. Grows
    BY <1>1 DEF Grows, Tables
  <1>5. OpenedIsCurrent'
    BY <1>1, <1>4 DEF IInv, OpenedIsCurrent, Grows
  <1>6. \A x \in Openers : ~Holds(x) /\ ~Holds(x)'
    BY <1>1 DEF Holds
  <1>7. \A x \in Openers : OpenerInv(x)'
    <2>1. opener'[o] = next
      BY <1>1 DEF IInv, TypeOK
    <2>2. OpenerInv(o)'
      BY <1>6, <2>1 DEF OpenerInv
    <2>3. ASSUME NEW x \in Openers, x # o PROVE OpenerInv(x)'
      <3>1. opener'[x] = opener[x]
        BY <1>1, <2>3 DEF IInv, TypeOK
      <3>2. QED
        BY <1>1, <1>4, <1>6, <3>1, OthersStand DEF IInv
    <2>4. QED
      BY <2>2, <2>3
  <1>8. QED
    BY <1>2, <1>3, <1>5, <1>7 DEF IInv

\* A statement inside the transaction shows nothing yet.
LEMMA TransactionStep ==
  ASSUME IInv, NEW o \in Openers, NEW tables \in Tables, NEW next \in Opener,
         txn = None \/ Holds(o), Holds(o) \/ opener[o].pc \in Dml,
         Execute(o, tables, next), next.pc \in Past, opener[o].pc \in Past, MovedSoFar(o)'
  PROVE  IInv'
  <1>1. db' = db /\ txn' = [by |-> o, tables |-> tables] /\ opener' = [opener EXCEPT ![o] = next]
        /\ UNCHANGED <<opened, kept>>
    BY DEF Execute, Holds
  <1>2. txn' \in Transaction /\ txn' # None
    BY <1>1, TransactionAssumption DEF Transaction
  <1>3. TypeOK'
    BY <1>1, <1>2 DEF IInv, TypeOK
  <1>4. NoRowIsLost' /\ IndexIsTrue' /\ OpenedIsCurrent' /\ NewIsEmpty'
    BY <1>1 DEF IInv, NoRowIsLost, IndexIsTrue, OpenedIsCurrent, NewIsEmpty
  <1>5. Grows
    BY <1>1 DEF IInv, TypeOK, Grows, Tables
  <1>6. Holds(o)' /\ \A x \in Openers : x # o => ~Holds(x) /\ ~Holds(x)'
    BY <1>1, <1>2 DEF Holds
  <1>7. \A x \in Openers : OpenerInv(x)'
    <2>1. opener'[o] = next
      BY <1>1 DEF IInv, TypeOK
    <2>2. DoneSoFar(o)'
      <3>1. DoneSoFar(o)
        BY DEF IInv, OpenerInv
      <3>2. db'.main /\ db'.cols = AllColumns
        BY <1>1, <3>1 DEF DoneSoFar
      <3>3. next.pc \notin {"create", "columns"}
        BY DEF Past, Moving
      <3>4. QED
        BY <1>6, <2>1, <3>2, <3>3 DEF DoneSoFar
    <2>3. OpenerInv(o)'
      BY <1>6, <2>2 DEF OpenerInv
    <2>4. ASSUME NEW x \in Openers, x # o PROVE OpenerInv(x)'
      <3>1. opener'[x] = opener[x]
        BY <1>1, <2>4 DEF IInv, TypeOK
      <3>2. QED
        BY <1>1, <1>5, <1>6, <2>4, <3>1, OthersStand DEF IInv
    <2>5. QED
      BY <2>3, <2>4
  <1>8. QED
    BY <1>3, <1>4, <1>7 DEF IInv

\* A new table has the wide key, and a table that is there stays as it is.
LEMMA CreateMainStep == ASSUME IInv, NEW o \in Openers, CreateMain(o) PROVE IInv'
  <1> DEFINE tables == IF View.main THEN View
                       ELSE [View EXCEPT !.main = TRUE, !.cols = FreshColumns, !.wide = TRUE]
             next == Then(o, "columns")
  <1>1. txn = None /\ View = db /\ opener[o].pc = "create" /\ db \in Tables
        /\ Execute(o, tables, next)
    BY WhereStatementsRun DEF CreateMain, View, At, IInv, TypeOK
  <1>2. tables \in Tables
    BY <1>1, MigrationAssumption DEF Tables
  <1>3. /\ tables.main /\ tables.rows = db.rows /\ tables.unique = db.unique
        /\ db.wide => tables.wide
    BY <1>1 DEF Tables
  <1>4. db.cols \subseteq tables.cols
    BY <1>1 DEF IInv, NewIsEmpty
  <1>5. /\ next \in Opener /\ next.pc = "columns" /\ next.column = opener[o].column
    BY DEF IInv, TypeOK, Opener, Steps, Then
  <1> HIDE DEF tables, next
  <1>6. opener'[o] = next /\ db' = tables
    BY <1>1 DEF Execute, Dml, IInv, TypeOK
  <1>7. DoneSoFar(o)'
    <2>1. next.column = 1
      BY <1>1, <1>5 DEF IInv, OpenerInv, DoneSoFar
    <2>2. opener'[o].pc = "columns" /\ opener'[o].column = 1 /\ db'.main
      BY <1>3, <1>5, <1>6, <2>1
    <2>3. QED
      BY <2>2 DEF DoneSoFar, Past, Moving
  <1>8. tables.unique => ~Clashes(tables.rows)
    BY <1>3 DEF IInv, IndexIsTrue
  <1>9. QED
    BY <1>1, <1>2, <1>3, <1>4, <1>5, <1>7, <1>8, StatementStep DEF Dml, Moving

\* A column that is there already is left alone.
LEMMA AddColumnStep == ASSUME IInv, NEW o \in Openers, AddColumn(o) PROVE IInv'
  <1> DEFINE i == opener[o].column
             tables == [View EXCEPT !.cols = @ \cup {Columns[i]}]
             next == [opener[o] EXCEPT !.column = i + 1]
  <1>1. txn = None /\ View = db /\ opener[o].pc = "columns" /\ db \in Tables
        /\ Execute(o, tables, next) /\ i <= Len(Columns)
    BY WhereStatementsRun DEF AddColumn, View, At, IInv, TypeOK
  <1>2. i \in Nat /\ i >= 1 /\ Columns[i] \in AllColumns
    BY <1>1, ColumnsAreNumbered DEF IInv, TypeOK, Opener
  <1>3. tables \in Tables
    BY <1>1, <1>2 DEF Tables
  <1>4. /\ tables.rows = db.rows /\ tables.unique = db.unique /\ tables.wide = db.wide
        /\ tables.main = db.main /\ tables.cols = db.cols \cup {Columns[i]}
    BY <1>1 DEF Tables
  <1>5. /\ next \in Opener /\ next.pc = "columns" /\ next.column = i + 1
    BY <1>1, <1>2, ColumnsAreNumbered DEF IInv, TypeOK, Opener
  <1>6. db.main /\ \A j \in 1..(i - 1) : Columns[j] \in db.cols
    BY <1>1 DEF IInv, OpenerInv, DoneSoFar
  <1> HIDE DEF tables, next
  <1>7. opener'[o] = next /\ db' = tables
    BY <1>1 DEF Execute, Dml, IInv, TypeOK
  <1>8. DoneSoFar(o)'
    <2>1. \A j \in 1..((i + 1) - 1) : Columns[j] \in db'.cols
      BY <1>2, <1>4, <1>6, <1>7
    <2>2. opener'[o].pc = "columns" /\ opener'[o].column = i + 1 /\ db'.main
      BY <1>4, <1>5, <1>6, <1>7
    <2>3. QED
      BY <2>1, <2>2 DEF DoneSoFar, Past, Moving
  <1>9. tables.unique => ~Clashes(tables.rows)
    BY <1>4 DEF IInv, IndexIsTrue
  <1>10. QED
    BY <1>1, <1>3, <1>4, <1>5, <1>6, <1>8, <1>9, StatementStep DEF Dml, Moving

\* A step of one opening that leaves the tables and the transactions alone.
LEMMA MoveOn ==
  ASSUME IInv, NEW o \in Openers, ~Holds(o), UNCHANGED <<db, txn, kept>>,
         opener' \in [Openers -> Opener], opened' = opened,
         \A x \in Openers : x # o => /\ opener'[x].pc = opener[x].pc
                                     /\ opener'[x].column = opener[x].column,
         opener'[o].pc \notin Moving, DoneSoFar(o)'
  PROVE  IInv'
  <1>1. TypeOK' /\ NoRowIsLost' /\ OpenedIsCurrent' /\ IndexIsTrue' /\ NewIsEmpty'
    BY DEF IInv, TypeOK, NoRowIsLost, OpenedIsCurrent, IndexIsTrue, NewIsEmpty
  <1>2. Grows
    BY DEF IInv, TypeOK, Grows, Tables
  <1>3. \A x \in Openers : Holds(x)' <=> Holds(x)
    BY DEF Holds
  <1>4. OpenerInv(o)'
    BY <1>3 DEF OpenerInv
  <1>5. ASSUME NEW x \in Openers, x # o PROVE OpenerInv(x)'
    BY <1>2, <1>3, <1>5, OthersStand DEF IInv
  <1>6. QED
    BY <1>1, <1>4, <1>5 DEF IInv

\* A constructor begins; the openings that it meets go on.
LEMMA OpenStep == ASSUME IInv, NEW o \in Openers, Open(o) PROVE IInv'
  <1>1. ~Holds(o)
    BY DEF IInv, OpenerInv, MovedSoFar, Moving, Open, Active
  <1> DEFINE alone == \A x \in Openers : x # o => ~Active(x)
             fresh == [pc |-> "create", column |-> 1, alone |-> alone]
  <1>2. fresh \in Opener
    BY ColumnsAreNumbered DEF Opener, Steps
  <1>3. \A x \in Openers : [opener[x] EXCEPT !.alone = FALSE] \in Opener
    BY DEF IInv, TypeOK, Opener
  <1>4. opener' = [x \in Openers |->
                     IF x = o THEN fresh
                     ELSE IF Active(x) THEN [opener[x] EXCEPT !.alone = FALSE] ELSE opener[x]]
    BY DEF Open
  <1> HIDE DEF fresh
  <1>5. opener' \in [Openers -> Opener]
    BY <1>2, <1>3, <1>4 DEF IInv, TypeOK
  <1>6. \A x \in Openers : [opener[x] EXCEPT !.alone = FALSE].pc = opener[x].pc
                          /\ [opener[x] EXCEPT !.alone = FALSE].column = opener[x].column
    BY DEF IInv, TypeOK, Opener
  <1>7. \A x \in Openers : x # o => /\ opener'[x].pc = opener[x].pc
                                    /\ opener'[x].column = opener[x].column
    BY <1>4, <1>6
  <1>8. opener'[o].pc = "create" /\ opener'[o].column = 1
    BY <1>4 DEF fresh
  <1>9. DoneSoFar(o)'
    BY <1>8 DEF DoneSoFar, Past, Moving
  <1>10. QED
    BY <1>1, <1>5, <1>7, <1>8, <1>9, MoveOn DEF Open, Moving

\* The key is looked at when all columns are there.
LEMMA CheckKeyStep == ASSUME IInv, NEW o \in Openers, CheckKey(o) PROVE IInv'
  <1> DEFINE pc == IF db.wide THEN "index" ELSE "drop_side"
  <1>1. ~Holds(o)
    BY DEF IInv, OpenerInv, MovedSoFar, Moving, CheckKey
  <1>2. opener' = [opener EXCEPT ![o].pc = pc]
    BY DEF CheckKey
  <1>3. opener' \in [Openers -> Opener] /\ opener'[o].pc = pc
    BY <1>2 DEF IInv, TypeOK, Opener, Steps
  <1>4. \A x \in Openers : x # o => opener'[x] = opener[x]
    BY <1>2 DEF IInv, TypeOK
  <1>5. db.main /\ db.cols = AllColumns
    <2>1. opener[o].column \in Nat /\ opener[o].column = Len(Columns) + 1
      BY ColumnsAreNumbered DEF IInv, TypeOK, Opener, CheckKey
    <2>2. db.main /\ \A i \in 1..(opener[o].column - 1) : Columns[i] \in db.cols
      BY DEF IInv, OpenerInv, DoneSoFar, CheckKey
    <2>3. AllColumns \subseteq db.cols
      BY <2>1, <2>2, ColumnsAreNumbered DEF AllColumns
    <2>4. db.cols \subseteq AllColumns
      BY DEF IInv, TypeOK, Tables
    <2>5. QED
      BY <2>2, <2>3, <2>4
  <1>6. DoneSoFar(o)'
    BY <1>3, <1>5 DEF DoneSoFar, CheckKey
  <1>7. QED
    BY <1>1, <1>3, <1>4, <1>6, MoveOn DEF CheckKey, Moving

\* The statements before the rows are moved leave the committed table alone.
LEMMA SideStep ==
  ASSUME IInv, NEW o \in Openers, NEW side \in (SUBSET Row) \cup {None}, NEW pc, NEW to,
         pc \in {"drop_side", "create_side"}, to \in {"create_side", "copy"}, At(o, pc),
         Execute(o, [View EXCEPT !.side = side], Then(o, to))
  PROVE  IInv'
  <1> DEFINE tables == [View EXCEPT !.side = side]
             next == Then(o, to)
  <1>1. txn = None /\ View = db /\ opener[o].pc = pc /\ db \in Tables
        /\ Execute(o, tables, next)
    BY WhereStatementsRun DEF View, At, IInv, TypeOK
  <1>2. tables \in Tables
    BY <1>1 DEF Tables
  <1>3. /\ tables.rows = db.rows /\ tables.unique = db.unique /\ tables.wide = db.wide
        /\ tables.main = db.main /\ tables.cols = db.cols
    BY <1>1 DEF Tables
  <1>4. next \in Opener /\ next.pc = to
    BY DEF IInv, TypeOK, Opener, Steps, Then
  <1>5. db.main /\ db.cols = AllColumns
    BY <1>1 DEF IInv, OpenerInv, DoneSoFar, Past
  <1> HIDE DEF tables, next
  <1>6. opener'[o].pc = to /\ db' = tables
    BY <1>1, <1>4 DEF Execute, Dml, IInv, TypeOK
  <1>7. DoneSoFar(o)'
    BY <1>3, <1>5, <1>6 DEF DoneSoFar
  <1>8. tables.unique => ~Clashes(tables.rows)
    BY <1>3 DEF IInv, IndexIsTrue
  <1>9. QED
    BY <1>1, <1>2, <1>3, <1>4, <1>5, <1>7, <1>8, StatementStep DEF Dml, Moving

\* What an interrupted opening left is dropped.
LEMMA DropSideStep == ASSUME IInv, NEW o \in Openers, DropSide(o) PROVE IInv'
  BY SideStep DEF DropSide

\* The new table is created empty.
LEMMA CreateSideStep == ASSUME IInv, NEW o \in Openers, CreateSide(o) PROVE IInv'
  BY SideStep DEF CreateSide

\* The rows are copied before anything is taken away.
LEMMA CopyRowsStep == ASSUME IInv, NEW o \in Openers, CopyRows(o) PROVE IInv'
  <1> DEFINE tables == [View EXCEPT !.side = @ \cup View.rows]
             next == Then(o, "drop_main")
  <1>1. txn = None /\ View = db /\ opener[o].pc = "copy" /\ db \in Tables /\ db.side # None
        /\ Execute(o, tables, next)
    BY WhereStatementsRun DEF CopyRows, View, At, IInv, TypeOK
  <1>2. db.side \in SUBSET Row /\ db.rows \in SUBSET Row
    BY <1>1 DEF Tables
  <1>3. tables \in Tables
    BY <1>1, <1>2 DEF Tables
  <1>4. tables.rows = db.rows /\ tables.unique = db.unique /\ tables.side = db.side \cup db.rows
    BY <1>1 DEF Tables
  <1>5. tables.side # None /\ kept \subseteq tables.side
    BY <1>2, <1>4, MigrationAssumption DEF IInv, NoRowIsLost
  <1>6. tables.unique => ~Clashes(tables.rows)
    BY <1>4 DEF IInv, IndexIsTrue
  <1>7. next \in Opener /\ next.pc = "drop_main"
    BY DEF IInv, TypeOK, Opener, Steps, Then
  <1> HIDE DEF tables, next
  <1>8. opener'[o].pc = "drop_main" /\ txn' = [by |-> o, tables |-> tables] /\ kept' = kept
    BY <1>1, <1>7 DEF Execute, Dml, IInv, TypeOK
  <1>9. MovedSoFar(o)'
    BY <1>5, <1>6, <1>8 DEF MovedSoFar, Moving
  <1>10. QED
    BY <1>1, <1>3, <1>7, <1>9, TransactionStep DEF Dml, Past, Moving

\* The old table is dropped inside the transaction that holds the copy.
LEMMA DropMainStep == ASSUME IInv, NEW o \in Openers, DropMain(o) PROVE IInv'
  <1> DEFINE tables == [View EXCEPT !.main = FALSE, !.rows = {}, !.unique = FALSE]
             next == Then(o, "rename")
  <1>1. Holds(o) /\ View = txn.tables /\ opener[o].pc = "drop_main" /\ Execute(o, tables, next)
    BY WhereStatementsRun DEF DropMain, View, At, Holds, Moving
  <1>2. View \in Tables
    BY <1>1 DEF IInv, TypeOK, Transaction, Holds
  <1>3. View.side # None /\ kept \subseteq View.side
    BY <1>1 DEF IInv, OpenerInv, MovedSoFar, Moving
  <1>4. tables \in Tables
    BY <1>2 DEF Tables
  <1>5. tables.unique = FALSE /\ tables.side = View.side
    BY <1>2 DEF Tables
  <1>6. next \in Opener /\ next.pc = "rename"
    BY DEF IInv, TypeOK, Opener, Steps, Then
  <1> HIDE DEF tables, next
  <1>7. opener'[o].pc = "rename" /\ txn' = [by |-> o, tables |-> tables] /\ kept' = kept
    BY <1>1, <1>6 DEF Execute, Holds, IInv, TypeOK
  <1>8. MovedSoFar(o)'
    BY <1>3, <1>5, <1>7 DEF MovedSoFar, Moving
  <1>9. QED
    BY <1>1, <1>4, <1>6, <1>8, TransactionStep DEF Past, Moving

\* The new table comes in its place with every row that counts.
LEMMA RenameSideStep == ASSUME IInv, NEW o \in Openers, RenameSide(o) PROVE IInv'
  <1> DEFINE tables == [View EXCEPT !.main = TRUE, !.cols = AllColumns, !.rows = View.side,
                                    !.wide = TRUE, !.side = None]
             next == Then(o, "index")
  <1>1. Holds(o) /\ View = txn.tables /\ opener[o].pc = "rename" /\ Execute(o, tables, next)
    BY WhereStatementsRun DEF RenameSide, View, At, Holds, Moving
  <1>2. View \in Tables
    BY <1>1 DEF IInv, TypeOK, Transaction, Holds
  <1>3. View.side # None /\ kept \subseteq View.side /\ ~View.unique
    BY <1>1 DEF IInv, OpenerInv, MovedSoFar, Moving
  <1>4. View.side \in SUBSET Row
    BY <1>2, <1>3 DEF Tables
  <1>5. tables \in Tables
    BY <1>2, <1>4 DEF Tables
  <1>6. /\ tables.main /\ tables.cols = AllColumns /\ tables.rows = View.side /\ tables.wide
        /\ ~tables.unique
    BY <1>2, <1>3 DEF Tables
  <1>7. next \in Opener /\ next.pc = "index"
    BY DEF IInv, TypeOK, Opener, Steps, Then
  <1> HIDE DEF tables, next
  <1>8. opener'[o].pc = "index" /\ txn' = [by |-> o, tables |-> tables] /\ kept' = kept
    BY <1>1, <1>7 DEF Execute, Holds, IInv, TypeOK
  <1>9. MovedSoFar(o)'
    BY <1>3, <1>6, <1>8 DEF MovedSoFar, Moving
  <1>10. QED
    BY <1>1, <1>5, <1>7, <1>9, TransactionStep DEF Past, Moving

\* The index is created over rows that do not clash, inside the transaction or alone.
LEMMA CreateIndexStep == ASSUME IInv, NEW o \in Openers, CreateIndex(o) PROVE IInv'
  <1> DEFINE tables == [View EXCEPT !.unique = TRUE]
             next == Then(o, "commit")
  <1>1. /\ Holds(o) \/ txn = None
        /\ opener[o].pc = "index" /\ Execute(o, tables, next)
        /\ View.main /\ ~Clashes(View.rows)
    BY WhereStatementsRun DEF CreateIndex, At
  <1>2. View \in Tables
    BY <1>1 DEF View, IInv, TypeOK, Transaction, Holds
  <1>3. tables \in Tables
    BY <1>2 DEF Tables
  <1>4. /\ tables.main = View.main /\ tables.cols = View.cols /\ tables.rows = View.rows
        /\ tables.wide = View.wide /\ tables.unique
    BY <1>2 DEF Tables
  <1>5. next \in Opener /\ next.pc = "commit"
    BY DEF IInv, TypeOK, Opener, Steps, Then
  <1> HIDE DEF tables, next
  <1>6. opener'[o].pc = "commit" /\ kept' = kept
    BY <1>1, <1>5 DEF Execute, IInv, TypeOK
  <1>7. CASE Holds(o)
    <2>1. View = txn.tables /\ txn' = [by |-> o, tables |-> tables]
      BY <1>1, <1>7 DEF Execute, Holds, View
    <2>2. kept \subseteq View.rows /\ View.cols = AllColumns /\ View.wide
      BY <1>1, <1>7, <2>1 DEF IInv, OpenerInv, MovedSoFar
    <2>3. MovedSoFar(o)'
      BY <1>1, <1>4, <1>6, <2>1, <2>2 DEF MovedSoFar, Moving
    <2>4. QED
      BY <1>1, <1>3, <1>5, <1>7, <2>3, TransactionStep DEF Past, Moving
  <1>8. CASE ~Holds(o)
    <2>1. txn = None /\ View = db /\ db' = tables
      BY <1>1, <1>8 DEF Execute, View, Dml
    <2>2. db.main /\ db.cols = AllColumns /\ db.wide
      BY <1>1, <1>8 DEF IInv, OpenerInv, DoneSoFar, Past
    <2>3. DoneSoFar(o)'
      BY <1>4, <1>6, <2>1, <2>2 DEF DoneSoFar
    <2>4. QED
      BY <1>1, <1>3, <1>4, <1>5, <2>1, <2>2, <2>3, StatementStep DEF Dml, Moving
  <1>9. QED
    BY <1>7, <1>8

\* What is committed at the end is a table that is up to date and has every row.
LEMMA CommitStep == ASSUME IInv, NEW o \in Openers, Commit(o) PROVE IInv'
  <1>1. opener[o].pc = "commit" /\ opened' /\ kept' = kept
        /\ opener' = [opener EXCEPT ![o].pc = "done"]
    BY DEF Commit
  <1>2. opener' \in [Openers -> Opener] /\ opener'[o].pc = "done"
    BY <1>1 DEF IInv, TypeOK, Opener, Steps
  <1>3. \A x \in Openers : x # o => opener'[x] = opener[x]
    BY <1>1 DEF IInv, TypeOK
  <1>4. \/ Holds(o) /\ db' = txn.tables /\ txn' = None
        \/ ~Holds(o) /\ db' = db /\ txn' = txn
    BY DEF Commit, Holds
  <1>5. db' \in Tables /\ txn' \in Transaction \cup {None}
    BY <1>4 DEF IInv, TypeOK, Transaction, Holds
  <1>6. /\ db'.main /\ db'.cols = AllColumns /\ db'.wide /\ db'.unique
        /\ kept \subseteq db'.rows /\ ~Clashes(db'.rows)
    <2>1. CASE Holds(o)
      BY <1>1, <1>4, <2>1 DEF IInv, OpenerInv, MovedSoFar
    <2>2. CASE ~Holds(o)
      <3>1. db.main /\ db.cols = AllColumns /\ db.wide /\ db.unique
        BY <1>1, <2>2 DEF IInv, OpenerInv, DoneSoFar, Past
      <3>2. QED
        BY <1>4, <2>2, <3>1 DEF IInv, NoRowIsLost, IndexIsTrue
    <2>3. QED
      BY <2>1, <2>2
  <1>7. TypeOK'
    BY <1>1, <1>2, <1>5 DEF IInv, TypeOK
  <1>8. NoRowIsLost' /\ IndexIsTrue' /\ OpenedIsCurrent' /\ NewIsEmpty'
    <2>1. NoRowIsLost'
      BY <1>1, <1>6 DEF NoRowIsLost
    <2>2. (~Clashes(db.rows))'
      BY <1>6 DEF Clashes
    <2>3. IndexIsTrue'
      BY <2>2 DEF IndexIsTrue
    <2>4. OpenedIsCurrent' /\ NewIsEmpty'
      BY <1>6 DEF OpenedIsCurrent, NewIsEmpty
    <2>5. QED
      BY <2>1, <2>3, <2>4
  <1>9. Grows
    BY <1>6 DEF IInv, TypeOK, Tables, Grows
  <1>10. \A x \in Openers : x # o => (Holds(x)' <=> Holds(x)) /\ (Holds(x) => txn' = txn)
    BY <1>4 DEF Holds
  <1>11. \A x \in Openers : OpenerInv(x)'
    <2>1. ~Holds(o)'
      BY <1>4 DEF Holds
    <2>2. OpenerInv(o)'
      BY <1>2, <2>1 DEF OpenerInv, DoneSoFar, Past, Moving
    <2>3. ASSUME NEW x \in Openers, x # o PROVE OpenerInv(x)'
      BY <1>1, <1>3, <1>9, <1>10, <2>3, OthersStand DEF IInv
    <2>4. QED
      BY <2>2, <2>3
  <1>12. QED
    BY <1>7, <1>8, <1>11 DEF IInv

\* A statement that raises takes its own transaction with it and nothing else.
LEMMA RaiseStep == ASSUME IInv, NEW o \in Openers, Raise(o) PROVE IInv'
  <1>1. opener' = [opener EXCEPT ![o].pc = "failed"] /\ UNCHANGED <<db, opened, kept>>
    BY DEF Raise
  <1>2. txn' = IF Holds(o) THEN None ELSE txn
    BY DEF Raise, Holds
  <1>3. opener' \in [Openers -> Opener] /\ opener'[o].pc = "failed"
    BY <1>1 DEF IInv, TypeOK, Opener, Steps
  <1>4. TypeOK' /\ NoRowIsLost' /\ OpenedIsCurrent' /\ IndexIsTrue' /\ NewIsEmpty'
    BY <1>1, <1>2, <1>3
    DEF IInv, TypeOK, NoRowIsLost, OpenedIsCurrent, IndexIsTrue, NewIsEmpty
  <1>5. Grows
    BY <1>1 DEF IInv, TypeOK, Grows, Tables
  <1>6. \A x \in Openers : x # o => opener'[x] = opener[x] /\ (Holds(x)' <=> Holds(x))
                                   /\ (Holds(x) => txn' = txn)
    BY <1>1, <1>2 DEF IInv, TypeOK, Holds
  <1>7. OpenerInv(o)'
    BY <1>2, <1>3 DEF OpenerInv, DoneSoFar, Past, Moving, Holds
  <1>8. ASSUME NEW x \in Openers, x # o PROVE OpenerInv(x)'
    BY <1>1, <1>5, <1>6, <1>8, OthersStand DEF IInv
  <1>9. QED
    BY <1>4, <1>7, <1>8 DEF IInv

\* When the process stops, all openings and their transaction are gone.
LEMMA CrashStep == ASSUME IInv, Crash PROVE IInv'
  <1>1. [pc |-> "idle", column |-> 1, alone |-> TRUE] \in Opener
    BY ColumnsAreNumbered DEF Opener, Steps
  <1>2. TypeOK' /\ NoRowIsLost' /\ OpenedIsCurrent' /\ IndexIsTrue' /\ NewIsEmpty'
    BY <1>1
    DEF Crash, IInv, TypeOK, NoRowIsLost, OpenedIsCurrent, IndexIsTrue, NewIsEmpty
  <1>3. \A o \in Openers : opener'[o].pc = "idle" /\ ~Holds(o)'
    BY DEF Crash, Holds
  <1>4. \A o \in Openers : OpenerInv(o)'
    BY <1>3 DEF OpenerInv, DoneSoFar, Past, Moving
  <1>5. QED
    BY <1>2, <1>4 DEF IInv

\* A row is accepted only where its entry is not there yet.
LEMMA InsertStep == ASSUME IInv, NEW row \in Row, Insert(row) PROVE IInv'
  <1>1. opened /\ txn = None /\ db.unique /\ db \in Tables /\ UNCHANGED <<txn, opener, opened>>
    BY DEF Insert, IInv, TypeOK, OpenedIsCurrent
  <1>2. CASE UNCHANGED <<db, kept>>
    <2>1. TypeOK' /\ NoRowIsLost' /\ OpenedIsCurrent' /\ IndexIsTrue' /\ NewIsEmpty'
      BY <1>1, <1>2
      DEF IInv, TypeOK, NoRowIsLost, OpenedIsCurrent, IndexIsTrue, NewIsEmpty
    <2>2. \A o \in Openers : OpenerInv(o)'
      BY <1>1, <1>2 DEF IInv, OpenerInv, MovedSoFar, DoneSoFar, Holds
    <2>3. QED
      BY <2>1, <2>2 DEF IInv
  <1>3. CASE /\ db' = [db EXCEPT !.rows = @ \cup {row}] /\ kept' = kept \cup {row}
             /\ ~Clashes(db.rows \cup {row})
    <2>1. db' \in Tables /\ db'.rows = db.rows \cup {row}
      BY <1>1, <1>3 DEF Tables
    <2>2. /\ db'.main = db.main /\ db'.cols = db.cols /\ db'.wide = db.wide
          /\ db'.unique = db.unique
      BY <1>1, <1>3 DEF Tables
    <2>3. TypeOK'
      BY <1>1, <1>3, <2>1 DEF IInv, TypeOK
    <2>4. NoRowIsLost'
      BY <1>3, <2>1 DEF IInv, NoRowIsLost
    <2>5. OpenedIsCurrent' /\ NewIsEmpty'
      BY <1>1, <2>2 DEF IInv, OpenedIsCurrent, NewIsEmpty
    <2>6. IndexIsTrue'
      BY <1>3, <2>1 DEF IndexIsTrue
    <2>7. Grows
      BY <1>1, <2>2 DEF Grows, Tables
    <2>8. \A o \in Openers : ~Holds(o) /\ ~Holds(o)'
      BY <1>1 DEF Holds
    <2>9. \A o \in Openers : OpenerInv(o)'
      BY <1>1, <2>7, <2>8, OthersStand DEF IInv
    <2>10. QED
      BY <2>3, <2>4, <2>5, <2>6, <2>9 DEF IInv
  <1>4. QED
    BY <1>1, <1>2, <1>3 DEF Insert

\* Every step keeps the inductive invariant.
LEMMA InvStep == IInv /\ [Next]_vars => IInv'
  <1> SUFFICES ASSUME IInv, [Next]_vars PROVE IInv'
    OBVIOUS
  <1>1. CASE Crash
    BY <1>1, CrashStep
  <1>2. ASSUME NEW o \in Openers, Opening(o) PROVE IInv'
    BY <1>2, OpenStep, CreateMainStep, AddColumnStep, CheckKeyStep, DropSideStep, CreateSideStep,
       CopyRowsStep, DropMainStep, RenameSideStep, CreateIndexStep, CommitStep, RaiseStep
    DEF Opening
  <1>3. ASSUME NEW k \in Keys, NEW id \in Ids, Insert([id |-> id, key |-> k]) PROVE IInv'
    <2>1. [id |-> id, key |-> k] \in Row
      BY DEF Row
    <2>2. QED
      BY <1>3, <2>1, InsertStep
  <1>4. CASE UNCHANGED vars
    <2>1. TypeOK' /\ NoRowIsLost' /\ OpenedIsCurrent' /\ IndexIsTrue' /\ NewIsEmpty'
      BY <1>4 DEF vars, IInv, TypeOK, NoRowIsLost, OpenedIsCurrent, IndexIsTrue, NewIsEmpty
    <2>2. \A o \in Openers : OpenerInv(o)'
      BY <1>4 DEF vars, IInv, OpenerInv, MovedSoFar, DoneSoFar, Holds
    <2>3. QED
      BY <2>1, <2>2 DEF IInv
  <1>5. QED
    BY <1>1, <1>2, <1>3, <1>4 DEF Next

\* The inductive invariant holds in every reachable state, whichever openings of the
\* database overlap and wherever the process stops (DataStore.__init__).
THEOREM Invariance == Spec => []IInv
  BY InvInit, InvStep, PTL DEF Spec

\* No row is ever lost: not by an opening that stops half-way through the move of
\* the rows, and not by two of them at a time.
THEOREM RowsAreKept == Spec => []NoRowIsLost
  <1>1. IInv => NoRowIsLost
    BY DEF IInv
  <1>2. QED
    BY <1>1, Invariance, PTL

\* Once a constructor has returned, readers find the current table at every moment.
THEOREM SchemaStaysCurrent == Spec => []OpenedIsCurrent
  <1>1. IInv => OpenedIsCurrent
    BY DEF IInv
  <1>2. QED
    BY <1>1, Invariance, PTL

\* From then on an entry has one row.
THEOREM EntriesStayUnique == Spec => []EntriesAreUnique
  <1>1. IInv => EntriesAreUnique
    BY DEF IInv, OpenedIsCurrent, IndexIsTrue, EntriesAreUnique
  <1>2. QED
    BY <1>1, Invariance, PTL

\* The variables keep their types.
THEOREM TypeCorrect == Spec => []TypeOK
  <1>1. IInv => TypeOK
    BY DEF IInv
  <1>2. QED
    BY <1>1, Invariance, PTL

\* An opening sees tables, its transaction's or the committed ones.
LEMMA ViewIsTables == IInv => View \in Tables
  BY DEF View, IInv, TypeOK, Transaction

-----------------------------------------------------------------------------
(* EntryTable is implemented *)

\* The rows that o's transaction has in the new table, or in its place.
Carries(o) ==
    LET t == txn.tables
        pc == opener[o].pc
    IN /\ pc \in Moving => t.side = kept
       /\ pc \in {"index", "commit"} => t.rows = kept /\ t.side = None

\* Readers find exactly the rows that count; what an interrupted opening has left of a
\* new table is empty, as its rows went with the transaction.
RInv == /\ db.rows = kept /\ db.side \in {None, {}}
        /\ \A o \in Openers : Holds(o) => Carries(o)

\* A statement outside a transaction leaves the rows alone.
LEMMA DirectStatement ==
  ASSUME IInv, RInv, NEW o \in Openers, NEW tables, NEW next, txn = None, opener[o].pc \notin Dml,
         Execute(o, tables, next), tables.rows = db.rows, tables.side \in {None, {}}
  PROVE  RInv' /\ UNCHANGED <<db.rows, opened>>
  <1>1. db' = tables /\ txn' = None /\ UNCHANGED <<opened, kept>>
    BY DEF Execute
  <1>2. \A x \in Openers : ~Holds(x)'
    BY <1>1 DEF Holds
  <1>3. QED
    BY <1>1, <1>2 DEF RInv

\* One inside it carries the rows on.
LEMMA CarriedOn ==
  ASSUME IInv, RInv, NEW o \in Openers, NEW tables, NEW next, txn = None \/ Holds(o),
         Holds(o) \/ opener[o].pc \in Dml, Execute(o, tables, next),
         next.pc \in Moving => tables.side = kept,
         next.pc \in {"index", "commit"} => tables.rows = kept /\ tables.side = None
  PROVE  RInv' /\ UNCHANGED <<db.rows, opened>>
  <1>1. db' = db /\ txn' = [by |-> o, tables |-> tables] /\ opener' = [opener EXCEPT ![o] = next]
        /\ UNCHANGED <<opened, kept>>
    BY DEF Execute, Holds
  <1>2. opener'[o] = next /\ txn'.tables = tables
    BY <1>1 DEF IInv, TypeOK
  <1>3. \A x \in Openers : Holds(x)' => x = o
    BY <1>1 DEF Holds
  <1>4. Carries(o)'
    BY <1>1, <1>2 DEF Carries
  <1>5. QED
    BY <1>1, <1>3, <1>4 DEF RInv

\* Where no statement is executed, whoever has a transaction stays where it is.
LEMMA NoStatementRuns ==
  ASSUME RInv, UNCHANGED <<db, kept, opened>>, txn' = txn \/ txn' = None,
         \A x \in Openers : Holds(x) /\ txn' = txn => opener'[x].pc = opener[x].pc
  PROVE  RInv' /\ UNCHANGED <<db.rows, opened>>
  <1>1. \A x \in Openers : Holds(x)' => Holds(x) /\ txn' = txn
    BY DEF Holds
  <1>2. \A x \in Openers : Holds(x)' => Carries(x)'
    BY <1>1 DEF RInv, Carries
  <1>3. QED
    BY <1>2 DEF RInv

\* The statements before the rows are moved.
LEMMA RowsStand ==
  ASSUME IInv, RInv, NEW o \in Openers,
         CreateMain(o) \/ AddColumn(o) \/ DropSide(o) \/ CreateSide(o)
  PROVE  RInv' /\ UNCHANGED <<db.rows, opened>>
  <1>1. /\ txn = None /\ View = db /\ opener[o].pc \notin Dml /\ db \in Tables
    BY WhereStatementsRun DEF CreateMain, AddColumn, DropSide, CreateSide, View, At, Dml, IInv, TypeOK
  <1>2. CASE CreateMain(o)
    <2> DEFINE tables == IF View.main THEN View
                         ELSE [View EXCEPT !.main = TRUE, !.cols = FreshColumns, !.wide = TRUE]
    <2>1. tables.rows = db.rows /\ tables.side = db.side
      BY <1>1 DEF Tables
    <2>2. Execute(o, tables, Then(o, "columns"))
      BY <1>2 DEF CreateMain
    <2> HIDE DEF tables
    <2>3. QED
      BY <1>1, <2>1, <2>2, DirectStatement DEF RInv
  <1>3. CASE AddColumn(o)
    <2> DEFINE i == opener[o].column
               tables == [View EXCEPT !.cols = @ \cup {Columns[i]}]
    <2>1. tables.rows = db.rows /\ tables.side = db.side
      BY <1>1 DEF Tables
    <2>2. Execute(o, tables, [opener[o] EXCEPT !.column = i + 1])
      BY <1>3 DEF AddColumn
    <2> HIDE DEF tables
    <2>3. QED
      BY <1>1, <2>1, <2>2, DirectStatement DEF RInv
  <1>4. ASSUME NEW side \in {None, {}}, NEW to, Execute(o, [View EXCEPT !.side = side], Then(o, to))
        PROVE  RInv' /\ UNCHANGED <<db.rows, opened>>
    <2> DEFINE tables == [View EXCEPT !.side = side]
    <2>1. tables.rows = db.rows /\ tables.side = side
      BY <1>1 DEF Tables
    <2>2. Execute(o, tables, Then(o, to))
      BY <1>4
    <2> HIDE DEF tables
    <2>3. QED
      BY <1>1, <1>4, <2>1, <2>2, DirectStatement
  <1>5. QED
    BY <1>2, <1>3, <1>4 DEF DropSide, CreateSide

\* The move of the rows, and the index.
LEMMA RowsMove ==
  ASSUME IInv, RInv, NEW o \in Openers,
         CopyRows(o) \/ DropMain(o) \/ RenameSide(o) \/ CreateIndex(o)
  PROVE  RInv' /\ UNCHANGED <<db.rows, opened>>
  <1>1. opener[o] \in Opener
    BY DEF IInv, TypeOK
  <1>2. \A pc \in Steps : Then(o, pc).pc = pc
    BY <1>1 DEF Then, Opener
  <1>3. CASE CopyRows(o)
    <2> DEFINE tables == [View EXCEPT !.side = @ \cup View.rows]
    <2>1. txn = None /\ View = db /\ opener[o].pc \in Dml /\ db \in Tables /\ db.side # None
      BY <1>3, WhereStatementsRun DEF CopyRows, View, At, Dml, IInv, TypeOK
    <2>2. tables.side = kept
      BY <2>1 DEF Tables, RInv
    <2>3. Execute(o, tables, Then(o, "drop_main"))
      BY <1>3 DEF CopyRows
    <2>4. Then(o, "drop_main").pc = "drop_main"
      BY <1>2 DEF Steps
    <2> HIDE DEF tables
    <2>5. QED
      BY <2>1, <2>2, <2>3, <2>4, CarriedOn
  <1>4. CASE DropMain(o)
    <2> DEFINE tables == [View EXCEPT !.main = FALSE, !.rows = {}, !.unique = FALSE]
    <2>1. Holds(o) /\ View = txn.tables /\ opener[o].pc = "drop_main"
      BY <1>4, WhereStatementsRun DEF DropMain, View, At, Holds, Moving
    <2>2. View \in Tables
      BY <2>1 DEF IInv, TypeOK, Transaction, Holds
    <2>3. tables.side = kept
      BY <2>1, <2>2 DEF Tables, RInv, Carries, Moving
    <2>4. Execute(o, tables, Then(o, "rename"))
      BY <1>4 DEF DropMain
    <2>5. Then(o, "rename").pc = "rename"
      BY <1>2 DEF Steps
    <2> HIDE DEF tables
    <2>6. QED
      BY <2>1, <2>3, <2>4, <2>5, CarriedOn
  <1>5. CASE RenameSide(o)
    <2> DEFINE tables == [View EXCEPT !.main = TRUE, !.cols = AllColumns, !.rows = View.side,
                                      !.wide = TRUE, !.side = None]
    <2>1. Holds(o) /\ View = txn.tables /\ opener[o].pc = "rename"
      BY <1>5, WhereStatementsRun DEF RenameSide, View, At, Holds, Moving
    <2>2. View \in Tables
      BY <2>1 DEF IInv, TypeOK, Transaction, Holds
    <2>3. tables.rows = kept /\ tables.side = None
      BY <2>1, <2>2 DEF Tables, RInv, Carries, Moving
    <2>4. Execute(o, tables, Then(o, "index"))
      BY <1>5 DEF RenameSide
    <2>5. Then(o, "index").pc = "index"
      BY <1>2 DEF Steps
    <2> HIDE DEF tables
    <2>6. QED
      BY <2>1, <2>3, <2>4, <2>5, CarriedOn DEF Moving
  <1>6. CASE CreateIndex(o)
    <2> DEFINE tables == [View EXCEPT !.unique = TRUE]
    <2>1. (Holds(o) \/ txn = None) /\ opener[o].pc = "index"
      BY <1>6, WhereStatementsRun DEF CreateIndex, At
    <2>2. View \in Tables
      BY <2>1 DEF View, IInv, TypeOK, Transaction, Holds
    <2>3. tables.rows = View.rows /\ tables.side = View.side
      BY <2>2 DEF Tables
    <2>4. Execute(o, tables, Then(o, "commit"))
      BY <1>6 DEF CreateIndex
    <2>5. Then(o, "commit").pc = "commit"
      BY <1>2 DEF Steps
    <2> HIDE DEF tables
    <2>6. CASE Holds(o)
      <3>1. tables.rows = kept /\ tables.side = None
        BY <2>1, <2>3, <2>6 DEF View, Holds, RInv, Carries
      <3>2. QED
        BY <2>4, <2>5, <2>6, <3>1, CarriedOn DEF Moving
    <2>7. CASE txn = None
      <3>1. tables.rows = db.rows /\ tables.side \in {None, {}}
        BY <2>3, <2>7 DEF View, RInv
      <3>2. opener[o].pc \notin Dml
        BY <2>1 DEF Dml
      <3>3. QED
        BY <2>4, <2>7, <3>1, <3>2, DirectStatement
    <2>8. QED
      BY <2>1, <2>6, <2>7
  <1>7. QED
    BY <1>3, <1>4, <1>5, <1>6

\* What is committed in the end are the rows of before.
LEMMA CommitShowsTheRows ==
  ASSUME IInv, RInv, NEW o \in Openers, Commit(o)
  PROVE  RInv' /\ Table!Serve
  <1>1. opener[o].pc = "commit" /\ opened' = TRUE /\ kept' = kept
    BY DEF Commit
  <1>a. ASSUME db'.rows = db.rows PROVE ~Table!Clashes(db.rows)
    <2>1. opened' /\ ~Clashes(db'.rows)
      BY <1>1, CommitStep DEF IInv, OpenedIsCurrent, IndexIsTrue, Clashes
    <2>2. QED
      BY <1>a, <2>1 DEF Clashes, Table!Clashes
  <1>2. CASE Holds(o)
    <2>1. db' = txn.tables /\ txn' = None
      BY <1>2 DEF Commit, Holds
    <2>2. txn.tables.rows = kept /\ txn.tables.side = None
      BY <1>1, <1>2 DEF RInv, Carries
    <2>3. \A x \in Openers : ~Holds(x)'
      BY <2>1 DEF Holds
    <2>4. RInv' /\ db'.rows = db.rows
      BY <1>1, <2>1, <2>2, <2>3 DEF RInv
    <2>5. QED
      BY <1>1, <1>a, <2>4 DEF Table!Serve
  <1>3. CASE ~Holds(o)
    <2>1. db' = db /\ txn' = txn
      BY <1>3 DEF Commit, Holds
    <2>2. \A x \in Openers : x # o => opener'[x].pc = opener[x].pc
      BY DEF Commit, IInv, TypeOK
    <2>3. \A x \in Openers : Holds(x)' => Holds(x) /\ Carries(x)'
      BY <1>1, <1>3, <2>1, <2>2 DEF Holds, RInv, Carries
    <2>4. RInv'
      BY <1>1, <2>1, <2>3 DEF RInv
    <2>5. QED
      BY <1>1, <1>a, <2>1, <2>4 DEF Table!Serve
  <1>4. QED
    BY <1>2, <1>3

\* A row is accepted as the abstract table accepts it.
LEMMA InsertAccepts ==
  ASSUME IInv, RInv, NEW row \in Row, Insert(row)
  PROVE  RInv' /\ (Table!Accept(row) \/ UNCHANGED <<db.rows, opened>>)
  <1>1. opened /\ txn = None /\ db.unique /\ db \in Tables /\ UNCHANGED <<txn, opener, opened>>
    BY DEF Insert, IInv, TypeOK, OpenedIsCurrent
  <1>2. \A x \in Openers : ~Holds(x)'
    BY <1>1 DEF Holds
  <1>3. CASE UNCHANGED <<db, kept>>
    BY <1>1, <1>2, <1>3 DEF RInv
  <1>4. CASE /\ db' = [db EXCEPT !.rows = @ \cup {row}] /\ kept' = kept \cup {row}
             /\ ~Clashes(db.rows \cup {row})
    <2>1. db'.rows = db.rows \cup {row} /\ db'.side = db.side
      BY <1>1, <1>4 DEF Tables
    <2>2. RInv'
      BY <1>2, <1>4, <2>1 DEF RInv
    <2>3. ~Table!Clashes(db.rows \cup {row})
      BY <1>4 DEF Clashes, Table!Clashes
    <2>4. QED
      BY <1>1, <2>1, <2>2, <2>3 DEF Table!Accept
  <1>5. QED
    BY <1>1, <1>3, <1>4 DEF Insert

\* Every step of an opening, of a writer or of the container is one of the table or
\* shows nothing of itself.
LEMMA TableStep == IInv /\ RInv /\ [Next]_vars => RInv' /\ [Table!Next]_(Table!vars)
  <1> SUFFICES ASSUME IInv, RInv, [Next]_vars PROVE RInv' /\ [Table!Next]_(Table!vars)
    OBVIOUS
  <1>1. CASE Crash
    BY <1>1, NoStatementRuns DEF Crash, Holds, RInv, Table!vars
  <1>2. ASSUME NEW o \in Openers, Opening(o) PROVE RInv' /\ [Table!Next]_(Table!vars)
    <2>1. CASE CreateMain(o) \/ AddColumn(o) \/ DropSide(o) \/ CreateSide(o)
      BY <2>1, RowsStand DEF Table!vars
    <2>2. CASE CopyRows(o) \/ DropMain(o) \/ RenameSide(o) \/ CreateIndex(o)
      BY <2>2, RowsMove DEF Table!vars
    <2>3. CASE Commit(o)
      BY <2>3, CommitShowsTheRows DEF Table!Next
    <2>4. CASE Open(o) \/ CheckKey(o)
      <3>1. ~Holds(o)
        BY <2>4 DEF IInv, OpenerInv, MovedSoFar, Moving, Open, Active, CheckKey
      <3>2. UNCHANGED <<db, txn, kept, opened>>
        BY <2>4 DEF Open, CheckKey
      <3>3. \A x \in Openers : x # o => opener'[x].pc = opener[x].pc
        <4>1. CASE CheckKey(o)
          BY <4>1 DEF CheckKey, IInv, TypeOK
        <4>2. CASE Open(o)
          <5>1. \A x \in Openers : [opener[x] EXCEPT !.alone = FALSE].pc = opener[x].pc
            BY DEF IInv, TypeOK, Opener
          <5>2. QED
            BY <4>2, <5>1 DEF Open
        <4>3. QED
          BY <2>4, <4>1, <4>2
      <3>4. QED
        BY <3>1, <3>2, <3>3, NoStatementRuns DEF Table!vars
    <2>5. CASE Raise(o)
      <3>1. UNCHANGED <<db, kept, opened>> /\ txn' = IF Holds(o) THEN None ELSE txn
        BY <2>5 DEF Raise, Holds
      <3>2. \A x \in Openers : x # o => opener'[x].pc = opener[x].pc
        BY <2>5 DEF Raise, IInv, TypeOK
      <3>3. \A x \in Openers : Holds(x) /\ txn' = txn => x # o
        BY <3>1 DEF Holds
      <3>4. QED
        BY <3>1, <3>2, <3>3, NoStatementRuns DEF Table!vars
    <2>6. QED
      BY <1>2, <2>1, <2>2, <2>3, <2>4, <2>5 DEF Opening
  <1>3. ASSUME NEW k \in Keys, NEW id \in Ids, Insert([id |-> id, key |-> k])
        PROVE  RInv' /\ [Table!Next]_(Table!vars)
    <2>1. [id |-> id, key |-> k] \in Row
      BY DEF Row
    <2>2. QED
      BY <1>3, <2>1, InsertAccepts DEF Table!Next, Table!vars
  <1>4. CASE UNCHANGED vars
    BY <1>4, NoStatementRuns DEF vars, Table!vars
  <1>5. QED
    BY <1>1, <1>2, <1>3, <1>4 DEF Next

\* At first the rows are those that an earlier version has left.
LEMMA RowsAtFirst == Init => RInv /\ db.rows \subseteq Row
  <1> SUFFICES ASSUME Init PROVE RInv /\ db.rows \subseteq Row
    OBVIOUS
  <1>1. IInv /\ txn = None /\ db.rows = kept
    BY InvInit DEF Init
  <1>2. Empty.side = None /\ \A n, rows : Old(n, rows).side = None
    BY DEF Empty, Old
  <1>3. \A rows : Widened(rows).side = None
    BY DEF Widened, Old, Empty
  <1>4. db.side = None
    BY <1>2, <1>3 DEF Init
  <1>5. db.rows \in SUBSET Row
    BY <1>1 DEF IInv, TypeOK, Tables
  <1>6. QED
    BY <1>1, <1>4, <1>5 DEF RInv, Holds

\* The database keeps the promise of EntryTable: the rows that readers find are those of
\* before and those accepted since, at every moment of every opening (_init_schema).
THEOREM TableIsImplemented == Spec => ImplementsTable
  <1>1. Init => RInv /\ Table!Init
    BY RowsAtFirst DEF Table!Init, Init
  <1>2. IInv /\ RInv /\ [Next]_vars => RInv' /\ [Table!Next]_(Table!vars)
    BY TableStep
  <1>3. QED
    BY <1>1, <1>2, Invariance, PTL DEF Spec, ImplementsTable, Table!Spec

-----------------------------------------------------------------------------
(* An opening that meets no other one succeeds *)

\* What an opening that is alone finds at the step where it stands.
LoneSoFar(o) ==
    LET pc == opener[o].pc
    IN /\ pc = "create_side" => View.side = None
       /\ pc = "copy" => View.side = {}
       /\ pc = "drop_main" => View.main /\ ~Clashes(View.side)
       /\ pc = "rename" => ~View.main /\ ~Clashes(View.side)
       /\ pc = "index" => View.main /\ ~Clashes(View.rows)

\* No committed rows clash, and whoever is alone has failed at nothing.
LInv == /\ ~Clashes(db.rows)
        /\ \A o \in Openers :
              /\ opener[o].pc = "failed" => ~opener[o].alone
              /\ Active(o) /\ opener[o].alone =>
                    LoneSoFar(o) /\ \A x \in Openers : x # o => ~Active(x)

\* So it is at first, when an earlier version has left no rows that clash.
LEMMA LInvInit == Init /\ ~Clashes(db.rows) => LInv
  BY DEF LInv, Init, Active

\* An opening that moves leaves the invariant of the others, none of which is alone.
LEMMA LoneMove ==
  ASSUME LInv, NEW o \in Openers, Active(o), ~Clashes(db.rows)',
         \A x \in Openers : x # o => opener'[x] = opener[x],
         opener'[o].alone = opener[o].alone, opener'[o].pc = "failed" => ~opener[o].alone,
         opener[o].alone /\ Active(o)' => LoneSoFar(o)'
  PROVE  LInv'
  <1>1. ASSUME NEW x \in Openers
        PROVE  (opener[x].pc = "failed" => ~opener[x].alone)'
    BY DEF LInv
  <1>2. ASSUME NEW x \in Openers, (Active(x) /\ opener[x].alone)'
        PROVE  (LoneSoFar(x) /\ \A y \in Openers : y # x => ~Active(y))'
    <2>1. CASE x # o
      <3>1. Active(x) /\ opener[x].alone
        BY <1>2, <2>1 DEF Active
      <3>2. QED
        BY <2>1, <3>1 DEF LInv
    <2>2. CASE x = o
      <3>1. \A y \in Openers : y # o => ~Active(y)
        BY <1>2, <2>2 DEF LInv
      <3>2. (\A y \in Openers : y # o => ~Active(y))'
        BY <3>1 DEF Active
      <3>3. QED
        BY <1>2, <2>2, <3>2
    <2>3. QED
      BY <2>1, <2>2
  <1>3. QED
    BY <1>1, <1>2 DEF LInv

\* An opening that is alone may write: only one that is active holds the lock.
LEMMA LoneMayWrite ==
  ASSUME IInv, LInv, NEW o \in Openers, Active(o), opener[o].alone
  PROVE  MayWrite(o) /\ LoneSoFar(o)
  <1>1. LoneSoFar(o) /\ \A x \in Openers : x # o => ~Active(x)
    BY DEF LInv
  <1>2. \A x \in Openers : Holds(x) => Active(x)
    BY DEF IInv, OpenerInv, MovedSoFar, Moving, Active
  <1>3. txn # None => txn.by \in Openers
    BY DEF IInv, TypeOK, Transaction
  <1>4. QED
    BY <1>1, <1>2, <1>3 DEF MayWrite, Holds

\* After a statement the opening sees its result.
LEMMA LoneStatement ==
  ASSUME IInv, LInv, NEW o \in Openers, NEW pc, NEW tables \in Tables, NEW next \in Opener,
         At(o, pc), pc \notin {"idle", "done", "failed"}, Execute(o, tables, next),
         next.alone = opener[o].alone, next.pc # "failed", txn = None => tables.rows = db.rows,
         opener[o].alone =>
            /\ next.pc = "create_side" => tables.side = None
            /\ next.pc = "copy" => tables.side = {}
            /\ next.pc = "drop_main" => tables.main /\ ~Clashes(tables.side)
            /\ next.pc = "rename" => ~tables.main /\ ~Clashes(tables.side)
            /\ next.pc = "index" => tables.main /\ ~Clashes(tables.rows)
  PROVE  LInv'
  <1>1. opener' = [opener EXCEPT ![o] = next] /\ opener \in [Openers -> Opener] /\ Active(o)
    BY DEF Execute, IInv, TypeOK, At, Active
  <1>2. opener'[o] = next /\ \A x \in Openers : x # o => opener'[x] = opener[x]
    BY <1>1
  <1>3. View' = tables /\ (db' = tables \/ db' = db) /\ (db' = tables => tables.rows = db.rows)
    <2>1. CASE txn = None /\ opener[o].pc \notin Dml
      BY <2>1 DEF Execute, View
    <2>2. CASE ~(txn = None /\ opener[o].pc \notin Dml)
      <3>1. txn' = [by |-> o, tables |-> tables] /\ db' = db
        BY <2>2 DEF Execute
      <3>2. txn' \in Transaction /\ txn' # None
        BY <3>1, TransactionAssumption DEF Transaction
      <3>3. QED
        BY <3>1, <3>2 DEF View
    <2>3. QED
      BY <2>1, <2>2
  <1>4. ~Clashes(db.rows)'
    <2>1. db'.rows = db.rows
      BY <1>3
    <2>2. QED
      BY <2>1 DEF LInv, Clashes
  <1>5. opener[o].alone => LoneSoFar(o)'
    BY <1>2, <1>3 DEF LoneSoFar, Clashes
  <1>6. QED
    BY <1>1, <1>2, <1>4, <1>5, LoneMove

\* The statements keep it.
LEMMA LoneStatements ==
  ASSUME IInv, LInv, NEW o \in Openers,
         \/ CreateMain(o) \/ AddColumn(o) \/ DropSide(o) \/ CreateSide(o)
         \/ CopyRows(o) \/ DropMain(o) \/ RenameSide(o) \/ CreateIndex(o)
  PROVE  LInv'
  <1> DEFINE lone == Active(o) /\ opener[o].alone
  <1>1. View \in Tables /\ (txn = None => View.rows = db.rows)
    BY ViewIsTables DEF View
  <1>2. opener[o] \in Opener
    BY DEF IInv, TypeOK
  <1>3. ASSUME NEW pc \in Steps
        PROVE  /\ Then(o, pc) \in Opener /\ Then(o, pc).pc = pc
               /\ Then(o, pc).alone = opener[o].alone
    BY <1>2 DEF Then, Opener
  <1>4. CASE CreateMain(o)
    <2> DEFINE tables == IF View.main THEN View
                         ELSE [View EXCEPT !.main = TRUE, !.cols = FreshColumns, !.wide = TRUE]
    <2>1. tables \in Tables /\ tables.rows = View.rows
      BY <1>1, MigrationAssumption DEF Tables
    <2>2. QED
      BY <1>1, <1>3, <1>4, <2>1, LoneStatement DEF CreateMain, Steps
  <1>5. CASE AddColumn(o)
    <2> DEFINE i == opener[o].column
               tables == [View EXCEPT !.cols = @ \cup {Columns[i]}]
               next == [opener[o] EXCEPT !.column = i + 1]
    <2>1. i \in 1..Len(Columns) /\ Columns[i] \in AllColumns
      BY <1>2, <1>5, ColumnsAreNumbered DEF Opener, AddColumn
    <2>2. tables \in Tables /\ tables.rows = View.rows
      BY <1>1, <2>1 DEF Tables
    <2>3. next \in Opener /\ next.pc = "columns" /\ next.alone = opener[o].alone
      BY <1>2, <1>5, <2>1, ColumnsAreNumbered DEF Opener, AddColumn, At
    <2>4. QED
      BY <1>1, <1>5, <2>2, <2>3, LoneStatement DEF AddColumn
  <1>6. CASE DropSide(o)
    <2> DEFINE tables == [View EXCEPT !.side = None]
    <2>1. tables \in Tables /\ tables.rows = View.rows /\ tables.side = None
      BY <1>1 DEF Tables
    <2>2. QED
      BY <1>1, <1>3, <1>6, <2>1, LoneStatement DEF DropSide, Steps
  <1>7. CASE CreateSide(o)
    <2> DEFINE tables == [View EXCEPT !.side = {}]
    <2>1. tables \in Tables /\ tables.rows = View.rows /\ tables.side = {}
      BY <1>1 DEF Tables
    <2>2. QED
      BY <1>1, <1>3, <1>7, <2>1, LoneStatement DEF CreateSide, Steps
  <1>8. CASE CopyRows(o)
    <2> DEFINE tables == [View EXCEPT !.side = @ \cup View.rows]
    <2>1. txn = None /\ View = db /\ opener[o].pc = "copy"
      BY <1>8, WhereStatementsRun DEF CopyRows, View, At
    <2>2. View.side # None /\ View.side \in SUBSET Row /\ View.rows \in SUBSET Row
      BY <1>1, <1>8 DEF CopyRows, Tables
    <2>3. tables \in Tables /\ tables.rows = View.rows /\ tables.main = View.main
          /\ tables.side = View.side \cup View.rows
      BY <1>1, <2>2 DEF Tables
    <2>4. View.main
      BY <2>1 DEF IInv, OpenerInv, DoneSoFar, Past
    <2>5. opener[o].alone => ~Clashes(tables.side)
      <3>1. opener[o].alone => View.side = {}
        BY <2>1, LoneMayWrite DEF LoneSoFar, Active
      <3>2. opener[o].alone => tables.side = db.rows
        BY <2>1, <2>3, <3>1
      <3>3. QED
        BY <3>2 DEF LInv
    <2>6. QED
      BY <1>1, <1>3, <1>8, <2>3, <2>4, <2>5, LoneStatement DEF CopyRows, Steps
  <1>9. CASE DropMain(o)
    <2> DEFINE tables == [View EXCEPT !.main = FALSE, !.rows = {}, !.unique = FALSE]
    <2>1. txn # None
      BY <1>9, WhereStatementsRun DEF DropMain, Moving, Holds
    <2>2. tables \in Tables /\ ~tables.main /\ tables.side = View.side
      BY <1>1 DEF Tables
    <2>3. opener[o].alone => ~Clashes(View.side)
      BY <1>9, LoneMayWrite DEF LoneSoFar, Active, DropMain, At
    <2>4. QED
      BY <1>3, <1>9, <2>1, <2>2, <2>3, LoneStatement DEF DropMain, Steps
  <1>10. CASE RenameSide(o)
    <2> DEFINE tables == [View EXCEPT !.main = TRUE, !.cols = AllColumns, !.rows = View.side,
                                      !.wide = TRUE, !.side = None]
    <2>1. txn # None
      BY <1>10, WhereStatementsRun DEF RenameSide, Moving, Holds
    <2>2. View.side \in SUBSET Row
      BY <1>1, <1>10 DEF RenameSide, Tables
    <2>3. tables \in Tables /\ tables.main /\ tables.rows = View.side
      BY <1>1, <2>2 DEF Tables
    <2>4. opener[o].alone => ~Clashes(View.side)
      BY <1>10, LoneMayWrite DEF LoneSoFar, Active, RenameSide, At
    <2>5. QED
      BY <1>3, <1>10, <2>1, <2>3, <2>4, LoneStatement DEF RenameSide, Steps
  <1>11. CASE CreateIndex(o)
    <2> DEFINE tables == [View EXCEPT !.unique = TRUE]
    <2>1. tables \in Tables /\ tables.rows = View.rows
      BY <1>1 DEF Tables
    <2>2. QED
      BY <1>1, <1>3, <1>11, <2>1, LoneStatement DEF CreateIndex, Steps
  <1>12. QED
    BY <1>4, <1>5, <1>6, <1>7, <1>8, <1>9, <1>10, <1>11

\* So do the steps that are not statements: a statement that is refused is never one
\* of an opening that is alone.
LEMMA LoneStep == IInv /\ LInv /\ [Next]_vars => LInv'
  <1> SUFFICES ASSUME IInv, LInv, [Next]_vars PROVE LInv'
    OBVIOUS
  <1>1. CASE Crash
    BY <1>1 DEF Crash, LInv, Active, Clashes
  <1>2. ASSUME NEW o \in Openers, Open(o) PROVE LInv'
    <2>1. db' = db /\ opener'[o].pc = "create" /\ ~Active(o)
          /\ (opener'[o].alone <=> \A x \in Openers : x # o => ~Active(x))
      BY <1>2 DEF Open
    <2>2. ASSUME NEW x \in Openers, x # o
          PROVE  /\ opener'[x].pc = opener[x].pc
                 /\ Active(x) => ~opener'[x].alone
                 /\ ~Active(x) => opener'[x] = opener[x]
      <3>1. opener'[x] = IF Active(x) THEN [opener[x] EXCEPT !.alone = FALSE] ELSE opener[x]
        BY <1>2, <2>2 DEF Open
      <3>2. opener[x] \in Opener
        BY DEF IInv, TypeOK
      <3>3. [opener[x] EXCEPT !.alone = FALSE].pc = opener[x].pc
            /\ [opener[x] EXCEPT !.alone = FALSE].alone = FALSE
        BY <3>2 DEF Opener
      <3>4. QED
        BY <3>1, <3>3
    <2>3. ASSUME NEW x \in Openers PROVE (opener[x].pc = "failed" => ~opener[x].alone)'
      BY <2>1, <2>2 DEF LInv, Active
    <2>4. ASSUME NEW x \in Openers, (Active(x) /\ opener[x].alone)'
          PROVE  (LoneSoFar(x) /\ \A y \in Openers : y # x => ~Active(y))'
      <3>1. x = o
        BY <2>2, <2>4 DEF Active
      <3>2. LoneSoFar(x)'
        BY <2>1, <3>1 DEF LoneSoFar
      <3>3. QED
        BY <2>1, <2>2, <2>4, <3>1, <3>2 DEF Active
    <2>5. (~Clashes(db.rows))'
      BY <2>1 DEF LInv, Clashes
    <2>6. QED
      BY <2>3, <2>4, <2>5 DEF LInv
  <1>3. ASSUME NEW o \in Openers, CheckKey(o) PROVE LInv'
    <2>1. Active(o) /\ db' = db /\ View' = View
      BY <1>3 DEF CheckKey, Active, View
    <2>2. /\ opener'[o].pc \in {"index", "drop_side"} /\ opener'[o].alone = opener[o].alone
          /\ \A x \in Openers : x # o => opener'[x] = opener[x]
      BY <1>3 DEF CheckKey, IInv, TypeOK, Opener
    <2>3. (txn = None /\ db.main) \/ ~opener[o].alone
      <3>1. ~Holds(o) /\ db.main
        BY <1>3 DEF CheckKey, IInv, OpenerInv, MovedSoFar, Moving, DoneSoFar
      <3>2. QED
        BY <2>1, <3>1, LoneMayWrite DEF MayWrite, Holds
    <2>4. (~Clashes(db.rows))'
      BY <2>1 DEF LInv, Clashes
    <2>5. opener[o].alone => LoneSoFar(o)'
      <3>1. opener[o].alone => View.main /\ ~Clashes(View.rows)
        BY <2>3 DEF LInv, View
      <3>2. QED
        BY <2>1, <2>2, <3>1 DEF LoneSoFar, Clashes
    <2>6. QED
      BY <2>1, <2>2, <2>4, <2>5, LoneMove
  <1>4. ASSUME NEW o \in Openers, Commit(o) PROVE LInv'
    <2>1. Active(o) /\ opener'[o].pc = "done" /\ opener'[o].alone = opener[o].alone
          /\ \A x \in Openers : x # o => opener'[x] = opener[x]
      BY <1>4 DEF Commit, IInv, TypeOK, Opener, Active
    <2>2. (~Clashes(db.rows))'
      BY <1>4, CommitStep DEF IInv, OpenedIsCurrent, IndexIsTrue, Commit
    <2>3. ~Active(o)'
      BY <2>1 DEF Active
    <2>4. QED
      BY <2>1, <2>2, <2>3, LoneMove
  <1>5. ASSUME NEW o \in Openers, Raise(o) PROVE LInv'
    <2>1. Active(o) /\ opener'[o].pc = "failed" /\ opener'[o].alone = opener[o].alone /\ db' = db
          /\ \A x \in Openers : x # o => opener'[x] = opener[x]
      BY <1>5 DEF Raise, Refused, At, IInv, TypeOK, Opener, Active
    <2>2. ~opener[o].alone
      <3> SUFFICES ASSUME opener[o].alone PROVE FALSE
        OBVIOUS
      <3>1. MayWrite(o) /\ LoneSoFar(o)
        BY <2>1, LoneMayWrite
      <3>2. opener[o].pc = "copy" => View.side # None
        BY <3>1, MigrationAssumption DEF LoneSoFar
      <3>3. opener[o].pc = "rename" => View.side # None
        BY <3>1, WhereStatementsRun DEF IInv, OpenerInv, MovedSoFar, Moving, Holds, View
      <3>4. QED
        BY <1>5, <3>1, <3>2, <3>3 DEF Raise, Refused, At, LoneSoFar
    <2>3. (~Clashes(db.rows))'
      BY <2>1 DEF LInv, Clashes
    <2>4. ~Active(o)'
      BY <2>1 DEF Active
    <2>5. QED
      BY <2>1, <2>2, <2>3, <2>4, LoneMove
  <1>6. ASSUME NEW k \in Keys, NEW id \in Ids, Insert([id |-> id, key |-> k]) PROVE LInv'
    <2>1. [id |-> id, key |-> k] \in Row
      BY DEF Row
    <2>2. txn = None /\ opener' = opener /\ txn' = txn /\ opened /\ opened'
      BY <1>6 DEF Insert
    <2>3. (~Clashes(db.rows))'
      BY <1>6, <2>1, <2>2, InsertStep DEF IInv, OpenedIsCurrent, IndexIsTrue
    <2>4. db'.main = db.main /\ db'.side = db.side /\ View = db /\ View' = db'
      <3>1. db \in Tables
        BY DEF IInv, TypeOK
      <3>2. QED
        BY <1>6, <2>2, <3>1 DEF Insert, View, Tables
    <2>5. \A o \in Openers : opener[o].pc \notin Moving
      BY <2>2 DEF IInv, OpenerInv, Holds
    <2>6. ASSUME NEW o \in Openers, Active(o), opener[o].alone PROVE LoneSoFar(o)'
      <3>1. LoneSoFar(o)
        BY <2>6 DEF LInv
      <3>2. (opener[o].pc = "index" => View.main /\ ~Clashes(View.rows))'
        BY <2>2, <2>3, <2>4, <3>1 DEF LoneSoFar, Clashes
      <3>3. QED
        BY <2>2, <2>4, <2>5, <3>1, <3>2 DEF LoneSoFar, Moving
    <2>7. QED
      BY <2>2, <2>3, <2>6 DEF LInv, Active
  <1>7. CASE UNCHANGED vars
    BY <1>7 DEF vars, LInv, LoneSoFar, Active, Clashes, View
  <1>8. QED
    BY <1>1, <1>2, <1>3, <1>4, <1>5, <1>6, <1>7, LoneStatements DEF Next, Opening

\* Rows that clash go on clashing, as no row is ever taken away.
LEMMA ClashesStay == RInv /\ RInv' /\ [Next]_vars /\ Clashes(db.rows) => Clashes(db.rows)'
  <1> SUFFICES ASSUME RInv, RInv', [Next]_vars, Clashes(db.rows) PROVE Clashes(db'.rows)
    BY DEF Clashes
  <1>1. kept \subseteq kept'
    BY DEF Next, Opening, Open, CreateMain, AddColumn, CheckKey, DropSide, CreateSide, CopyRows,
           DropMain, RenameSide, CreateIndex, Commit, Raise, Execute, Crash, Insert, vars
  <1>2. db.rows \subseteq db'.rows
    BY <1>1 DEF RInv
  <1>3. QED
    BY <1>2 DEF Clashes

\* An opening that meets no other one succeeds, whatever interrupted openings have left
\* in the file (the DROP TABLE IF EXISTS, the existence checks and the unique index), and
\* fails only on a table with two rows of one entry.
THEOREM LoneOpeningsSucceed == Spec => []LoneOpeningSucceeds
  <1> DEFINE Inv == IInv /\ RInv /\ (Clashes(db.rows) \/ LInv)
  <1>1. Init => Inv
    BY InvInit, RowsAtFirst, LInvInit
  <1>2. Inv /\ [Next]_vars => Inv'
    BY InvStep, TableStep, ClashesStay, LoneStep
  <1>3. Inv => LoneOpeningSucceeds
    BY DEF LInv, LoneOpeningSucceeds
  <1>4. QED
    BY <1>1, <1>2, <1>3, PTL DEF Spec
=============================================================================
