--------------------- MODULE RecommendationLifecycleProofs ---------------------
(* Proofs about RecommendationLifecycle, for every value of its constants. *)
EXTENDS RecommendationLifecycle, TLAPS

\* LastOf and FirstOf pick members of the set they are given.
LEMMA LastOfIsMember == \A S : \A b \in LastOf(S) : b \in S
  BY DEF LastOf
\* The same of FirstOf.
LEMMA FirstOfIsMember == \A S : \A b \in FirstOf(S) : b \in S
  BY DEF FirstOf
\* A set of integers has at most one first element.
LEMMA FirstOfIsUnique ==
  ASSUME NEW S \in SUBSET Int, NEW a \in FirstOf(S), NEW b \in FirstOf(S)
  PROVE  a = b
  BY DEF FirstOf

\* The program starts with every variable in its type.
LEMMA TypeInit == Init => TypeOK
  <1> USE BarAssumption, ThreadAssumption
  <1> SUFFICES ASSUME Init PROVE TypeOK
    OBVIOUS
  <1>1. now \in Time /\ IdleRun \in RunState /\ IdleMonitor \in MonitorState
    BY DEF Init, Time, IdleRun, IdleMonitor, RunState, MonitorState
  <1>2. tape \in [Markets -> Seq(Quotes)]
    BY DEF Init
  <1>3. QED
    BY <1>1, <1>2 DEF Init, TypeOK

\* What the monitor finds for a row are events at times of the clock.
LEMMA EventsAreTyped ==
  ASSUME NEW w \in Watched, now \in Time
  PROVE  EventsFor(w) \subseteq Event
  <1> DEFINE e == w.entry
             bars == {b \in e.bar + 1 .. now : b <= e.bar + Reach}
             ends == StopBars(e, bars) \cup TargetBars(e, bars)
             open == {b \in bars : w.touched = None /\ \A x \in ends : b < x}
  <1>1. e \in Entry /\ e.bar \in Time
    BY DEF Watched, Entry
  <1>2. \A b \in bars : b - 1 \in Time
    BY <1>1, BarAssumption DEF Time
  <1>3. FirstOf(TouchBars(e, open)) \subseteq bars
    BY FirstOfIsMember DEF TouchBars
  <1>4. FirstOf(ends) \subseteq bars
    BY FirstOfIsMember DEF StopBars, TargetBars
  <1>5. ASSUME NEW k \in Kinds, NEW b \in bars PROVE [entry |-> e, kind |-> k, at |-> b - 1] \in Event
    BY <1>1, <1>2 DEF Event
  <1> HIDE DEF e, bars
  <1>6. QED
    BY <1>3, <1>4, <1>5 DEF EventsFor, Kinds, e, bars

\* The close of every closed bar is a number.
LEMMA ClosesAreNumbers ==
  ASSUME TypeOK, OnlyClosedBars, NEW m \in Markets, NEW b \in Time, b <= now
  PROVE  tape[m][b].close \in Int
  <1>1. b \in 1..Len(tape[m]) /\ tape[m] \in Seq(Quotes)
    BY BarAssumption DEF TypeOK, OnlyClosedBars, Time
  <1>2. tape[m][b] \in Quotes
    BY <1>1
  <1>3. QED
    BY <1>2, TrackAssumption

\* Whatever the evaluation concludes is a verdict, at the time of its run.
LEMMA VerdictsAreTyped ==
  ASSUME IInv, NEW t \in Threads, NEW p \in run[t].pending
  PROVE  Verdicts(p, run[t].now) \subseteq Outcome
  <1> DEFINE e == p.entry
             at == run[t].now
             priced == PricedBar(e.market, Deadline(e))
  <1>0. TypeOK /\ OnlyClosedBars
    BY DEF IInv
  <1>1. e \in Entry /\ at \in Time
    BY <1>0 DEF TypeOK, RunState, Pending
  <1>2. e.market \in Markets /\ e.track \in Tracks /\ e.bar \in Time
    BY <1>1 DEF Entry
  <1>3. Up[e.track] \in Int /\ -Down[e.track] \in Int
    BY <1>2, TrackAssumption
  <1>4. e.bar <= now
    BY <1>0, <1>1 DEF IInv, PendingIsUnjudged, OnlyClosedBars
  <1>5. EntryPrice(e) \in Int
    BY <1>0, <1>2, <1>4, ClosesAreNumbers DEF EntryPrice
  <1>6. ASSUME NEW b \in priced PROVE tape[e.market][b].close - EntryPrice(e) \in Int
    <2>1. b \in Time /\ b <= stored[e.market][ClosingFrame]
      BY LastOfIsMember DEF PricedBar, Closings
    <2>2. b <= now
      BY <1>0, <1>2, <2>1, BarAssumption DEF OnlyClosedBars, TypeOK, Time
    <2>3. tape[e.market][b].close \in Int
      BY <1>0, <1>2, <2>1, <2>2, ClosesAreNumbers
    <2>4. QED
      BY <1>5, <2>3
  <1>7. ASSUME NEW v \in Verdicts(p, at) PROVE v \in Outcome
    <2>1. CASE p.target # None
      <3>1. v = [reached |-> TRUE, ret |-> Up[e.track], at |-> at]
        BY <2>1 DEF Verdicts
      <3>2. QED
        BY <1>1, <1>3, <3>1 DEF Outcome
    <2>2. CASE p.target = None /\ p.stop # None
      <3>1. v = [reached |-> FALSE, ret |-> -Down[e.track], at |-> at]
        BY <2>2 DEF Verdicts
      <3>2. QED
        BY <1>1, <1>3, <3>1 DEF Outcome
    <2>3. CASE p.target = None /\ p.stop = None
      <3>1. PICK b \in priced :
              v = [reached |-> FALSE, ret |-> tape[e.market][b].close - EntryPrice(e), at |-> at]
        BY <2>3 DEF Verdicts
      <3>2. QED
        BY <1>1, <1>6, <3>1 DEF Outcome
    <2>4. QED
      BY <2>1, <2>2, <2>3
  <1>8. QED
    BY <1>7

\* A run recommends stored bars that it does not remember as announced.
LEMMA RecommendedAreEntries ==
  ASSUME NEW t \in Threads, TypeOK, OnlyClosedBars, Recommend(t)
  PROVE  \E F \in SUBSET Entry :
            /\ run' = [run EXCEPT ![t].pc = "save", ![t].fresh = F]
            /\ \A e \in F : e.bar <= now
            /\ \A e \in F : e \notin Announced(t)
  <1>1. PICK picks \in SUBSET {p \in Markets \X Tracks : stored[p[1]][EntryFrame[p[2]]] > 0} :
          run' = [run EXCEPT ![t].pc = "save",
                             ![t].fresh = {[market |-> p[1], track |-> p[2],
                                            bar |-> stored[p[1]][EntryFrame[p[2]]]] : p \in picks}
                                          \ Announced(t)]
    BY DEF Recommend
  <1>2. ASSUME NEW p \in picks
        PROVE  /\ [market |-> p[1], track |-> p[2], bar |-> stored[p[1]][EntryFrame[p[2]]]] \in Entry
               /\ stored[p[1]][EntryFrame[p[2]]] <= now
    BY BarAssumption DEF Entry, Time, TypeOK, OnlyClosedBars
  <1> DEFINE F == {[market |-> p[1], track |-> p[2],
                    bar |-> stored[p[1]][EntryFrame[p[2]]]] : p \in picks} \ Announced(t)
  <1>3. F \in SUBSET Entry /\ \A e \in F : e.bar <= now /\ e \notin Announced(t)
    BY <1>2
  <1>4. QED
    BY <1>1, <1>3

\* Every step keeps the types.
LEMMA TypeStep == IInv /\ [Next]_vars => TypeOK'
  <1> SUFFICES ASSUME IInv, [Next]_vars PROVE TypeOK'
    OBVIOUS
  <1> USE BarAssumption DEF TypeOK
  <1>0. TypeOK /\ OnlyClosedBars
    BY DEF IInv
  <1>1. IdleRun \in RunState /\ IdleMonitor \in MonitorState
    BY DEF Time, IdleRun, IdleMonitor, RunState, MonitorState
  <1>2. CASE Tick
    <2>1. now' \in Time
      BY <1>0, <1>2 DEF Tick, Time
    <2>2. tape' \in [Markets -> Seq(Quotes)]
      <3>1. PICK q \in [Markets -> Quotes] : tape' = [m \in Markets |-> Append(tape[m], q[m])]
        BY <1>2 DEF Tick
      <3>2. ASSUME NEW m \in Markets PROVE Append(tape[m], q[m]) \in Seq(Quotes)
        BY <1>0
      <3>3. QED
        BY <3>1, <3>2
    <2>3. QED
      BY <1>0, <2>1, <2>2, <1>2 DEF Tick, database, process, received
  <1>3. CASE Crash
    <2>1. run' \in [Threads -> RunState] /\ mon' \in MonitorState
      BY <1>1, <1>3 DEF Crash
    <2>2. faults' \in 0..MaxFaults
      BY <1>0, <1>3 DEF Crash
    <2>3. QED
      BY <1>0, <2>1, <2>2, <1>3 DEF Crash, exchange, database, received
  <1>4. CASE Restart
    BY <1>0, <1>4 DEF Restart, exchange, database, received
  <1>5. CASE MonitorStart
    <2> DEFINE W == {[entry |-> e, touched |-> rows[e].touched] :
                       e \in {x \in Entry : Monitorable(x)}}
    <2>1. ASSUME NEW e \in Entry, Monitorable(e)
          PROVE  [entry |-> e, touched |-> rows[e].touched] \in Watched
      BY <1>0, <2>1 DEF Watched, Exists, Monitorable, Row
    <2>2. W \in SUBSET Watched
      BY <2>1
    <2>3. mon' = [pc |-> "check", watch |-> W, marks |-> {}, raised |-> {}]
      BY <1>5 DEF MonitorStart, IdleMonitor
    <2> HIDE DEF W
    <2>4. mon' \in MonitorState
      BY <2>2, <2>3 DEF MonitorState
    <2>5. QED
      BY <1>0, <2>4, <1>5 DEF MonitorStart, exchange, database, received
  <1>6. CASE MonitorMark
    <2>1. PICK v \in mon.marks :
            /\ rows' = [rows EXCEPT ![v.entry][v.kind] = IF @ = None THEN v.at ELSE @]
            /\ mon' = [mon EXCEPT !.marks = @ \ {v}, !.raised = @ \cup {v}]
      BY <1>6 DEF MonitorMark
    <2>2. v \in Event
      BY <1>0 DEF MonitorState
    <2>3. mon' \in MonitorState
      <3>1. mon \in MonitorState
        BY <1>0
      <3>2. QED
        BY <2>1, <2>2, <3>1 DEF MonitorState
    <2>4. rows' \in [Entry -> Row \cup {None}]
      <3>1. v.entry \in Entry /\ v.kind \in Kinds /\ v.at \in Time
        BY <2>2 DEF Event
      <3>2. rows[v.entry] \in Row
        BY <1>0, <3>1 DEF IInv, MarksAreNew, Exists
      <3>3. [rows[v.entry] EXCEPT ![v.kind] = IF @ = None THEN v.at ELSE @] \in Row
        BY <3>1, <3>2 DEF Row, Kinds
      <3>4. QED
        BY <1>0, <2>1, <3>1, <3>3
    <2>5. QED
      BY <1>0, <2>3, <2>4, <1>6 DEF MonitorMark, exchange, received
  <1>7. CASE MonitorSend
    BY <1>0, <1>1, <1>7 DEF MonitorSend, exchange, database, Count
  <1>8. CASE MonitorRaises
    BY <1>0, <1>1, <1>8 DEF MonitorRaises, exchange, database, received
  <1>9. ASSUME NEW w \in mon.watch, MonitorFetch(w) PROVE TypeOK'
    <2>1. EventsFor(w) \subseteq Event
      BY <1>0, EventsAreTyped DEF MonitorState
    <2>2. mon' = [mon EXCEPT !.watch = @ \ {w}, !.marks = EventsFor(w)]
            \/ mon' = [mon EXCEPT !.watch = @ \ {w}]
      BY <1>9 DEF MonitorFetch
    <2>3. mon' \in MonitorState
      <3>1. mon \in MonitorState
        BY <1>0
      <3>2. QED
        BY <2>1, <2>2, <3>1 DEF MonitorState
    <2>4. QED
      BY <1>0, <2>3, <1>9 DEF MonitorFetch, exchange, database, received
  <1>10. ASSUME NEW t \in Threads, Start(t) PROVE TypeOK'
    <2>1. [IdleRun EXCEPT !.pc = "collect", !.now = now] \in RunState
      BY <1>0 DEF RunState, IdleRun
    <2>2. QED
      BY <1>0, <2>1, <1>10 DEF Start, exchange, database, received
  <1>11. ASSUME NEW t \in Threads, NEW m \in Markets, NEW f \in Frames, Collect(t, m, f)
         PROVE  TypeOK'
    <2>1. PICK newest \in LastOf({b \in Closings(f) : b <= now}) :
            stored' = [stored EXCEPT ![m][f] = newest]
      BY <1>11 DEF Collect
    <2>2. newest \in 0..MaxTime
      BY <2>1, LastOfIsMember DEF Closings, Time
    <2>3. QED
      BY <1>0, <2>1, <2>2, <1>11 DEF Collect, exchange, process, received
  <1>12. ASSUME NEW t \in Threads, Recommend(t) PROVE TypeOK'
    <2>1. PICK F \in SUBSET Entry : run' = [run EXCEPT ![t].pc = "save", ![t].fresh = F]
      BY <1>0, <1>12, RecommendedAreEntries
    <2>2. [run[t] EXCEPT !.pc = "save", !.fresh = F] \in RunState
      <3>1. run[t] \in RunState /\ F \subseteq Entry
        BY <1>0
      <3>2. QED
        BY <3>1 DEF RunState
    <2>3. run' \in [Threads -> RunState]
      BY <1>0, <2>1, <2>2
    <2>4. QED
      BY <1>0, <2>3, <1>12 DEF Recommend, exchange, database, received
  <1>13. ASSUME NEW t \in Threads, Save(t) PROVE TypeOK'
    <2>1. NewRow(t) \in Row
      BY <1>0 DEF NewRow, Row, RunState
    <2>2. [run[t] EXCEPT !.pc = "announce"] \in RunState
      <3>1. run[t] \in RunState
        BY <1>0
      <3>2. QED
        BY <3>1 DEF RunState
    <2>3. run' \in [Threads -> RunState]
      BY <1>0, <2>2, <1>13 DEF Save
    <2>4. rows' \in [Entry -> Row \cup {None}]
      BY <1>0, <2>1, <1>13 DEF Save
    <2>5. QED
      BY <1>0, <2>3, <2>4, <1>13 DEF Save, exchange, received
  <1>14. ASSUME NEW t \in Threads, Announce(t) PROVE TypeOK'
    <2>1. [run[t] EXCEPT !.pc = "list", !.fresh = {}] \in RunState
      <3>1. run[t] \in RunState
        BY <1>0
      <3>2. QED
        BY <3>1 DEF RunState
    <2>2. run' \in [Threads -> RunState]
      BY <1>0, <2>1, <1>14 DEF Announce
    <2>3. sent' \in [Entry -> 0..2]
      BY <1>0, <1>14 DEF Announce, Count
    <2>4. QED
      BY <1>0, <2>2, <2>3, <1>14 DEF Announce, exchange, database
  <1>15. ASSUME NEW t \in Threads, ListPending(t) PROVE TypeOK'
    <2> DEFINE P == {[entry |-> e, target |-> rows[e].target, stop |-> rows[e].stop] :
                       e \in Unevaluated}
    <2>1. ASSUME NEW e \in Unevaluated
          PROVE  [entry |-> e, target |-> rows[e].target, stop |-> rows[e].stop] \in Pending
      BY <1>0 DEF Unevaluated, Exists, Pending, Row
    <2>2. P \in SUBSET Pending
      BY <2>1
    <2>3. run' = [run EXCEPT ![t].pc = "evaluate", ![t].pending = P]
      BY <1>15 DEF ListPending
    <2> HIDE DEF P
    <2>4. [run[t] EXCEPT !.pc = "evaluate", !.pending = P] \in RunState
      <3>1. run[t] \in RunState
        BY <1>0
      <3>2. QED
        BY <2>2, <3>1 DEF RunState
    <2>5. run' \in [Threads -> RunState]
      BY <1>0, <2>3, <2>4
    <2>6. QED
      BY <1>0, <2>5, <1>15 DEF ListPending, exchange, database, received
  <1>16. ASSUME NEW t \in Threads, NEW p \in run[t].pending, Evaluate(t, p) PROVE TypeOK'
    <2>1. [run[t] EXCEPT !.pending = @ \ {p}] \in RunState
      <3>1. run[t] \in RunState
        BY <1>0
      <3>2. QED
        BY <3>1 DEF RunState
    <2>2. run' \in [Threads -> RunState]
      BY <1>0, <2>1, <1>16 DEF Evaluate
    <2>3. p.entry \in Entry /\ rows[p.entry] \in Row
      BY <1>0 DEF RunState, Pending, IInv, PendingIsUnjudged, Exists
    <2>4. ASSUME NEW v \in Verdicts(p, run[t].now) PROVE [rows[p.entry] EXCEPT !.outcome = v] \in Row
      BY <1>0, <2>3, VerdictsAreTyped DEF Row
    <2>5. rows' \in [Entry -> Row \cup {None}]
      BY <1>0, <2>3, <2>4, <1>16 DEF Evaluate
    <2>6. QED
      BY <1>0, <2>2, <2>5, <1>16 DEF Evaluate, exchange, received
  <1>17. ASSUME NEW t \in Threads, NEW p \in run[t].pending, EvaluateFails(t, p) PROVE TypeOK'
    <2>1. [run[t] EXCEPT !.pending = @ \ {p}, !.skipped = @ \cup {p.entry}] \in RunState
      <3>1. run[t] \in RunState /\ p.entry \in Entry
        BY <1>0 DEF RunState, Pending
      <3>2. QED
        BY <3>1 DEF RunState
    <2>2. run' \in [Threads -> RunState] /\ faults' \in 0..MaxFaults
      BY <1>0, <2>1, <1>17 DEF EvaluateFails
    <2>3. QED
      BY <1>0, <2>2, <1>17 DEF EvaluateFails, exchange, database, received
  <1>18. ASSUME NEW t \in Threads, Finish(t) PROVE TypeOK'
    BY <1>0, <1>1, <1>18 DEF Finish, exchange, database, received
  <1>19. ASSUME NEW t \in Threads, RunRaises(t) PROVE TypeOK'
    BY <1>0, <1>1, <1>19 DEF RunRaises, exchange, database, received
  <1>20. CASE UNCHANGED vars
    BY <1>0, <1>20 DEF vars, exchange, database, process, received
  <1>21. QED
    BY <1>2, <1>3, <1>4, <1>5, <1>6, <1>7, <1>8, <1>9, <1>10, <1>11, <1>12, <1>13, <1>14,
       <1>15, <1>16, <1>17, <1>18, <1>19, <1>20
       DEF Next, MonitorStep, PipelineStep, Proceed

-----------------------------------------------------------------------------
\* A thread is in the pipeline exactly while it holds the lock.
LEMMA LockStep == IInv /\ [Next]_vars => LockHeldByTheRun'
  <1> SUFFICES ASSUME IInv, [Next]_vars PROVE LockHeldByTheRun'
    OBVIOUS
  <1>0. LockHeldByTheRun /\ run \in [Threads -> RunState] /\ None \notin Threads
    BY ThreadAssumption DEF IInv, TypeOK
  <1>1. CASE UNCHANGED <<lock, run>>
    BY <1>0, <1>1 DEF LockHeldByTheRun
  <1>2. CASE Crash
    BY <1>0, <1>2 DEF LockHeldByTheRun, Crash, IdleRun
  <1>3. ASSUME NEW t \in Threads, Start(t) PROVE LockHeldByTheRun'
    BY <1>0, <1>3 DEF LockHeldByTheRun, Start, IdleRun
  <1>4. ASSUME NEW t \in Threads, Finish(t) PROVE LockHeldByTheRun'
    BY <1>0, <1>4 DEF LockHeldByTheRun, Finish, IdleRun
  <1>5. ASSUME NEW t \in Threads, RunRaises(t) PROVE LockHeldByTheRun'
    BY <1>0, <1>5 DEF LockHeldByTheRun, RunRaises, IdleRun
  <1>6. ASSUME NEW t \in Threads, Recommend(t) PROVE LockHeldByTheRun'
    <2>1. PICK F : run' = [run EXCEPT ![t].pc = "save", ![t].fresh = F]
      BY <1>6 DEF Recommend
    <2>2. lock' = lock /\ run[t].pc = "collect"
      BY <1>6 DEF Recommend
    <2>3. QED
      BY <1>0, <2>1, <2>2 DEF LockHeldByTheRun, RunState
  <1>7. ASSUME NEW t \in Threads, Save(t) PROVE LockHeldByTheRun'
    BY <1>0, <1>7 DEF LockHeldByTheRun, Save, RunState
  <1>8. ASSUME NEW t \in Threads, Announce(t) PROVE LockHeldByTheRun'
    BY <1>0, <1>8 DEF LockHeldByTheRun, Announce, RunState
  <1>9. ASSUME NEW t \in Threads, ListPending(t) PROVE LockHeldByTheRun'
    <2>1. PICK P : run' = [run EXCEPT ![t].pc = "evaluate", ![t].pending = P]
      BY <1>9 DEF ListPending
    <2>2. lock' = lock /\ run[t].pc = "list"
      BY <1>9 DEF ListPending
    <2>3. QED
      BY <1>0, <2>1, <2>2 DEF LockHeldByTheRun, RunState
  <1>10. ASSUME NEW t \in Threads, NEW p \in run[t].pending, Evaluate(t, p)
         PROVE  LockHeldByTheRun'
    BY <1>0, <1>10 DEF LockHeldByTheRun, Evaluate, RunState
  <1>11. ASSUME NEW t \in Threads, NEW p \in run[t].pending, EvaluateFails(t, p)
         PROVE  LockHeldByTheRun'
    BY <1>0, <1>11 DEF LockHeldByTheRun, EvaluateFails, RunState
  <1>12. QED
    BY <1>1, <1>2, <1>3, <1>4, <1>5, <1>6, <1>7, <1>8, <1>9, <1>10, <1>11
       DEF Next, PipelineStep, Proceed, MonitorStep, Tick, Restart, Collect, MonitorStart,
           MonitorFetch, MonitorMark, MonitorSend, MonitorRaises, vars, process

-----------------------------------------------------------------------------
\* What MonitorMark does to the table: it fills one empty column of one row.
LEMMA MarkFillsOneColumn ==
  ASSUME IInv, MonitorMark
  PROVE  \E v \in mon.marks :
            /\ v \in Event /\ v.entry \in Entry /\ v.kind \in Kinds /\ v.at \in Time
            /\ \A x \in mon.marks : v.at <= x.at
            /\ rows[v.entry] \in Row /\ rows[v.entry][v.kind] = None
            /\ rows' = [rows EXCEPT ![v.entry] = [rows[v.entry] EXCEPT ![v.kind] = v.at]]
            /\ mon' = [mon EXCEPT !.marks = @ \ {v}, !.raised = @ \cup {v}]
            /\ UNCHANGED <<now, tape, stored, lock, run, sent, alerts>>
  <1>1. PICK v \in mon.marks :
          /\ \A x \in mon.marks : v.at <= x.at
          /\ rows' = [rows EXCEPT ![v.entry][v.kind] = IF @ = None THEN v.at ELSE @]
          /\ mon' = [mon EXCEPT !.marks = @ \ {v}, !.raised = @ \cup {v}]
    BY DEF MonitorMark
  <1>2. v \in Event
    BY DEF IInv, TypeOK, MonitorState
  <1>3. v.entry \in Entry /\ v.kind \in Kinds /\ v.at \in Time
    BY <1>2 DEF Event
  <1>4. rows[v.entry] \in Row /\ rows[v.entry][v.kind] = None
    BY <1>3 DEF IInv, TypeOK, MarksAreNew, Exists
  <1>5. rows' = [rows EXCEPT ![v.entry] = [rows[v.entry] EXCEPT ![v.kind] = v.at]]
    BY <1>1, <1>3, <1>4 DEF IInv, TypeOK, Row, Kinds
  <1>6. QED
    BY <1>1, <1>2, <1>3, <1>4, <1>5 DEF MonitorMark, exchange, received

\* What Evaluate does to the table: it leaves it alone or settles one row.
LEMMA EvaluateSettlesOneRow ==
  ASSUME IInv, NEW t \in Threads, NEW p \in run[t].pending, Evaluate(t, p)
  PROVE  /\ p \in Pending /\ p.entry \in Entry /\ rows[p.entry] \in Row
         /\ run' = [run EXCEPT ![t].pending = @ \ {p}]
         /\ UNCHANGED <<now, tape, stored, lock, mon, sent, alerts>>
         /\ \/ rows' = rows
            \/ \E v \in Verdicts(p, run[t].now) :
                  /\ v \in Outcome
                  /\ rows' = [rows EXCEPT ![p.entry] = [rows[p.entry] EXCEPT !.outcome = v]]
  <1>1. p \in Pending /\ p.entry \in Entry
    BY DEF IInv, TypeOK, RunState, Pending
  <1>2. rows[p.entry] \in Row
    BY <1>1 DEF IInv, TypeOK, PendingIsUnjudged, Exists
  <1>3. ASSUME NEW v, rows' = [rows EXCEPT ![p.entry].outcome = v]
        PROVE  rows' = [rows EXCEPT ![p.entry] = [rows[p.entry] EXCEPT !.outcome = v]]
    BY <1>1, <1>2, <1>3
  <1>4. QED
    BY <1>1, <1>2, <1>3, VerdictsAreTyped DEF Evaluate, exchange, received

\* Rows are never deleted, and only save_run adds some.
LEMMA MarkKeepsRows ==
  ASSUME IInv, MonitorMark, NEW e \in Entry PROVE Exists(e)' <=> Exists(e)
  <1>1. PICK v \in mon.marks :
          /\ v.entry \in Entry /\ v.kind \in Kinds /\ v.at \in Time /\ rows[v.entry] \in Row
          /\ rows' = [rows EXCEPT ![v.entry] = [rows[v.entry] EXCEPT ![v.kind] = v.at]]
    BY MarkFillsOneColumn
  <1>2. [rows[v.entry] EXCEPT ![v.kind] = v.at] \in Row
    BY <1>1 DEF Row, Kinds
  <1>3. QED
    BY <1>1, <1>2, NoneAssumption DEF IInv, TypeOK, Exists

\* A pass of the evaluation adds and removes no row.
LEMMA EvaluateKeepsRows ==
  ASSUME IInv, NEW t \in Threads, NEW p \in run[t].pending, Evaluate(t, p), NEW e \in Entry
  PROVE  Exists(e)' <=> Exists(e)
  <1>1. CASE rows' = rows
    BY <1>1 DEF Exists
  <1>2. ASSUME NEW v \in Outcome,
               rows' = [rows EXCEPT ![p.entry] = [rows[p.entry] EXCEPT !.outcome = v]]
        PROVE  Exists(e)' <=> Exists(e)
    <2>1. p.entry \in Entry /\ rows[p.entry] \in Row
      BY EvaluateSettlesOneRow
    <2>2. [rows[p.entry] EXCEPT !.outcome = v] \in Row
      BY <1>2, <2>1 DEF Row
    <2>3. QED
      BY <1>2, <2>1, <2>2, NoneAssumption DEF IInv, TypeOK, Exists
  <1>3. CASE rows' # rows
    <2>1. PICK v \in Verdicts(p, run[t].now) :
            /\ v \in Outcome
            /\ rows' = [rows EXCEPT ![p.entry] = [rows[p.entry] EXCEPT !.outcome = v]]
      BY ZenonT(30), <1>3, EvaluateSettlesOneRow
    <2>2. QED
      BY <1>2, <2>1
  <1>4. QED
    BY <1>1, <1>3

\* save_run adds rows for the fresh entries and touches no other.
LEMMA SaveAddsFreshRows ==
  ASSUME IInv, NEW t \in Threads, Save(t), NEW e \in Entry
  PROVE  /\ Exists(e)' <=> (Exists(e) \/ e \in run[t].fresh)
         /\ Exists(e) => rows'[e] = rows[e]
         /\ ~Exists(e) /\ Exists(e)' => rows'[e] = NewRow(t)
  <1>1. NewRow(t) \in Row
    BY DEF IInv, TypeOK, NewRow, Row, RunState
  <1>2. rows'[e] = IF e \in run[t].fresh /\ ~Exists(e) THEN NewRow(t) ELSE rows[e]
    BY DEF Save
  <1>3. QED
    BY <1>1, <1>2, NoneAssumption DEF Exists

\* Stored, recommended and saved bars are closed.
LEMMA ClosedStep == IInv /\ [Next]_vars => OnlyClosedBars'
  <1> SUFFICES ASSUME IInv, [Next]_vars PROVE OnlyClosedBars'
    OBVIOUS
  <1>0. TypeOK /\ OnlyClosedBars
    BY DEF IInv
  <1>1. now \in Int /\ 1 <= now /\ \A e \in Entry : e.bar \in Int
    BY <1>0, BarAssumption DEF TypeOK, Time, Entry
  <1>2. CASE UNCHANGED <<now, tape, stored, rows, run>>
    BY <1>0, <1>2 DEF OnlyClosedBars, Exists
  <1>3. CASE Tick
    <2>1. ASSUME NEW m \in Markets PROVE Len(tape'[m]) = now'
      <3>1. PICK q \in [Markets -> Quotes] : tape' = [x \in Markets |-> Append(tape[x], q[x])]
        BY <1>3 DEF Tick
      <3>2. tape[m] \in Seq(Quotes) /\ q[m] \in Quotes /\ Len(tape[m]) = now
        BY <1>0 DEF TypeOK, OnlyClosedBars
      <3>3. QED
        BY <1>3, <3>1, <3>2 DEF Tick
    <2>2. now' = now + 1 /\ UNCHANGED <<stored, rows, run>>
      BY <1>3 DEF Tick, database, process
    <2>3. ASSUME NEW m \in Markets, NEW f \in Frames PROVE stored'[m][f] <= now'
      BY <1>0, <1>1, <2>2 DEF TypeOK, OnlyClosedBars
    <2>4. ASSUME NEW t \in Threads PROVE run'[t].now <= now'
      BY <1>0, <1>1, <2>2 DEF TypeOK, RunState, OnlyClosedBars, Time
    <2>5. ASSUME NEW e \in Entry, Exists(e) \/ \E t \in Threads : e \in run[t].fresh
          PROVE e.bar <= now'
      BY <1>0, <1>1, <2>2, <2>5 DEF OnlyClosedBars
    <2>6. \A t \in Threads : run[t].fresh \subseteq Entry
      BY <1>0 DEF TypeOK, RunState
    <2>7. QED
      BY <2>1, <2>2, <2>3, <2>4, <2>5, <2>6 DEF OnlyClosedBars, Exists
  <1>4. CASE Crash
    BY <1>0, <1>1, <1>4 DEF Crash, exchange, database, OnlyClosedBars, Exists, IdleRun
  <1>5. CASE MonitorMark
    <2>1. UNCHANGED <<now, tape, stored, run>>
      BY <1>5, MarkFillsOneColumn
    <2>2. QED
      BY <1>0, <1>5, <2>1, MarkKeepsRows DEF OnlyClosedBars
  <1>6. ASSUME NEW t \in Threads, Start(t) PROVE OnlyClosedBars'
    BY <1>0, <1>1, <1>6 DEF Start, exchange, database, OnlyClosedBars, Exists, IdleRun, TypeOK
  <1>7. ASSUME NEW t \in Threads, NEW m \in Markets, NEW f \in Frames, Collect(t, m, f)
        PROVE  OnlyClosedBars'
    <2>1. PICK newest \in LastOf({b \in Closings(f) : b <= now}) :
            stored' = [stored EXCEPT ![m][f] = newest]
      BY <1>7 DEF Collect
    <2>2. newest <= now
      BY <2>1, LastOfIsMember
    <2>3. QED
      BY <1>0, <2>1, <2>2, <1>7 DEF Collect, exchange, process, OnlyClosedBars, Exists, TypeOK
  <1>8. ASSUME NEW t \in Threads, Recommend(t) PROVE OnlyClosedBars'
    <2>1. PICK F \in SUBSET Entry :
            /\ run' = [run EXCEPT ![t].pc = "save", ![t].fresh = F]
            /\ \A e \in F : e.bar <= now
      BY <1>0, <1>8, RecommendedAreEntries
    <2>2. UNCHANGED <<now, tape, stored, rows>>
      BY <1>8 DEF Recommend, exchange, database
    <2>3. QED
      BY <1>0, <2>1, <2>2 DEF OnlyClosedBars, Exists, TypeOK, RunState
  <1>9. ASSUME NEW t \in Threads, Save(t) PROVE OnlyClosedBars'
    <2>1. \A u \in Threads : run'[u].fresh = run[u].fresh /\ run'[u].now = run[u].now
      BY <1>0, <1>9 DEF Save, TypeOK, RunState
    <2>2. UNCHANGED <<now, tape, stored>>
      BY <1>9 DEF Save, exchange
    <2>3. \A e \in Entry : Exists(e)' => e.bar <= now
      BY <1>0, <1>9, SaveAddsFreshRows DEF OnlyClosedBars
    <2>4. QED
      BY <1>0, <2>1, <2>2, <2>3 DEF OnlyClosedBars
  <1>10. ASSUME NEW t \in Threads, Announce(t) PROVE OnlyClosedBars'
    BY <1>0, <1>10 DEF Announce, exchange, database, OnlyClosedBars, Exists, TypeOK, RunState
  <1>11. ASSUME NEW t \in Threads, ListPending(t) PROVE OnlyClosedBars'
    BY <1>0, <1>11 DEF ListPending, exchange, database, OnlyClosedBars, Exists, TypeOK, RunState
  <1>12. ASSUME NEW t \in Threads, NEW p \in run[t].pending, Evaluate(t, p)
         PROVE  OnlyClosedBars'
    <2>1. UNCHANGED <<now, tape, stored>> /\ run' = [run EXCEPT ![t].pending = @ \ {p}]
      BY <1>12, EvaluateSettlesOneRow
    <2>2. \A e \in Entry : Exists(e)' <=> Exists(e)
      BY <1>12, EvaluateKeepsRows
    <2>3. QED
      BY <1>0, <2>1, <2>2 DEF OnlyClosedBars, TypeOK, RunState
  <1>13. ASSUME NEW t \in Threads, NEW p \in run[t].pending, EvaluateFails(t, p)
         PROVE  OnlyClosedBars'
    BY <1>0, <1>13 DEF EvaluateFails, exchange, database, OnlyClosedBars, Exists, TypeOK, RunState
  <1>14. ASSUME NEW t \in Threads, Finish(t) \/ RunRaises(t) PROVE OnlyClosedBars'
    BY <1>0, <1>1, <1>14
       DEF Finish, RunRaises, exchange, database, OnlyClosedBars, Exists, IdleRun, TypeOK
  <1>15. QED
    BY <1>2, <1>3, <1>4, <1>5, <1>6, <1>7, <1>8, <1>9, <1>10, <1>11, <1>12, <1>13, <1>14
       DEF Next, PipelineStep, Proceed, MonitorStep, Restart, MonitorStart,
           MonitorFetch, MonitorSend, MonitorRaises, vars, exchange, database, process

\* What is announced is stored, and what is about to be announced is new.
LEMMA AnnounceStep == IInv /\ [Next]_vars => AnnouncedIsStored' /\ FreshIsNew'
  <1> SUFFICES ASSUME IInv, [Next]_vars PROVE AnnouncedIsStored' /\ FreshIsNew'
    OBVIOUS
  <1>0. TypeOK /\ LockHeldByTheRun /\ AnnouncedIsStored /\ FreshIsNew
    BY DEF IInv
  <1>a. /\ run \in [Threads -> RunState] /\ None \notin Threads
        /\ \A t \in Threads : run[t].fresh \subseteq Entry /\ run[t].now \in Int
        /\ Memory \in Int /\ \A e \in Entry : e.bar \in Int
    BY <1>0, BarAssumption, ThreadAssumption DEF TypeOK, RunState, Time, Entry
  <1>1. CASE UNCHANGED <<rows, run, sent>>
    BY <1>0, <1>1 DEF AnnouncedIsStored, FreshIsNew, Exists
  <1>2. CASE Crash
    BY <1>0, <1>2 DEF Crash, database, received, AnnouncedIsStored, FreshIsNew, Exists, IdleRun
  <1>3. CASE MonitorMark
    <2>1. UNCHANGED <<run, sent>>
      BY <1>3, MarkFillsOneColumn
    <2>2. \A e \in Entry : Exists(e)' <=> Exists(e)
      BY <1>3, MarkKeepsRows
    <2>3. QED
      BY <1>0, <1>a, <2>1, <2>2 DEF AnnouncedIsStored, FreshIsNew
  <1>4. ASSUME NEW t \in Threads, Start(t) PROVE AnnouncedIsStored' /\ FreshIsNew'
    BY <1>0, <1>a, <1>4 DEF Start, database, received, AnnouncedIsStored, FreshIsNew, Exists, IdleRun
  <1>5. ASSUME NEW t \in Threads, Recommend(t) PROVE AnnouncedIsStored' /\ FreshIsNew'
    <2>1. PICK F \in SUBSET Entry :
            /\ run' = [run EXCEPT ![t].pc = "save", ![t].fresh = F]
            /\ \A e \in F : e \notin Announced(t)
      BY <1>0, <1>5, RecommendedAreEntries DEF IInv
    <2>2. UNCHANGED <<rows, sent>>
      BY <1>5 DEF Recommend, database, received
    <2>3. \A e \in F : Exists(e) => e.bar < run[t].now - Memory
      BY <1>a, <2>1 DEF Announced
    <2>4. /\ run'[t].pc = "save" /\ run'[t].fresh = F /\ run'[t].now = run[t].now
          /\ \A u \in Threads \ {t} : run'[u] = run[u]
      BY <1>a, <2>1 DEF RunState
    <2>5. QED
      BY <1>0, <2>2, <2>3, <2>4 DEF AnnouncedIsStored, FreshIsNew, Exists
  <1>6. ASSUME NEW t \in Threads, Save(t) PROVE AnnouncedIsStored' /\ FreshIsNew'
    <2>1. run[t].pc = "save" /\ sent' = sent
      BY <1>6 DEF Save, received
    <2>2. /\ run'[t].pc = "announce" /\ run'[t].fresh = run[t].fresh /\ run'[t].now = run[t].now
          /\ \A u \in Threads \ {t} : run'[u] = run[u]
      BY <1>a, <1>6 DEF Save, RunState
    <2>3. \A u \in Threads \ {t} : run[u].pc = "idle"
      BY <1>0, <2>1 DEF LockHeldByTheRun
    <2>4. \A e \in Entry : Exists(e)' <=> (Exists(e) \/ e \in run[t].fresh)
      BY <1>6, SaveAddsFreshRows
    <2>5. ASSUME NEW e \in run[t].fresh, sent[e] > 0 PROVE e.bar < run[t].now - Memory
      <3>1. Exists(e)
        BY <1>0, <1>a, <2>5 DEF AnnouncedIsStored
      <3>2. QED
        BY <1>0, <2>1, <3>1 DEF FreshIsNew
    <2>6. AnnouncedIsStored'
      BY <1>0, <2>1, <2>4 DEF AnnouncedIsStored
    <2>7. ASSUME NEW u \in Threads, NEW e \in run'[u].fresh
          PROVE  /\ run'[u].pc = "save" => (Exists(e)' => e.bar < run'[u].now - Memory)
                 /\ run'[u].pc = "announce" =>
                       Exists(e)' /\ (sent'[e] > 0 => e.bar < run'[u].now - Memory)
      <3>1. CASE u = t
        BY <1>a, <2>1, <2>2, <2>4, <2>5, <3>1
      <3>2. CASE u # t
        BY <2>2, <2>3, <3>2
      <3>3. QED
        BY <3>1, <3>2
    <2>8. QED
      BY <2>6, <2>7 DEF FreshIsNew
  <1>7. ASSUME NEW t \in Threads, Announce(t) PROVE AnnouncedIsStored' /\ FreshIsNew'
    <2>1. run[t].pc = "announce" /\ rows' = rows
      BY <1>7 DEF Announce, database
    <2>2. run'[t].fresh = {} /\ \A u \in Threads \ {t} : run'[u] = run[u]
      BY <1>a, <1>7 DEF Announce, RunState
    <2>3. \A u \in Threads \ {t} : run[u].pc = "idle"
      BY <1>0, <2>1 DEF LockHeldByTheRun
    <2>4. \A e \in Entry : sent'[e] # sent[e] => e \in run[t].fresh
      BY <1>7 DEF Announce
    <2>5. \A e \in run[t].fresh : Exists(e)
      BY <1>0, <2>1 DEF FreshIsNew
    <2>6. AnnouncedIsStored'
      BY <1>0, <2>1, <2>4, <2>5 DEF AnnouncedIsStored, Exists
    <2>7. FreshIsNew'
      BY <2>2, <2>3 DEF FreshIsNew
    <2>8. QED
      BY <2>6, <2>7
  <1>8. ASSUME NEW t \in Threads, ListPending(t) PROVE AnnouncedIsStored' /\ FreshIsNew'
    <2>1. UNCHANGED <<rows, sent>>
      BY <1>8 DEF ListPending, database, received
    <2>2. run'[t].pc = "evaluate" /\ \A u \in Threads \ {t} : run'[u] = run[u]
      <3>1. PICK P : run' = [run EXCEPT ![t].pc = "evaluate", ![t].pending = P]
        BY <1>8 DEF ListPending
      <3>2. QED
        BY <1>a, <3>1 DEF RunState
    <2>3. QED
      BY <1>0, <2>1, <2>2 DEF AnnouncedIsStored, FreshIsNew, Exists
  <1>9. ASSUME NEW t \in Threads, NEW p \in run[t].pending, Evaluate(t, p)
        PROVE  AnnouncedIsStored' /\ FreshIsNew'
    <2>1. sent' = sent /\ run' = [run EXCEPT ![t].pending = @ \ {p}]
      BY <1>9, EvaluateSettlesOneRow
    <2>2. \A e \in Entry : Exists(e)' <=> Exists(e)
      BY <1>9, EvaluateKeepsRows
    <2>3. \A u \in Threads : /\ run'[u].fresh = run[u].fresh /\ run'[u].pc = run[u].pc
                             /\ run'[u].now = run[u].now
      BY <1>a, <2>1 DEF RunState
    <2>4. QED
      BY <1>0, <1>a, <2>1, <2>2, <2>3 DEF AnnouncedIsStored, FreshIsNew
  <1>10. ASSUME NEW t \in Threads, NEW p \in run[t].pending, EvaluateFails(t, p)
         PROVE  AnnouncedIsStored' /\ FreshIsNew'
    <2>1. UNCHANGED <<rows, sent>>
      BY <1>10 DEF EvaluateFails, database, received
    <2>2. \A u \in Threads : /\ run'[u].fresh = run[u].fresh /\ run'[u].pc = run[u].pc
                             /\ run'[u].now = run[u].now
      BY <1>a, <1>10 DEF EvaluateFails, RunState
    <2>3. QED
      BY <1>0, <2>1, <2>2 DEF AnnouncedIsStored, FreshIsNew, Exists
  <1>11. ASSUME NEW t \in Threads, Finish(t) \/ RunRaises(t)
         PROVE  AnnouncedIsStored' /\ FreshIsNew'
    BY <1>0, <1>a, <1>11
       DEF Finish, RunRaises, database, received, AnnouncedIsStored, FreshIsNew, Exists, IdleRun
  <1>12. QED
    BY <1>1, <1>2, <1>3, <1>4, <1>5, <1>6, <1>7, <1>8, <1>9, <1>10, <1>11
       DEF Next, PipelineStep, Proceed, MonitorStep, Tick, Restart, Collect, MonitorStart,
           MonitorFetch, MonitorSend, MonitorRaises, vars, database, process, received

-----------------------------------------------------------------------------
\* Recording an event leaves every other field of every row as it was.
LEMMA MarkKeepsFields ==
  ASSUME IInv, MonitorMark, NEW e \in Entry, Exists(e)
  PROVE  /\ rows'[e].outcome = rows[e].outcome
         /\ rows[e].target # None => rows'[e].target = rows[e].target
         /\ rows[e].stop # None => rows'[e].stop = rows[e].stop
         /\ rows[e].touched # None => rows'[e].touched = rows[e].touched
  <1>1. PICK v \in mon.marks :
          /\ v.entry \in Entry /\ v.kind \in Kinds /\ v.at \in Time
          /\ rows[v.entry] \in Row /\ rows[v.entry][v.kind] = None
          /\ rows' = [rows EXCEPT ![v.entry] = [rows[v.entry] EXCEPT ![v.kind] = v.at]]
    BY MarkFillsOneColumn
  <1>2. rows[e] \in Row
    BY DEF IInv, TypeOK, Exists
  <1>3. CASE e # v.entry
    <2>1. rows'[e] = rows[e]
      BY <1>1, <1>3 DEF IInv, TypeOK
    <2>2. QED
      BY <2>1
  <1>4. CASE e = v.entry
    <2>1. rows'[e] = [rows[e] EXCEPT ![v.kind] = v.at]
      BY <1>1, <1>4 DEF IInv, TypeOK
    <2>2. QED
      BY <1>1, <1>2, <1>4, <2>1 DEF Row, Kinds
  <1>5. QED
    BY <1>3, <1>4

\* A verdict is grounded when it is reached.
LEMMA VerdictsAreGrounded ==
  ASSUME IInv, NEW t \in Threads, NEW p \in run[t].pending, NEW v \in Verdicts(p, run[t].now)
  PROVE  IF v.reached THEN rows[p.entry].target # None /\ v.ret = Up[p.entry.track]
         ELSE TimedOutPrice(p.entry, v)
                \/ (rows[p.entry].stop # None /\ v.ret = -Down[p.entry.track])
  <1> DEFINE e == p.entry
  <1>1. CASE p.target # None
    <2>1. v = [reached |-> TRUE, ret |-> Up[e.track], at |-> run[t].now]
      BY <1>1 DEF Verdicts
    <2>2. QED
      BY <1>1, <2>1 DEF IInv, PendingIsUnjudged
  <1>2. CASE p.target = None /\ p.stop # None
    <2>1. v = [reached |-> FALSE, ret |-> -Down[e.track], at |-> run[t].now]
      BY <1>2 DEF Verdicts
    <2>2. QED
      BY <1>2, <2>1 DEF IInv, PendingIsUnjudged
  <1>3. CASE p.target = None /\ p.stop = None
    <2>1. PICK b \in {x \in PricedBar(e.market, Deadline(e)) : run[t].now >= Deadline(e)} :
            v = [reached |-> FALSE, ret |-> tape[e.market][b].close - EntryPrice(e),
                 at |-> run[t].now]
      BY <1>3 DEF Verdicts
    <2>2. /\ b \in Time /\ b <= stored[e.market][ClosingFrame] /\ b <= Deadline(e)
          /\ run[t].now >= Deadline(e)
      BY <2>1, LastOfIsMember DEF PricedBar, Closings
    <2>3. e.market \in Markets
      BY DEF IInv, TypeOK, RunState, Pending, Entry
    <2>4. stored[e.market][ClosingFrame] <= now /\ stored[e.market][ClosingFrame] \in Int
      BY <2>3, BarAssumption DEF IInv, OnlyClosedBars, TypeOK
    <2>5. b <= now
      BY <2>2, <2>4, BarAssumption DEF IInv, TypeOK, Time
    <2>6. TimedOutPrice(e, v)
      BY <2>1, <2>2, <2>5 DEF TimedOutPrice
    <2>7. QED
      BY <2>1, <2>6
  <1>4. QED
    BY <1>1, <1>2, <1>3

\* A closed bar keeps its prices.
LEMMA PricesAreKept ==
  ASSUME IInv, [Next]_vars, NEW m \in Markets, NEW b \in Time, b <= now
  PROVE  tape'[m][b] = tape[m][b]
  <1>1. CASE Tick
    <2>1. PICK q \in [Markets -> Quotes] : tape' = [x \in Markets |-> Append(tape[x], q[x])]
      BY <1>1 DEF Tick
    <2>2. tape[m] \in Seq(Quotes) /\ q[m] \in Quotes /\ b \in 1..Len(tape[m])
      BY BarAssumption DEF IInv, TypeOK, OnlyClosedBars, Time
    <2>3. QED
      BY <2>1, <2>2
  <1>2. CASE tape' = tape
    BY <1>2
  <1>3. QED
    BY <1>1, <1>2, MarkFillsOneColumn, EvaluateSettlesOneRow
       DEF Next, PipelineStep, Proceed, MonitorStep, Crash, Restart, MonitorStart, MonitorFetch,
           MonitorMark, MonitorSend, MonitorRaises, Start, Collect, Recommend, Save, Announce,
           ListPending, Evaluate, EvaluateFails, Finish, RunRaises, vars, exchange

\* So a price that settled an outcome still does.
LEMMA TimedOutPriceIsKept ==
  ASSUME IInv, [Next]_vars, now' \in Int, now <= now', NEW e \in Entry, Exists(e), NEW v,
         TimedOutPrice(e, v)
  PROVE  TimedOutPrice(e, v)'
  <1>1. e.market \in Markets /\ e.bar \in Time /\ e.bar <= now
    BY DEF IInv, OnlyClosedBars, Entry
  <1>2. EntryPrice(e)' = EntryPrice(e)
    BY <1>1, PricesAreKept DEF EntryPrice
  <1>3. PICK b \in Time : /\ b <= now /\ b <= Deadline(e)
                          /\ v.ret = tape[e.market][b].close - EntryPrice(e)
    BY DEF TimedOutPrice
  <1>4. tape'[e.market][b] = tape[e.market][b]
    BY <1>1, <1>3, PricesAreKept
  <1>5. b <= now' /\ v.ret = tape'[e.market][b].close - EntryPrice(e)'
    BY <1>2, <1>3, <1>4, BarAssumption DEF Time, IInv, TypeOK
  <1>6. QED
    BY <1>3, <1>5 DEF TimedOutPrice, Deadline

\* The clock never goes back.
LEMMA ClockStep == IInv /\ [Next]_vars => now' \in Int /\ now <= now'
  <1> SUFFICES ASSUME IInv, [Next]_vars PROVE now' \in Int /\ now <= now'
    OBVIOUS
  <1>1. now \in Int
    BY BarAssumption DEF IInv, TypeOK, Time
  <1>2. CASE Tick
    BY <1>1, <1>2 DEF Tick
  <1>3. CASE now' = now
    BY <1>1, <1>3
  <1>4. QED
    BY <1>2, <1>3
       DEF Next, PipelineStep, Proceed, MonitorStep, Crash, Restart, MonitorStart, MonitorFetch,
           MonitorMark, MonitorSend, MonitorRaises, Start, Collect, Recommend, Save, Announce,
           ListPending, Evaluate, EvaluateFails, Finish, RunRaises, vars, exchange

\* A verdict is on record and grounded.
Grounded(e, v) ==
    IF v.reached THEN rows[e].target # None /\ v.ret = Up[e.track]
    ELSE TimedOutPrice(e, v) \/ (rows[e].stop # None /\ v.ret = -Down[e.track])

\* Every step keeps verdicts grounded: hits are never erased and closing prices
\* never change.
LEMMA GroundedStep == IInv /\ [Next]_vars => OutcomeIsGrounded'
  <1> SUFFICES ASSUME IInv, [Next]_vars, NEW e \in Entry, Judged(e)'
               PROVE  Grounded(e, rows[e].outcome)'
    BY DEF OutcomeIsGrounded, Grounded, Judged
  <1>0. now' \in Int /\ now <= now'
    BY ClockStep
  \* The verdict, once grounded, stays so while the row keeps its hits.
  <1>1. ASSUME Judged(e), rows'[e].outcome = rows[e].outcome,
               rows[e].target # None => rows'[e].target # None,
               rows[e].stop # None => rows'[e].stop # None
        PROVE  Grounded(e, rows[e].outcome)'
    <2> DEFINE v == rows[e].outcome
    <2>1. Grounded(e, v)
      BY <1>1 DEF IInv, OutcomeIsGrounded, Grounded
    <2>2. TimedOutPrice(e, v) => TimedOutPrice(e, v)'
      BY <1>0, <1>1, TimedOutPriceIsKept DEF Judged
    <2>3. QED
      BY <1>1, <2>1, <2>2 DEF Grounded
  <1>2. CASE rows' = rows
    BY <1>1, <1>2 DEF Judged, Exists
  <1>3. CASE MonitorMark
    BY <1>1, <1>3, MarkKeepsRows, MarkKeepsFields DEF Judged
  <1>4. ASSUME NEW t \in Threads, Save(t) PROVE Grounded(e, rows[e].outcome)'
    <2>1. Exists(e)
      <3>1. Exists(e)' /\ rows'[e].outcome # None
        BY DEF Judged
      <3>2. SUFFICES ASSUME ~Exists(e) PROVE rows'[e] = NewRow(t)
        BY <3>1 DEF NewRow
      <3>3. QED
        BY <1>4, <3>1, <3>2, SaveAddsFreshRows
    <2>2. rows'[e] = rows[e]
      BY <1>4, <2>1, SaveAddsFreshRows
    <2>3. QED
      BY <1>1, <2>1, <2>2 DEF Judged
  <1>5. ASSUME NEW t \in Threads, NEW p \in run[t].pending, Evaluate(t, p), rows' # rows
        PROVE  Grounded(e, rows[e].outcome)'
    <2>1. PICK v \in Verdicts(p, run[t].now) :
            /\ v \in Outcome
            /\ rows' = [rows EXCEPT ![p.entry] = [rows[p.entry] EXCEPT !.outcome = v]]
      BY ZenonT(30), <1>5, EvaluateSettlesOneRow
    <2>2. p.entry \in Entry /\ rows[p.entry] \in Row /\ rows \in [Entry -> Row \cup {None}]
      BY <1>5, EvaluateSettlesOneRow DEF IInv, TypeOK
    <2>3. CASE e # p.entry
      <3>1. rows'[e] = rows[e]
        BY <2>1, <2>2, <2>3
      <3>2. QED
        BY <1>1, <3>1 DEF Judged, Exists
    <2>4. CASE e = p.entry
      <3>1. rows'[e] = [rows[e] EXCEPT !.outcome = v]
        BY <2>1, <2>2, <2>4
      <3>2. /\ rows'[e].outcome = v /\ rows'[e].target = rows[e].target
            /\ rows'[e].stop = rows[e].stop
        BY <2>2, <2>4, <3>1 DEF Row
      <3>3. Grounded(e, v)
        BY <2>1, <2>4, VerdictsAreGrounded DEF Grounded
      <3>4. Exists(e)
        BY <2>4 DEF IInv, PendingIsUnjudged
      <3>5. TimedOutPrice(e, v) => TimedOutPrice(e, v)'
        BY <1>0, <3>4, TimedOutPriceIsKept
      <3>6. QED
        BY <3>2, <3>3, <3>5 DEF Grounded
    <2>5. QED
      BY <2>3, <2>4
  <1>6. QED
    BY <1>2, <1>3, <1>4, <1>5
       DEF Next, PipelineStep, Proceed, MonitorStep, Tick, Crash, Restart, MonitorStart,
           MonitorFetch, MonitorSend, MonitorRaises, Start, Collect, Recommend, Announce,
           ListPending, EvaluateFails, Finish, RunRaises, vars, database

\* The snapshot that an evaluation works through stays unjudged.
LEMMA PendingStep == IInv /\ [Next]_vars => PendingIsUnjudged'
  <1> SUFFICES ASSUME IInv, [Next]_vars PROVE PendingIsUnjudged'
    OBVIOUS
  <1>0. /\ PendingIsUnjudged /\ LockHeldByTheRun /\ None \notin Threads
        /\ run \in [Threads -> RunState] /\ rows \in [Entry -> Row \cup {None}]
        /\ \A t \in Threads : run[t] \in RunState /\ run[t].pending \subseteq Pending
    BY ThreadAssumption DEF IInv, TypeOK, RunState
  \* At most one thread evaluates, and then no other is in the pipeline.
  <1>a. \A t, u \in Threads : run[t].pc # "idle" /\ u # t => run[u].pending = {}
    BY <1>0 DEF LockHeldByTheRun, PendingIsUnjudged
  <1>b. \A t \in Threads : run[t].pc # "evaluate" => run[t].pending = {}
    BY <1>0 DEF PendingIsUnjudged
  <1>1. CASE UNCHANGED <<rows, run>>
    BY <1>0, <1>1 DEF PendingIsUnjudged, Exists
  <1>2. CASE Crash
    BY <1>2 DEF Crash, IdleRun, PendingIsUnjudged
  <1>3. CASE MonitorMark
    <2>1. run' = run
      BY <1>3, MarkFillsOneColumn
    <2>2. ASSUME NEW t \in Threads, NEW p \in run[t].pending
          PROVE  /\ run[t].pc = "evaluate"
                 /\ Exists(p.entry)' /\ rows'[p.entry].outcome = None
                 /\ p.target # None => rows'[p.entry].target # None
                 /\ p.stop # None => rows'[p.entry].stop # None
                 /\ \A q \in run[t].pending : q.entry = p.entry => q = p
      <3>1. p.entry \in Entry
        BY <1>0 DEF Pending
      <3>2. /\ run[t].pc = "evaluate"
            /\ Exists(p.entry) /\ rows[p.entry].outcome = None
            /\ p.target # None => rows[p.entry].target # None
            /\ p.stop # None => rows[p.entry].stop # None
            /\ \A q \in run[t].pending : q.entry = p.entry => q = p
        BY <1>0 DEF PendingIsUnjudged
      <3>3. Exists(p.entry)'
        BY <1>3, <3>1, <3>2, MarkKeepsRows
      <3>4. /\ rows'[p.entry].outcome = rows[p.entry].outcome
            /\ rows[p.entry].target # None => rows'[p.entry].target = rows[p.entry].target
            /\ rows[p.entry].stop # None => rows'[p.entry].stop = rows[p.entry].stop
        BY <1>3, <3>1, <3>2, MarkKeepsFields
      <3>5. QED
        BY <3>2, <3>3, <3>4
    <2>3. QED
      BY <2>1, <2>2 DEF PendingIsUnjudged
  \* A step of t that leaves the table alone and adds nothing to its snapshot.
  <1>4. ASSUME NEW t \in Threads, rows' = rows,
               \A u \in Threads \ {t} : run'[u] = run[u],
               run'[t].pending \subseteq run[t].pending,
               run'[t].pc = "evaluate" \/ run'[t].pending = {}
        PROVE  PendingIsUnjudged'
    BY <1>0, <1>4 DEF PendingIsUnjudged, Exists
  <1>5. ASSUME NEW t \in Threads, Start(t) PROVE PendingIsUnjudged'
    BY <1>0, <1>4, <1>5 DEF Start, database, IdleRun
  <1>6. ASSUME NEW t \in Threads, Recommend(t) PROVE PendingIsUnjudged'
    <2>1. run[t].pc = "collect" /\ rows' = rows
      BY <1>6 DEF Recommend, database
    <2>2. PICK F : run' = [run EXCEPT ![t].pc = "save", ![t].fresh = F]
      BY <1>6 DEF Recommend
    <2>3. run'[t].pending = run[t].pending /\ \A u \in Threads \ {t} : run'[u] = run[u]
      BY <1>0, <2>2 DEF RunState
    <2>4. QED
      BY <1>4, <1>b, <2>1, <2>3
  <1>7. ASSUME NEW t \in Threads, Save(t) PROVE PendingIsUnjudged'
    <2>1. run[t].pc = "save"
      BY <1>7 DEF Save
    <2>2. \A u \in Threads : run[u].pending = {}
      BY <1>a, <1>b, <2>1
    <2>3. \A u \in Threads : run'[u].pending = {}
      BY <1>0, <1>7, <2>2 DEF Save, RunState
    <2>4. QED
      BY <2>3 DEF PendingIsUnjudged
  <1>8. ASSUME NEW t \in Threads, Announce(t) PROVE PendingIsUnjudged'
    <2>1. run[t].pc = "announce" /\ rows' = rows
      BY <1>8 DEF Announce, database
    <2>2. run'[t].pending = run[t].pending /\ \A u \in Threads \ {t} : run'[u] = run[u]
      BY <1>0, <1>8 DEF Announce, RunState
    <2>3. QED
      BY <1>4, <1>b, <2>1, <2>2
  <1>9. ASSUME NEW t \in Threads, ListPending(t) PROVE PendingIsUnjudged'
    <2> DEFINE P == {[entry |-> e, target |-> rows[e].target, stop |-> rows[e].stop] :
                       e \in Unevaluated}
    <2>1. run[t].pc = "list" /\ rows' = rows
      BY <1>9 DEF ListPending, database
    <2>2. run' = [run EXCEPT ![t].pc = "evaluate", ![t].pending = P]
      BY <1>9 DEF ListPending
    <2>3. ASSUME NEW p \in P
          PROVE  /\ Exists(p.entry) /\ rows[p.entry].outcome = None
                 /\ p.target # None => rows[p.entry].target # None
                 /\ p.stop # None => rows[p.entry].stop # None
                 /\ \A q \in P : q.entry = p.entry => q = p
      BY DEF Unevaluated
    <2> HIDE DEF P
    <2>4. /\ run'[t].pc = "evaluate" /\ run'[t].pending = P
          /\ \A u \in Threads \ {t} : run'[u] = run[u]
      BY <1>0, <2>2 DEF RunState
    <2>5. \A u \in Threads \ {t} : run[u].pending = {}
      BY <1>a, <2>1
    <2>6. QED
      BY <2>1, <2>3, <2>4, <2>5 DEF PendingIsUnjudged, Exists
  <1>10. ASSUME NEW t \in Threads, NEW p \in run[t].pending, Evaluate(t, p)
         PROVE  PendingIsUnjudged'
    <2>1. run' = [run EXCEPT ![t].pending = @ \ {p}] /\ p.entry \in Entry
      BY <1>10, EvaluateSettlesOneRow
    <2>2. /\ run'[t].pc = run[t].pc /\ run'[t].pending = run[t].pending \ {p}
          /\ \A u \in Threads \ {t} : run'[u] = run[u]
      BY <1>0, <2>1 DEF RunState
    <2>3. \A u \in Threads \ {t} : run[u].pending = {}
      BY <1>0, <1>a DEF PendingIsUnjudged
    <2>4. ASSUME NEW q \in run[t].pending \ {p}
          PROVE  q.entry # p.entry /\ rows'[q.entry] = rows[q.entry]
      <3>1. q.entry # p.entry /\ q.entry \in Entry
        BY <1>0 DEF PendingIsUnjudged, Pending
      <3>2. CASE rows' = rows
        BY <3>1, <3>2
      <3>3. CASE rows' # rows
        <4>1. PICK v \in Verdicts(p, run[t].now) :
                /\ v \in Outcome
                /\ rows' = [rows EXCEPT ![p.entry] = [rows[p.entry] EXCEPT !.outcome = v]]
          BY ZenonT(30), <1>10, <3>3, EvaluateSettlesOneRow
        <4>2. QED
          BY <1>0, <3>1, <4>1
      <3>4. QED
        BY <3>1, <3>2, <3>3
    <2>5. ASSUME NEW q \in run[t].pending \ {p}
          PROVE  /\ run'[t].pc = "evaluate"
                 /\ Exists(q.entry)' /\ rows'[q.entry].outcome = None
                 /\ q.target # None => rows'[q.entry].target # None
                 /\ q.stop # None => rows'[q.entry].stop # None
                 /\ \A r \in run[t].pending : r.entry = q.entry => r = q
      BY <1>0, <2>2, <2>4 DEF PendingIsUnjudged, Exists
    <2>6. QED
      BY <2>2, <2>3, <2>5 DEF PendingIsUnjudged
  <1>11. ASSUME NEW t \in Threads, NEW p \in run[t].pending, EvaluateFails(t, p)
         PROVE  PendingIsUnjudged'
    <2>1. run[t].pc = "evaluate" /\ rows' = rows
      BY <1>11 DEF EvaluateFails, database
    <2>2. /\ run'[t].pc = run[t].pc /\ run'[t].pending \subseteq run[t].pending
          /\ \A u \in Threads \ {t} : run'[u] = run[u]
      BY <1>0, <1>11 DEF EvaluateFails, RunState
    <2>3. QED
      BY <1>4, <2>1, <2>2
  <1>12. ASSUME NEW t \in Threads, Finish(t) \/ RunRaises(t) PROVE PendingIsUnjudged'
    BY <1>0, <1>4, <1>12 DEF Finish, RunRaises, database, IdleRun
  <1>13. QED
    BY <1>1, <1>2, <1>3, <1>5, <1>6, <1>7, <1>8, <1>9, <1>10, <1>11, <1>12
       DEF Next, PipelineStep, Proceed, MonitorStep, Tick, Restart, Collect, MonitorStart,
           MonitorFetch, MonitorSend, MonitorRaises, vars, database, process

-----------------------------------------------------------------------------
\* Whether a row is due for a run hangs on the run's clock, the row being there, and
\* the stored prices alone.
LEMMA DueIsKept ==
  ASSUME NEW e, NEW t, run'[t].now = run[t].now, stored' = stored, Exists(e)' <=> Exists(e)
  PROVE  Due(e, t)' <=> Due(e, t)
  BY DEF Due, PricedBar

\* A pass of the loop over a row that is due gives it a verdict.
LEMMA DueRowsAreJudged ==
  ASSUME IInv, NEW t \in Threads, NEW p \in run[t].pending, Evaluate(t, p), Due(p.entry, t)
  PROVE  Judged(p.entry)'
  <1>1. run[t].now \in Int /\ Deadline(p.entry) <= run[t].now
    BY DEF IInv, TypeOK, RunState, Time, Due
  <1>2. Verdicts(p, run[t].now) # {}
    BY <1>1 DEF Verdicts, Due
  <1>3. PICK v \in Verdicts(p, run[t].now) : rows' = [rows EXCEPT ![p.entry].outcome = v]
    BY <1>2 DEF Evaluate
  <1>4. p.entry \in Entry /\ rows[p.entry] \in Row /\ v \in Outcome
    BY <1>3, EvaluateSettlesOneRow, VerdictsAreTyped DEF IInv, TypeOK
  <1>5. rows'[p.entry] = [rows[p.entry] EXCEPT !.outcome = v]
    BY <1>3, <1>4 DEF IInv, TypeOK
  <1>6. rows'[p.entry] \in Row /\ rows'[p.entry].outcome = v
    BY <1>4, <1>5 DEF Row
  <1>7. QED
    BY <1>4, <1>6, NoneAssumption DEF Judged, Exists

\* Until its run returns, a row that is due is judged, has raised or is to come.
LEMMA DueStep == IInv /\ [Next]_vars => DueIsPending'
  <1> SUFFICES ASSUME IInv, [Next]_vars, NEW t \in Threads, run'[t].pc = "evaluate",
                      NEW e \in Entry, Due(e, t)'
               PROVE  \/ Judged(e)' \/ e \in run'[t].skipped
                      \/ \E p \in run'[t].pending : p.entry = e
    BY DEF DueIsPending
  <1> DEFINE Goal == \/ Judged(e)' \/ e \in run'[t].skipped
                     \/ \E p \in run'[t].pending : p.entry = e
  <1>0. /\ DueIsPending /\ LockHeldByTheRun /\ run \in [Threads -> RunState]
        /\ \A u \in Threads : run[u] \in RunState
        /\ \A u \in Threads : run[u].pc # "idle" /\ u # t => run[t].pc = "idle"
    BY DEF IInv, TypeOK, LockHeldByTheRun
  \* A step that leaves the run alone.
  <1>1. ASSUME run'[t] = run[t], stored' = stored, Exists(e)' <=> Exists(e),
               Judged(e) => Judged(e)'
        PROVE  Goal
    BY <1>0, <1>1, DueIsKept DEF DueIsPending
  <1>2. CASE rows' = rows /\ stored' = stored /\ run'[t] = run[t]
    BY <1>1, <1>2 DEF Judged, Exists
  <1>3. CASE MonitorMark
    BY <1>1, <1>3, MarkFillsOneColumn, MarkKeepsRows, MarkKeepsFields DEF Judged
  <1>4. CASE Crash
    BY <1>4 DEF Crash, IdleRun
  <1>5. ASSUME NEW u \in Threads, Start(u) PROVE Goal
    <2>1. run'[u].pc = "collect" /\ \A x \in Threads \ {u} : run'[x] = run[x]
      BY <1>0, <1>5 DEF Start, IdleRun
    <2>2. QED
      BY <1>2, <1>5, <2>1 DEF Start, database
  <1>6. ASSUME NEW u \in Threads, NEW m \in Markets, NEW f \in Frames, Collect(u, m, f)
        PROVE  Goal
    BY <1>0, <1>6 DEF Collect, process
  <1>7. ASSUME NEW u \in Threads, Recommend(u) PROVE Goal
    <2>1. PICK F : run' = [run EXCEPT ![u].pc = "save", ![u].fresh = F]
      BY <1>7 DEF Recommend
    <2>2. run'[u].pc = "save" /\ \A x \in Threads \ {u} : run'[x] = run[x]
      BY <1>0, <2>1 DEF RunState
    <2>3. QED
      BY <1>2, <1>7, <2>2 DEF Recommend, database
  <1>8. ASSUME NEW u \in Threads, Save(u) PROVE Goal
    <2>1. run[u].pc = "save" /\ run'[u].pc = "announce"
          /\ \A x \in Threads \ {u} : run'[x] = run[x]
      BY <1>0, <1>8 DEF Save, RunState
    <2>2. QED
      BY <1>0, <2>1
  <1>9. ASSUME NEW u \in Threads, Announce(u) PROVE Goal
    <2>1. run'[u].pc = "list" /\ \A x \in Threads \ {u} : run'[x] = run[x]
      BY <1>0, <1>9 DEF Announce, RunState
    <2>2. QED
      BY <1>2, <1>9, <2>1 DEF Announce, database
  <1>10. ASSUME NEW u \in Threads, ListPending(u) PROVE Goal
    <2> DEFINE P == {[entry |-> x, target |-> rows[x].target, stop |-> rows[x].stop] :
                       x \in Unevaluated}
    <2>1. run' = [run EXCEPT ![u].pc = "evaluate", ![u].pending = P]
      BY <1>10 DEF ListPending
    <2>2. rows' = rows /\ stored' = stored
      BY <1>10 DEF ListPending, database
    <2>3. ASSUME e \in Unevaluated PROVE \E p \in P : p.entry = e
      <3> DEFINE p == [entry |-> e, target |-> rows[e].target, stop |-> rows[e].stop]
      <3>1. p \in P
        BY <2>3
      <3>2. p.entry = e
        OBVIOUS
      <3>3. QED
        BY <3>1, <3>2
    <2> HIDE DEF P
    <2>4. run'[u].pending = P /\ \A x \in Threads \ {u} : run'[x] = run[x]
      BY <1>0, <2>1 DEF RunState
    <2>5. CASE u = t
      <3>1. Exists(e)
        BY <2>2 DEF Due, Exists
      <3>2. QED
        BY <2>2, <2>3, <2>4, <2>5, <3>1 DEF Judged, Exists, Unevaluated
    <2>6. QED
      BY <1>2, <2>2, <2>4, <2>5
  <1>11. ASSUME NEW u \in Threads, NEW p \in run[u].pending, Evaluate(u, p) PROVE Goal
    <2>1. run[u].pc = "evaluate" /\ stored' = stored
          /\ run' = [run EXCEPT ![u].pending = @ \ {p}] /\ p.entry \in Entry
      BY <1>11, EvaluateSettlesOneRow DEF Evaluate
    <2>2. u = t
      BY <1>0, <2>1
    <2>3. /\ run'[t].pending = run[t].pending \ {p} /\ run'[t].skipped = run[t].skipped
          /\ run'[t].now = run[t].now
      BY <1>0, <2>1, <2>2 DEF RunState
    <2>4. Exists(e)' <=> Exists(e)
      BY <1>11, EvaluateKeepsRows
    <2>5. Due(e, t)
      BY <2>1, <2>3, <2>4, DueIsKept
    <2>6. CASE p.entry = e
      BY <1>11, <2>2, <2>5, <2>6, DueRowsAreJudged
    <2>7. CASE p.entry # e
      <3>1. Judged(e) => Judged(e)'
        <4>1. rows'[e] = rows[e]
          <5>1. CASE rows' # rows
            <6>1. PICK v \in Verdicts(p, run[u].now) :
                    /\ v \in Outcome
                    /\ rows' = [rows EXCEPT ![p.entry] = [rows[p.entry] EXCEPT !.outcome = v]]
              BY ZenonT(30), <1>11, <5>1, EvaluateSettlesOneRow
            <6>2. QED
              BY <2>7, <6>1 DEF IInv, TypeOK
          <5>2. QED
            BY <5>1
        <4>2. QED
          BY <4>1 DEF Judged, Exists
      <3>2. QED
        BY <1>0, <2>1, <2>2, <2>3, <2>5, <2>7, <3>1 DEF DueIsPending
    <2>8. QED
      BY <2>6, <2>7
  <1>12. ASSUME NEW u \in Threads, NEW p \in run[u].pending, EvaluateFails(u, p) PROVE Goal
    <2>1. /\ run[u].pc = "evaluate" /\ stored' = stored /\ rows' = rows
          /\ run' = [run EXCEPT ![u].pending = @ \ {p}, ![u].skipped = @ \cup {p.entry}]
      BY <1>12 DEF EvaluateFails, database
    <2>2. u = t
      BY <1>0, <2>1
    <2>3. /\ run'[t].pending = run[t].pending \ {p}
          /\ run'[t].skipped = run[t].skipped \cup {p.entry}
          /\ run'[t].now = run[t].now
      BY <1>0, <2>1, <2>2 DEF RunState
    <2>4. Due(e, t) /\ (Judged(e) => Judged(e)')
      BY <2>1, <2>3, DueIsKept DEF Exists, Judged
    <2>5. QED
      BY <1>0, <2>1, <2>2, <2>3, <2>4 DEF DueIsPending
  <1>13. ASSUME NEW u \in Threads, Finish(u) \/ RunRaises(u) PROVE Goal
    <2>1. run'[u] = IdleRun /\ \A x \in Threads \ {u} : run'[x] = run[x]
      BY <1>0, <1>13 DEF Finish, RunRaises
    <2>2. rows' = rows /\ stored' = stored
      BY <1>13 DEF Finish, RunRaises, database
    <2>3. QED
      BY <1>2, <2>1, <2>2 DEF IdleRun
  <1>14. QED
    BY <1>2, <1>3, <1>4, <1>5, <1>6, <1>7, <1>8, <1>9, <1>10, <1>11, <1>12, <1>13
       DEF Next, PipelineStep, Proceed, MonitorStep, Tick, Restart, MonitorStart,
           MonitorFetch, MonitorSend, MonitorRaises, vars, database, process

-----------------------------------------------------------------------------
\* The monitor finds at most one event of a kind for a row, and a touch only when
\* the row has none.
LEMMA EventsAreSingle ==
  ASSUME NEW w \in Watched, now \in Time
  PROVE  /\ \A v \in EventsFor(w) : v.entry = w.entry /\ v.kind \in Kinds
         /\ \A v \in EventsFor(w) : v.kind = "touched" => w.touched = None
         /\ \A v, x \in EventsFor(w) : v.kind = x.kind => v = x
  <1> DEFINE e == w.entry
             bars == {b \in e.bar + 1 .. now : b <= e.bar + Reach}
             stops == StopBars(e, bars)
             ends == stops \cup TargetBars(e, bars)
             open == {b \in bars : w.touched = None /\ \A x \in ends : b < x}
             touches == TouchBars(e, open)
             At(kind, b) == [entry |-> e, kind |-> kind, at |-> b - 1]
  <1>1. EventsFor(w) = {At("touched", b) : b \in FirstOf(touches)}
                         \cup {At("stop", b) : b \in FirstOf(ends) \cap stops}
                         \cup {At("target", b) : b \in FirstOf(ends) \ stops}
    BY DEF EventsFor
  <1>2. bars \subseteq Int
    BY BarAssumption DEF Watched, Entry, Time
  <1>3. ends \subseteq Int /\ touches \subseteq Int /\ touches \subseteq open
    BY <1>2 DEF StopBars, TargetBars, TouchBars
  <1>4. \A a, b \in FirstOf(ends) : a = b
    BY <1>3, FirstOfIsUnique
  <1>5. \A a, b \in FirstOf(touches) : a = b
    BY <1>3, FirstOfIsUnique
  <1>6. \A b \in FirstOf(touches) : w.touched = None
    BY <1>3, FirstOfIsMember
  <1> HIDE DEF ends, stops, touches, bars
  <1>7. ASSUME NEW v \in EventsFor(w)
        PROVE  \/ v.kind = "touched" /\ \E b \in FirstOf(touches) : v = At("touched", b)
               \/ v.kind = "stop" /\ \E b \in FirstOf(ends) : v = At("stop", b)
               \/ v.kind = "target" /\ \E b \in FirstOf(ends) : v = At("target", b)
    BY <1>1
  <1>8. ASSUME NEW v \in EventsFor(w), NEW x \in EventsFor(w), v.kind = x.kind PROVE v = x
    BY <1>4, <1>5, <1>7, <1>8
  <1>9. QED
    BY <1>6, <1>7, <1>8 DEF Kinds

\* What the monitor is working on stays consistent with the table.
MonitorInv == WatchIsCurrent /\ MarksAreNew /\ RaisedIsUnsent /\ AlertedOnceAfterRecord

\* Fetching the bars of one row keeps the monitor's snapshot, marks and events right.
LEMMA FetchStep ==
  ASSUME IInv, NEW w \in mon.watch, MonitorFetch(w) PROVE MonitorInv'
  <1>0. /\ MonitorInv /\ mon \in MonitorState /\ w \in Watched /\ now \in Time
        /\ mon.watch \subseteq Watched
    BY DEF IInv, TypeOK, MonitorInv, MonitorState
  <1>1. UNCHANGED <<rows, alerts>> /\ mon.marks = {}
    BY DEF MonitorFetch, database, received
  <1>2. /\ mon'.watch = mon.watch \ {w} /\ mon'.raised = mon.raised
        /\ mon'.marks = EventsFor(w) \/ mon'.marks = {}
    BY <1>0, <1>1 DEF MonitorFetch, MonitorState
  <1>3. WatchIsCurrent' /\ RaisedIsUnsent' /\ AlertedOnceAfterRecord'
    BY <1>0, <1>1, <1>2
       DEF MonitorInv, WatchIsCurrent, RaisedIsUnsent, AlertedOnceAfterRecord, Exists
  <1>4. ASSUME NEW v \in EventsFor(w)
        PROVE  /\ Exists(v.entry) /\ rows[v.entry][v.kind] = None
               /\ \A u \in mon.watch \ {w} : u.entry # v.entry
               /\ \A x \in EventsFor(w) : x.entry = v.entry /\ x.kind = v.kind => x = v
    <2>1. /\ v.entry = w.entry /\ v.kind \in Kinds
          /\ v.kind = "touched" => w.touched = None
          /\ \A x \in EventsFor(w) : x.kind = v.kind => x = v
      BY <1>0, EventsAreSingle
    <2>2. /\ Exists(w.entry)
          /\ rows[w.entry].target = None /\ rows[w.entry].stop = None
          /\ rows[w.entry].touched = w.touched
          /\ \A x \in mon.watch : x.entry = w.entry => x = w
      BY <1>0 DEF MonitorInv, WatchIsCurrent
    <2>3. rows[w.entry][v.kind] = None
      <3>1. CASE v.kind = "touched"
        BY <2>1, <2>2, <3>1
      <3>2. CASE v.kind = "target"
        BY <2>2, <3>2
      <3>3. CASE v.kind = "stop"
        BY <2>2, <3>3
      <3>4. QED
        BY <2>1, <3>1, <3>2, <3>3 DEF Kinds
    <2>4. QED
      BY <2>1, <2>2, <2>3
  <1>5. MarksAreNew'
    BY <1>1, <1>2, <1>4 DEF MarksAreNew, Exists
  <1>6. QED
    BY <1>3, <1>5 DEF MonitorInv

\* Recording one event does.
LEMMA MarkStep == ASSUME IInv, MonitorMark PROVE MonitorInv'
  <1>0. MonitorInv /\ mon \in MonitorState /\ rows \in [Entry -> Row \cup {None}]
    BY DEF IInv, TypeOK, MonitorInv
  <1>1. PICK v \in mon.marks :
          /\ v \in Event /\ v.entry \in Entry /\ v.kind \in Kinds /\ v.at \in Time
          /\ rows[v.entry] \in Row /\ rows[v.entry][v.kind] = None
          /\ rows' = [rows EXCEPT ![v.entry] = [rows[v.entry] EXCEPT ![v.kind] = v.at]]
          /\ mon' = [mon EXCEPT !.marks = @ \ {v}, !.raised = @ \cup {v}]
          /\ UNCHANGED <<now, tape, stored, lock, run, sent, alerts>>
    BY MarkFillsOneColumn
  <1>2. /\ mon'.watch = mon.watch /\ mon'.marks = mon.marks \ {v}
        /\ mon'.raised = mon.raised \cup {v}
    BY <1>0, <1>1 DEF MonitorState
  <1>3. /\ mon.watch \subseteq Watched /\ mon.marks \subseteq Event /\ mon.raised \subseteq Event
        /\ \A x \in Watched \cup Event : x.entry \in Entry
        /\ \A x \in Event : x.kind \in Kinds
    BY <1>0 DEF MonitorState, Watched, Event
  <1>4. \A e \in Entry : Exists(e)' <=> Exists(e)
    BY MarkKeepsRows
  <1>5. \A e \in Entry : e # v.entry => rows'[e] = rows[e]
    BY <1>0, <1>1
  <1>6. /\ rows'[v.entry][v.kind] = v.at /\ v.at # None
        /\ \A k \in Kinds \ {v.kind} : rows'[v.entry][k] = rows[v.entry][k]
    BY <1>0, <1>1, NoneAssumption DEF Row, Kinds
  <1>7. \A e \in Entry, k \in Kinds :
          rows[e][k] # None => rows'[e][k] = rows[e][k]
    BY <1>1, <1>5, <1>6
  <1>8. WatchIsCurrent'
    <2>1. \A w \in mon.watch : w.entry # v.entry /\ w.entry \in Entry
      BY <1>0, <1>1, <1>3 DEF MonitorInv, MarksAreNew
    <2>2. \A w \in mon.watch : rows'[w.entry] = rows[w.entry]
      BY <1>5, <2>1
    <2>3. QED
      BY <1>0, <1>2, <2>2 DEF MonitorInv, WatchIsCurrent, Exists
  <1>9. MarksAreNew'
    <2>1. ASSUME NEW x \in mon.marks \ {v} PROVE rows'[x.entry][x.kind] = None
      <3>1. x.entry \in Entry /\ x.kind \in Kinds /\ rows[x.entry][x.kind] = None
        BY <1>0, <1>3 DEF MonitorInv, MarksAreNew
      <3>2. x.entry # v.entry \/ x.kind # v.kind
        BY <1>0, <1>1 DEF MonitorInv, MarksAreNew
      <3>3. QED
        BY <1>5, <1>6, <3>1, <3>2
    <2>2. \A x \in mon.marks : Exists(x.entry)'
      BY <1>0, <1>3, <1>4 DEF MonitorInv, MarksAreNew
    <2>3. QED
      BY <1>0, <1>2, <2>1, <2>2 DEF MonitorInv, MarksAreNew
  <1>10. RaisedIsUnsent'
    <2>1. Exists(v.entry)' /\ rows'[v.entry][v.kind] # None
      BY <1>0, <1>1, <1>4, <1>6 DEF MonitorInv, MarksAreNew
    <2>2. alerts[<<v.entry, v.kind>>] = 0
      <3>1. alerts[<<v.entry, v.kind>>] \in 0..2
        BY <1>1 DEF IInv, TypeOK
      <3>2. ~(alerts[<<v.entry, v.kind>>] > 0)
        BY <1>0, <1>1 DEF MonitorInv, AlertedOnceAfterRecord
      <3>3. QED
        BY <3>1, <3>2
    <2>3. ASSUME NEW x \in mon.raised
          PROVE  /\ Exists(x.entry)' /\ rows'[x.entry][x.kind] # None
                 /\ alerts[<<x.entry, x.kind>>] = 0
      BY <1>0, <1>3, <1>4, <1>7 DEF MonitorInv, RaisedIsUnsent
    <2>4. QED
      BY <1>1, <1>2, <2>1, <2>2, <2>3 DEF RaisedIsUnsent
  <1>11. AlertedOnceAfterRecord'
    <2>1. ASSUME NEW e \in Entry, NEW k \in Kinds, alerts[<<e, k>>] > 0
          PROVE  alerts[<<e, k>>] = 1 /\ Exists(e)' /\ rows'[e][k] # None
      BY <1>0, <1>4, <1>7, <2>1 DEF MonitorInv, AlertedOnceAfterRecord
    <2>2. QED
      BY <1>1, <2>1 DEF AlertedOnceAfterRecord
  <1>12. QED
    BY <1>8, <1>9, <1>10, <1>11 DEF MonitorInv

\* Sending the alerts does.
LEMMA SendStep == ASSUME IInv, MonitorSend PROVE MonitorInv'
  <1>0. RaisedIsUnsent /\ AlertedOnceAfterRecord /\ alerts \in [Entry \X Kinds -> 0..2]
    BY DEF IInv, TypeOK
  <1>1. rows' = rows /\ mon' = IdleMonitor
    BY DEF MonitorSend, database
  <1>2. \A e \in Entry, k \in Kinds :
          alerts'[<<e, k>>] = IF \E v \in mon.raised : e = v.entry /\ k = v.kind
                              THEN Count(alerts[<<e, k>>]) ELSE alerts[<<e, k>>]
    BY DEF MonitorSend
  <1>3. AlertedOnceAfterRecord'
    <2> SUFFICES ASSUME NEW e \in Entry, NEW k \in Kinds, alerts'[<<e, k>>] > 0
                 PROVE  alerts'[<<e, k>>] = 1 /\ Exists(e) /\ rows[e][k] # None
      BY <1>1 DEF AlertedOnceAfterRecord, Exists
    <2>1. CASE \E v \in mon.raised : e = v.entry /\ k = v.kind
      <3>1. alerts[<<e, k>>] = 0 /\ Exists(e) /\ rows[e][k] # None
        BY <1>0, <2>1 DEF RaisedIsUnsent
      <3>2. QED
        BY <1>2, <2>1, <3>1 DEF Count
    <2>2. CASE ~\E v \in mon.raised : e = v.entry /\ k = v.kind
      BY <1>0, <1>2, <2>2 DEF AlertedOnceAfterRecord
    <2>3. QED
      BY <2>1, <2>2
  <1>4. QED
    BY <1>1, <1>3 DEF MonitorInv, IdleMonitor, WatchIsCurrent, MarksAreNew, RaisedIsUnsent

\* So does every step of the program.
LEMMA MonitorInvStep == IInv /\ [Next]_vars => MonitorInv'
  <1> SUFFICES ASSUME IInv, [Next]_vars PROVE MonitorInv'
    OBVIOUS
  <1>0. /\ MonitorInv /\ mon \in MonitorState /\ rows \in [Entry -> Row \cup {None}]
        /\ mon.watch \subseteq Watched /\ mon.marks \subseteq Event /\ mon.raised \subseteq Event
        /\ \A x \in Watched \cup Event : x.entry \in Entry
        /\ \A x \in Event : x.kind \in Kinds
    BY DEF IInv, TypeOK, MonitorInv, MonitorState, Watched, Event
  \* The steps of the pipeline change no column that the monitor writes.
  <1>1. ASSUME mon' = mon, alerts' = alerts,
               \A e \in Entry : Exists(e) =>
                 Exists(e)' /\ \A k \in Kinds : rows'[e][k] = rows[e][k]
        PROVE  MonitorInv'
    <2>1. WatchIsCurrent'
      BY <1>0, <1>1 DEF MonitorInv, WatchIsCurrent, Kinds
    <2>2. MarksAreNew' /\ RaisedIsUnsent'
      BY <1>0, <1>1 DEF MonitorInv, MarksAreNew, RaisedIsUnsent
    <2>3. AlertedOnceAfterRecord'
      BY <1>0, <1>1 DEF MonitorInv, AlertedOnceAfterRecord
    <2>4. QED
      BY <2>1, <2>2, <2>3 DEF MonitorInv
  <1>2. CASE UNCHANGED <<rows, mon, alerts>>
    BY <1>1, <1>2 DEF Exists
  \* A monitor that stops keeps what it has recorded and sent.
  <1>3. ASSUME rows' = rows, mon' = IdleMonitor, alerts' = alerts PROVE MonitorInv'
    BY <1>0, <1>3 DEF MonitorInv, IdleMonitor, WatchIsCurrent, MarksAreNew, RaisedIsUnsent,
                      AlertedOnceAfterRecord, Exists
  <1>4. CASE Crash \/ MonitorRaises
    BY <1>3, <1>4 DEF Crash, MonitorRaises, database, received
  <1>5. CASE MonitorStart
    <2> DEFINE W == {[entry |-> e, touched |-> rows[e].touched] :
                       e \in {x \in Entry : Monitorable(x)}}
    <2>1. mon' = [pc |-> "check", watch |-> W, marks |-> {}, raised |-> {}]
      BY <1>5 DEF MonitorStart, IdleMonitor
    <2>2. rows' = rows /\ alerts' = alerts
      BY <1>5 DEF MonitorStart, database, received
    <2>3. ASSUME NEW w \in W
          PROVE  /\ Exists(w.entry)
                 /\ rows[w.entry].target = None /\ rows[w.entry].stop = None
                 /\ rows[w.entry].touched = w.touched
                 /\ \A x \in W : x.entry = w.entry => x = w
      BY DEF Monitorable
    <2> HIDE DEF W
    <2>4. mon'.watch = W /\ mon'.marks = {} /\ mon'.raised = {}
      BY <2>1
    <2>5. QED
      BY <1>0, <2>2, <2>3, <2>4
         DEF MonitorInv, WatchIsCurrent, MarksAreNew, RaisedIsUnsent, AlertedOnceAfterRecord, Exists
  <1>6. ASSUME NEW t \in Threads, Save(t) PROVE MonitorInv'
    <2>1. mon' = mon /\ alerts' = alerts
      BY <1>6 DEF Save, received
    <2>2. \A e \in Entry : Exists(e) => Exists(e)' /\ rows'[e] = rows[e]
      BY <1>6, SaveAddsFreshRows
    <2>3. QED
      BY <1>1, <2>1, <2>2
  <1>7. ASSUME NEW t \in Threads, NEW p \in run[t].pending, Evaluate(t, p) PROVE MonitorInv'
    <2>1. mon' = mon /\ alerts' = alerts /\ p.entry \in Entry /\ rows[p.entry] \in Row
      BY <1>7, EvaluateSettlesOneRow
    <2>2. ASSUME NEW e \in Entry, NEW k \in Kinds PROVE rows'[e][k] = rows[e][k]
      <3>1. CASE rows' = rows
        BY <3>1
      <3>2. CASE rows' # rows
        <4>1. PICK v \in Verdicts(p, run[t].now) :
                /\ v \in Outcome
                /\ rows' = [rows EXCEPT ![p.entry] = [rows[p.entry] EXCEPT !.outcome = v]]
          BY ZenonT(30), <1>7, <3>2, EvaluateSettlesOneRow
        <4>2. [rows[p.entry] EXCEPT !.outcome = v][k] = rows[p.entry][k]
          BY <2>1 DEF Row, Kinds
        <4>3. QED
          BY <1>0, <2>1, <4>1, <4>2
      <3>3. QED
        BY <3>1, <3>2
    <2>3. QED
      BY <1>1, <1>7, <2>1, <2>2, EvaluateKeepsRows
  <1>8. QED
    BY <1>2, <1>4, <1>5, <1>6, <1>7, FetchStep, MarkStep, SendStep
       DEF Next, PipelineStep, Proceed, MonitorStep, Tick, Restart, Start, Collect, Recommend,
           Announce, ListPending, EvaluateFails, Finish, RunRaises, vars, database, process, received

-----------------------------------------------------------------------------
\* A first end stays one: later bars come after it, and closed bars keep their prices.
LEMMA FirstEndIsKept ==
  ASSUME IInv, [Next]_vars, NEW e \in Entry, Exists(e), NEW kind, NEW at \in Int,
         IsFirstEnd(e, kind, at)
  PROVE  IsFirstEnd(e, kind, at)'
  <1> DEFINE bars == e.bar + 1 .. now
             stops == StopBars(e, bars)
             targets == TargetBars(e, bars)
  <1>1. now' \in Int /\ now <= now'
    BY ClockStep
  <1>2. /\ e.market \in Markets /\ e.bar \in Time /\ e.bar <= now /\ now \in Time
        /\ e.bar \in Int /\ now \in Int
    BY BarAssumption DEF IInv, TypeOK, OnlyClosedBars, Entry, Time
  <1>3. \A b \in bars : b \in Time /\ b <= now
    BY <1>2, BarAssumption DEF Time
  <1>4. EntryPrice(e)' = EntryPrice(e) /\ \A b \in bars : tape'[e.market][b] = tape[e.market][b]
    BY <1>2, <1>3, PricesAreKept DEF EntryPrice
  <1>5. \A b \in bars' : b \in Int /\ (b \in bars \/ b > now)
    BY <1>1, <1>2
  <1>6. bars \subseteq bars'
    BY <1>1, <1>2
  <1> HIDE DEF bars
  <1>7. \A b \in bars : (b \in stops' <=> b \in stops) /\ (b \in targets' <=> b \in targets)
    BY <1>4, <1>6 DEF StopBars, TargetBars
  <1>8. \A b \in stops' \cup targets' : b \in stops \cup targets \/ b > now
    BY <1>5, <1>7 DEF StopBars, TargetBars
  <1>9. stops \cup targets \subseteq bars
    BY DEF StopBars, TargetBars
  <1>10. /\ at + 1 \in stops \cup targets /\ \A b \in stops \cup targets : b > at
         /\ kind = "stop" <=> at + 1 \in stops
    BY DEF IsFirstEnd, bars
  <1>11. now >= at + 1
    BY <1>2, <1>9, <1>10 DEF bars
  <1>12. \A x \in stops' \cup targets' : x > at
    <2>1. ASSUME NEW x \in stops' \cup targets', x > now PROVE x > at
      <3>1. x \in Int
        BY <1>5 DEF StopBars, TargetBars
      <3>2. QED
        BY <1>2, <1>11, <2>1, <3>1
    <2>2. QED
      BY <1>8, <1>10, <2>1
  <1>13. /\ at + 1 \in stops' \cup targets'
         /\ kind = "stop" <=> at + 1 \in stops'
    BY <1>7, <1>9, <1>10
  <1>15. QED
    BY <1>12, <1>13 DEF IsFirstEnd, bars

\* A target or stop that the monitor finds is the first end of its row, even when the
\* bars it could read are not all there are, and its last event.
LEMMA EventsEndTheRecord ==
  ASSUME IInv, NEW w \in mon.watch, NEW v \in EventsFor(w), v.kind # "touched"
  PROVE  /\ IsFirstEnd(w.entry, v.kind, v.at)
         /\ \A x \in EventsFor(w) : x # v => x.at < v.at
  <1> DEFINE e == w.entry
             all == e.bar + 1 .. now
             bars == {b \in e.bar + 1 .. now : b <= e.bar + Reach}
             stops == StopBars(e, bars)
             ends == stops \cup TargetBars(e, bars)
             open == {b \in bars : w.touched = None /\ \A x \in ends : b < x}
             touches == TouchBars(e, open)
             At(kind, b) == [entry |-> e, kind |-> kind, at |-> b - 1]
  <1>1. EventsFor(w) = {At("touched", b) : b \in FirstOf(touches)}
                         \cup {At("stop", b) : b \in FirstOf(ends) \cap stops}
                         \cup {At("target", b) : b \in FirstOf(ends) \ stops}
    BY DEF EventsFor
  <1>2. e.bar \in Int /\ now \in Int /\ Reach \in Int
    BY BarAssumption DEF IInv, TypeOK, MonitorState, Watched, Entry, Time
  <1>3. all \subseteq Int /\ bars \subseteq all
    BY <1>2
  <1>4. ends \subseteq bars /\ stops \subseteq ends /\ touches \subseteq open
    BY DEF StopBars, TargetBars, TouchBars
  <1>5. \A b \in bars : b \in StopBars(e, all) <=> b \in stops
    BY <1>3 DEF StopBars
  <1>6. \A b \in StopBars(e, all) \cup TargetBars(e, all) :
          b \in Int /\ (b \in ends \/ b > e.bar + Reach)
    BY <1>2, <1>3 DEF StopBars, TargetBars
  <1>7. ends \subseteq StopBars(e, all) \cup TargetBars(e, all)
    BY <1>3 DEF StopBars, TargetBars
  <1>8. \A b \in bars : b <= e.bar + Reach
    OBVIOUS
  <1>9. \A c \in open : c \in bars /\ \A x \in ends : c < x
    OBVIOUS
  <1> HIDE DEF e, all, bars, stops, ends, open, touches
  <1>10. PICK b \in FirstOf(ends) :
           \/ v = At("stop", b) /\ b \in stops
           \/ v = At("target", b) /\ b \notin stops
    BY <1>1
  <1>11. b \in ends /\ b \in bars /\ b \in Int /\ \A x \in ends : b <= x
    BY <1>3, <1>4, <1>10 DEF FirstOf
  <1>12. v.at = b - 1 /\ v.at + 1 = b
    BY <1>10, <1>11
  <1>13. \A x \in StopBars(e, all) \cup TargetBars(e, all) : x > v.at
    BY <1>2, <1>6, <1>8, <1>11, <1>12
  <1>14. /\ v.at + 1 \in StopBars(e, all) \cup TargetBars(e, all)
         /\ v.kind = "stop" <=> v.at + 1 \in StopBars(e, all)
    BY <1>5, <1>7, <1>10, <1>11, <1>12
  <1>15. IsFirstEnd(e, v.kind, v.at)
    BY <1>13, <1>14 DEF IsFirstEnd, all
  <1>16. ASSUME NEW x \in EventsFor(w), x # v PROVE x.at < v.at
    <2>1. CASE \E c \in FirstOf(touches) : x = At("touched", c)
      <3>1. PICK c \in FirstOf(touches) : x = At("touched", c)
        BY <2>1
      <3>2. c \in open
        BY <1>4, FirstOfIsMember
      <3>3. c \in Int /\ c < b
        BY <1>3, <1>9, <1>11, <3>2
      <3>4. QED
        BY <1>11, <1>12, <3>1, <3>3
    <2>2. CASE \E c \in FirstOf(ends) : \/ x = At("stop", c) /\ c \in stops
                                        \/ x = At("target", c) /\ c \notin stops
      <3>1. PICK c \in FirstOf(ends) : \/ x = At("stop", c) /\ c \in stops
                                       \/ x = At("target", c) /\ c \notin stops
        BY <2>2
      <3>2. c = b
        BY <1>3, <1>4, <1>10, FirstOfIsUnique
      <3>3. QED
        BY <1>10, <1>16, <3>1, <3>2
    <2>3. QED
      BY <1>1, <2>1, <2>2
  <1>17. QED
    BY <1>15, <1>16 DEF e

\* The record of ends, and what is about to be added to it.
EndInv == FirstTouchIsRecorded /\ MarksEndTheRecord

\* What ended a trade is read from the prices alone.
LEMMA FirstEndIsOfPrices ==
  ASSUME now' = now, tape' = tape
  PROVE  \A e, kind, at : IsFirstEnd(e, kind, at)' <=> IsFirstEnd(e, kind, at)
  <1> SUFFICES ASSUME NEW e, NEW kind, NEW at
               PROVE  IsFirstEnd(e, kind, at)' <=> IsFirstEnd(e, kind, at)
    OBVIOUS
  <1>1. \A bars : StopBars(e, bars)' = StopBars(e, bars) /\ TargetBars(e, bars)' = TargetBars(e, bars)
    BY DEF StopBars, TargetBars, EntryPrice
  <1>2. (e.bar + 1 .. now)' = (e.bar + 1 .. now)
    OBVIOUS
  <1>3. QED
    BY <1>1, <1>2 DEF IsFirstEnd

\* A step that leaves the ends of every row alone, and adds no marks, keeps it.
LEMMA EndsLeftAlone ==
  ASSUME IInv, [Next]_vars, mon'.marks \subseteq mon.marks,
         \A e \in Entry : /\ Exists(e) => Exists(e)'
                          /\ Exists(e) => rows'[e].target = rows[e].target
                          /\ Exists(e) => rows'[e].stop = rows[e].stop
                          /\ ~Exists(e) /\ Exists(e)' =>
                                rows'[e].target = None /\ rows'[e].stop = None
  PROVE  EndInv'
  <1>1. FirstTouchIsRecorded'
    <2> SUFFICES ASSUME NEW e \in Entry, NEW kind \in {"stop", "target"},
                        Exists(e)', rows'[e][kind] # None
                 PROVE  IsFirstEnd(e, kind, rows[e][kind])'
      BY DEF FirstTouchIsRecorded
    <2>1. Exists(e) /\ rows'[e][kind] = rows[e][kind]
      <3>1. CASE kind = "stop"
        BY <3>1
      <3>2. CASE kind = "target"
        BY <3>2
      <3>3. QED
        BY <3>1, <3>2
    <2>2. IsFirstEnd(e, kind, rows[e][kind])
      BY <2>1 DEF IInv, FirstTouchIsRecorded
    <2> DEFINE at == rows[e][kind]
    <2>3. IsFirstEnd(e, kind, at) /\ at \in Int
      <3>1. rows[e] \in Row
        BY <2>1 DEF IInv, TypeOK, Exists
      <3>2. QED
        BY <2>1, <2>2, <3>1, BarAssumption DEF Row, Time
    <2> HIDE DEF at
    <2>4. \A a \in Int : IsFirstEnd(e, kind, a) => IsFirstEnd(e, kind, a)'
      BY <2>1, FirstEndIsKept
    <2>5. QED
      BY <2>1, <2>3, <2>4 DEF at, IsFirstEnd
  <1>2. MarksEndTheRecord'
    <2> SUFFICES ASSUME NEW v \in mon'.marks
                 PROVE  /\ Exists(v.entry)'
                        /\ rows'[v.entry].target = None /\ rows'[v.entry].stop = None
                        /\ v.kind # "touched" =>
                              /\ IsFirstEnd(v.entry, v.kind, v.at)'
                              /\ \A x \in mon'.marks : x.entry = v.entry /\ x # v => x.at < v.at
      BY DEF MarksEndTheRecord, IsFirstEnd, Exists
    <2>1. v \in mon.marks /\ v.entry \in Entry /\ v.at \in Int
      BY BarAssumption DEF IInv, TypeOK, MonitorState, Event, Time
    <2>2. /\ Exists(v.entry) /\ rows[v.entry].target = None /\ rows[v.entry].stop = None
          /\ v.kind # "touched" =>
                /\ IsFirstEnd(v.entry, v.kind, v.at)
                /\ \A x \in mon.marks : x.entry = v.entry /\ x # v => x.at < v.at
      BY <2>1 DEF IInv, MarksEndTheRecord
    <2>3. QED
      BY <2>1, <2>2, FirstEndIsKept
  <1>3. QED
    BY <1>1, <1>2 DEF EndInv

\* Recording an event keeps it: an end is recorded in a row that has none, after the
\* touch of the entry price, and takes the last mark of the row.
LEMMA MarkKeepsEnds == ASSUME IInv, MonitorMark PROVE EndInv'
  <1>0. /\ mon \in MonitorState /\ rows \in [Entry -> Row \cup {None}]
        /\ mon.marks \subseteq Event /\ \A x \in Event : x.entry \in Entry /\ x.at \in Int
        /\ [Next]_vars
    BY BarAssumption DEF IInv, TypeOK, MonitorState, Event, Time, Next, MonitorStep
  <1>1. PICK v \in mon.marks :
          /\ v \in Event /\ v.entry \in Entry /\ v.kind \in Kinds /\ v.at \in Time
          /\ \A x \in mon.marks : v.at <= x.at
          /\ rows[v.entry] \in Row /\ rows[v.entry][v.kind] = None
          /\ rows' = [rows EXCEPT ![v.entry] = [rows[v.entry] EXCEPT ![v.kind] = v.at]]
          /\ mon' = [mon EXCEPT !.marks = @ \ {v}, !.raised = @ \cup {v}]
    BY MarkFillsOneColumn
  <1>2. mon'.marks = mon.marks \ {v}
    BY <1>0, <1>1 DEF MonitorState
  <1>3. \A e \in Entry : Exists(e)' <=> Exists(e)
    BY MarkKeepsRows
  <1>4. \A e \in Entry : e # v.entry => rows'[e] = rows[e]
    BY <1>0, <1>1
  <1>5. /\ Exists(v.entry) /\ rows[v.entry].target = None /\ rows[v.entry].stop = None
        /\ v.kind # "touched" =>
              /\ IsFirstEnd(v.entry, v.kind, v.at)
              /\ \A x \in mon.marks : x.entry = v.entry /\ x # v => x.at < v.at
    BY <1>1 DEF IInv, MarksEndTheRecord
  <1>6. rows'[v.entry] = [rows[v.entry] EXCEPT ![v.kind] = v.at]
    BY <1>0, <1>1
  <1>7. CASE v.kind = "touched"
    <2>1. rows'[v.entry].target = None /\ rows'[v.entry].stop = None
      BY <1>1, <1>5, <1>6, <1>7 DEF Row
    <2>2. QED
      BY <1>0, <1>2, <1>3, <1>4, <1>5, <2>1, EndsLeftAlone
  <1>8. CASE v.kind # "touched"
    <2>1. \A x \in mon'.marks : x.entry # v.entry
      BY <1>0, <1>1, <1>2, <1>5, <1>8
    <2>2. MarksEndTheRecord'
      <3> SUFFICES ASSUME NEW u \in mon'.marks
                   PROVE  /\ Exists(u.entry)'
                          /\ rows'[u.entry].target = None /\ rows'[u.entry].stop = None
                          /\ u.kind # "touched" =>
                                /\ IsFirstEnd(u.entry, u.kind, u.at)'
                                /\ \A x \in mon'.marks : x.entry = u.entry /\ x # u => x.at < u.at
        BY DEF MarksEndTheRecord, IsFirstEnd, Exists
      <3>1. u \in mon.marks /\ u.entry \in Entry /\ u.entry # v.entry /\ u.at \in Int
        BY <1>0, <1>2, <2>1
      <3>2. /\ Exists(u.entry) /\ rows[u.entry].target = None /\ rows[u.entry].stop = None
            /\ u.kind # "touched" =>
                  /\ IsFirstEnd(u.entry, u.kind, u.at)
                  /\ \A x \in mon.marks : x.entry = u.entry /\ x # u => x.at < u.at
        BY <3>1 DEF IInv, MarksEndTheRecord
      <3>3. QED
        BY <1>0, <1>2, <1>3, <1>4, <3>1, <3>2, FirstEndIsKept
    <2>3. FirstTouchIsRecorded'
      <3> SUFFICES ASSUME NEW e \in Entry, NEW kind \in {"stop", "target"},
                          Exists(e)', rows'[e][kind] # None
                   PROVE  IsFirstEnd(e, kind, rows[e][kind])'
        BY DEF FirstTouchIsRecorded
      <3>1. PICK at \in Int : at = rows'[e][kind] /\ IsFirstEnd(e, kind, at)
        <4>1. CASE e # v.entry
          <5>1. rows'[e] = rows[e] /\ Exists(e) /\ rows[e] \in Row
            BY <1>0, <1>3, <1>4, <4>1 DEF Exists
          <5>2. rows[e][kind] \in Int
            BY <5>1, BarAssumption DEF Row, Time
          <5>3. IsFirstEnd(e, kind, rows[e][kind])
            BY <5>1 DEF IInv, FirstTouchIsRecorded
          <5>4. QED
            BY <5>1, <5>2, <5>3
        <4>2. CASE e = v.entry
          <5>1. kind = v.kind /\ rows'[e][kind] = v.at
            BY <1>1, <1>5, <1>6, <4>2 DEF Row, Kinds
          <5>2. QED
            BY <1>0, <1>1, <1>5, <1>8, <4>2, <5>1
        <4>3. QED
          BY <4>1, <4>2
      <3>2. Exists(e) /\ IsFirstEnd(e, kind, at)'
        BY <1>0, <1>3, <3>1, FirstEndIsKept
      <3>3. QED
        BY <3>1, <3>2 DEF IsFirstEnd
    <2>4. QED
      BY <2>2, <2>3 DEF EndInv
  <1>9. QED
    BY <1>7, <1>8

\* So does every step of the program.
LEMMA EndStep == IInv /\ [Next]_vars => EndInv'
  <1> SUFFICES ASSUME IInv, [Next]_vars PROVE EndInv'
    OBVIOUS
  <1>0. /\ mon \in MonitorState /\ rows \in [Entry -> Row \cup {None}]
        /\ mon.watch \subseteq Watched /\ \A w \in Watched : w.entry \in Entry
    BY DEF IInv, TypeOK, MonitorState, Watched
  <1>1. CASE rows' = rows /\ mon'.marks \subseteq mon.marks
    BY <1>1, EndsLeftAlone DEF Exists
  <1>2. CASE Crash \/ MonitorRaises \/ MonitorSend
    BY <1>1, <1>2 DEF Crash, MonitorRaises, MonitorSend, database, IdleMonitor
  <1>3. CASE MonitorStart
    <2>1. PICK W : mon' = [IdleMonitor EXCEPT !.pc = "check", !.watch = W]
      BY <1>3 DEF MonitorStart
    <2>2. mon'.marks = {} /\ rows' = rows
      BY <1>3, <2>1 DEF MonitorStart, IdleMonitor, database
    <2>3. QED
      BY <1>1, <2>2
  <1>4. ASSUME NEW w \in mon.watch, MonitorFetch(w) PROVE EndInv'
    <2>1. rows' = rows /\ mon.marks = {} /\ now' = now /\ tape' = tape
      BY <1>4 DEF MonitorFetch, database, exchange
    <2>a. mon \in MonitorState
      BY <1>0
    <2>2. CASE mon' = [mon EXCEPT !.watch = @ \ {w}]
      <3>1. mon'.marks = {}
        BY <2>1, <2>2, <2>a DEF MonitorState
      <3>2. QED
        BY <1>1, <2>1, <3>1
    <2>3. CASE mon' = [mon EXCEPT !.watch = @ \ {w}, !.marks = EventsFor(w)]
      <3>1. mon'.marks = EventsFor(w)
        BY <2>3, <2>a DEF MonitorState
      <3>2. FirstTouchIsRecorded'
        <4> SUFFICES ASSUME NEW e \in Entry, NEW kind \in {"stop", "target"},
                            Exists(e)', rows'[e][kind] # None
                     PROVE  IsFirstEnd(e, kind, rows[e][kind])'
          BY DEF FirstTouchIsRecorded
        <4> DEFINE at == rows[e][kind]
        <4>1. Exists(e) /\ at # None /\ at' = at
          BY <2>1 DEF Exists
        <4>2. IsFirstEnd(e, kind, at)
          BY <4>1 DEF IInv, FirstTouchIsRecorded
        <4> HIDE DEF at
        <4>3. \A a : IsFirstEnd(e, kind, a)' <=> IsFirstEnd(e, kind, a)
          BY <2>1, FirstEndIsOfPrices
        <4>4. QED
          BY <4>1, <4>2, <4>3 DEF at, IsFirstEnd
      <3>3. ASSUME NEW v \in EventsFor(w)
            PROVE  /\ Exists(v.entry) /\ rows[v.entry].target = None /\ rows[v.entry].stop = None
                   /\ v.kind # "touched" =>
                         /\ IsFirstEnd(v.entry, v.kind, v.at)
                         /\ \A x \in EventsFor(w) : x.entry = v.entry /\ x # v => x.at < v.at
        <4>1. v.entry = w.entry
          BY <1>0, EventsAreSingle DEF IInv, TypeOK
        <4>2. Exists(w.entry) /\ rows[w.entry].target = None /\ rows[w.entry].stop = None
          BY DEF IInv, WatchIsCurrent
        <4>3. QED
          BY <4>1, <4>2, EventsEndTheRecord
      <3>4. MarksEndTheRecord'
        <4> SUFFICES ASSUME NEW v \in mon'.marks
                     PROVE  /\ Exists(v.entry)'
                            /\ rows'[v.entry].target = None /\ rows'[v.entry].stop = None
                            /\ v.kind # "touched" =>
                                  /\ IsFirstEnd(v.entry, v.kind, v.at)'
                                  /\ \A x \in mon'.marks : x.entry = v.entry /\ x # v => x.at < v.at
          BY DEF MarksEndTheRecord, IsFirstEnd, Exists
        <4>1. IsFirstEnd(v.entry, v.kind, v.at)' <=> IsFirstEnd(v.entry, v.kind, v.at)
          BY <2>1, FirstEndIsOfPrices
        <4>2. Exists(v.entry)' <=> Exists(v.entry)
          BY <2>1 DEF Exists
        <4>3. QED
          BY <2>1, <3>1, <3>3, <4>1, <4>2
      <3>5. QED
        BY <3>2, <3>4 DEF EndInv
    <2>4. QED
      BY <1>4, <2>2, <2>3 DEF MonitorFetch
  <1>5. ASSUME NEW t \in Threads, Save(t) PROVE EndInv'
    <2>1. mon' = mon
      BY <1>5 DEF Save
    <2>2. ASSUME NEW e \in Entry
          PROVE  /\ Exists(e) => Exists(e)' /\ rows'[e] = rows[e]
                 /\ ~Exists(e) /\ Exists(e)' => rows'[e].target = None /\ rows'[e].stop = None
      <3>1. /\ Exists(e) => Exists(e)' /\ rows'[e] = rows[e]
            /\ ~Exists(e) /\ Exists(e)' => rows'[e] = NewRow(t)
        BY <1>5, SaveAddsFreshRows
      <3>2. NewRow(t).target = None /\ NewRow(t).stop = None
        BY DEF NewRow
      <3>3. QED
        BY <3>1, <3>2
    <2>3. QED
      BY <2>1, <2>2, EndsLeftAlone
  <1>6. ASSUME NEW t \in Threads, NEW p \in run[t].pending, Evaluate(t, p) PROVE EndInv'
    <2>1. mon' = mon
      BY <1>6, EvaluateSettlesOneRow
    <2>2. ASSUME NEW e \in Entry
          PROVE  rows'[e].target = rows[e].target /\ rows'[e].stop = rows[e].stop
      <3>1. CASE rows' = rows
        BY <3>1
      <3>2. CASE rows' # rows
        <4>1. PICK v \in Verdicts(p, run[t].now) :
                /\ v \in Outcome
                /\ rows' = [rows EXCEPT ![p.entry] = [rows[p.entry] EXCEPT !.outcome = v]]
          BY ZenonT(30), <1>6, <3>2, EvaluateSettlesOneRow
        <4>2. p.entry \in Entry /\ rows[p.entry] \in Row
          BY <1>6, EvaluateSettlesOneRow
        <4>3. LET row == [rows[p.entry] EXCEPT !.outcome = v]
              IN  row.target = rows[p.entry].target /\ row.stop = rows[p.entry].stop
          BY <4>2 DEF Row
        <4>4. QED
          BY <1>0, <4>1, <4>2, <4>3
      <3>3. QED
        BY <3>1, <3>2
    <2>3. QED
      BY <1>6, <2>1, <2>2, EvaluateKeepsRows, EndsLeftAlone
  <1>7. QED
    BY <1>1, <1>2, <1>3, <1>4, <1>5, <1>6, MarkKeepsEnds
       DEF Next, PipelineStep, Proceed, MonitorStep, Tick, Restart, Start, Collect, Recommend,
           Announce, ListPending, EvaluateFails, Finish, RunRaises, vars, database, process

-----------------------------------------------------------------------------
\* The inductive invariant holds when the program starts.
LEMMA InvInit == Init => IInv
  <1> SUFFICES ASSUME Init PROVE IInv
    OBVIOUS
  <1>1. TypeOK
    BY TypeInit
  <1>2. OnlyClosedBars
    <2>1. PICK q \in [Markets -> Quotes] : tape = [m \in Markets |-> <<q[m]>>]
      BY DEF Init
    <2>2. \A m \in Markets : Len(tape[m]) = 1
      BY <2>1
    <2>3. QED
      BY <2>2 DEF Init, OnlyClosedBars, Exists, IdleRun
  <1>3. LockHeldByTheRun
    BY ThreadAssumption DEF Init, LockHeldByTheRun, IdleRun
  <1>4. AnnouncedIsStored /\ AlertedOnceAfterRecord /\ OutcomeIsGrounded
    BY DEF Init, AnnouncedIsStored, AlertedOnceAfterRecord, OutcomeIsGrounded, Judged, Exists
  <1>5. FreshIsNew /\ PendingIsUnjudged /\ DueIsPending
    BY DEF Init, FreshIsNew, PendingIsUnjudged, DueIsPending, IdleRun
  <1>6. WatchIsCurrent /\ MarksAreNew /\ RaisedIsUnsent
    BY DEF Init, WatchIsCurrent, MarksAreNew, RaisedIsUnsent, IdleMonitor
  <1>7. FirstTouchIsRecorded /\ MarksEndTheRecord
    BY DEF Init, FirstTouchIsRecorded, MarksEndTheRecord, Exists, IdleMonitor
  <1>8. QED
    BY <1>1, <1>2, <1>3, <1>4, <1>5, <1>6, <1>7 DEF IInv

\* Every step keeps the inductive invariant.
LEMMA InvStep == IInv /\ [Next]_vars => IInv'
  BY TypeStep, ClosedStep, LockStep, AnnounceStep, GroundedStep, PendingStep, DueStep,
     MonitorInvStep, EndStep
     DEF IInv, MonitorInv, EndInv

\* The inductive invariant holds in every state of every run, crash and overlap of
\* the pipeline and the monitor, for any number of markets, tracks and threads.
THEOREM Invariance == Spec => []IInv
  <1>1. Init => IInv
    BY InvInit
  <1>2. IInv /\ [Next]_vars => IInv'
    BY InvStep
  <1>3. QED
    BY <1>1, <1>2, PTL DEF Spec

\* The state of the program has its type, including every column of every row.
THEOREM TypeCorrect == Spec => []TypeOK
  <1>1. IInv => TypeOK
    BY DEF IInv
  <1>2. QED
    BY <1>1, Invariance, PTL

\* Nothing reaches users that save_run has not stored before.
THEOREM StoredBeforeAnnounced == Spec => []AnnouncedIsStored
  <1>1. IInv => AnnouncedIsStored
    BY DEF IInv
  <1>2. QED
    BY <1>1, Invariance, PTL

\* At most one thread is inside run_recommendation_pipeline, and the lock is free
\* whenever none is.
THEOREM RunsAreExclusive == Spec => []LockHeldByTheRun
  <1>1. IInv => LockHeldByTheRun
    BY DEF IInv
  <1>2. QED
    BY <1>1, Invariance, PTL

\* run_price_monitor alerts an event at most once, and only after recording it.
THEOREM AlertsAreSentOnce == Spec => []AlertedOnceAfterRecord
  <1>1. IInv => AlertedOnceAfterRecord
    BY DEF IInv
  <1>2. QED
    BY <1>1, Invariance, PTL

\* evaluate_pending_outcomes judges by the monitor's record or, after the
\* deadline, by a price from before it.
THEOREM OutcomesAreGrounded == Spec => []OutcomeIsGrounded
  <1>1. IInv => OutcomeIsGrounded
    BY DEF IInv
  <1>2. QED
    BY <1>1, Invariance, PTL

\* What mark_price_event keeps is the first bar that reaches the target or the stop,
\* however the checks are skipped, cut short or repeated.
THEOREM FirstTouchesAreRecorded == Spec => []FirstTouchIsRecorded
  <1>1. IInv => FirstTouchIsRecorded
    BY DEF IInv
  <1>2. QED
    BY <1>1, Invariance, PTL

\* get_live_performance never takes back a trade it has counted, nor its result.
THEOREM CountedTradesAreKept == Spec => CountedTradesStand
  <1>1. IInv /\ [Next]_vars => [Resolved \subseteq Resolved' /\ Hits' \cap Resolved = Hits]_vars
    <2> SUFFICES ASSUME IInv, [Next]_vars, NEW e \in Entry, e \in Resolved
                 PROVE  e \in Resolved' /\ (e \in Hits' <=> e \in Hits)
      BY DEF Resolved, Hits
    <2>0. /\ Exists(e) /\ (rows[e].target # None \/ rows[e].stop # None)
          /\ rows \in [Entry -> Row \cup {None}]
      BY DEF Resolved, IInv, TypeOK
    <2>1. ASSUME Exists(e)', rows'[e].target = rows[e].target, rows'[e].stop = rows[e].stop
          PROVE  e \in Resolved' /\ (e \in Hits' <=> e \in Hits)
      BY <2>0, <2>1 DEF Resolved, Hits
    <2>2. CASE rows' = rows
      BY <2>0, <2>1, <2>2 DEF Exists
    <2>3. CASE MonitorMark
      <3>1. PICK v \in mon.marks :
              /\ v.entry \in Entry
              /\ rows' = [rows EXCEPT ![v.entry] = [rows[v.entry] EXCEPT ![v.kind] = v.at]]
        BY <2>3, MarkFillsOneColumn
      <3>2. v.entry # e
        BY <2>0 DEF IInv, MarksEndTheRecord
      <3>3. rows'[e] = rows[e]
        BY <2>0, <3>1, <3>2
      <3>4. QED
        BY <2>0, <2>1, <3>3 DEF Exists
    <2>4. ASSUME NEW t \in Threads, Save(t) PROVE e \in Resolved' /\ (e \in Hits' <=> e \in Hits)
      <3>1. Exists(e)' /\ rows'[e] = rows[e]
        BY <2>0, <2>4, SaveAddsFreshRows
      <3>2. QED
        BY <2>1, <3>1
    <2>5. ASSUME NEW t \in Threads, NEW p \in run[t].pending, Evaluate(t, p), rows' # rows
          PROVE  e \in Resolved' /\ (e \in Hits' <=> e \in Hits)
      <3>1. PICK v \in Verdicts(p, run[t].now) :
              /\ v \in Outcome
              /\ rows' = [rows EXCEPT ![p.entry] = [rows[p.entry] EXCEPT !.outcome = v]]
        BY ZenonT(30), <2>5, EvaluateSettlesOneRow
      <3>2. p.entry \in Entry /\ rows[p.entry] \in Row
        BY <2>5, EvaluateSettlesOneRow
      <3>3. LET row == [rows[p.entry] EXCEPT !.outcome = v]
            IN  row.target = rows[p.entry].target /\ row.stop = rows[p.entry].stop
        BY <3>2 DEF Row
      <3>4. rows'[e].target = rows[e].target /\ rows'[e].stop = rows[e].stop
        BY <2>0, <3>1, <3>2, <3>3
      <3>5. QED
        BY <2>0, <2>1, <2>5, <3>4, EvaluateKeepsRows
    <2>6. QED
      BY <2>2, <2>3, <2>4, <2>5
         DEF Next, PipelineStep, Proceed, MonitorStep, Tick, Crash, Restart, MonitorStart,
             MonitorFetch, MonitorSend, MonitorRaises, Start, Collect, Recommend, Announce,
             ListPending, EvaluateFails, Finish, RunRaises, vars, database
  <1>2. QED
    BY <1>1, Invariance, PTL DEF Spec, CountedTradesStand

\* No entry is announced again by a run that still remembers it.
THEOREM AnnouncedOnceWithinMemory == Spec => NoRepeatWithinMemory
  <1>1. IInv /\ [Next]_vars =>
          [\A e \in Entry : sent[e] > 0 /\ sent'[e] > sent[e] =>
              \E t \in Threads : run[t].pc = "announce" /\ e.bar < run[t].now - Memory]_vars
    <2> SUFFICES ASSUME IInv, [Next]_vars, NEW e \in Entry, sent[e] > 0, sent'[e] > sent[e]
                 PROVE  \E t \in Threads : run[t].pc = "announce" /\ e.bar < run[t].now - Memory
      OBVIOUS
    <2>0. sent[e] \in Int
      BY DEF IInv, TypeOK
    <2>1. CASE sent' = sent
      BY <2>0, <2>1
    <2>2. ASSUME NEW t \in Threads, Announce(t)
          PROVE  run[t].pc = "announce" /\ e.bar < run[t].now - Memory
      <3>1. run[t].pc = "announce"
        BY <2>2 DEF Announce
      <3>2. e \in run[t].fresh
        BY <2>0, <2>2 DEF Announce
      <3>3. QED
        BY <3>1, <3>2 DEF IInv, FreshIsNew
    <2>3. QED
      BY <2>1, <2>2, MarkFillsOneColumn, EvaluateSettlesOneRow
         DEF Next, PipelineStep, Proceed, MonitorStep, Tick, Crash, Restart, MonitorStart,
             MonitorFetch, MonitorSend, MonitorRaises, Start, Collect, Recommend, Save,
             ListPending, EvaluateFails, Finish, RunRaises, vars, received
  <1>2. QED
    BY <1>1, Invariance, PTL DEF Spec, NoRepeatWithinMemory

\* A verdict is never rewritten.
THEOREM OutcomesAreFinal == Spec => OutcomeIsFinal
  <1>1. IInv /\ [Next]_vars =>
          [\A e \in Entry : Judged(e) => rows'[e].outcome = rows[e].outcome]_vars
    <2> SUFFICES ASSUME IInv, [Next]_vars, NEW e \in Entry, Judged(e)
                 PROVE  rows'[e].outcome = rows[e].outcome
      OBVIOUS
    <2>1. CASE rows' = rows
      BY <2>1
    <2>2. CASE MonitorMark
      BY <2>2, MarkKeepsFields DEF Judged
    <2>3. ASSUME NEW t \in Threads, Save(t) PROVE rows'[e].outcome = rows[e].outcome
      <3>1. rows'[e] = rows[e]
        BY <2>3, SaveAddsFreshRows DEF Judged
      <3>2. QED
        BY <3>1
    <2>4. ASSUME NEW t \in Threads, NEW p \in run[t].pending, Evaluate(t, p), rows' # rows
          PROVE  rows'[e].outcome = rows[e].outcome
      <3>1. PICK v \in Verdicts(p, run[t].now) :
              /\ v \in Outcome
              /\ rows' = [rows EXCEPT ![p.entry] = [rows[p.entry] EXCEPT !.outcome = v]]
        BY ZenonT(30), <2>4, EvaluateSettlesOneRow
      <3>2. p.entry # e
        BY DEF IInv, PendingIsUnjudged, Judged
      <3>3. rows'[e] = rows[e]
        BY <3>1, <3>2 DEF IInv, TypeOK
      <3>4. QED
        BY <3>3
    <2>5. QED
      BY <2>1, <2>2, <2>3, <2>4
         DEF Next, PipelineStep, Proceed, MonitorStep, Tick, Crash, Restart, MonitorStart,
             MonitorFetch, MonitorSend, MonitorRaises, Start, Collect, Recommend, Announce,
             ListPending, EvaluateFails, Finish, RunRaises, vars, database
  <1>2. QED
    BY <1>1, Invariance, PTL DEF Spec, OutcomeIsFinal

\* A run of evaluate_pending_outcomes that returns has passed over no row it could have
\* judged, except one whose own judging raised.
THEOREM EvaluationsAreComplete == Spec => EvaluationIsComplete
  <1>1. IInv /\ [Next]_vars =>
          [\A t \in Threads : run[t].pc = "evaluate" /\ run'[t].pc = "idle" /\ up' =>
              \A e \in Entry : Due(e, t) => Judged(e)' \/ e \in run[t].skipped]_vars
    <2> SUFFICES ASSUME IInv, [Next]_vars, NEW t \in Threads,
                        run[t].pc = "evaluate", run'[t].pc = "idle", up',
                        NEW e \in Entry, Due(e, t)
                 PROVE  Judged(e)' \/ e \in run[t].skipped
      OBVIOUS
    <2>0. /\ DueIsPending /\ PendingIsUnjudged /\ LockHeldByTheRun
          /\ run \in [Threads -> RunState] /\ lock = t
          /\ \A u \in Threads : run[u].pc # "idle" => u = t
      BY DEF IInv, TypeOK, LockHeldByTheRun
    \* Every step but the return leaves the run busy.
    <2>1. ASSUME NEW u \in Threads, Finish(u)
          PROVE  Judged(e)' \/ e \in run[t].skipped
      <3>1. run[u].pc = "evaluate" /\ run[u].pending = {} /\ rows' = rows
        BY <2>1 DEF Finish, database
      <3>2. u = t
        BY <2>0, <3>1
      <3>3. QED
        BY <2>0, <3>1, <3>2 DEF DueIsPending, Judged, Exists
    <2>2. ASSUME NEW u \in Threads, RunRaises(u) PROVE FALSE
      BY <2>0, <2>2 DEF RunRaises
    <2>3. CASE Crash
      BY <2>3 DEF Crash
    <2>4. CASE run' = run
      BY <2>4
    <2>5. ASSUME NEW u \in Threads, Start(u) PROVE FALSE
      BY <2>0, <2>5, ThreadAssumption DEF Start
    <2>6. ASSUME NEW u \in Threads, Recommend(u) \/ Save(u) \/ Announce(u) \/ ListPending(u)
          PROVE  FALSE
      <3>1. run[u].pc \in {"collect", "save", "announce", "list"}
        BY <2>6 DEF Recommend, Save, Announce, ListPending
      <3>2. QED
        BY <2>0, <3>1
    <2>7. ASSUME NEW u \in Threads, NEW p \in run[u].pending,
                 Evaluate(u, p) \/ EvaluateFails(u, p)
          PROVE  FALSE
      <3>1. run'[u].pc = run[u].pc /\ run[u].pc = "evaluate"
        BY <2>0, <2>7 DEF Evaluate, EvaluateFails, RunState
      <3>2. QED
        BY <2>0, <3>1
    <2>8. QED
      BY <2>1, <2>2, <2>3, <2>4, <2>5, <2>6, <2>7
         DEF Next, PipelineStep, Proceed, MonitorStep, Tick, Restart, Collect, MonitorStart,
             MonitorFetch, MonitorMark, MonitorSend, MonitorRaises, vars, process
  <1>2. QED
    BY <1>1, Invariance, PTL DEF Spec, EvaluationIsComplete
=============================================================================
