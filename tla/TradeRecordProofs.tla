--------------------------- MODULE TradeRecordProofs ---------------------------
(* Proof that RecommendationLifecycle implements TradeRecord: every step of the *)
(* program is a step of the record or shows nothing.                            *)
EXTENDS RecommendationLifecycleProofs

\* A row is a trade, and is told apart from no row.
LEMMA TradesAreTyped ==
  ASSUME TypeOK, NEW e \in Entry, Exists(e)
  PROVE  /\ TradeOf(e) = [events |-> [k \in Kinds |-> rows[e][k]],
                          verdict |-> VerdictOf(rows[e].outcome)]
         /\ TradeOf(e) \in Trade /\ TradeOf(e) # None
  <1>1. rows[e] \in Row
    BY DEF TypeOK, Exists
  <1>2. [k \in Kinds |-> rows[e][k]] \in [Kinds -> Time \cup {None}]
    BY <1>1 DEF Row, Kinds
  <1>3. VerdictOf(rows[e].outcome) \in {"open", "success", "failure"}
    BY DEF VerdictOf
  <1>4. QED
    BY <1>2, <1>3, TradeAssumption DEF TradeOf, Trade

\* The record as the abstract module sees it.
trades == [e \in Entry |-> TradeOf(e)]
LEMMA RecordedMeansMarked ==
  ASSUME TypeOK, NEW e \in Entry
  PROVE  /\ Record!OnRecord(e) <=> Exists(e)
         /\ \A k \in Kinds : Record!Recorded(e, k) <=> Exists(e) /\ rows[e][k] # None
         /\ Record!Ended(e) <=> Exists(e) /\ (rows[e].target # None \/ rows[e].stop # None)
  <1>1. Record!OnRecord(e) <=> Exists(e)
    BY TradesAreTyped DEF Record!OnRecord, TradeOf
  <1>2. \A k \in Kinds : Record!Recorded(e, k) <=> Exists(e) /\ rows[e][k] # None
    BY <1>1, TradesAreTyped DEF Record!Recorded
  <1>3. QED
    BY <1>1, <1>2 DEF Record!Ended, Kinds

\* The program starts with an empty record.
LEMMA RecordInit == Init => Record!Init
  BY DEF Init, Record!Init, TradeOf, Exists

\* Saving a run puts its fresh entries on record.
LEMMA SavePublishes ==
  ASSUME IInv, NEW t \in Threads, Save(t) PROVE Record!Publish
  <1> DEFINE entries == {e \in Entry : ~Exists(e) /\ e \in run[t].fresh}
  <1>1. TypeOK /\ sent' = sent /\ alerts' = alerts
    BY DEF IInv, Save, received
  <1>2. ASSUME NEW e \in Entry
        PROVE  TradeOf(e)' = IF e \in entries THEN Record!Opened ELSE TradeOf(e)
    <2>1. /\ Exists(e)' <=> (Exists(e) \/ e \in run[t].fresh)
          /\ Exists(e) => rows'[e] = rows[e]
          /\ ~Exists(e) /\ Exists(e)' => rows'[e] = NewRow(t)
      BY SaveAddsFreshRows
    <2>2. CASE Exists(e)
      BY <2>1, <2>2 DEF TradeOf
    <2>3. CASE ~Exists(e) /\ ~Exists(e)'
      BY <2>1, <2>3 DEF TradeOf
    <2>4. CASE ~Exists(e) /\ Exists(e)'
      <3>1. /\ NewRow(t).outcome = None
            /\ \A k \in Kinds : NewRow(t)[k] = None
        BY DEF NewRow, Kinds
      <3>2. TradeOf(e)' = [events |-> [k \in Kinds |-> None], verdict |-> "open"]
        BY <2>1, <2>4, <3>1 DEF TradeOf, VerdictOf
      <3>3. QED
        BY <2>1, <2>4, <3>2 DEF Record!Opened
    <2>5. QED
      BY <2>2, <2>3, <2>4
  <1>3. entries \in SUBSET {e \in Entry : ~Record!OnRecord(e)}
    BY <1>1, RecordedMeansMarked
  <1>4. QED
    BY <1>1, <1>2, <1>3 DEF Record!Publish

\* The announcement of a run tells users of entries that are on record.
LEMMA AnnouncementIsOfTheRecord ==
  ASSUME IInv, NEW t \in Threads, Announce(t) PROVE Record!Announce
  <1>1. TypeOK /\ rows' = rows /\ alerts' = alerts
    BY DEF IInv, Announce, database
  <1>2. run[t].fresh \in SUBSET Entry /\ \A e \in run[t].fresh : Exists(e)
    BY DEF IInv, TypeOK, RunState, FreshIsNew, Announce
  <1>3. run[t].fresh \in SUBSET {e \in Entry : Record!OnRecord(e)}
    BY <1>1, <1>2, RecordedMeansMarked
  <1>4. ASSUME NEW e \in Entry
        PROVE  sent'[e] > 0 <=> (sent[e] > 0 \/ e \in run[t].fresh)
    <2>1. sent[e] \in 0..2
      BY <1>1 DEF TypeOK
    <2>2. sent'[e] = IF e \in run[t].fresh THEN Count(sent[e]) ELSE sent[e]
      BY DEF Announce
    <2>3. QED
      BY <2>1, <2>2 DEF Count
  <1>5. {e \in Entry : sent'[e] > 0} = {e \in Entry : sent[e] > 0} \cup run[t].fresh
    BY <1>2, <1>4
  <1>6. \A e \in Entry : TradeOf(e)' = TradeOf(e)
    BY <1>1 DEF TradeOf, Exists
  <1>7. QED
    BY <1>1, <1>3, <1>5, <1>6 DEF Record!Announce

\* mark_price_event records one event of a trade without an end.
LEMMA MarkRecords ==
  ASSUME IInv, MonitorMark
  PROVE  \E e \in Entry, k \in Kinds, at \in Time : Record!Record(e, k, at)
  <1>1. PICK v \in mon.marks :
          /\ v.entry \in Entry /\ v.kind \in Kinds /\ v.at \in Time
          /\ rows[v.entry] \in Row /\ rows[v.entry][v.kind] = None
          /\ rows' = [rows EXCEPT ![v.entry] = [rows[v.entry] EXCEPT ![v.kind] = v.at]]
          /\ UNCHANGED <<sent, alerts>>
    BY MarkFillsOneColumn
  <1>2. TypeOK /\ rows \in [Entry -> Row \cup {None}]
    BY DEF IInv, TypeOK
  <1>3. /\ Exists(v.entry) /\ rows[v.entry].target = None /\ rows[v.entry].stop = None
    BY DEF IInv, MarksEndTheRecord
  <1>4. Record!OnRecord(v.entry) /\ ~Record!Ended(v.entry) /\ ~Record!Recorded(v.entry, v.kind)
    BY <1>1, <1>2, <1>3, RecordedMeansMarked
  <1>5. ASSUME NEW e \in Entry
        PROVE  TradeOf(e)' = [trades EXCEPT ![v.entry].events[v.kind] = v.at][e]
    <2>1. CASE e # v.entry
      <3>1. rows'[e] = rows[e]
        BY <1>1, <1>2, <2>1
      <3>2. QED
        BY <2>1, <3>1 DEF TradeOf, Exists, trades
    <2>2. CASE e = v.entry
      <3>1. rows'[e] = [rows[e] EXCEPT ![v.kind] = v.at] /\ Exists(e)'
        BY <1>1, <1>2, <1>3, <2>2, MarkKeepsRows
      <3>2. /\ rows'[e].outcome = rows[e].outcome
            /\ \A k \in Kinds : rows'[e][k] = IF k = v.kind THEN v.at ELSE rows[e][k]
        BY <1>1, <2>2, <3>1 DEF Row, Kinds
      <3>3. TradeOf(e)' = [events |-> [k \in Kinds |-> IF k = v.kind THEN v.at ELSE rows[e][k]],
                           verdict |-> VerdictOf(rows[e].outcome)]
        BY <3>1, <3>2 DEF TradeOf, VerdictOf
      <3>4. trades[e] = [events |-> [k \in Kinds |-> rows[e][k]],
                         verdict |-> VerdictOf(rows[e].outcome)]
        BY <1>2, <1>3, <2>2, TradesAreTyped DEF trades
      <3>5. [trades EXCEPT ![v.entry].events[v.kind] = v.at][e]
              = [trades[e] EXCEPT !.events = [trades[e].events EXCEPT ![v.kind] = v.at]]
        BY <2>2 DEF trades
      <3>6. [[k \in Kinds |-> rows[e][k]] EXCEPT ![v.kind] = v.at]
              = [k \in Kinds |-> IF k = v.kind THEN v.at ELSE rows[e][k]]
        BY <1>1
      <3>7. QED
        BY <3>3, <3>4, <3>5, <3>6
    <2>3. QED
      BY <2>1, <2>2
  <1>6. [e \in Entry |-> TradeOf(e)]' = [trades EXCEPT ![v.entry].events[v.kind] = v.at]
    BY <1>5 DEF trades
  <1>7. {e \in Entry : sent'[e] > 0} = {e \in Entry : sent[e] > 0}
    BY <1>1
  <1>8. Record!Record(v.entry, v.kind, v.at)
    BY <1>1, <1>4, <1>6, <1>7 DEF Record!Record, trades
  <1>9. QED
    BY <1>1, <1>8

\* send_price_alert tells users of recorded events they have not been told of.
LEMMA SendAlerts == ASSUME IInv, MonitorSend PROVE Record!Alert
  <1> DEFINE events == {a \in Entry \X Kinds : \E v \in mon.raised : a = <<v.entry, v.kind>>}
  <1>1. TypeOK /\ rows' = rows /\ sent' = sent
    BY DEF IInv, MonitorSend, database
  <1>2. ASSUME NEW a \in events
        PROVE  Record!Recorded(a[1], a[2]) /\ alerts[a] = 0
    <2>1. PICK v \in mon.raised : a = <<v.entry, v.kind>>
      OBVIOUS
    <2>2. v.entry \in Entry /\ v.kind \in Kinds
      BY DEF IInv, TypeOK, MonitorState, Event
    <2>3. Exists(v.entry) /\ rows[v.entry][v.kind] # None /\ alerts[<<v.entry, v.kind>>] = 0
      BY DEF IInv, RaisedIsUnsent
    <2>4. QED
      BY <1>1, <2>1, <2>2, <2>3, RecordedMeansMarked
  <1>3. events \in SUBSET {a \in Entry \X Kinds : Record!Recorded(a[1], a[2]) /\ alerts[a] = 0}
    BY <1>2
  <1>4. ASSUME NEW a \in Entry \X Kinds
        PROVE  alerts'[a] = IF a \in events THEN 1 ELSE alerts[a]
    <2>1. alerts'[a] = IF a \in events THEN Count(alerts[a]) ELSE alerts[a]
      BY DEF MonitorSend
    <2>2. QED
      BY <1>2, <2>1 DEF Count
  <1>5. alerts' = [a \in Entry \X Kinds |-> IF a \in events THEN 1 ELSE alerts[a]]
    BY <1>4 DEF MonitorSend
  <1>6. /\ \A e \in Entry : TradeOf(e)' = TradeOf(e)
        /\ {e \in Entry : sent'[e] > 0} = {e \in Entry : sent[e] > 0}
    BY <1>1 DEF TradeOf, Exists
  <1>7. QED
    BY <1>3, <1>5, <1>6 DEF Record!Alert

\* record_track_outcome settles one trade that was open.
LEMMA EvaluateSettles ==
  ASSUME IInv, NEW t \in Threads, NEW p \in run[t].pending, Evaluate(t, p), rows' # rows
  PROVE  \E e \in Entry, verdict \in {"success", "failure"} : Record!Settle(e, verdict)
  <1>1. PICK v \in Verdicts(p, run[t].now) :
          /\ v \in Outcome
          /\ rows' = [rows EXCEPT ![p.entry] = [rows[p.entry] EXCEPT !.outcome = v]]
    BY ZenonT(30), EvaluateSettlesOneRow
  <1>2. /\ p.entry \in Entry /\ rows[p.entry] \in Row /\ sent' = sent /\ alerts' = alerts
        /\ TypeOK /\ rows \in [Entry -> Row \cup {None}]
    BY EvaluateSettlesOneRow DEF IInv, TypeOK
  <1>3. Exists(p.entry) /\ rows[p.entry].outcome = None
    BY DEF IInv, PendingIsUnjudged
  <1> DEFINE verdict == VerdictOf(v)
  <1>4. v # None
    BY <1>1, NoneAssumption
  <1>5. verdict \in {"success", "failure"} /\ (verdict = "success" => v.reached)
    BY <1>4 DEF VerdictOf
  <1>6. v.reached => rows[p.entry].target # None
    BY VerdictsAreGrounded
  <1>7. TradeOf(p.entry) = [events |-> [k \in Kinds |-> rows[p.entry][k]], verdict |-> "open"]
    BY <1>2, <1>3, TradesAreTyped DEF VerdictOf
  <1>8. /\ Record!OnRecord(p.entry) /\ trades[p.entry].verdict = "open"
        /\ verdict = "success" => Record!Recorded(p.entry, "target")
    BY <1>2, <1>3, <1>5, <1>6, <1>7, RecordedMeansMarked DEF trades, Kinds
  <1>9. ASSUME NEW e \in Entry
        PROVE  TradeOf(e)' = [trades EXCEPT ![p.entry].verdict = verdict][e]
    <2>1. CASE e # p.entry
      <3>1. rows'[e] = rows[e]
        BY <1>1, <1>2, <2>1
      <3>2. QED
        BY <2>1, <3>1 DEF TradeOf, Exists, trades
    <2>2. CASE e = p.entry
      <3>1. rows'[e] = [rows[e] EXCEPT !.outcome = v] /\ Exists(e)'
        BY <1>1, <1>2, <1>3, <2>2, EvaluateKeepsRows
      <3>2. rows'[e].outcome = v /\ \A k \in Kinds : rows'[e][k] = rows[e][k]
        BY <1>2, <2>2, <3>1 DEF Row, Kinds
      <3>3. TradeOf(e)' = [events |-> [k \in Kinds |-> rows[e][k]], verdict |-> verdict]
        BY <3>1, <3>2 DEF TradeOf, VerdictOf
      <3>4. QED
        BY <1>7, <2>2, <3>3 DEF trades
    <2>3. QED
      BY <2>1, <2>2
  <1> HIDE DEF verdict
  <1>10. [e \in Entry |-> TradeOf(e)]' = [trades EXCEPT ![p.entry].verdict = verdict]
    BY <1>9 DEF trades
  <1>11. {e \in Entry : sent'[e] > 0} = {e \in Entry : sent[e] > 0}
    BY <1>2
  <1>12. Record!Settle(p.entry, verdict)
    BY <1>2, <1>8, <1>10, <1>11 DEF Record!Settle, trades
  <1>13. QED
    BY <1>2, <1>5, <1>12

\* Every step of the program is a step of the record, or leaves it as it is.
LEMMA RecordStep == IInv /\ [Next]_vars => [Record!Next]_(Record!vars)
  <1> SUFFICES ASSUME IInv, [Next]_vars PROVE [Record!Next]_(Record!vars)
    OBVIOUS
  <1>1. CASE UNCHANGED <<rows, sent, alerts>>
    BY <1>1 DEF Record!vars, TradeOf, Exists
  <1>2. ASSUME NEW t \in Threads, Save(t) \/ Announce(t) PROVE Record!Next
    BY <1>2, SavePublishes, AnnouncementIsOfTheRecord DEF Record!Next
  <1>3. CASE MonitorMark \/ MonitorSend
    BY <1>3, MarkRecords, SendAlerts DEF Record!Next
  <1>4. ASSUME NEW t \in Threads, NEW p \in run[t].pending, Evaluate(t, p)
        PROVE  Record!Next \/ UNCHANGED <<rows, sent, alerts>>
    BY <1>4, EvaluateSettles, EvaluateSettlesOneRow DEF Record!Next
  <1>5. QED
    BY <1>1, <1>2, <1>3, <1>4
       DEF Next, PipelineStep, Proceed, MonitorStep, Tick, Crash, Restart, MonitorStart,
           MonitorFetch, MonitorRaises, Start, Collect, Recommend, ListPending, EvaluateFails,
           Finish, RunRaises, vars, database, received

\* The program keeps the promises of the trade record, for every number of markets,
\* tracks and threads, whatever overlaps, fails or crashes.
THEOREM RecordIsImplemented == Spec => ImplementsTradeRecord
  <1>1. Init => Record!Init
    BY RecordInit
  <1>2. IInv /\ [Next]_vars => [Record!Next]_(Record!vars)
    BY RecordStep
  <1>3. QED
    BY <1>1, <1>2, Invariance, PTL DEF Spec, ImplementsTradeRecord, Record!Spec
=============================================================================
