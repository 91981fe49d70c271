------------------------ MODULE RecommendationLifecycle ------------------------
(***************************************************************************)
(* The life of a recommendation in coin-recommender: the pipeline run that *)
(* stores and announces it (src/pipeline.py), the price monitor that       *)
(* records its first price event (src/monitor.py), the evaluation that     *)
(* settles its outcome, and the SQLite table they share                    *)
(* (src/data_store.py).  Pipeline runs are started by the scheduler and by *)
(* POST /run, the monitor is a second scheduler job that takes no lock,    *)
(* and the whole process may stop at any instant and be restarted.         *)
(*                                                                         *)
(* Time is counted in bars of the finest frame.  Bar b closes at time b,   *)
(* so it opened at b-1, and at time `now' the closed bars are 1..now.  A   *)
(* bar of every frame closes at time 1, when the program first starts.     *)
(***************************************************************************)
EXTENDS Integers, Sequences, FiniteSets

CONSTANTS
    Markets,       \* symbols that can become candidates
    Tracks,        \* keys of TRACK_BY_KEY, and "regime"
    Frames,        \* timeframes whose candles are stored
    Width,         \* Width[f]: length of a bar of frame f
    EntryFrame,    \* EntryFrame[k]: frame in which track k looks for its entry
    ClosingFrame,  \* frame that prices a timed-out outcome ("30m")
    Hold,          \* Hold[k]: hold_hours of track k
    Up, Down,      \* target and stop distances of a track, in price steps
    Quotes,        \* the [low, high, close] a bar may show
    Memory,        \* _ANNOUNCE_MEMORY_DAYS
    Reach,         \* bars that the monitor's max_requests pages can return
    Threads,       \* threads that call run_recommendation_pipeline
    Scheduler,     \* the one that belongs to the scheduler's job
    MaxTime,       \* bound on the clock
    MaxFaults,     \* bound on crashes and on exceptions that end a run
    None           \* SQL NULL and Python's None

Time == 1..MaxTime
Kinds == {"touched", "target", "stop"}   \* ENTRY_TOUCHED, TARGET_HIT, STOP_HIT

ASSUME BarAssumption ==
    /\ MaxTime \in Nat \ {0} /\ MaxFaults \in Nat
    /\ Memory \in Nat /\ Reach \in Nat
    /\ Width \in [Frames -> Nat \ {0}]
    /\ EntryFrame \in [Tracks -> Frames] /\ ClosingFrame \in Frames
ASSUME TrackAssumption ==
    /\ Hold \in [Tracks -> Nat \ {0}]
    /\ Up \in [Tracks -> Nat \ {0}] /\ Down \in [Tracks -> Nat \ {0}]
    /\ Quotes \subseteq [low : Int, high : Int, close : Int]
ASSUME ThreadAssumption == Scheduler \in Threads /\ None \notin Threads

\* The key of a stored recommendation: uq_recommendation_entry's columns.
\* `bar' is its entry_time, the close time of the bar that signalled it.
Entry == [market : Markets, track : Tracks, bar : Time]
Event == [entry : Entry, kind : Kinds, at : Time]
Outcome == [reached : BOOLEAN, ret : Int, at : Time]
Row == [runTime : Time, touched : Time \cup {None}, target : Time \cup {None},
        stop : Time \cup {None}, outcome : Outcome \cup {None}]
ASSUME NoneAssumption == None \notin Time \cup Outcome \cup Row

\* What get_unevaluated hands over for a row (its key and the two hit columns).
Pending == [entry : Entry, target : Time \cup {None}, stop : Time \cup {None}]
Watched == [entry : Entry, touched : Time \cup {None}]

RunState == [pc : {"idle", "collect", "save", "announce", "list", "evaluate"},
             now : Time, fresh : SUBSET Entry, pending : SUBSET Pending,
             skipped : SUBSET Entry]   \* history: rows whose judging raised in this run
MonitorState == [pc : {"idle", "check"}, watch : SUBSET Watched,
                 marks : SUBSET Event, raised : SUBSET Event]

IdleRun == [pc |-> "idle", now |-> 1, fresh |-> {}, pending |-> {}, skipped |-> {}]
IdleMonitor == [pc |-> "idle", watch |-> {}, marks |-> {}, raised |-> {}]

VARIABLES
    \* the exchange
    now, tape,
    \* the database
    stored,        \* stored[m][f]: close time of the newest stored bar
    rows,          \* the recommendations table
    \* the process
    up, lock, run, mon,
    \* what users have received, and the fault budget
    sent, alerts, faults

exchange == <<now, tape>>
database == <<stored, rows>>
process == <<up, lock, run, mon>>
received == <<sent, alerts>>
vars == <<exchange, database, process, received, faults>>

TypeOK ==
    /\ now \in Time
    /\ tape \in [Markets -> Seq(Quotes)]
    /\ stored \in [Markets -> [Frames -> 0..MaxTime]]
    /\ rows \in [Entry -> Row \cup {None}]
    /\ up \in BOOLEAN
    /\ lock \in Threads \cup {None}
    /\ run \in [Threads -> RunState]
    /\ mon \in MonitorState
    /\ sent \in [Entry -> 0..2]
    /\ alerts \in [Entry \X Kinds -> 0..2]
    /\ faults \in 0..MaxFaults

Init ==
    /\ now = 1
    /\ \E q \in [Markets -> Quotes] : tape = [m \in Markets |-> <<q[m]>>]
    /\ stored = [m \in Markets |-> [f \in Frames |-> 0]]
    /\ rows = [e \in Entry |-> None]
    /\ up = TRUE
    /\ lock = None
    /\ run = [t \in Threads |-> IdleRun]
    /\ mon = IdleMonitor
    /\ sent = [e \in Entry |-> 0]
    /\ alerts = [a \in Entry \X Kinds |-> 0]
    /\ faults = 0

Exists(e) == rows[e] # None
Judged(e) == Exists(e) /\ rows[e].outcome # None
Count(n) == IF n = 2 THEN 2 ELSE n + 1     \* once, or more than once
LastOf(bars) == {b \in bars : \A x \in bars : b >= x}
FirstOf(bars) == {b \in bars : \A x \in bars : b <= x}

\* The times at which a bar of frame f closes.
Closings(f) == {b \in Time : (b - 1) % Width[f] = 0}

-----------------------------------------------------------------------------
(* The exchange *)

\* One bar closes on every market.
Tick ==
    /\ now < MaxTime
    /\ now' = now + 1
    /\ \E q \in [Markets -> Quotes] :
          tape' = [m \in Markets |-> Append(tape[m], q[m])]
    /\ UNCHANGED <<database, process, received, faults>>

EntryPrice(e) == tape[e.market][e.bar].close

\* Bars whose price touches the stop, the target or the entry price of e.
StopBars(e, bars) ==
    {b \in bars : tape[e.market][b].low <= EntryPrice(e) - Down[e.track]}
TargetBars(e, bars) ==
    {b \in bars : tape[e.market][b].high >= EntryPrice(e) + Up[e.track]}
TouchBars(e, bars) == {b \in bars : tape[e.market][b].low <= EntryPrice(e)}

-----------------------------------------------------------------------------
(* The pipeline: run_recommendation_pipeline *)

\* The lock is taken without waiting; a thread that finds it held raises
\* AlreadyRunningError and changes nothing.
Start(t) ==
    /\ up /\ lock = None
    /\ lock' = t
    /\ run' = [run EXCEPT ![t] = [IdleRun EXCEPT !.pc = "collect", !.now = now]]
    /\ UNCHANGED <<exchange, database, up, mon, received, faults>>

\* One market and frame is brought up to date.  A market that is no candidate,
\* or whose request fails, is simply not collected in this run.
Collect(t, m, f) ==
    /\ run[t].pc = "collect"
    /\ \E newest \in LastOf({b \in Closings(f) : b <= now}) :
          /\ stored[m][f] < newest
          /\ stored' = [stored EXCEPT ![m][f] = newest]
    /\ UNCHANGED <<exchange, rows, process, received, faults>>

\* Bug to be caught: the boundary of the memory is left out.
AnnouncedStrictly(t) == {e \in Entry : Exists(e) /\ e.bar > run[t].now - Memory}

\* What the run remembers as announced: get_announced_entries(now - Memory).
Announced(t) == {e \in Entry : Exists(e) /\ e.bar >= run[t].now - Memory}

\* The newest stored entry bar of each chosen market and track signals an
\* entry (which ones do is up to the candles, the gates and the limits); those
\* already announced are dropped.
Recommend(t) ==
    /\ run[t].pc = "collect"
    /\ \E picks \in SUBSET {p \in Markets \X Tracks : stored[p[1]][EntryFrame[p[2]]] > 0} :
          LET signalled == {[market |-> p[1], track |-> p[2],
                             bar |-> stored[p[1]][EntryFrame[p[2]]]] : p \in picks}
          IN run' = [run EXCEPT ![t].pc = "save",
                                ![t].fresh = signalled \ Announced(t)]
    /\ UNCHANGED <<exchange, database, up, lock, mon, received, faults>>

\* Bug to be caught: a row without its run_time.
UndatedRow(t) == [runTime |-> None, touched |-> None, target |-> None,
                  stop |-> None, outcome |-> None]

NewRow(t) == [runTime |-> run[t].now, touched |-> None, target |-> None,
              stop |-> None, outcome |-> None]

\* Bug to be caught: a failing save is swallowed as a failing message is.
SaveSwallowed(t) ==
    /\ run[t].pc = "save"
    /\ run' = [run EXCEPT ![t].pc = "announce"]
    /\ UNCHANGED <<exchange, database, up, lock, mon, received, faults>>

\* save_run: INSERT OR IGNORE under the unique index on the entry, one
\* transaction for the whole run.
Save(t) ==
    /\ run[t].pc = "save"
    /\ rows' = [e \in Entry |-> IF e \in run[t].fresh /\ ~Exists(e)
                                THEN NewRow(t) ELSE rows[e]]
    /\ run' = [run EXCEPT ![t].pc = "announce"]
    /\ UNCHANGED <<exchange, stored, up, lock, mon, received, faults>>

\* send_notification.  A failure is logged and the run goes on just the same, also one
\* that comes before the first channel is reached (get_live_performance, the text) or
\* that keeps the message from some: `sent' counts the attempts, the most that anybody can
\* have received.  (fresh has served its purpose and is emptied, which only spares TLC
\* some states.)
Announce(t) ==
    /\ run[t].pc = "announce"
    /\ sent' = [e \in Entry |-> IF e \in run[t].fresh THEN Count(sent[e]) ELSE sent[e]]
    /\ run' = [run EXCEPT ![t].pc = "list", ![t].fresh = {}]
    /\ UNCHANGED <<exchange, database, up, lock, mon, alerts, faults>>

\* Bug to be caught: rows are listed again after their verdict.
AllRows == {e \in Entry : Exists(e)}

\* evaluate_pending_outcomes reads the rows it will judge once, at its start.
Unevaluated == {e \in Entry : Exists(e) /\ rows[e].outcome = None}

ListPending(t) ==
    /\ run[t].pc = "list"
    /\ run' = [run EXCEPT ![t].pc = "evaluate",
                          ![t].pending = {[entry |-> e, target |-> rows[e].target,
                                           stop |-> rows[e].stop] : e \in Unevaluated}]
    /\ UNCHANGED <<exchange, database, up, lock, mon, received, faults>>

Deadline(e) == e.bar + Hold[e.track]

\* Bug to be caught: the newest price settles the trade, not the deadline's.
NewestBar(m, moment) ==
    LastOf({b \in Closings(ClosingFrame) : b <= stored[m][ClosingFrame]})

\* The stored bar of the closing frame that was the last to close by moment
\* (_price_at); none when no such bar is stored.
PricedBar(m, moment) ==
    LastOf({b \in Closings(ClosingFrame) : b <= stored[m][ClosingFrame] /\ b <= moment})

\* The verdicts the rules allow at time at for the snapshot p: one, or none
\* while the trade is open or its closing price is unknown.
Verdicts(p, at) ==
    LET e == p.entry IN
    IF p.target # None THEN {[reached |-> TRUE, ret |-> Up[e.track], at |-> at]}
    ELSE IF p.stop # None THEN {[reached |-> FALSE, ret |-> -Down[e.track], at |-> at]}
    ELSE {[reached |-> FALSE, ret |-> tape[e.market][b].close - EntryPrice(e), at |-> at] :
            b \in {x \in PricedBar(e.market, Deadline(e)) : at >= Deadline(e)}}

\* One pass of the loop: record_track_outcome, or nothing to record yet.
Evaluate(t, p) ==
    LET verdicts == Verdicts(p, run[t].now) IN
    /\ run[t].pc = "evaluate" /\ p \in run[t].pending
    /\ run' = [run EXCEPT ![t].pending = @ \ {p}]
    /\ \/ /\ verdicts = {}
          /\ UNCHANGED rows
       \/ \E v \in verdicts : rows' = [rows EXCEPT ![p.entry].outcome = v]
    /\ UNCHANGED <<exchange, stored, up, lock, mon, received, faults>>

\* An exception while judging one row is caught and the loop goes on.
EvaluateFails(t, p) ==
    /\ run[t].pc = "evaluate" /\ p \in run[t].pending
    /\ faults < MaxFaults
    /\ faults' = faults + 1
    /\ run' = [run EXCEPT ![t].pending = @ \ {p}, ![t].skipped = @ \cup {p.entry}]
    /\ UNCHANGED <<exchange, database, up, lock, mon, received>>

\* Bug to be caught: an exception while judging one row ends the loop.
FinishAtFirstFailure(t) ==
    /\ run[t].pc = "evaluate" /\ (run[t].pending = {} \/ run[t].skipped # {})
    /\ run' = [run EXCEPT ![t] = IdleRun]
    /\ lock' = None
    /\ UNCHANGED <<exchange, database, up, mon, received, faults>>

\* The run returns and `finally' releases the lock.
Finish(t) ==
    /\ run[t].pc = "evaluate" /\ run[t].pending = {}
    /\ run' = [run EXCEPT ![t] = IdleRun]
    /\ lock' = None
    /\ UNCHANGED <<exchange, database, up, mon, received, faults>>

\* Bug to be caught: the lock is not released in `finally'.
RunRaisesLocked(t) ==
    /\ run[t].pc \in {"collect", "save", "list"}
    /\ faults < MaxFaults
    /\ faults' = faults + 1
    /\ run' = [run EXCEPT ![t] = IdleRun]
    /\ UNCHANGED <<exchange, database, up, lock, mon, received>>

\* An exception outside the inner try blocks ends the run: in the selection, the
\* collection and the scoring, in save_run, or in reading what is unjudged.
\* `finally' releases the lock.
RunRaises(t) ==
    /\ run[t].pc \in {"collect", "save", "list"}
    /\ faults < MaxFaults
    /\ faults' = faults + 1
    /\ run' = [run EXCEPT ![t] = IdleRun]
    /\ lock' = None
    /\ UNCHANGED <<exchange, database, up, mon, received>>

-----------------------------------------------------------------------------
(* The monitor: run_price_monitor.  The scheduler never overlaps two of its *)
(* runs, and it does not take the pipeline's lock.                          *)

\* Bug to be caught: a row that reached its target or stop is watched again.
MonitorableForever(e) == Exists(e) /\ rows[e].runTime >= now - Hold[e.track]

\* get_monitorable_recommendations, and the per-track window of the loop (the
\* longest hold bounds the query and so excludes nothing the window would keep).
Monitorable(e) ==
    /\ Exists(e)
    /\ rows[e].target = None /\ rows[e].stop = None
    /\ rows[e].runTime >= now - Hold[e.track]

MonitorStart ==
    /\ up /\ mon.pc = "idle"
    /\ mon' = [IdleMonitor EXCEPT
                 !.pc = "check",
                 !.watch = {[entry |-> e, touched |-> rows[e].touched] :
                              e \in {x \in Entry : Monitorable(x)}}]
    /\ UNCHANGED <<exchange, database, up, lock, run, received, faults>>

\* Bug to be caught: the walk goes on after a stop, until the target.
EventsBeyondStop(w) ==
    LET bars == {b \in w.entry.bar + 1 .. now : b <= w.entry.bar + Reach}
        At(kind, b) == [entry |-> w.entry, kind |-> kind, at |-> b - 1]
    IN {At("stop", b) : b \in FirstOf(StopBars(w.entry, bars))}
         \cup {At("target", b) : b \in FirstOf(TargetBars(w.entry, bars))}

\* _events_for: walking the bars from the entry on, the first that touches the
\* stop or the target ends the walk (the stop wins within one bar); before it,
\* the first return to the entry price, unless that was seen already.
\* The bar that ends the walk is never also an entry touch.
EventsFor(w) ==
    LET e == w.entry
        bars == {b \in e.bar + 1 .. now : b <= e.bar + Reach}
        stops == StopBars(e, bars)
        ends == stops \cup TargetBars(e, bars)
        open == {b \in bars : w.touched = None /\ \A x \in ends : b < x}
        At(kind, b) == [entry |-> e, kind |-> kind, at |-> b - 1]
    IN {At("touched", b) : b \in FirstOf(TouchBars(e, open))}
         \cup {At("stop", b) : b \in FirstOf(ends) \cap stops}
         \cup {At("target", b) : b \in FirstOf(ends) \ stops}

\* The 1-minute candles of one row are fetched, or the request fails and the
\* row is skipped in this check.
MonitorFetch(w) ==
    /\ mon.pc = "check" /\ w \in mon.watch /\ mon.marks = {}
    /\ \/ mon' = [mon EXCEPT !.watch = @ \ {w}, !.marks = EventsFor(w)]
       \/ mon' = [mon EXCEPT !.watch = @ \ {w}]
    /\ UNCHANGED <<exchange, database, up, lock, run, received, faults>>

\* mark_price_event writes the column only while it is NULL; the event joins
\* new_events either way.
MonitorMark ==
    /\ \E v \in mon.marks :
          /\ \A x \in mon.marks : v.at <= x.at
          /\ rows' = [rows EXCEPT ![v.entry][v.kind] = IF @ = None THEN v.at ELSE @]
          /\ mon' = [mon EXCEPT !.marks = @ \ {v}, !.raised = @ \cup {v}]
    /\ UNCHANGED <<exchange, stored, up, lock, run, received, faults>>

\* send_price_alert; a failure is logged and the events stay recorded, so
\* `alerts' counts the attempts as well.
MonitorSend ==
    /\ mon.pc = "check" /\ mon.watch = {} /\ mon.marks = {}
    /\ mon' = IdleMonitor
    /\ alerts' = [a \in Entry \X Kinds |->
                    IF \E v \in mon.raised : a = <<v.entry, v.kind>>
                    THEN Count(alerts[a]) ELSE alerts[a]]
    /\ UNCHANGED <<exchange, database, up, lock, run, sent, faults>>

\* A database error in mark_price_event ends the check without a message; what it
\* has recorded stays recorded.
MonitorRaises ==
    /\ mon.marks # {} /\ faults < MaxFaults
    /\ faults' = faults + 1
    /\ mon' = IdleMonitor
    /\ UNCHANGED <<exchange, database, up, lock, run, received>>

-----------------------------------------------------------------------------
(* The figures an announcement carries: get_live_performance *)

\* Trades that have met their target or stop, and those that count as a success.
Resolved == {e \in Entry : Exists(e) /\ (rows[e].target # None \/ rows[e].stop # None)}
Hits == {e \in Resolved : rows[e].target # None}

-----------------------------------------------------------------------------
(* The container *)

\* The process stops at any instant: threads, lock and snapshots are gone, the
\* committed database stays.
Crash ==
    /\ up /\ faults < MaxFaults
    /\ faults' = faults + 1
    /\ up' = FALSE
    /\ lock' = None
    /\ run' = [t \in Threads |-> IdleRun]
    /\ mon' = IdleMonitor
    /\ UNCHANGED <<exchange, database, received>>

\* restart: unless-stopped.
Restart ==
    /\ ~up
    /\ up' = TRUE
    /\ UNCHANGED <<exchange, database, lock, run, mon, received, faults>>

-----------------------------------------------------------------------------
\* The steps a run takes by itself once its requests have been answered.
Proceed(t) ==
    \/ Recommend(t) \/ Save(t) \/ Announce(t) \/ ListPending(t) \/ Finish(t)
    \/ \E p \in run[t].pending : Evaluate(t, p)

PipelineStep(t) ==
    \/ Start(t) \/ Proceed(t) \/ RunRaises(t)
    \/ \E m \in Markets, f \in Frames : Collect(t, m, f)
    \/ \E p \in run[t].pending : EvaluateFails(t, p)

MonitorStep ==
    \/ MonitorStart \/ MonitorMark \/ MonitorSend \/ MonitorRaises
    \/ \E w \in mon.watch : MonitorFetch(w)

Next ==
    \/ Tick \/ Crash \/ Restart \/ MonitorStep
    \/ \E t \in Threads : PipelineStep(t)

Spec == Init /\ [][Next]_vars

\* The cron trigger keeps starting runs while the process is up, every request
\* has a timeout and a bounded number of retries, the container is restarted,
\* and the clock moves.  Nothing is assumed of POST /run, of the collection or
\* of the monitor.
Fairness ==
    /\ WF_vars(Tick) /\ WF_vars(Restart) /\ WF_vars(Start(Scheduler))
    /\ \A t \in Threads : WF_vars(Proceed(t))

FairSpec == Spec /\ Fairness

-----------------------------------------------------------------------------
(* What must hold *)

\* An announcement that reached users is of an entry the table holds, so the
\* monitor will watch it and the evaluation will judge it, whatever crash,
\* exception or failed message follows: save_run comes before send_notification.
AnnouncedIsStored == \A e \in Entry : sent[e] > 0 => Exists(e)

\* A second announcement of one entry comes only from a run that started more
\* than Memory after the entry's bar: no overlap of runs, retry or crash repeats
\* a fresher one (get_announced_entries and save_run under one lock).
NoRepeatWithinMemory ==
    [][\A e \in Entry : sent[e] > 0 /\ sent'[e] > sent[e] =>
          \E t \in Threads : run[t].pc = "announce" /\ e.bar < run[t].now - Memory]_vars

\* Threads inside the pipeline are the holder of the lock, so there is at most
\* one, and every way out of a run gives the lock back.
LockHeldByTheRun == \A t \in Threads : run[t].pc # "idle" <=> lock = t

\* Once a row has been judged, no later run changes the verdict.
OutcomeIsFinal ==
    [][\A e \in Entry : Judged(e) =>
          rows'[e].outcome = rows[e].outcome]_vars

\* A run that returns leaves no row unjudged whose hold was over when it began and
\* whose closing price is stored, except one whose own judging raised: neither what
\* fails beside it, nor rows that other runs, crashes and restarts have left behind, nor
\* a monitor that writes the same rows meanwhile makes it pass one over.
Due(e, t) == Exists(e) /\ Deadline(e) <= run[t].now /\ PricedBar(e.market, Deadline(e)) # {}
EvaluationIsComplete ==
    [][\A t \in Threads : run[t].pc = "evaluate" /\ run'[t].pc = "idle" /\ up' =>
          \A e \in Entry : Due(e, t) => Judged(e)' \/ e \in run[t].skipped]_vars

\* A verdict rests on the monitor's record or on an expired hold: success needs
\* a recorded target, failure a recorded stop or a price that the market closed
\* at by the deadline, however late the evaluation runs.
TimedOutPrice(e, v) ==
    /\ v.at >= Deadline(e)
    /\ \E b \in Time : /\ b <= now /\ b <= Deadline(e)
                       /\ v.ret = tape[e.market][b].close - EntryPrice(e)
OutcomeIsGrounded ==
    \A e \in Entry : Judged(e) =>
        LET v == rows[e].outcome IN
        IF v.reached THEN rows[e].target # None /\ v.ret = Up[e.track]
        ELSE TimedOutPrice(e, v) \/ (rows[e].stop # None /\ v.ret = -Down[e.track])

\* What the monitor records is the first bar after the entry that touches the
\* target or the stop, with the stop first within a bar, although checks are
\* skipped, fail half-way or resume after a crash.
IsFirstEnd(e, kind, at) ==
    LET bars == e.bar + 1 .. now
        stops == StopBars(e, bars)
        ends == stops \cup TargetBars(e, bars)
    IN /\ at + 1 \in ends /\ \A b \in ends : b > at
       /\ kind = "stop" <=> at + 1 \in stops
FirstTouchIsRecorded ==
    \A e \in Entry, kind \in {"stop", "target"} :
        Exists(e) /\ rows[e][kind] # None => IsFirstEnd(e, kind, rows[e][kind])

\* A trade that has been counted in the published figures stays counted, and with
\* the same result: no later check, resumed or repeated, turns a loss into a hit.
CountedTradesStand ==
    [][Resolved \subseteq Resolved' /\ Hits' \cap Resolved = Hits]_vars

\* No price event of a row is alerted twice, whatever crash falls between
\* recording and sending, and none is alerted that is not recorded.
AlertedOnceAfterRecord ==
    \A e \in Entry, k \in Kinds :
        alerts[<<e, k>>] > 0 => alerts[<<e, k>>] = 1 /\ Exists(e) /\ rows[e][k] # None

\* Every stored recommendation whose market has a closing price is judged in
\* the end, although runs crash, raise or meet a held lock.  (Deadlines past the
\* clock's bound never come.)
EveryRowIsJudged ==
    \A e \in Entry :
        Exists(e) /\ Deadline(e) \in Time /\ PricedBar(e.market, Deadline(e)) # {}
          ~> Judged(e)

-----------------------------------------------------------------------------
(* The inductive invariant behind the safety properties *)

\* Only closed bars are stored, and only they are recommended.
OnlyClosedBars ==
    /\ \A m \in Markets : Len(tape[m]) = now /\ \A f \in Frames : stored[m][f] <= now
    /\ \A e \in Entry : Exists(e) => e.bar <= now
    /\ \A t \in Threads : run[t].now <= now /\ \A e \in run[t].fresh : e.bar <= now

\* Only stored entries are about to be announced, and those announced before
\* are older than the run remembers.
FreshIsNew ==
    \A t \in Threads : \A e \in run[t].fresh :
        /\ run[t].pc = "save" => (Exists(e) => e.bar < run[t].now - Memory)
        /\ run[t].pc = "announce" =>
              Exists(e) /\ (sent[e] > 0 => e.bar < run[t].now - Memory)

\* The evaluation's snapshot still names rows without a verdict, each once, and
\* the hits it saw are on record.
PendingIsUnjudged ==
    \A t \in Threads : \A p \in run[t].pending :
        /\ run[t].pc = "evaluate"
        /\ Exists(p.entry) /\ rows[p.entry].outcome = None
        /\ p.target # None => rows[p.entry].target # None
        /\ p.stop # None => rows[p.entry].stop # None
        /\ \A q \in run[t].pending : q.entry = p.entry => q = p

\* What is due is judged, has raised, or is still to come.
DueIsPending ==
    \A t \in Threads : run[t].pc = "evaluate" =>
        \A e \in Entry : Due(e, t) =>
            Judged(e) \/ e \in run[t].skipped \/ \E p \in run[t].pending : p.entry = e

\* The monitor's snapshot is current for the rows it has not fetched yet; what it
\* is about to mark is unmarked, what it has raised is marked and not yet sent.
WatchIsCurrent ==
    \A w \in mon.watch :
        /\ Exists(w.entry)
        /\ rows[w.entry].target = None /\ rows[w.entry].stop = None
        /\ rows[w.entry].touched = w.touched
        /\ \A x \in mon.watch : x.entry = w.entry => x = w
MarksAreNew ==
    \A v \in mon.marks :
        /\ Exists(v.entry) /\ rows[v.entry][v.kind] = None
        /\ \A w \in mon.watch : w.entry # v.entry
        /\ \A x \in mon.marks : x.entry = v.entry /\ x.kind = v.kind => x = v
RaisedIsUnsent ==
    \A v \in mon.raised :
        Exists(v.entry) /\ rows[v.entry][v.kind] # None /\ alerts[<<v.entry, v.kind>>] = 0

\* What is about to be marked belongs to a row without an end; a target or stop is
\* the row's last event, and the first bar that reaches either price.
MarksEndTheRecord ==
    \A v \in mon.marks :
        /\ Exists(v.entry) /\ rows[v.entry].target = None /\ rows[v.entry].stop = None
        /\ v.kind # "touched" =>
              /\ IsFirstEnd(v.entry, v.kind, v.at)
              /\ \A x \in mon.marks : x.entry = v.entry /\ x # v => x.at < v.at

\* All of it, together with the properties it supports.
IInv == /\ TypeOK /\ OnlyClosedBars /\ LockHeldByTheRun
        /\ AnnouncedIsStored /\ AlertedOnceAfterRecord /\ OutcomeIsGrounded
        /\ FreshIsNew /\ PendingIsUnjudged /\ DueIsPending
        /\ WatchIsCurrent /\ MarksAreNew /\ RaisedIsUnsent
        /\ FirstTouchIsRecorded /\ MarksEndTheRecord

-----------------------------------------------------------------------------
(* What it implements *)

\* A trade is what the table has on a row, as far as users hear of it.
VerdictOf(outcome) ==
    IF outcome = None THEN "open" ELSE IF outcome.reached THEN "success" ELSE "failure"
TradeOf(e) ==
    IF Exists(e) THEN [events |-> [k \in Kinds |-> rows[e][k]],
                       verdict |-> VerdictOf(rows[e].outcome)]
    ELSE None

Trade == [events : [Kinds -> Time \cup {None}], verdict : {"open", "success", "failure"}]
ASSUME TradeAssumption == None \notin Trade

Record == INSTANCE TradeRecord WITH
    Moment <- Time,
    trade <- [e \in Entry |-> TradeOf(e)],
    announced <- {e \in Entry : sent[e] > 0},
    alerted <- alerts

\* Threads, snapshots, failures and restarts show nothing but trades that are put
\* on record, announced, followed to their first end, alerted and judged.
ImplementsTradeRecord == Record!Spec

-----------------------------------------------------------------------------
(* What the documents say of the program and the code does not keep *)

\* An ordinary day, in which the refutations below need no slow run or monitor:
\* while the process is up, no bar closes before a run has ended and the 2-minute
\* monitor has recorded every event of the rows it watches.
Prompt == up =>
    /\ lock = None /\ mon.pc = "idle"
    /\ \A e \in Entry : Monitorable(e) =>
          EventsFor([entry |-> e, touched |-> rows[e].touched]) = {}
PromptSpec == Init /\ [][Next /\ (now' # now => Prompt)]_vars

\* BR39: the monitor's record is the only authority on an outcome, so a row whose
\* target the monitor has recorded is never one judged as not reached.
OutcomeAgreesWithMonitor ==
    \A e \in Entry : Judged(e) /\ rows[e].target # None =>
        rows[e].outcome.reached

\* BR22: every check rescans from the entry on, so a touch during downtime is not
\* missed: once a row has left its window, a target or stop that was touched
\* within it is recorded.
DowntimeMissesNoTouch ==
    \A e \in Entry : Exists(e) /\ rows[e].runTime < now - Hold[e.track] =>
        LET bars == {b \in e.bar + 1 .. now : b <= Deadline(e)}
        IN StopBars(e, bars) \cup TargetBars(e, bars) # {} =>
              rows[e].target # None \/ rows[e].stop # None
=============================================================================
