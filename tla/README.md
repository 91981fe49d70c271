# coin-recommender in TLA+

A verification project for [coin-recommender](../src/README.md): a service that collects
Binance candles, looks for entry signals, stores and announces recommendations, watches
their prices, and settles how they ended. The modules model the program's control as it is
in `src/src/`, TLC checks them on small instances, and TLAPS proves most of their safety for
every value of the parameters. `PROJECT.json` maps every definition to the lines it models.

## The system

One process (a FastAPI app with APScheduler), one SQLite database, the public APIs of
Binance, Upbit and frankfurter, and three chat channels.

| component | state it keeps | operations | what makes it correct |
|---|---|---|---|
| `pipeline.py` | the process-wide `_lock` | a run: lock, select, collect, premium, recommend, drop what was announced, `save_run`, announce, evaluate, unlock; the monitor job | one run at a time; the lock always comes back; nothing announced that is not stored, nor twice within the memory; outcomes final and grounded |
| `monitor.py` | none (a snapshot of rows per check) | rescan 1-minute bars of each watched row from its entry, record first touches | the first touch is what is recorded; nothing is recorded or alerted twice |
| `data_store.py` | tables `binance_candles`, `recommendations`, `pipeline_runs`, `collection_state`, `app_state` | one short transaction per method; an opening that migrates an older database | unique (market, track, entry) rows; hit columns written once; no opening loses a row |
| `pipeline._collect_and_store_binance`, `binance_client.py` | none | backfill or increment, pages, dropping of the forming bar | no gap, only closed bars, all of the lookback |
| `market_selector.py` | shares `collection_state` | candidates by volume, listing age | a candidate's age is right |
| `premium.py` | `app_state` flag (via the pipeline) | three requests, a threshold | one notice per spell |
| `scheduler.py` | APScheduler's jobs | pipeline on a cron trigger, monitor every two minutes | a failing job does not stop the next |
| `api.py` | none | `POST /run`, `GET /recommendations`, `GET /health` | 409 while a run is in progress; only live trades are shown |
| `scorer.py`, `market_phase.py` | none | the market conditions under which a run recommends | a live verdict and the statistics agree; without BTC's history no gate opens |
| `tracks.py`, `backtest.py`, `features.py` | none | pure functions of stored candles | no look-ahead, no overlapping trades in the statistics |
| `notifier.py` | none | text, three channels tried one by one | a failed request does not stop the other channels |
| `upbit_client.py`, Upbit selector | none | not used by the pipeline any more | - |

**Interaction.** The scheduler's thread pool and the threads that serve `POST /run` call the
same `run_recommendation_pipeline`; a non-blocking lock lets one in. The monitor is a second
job that takes no lock and writes the same table. Every database method is a transaction of
its own, so between any two of them another thread may write, and the process may stop
(`restart: unless-stopped` brings it back with the database and nothing else).

**Hard behaviours.** Two callers of the pipeline; the monitor inside an evaluation that judges
from columns it read earlier; a crash between storing and announcing, or between recording
and alerting; exceptions that end a run while it holds the lock; checks that fail half-way and
start over; windows counted from different moments; history walked page by page while time
goes on and settings change, with requests that are retried or given up and answers that are
judged later than they were given; frames of which one is collected and another is not; state
committed before the message it stands for; a migration that overlaps another one, or stops between two
statements.
`PROJECT.json` lists the hazards, each at the line where it bites, with the properties that
would catch it.

## The modules

| module | models | checked by |
|---|---|---|
| `RecommendationLifecycle` | the run, the monitor, the evaluation, crash and restart, the `recommendations` table | `MCRecommendationLifecycle` with four cfgs |
| `TradeRecord` | what the program promises of a recommendation, without threads, snapshots, failures or a database | the refinement `ImplementsTradeRecord` of the lifecycle |
| `RecommendationBoard` | `GET /recommendations`, over the lifecycle | `MCRecommendationBoard` |
| `CandleCollection` | one market and timeframe: backfill, increment, pages, retries, `collection_state`, changing lookback | `MCCandleCollection` with three cfgs |
| `CandleHistory` | what readers of the candles may rely on, without pages, retries and decisions | the refinement `ImplementsHistory` of the collection |
| `ReversePremium` | the reverse-premium notice, its flag in `app_state` and its channels | `MCReversePremium` |
| `SpellNotice` | what users may expect of the notice: one chance per spell, each channel once | the refinement `ImplementsNotice` of the notice |
| `TradeSimulation` | the trades that the statistics count in the stored history | `MCTradeSimulation` |
| `MarketGates` | regime, market phase and cloud: live and in the statistics | `MCMarketGates` |
| `SchemaMigration` | `DataStore.__init__`, statement by statement | `MCSchemaMigration` |
| `EntryTable` | what the database promises of the recommendations table | the refinement `ImplementsTable` of the migration |
| `RecommendationLifecycleProofs`, `TradeRecordProofs`, `CandleCollectionProofs`, `ReversePremiumProofs`, `SchemaMigrationProofs`, `MarketGatesProofs`, `TradeSimulationProofs` | theorems | tlapm |

`RecommendationBoard` extends the lifecycle and adds the run that a request finds; the other
modules meet at what they share. That one run is in progress at a time, which `ReversePremium`,
`CandleCollection` and `MarketGates` rely on, is `LockHeldByTheRun` of the lifecycle; that
(market, track, entry) is a key of its `rows` is `EntriesAreUnique` of `SchemaMigration`; that
`stored` advances by closed bars without a gap is `NoGap` and `StoredIsClosed` of
`CandleCollection`.

A definition with the comment *Bug to be caught* is not part of its specification: it is the
form the next definition would have with a plausible mistake, and the properties are checked
to fail with it in place.

### RecommendationLifecycle and TradeRecord

State and code: `rows` is the `recommendations` table as a function of the key of
`uq_recommendation_entry` (market, track, entry bar), `stored` the newest closed bar in
`binance_candles` per market and timeframe, `lock` is `pipeline._lock`, `run[t]` the local
variables of thread `t` inside `run_recommendation_pipeline`, `mon` those of the monitor's
check, `sent` and `alerts` count the attempts to hand a message to the channels, the most that
anybody can have received. `now` and `tape` are the
exchange: bar `b` of a market closes at time `b` with a low, a high and a close.

| action | code |
|---|---|
| `Start`, `Collect`, `Recommend` | lock (a caller that finds it held leaves: `AlreadyRunningError`), candle collection per market and frame in any order and with any of them failing, recommendations from the newest stored bar, less what `get_announced_entries` remembers |
| `Save`, `Announce` | `save_run` in one transaction, then `send_notification` |
| `ListPending`, `Evaluate`, `EvaluateFails`, `Finish` | `evaluate_pending_outcomes`: a snapshot, a verdict per row, a row that raises, `finally` |
| `RunRaises` | an exception that leaves the run early |
| `MonitorStart`, `MonitorFetch`, `MonitorMark`, `MonitorSend`, `MonitorRaises` | `run_price_monitor` and `check_price_events`, row by row and event by event |
| `Crash`, `Restart`, `Tick` | the container and the clock |

Which signals fire is not computed: a track may recommend any subset of its candidates'
newest bars, which covers every signal and statistic the scorer could produce. The two
columns that bound an entry are its target and stop distance and its hold, as parameters per
track. Prices are integer steps; returns are differences, not ratios. `Resolved` and `Hits`
are what `get_live_performance` counts for the statistics in a message.

`TradeRecord` is the abstract specification. A trade is put on record before anybody hears of
it; each price event is recorded once, none after the target or the stop; each is alerted once
and after it was recorded; a verdict is given once, and success needs a recorded target. The
refinement mapping reads the trade off its row: its three event columns and its verdict. Threads,
snapshots, locks, candles and crashes disappear in it; an evaluation, a mark, a save, a message
and an alert are the steps that remain.

### RecommendationBoard

`latest` is the run that `get_latest_run` finds, `Shown` what `_live_recommendations` leaves of
it. A run that recommends nothing new is recorded as well, with no rows.

### CandleCollection

`stored` is the set of bars in `binance_candles` for one market and timeframe, `forming`
those of them with the prices of a moment when they were not over, `earliest` the row of `collection_state`, `job` the local
variables of `_collect_and_store_binance` and of the page walk. `Decide` is
`_needs_backfill` with what follows from it, `Probe` the request of
`_is_exchange_earliest`, `Answer` the HTTP answer to the request for a page and `Page` what
`get_klines_since` makes of it, by the clock that `drop_unclosed` reads after it, `Retry` and `GiveUp` an attempt
of `_retry_with_backoff` that is repeated and the last one, which raises, `RecordEarliest` the
note of BR43, `Upsert` the final transaction, `Abandon` the `except` clause and a crash,
`AskListing` the selector's use of the same cache, `Reconfigure` a start with another
`backtest_lookback_days`. An initial database may hold a tail left by the version that had no
pagination (the docstring of `_collect_and_store_binance` tells of it).

`CandleHistory` is the abstract specification: the history is one stretch of bars that are over
and grows only by a whole answer, which supplies every bar that the collection was begun for,
less what the exchange is taken not to have; a failure changes nothing a reader can see. The
refinement mapping keeps the stored bars, the noted first bar and the number of failures, and
computes what a collection in progress owes (`Owing`) from its start and its target. Pages,
probes, retries and the decision between backfill and increment are stutters.

### ReversePremium

`quotes` are the prices at three services, which move between the three requests of a run;
`active` is the flag in `app_state`; `run` the run. `StoreState` is
`_reverse_premium_to_report`; `Deliver` and `ChannelFails` are one channel of `_dispatch` after
the other, much later in the run; `NotifyRaises` is an exception that no sender catches, which
passes over this channel and those after it (over all of them, when the performance is read or
the text is written) and lets the run go on; `Abort` is everything that may end the run in
between, also between two channels. `heard`, `failed`, `raised` and `told` are history: who has
had how many notices of the spell on record, whose channel refused one, at whose an exception
came.

`SpellNotice` keeps the flag, whether there is a chance to tell of it, which channels the chance
has passed (`Passed`, the channels before the dispatch's own place) and what they heard. Prices,
requests and the two moments at which a run may end are stutters, or the end of the chance.

### TradeSimulation

`tape` is the market in bars of the monitor; bars of the coarser frames are formed of it
(`Bar`). `entries` and `sims` say how far the two frames of a track are stored, `signals` which
entry bars fire by the coin's own lines and RSI; `gated` says how far BTC's frame is stored and
`open` which of its bars let an entry count, which stands for the cloud of `aux_ok` and for the
regime of `regime_as_of`. Signals and gate are chosen freely for a bar when it is stored and stay,
as they follow from bars up to that one; what the statistics make of them (`GateOpen`,
`TrackEntries`, `RegimeEntries`) is computed anew from what is stored, as every run does. A
backfill that lengthens the history at its beginning is not part of this module. `Simulate` is `tracks.simulate`, `SimulateTrade` `backtest.simulate_trade`;
`TrackTrades` and `SignalTrades` are the loops of `compute_track_stats` and
`compute_signal_stats`; `FirstTouch` is the reference, with all bars in view, and on the finest
bars it is what the monitor would record. Returns are differences of integer prices, and the
ratios computed from the counted trades are left out.

### MarketGates

`tape` holds the closes of BTC and ETH, `cloud` which BTC bars closed above their cloud,
`stored` how many bars of each market a run has. `Phase` is `momentum_returns`, `classify` and
`combine`; `Regime` is `build_regime_series`; `RegimeAsOf` and `AsOf` are the lookups
of the statistics at the open time of an entry's bar; `CurrentRegime` is what a run reads.
`Collect` brings a reference market up to date, or does not; `Judge` is a run that asks the
gates for a coin's newest bar on one of the two paths, and remembers the verdict, so that it can
be compared with what statistics say of that bar later. Returns are compared by products of
integers, so `>` and `>=` are exact; which bars lie above their cloud is chosen freely.

### SchemaMigration

`db` is the committed state of the file (does the table exist, its columns, rows, key and
index; the rows of `recommendations_new`), `txn` the transaction that holds the write lock,
`opener[o]` where thread `o` stands in `_init_schema`. Each statement is an action. Python's
`sqlite3` commits DDL at once outside a transaction; the `INSERT` that copies rows opens one,
which a crash or an exception rolls back. `Insert` is `save_run` of a process that is open
already. The file may be new or left by any earlier version, and its old rows may hold two of
one entry, as BR37 says the deployed database did.

`EntryTable` has the committed rows, which are what readers find, and whether some constructor
has returned. It says that from then on rows are added one by one and an entry has one row, and
that they change in no other way. All of `_init_schema` but its return, with every overlap, stop
and failure, is a stutter of it.

## What the runs show

Passing runs:

| run | question and properties | instance |
|---|---|---|
| `announce` | may runs overlap, may an announcement be unstored or repeated, is every row judged in the end: `LockHeldByTheRun`, `AnnouncedIsStored`, `NoRepeatWithinMemory`, `EveryRowIsJudged`; does a run judge all it could: `EvaluationIsComplete` | two callers, one of which the scheduler starts; flat prices; three bars, one fault |
| `watch` | is the first touch recorded and alerted once, do verdicts and the published figures follow it: `FirstTouchIsRecorded`, `AlertedOnceAfterRecord`, `OutcomeIsGrounded`, `OutcomeIsFinal`, `CountedTradesStand`; the refinement `ImplementsTradeRecord` | one track, entry bars of two, every path of quotes that stand still or touch both prices, one fault |
| `collection` | is the history whole, closed and deep enough, does a walk meet its guard: `NoGap`, `StoredIsClosed`, `BackfillRefreshes`, `WithinGuard`, `CollectionIsComplete`, `HistoryCatchesUp`; the refinement `ImplementsHistory` | up to seven bars, pages of two, three lookbacks on and off the bar grid, an inherited tail, answers of any age, two attempts at a request, two faults |
| `premium` | is a spell told once, and to whom: `FailedRequestsAreLocal`, `RecordFollowsMarket`; the refinement `ImplementsNotice` | six quotes around the threshold, three channels, two faults, any number of exceptions in a notification |
| `trades` | are simulated trades judged as live ones are: `DecidedByFirstTouch`, `WinsAreReal`, `TradesDoNotOverlap`, `HistoryIsStable` | every path of seven bars from three quotes, every set of signals and of BTC's bars that open the gate; entry bars of two bars of the simulation, BTC's frame behind by any number of bars |
| `gates` | do live verdicts stand, does the past stay fixed, what does a rise or a missing history do: `TrackVerdictStands`, `RegimeVerdictStands`, `KnownHistoryIsFixed`, `NothingWithoutBtc`, `RiseNeverWorsensPhase` | BTC with three closes (a rise below, at and above the threshold), ETH with two, horizons of one, two and three bars, up to four bars, a coin up to two bars behind |
| `migration` | is an opening safe wherever it stops: `NoRowIsLost`, `OpenedIsCurrent`, `LoneOpeningSucceeds`; the refinement `ImplementsTable` | two openings that overlap and repeat, three of the added columns, old rows of every kind, clashing ones among them, crashes at every statement |

Runs that refute what a comment or a document says (each quoted in `PROJECT.json`):

| run | what happens |
|---|---|
| `late_target` | a row judged *not reached* at `entry_time + hold` is still watched until `run_time + hold`, and its target is then recorded and alerted |
| `downtime` | an outage that outlasts a row's window loses its touch, although the check rescans from the entry |
| `board` | the next run, which finds nothing new, empties `GET /recommendations` while a trade is under way |
| `listing` | a backfill from a moment between two bars records its first bar as the exchange's first; a longer lookback then never fetches more |
| `guard` | a backfill cut off by the page guard in front of stored bars leaves a hole that no later run asks for |

The runs `late_target`, `downtime` and `board` use specifications (`PromptSpec`, `BoardSpec`) in
which no bar closes before the run and the monitor have finished their work, so that no slow
thread is needed to refute them.

More deviations of this kind were met and have no run of their own:

- A month is taken to last 30 days (`data_store.py:15`, `:23`), so on the 31st the bar that is
  still forming counts as closed and is stored; an increment keeps only newer bars and never
  replaces it. `OnlyClosedBarsAreStored` below names the condition that the month breaks.
- The docstring of `drop_unclosed` (`data_store.py:73-76`) says what comes of the prices of a
  forming bar: a signal that vanishes, an entry price that cannot be reproduced. They can still be
  stored, because the clock is read after the answer (`binance_client.py:81`): a bar that closes
  in between, while an answer is under way at a full hour, counts as closed with the prices of the
  moment before. The increment keeps only newer bars (`pipeline.py:162`), so no later run repairs
  it but a backfill, which does (`BackfillRefreshes`).
- BR4 (`notifier.py:303`) says that a failure on one channel does not keep the others from being
  attempted. The senders catch `requests.RequestException` and nothing else, and one `try`
  stands around the whole notification (`pipeline.py:319`): any other exception, or one of
  `get_live_performance` or of the text, passes over the channels that are left, and the run
  ends as a success, as `tests/test_pipeline.py:88` expects of it. With the premium's flag set by
  then, the notice is lost to them. `FailedRequestsAreLocal` says what remains of BR4.
- BTC's frame is collected after the coins' and may fail (`pipeline.py:293`). While it is behind,
  the statistics judge newer entries by its last stored bar, live entries included, and a trade
  counted so may go, or one before it come, when BTC is collected. `HistoryIsStable` speaks of
  trades whose bar of BTC's is stored.
- The docstrings at `market_phase.py:3` and `scorer.py:66` say that the phase is for display and
  opens no gate; `scorer.py:207` gates the tracks on it, and `MarketGates` models that.
- A failed request for the premium counts as its end (`pipeline.py:176`), so the next answer
  reports the same spell again; BR35 (`business-rules.md:298`, `:302`) speaks of one notice per
  spell. `ReportedOncePerRecord` speaks of the spell on record.
- A run that ends between storing the premium's flag and sending its message loses the notice
  (`pipeline.py:176`).
- The live regime gate reads the newest value of the series (`scorer.py:62`), the statistics the
  one as of the open time of the entry's bar (`backtest.py:211`), although the comment at
  `backtest.py:90` says that the two cannot diverge. They do for an entry whose bar closes
  together with a bar of BTC, which the live gate reads and the statistics do not, and for a coin
  whose collection is behind BTC's or ahead of it. There is no third case: that the paths agree on
  every other entry is `RegimeVerdictStands`. For the tracks' cloud condition, which is looked up
  on both paths, `TrackVerdictStands` shows that only BTC's bars up to the entry are needed.
- A market that is collected no longer is settled at its last stored close instead of the
  deadline's (`pipeline.py:256`).
- A database that still holds two rows of one entry, as BR37 (`business-rules.md:387`) says the
  deployed one did, cannot be given its unique index (`data_store.py:300`): every opening raises
  until the rows are removed. `LoneOpeningSucceeds` says that this is the one reason for an opening
  to fail that meets no other.

### Bounds

`MaxTime` and `MaxBars` bound the clock and with it the bars, `MaxFaults` crashes, exceptions and
failed requests, `MaxLag` how far a frame or a coin may fall behind, `MaxVerdicts` the verdicts
that are remembered. Counters saturate (`Count` and `heard` at two): one message against two is
what the properties tell apart. The lifecycle needs an entry, a touch, a deadline and a step after
it, hence holds of one and two bars within three or four. The collection needs a walk of three
pages, a lookback before the listing, between bars and on a bar, and time for two bars to close
between runs; its page guard of seven is never met (`WithinGuard`), because its pages hold all the
bars there are (`PagesHoldAll`), and the run `guard` has a smaller one. In the code 600 pages of
1000 bars hold the 560,640 bars of 5840 days in the finest frame, 15 minutes. The simulation needs
two entries whose holds can overlap and the end of the second one, hence seven bars of which two
make one entry bar; `MaxLag` lets each of the coin's frames miss one bar, and BTC's may miss them
all. Frames of other widths, coarser simulation bars among them, are left to the theorems, which
hold of every width. The gates need horizons of different lengths (one, two and three bars), a
regime that is known, which is so from the third bar on, and a bar more to see the past stay as it
was. The migration needs a column that a fresh table has and one that it
lacks, before and after each other. Most theorems need no bound.

`Gates.cfg` and `Trades.cfg` switch the deadlock check off: there the clock, and in the former the
number of verdicts, are bounded and nothing else goes on once all is collected, so the behaviours
end. In every other passing run something
can always happen.

### Fairness

`FairSpec` of the lifecycle assumes that the clock moves, the container is restarted
(`docker-compose.yml:16`), the scheduler's job is started again and again (the cron trigger of
`scheduler.py:47`), and a run whose requests have been answered goes on: every request has a
timeout and a bounded number of retries (`binance_client.py:25`). Nothing is assumed of
`POST /run`, of the monitor or of the success of a collection; that is why `EveryRowIsJudged`
speaks of rows whose market has a closing price. `CandleCollection` assumes that collections
keep beginning and that a request is answered or times out; that failures cease follows from
their bound, that the lookback is left alone is a premise of `HistoryCatchesUp`.
`ReversePremium` assumes the same of its runs.

## What is proved

Four of the properties have no run of their own: `ImplementsTable` includes `EntriesAreUnique`,
`ImplementsNotice` includes `ReportedOncePerRecord`, `StrongPhaseIsStrongRegime` follows from the
code's thresholds and guards against their drifting apart, and the lifecycle's invariant `IInv` is made
of properties of its runs and of what its proof needs. The theorems hold for all values of the
constants that satisfy the named assumptions of their module, any number of faults included.

| module | theorems | state |
|---|---|---|
| `RecommendationLifecycleProofs` | `Invariance` | `Spec => []IInv` |
| | `TypeCorrect`, `StoredBeforeAnnounced`, `RunsAreExclusive`, `AlertsAreSentOnce`, `OutcomesAreGrounded`, `FirstTouchesAreRecorded` | the invariants `TypeOK`, `AnnouncedIsStored`, `LockHeldByTheRun`, `AlertedOnceAfterRecord`, `OutcomeIsGrounded`, `FirstTouchIsRecorded` |
| | `AnnouncedOnceWithinMemory`, `OutcomesAreFinal`, `CountedTradesAreKept`, `EvaluationsAreComplete` | the action properties `NoRepeatWithinMemory`, `OutcomeIsFinal`, `CountedTradesStand`, `EvaluationIsComplete` |
| `TradeRecordProofs` | `RecordIsImplemented` | the refinement `ImplementsTradeRecord` |
| `CandleCollectionProofs` | `TypeCorrect`, `OnlyClosedBarsAreStored`, `NoWalkIsCutOff`, `HistoryNeverHasAGap` | `TypeOK`, `StoredIsClosed`, `WithinGuard`, `NoGap` |
| | `EveryCollectionIsComplete`, `BackfillsRefresh` | the action properties `CollectionIsComplete`, `BackfillRefreshes` |
| | `HistoryIsImplemented` | the refinement `ImplementsHistory` |
| `ReversePremiumProofs` | `TypeCorrect`, `SpellsAreReportedOnce`, `ChannelsAreIndependent` | `TypeOK`, `ReportedOncePerRecord`, `FailedRequestsAreLocal` |
| | `NoticeIsImplemented` | the refinement `ImplementsNotice` |
| `SchemaMigrationProofs` | `Invariance`, `TypeCorrect`, `RowsAreKept`, `SchemaStaysCurrent`, `EntriesStayUnique`, `LoneOpeningsSucceed` | its invariant, `TypeOK`, `NoRowIsLost`, `OpenedIsCurrent`, `EntriesAreUnique`, `LoneOpeningSucceeds` |
| | `TableIsImplemented` | the refinement `ImplementsTable` |
| `MarketGatesProofs` | `TypeCorrect`, `UnknownMarketIsClosed`, `TrackVerdictsStand`, `RegimeVerdictsStand`, `RisingNeverClosesTheGate`, `StrongPhaseNeedsStrongRegime` | `TypeOK`, `NothingWithoutBtc`, `TrackVerdictStands`, `RegimeVerdictStands`, `RiseNeverWorsensPhase`, `StrongPhaseIsStrongRegime` |
| | `HistoryIsFixed` | the action property `KnownHistoryIsFixed` |
| `TradeSimulationProofs` | `TypeCorrect`, `TradesEndAtFirstTouch`, `WinsAreRealAlways`, `TradesNeverOverlap` | `TypeOK`, `DecidedByFirstTouch`, `WinsAreReal`, `TradesDoNotOverlap` |
| | `HistoryStaysStable` | the action property `HistoryIsStable` |

**Lifecycle.** None of its properties is inductive by itself. `IInv` adds what the threads know: a
run that is about to save holds entries that are not stored, or older than its memory
(`FreshIsNew`), which is so because it holds the lock since it looked; an evaluation's snapshot
names rows without a verdict and hits that are on record, because only the lock's holder judges
and hits are never erased (`PendingIsUnjudged`), and a row that was due and priced when the run
began is in the snapshot until it is judged or raises (`DueIsPending`), because only the
lock's holder collects prices and adds rows; the monitor's snapshot is current for rows it has
not fetched, because only the monitor writes hit columns (`WatchIsCurrent`), so what it is about
to mark is unmarked (`MarksAreNew`), belongs to a row without an end and comes before nothing
that ends it (`MarksEndTheRecord`), and what it has raised is marked and unsent
(`RaisedIsUnsent`); and nothing refers to a bar that has not closed (`OnlyClosedBars`). The proof
that a step preserves `IInv` is split by conjunct, and by action below that. The refinement rests
on the same invariant: `FreshIsNew` makes a save publish what is not on record,
`MarksEndTheRecord` makes a mark a first event of an open trade, `PendingIsUnjudged` makes a
verdict the first one.

**Collection.** The proofs name what they need of a frame, which TLC finds true of the run
`collection` (`FrameIsRegular`): that no bar lasts longer than `TIMEFRAME_HOURS`
(`NoBarIsLonger`, for closed bars and the refinement), that none is shorter (`NoBarIsShorter`)
and that a page holds more than one bar, for the rest. Every frame but the month satisfies both.
`GInv` says that the bars a walk has fetched are over and leave out none from where it began
(`WalkInv`), that a finished walk has all that were over when the collection began (`Complete`),
and why it is a backfill or an increment (`Purpose`). So a backfill that is stored contains what
was stored before, and an increment continues its newest bar. That a page continues the last one
(`PageIsContinuation`) is a statement about finite sets, proved by the least bar that would be
missing. `GInv` is inductive as long as no walk meets its page guard; that none does is proved of
`PagesHoldAll`, a condition on the constants: each page but the first brings `Limit - 1` bars
that the walk did not have (`CountInv`), so a walk ends before its pages do. The run `guard`, in
which the condition fails, shows why it is needed. What a walk holds with the prices of a forming bar was
forming when it began (`YInv`), and a backfill replaces all it has walked over. In the refinement
the final transaction is the one step that readers see, and what it owes is supplied by `Complete` and `Purpose`.

**Premium.** A run that carries a notice is the first since the flag was set, and no channel has
heard of the spell beyond the point the dispatch has reached; each channel before that point has
heard or has failed itself, so that what an exception passes over lies beyond it. For the refinement that is all
there is to prove of `Pass`; the flag is reset only by a run that carries no notice, so a chance
never outlives its spell.

**Migration.** For each place in `_init_schema`, `OpenerInv` says what the connection that stands
there may rely on; rows that were ever accepted are in the main table or, while a transaction
moves them, in the copy that it will commit. The lone opening needs a second invariant: as long as
committed rows do not clash, an opening that has met no other one finds the file as it left it.
When they do clash, they go on clashing, as rows are never lost; so no opening returns, and the
failure is the clash that the theorem excepts. The refinement rests on the same places: a commit
that moves rows leaves them as they were, and a return needs the index that keeps entries unique.

**Gates.** The verdicts that runs have found stay those of the statistics because a lookup at a
past moment sees only bars that had closed by then (`HistoryIsFixed`); the newest regime is the
one as of the entry when the run's bars of BTC end with it (`NewestRegime`), and inside a bar of
BTC that is the one as of the entry's open time (`InsideABar`). The agreement of phase and regime
is a statement about products: `StrongBull30d <= Strong30d` and one horizon shared by both are the
assumptions it needs, and both hold of the constants in the code.

**Trades.** The walk over a hold and the loop over the signals are recursive functions of the
history. What they compute is proved without an induction principle: of the bars at which the walk
would differ from its first touch (`WalkIsSettled`), or at which the loop's last exit would not be
that of a counted trade (`LastExitGrows`), the extreme one contradicts the function's definition,
and `LoopExists` builds the loop's function the same way. That coarse bars judge no better than
fine ones rests on two facts about frames: a coarse bar touches a price when one of the bars in it
does (`BarTouches`), and a hold is the same stretch of the history in both (`HoldIsParts`). What was
counted stays because a decided trade does (`VerdictsStay`) and verdicts come in the order of the
entries (`VerdictsAreOrdered`), so that nothing can be decided late in front of a counted trade
(`LoopContinues`). The entries whose bar of BTC's is stored keep their gate (`GateStays`) and are a
prefix of all (`CertainIsPrefix`), as the lookups move forward with the entries
(`GatesAreOrdered`), so newer bars of BTC's change the loop only behind them. The assumptions are that an entry bar is a whole number of bars of the
simulation and that `None` is no outcome.

Only model-checked: liveness (`EveryRowIsJudged`, `HistoryCatchesUp`, `RecordFollowsMarket`), as
fairness and ENABLED are beyond the prover, and the runs that show a doc or a test to be wrong.

## What is not modelled

- Text and layout of messages (most of `notifier.py`), the dashboard and reports, the fields of
  API responses, HTTP framing, the `expired` flag and the history of runs: they change nothing.
- Floating-point numerics: the indicators of `features.py`, Wilson's bound, ratios and floors in
  `scorer.py`, `backtest.py` and `tracks.py`, the ranking of candidates by volume and of
  recommendations by bound. The models choose freely among their possible results.
- APScheduler: misfire grace and coalescing decide when a job starts, and the models start jobs
  at any time.
- `upbit_client.py` and the Upbit selector, which the pipeline no longer runs;
  `get_pending_evaluations`, which only a test calls; rows without an `entry_time`, beyond their
  migration.

The components table of `PROJECT.json` gives the reason and the state of each part.
