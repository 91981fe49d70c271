---------------------------- MODULE CandleCollection ----------------------------
(***************************************************************************)
(* How the candles of one market and timeframe are brought up to date:     *)
(* _collect_and_store_binance (src/pipeline.py) decides between a backfill *)
(* from the configured lookback, an increment from the newest stored bar,  *)
(* and no request at all; get_klines_since (src/binance_client.py) walks   *)
(* the pages of the exchange while time goes on; and the result lands in   *)
(* two transactions of src/data_store.py.  An answer shows the bars as     *)
(* they are when the exchange gives it; which of them are closed is judged *)
(* by the program's own clock, some time later.                            *)
(*                                                                         *)
(* A bar is named by its open time and is over when the next one opens.    *)
(* The program does not know that: it takes every bar of a frame to last   *)
(* TIMEFRAME_HOURS, here Approx, which a month does not.  Nor does a run   *)
(* start when a bar opens, so its lookback seldom ends on one.             *)
(***************************************************************************)
EXTENDS Integers, FiniteSets

CONSTANTS
    Opens,      \* open times of the bars of the frame
    Listed,     \* the first of them on the exchange
    Approx,     \* TIMEFRAME_HOURS of the frame
    Limit,      \* _MAX_LIMIT, bars in one response
    MaxPages,   \* _MAX_PAGES, the runaway guard
    MaxRetries, \* http_max_retries: attempts at one request
    Lookbacks,  \* values that backtest_lookback_days is given over time
    StartTime,  \* when the program is first started
    MaxTime,    \* bound on the clock
    MaxFaults,  \* bound on failures and crashes
    None        \* no row in collection_state; no answer yet

ASSUME CollectionAssumption ==
    /\ Opens \subseteq Nat /\ IsFiniteSet(Opens) /\ Listed \in Opens
    /\ Approx \in Nat \ {0} /\ Limit \in Nat \ {0} /\ MaxPages \in Nat \ {0}
    /\ MaxRetries \in Nat \ {0}
    /\ Lookbacks # {} /\ Lookbacks \subseteq Nat
    /\ StartTime \in Nat /\ MaxTime \in Nat /\ StartTime <= MaxTime /\ Listed <= StartTime
    /\ MaxFaults \in Nat /\ None \notin Opens \cup (StartTime..MaxTime)

Time == StartTime..MaxTime

Job == [pc : {"idle", "decide", "pages", "earliest", "upsert"},
        started : Time, target : Int, backfill : BOOLEAN, cursor : Int,
        pages : 0..MaxPages, tries : 0..MaxRetries, answered : Time \cup {None},
        bars : SUBSET Opens, forming : SUBSET Opens]
Idle == [pc |-> "idle", started |-> StartTime, target |-> 0, backfill |-> FALSE, cursor |-> 0,
         pages |-> 0, tries |-> 0, answered |-> None, bars |-> {}, forming |-> {}]

VARIABLES
    now,
    stored,     \* bars in binance_candles
    forming,    \* those of them with prices of a moment when they were not yet over
    earliest,   \* collection_state.exchange_earliest
    lookback,   \* settings.backtest_lookback_days
    job,        \* the collection in progress
    faults

database == <<stored, forming, earliest>>
vars == <<now, database, lookback, job, faults>>

TypeOK ==
    /\ now \in Time
    /\ stored \in SUBSET Opens /\ forming \in SUBSET stored
    /\ earliest \in Opens \cup {None}
    /\ lookback \in Lookbacks
    /\ job \in Job
    /\ faults \in 0..MaxFaults

Oldest(bars) == CHOOSE b \in bars : \A x \in bars : b <= x
Newest(bars) == CHOOSE b \in bars : \A x \in bars : b >= x
Over(b, at) == \E x \in Opens : b < x /\ x <= at

\* Conditions of the proofs.  No bar lasts longer, or shorter, than the program takes it
\* to: so it is in every frame but the month, whose bars last 28 to 31 days and are all
\* taken to last 30.
NoBarIsLonger == \A b \in Opens, at \in Time : b + Approx <= at => Over(b, at)
NoBarIsShorter == \A b, c \in Opens : b < c => b + Approx <= c

\* The guard's pages hold every bar that the exchange will ever have; consecutive pages
\* share a bar.
PagesHoldAll ==
    /\ MaxPages > 1
    /\ Cardinality({b \in Opens : Listed <= b /\ b + Approx <= MaxTime})
          <= (MaxPages - 1) * (Limit - 1)

\* The database is new, or an earlier version, which fetched a single page and had
\* no cache, has left the newest bars in it.
Init ==
    /\ now = StartTime
    /\ \E from \in Opens : stored = {b \in Opens : from <= b /\ Listed <= b /\ Over(b, StartTime)}
    /\ forming = {} /\ earliest = None
    /\ lookback \in Lookbacks
    /\ job = Idle
    /\ faults = 0

\* The first n of bars.
Leading(bars, n) == {b \in bars : Cardinality({x \in bars : x < b}) < n}

-----------------------------------------------------------------------------
(* The exchange *)

Tick == /\ now < MaxTime /\ now' = now + 1
        /\ UNCHANGED <<database, lookback, job, faults>>

\* What the exchange answers at a moment: the first n bars from start on, the one that
\* is forming then included.
Klines(start, n, at) == Leading({b \in Opens : Listed <= b /\ b <= at /\ start <= b}, n)

\* Bug to be caught: the bar that is still forming is kept.
UndroppedResponse(start, n, at) == Klines(start, n, at)

\* get_klines: of an answer given at `at', drop_unclosed keeps the bars it takes to be
\* closed by now, which may include the one that was forming in the answer.
Response(start, n, at) == {b \in Klines(start, n, at) : b + Approx <= now}

-----------------------------------------------------------------------------
(* One collection *)

\* The scheduler or POST /run collects this market: target_start is fixed.
Begin ==
    /\ job.pc = "idle"
    /\ job' = [Idle EXCEPT !.pc = "decide", !.started = now, !.target = now - lookback]
    /\ UNCHANGED <<now, database, lookback, faults>>

\* Walk the pages from `from' on.
Walk(backfill, from) ==
    job' = [job EXCEPT !.pc = "pages", !.backfill = backfill, !.cursor = from, !.tries = 0]

\* _is_up_to_date: the bar after the newest stored one is taken to be forming.
UpToDate == stored # {} /\ now < Newest(stored) + 2 * Approx

\* No older bars to be had: skip, or continue after the newest stored bar.
Increment == IF UpToDate THEN job' = Idle ELSE Walk(FALSE, Newest(stored))

\* Bug to be caught: whether the newest bars are there is asked first, so a market
\* whose tail is current is never given its head.
TailFirst ==
    /\ job.pc = "decide"
    /\ \/ stored = {} /\ Walk(TRUE, job.target)
       \/ UpToDate /\ job' = Idle
       \/ /\ stored # {} /\ ~UpToDate
          /\ IF Oldest(stored) <= job.target THEN Increment ELSE Walk(TRUE, job.target)
    /\ UNCHANGED <<now, database, lookback, faults>>

\* _needs_backfill and what follows from it, in the cases in which the answer is
\* in the database: no history, deep enough, or the exchange's first bar cached.
Decide ==
    /\ job.pc = "decide"
    /\ \/ stored = {} /\ Walk(TRUE, job.target)
       \/ stored # {} /\ Oldest(stored) <= job.target /\ Increment
       \/ /\ stored # {} /\ Oldest(stored) > job.target /\ earliest # None
          /\ IF earliest >= Oldest(stored) THEN Increment ELSE Walk(TRUE, job.target)
    /\ UNCHANGED <<now, database, lookback, faults>>

\* _is_exchange_earliest without a cached answer: one request for the first bar of
\* all; a request that fails for good falls back to the backfill.  (Of the first bar only
\* the time is used, so it makes no difference how old the answer is when it is judged.)
Asking == job.pc = "decide" /\ stored # {} /\ Oldest(stored) > job.target /\ earliest = None
Probe ==
    /\ Asking
    /\ \/ /\ \E b \in Response(0, 1, now) :
                /\ earliest' = b
                /\ IF b >= Oldest(stored) THEN Increment ELSE Walk(TRUE, job.target)
          /\ UNCHANGED faults
       \/ /\ Response(0, 1, now) = {} /\ Walk(TRUE, job.target)
          /\ UNCHANGED <<earliest, faults>>
       \/ /\ faults < MaxFaults /\ faults' = faults + 1
          /\ Walk(TRUE, job.target)
          /\ UNCHANGED earliest
    /\ UNCHANGED <<now, stored, forming, lookback>>

\* A page has been asked for and the exchange has not answered.
Requesting == job.pc = "pages" /\ job.answered = None

\* Bug to be caught: the guard counts requests, not pages.
RetryCounted ==
    /\ Asking \/ Requesting
    /\ job.tries + 1 < MaxRetries /\ faults < MaxFaults
    /\ faults' = faults + 1
    /\ job' = [job EXCEPT !.tries = @ + 1, !.pages = @ + 1]
    /\ UNCHANGED <<now, database, lookback>>

\* _retry_with_backoff: an attempt meets a timeout, a lost connection or an error of
\* the server, and is repeated after a pause.
Retry ==
    /\ Asking \/ Requesting
    /\ job.tries + 1 < MaxRetries /\ faults < MaxFaults
    /\ faults' = faults + 1
    /\ job' = [job EXCEPT !.tries = @ + 1]
    /\ UNCHANGED <<now, database, lookback>>

\* Bug to be caught: the last attempt returns nothing, which reads as an empty page.
GiveUpEmpty ==
    /\ Requesting /\ faults < MaxFaults
    /\ faults' = faults + 1
    /\ job' = [job EXCEPT !.pc = "upsert"]
    /\ UNCHANGED <<now, database, lookback>>

\* The last attempt at a page, or one that the exchange refuses (4xx), raises: the
\* pages fetched so far are dropped and the market is skipped in this run.
GiveUp ==
    /\ Requesting /\ faults < MaxFaults
    /\ faults' = faults + 1
    /\ job' = Idle
    /\ UNCHANGED <<now, database, lookback>>

\* The exchange answers; what becomes of the answer is decided later.
Answer ==
    /\ Requesting
    /\ job' = [job EXCEPT !.answered = now]
    /\ UNCHANGED <<now, database, lookback, faults>>

\* The backfill began at target_start and found its first bar later.
FoundFirst(bars) == job.backfill /\ bars # {} /\ Oldest(bars) > job.target

\* Bug to be caught: a page is stored as soon as it is there, so that a collection
\* that fails half-way has changed what readers find.
PageAndStore ==
    LET raw == Response(job.cursor, Limit, job.answered)
        fresh == {b \in raw : \A x \in job.bars : b > x}
        bars == job.bars \cup fresh
        last == fresh = {} \/ Cardinality(raw) < Limit \/ job.pages + 1 = MaxPages
    IN
    /\ job.pc = "pages" /\ job.answered # None
    /\ job' = [job EXCEPT
                 !.pc = IF ~last THEN "pages" ELSE IF FoundFirst(bars) THEN "earliest" ELSE "upsert",
                 !.cursor = IF last THEN @ ELSE Newest(bars),
                 !.pages = @ + 1, !.tries = 0, !.answered = None, !.bars = bars]
    /\ stored' = stored \cup fresh
    /\ UNCHANGED <<now, forming, earliest, lookback, faults>>

\* One page of get_klines_since, out of the answer.  The walk ends at an empty, a
\* repeated or a short page, or at the guard.  A bar that closes between the answer and
\* this step is kept with the prices it had in the answer.
Page ==
    LET raw == Response(job.cursor, Limit, job.answered)
        fresh == {b \in raw : \A x \in job.bars : b > x}
        bars == job.bars \cup fresh
        last == fresh = {} \/ Cardinality(raw) < Limit \/ job.pages + 1 = MaxPages
    IN
    /\ job.pc = "pages" /\ job.answered # None
    /\ job' = [job EXCEPT
                 !.pc = IF ~last THEN "pages" ELSE IF FoundFirst(bars) THEN "earliest" ELSE "upsert",
                 !.cursor = IF last THEN @ ELSE Newest(bars),
                 !.pages = @ + 1, !.tries = 0, !.answered = None,
                 !.bars = bars,
                 !.forming = @ \cup {b \in fresh : ~Over(b, job.answered)}]
    /\ UNCHANGED <<now, database, lookback, faults>>

\* Bug to be caught: the start that was asked for is recorded, not the bar found.
RecordTarget ==
    /\ job.pc = "earliest"
    /\ earliest' = job.target
    /\ job' = [job EXCEPT !.pc = "upsert"]
    /\ UNCHANGED <<now, stored, forming, lookback, faults>>

\* BR43: the first bar that a backfill found is recorded as the exchange's first.
RecordEarliest ==
    /\ job.pc = "earliest"
    /\ earliest' = Oldest(job.bars)
    /\ job' = [job EXCEPT !.pc = "upsert"]
    /\ UNCHANGED <<now, stored, forming, lookback, faults>>

\* An increment keeps only the bars after the newest it had read.
Kept == IF job.backfill THEN job.bars ELSE {b \in job.bars : b > Newest(stored)}

\* Bug to be caught: a stored bar is left as it is.
UpsertMissing ==
    /\ job.pc = "upsert"
    /\ stored' = stored \cup Kept
    /\ forming' = forming \cup (job.forming \cap (Kept \ stored))
    /\ job' = Idle
    /\ UNCHANGED <<now, earliest, lookback, faults>>

\* upsert_candles: a bar fetched again replaces the stored one.
Upsert ==
    /\ job.pc = "upsert"
    /\ stored' = stored \cup Kept
    /\ forming' = (forming \ Kept) \cup (job.forming \cap Kept)
    /\ job' = Idle
    /\ UNCHANGED <<now, earliest, lookback, faults>>

\* A transaction fails and the market is skipped in this run, or the process stops:
\* what the collection had fetched is gone, the database stays.
Abandon ==
    /\ job.pc # "idle" /\ faults < MaxFaults
    /\ faults' = faults + 1
    /\ job' = Idle
    /\ UNCHANGED <<now, database, lookback>>

\* BinanceMarketSelector._listed_at asks for the first bar of all before the market
\* is collected, and shares the cache (of the daily bars).
AskListing ==
    /\ job.pc = "idle" /\ earliest = None
    /\ \E b \in Response(0, 1, now) : earliest' = b
    /\ UNCHANGED <<now, stored, forming, lookback, job, faults>>

\* The program is started again with another lookback.
Reconfigure ==
    /\ job.pc = "idle"
    /\ \E l \in Lookbacks \ {lookback} : lookback' = l
    /\ UNCHANGED <<now, database, job, faults>>

\* What a collection does once its requests are answered.
Proceed == Decide \/ Probe \/ Answer \/ Page \/ RecordEarliest \/ Upsert

Next ==
    \/ Tick \/ Begin \/ Proceed \/ Retry \/ GiveUp \/ Abandon
    \/ AskListing \/ Reconfigure

Spec == Init /\ [][Next]_vars

\* The cron trigger keeps starting runs, and a request is answered or times out.
FairSpec == Spec /\ WF_vars(Begin) /\ WF_vars(Proceed)

-----------------------------------------------------------------------------
(* What must hold *)

\* The stored history has no gap, whatever fails half-way and however the lookback
\* changes: indicators and simulations take neighbouring bars to be consecutive.
NoGap == \A a, c \in stored : \A b \in Opens : a < b /\ b < c => b \in stored

\* Readers never find a bar that is still forming, however old an answer is when
\* drop_unclosed judges it: a signal read off such a bar could vanish before its close.
StoredIsClosed == \A b \in stored : Over(b, now)

\* A bar that closed between an answer and its check is stored with the prices of a
\* forming bar, which no increment asks for again; a backfill that returns has replaced
\* them by the final ones wherever it went (ON CONFLICT DO UPDATE in upsert_candles).
BackfillRefreshes ==
    [][job.pc = "upsert" /\ job.backfill /\ job'.pc = "idle" /\ faults' = faults =>
          \A b \in forming' : b >= job.target => ~Over(b, job.started)]_vars

\* A collection that returns, after however many retries, has every bar of the lookback
\* that was over when it began, except what collection_state says the exchange does not
\* have.
CollectionIsComplete ==
    [][job.pc # "idle" /\ job'.pc = "idle" /\ faults' = faults =>
          \A b \in Opens : /\ Over(b, job.started) /\ b >= job.target /\ b >= Listed
                           /\ earliest' # None => b >= earliest'
                           => b \in stored']_vars

\* No walk is cut off by the guard against runaway walks (_MAX_PAGES): as long as the
\* bars of the frame fit into its pages, of which consecutive ones share a bar, and
\* however often a page is asked for again and time goes on meanwhile.
WithinGuard == job.pc = "pages" => job.pages + 1 < MaxPages

\* Once the configuration is left alone and failures cease, the history reaches back
\* over the lookback and up to the newest bar that is over, and stays so, whatever
\* earlier versions, settings and interrupted collections have left in the database.
CaughtUp ==
    \A b \in Opens : /\ Over(b, now) /\ b >= now - lookback /\ b >= Listed
                     /\ earliest # None => b >= earliest
                     => b \in stored
HistoryCatchesUp == \A l \in Lookbacks : <>[](lookback = l) => <>[]CaughtUp

\* Pages, retries, probes and half-finished walks are invisible: to whoever reads the
\* candles, a collection is one step that supplies all it owes, or none at all.
Owing == IF job.pc = "idle" THEN {}
         ELSE {b \in Opens : Over(b, job.started) /\ b >= job.target /\ b >= Listed}
History == INSTANCE CandleHistory WITH
    history <- stored, known <- earliest, failures <- faults,
    collects <- job.pc # "idle", owed <- Owing
ImplementsHistory == History!Spec

-----------------------------------------------------------------------------
(* What the comments say and the code does not keep *)

\* BR28 and BR43: collection_state holds the oldest bar that the exchange can give.
EarliestIsListing == earliest # None => earliest = Listed

\* BR41: a walk that the page guard has cut off is continued by the next run, so a
\* hole it leaves in the history is filled.
TruncationIsMadeGood == ~NoGap ~> NoGap
=============================================================================
