----------------------------- MODULE TradeSimulation -----------------------------
(***************************************************************************)
(* How the program rates a signal: the trades it would have made in the    *)
(* stored history of one market.  simulate and compute_track_stats of      *)
(* src/tracks.py judge the tracks on bars finer than those that signal the *)
(* entries; simulate_trade and compute_signal_stats of src/backtest.py     *)
(* judge the regime track on the signalling bars themselves; _events_for   *)
(* of src/monitor.py judges a live trade on the finest bars.  Both loops   *)
(* ask BTC's bars, of a third frame, whether an entry counted at its time. *)
(* The history grows while bars close, and each frame is collected at its  *)
(* own moments.                                                            *)
(*                                                                         *)
(* Time is counted in bars of the monitor's frame: bar n of a frame of     *)
(* width w closes at n * w.  Prices are integer steps, returns differences. *)
(***************************************************************************)
EXTENDS Integers, Sequences, FiniteSetsExt

CONSTANTS
    Quotes,      \* the [low, high, close] that a bar of the monitor may show
    SimWidth,    \* spec.sim_timeframe in bars of the monitor
    EntryWidth,  \* spec.timeframe in bars of the monitor
    GateWidth,   \* BTC's 4h in bars of the monitor
    Up, Down,    \* spec.target and spec.stop, in price steps
    HoldBars,    \* bars_for(spec), in bars of the simulation
    Forward,     \* FORWARD_BARS_1H, in bars of the entry frame
    MaxTime,     \* bound on the history
    MaxLag,      \* bound on the bars by which a coin's frame lags behind; BTC's is free to
    None         \* Python's None: not decided

ASSUME SimulationAssumption ==
    /\ Quotes \subseteq [low : Int, high : Int, close : Int]
    /\ SimWidth \in Nat \ {0} /\ EntryWidth \in Nat \ {0} /\ EntryWidth % SimWidth = 0
    /\ GateWidth \in Nat \ {0}
    /\ Up \in Nat \ {0} /\ Down \in Nat \ {0}
    /\ HoldBars \in Nat \ {0} /\ Forward \in Nat \ {0}
    /\ MaxTime \in Nat /\ EntryWidth <= MaxTime /\ MaxLag \in Nat

\* What a judge says of a trade: how it ended, what it returned, and when.
TradeOutcome == [result : {"win", "loss", "timeout"}, ret : Int, exit : Int]
ASSUME OutcomeAssumption == None \notin TradeOutcome

VARIABLES
    tape,     \* the market, bar by bar of the monitor
    signals,  \* stored entry bars that pass what the coin's own bars decide
    entries,  \* number of entry bars stored
    sims,     \* number of bars of the simulation's frame stored
    open,     \* stored bars of BTC's that let entries count: above the cloud, or in a
              \* known regime
    gated     \* number of BTC's bars stored

vars == <<tape, signals, entries, sims, open, gated>>

\* BTC's last bar that has closed by a moment; the first is the one that closes when
\* this history begins, as BTC's begins earlier.
GateBar(moment) == moment \div GateWidth + 1

TypeOK ==
    /\ tape \in Seq(Quotes) /\ Len(tape) <= MaxTime
    /\ entries \in Nat /\ entries * EntryWidth <= Len(tape)
    /\ signals \in SUBSET (1..entries)
    /\ sims \in Nat /\ sims * SimWidth <= Len(tape)
    /\ open \in SUBSET (1..gated)
    /\ gated \in Nat /\ (gated - 1) * GateWidth <= Len(tape)

\* The history begins with one bar of the entry frame, at a price that stood still; of
\* BTC's history the part before may be stored.
Init ==
    /\ \E q \in Quotes : tape = [k \in 1..EntryWidth |-> q]
    /\ signals = {} /\ entries = 0 /\ sims = 0
    /\ gated \in {0, 1} /\ open \in SUBSET (1..gated)

\* A bar of the monitor closes.
Close ==
    /\ Len(tape) < MaxTime
    /\ Len(tape) \div EntryWidth - entries < MaxLag
    /\ Len(tape) \div SimWidth - sims < MaxLag
    /\ \E q \in Quotes : tape' = Append(tape, q)
    /\ UNCHANGED <<signals, entries, sims, open, gated>>

\* Bug to be caught: the bar that is still forming is stored as well.
CollectForming ==
    /\ entries' = Len(tape) \div EntryWidth + 1
    /\ UNCHANGED <<tape, signals, sims, open, gated>>

\* Each frame is collected by itself when there is something new, and its request may fail;
\* a collection that brings nothing changes nothing.  The lines and indicators
\* of a bar make it a signal or not (entry_signal, entry_ok and the RSI of aux_ok) ...
CollectEntries ==
    /\ entries' = Len(tape) \div EntryWidth /\ entries' > entries
    /\ \E fired \in SUBSET (entries + 1 .. entries') : signals' = signals \cup fired
    /\ UNCHANGED <<tape, sims, open, gated>>
CollectSims ==
    /\ sims' = Len(tape) \div SimWidth /\ sims' > sims
    /\ UNCHANGED <<tape, signals, entries, open, gated>>
\* ... and those of BTC's bars decide whether entries count from there on.
CollectGate ==
    /\ gated' = GateBar(Len(tape)) /\ gated' > gated
    /\ \E above \in SUBSET (gated + 1 .. gated') : open' = open \cup above
    /\ UNCHANGED <<tape, signals, entries, sims>>

Next == Close \/ CollectEntries \/ CollectSims \/ CollectGate
Spec == Init /\ [][Next]_vars

-----------------------------------------------------------------------------
(* One trade *)

\* Bar j of a frame, as the exchange forms it of the finest bars.
Bar(width, j) ==
    LET part == (j - 1) * width + 1 .. j * width
    IN [low |-> Min({tape[k].low : k \in part}), high |-> Max({tape[k].high : k \in part}),
        close |-> tape[j * width].close]

EntryPrice(n) == tape[n * EntryWidth].close

\* Bug to be caught: in a bar that holds both prices the target wins.
WalkTargetFirst(width, price, first, last) ==
    LET walk[j \in Nat] ==
          IF j > last
          THEN [result |-> "timeout", ret |-> Bar(width, last).close - price, exit |-> last * width]
          ELSE IF Bar(width, j).high >= price + Up
          THEN [result |-> "win", ret |-> Up, exit |-> j * width]
          ELSE IF Bar(width, j).low <= price - Down
          THEN [result |-> "loss", ret |-> -Down, exit |-> j * width]
          ELSE walk[j + 1]
    IN walk[first]

\* The walk from bar to bar that all three judges share: the stop first, as within
\* a bar the order is not known; at the end of the hold the closing price settles.
Walk(width, price, first, last) ==
    LET walk[j \in Nat] ==
          IF j > last
          THEN [result |-> "timeout", ret |-> Bar(width, last).close - price, exit |-> last * width]
          ELSE IF Bar(width, j).low <= price - Down
          THEN [result |-> "loss", ret |-> -Down, exit |-> j * width]
          ELSE IF Bar(width, j).high >= price + Up
          THEN [result |-> "win", ret |-> Up, exit |-> j * width]
          ELSE walk[j + 1]
    IN walk[first]

\* SimSeries.index_at: the last stored bar that has closed by moment.
IndexAt(moment) == Min({sims, moment \div SimWidth})

\* Bug to be caught (BR24): a trade that is still open is cut off where the data
\* end and counted as a timeout.
SimulateTruncated(n) ==
    LET start == IndexAt(n * EntryWidth)
        last == Min({start + HoldBars, sims})
    IN IF start = 0 \/ last <= start THEN None
       ELSE Walk(SimWidth, EntryPrice(n), start + 1, last)

\* simulate: undecided while the finer history does not
\* reach the entry and until the hold is over.
Simulate(n) ==
    LET start == IndexAt(n * EntryWidth)
    IN IF start = 0 \/ start + HoldBars > sims THEN None
       ELSE Walk(SimWidth, EntryPrice(n), start + 1, start + HoldBars)

\* simulate_trade, on the entry frame's own bars.
SimulateTrade(n) ==
    IF n + Forward > entries THEN None
    ELSE Walk(EntryWidth, EntryPrice(n), n + 1, n + Forward)

-----------------------------------------------------------------------------
(* All trades *)

\* Bug to be caught: only the entry itself is closed to further entries.
ReopensAfterEntry(n) == n * EntryWidth + 1

\* The moment from which another entry counts: compute_track_stats waits for the
\* exit, by time, as the two frames differ;
Reopens(n) == Simulate(n).exit

\* compute_signal_stats waits for the whole window, also after an earlier exit.
ReopensAfterWindow(n) == (n + Forward + 1) * EntryWidth

\* Bug to be caught: the past is judged by what BTC shows now.
GateOpenNow(moment) == gated \in open

\* _as_of and regime_as_of: what the last stored bar of BTC's says that has closed by a
\* moment; without one, no entry counts.
GateOpen(moment) == Min({gated, GateBar(moment)}) \in open

\* aux_ok asks at the entry bar's close, compute_signal_stats at its open.
TrackEntries == {n \in signals : GateOpen(n * EntryWidth)}
RegimeEntries == {n \in signals : GateOpen((n - 1) * EntryWidth)}

\* The loop over the stored entry bars, with its last_exit: an entry counts when no
\* trade is open and its outcome is decided.
Count(passing, Judge(_), Reopen(_)) ==
    LET lastExit[n \in 0..entries] ==
            IF n = 0 THEN 0
            ELSE LET before == lastExit[n - 1]
                 IN IF n \in passing /\ n * EntryWidth >= before /\ Judge(n) # None
                    THEN Reopen(n) ELSE before
        Counts(n) == n * EntryWidth >= lastExit[n - 1] /\ Judge(n) # None
    IN [n \in {x \in passing \cap 1..entries : Counts(x)} |-> Judge(n)]

TrackTrades == Count(TrackEntries, Simulate, Reopens)
SignalTrades == Count(RegimeEntries, SimulateTrade, ReopensAfterWindow)

-----------------------------------------------------------------------------
(* What must hold *)

\* What the first bar that touches a price says, with all bars of the hold in view.
FirstTouch(width, price, first, last) ==
    LET stops == {j \in first..last : Bar(width, j).low <= price - Down}
        ends == stops \cup {j \in first..last : Bar(width, j).high >= price + Up}
    IN IF ends = {} THEN "timeout" ELSE IF Min(ends) \in stops THEN "loss" ELSE "win"

\* A simulated trade ends as the first bar of its hold that touches a price says,
\* and is decided as soon as every bar of the hold is stored: on the finer bars
\* exactly those that close in the hold after the entry, whichever frame lags.
DecidedByFirstTouch ==
    \A n \in 1..entries :
        LET start == (n * EntryWidth) \div SimWidth IN
        /\ (Simulate(n) = None <=> start = 0 \/ start + HoldBars > sims)
        /\ Simulate(n) # None =>
              Simulate(n).result =
                  FirstTouch(SimWidth, EntryPrice(n), start + 1, start + HoldBars)
        /\ SimulateTrade(n) # None =>
              SimulateTrade(n).result = FirstTouch(EntryWidth, EntryPrice(n), n + 1, n + Forward)

\* The statistics do not flatter (BR18, BR27): a win on coarse bars is one the
\* monitor would record on the finest bars, and a trade that times out there does
\* so here.
WinsAreReal ==
    \A n \in 1..entries :
        LET entry == n * EntryWidth
            Live(hold) == FirstTouch(1, EntryPrice(n), entry + 1, entry + hold)
            Conservative(trade, hold) ==
                trade # None => /\ trade.result = "win" => Live(hold) = "win"
                                /\ Live(hold) = "timeout" <=> trade.result = "timeout"
        IN /\ Conservative(Simulate(n), HoldBars * SimWidth)
           /\ Conservative(SimulateTrade(n), Forward * EntryWidth)

\* No two counted trades of a track are open at once, so no stretch of the history
\* is counted twice, and no decided entry is left out but for an open trade.
TradesDoNotOverlap ==
    LET trades == TrackTrades
        InTrade(n, a) == a < n /\ n * EntryWidth < trades[a].exit
    IN /\ \A a, n \in DOMAIN trades : ~InTrade(n, a)
       /\ \A n \in (TrackEntries \cap 1..entries) \ DOMAIN trades :
             Simulate(n) = None \/ \E a \in DOMAIN trades : InTrade(n, a)

\* Entries whose bar of BTC's is stored, so that what the loops ask of BTC is final.
TrackCertain == {n \in 1..entries : GateBar(n * EntryWidth) <= gated}
RegimeCertain == {n \in 1..entries : GateBar((n - 1) * EntryWidth) <= gated}

\* What has been counted stays so, once BTC's bar is stored that it was asked about: a bar
\* that closes, or a frame that is collected before the others, changes no such trade and
\* adds none before it.  What was counted by an older bar of BTC's may go again.
Continues(old, new, certain) ==
    \A a \in DOMAIN old \cap certain :
       /\ a \in DOMAIN new /\ new[a] = old[a]
       /\ \A n \in DOMAIN new \ DOMAIN old : a < n
HistoryIsStable ==
    [][/\ \A old \in {TrackTrades}, new \in {TrackTrades'} : Continues(old, new, TrackCertain)
       /\ \A old \in {SignalTrades}, new \in {SignalTrades'} :
             Continues(old, new, RegimeCertain)]_vars
=============================================================================
