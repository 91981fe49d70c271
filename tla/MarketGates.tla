------------------------------ MODULE MarketGates ------------------------------
(***************************************************************************)
(* The market conditions under which coin-recommender recommends at all:   *)
(* the regime of BTC's four-hour bars (build_regime_series in              *)
(* src/backtest.py), the phase of BTC and ETH (src/market_phase.py), and   *)
(* BTC's cloud as an entry's condition (aux_ok in src/tracks.py).  A run   *)
(* asks them of the candles it has (src/scorer.py), and the statistics ask *)
(* the same of every entry of the past.                                    *)
(*                                                                         *)
(* Time is counted in the bars of the regime path's entries ("1h"); a bar  *)
(* of the reference markets ("4h") is Width of them.  Reference bar i      *)
(* closes at time i * Width.  Either reference market may fail to be       *)
(* collected, and so may the coin, whose newest stored bar may be old.     *)
(* Collections happen only inside the one run that holds the lock, so      *)
(* nothing moves while a run asks.                                         *)
(***************************************************************************)
EXTENDS Integers, Sequences, FiniteSets, FiniteSetsExt

CONSTANTS
    Btc, Eth,      \* PHASE_MARKETS
    Prices,        \* Prices[m]: closes that reference market m may show
    Width,         \* bars of the regime path's entries in a reference bar
    Horizon,       \* MOMENTUM_HORIZONS, in reference bars
    WeakMin,       \* WEAK_MIN_POSITIVE
    Strong30d,     \* STRONG_30D, in per cent
    RegimeBars,    \* REGIME_BARS_30D
    StrongBull30d, \* STRONG_BULL_30D, in per cent
    OffLow,        \* REBOUND_OFF_LOW, in per cent
    MaBars,        \* REGIME_MA_BARS
    StartBars,     \* reference bars that have closed when the program starts
    StartClouds,   \* which of them may have closed above their cloud
    MaxBars,       \* bound on the reference bars
    MaxLag,        \* bound on the age of a coin's newest stored bar
    MaxVerdicts,   \* bound on the verdicts that are remembered
    None

PhaseMarkets == {Btc, Eth}
Horizons == {"1d", "7d", "30d", "90d", "365d"}
Time == 0..(MaxBars * Width)

ASSUME GateAssumption ==
    /\ Btc # Eth
    /\ Prices \in [PhaseMarkets -> SUBSET (Nat \ {0})]
    /\ Width \in Nat \ {0} /\ Horizon \in [Horizons -> Nat \ {0}]
    /\ \A h \in Horizons : Horizon[h] <= Horizon["365d"]
    /\ WeakMin \in Nat /\ WeakMin <= 3
    /\ Strong30d \in Nat /\ StrongBull30d \in Nat /\ StrongBull30d <= Strong30d
    /\ OffLow \in Nat /\ RegimeBars = Horizon["30d"] /\ MaBars \in Nat \ {0}
    /\ StartBars \in Nat /\ MaxBars \in Nat /\ StartBars <= MaxBars
    /\ StartClouds \subseteq SUBSET (1..StartBars)
    /\ MaxLag \in Nat /\ MaxVerdicts \in Nat

Verdict == [path : {"regime", "track"}, bar : Time, cloud : BOOLEAN, accepted : BOOLEAN,
            known : 0..MaxBars]

VARIABLES
    now,
    tape,     \* tape[m]: closes of the closed bars of reference market m
    cloud,    \* the bars of Btc that closed above their cloud
    stored,   \* stored[m]: how many of them are in binance_candles
    verdicts  \* history: what runs found for a coin's newest bar

vars == <<now, tape, cloud, stored, verdicts>>

Bars(at) == at \div Width

TypeOK ==
    /\ now \in Time
    /\ tape \in [PhaseMarkets -> Seq(Nat \ {0})]
    /\ \A m \in PhaseMarkets : Len(tape[m]) = Bars(now)
    /\ cloud \subseteq 1..Bars(now)
    /\ stored \in [PhaseMarkets -> 0..MaxBars]
    /\ \A m \in PhaseMarkets : stored[m] <= Bars(now)
    /\ verdicts \subseteq Verdict

Init ==
    /\ now = StartBars * Width
    /\ tape \in {t \in [PhaseMarkets -> UNION {[1..StartBars -> Prices[m]] : m \in PhaseMarkets}] :
                   \A m \in PhaseMarkets : t[m] \in [1..StartBars -> Prices[m]]}
    /\ cloud \in StartClouds
    /\ stored = [m \in PhaseMarkets |-> 0]
    /\ verdicts = {}

\* The candles of a reference market that the program has.
Candles(m) == SubSeq(tape[m], 1, stored[m])

-----------------------------------------------------------------------------
(* The phase: market_phase *)

\* The return at the last of closes over back bars exceeds pct per cent.
Rose(closes, back, pct) ==
    LET i == Len(closes) IN 100 * closes[i] > (100 + pct) * closes[i - back]

\* momentum_returns: no judgement without the longest horizon.
Assessable(closes) == Len(closes) > Horizon["365d"]

\* classify, by its two questions.
Strong(closes) ==
    /\ Rose(closes, Horizon["30d"], Strong30d)
    /\ Rose(closes, Horizon["90d"], 0) /\ Rose(closes, Horizon["365d"], 0)
Positive(closes) == {h \in Horizons : Rose(closes, Horizon[h], 0)}
Rising(closes) ==
    Strong(closes) \/ ("30d" \in Positive(closes) /\ Cardinality(Positive(closes)) >= WeakMin)

\* Bug to be caught: a bull market is one in which all rise weakly.
CombineEqual(strong, rising, assets) ==
    IF strong = assets THEN "strong_bull"
    ELSE IF rising = assets /\ strong = {} THEN "bull"
    ELSE IF rising # {} THEN "weak_bull" ELSE "not_bull"

\* combine: which of the assets rise strongly, and which at all.
Combine(strong, rising, assets) ==
    IF strong = assets THEN "strong_bull"
    ELSE IF rising = assets THEN "bull"
    ELSE IF rising # {} THEN "weak_bull" ELSE "not_bull"

\* current_phase: of the assets that can be judged; None when there is none.
Phase(candles) ==
    LET assets == {m \in PhaseMarkets : Assessable(candles[m])} IN
    IF assets = {} THEN None
    ELSE Combine({m \in assets : Strong(candles[m])}, {m \in assets : Rising(candles[m])}, assets)

\* check_market_phase.
CurrentPhase == Phase([m \in PhaseMarkets |-> Candles(m)])
OpenPhases == {"strong_bull", "bull", "weak_bull"}

-----------------------------------------------------------------------------
(* The regime: build_regime_series and regime_as_of *)

\* _above_long_term_trend.
AboveLongTermTrend(closes) ==
    LET i == Len(closes) IN
    i > MaBars /\ MaBars * closes[i] > MapThenSumSet(LAMBDA j : closes[j], (i - MaBars + 1)..i)

\* The regime of the last bar of closes.
Regime(closes) ==
    LET i == Len(closes)
        low == {j \in (i - RegimeBars + 1)..i : 100 * closes[i] > (100 + OffLow) * closes[j]}
    IN IF i <= RegimeBars THEN None
       ELSE IF Rose(closes, RegimeBars, StrongBull30d) THEN "strong_bull"
       ELSE IF ~Rose(closes, RegimeBars, 0) /\ low # {} /\ AboveLongTermTrend(closes)
            THEN "rebound"
       ELSE None

\* Bug to be caught: a bar counts from the time it opens.
OpenTime(i) == (i - 1) * Width

\* The time at which bar i is put into the series: its close.
CloseTime(i) == i * Width

\* regime_as_of: the newest bar of the series that had closed at the moment.
RegimeAsOf(closes, moment) ==
    LET bars == {i \in 1..Len(closes) : CloseTime(i) <= moment} IN
    IF bars = {} THEN None ELSE Regime(SubSeq(closes, 1, Max(bars)))

\* Bug to be caught: the newest value is taken, whatever the moment.
AsOfNewest(count, moment) == count \in cloud

\* Bug to be caught: what is not known does not stand in the way.
AsOfUnknownPasses(count, moment) ==
    LET bars == {i \in 1..count : CloseTime(i) <= moment} IN
    bars # {} => Max(bars) \in cloud

\* _as_of: BTC was above its cloud at the last bar that had closed at the moment;
\* not when there is none.
AsOf(count, moment) ==
    LET bars == {i \in 1..count : CloseTime(i) <= moment} IN
    bars # {} /\ Max(bars) \in cloud

-----------------------------------------------------------------------------
(* The market, the collection and the runs *)

\* An entry bar closes; every Width of them, a bar of the reference markets.
Tick ==
    /\ now + 1 \in Time
    /\ now' = now + 1
    /\ IF Bars(now') = Bars(now) THEN UNCHANGED <<tape, cloud>>
       ELSE /\ \E b \in Prices[Btc], e \in Prices[Eth] :
                  tape' = [m \in PhaseMarkets |-> Append(tape[m], IF m = Btc THEN b ELSE e)]
            /\ cloud' \in {cloud, cloud \cup {Bars(now')}}
    /\ UNCHANGED <<stored, verdicts>>

\* Bug to be caught: the bar that is still forming is stored as well.
CollectForming(m) ==
    /\ stored[m] <= Len(tape[m])
    /\ stored' = [stored EXCEPT ![m] = Len(tape[m]) + 1]
    /\ UNCHANGED <<now, tape, cloud, verdicts>>

\* A reference market is brought up to date; or its collection fails.
Collect(m) ==
    /\ stored[m] < Len(tape[m])
    /\ stored' = [stored EXCEPT ![m] = Len(tape[m])]
    /\ UNCHANGED <<now, tape, cloud, verdicts>>

\* check_market_regime, and the gate of generate_recommendations: the last bar of
\* the series, none when it is empty.
CurrentRegime == IF stored[Btc] = 0 THEN None ELSE Regime(Candles(Btc))

\* What a run finds for a coin whose newest stored entry bar closed at bar: BTC's
\* cloud, and whether the gates of its path let a signal on that bar through.
Found(path, bar) ==
    LET above == AsOf(stored[Btc], bar) IN
    [path |-> path, bar |-> bar, cloud |-> above, known |-> stored[Btc],
     accepted |-> \/ path = "regime" /\ CurrentRegime # None
                  \/ path = "track" /\ CurrentPhase \in OpenPhases /\ above]

\* generate_recommendations or generate_all_tracks, for one coin.
Judge(path, bar) ==
    /\ Cardinality(verdicts) < MaxVerdicts
    /\ bar \in Time /\ (path = "track" => bar % Width = 0)
    /\ verdicts' = verdicts \cup {Found(path, bar)}
    /\ UNCHANGED <<now, tape, cloud, stored>>

Next ==
    \/ Tick
    \/ \E m \in PhaseMarkets : Collect(m)
    \/ \E path \in {"regime", "track"}, bar \in (now - MaxLag)..now : Judge(path, bar)

Spec == Init /\ [][Next]_vars

-----------------------------------------------------------------------------
(* What must hold *)

\* What the statistics read of the past at a moment for which every bar of BTC is
\* stored never changes again: no later bar is looked ahead to, and no verdict on
\* a past entry depends on when it is asked for.
KnownHistoryIsFixed ==
    [][\A moment \in 0..now : Bars(moment) <= stored[Btc] =>
          /\ RegimeAsOf(Candles(Btc), moment)' = RegimeAsOf(Candles(Btc), moment)
          /\ AsOf(stored[Btc], moment)' = AsOf(stored[Btc], moment)]_vars

\* A track's live verdict is the one that every later statistic gives the same
\* entry, however late the coin's own bar was collected, provided the run had BTC's
\* bars up to the entry (aux_ok by close time in both).
TrackVerdictStands ==
    \A v \in verdicts : v.path = "track" /\ Bars(v.bar) <= v.known =>
        v.cloud = AsOf(stored[Btc], v.bar)

\* The regime path's live verdict is the one of every later statistic as well, which
\* looks the regime up at the time the entry's bar opened, provided the run had BTC's
\* bars up to the entry and none beyond it, and no bar of BTC closed with the entry.
RegimeVerdictStands ==
    \A v \in verdicts :
        v.path = "regime" /\ v.known = Bars(v.bar) /\ v.bar % Width # 0 =>
            (v.accepted <=> RegimeAsOf(Candles(Btc), v.bar - 1) # None)

\* Without BTC's candles nothing is recommended, although ETH alone may open the
\* phase: an unknown market is a closed one.
NothingWithoutBtc == \A v \in verdicts : v.known = 0 => ~v.accepted

\* A higher last close of BTC or ETH never makes the phase worse, so a rising
\* market does not close the tracks' gate.
PhaseRank == [not_bull |-> 0, weak_bull |-> 1, bull |-> 2, strong_bull |-> 3]
Raised(m, price) ==
    [x \in PhaseMarkets |-> IF x = m THEN [Candles(m) EXCEPT ![stored[m]] = price] ELSE Candles(x)]
RiseNeverWorsensPhase ==
    \A m \in PhaseMarkets : Assessable(Candles(m)) =>
        \A price \in Prices[m] : price >= Candles(m)[stored[m]] =>
            PhaseRank[Phase(Raised(m, price))] >= PhaseRank[CurrentPhase]

\* A strong phase never contradicts the regime gate, whose thresholds are kept
\* apart from the phase's: when BTC can be judged, its regime is strong as well.
StrongPhaseIsStrongRegime ==
    CurrentPhase = "strong_bull" /\ Assessable(Candles(Btc)) => CurrentRegime = "strong_bull"
=============================================================================
