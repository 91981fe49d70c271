--------------------------- MODULE MarketGatesProofs ---------------------------
(* Proofs about MarketGates, for all closes that the reference markets may show *)
(* and every width of their bars.                                               *)
EXTENDS MarketGates, FiniteSetTheorems, TLAPS

\* A bar has closed at a moment when it is one of the whole bars up to it.
LEMMA WholeBars ==
  ASSUME NEW at \in Nat
  PROVE  /\ Bars(at) \in Nat
         /\ \A k \in Nat : k * Width <= at <=> k <= Bars(at)
  <1>1. Width \in Nat /\ Width > 0
    BY GateAssumption
  <1>2. Bars(at) \in Nat /\ Bars(at) * Width <= at /\ at < (Bars(at) + 1) * Width
    BY <1>1 DEF Bars
  <1>3. ASSUME NEW k \in Nat, k <= Bars(at) PROVE k * Width <= at
    <2>1. PICK d \in Nat : Bars(at) = k + d
      BY <1>2, <1>3
    <2>2. (k + d) * Width = k * Width + d * Width /\ d * Width >= 0
      BY <1>1
    <2>3. QED
      BY <1>1, <1>2, <2>1, <2>2
  <1>4. ASSUME NEW k \in Nat, k > Bars(at) PROVE k * Width > at
    <2> DEFINE c == Bars(at) + 1
               d == k - c
    <2>1. c \in Nat /\ d \in Nat /\ k = c + d /\ at < c * Width
      BY <1>2, <1>4
    <2> HIDE DEF c, d
    <2>2. (c + d) * Width = c * Width + d * Width /\ d * Width >= 0
      BY <1>1, <2>1
    <2>3. QED
      BY <1>1, <2>1, <2>2
  <1>5. \A k \in Nat : k * Width <= at <=> k <= Bars(at)
    <2> TAKE k \in Nat
    <2>1. CASE k <= Bars(at)
      BY <1>3, <2>1
    <2>2. CASE k > Bars(at)
      <3>1. k * Width > at /\ k * Width \in Nat
        BY <1>1, <1>4, <2>2
      <3>2. QED
        BY <1>2, <2>2, <3>1
    <2>3. QED
      BY <1>2, <2>1, <2>2
  <1>6. QED
    BY <1>2, <1>5

\* Inside a reference bar no other has closed since the bar before.
LEMMA InsideABar ==
  ASSUME NEW at \in Nat, at % Width # 0
  PROVE  at - 1 \in Nat /\ Bars(at - 1) = Bars(at) /\ Bars(at) \in Nat
  <1> DEFINE k == Bars(at)
  <1>1. Width \in Nat /\ Width > 0
    BY GateAssumption
  <1>2. at # 0
    BY <1>1
  <1>3. k \in Nat /\ k * Width <= at /\ Bars(at - 1) \in Nat
    BY <1>2, WholeBars
  <1>4. k * Width # at
    BY <1>1, SMTT(30) DEF Bars
  <1> HIDE DEF k
  <1>5. k * Width <= at - 1
    BY <1>1, <1>3, <1>4
  <1>6. k <= Bars(at - 1)
    BY <1>2, <1>3, <1>5, WholeBars
  <1>7. Bars(at - 1) <= k
    <2>1. Bars(at - 1) * Width <= at - 1
      BY <1>2, <1>3, WholeBars
    <2>2. Bars(at - 1) * Width <= at
      BY <1>1, <1>3, <2>1
    <2>3. QED
      BY <1>3, <2>2, WholeBars DEF k
  <1>8. QED
    BY <1>2, <1>3, <1>6, <1>7 DEF k

\* Time goes on bar by bar.
LEMMA NextBar ==
  ASSUME NEW at \in Nat
  PROVE  Bars(at) <= Bars(at + 1) /\ Bars(at + 1) <= Bars(at) + 1
  <1>1. Width \in Nat /\ Width > 0
    BY GateAssumption
  <1>2. Bars(at) \in Nat /\ Bars(at + 1) \in Nat
    BY WholeBars
  <1>3. Bars(at) * Width <= at + 1
    BY <1>1, <1>2, WholeBars
  <1>4. Bars(at) <= Bars(at + 1)
    BY <1>2, <1>3, WholeBars
  <1>5. ~((Bars(at) + 1) * Width <= at)
    BY <1>2, WholeBars
  <1>6. (Bars(at) + 2) * Width = (Bars(at) + 1) * Width + Width
    BY <1>1, <1>2
  <1>7. ~((Bars(at) + 2) * Width <= at + 1)
    BY <1>1, <1>2, <1>5, <1>6
  <1>8. ~(Bars(at) + 2 <= Bars(at + 1))
    BY <1>2, <1>7, WholeBars
  <1>9. QED
    BY <1>2, <1>4, <1>8

\* Which bars had closed, and which was the newest of them.
LEMMA ClosedBars ==
  ASSUME NEW count \in Nat, NEW moment \in Nat
  PROVE  LET closed == {i \in 1..count : CloseTime(i) <= moment}
             last == IF Bars(moment) <= count THEN Bars(moment) ELSE count
         IN /\ closed = 1..last
            /\ closed # {} => Max(closed) = last
  <1> DEFINE closed == {i \in 1..count : CloseTime(i) <= moment}
             last == IF Bars(moment) <= count THEN Bars(moment) ELSE count
  <1>1. Bars(moment) \in Nat /\ last \in Nat
    BY WholeBars
  <1>2. closed = 1..last
    BY <1>1, WholeBars DEF CloseTime
  <1>3. ASSUME closed # {} PROVE Max(closed) = last
    <2>1. last \in closed /\ \A y \in closed : last >= y
      BY <1>1, <1>2, <1>3
    <2>2. \A x \in closed : (\A y \in closed : x >= y) => x = last
      BY <1>1, <1>2, <2>1
    <2> HIDE DEF closed, last
    <2>3. QED
      BY <2>1, <2>2 DEF Max
  <1>4. QED
    BY <1>2, <1>3

\* The clock and the bars that have closed, for as long as it runs.
LEMMA TimeIsBounded ==
  /\ \A at \in Time : at \in Nat /\ Bars(at) \in 0..MaxBars
  /\ StartBars * Width \in Time /\ Bars(StartBars * Width) = StartBars
  <1>1. Width \in Nat /\ Width > 0 /\ StartBars \in Nat /\ MaxBars \in Nat /\ StartBars <= MaxBars
    BY GateAssumption
  <1>2. \A a, b \in Nat : a <= b => a * Width <= b * Width
    <2> TAKE a, b \in Nat
    <2> HAVE a <= b
    <2> DEFINE d == b - a
    <2>1. d \in Nat /\ b = a + d
      OBVIOUS
    <2> HIDE DEF d
    <2>2. (a + d) * Width = a * Width + d * Width /\ d * Width >= 0
      BY <1>1, <2>1
    <2>3. QED
      BY <1>1, <2>1, <2>2
  <1>3. \A k \in Nat : k * Width \in Nat /\ Bars(k * Width) = k
    <2> TAKE k \in Nat
    <2>1. k * Width \in Nat
      BY <1>1
    <2>2. Bars(k * Width) \in Nat /\ k <= Bars(k * Width)
      BY <2>1, WholeBars
    <2>3. (k + 1) * Width = k * Width + Width
      BY <1>1
    <2>4. ~((k + 1) * Width <= k * Width)
      BY <1>1, <2>1, <2>3
    <2>5. ~(k + 1 <= Bars(k * Width))
      BY <2>1, <2>4, WholeBars
    <2>6. QED
      BY <2>1, <2>2, <2>5
  <1>4. ASSUME NEW at \in Time PROVE at \in Nat /\ Bars(at) \in 0..MaxBars
    <2>1. at \in Nat /\ at <= MaxBars * Width /\ MaxBars * Width \in Nat
      BY <1>1 DEF Time
    <2>2. Bars(at) \in Nat /\ Bars(at) * Width <= at
      BY <2>1, WholeBars
    <2>3. Bars(at) * Width \in Nat
      BY <1>1, <2>2
    <2>4. Bars(at) * Width <= MaxBars * Width
      BY <2>1, <2>2, <2>3
    <2>5. Bars(at) <= Bars(MaxBars * Width)
      BY <2>1, <2>2, <2>4, WholeBars
    <2>6. QED
      BY <1>1, <1>3, <2>1, <2>2, <2>5
  <1>5. QED
    BY <1>1, <1>2, <1>3, <1>4 DEF Time

-----------------------------------------------------------------------------
(* Types *)

\* What a run finds is a verdict.
LEMMA FoundIsVerdict ==
  ASSUME TypeOK, NEW path \in {"regime", "track"}, NEW bar \in Time
  PROVE  Found(path, bar) \in Verdict
  <1>1. stored[Btc] \in 0..MaxBars
    BY DEF TypeOK, PhaseMarkets
  <1>2. AsOf(stored[Btc], bar) \in BOOLEAN
    BY DEF AsOf
  <1> DEFINE accepted == \/ path = "regime" /\ CurrentRegime # None
                         \/ path = "track" /\ CurrentPhase \in OpenPhases /\ AsOf(stored[Btc], bar)
  <1>3. accepted \in BOOLEAN
    OBVIOUS
  <1>4. Found(path, bar) = [path |-> path, bar |-> bar, cloud |-> AsOf(stored[Btc], bar),
                            accepted |-> accepted, known |-> stored[Btc]]
    BY DEF Found
  <1> HIDE DEF accepted
  <1>5. QED
    BY <1>1, <1>2, <1>3, <1>4 DEF Verdict

\* The types hold at the start.
LEMMA TypeInit == Init => TypeOK
  <1> SUFFICES ASSUME Init PROVE TypeOK
    OBVIOUS
  <1>1. StartBars \in Nat /\ MaxBars \in Nat /\ Prices \in [PhaseMarkets -> SUBSET (Nat \ {0})]
        /\ StartClouds \subseteq SUBSET (1..StartBars)
    BY GateAssumption
  <1>2. now \in Time /\ Bars(now) = StartBars
    BY TimeIsBounded DEF Init
  <1>3. \A m \in PhaseMarkets : tape[m] \in [1..StartBars -> Prices[m]]
    BY DEF Init
  <1>4. \A m \in PhaseMarkets : tape[m] \in Seq(Nat \ {0}) /\ Len(tape[m]) = StartBars
    <2> TAKE m \in PhaseMarkets
    <2>1. tape[m] \in [1..StartBars -> Nat \ {0}]
      BY <1>1, <1>3
    <2> HIDE DEF PhaseMarkets
    <2>2. QED
      BY <1>1, <2>1
  <1>5. tape \in [PhaseMarkets -> Seq(Nat \ {0})]
    <2>1. tape \in [PhaseMarkets -> UNION {[1..StartBars -> Prices[m]] : m \in PhaseMarkets}]
      BY DEF Init
    <2>2. QED
      BY <1>4, <2>1
  <1>6. stored \in [PhaseMarkets -> 0..MaxBars] /\ \A m \in PhaseMarkets : stored[m] = 0
    BY <1>1 DEF Init
  <1>7. QED
    BY <1>1, <1>2, <1>4, <1>5, <1>6 DEF TypeOK, Init

\* The parts that the passing of time moves.
LEMMA TickTypes ==
  ASSUME TypeOK, Tick
  PROVE  /\ TypeOK' /\ now' = now + 1
         /\ \A m \in PhaseMarkets : SubSeq(tape'[m], 1, stored[m]) = SubSeq(tape[m], 1, stored[m])
         /\ \A i \in 1..Bars(now) : i \in cloud' <=> i \in cloud
  <1>1. now' = now + 1 /\ now \in Time /\ now' \in Time /\ now \in Nat
    BY TimeIsBounded DEF Tick, TypeOK
  <1>2. /\ Bars(now) \in 0..MaxBars /\ Bars(now') \in 0..MaxBars
        /\ Bars(now') = Bars(now) \/ Bars(now') = Bars(now) + 1
    BY <1>1, TimeIsBounded, NextBar
  <1>3. MaxBars \in Nat /\ Prices \in [PhaseMarkets -> SUBSET (Nat \ {0})] /\ Btc # Eth
    BY GateAssumption
  <1>4. stored' = stored /\ verdicts' = verdicts
    BY DEF Tick
  <1>5. \A m \in PhaseMarkets : stored[m] \in Nat /\ stored[m] <= Len(tape[m])
                              /\ tape[m] \in Seq(Nat \ {0}) /\ Len(tape[m]) = Bars(now)
    BY <1>2, <1>3 DEF TypeOK
  <1>6. CASE Bars(now') = Bars(now)
    <2>1. tape' = tape /\ cloud' = cloud
      BY <1>6 DEF Tick
    <2>2. QED
      BY <1>1, <1>4, <1>6, <2>1 DEF TypeOK
  <1>7. CASE Bars(now') # Bars(now)
    <2>1. PICK b \in Prices[Btc], e \in Prices[Eth] :
             tape' = [m \in PhaseMarkets |-> Append(tape[m], IF m = Btc THEN b ELSE e)]
      BY <1>7 DEF Tick
    <2>2. b \in Nat \ {0} /\ e \in Nat \ {0}
      BY <1>3 DEF PhaseMarkets
    <2>3. ASSUME NEW m \in PhaseMarkets
          PROVE  /\ tape'[m] \in Seq(Nat \ {0}) /\ Len(tape'[m]) = Bars(now')
                 /\ SubSeq(tape'[m], 1, stored[m]) = SubSeq(tape[m], 1, stored[m])
      <3> DEFINE s == tape[m]
                 x == IF m = Btc THEN b ELSE e
                 n == stored[m]
      <3>1. tape'[m] = Append(s, x) /\ x \in Nat \ {0} /\ s \in Seq(Nat \ {0})
            /\ n \in Nat /\ n <= Len(s) /\ Len(s) = Bars(now)
        BY <1>5, <2>1, <2>2
      <3> HIDE DEF s, x, n
      <3>2. Append(s, x) \in Seq(Nat \ {0}) /\ Len(Append(s, x)) = Len(s) + 1
        BY <3>1
      <3>3. SubSeq(Append(s, x), 1, n) = SubSeq(s, 1, n)
        BY <3>1
      <3>4. QED
        BY <1>2, <1>7, <3>1, <3>2, <3>3 DEF s, n
    <2>4. tape' \in [PhaseMarkets -> Seq(Nat \ {0})]
      BY <2>1, <2>3
    <2>5. cloud' = cloud \/ cloud' = cloud \cup {Bars(now')}
      BY <1>7 DEF Tick
    <2>6. cloud' \subseteq 1..Bars(now')
      <3>1. cloud \subseteq 1..Bars(now)
        BY DEF TypeOK
      <3>2. 1..Bars(now) \subseteq 1..Bars(now') /\ Bars(now') \in 1..Bars(now')
        BY <1>2, <1>7
      <3>3. QED
        BY <2>5, <3>1, <3>2
    <2>7. \A i \in 1..Bars(now) : i \in cloud' <=> i \in cloud
      BY <1>2, <1>7, <2>5
    <2>8. \A m \in PhaseMarkets : stored'[m] <= Bars(now')
      BY <1>2, <1>4, <1>5, <1>7
    <2>9. TypeOK'
      BY <1>1, <1>4, <2>3, <2>4, <2>6, <2>8 DEF TypeOK
    <2>10. QED
      BY <1>1, <2>3, <2>7, <2>9
  <1>8. QED
    BY <1>6, <1>7

\* The types hold on.
LEMMA TypeStep == TypeOK /\ [Next]_vars => TypeOK'
  <1> SUFFICES ASSUME TypeOK, [Next]_vars PROVE TypeOK'
    OBVIOUS
  <1>1. CASE Tick
    BY <1>1, TickTypes
  <1>2. ASSUME NEW m \in PhaseMarkets, Collect(m) PROVE TypeOK'
    <2>1. Len(tape[m]) = Bars(now) /\ Bars(now) \in 0..MaxBars
      BY TimeIsBounded DEF TypeOK
    <2>2. stored' = [stored EXCEPT ![m] = Bars(now)] /\ UNCHANGED <<now, tape, cloud, verdicts>>
      BY <1>2, <2>1 DEF Collect
    <2>3. stored' \in [PhaseMarkets -> 0..MaxBars]
      BY <2>1, <2>2 DEF TypeOK
    <2>4. \A x \in PhaseMarkets : stored'[x] <= Bars(now)
      BY <2>1, <2>2 DEF TypeOK
    <2>5. QED
      BY <2>2, <2>3, <2>4 DEF TypeOK
  <1>3. ASSUME NEW path \in {"regime", "track"}, NEW bar, Judge(path, bar) PROVE TypeOK'
    BY <1>3, FoundIsVerdict DEF Judge, TypeOK
  <1>4. CASE UNCHANGED vars
    BY <1>4 DEF vars, TypeOK
  <1>5. QED
    BY <1>1, <1>2, <1>3, <1>4 DEF Next

-----------------------------------------------------------------------------
(* The history that is known *)

\* What is read as of a moment depends on the bars up to it alone.
LEMMA AsOfValue ==
  ASSUME NEW count \in Nat, NEW moment \in Nat, Bars(moment) <= count
  PROVE  /\ AsOf(count, moment) <=> Bars(moment) > 0 /\ Bars(moment) \in cloud
         /\ AsOf(count, moment)' <=> Bars(moment) > 0 /\ Bars(moment) \in cloud'
  <1> DEFINE closed == {i \in 1..count : CloseTime(i) <= moment}
  <1>1. Bars(moment) \in Nat /\ closed = 1..Bars(moment)
        /\ (closed # {} => Max(closed) = Bars(moment))
    BY ClosedBars, WholeBars
  <1>2. closed # {} <=> Bars(moment) > 0
    BY <1>1
  <1>3. AsOf(count, moment) <=> closed # {} /\ Max(closed) \in cloud
    BY DEF AsOf
  <1>4. AsOf(count, moment)' <=> closed # {} /\ Max(closed) \in cloud'
    BY DEF AsOf
  <1> HIDE DEF closed
  <1>5. QED
    BY <1>1, <1>2, <1>3, <1>4

\* So does the regime.
LEMMA RegimeAsOfValue ==
  ASSUME NEW closes, NEW moment \in Nat, Len(closes) \in Nat, Bars(moment) <= Len(closes)
  PROVE  RegimeAsOf(closes, moment) =
            IF Bars(moment) = 0 THEN None ELSE Regime(SubSeq(closes, 1, Bars(moment)))
  <1> DEFINE closed == {i \in 1..Len(closes) : CloseTime(i) <= moment}
  <1>1. Bars(moment) \in Nat /\ closed = 1..Bars(moment)
        /\ (closed # {} => Max(closed) = Bars(moment))
    BY ClosedBars, WholeBars
  <1>2. closed = {} <=> Bars(moment) = 0
    BY <1>1
  <1>3. RegimeAsOf(closes, moment) =
           IF closed = {} THEN None ELSE Regime(SubSeq(closes, 1, Max(closed)))
    BY DEF RegimeAsOf
  <1> HIDE DEF closed
  <1>4. QED
    BY <1>1, <1>2, <1>3

\* Tapes that begin alike have the same regime as of a moment in their beginning.
LEMMA RegimeOfBeginning ==
  ASSUME NEW a, NEW b, NEW moment \in Nat, Len(a) \in Nat, Len(b) \in Nat,
         Bars(moment) <= Len(a), Bars(moment) <= Len(b),
         SubSeq(a, 1, Bars(moment)) = SubSeq(b, 1, Bars(moment))
  PROVE  RegimeAsOf(a, moment) = RegimeAsOf(b, moment)
  BY RegimeAsOfValue

\* The regime is read from the candles alone.
LEMMA RegimeIsOfItsCandles ==
  \A moment : RegimeAsOf(Candles(Btc), moment)' = RegimeAsOf(Candles(Btc)', moment)
  OBVIOUS

\* The candles of a reference market are a beginning of its tape.
LEMMA CandlesOfTape ==
  ASSUME TypeOK, NEW m \in PhaseMarkets
  PROVE  /\ Candles(m) \in Seq(Nat \ {0}) /\ Len(Candles(m)) = stored[m] /\ stored[m] \in Nat
         /\ \A k \in 0..stored[m] : SubSeq(Candles(m), 1, k) = SubSeq(tape[m], 1, k)
  <1> DEFINE t == tape[m]
             n == stored[m]
  <1>1. t \in Seq(Nat \ {0}) /\ n \in Nat /\ n <= Len(t)
    <2>1. MaxBars \in Nat
      BY GateAssumption
    <2>2. QED
      BY <2>1 DEF TypeOK
  <1>2. Candles(m) = SubSeq(t, 1, n)
    BY DEF Candles
  <1> HIDE DEF t, n
  <1>3. SubSeq(t, 1, n) \in Seq(Nat \ {0}) /\ Len(SubSeq(t, 1, n)) = n
    BY <1>1
  <1>4. \A k \in 0..n : SubSeq(SubSeq(t, 1, n), 1, k) = SubSeq(t, 1, k)
    BY <1>1, <1>3
  <1>5. QED
    BY <1>1, <1>2, <1>3, <1>4 DEF t, n

\* No step changes what is known of a moment.
LEMMA HistoryStep ==
  ASSUME TypeOK, [Next]_vars, NEW moment \in 0..now, Bars(moment) <= stored[Btc]
  PROVE  /\ RegimeAsOf(Candles(Btc), moment)' = RegimeAsOf(Candles(Btc), moment)
         /\ AsOf(stored[Btc], moment)' <=> AsOf(stored[Btc], moment)
         /\ stored'[Btc] \in Nat /\ stored[Btc] <= stored'[Btc]
  <1> DEFINE k == Bars(moment)
  <1>1. now \in Nat /\ Bars(now) \in Nat /\ moment \in Nat /\ k \in Nat /\ Btc \in PhaseMarkets
        /\ MaxBars \in Nat
    BY TimeIsBounded, WholeBars, GateAssumption DEF TypeOK, PhaseMarkets
  <1>2. TypeOK'
    BY TypeStep
  <1>3. stored[Btc] \in Nat /\ stored'[Btc] \in Nat /\ stored[Btc] <= Bars(now)
        /\ Len(tape[Btc]) = Bars(now)
    BY <1>1, <1>2 DEF TypeOK
  <1>4. /\ stored[Btc] <= stored'[Btc]
        /\ SubSeq(tape'[Btc], 1, k) = SubSeq(tape[Btc], 1, k)
        /\ k > 0 => (k \in cloud' <=> k \in cloud)
    <2>1. CASE Tick
      <3>1. stored' = stored /\ SubSeq(tape'[Btc], 1, stored[Btc]) = SubSeq(tape[Btc], 1, stored[Btc])
        BY <1>1, <2>1, TickTypes DEF Tick
      <3>2. SubSeq(tape'[Btc], 1, k) = SubSeq(tape[Btc], 1, k)
        <4> DEFINE s == tape[Btc]
                   t == tape'[Btc]
                   n == stored[Btc]
        <4>1. /\ s \in Seq(Nat \ {0}) /\ t \in Seq(Nat \ {0}) /\ n \in Nat /\ k \in 0..n
              /\ n <= Len(s) /\ n <= Len(t) /\ SubSeq(t, 1, n) = SubSeq(s, 1, n)
          BY <1>1, <1>2, <1>3, <3>1 DEF TypeOK
        <4> HIDE DEF s, t, n, k
        <4>2. SubSeq(SubSeq(t, 1, n), 1, k) = SubSeq(t, 1, k)
          BY <4>1
        <4>3. SubSeq(SubSeq(s, 1, n), 1, k) = SubSeq(s, 1, k)
          BY <4>1
        <4>4. QED
          BY <4>1, <4>2, <4>3 DEF s, t
      <3>3. k > 0 => k \in 1..Bars(now)
        BY <1>1, <1>3
      <3>4. k > 0 => (k \in cloud' <=> k \in cloud)
        BY <2>1, <3>3, TickTypes
      <3>5. stored[Btc] <= stored'[Btc]
        BY <1>3, <3>1
      <3>6. QED
        BY Zenon, <3>2, <3>4, <3>5
    <2>2. ASSUME NEW m \in PhaseMarkets, Collect(m)
          PROVE  stored[Btc] <= stored'[Btc] /\ tape' = tape /\ cloud' = cloud
      BY <1>1, <1>3, <2>2 DEF Collect, TypeOK
    <2>s. stored' = stored => stored[Btc] <= stored'[Btc]
      BY <1>3
    <2>3. ASSUME NEW path, NEW bar, Judge(path, bar)
          PROVE  stored[Btc] <= stored'[Btc] /\ tape' = tape /\ cloud' = cloud
      BY <2>3, <2>s DEF Judge
    <2>4. ASSUME UNCHANGED vars
          PROVE  stored[Btc] <= stored'[Btc] /\ tape' = tape /\ cloud' = cloud
      BY <2>4, <2>s DEF vars
    <2>5. Tick \/ (stored[Btc] <= stored'[Btc] /\ tape' = tape /\ cloud' = cloud)
      BY <2>2, <2>3, <2>4 DEF Next
    <2>6. QED
      BY Zenon, <2>1, <2>5
  <1>5. AsOf(stored[Btc], moment)' <=> AsOf(stored[Btc], moment)
    <2>1. k <= stored'[Btc]
      BY <1>1, <1>3, <1>4
    <2>2. AsOf(stored[Btc], moment) <=> k > 0 /\ k \in cloud
      BY <1>1, <1>3, AsOfValue
    <2>3. AsOf(stored[Btc], moment)' <=> k > 0 /\ k \in cloud'
      <3> DEFINE closed == {i \in 1..stored'[Btc] : CloseTime(i) <= moment}
      <3>1. closed = 1..k /\ (closed # {} => Max(closed) = k)
        BY <1>1, <1>3, <2>1, ClosedBars
      <3>2. AsOf(stored[Btc], moment)' <=> closed # {} /\ Max(closed) \in cloud'
        BY DEF AsOf
      <3>3. closed # {} <=> k > 0
        BY <1>1, <3>1
      <3> HIDE DEF closed, k
      <3>4. QED
        BY <3>1, <3>2, <3>3
    <2>4. QED
      BY <1>4, <2>2, <2>3
  <1>6. RegimeAsOf(Candles(Btc), moment)' = RegimeAsOf(Candles(Btc), moment)
    <2>1. Len(Candles(Btc)) = stored[Btc] /\ SubSeq(Candles(Btc), 1, k) = SubSeq(tape[Btc], 1, k)
      BY <1>1, <1>3, CandlesOfTape
    <2>2. Len(Candles(Btc)') = stored'[Btc] /\ SubSeq(Candles(Btc)', 1, k) = SubSeq(tape'[Btc], 1, k)
      <3> DEFINE t == tape'[Btc]
                 n == stored'[Btc]
      <3>1. t \in Seq(Nat \ {0}) /\ n \in Nat /\ n <= Len(t) /\ k \in 0..n
        BY <1>1, <1>2, <1>3, <1>4 DEF TypeOK
      <3>2. Candles(Btc)' = SubSeq(t, 1, n)
        BY DEF Candles
      <3> HIDE DEF t, n, k
      <3>3. Len(SubSeq(t, 1, n)) = n /\ SubSeq(SubSeq(t, 1, n), 1, k) = SubSeq(t, 1, k)
        BY <3>1
      <3>4. QED
        BY <3>2, <3>3 DEF t, n
    <2>3. k <= stored'[Btc]
      BY <1>1, <1>3, <1>4
    <2>6. RegimeAsOf(Candles(Btc), moment)' = RegimeAsOf(Candles(Btc)', moment)
      BY RegimeIsOfItsCandles
    <2>7. SubSeq(Candles(Btc)', 1, k) = SubSeq(Candles(Btc), 1, k)
      BY <1>4, <2>1, <2>2
    <2>8. RegimeAsOf(Candles(Btc)', moment) = RegimeAsOf(Candles(Btc), moment)
      BY <1>1, <1>3, <2>1, <2>2, <2>3, <2>7, RegimeOfBeginning
    <2>9. QED
      BY <2>6, <2>8
  <1>7. QED
    BY <1>3, <1>4, <1>5, <1>6

-----------------------------------------------------------------------------
(* The verdicts *)

\* What the run had of BTC ended with the entry.
EndsWithEntry(v) == v.path = "regime" /\ v.known = Bars(v.bar)

\* What was known when a verdict was given is known still; nothing was accepted
\* without BTC; and BTC's cloud and regime as of the entry have not changed since.
Stands(v) == /\ v.known <= stored[Btc]
             /\ v.known = 0 => ~v.accepted
             /\ Bars(v.bar) <= v.known => v.cloud = AsOf(stored[Btc], v.bar)
             /\ EndsWithEntry(v) => (v.accepted <=> RegimeAsOf(Candles(Btc), v.bar) # None)
\* Entries lie in the past.
IsPast(v) == v.bar <= now

\* The inductive invariant.
IInv == TypeOK /\ \A v \in verdicts : Stands(v) /\ IsPast(v)

\* The newest regime is the one as of any moment that ends with the newest bar.
LEMMA NewestRegime ==
  ASSUME TypeOK, NEW moment \in Nat, Bars(moment) = stored[Btc]
  PROVE  RegimeAsOf(Candles(Btc), moment) = CurrentRegime
  <1> DEFINE c == Candles(Btc)
             n == stored[Btc]
  <1>1. c \in Seq(Nat \ {0}) /\ Len(c) = n /\ n \in Nat
    BY CandlesOfTape DEF PhaseMarkets
  <1>2. CurrentRegime = IF n = 0 THEN None ELSE Regime(c)
    BY DEF CurrentRegime
  <1> HIDE DEF c, n
  <1>3. RegimeAsOf(c, moment) = IF n = 0 THEN None ELSE Regime(SubSeq(c, 1, n))
    BY <1>1, RegimeAsOfValue DEF n
  <1>4. SubSeq(c, 1, n) = c
    BY <1>1
  <1>5. QED
    BY <1>2, <1>3, <1>4 DEF c

\* A new verdict stands.
LEMMA FoundStands ==
  ASSUME TypeOK, NEW path, NEW bar \in Nat
  PROVE  Stands(Found(path, bar)) /\ Found(path, bar).bar = bar
  <1> DEFINE v == Found(path, bar)
  <1>1. v.known = stored[Btc] /\ v.bar = bar /\ v.cloud = AsOf(stored[Btc], bar)
        /\ (v.accepted <=> \/ path = "regime" /\ CurrentRegime # None
                           \/ path = "track" /\ CurrentPhase \in OpenPhases /\ AsOf(stored[Btc], bar))
    BY DEF Found
  <1>2. stored[Btc] \in Nat
    BY CandlesOfTape DEF PhaseMarkets
  <1>3. stored[Btc] = 0 => CurrentRegime = None /\ ~AsOf(stored[Btc], bar)
    BY DEF CurrentRegime, AsOf
  <1> HIDE DEF v
  <1>4. v.known = 0 => ~v.accepted
    BY <1>1, <1>3
  <1>5. ASSUME EndsWithEntry(v)
        PROVE  v.accepted <=> RegimeAsOf(Candles(Btc), v.bar) # None
    <2>1. path = "regime" /\ Bars(bar) = stored[Btc]
      BY <1>1, <1>5 DEF EndsWithEntry, Found, v
    <2>2. v.accepted <=> CurrentRegime # None
      BY <1>1, <2>1
    <2>3. RegimeAsOf(Candles(Btc), bar) = CurrentRegime
      BY <2>1, NewestRegime
    <2>4. QED
      BY <1>1, <2>2, <2>3
  <1>6. v.known <= stored[Btc] /\ v.cloud = AsOf(stored[Btc], v.bar) /\ v.bar = bar
    BY <1>1, <1>2
  <1>7. QED
    BY <1>4, <1>5, <1>6 DEF Stands, v

\* The inductive invariant is kept.
LEMMA InvStep == IInv /\ [Next]_vars => IInv'
  <1> SUFFICES ASSUME IInv, [Next]_vars PROVE IInv'
    OBVIOUS
  <1>1. TypeOK' /\ TypeOK
    BY TypeStep DEF IInv
  <1>2. now \in Nat /\ now' \in Nat /\ now <= now'
    <2>1. now \in Time /\ now' \in Time
      BY <1>1 DEF TypeOK
    <2>2. now' = now + 1 \/ now' = now
      BY DEF Next, Tick, Collect, Judge, vars
    <2>3. QED
      BY <2>1, <2>2, TimeIsBounded
  <1>3. ASSUME NEW v \in verdicts PROVE (Stands(v) /\ IsPast(v))'
    <2>1. v \in Verdict /\ Stands(v) /\ v.bar <= now
      BY <1>1 DEF IInv, TypeOK, IsPast
    <2>2. v.bar \in Nat /\ v.known \in Nat /\ Bars(v.bar) \in Nat /\ MaxBars \in Nat
      BY <2>1, TimeIsBounded, GateAssumption DEF Verdict
    <2>3. stored[Btc] \in Nat /\ stored'[Btc] \in Nat /\ stored[Btc] <= stored'[Btc]
      <3>1. stored[Btc] \in Nat /\ 0 \in 0..now /\ Bars(0) <= stored[Btc]
        <4>1. stored[Btc] \in Nat
          BY <1>1, CandlesOfTape DEF PhaseMarkets
        <4>2. Bars(0) = 0
          BY GateAssumption DEF Bars
        <4>3. QED
          BY <1>2, <4>1, <4>2
      <3>2. QED
        BY <1>1, <3>1, HistoryStep
    <2>4. ASSUME Bars(v.bar) <= v.known PROVE v.cloud = AsOf(stored[Btc], v.bar)'
      <3>1. v.bar \in 0..now /\ Bars(v.bar) <= stored[Btc]
        BY <1>2, <2>1, <2>2, <2>3, <2>4 DEF Stands
      <3>2. AsOf(stored[Btc], v.bar)' <=> AsOf(stored[Btc], v.bar)
        BY <1>1, <3>1, HistoryStep
      <3>3. v.cloud = AsOf(stored[Btc], v.bar)
        BY <2>1, <2>4 DEF Stands
      <3>4. AsOf(stored[Btc], v.bar) \in BOOLEAN /\ AsOf(stored[Btc], v.bar)' \in BOOLEAN
        BY DEF AsOf
      <3>5. QED
        BY Zenon, <3>2, <3>3, <3>4
    <2>5. v.known <= stored'[Btc] /\ v.bar <= now'
      BY <1>2, <2>1, <2>2, <2>3 DEF Stands
    <2>6. v.known = 0 => ~v.accepted
      BY <2>1 DEF Stands
    <2>7. ASSUME EndsWithEntry(v)
          PROVE  v.accepted <=> RegimeAsOf(Candles(Btc), v.bar)' # None
      <3>1. v.bar \in 0..now /\ Bars(v.bar) <= stored[Btc]
        BY <1>2, <2>1, <2>2, <2>3, <2>7 DEF Stands, EndsWithEntry
      <3>2. RegimeAsOf(Candles(Btc), v.bar)' = RegimeAsOf(Candles(Btc), v.bar)
        BY <1>1, <3>1, HistoryStep
      <3>3. v.accepted <=> RegimeAsOf(Candles(Btc), v.bar) # None
        BY <2>1, <2>7 DEF Stands
      <3>4. QED
        BY Zenon, <3>2, <3>3
    <2>8. QED
      BY Zenon, <2>4, <2>5, <2>6, <2>7 DEF Stands, IsPast, EndsWithEntry, Bars
  <1>4. ASSUME NEW path, NEW bar \in Nat, bar <= now, Judge(path, bar), NEW v, v = Found(path, bar)
        PROVE  (Stands(v) /\ IsPast(v))'
    <2>1. stored' = stored /\ cloud' = cloud /\ now' = now /\ tape' = tape
      BY <1>4 DEF Judge
    <2>2. Stands(v) /\ v.bar <= now
      BY <1>1, <1>4, FoundStands
    <2>3. AsOf(stored[Btc], v.bar)' = AsOf(stored[Btc], v.bar)
      BY <2>1 DEF AsOf
    <2>4. Candles(Btc)' = Candles(Btc)
      BY <2>1 DEF Candles
    <2>5. RegimeAsOf(Candles(Btc), v.bar)' = RegimeAsOf(Candles(Btc), v.bar)
      BY <2>4, RegimeIsOfItsCandles
    <2>6. QED
      BY Zenon, <2>1, <2>2, <2>3, <2>5 DEF Stands, IsPast, EndsWithEntry, Bars
  <1>5. ASSUME NEW v \in verdicts', v \notin verdicts PROVE (Stands(v) /\ IsPast(v))'
    <2>1. PICK path \in {"regime", "track"}, bar \in (now - MaxLag)..now : Judge(path, bar)
      <3>1. verdicts' # verdicts
        BY <1>5
      <3>2. QED
        BY <3>1 DEF Next, Tick, Collect, vars
    <2>2. v = Found(path, bar)
      BY <1>5, <2>1 DEF Judge
    <2>3. bar <= now /\ bar \in Nat
      <3>1. bar <= now
        BY <1>2, GateAssumption
      <3>2. bar \in Nat
        BY <2>1, TimeIsBounded DEF Judge
      <3>3. QED
        BY <3>1, <3>2
    <2>4. QED
      BY <1>4, <2>1, <2>2, <2>3
  <1>6. QED
    BY <1>1, <1>3, <1>5 DEF IInv

\* The inductive invariant holds in every reachable state, however the closes of BTC
\* and ETH move and however late a market is collected.
THEOREM Invariance == Spec => []IInv
  <1>1. Init => IInv
    BY TypeInit DEF Init, IInv
  <1>2. QED
    BY <1>1, InvStep, PTL DEF Spec

\* The variables keep their types.
THEOREM TypeCorrect == Spec => []TypeOK
  <1>1. IInv => TypeOK
    BY DEF IInv
  <1>2. QED
    BY <1>1, Invariance, PTL

\* Without BTC's candles no path recommends anything (regime_as_of, aux_ok).
THEOREM UnknownMarketIsClosed == Spec => []NothingWithoutBtc
  <1>1. IInv => NothingWithoutBtc
    BY DEF IInv, Stands, NothingWithoutBtc
  <1>2. QED
    BY <1>1, Invariance, PTL

\* A track's live verdict on an entry is the one of every later statistic.
THEOREM TrackVerdictsStand == Spec => []TrackVerdictStands
  <1>1. IInv => TrackVerdictStands
    BY DEF IInv, Stands, TrackVerdictStands
  <1>2. QED
    BY <1>1, Invariance, PTL

\* The regime path's live verdict on an entry is the one of every later statistic,
\* which reads the regime when the entry's bar opened (regime_as_of in src/backtest.py).
THEOREM RegimeVerdictsStand == Spec => []RegimeVerdictStands
  <1>1. ASSUME IInv, NEW v \in verdicts, v.path = "regime", v.known = Bars(v.bar),
               v.bar % Width # 0
        PROVE  v.accepted <=> RegimeAsOf(Candles(Btc), v.bar - 1) # None
    <2> DEFINE c == Candles(Btc)
    <2>1. v \in Verdict /\ Stands(v) /\ TypeOK
      BY <1>1 DEF IInv, TypeOK
    <2>2. v.bar \in Nat /\ v.known <= stored[Btc]
      BY <2>1, TimeIsBounded DEF Verdict, Stands
    <2>3. v.bar - 1 \in Nat /\ Bars(v.bar - 1) = Bars(v.bar) /\ Bars(v.bar) \in Nat
      BY <1>1, <2>2, InsideABar
    <2>4. c \in Seq(Nat \ {0}) /\ Len(c) = stored[Btc] /\ stored[Btc] \in Nat
      BY <2>1, CandlesOfTape DEF PhaseMarkets
    <2> HIDE DEF c
    <2>5. RegimeAsOf(c, v.bar - 1) = RegimeAsOf(c, v.bar)
      BY <1>1, <2>2, <2>3, <2>4, RegimeAsOfValue
    <2>6. v.accepted <=> RegimeAsOf(c, v.bar) # None
      BY <1>1, <2>1 DEF Stands, EndsWithEntry, c
    <2>7. QED
      BY <2>5, <2>6 DEF c
  <1>2. IInv => RegimeVerdictStands
    BY <1>1 DEF RegimeVerdictStands
  <1>3. QED
    BY <1>2, Invariance, PTL

\* What the statistics read of a past moment is never changed by a later bar: there is
\* no look-ahead in the gates (build_regime_series and _as_of, by close time).
THEOREM HistoryIsFixed == Spec => KnownHistoryIsFixed
  <1>1. IInv /\ [Next]_vars =>
           [\A moment \in 0..now : Bars(moment) <= stored[Btc] =>
              /\ RegimeAsOf(Candles(Btc), moment)' = RegimeAsOf(Candles(Btc), moment)
              /\ AsOf(stored[Btc], moment)' = AsOf(stored[Btc], moment)]_vars
    <2> SUFFICES ASSUME IInv, [Next]_vars, NEW moment \in 0..now, Bars(moment) <= stored[Btc]
                 PROVE  /\ RegimeAsOf(Candles(Btc), moment)' = RegimeAsOf(Candles(Btc), moment)
                        /\ AsOf(stored[Btc], moment)' = AsOf(stored[Btc], moment)
      OBVIOUS
    <2>1. /\ RegimeAsOf(Candles(Btc), moment)' = RegimeAsOf(Candles(Btc), moment)
          /\ AsOf(stored[Btc], moment)' <=> AsOf(stored[Btc], moment)
      BY HistoryStep DEF IInv
    <2>2. AsOf(stored[Btc], moment) \in BOOLEAN /\ AsOf(stored[Btc], moment)' \in BOOLEAN
      BY DEF AsOf
    <2>3. QED
      BY Zenon, <2>1, <2>2
  <1>2. QED
    BY <1>1, Invariance, PTL DEF Spec, KnownHistoryIsFixed

-----------------------------------------------------------------------------
(* The phase and the regime *)

\* Rising by more than a higher threshold is rising by more than a lower one.
LEMMA RoseIsMonotone ==
  ASSUME NEW closes \in Seq(Nat \ {0}), NEW back \in Nat, back < Len(closes),
         NEW low \in Nat, NEW high \in Nat, low <= high, Rose(closes, back, high)
  PROVE  Rose(closes, back, low)
  <1> DEFINE x == closes[Len(closes) - back]
             y == closes[Len(closes)]
             d == high - low
  <1>1. x \in Nat /\ y \in Nat /\ d \in Nat /\ high = low + d
    OBVIOUS
  <1>2. 100 * y > (100 + high) * x
    BY DEF Rose
  <1> HIDE DEF x, y, d
  <1>3. (100 + (low + d)) * x = (100 + low) * x + d * x /\ d * x >= 0
    BY <1>1
  <1>4. 100 * y > (100 + low) * x
    <2>1. (100 + low) * x \in Nat /\ d * x \in Nat /\ 100 * y \in Nat
      BY <1>1
    <2>2. QED
      BY <1>1, <1>2, <1>3, <2>1
  <1>5. QED
    BY <1>4 DEF Rose, x, y

\* When both markets rise strongly, the regime of BTC is strong as well: the two gates,
\* which src/market_phase.py and src/backtest.py define apart, never contradict.
THEOREM StrongPhaseNeedsStrongRegime == Spec => []StrongPhaseIsStrongRegime
  <1>1. ASSUME TypeOK, CurrentPhase = "strong_bull", Assessable(Candles(Btc))
        PROVE  CurrentRegime = "strong_bull"
    <2> DEFINE c == [m \in PhaseMarkets |-> Candles(m)]
               assets == {m \in PhaseMarkets : Assessable(c[m])}
               strong == {m \in assets : Strong(c[m])}
               rising == {m \in assets : Rising(c[m])}
    <2>1. Btc \in assets /\ c[Btc] = Candles(Btc)
      BY <1>1 DEF PhaseMarkets
    <2>2. CurrentPhase = Combine(strong, rising, assets)
      <3>1. CurrentPhase = IF assets = {} THEN None ELSE Combine(strong, rising, assets)
        BY DEF CurrentPhase, Phase
      <3>2. QED
        BY <2>1, <3>1
    <2>3. strong = assets
      <3> HIDE DEF strong, rising, assets
      <3>1. QED
        BY <1>1, <2>2 DEF Combine
    <2>4. Strong(Candles(Btc))
      BY <2>1, <2>3
    <2>5. /\ Candles(Btc) \in Seq(Nat \ {0}) /\ Len(Candles(Btc)) = stored[Btc]
          /\ stored[Btc] \in Nat
      BY <1>1, CandlesOfTape DEF PhaseMarkets
    <2>6. /\ RegimeBars \in Nat /\ RegimeBars < Len(Candles(Btc)) /\ RegimeBars = Horizon["30d"]
          /\ Strong30d \in Nat /\ StrongBull30d \in Nat /\ StrongBull30d <= Strong30d
      <3>1. "30d" \in Horizons /\ "365d" \in Horizons
        BY DEF Horizons
      <3>2. Horizon["30d"] \in Nat /\ Horizon["365d"] \in Nat
            /\ Horizon["30d"] <= Horizon["365d"] /\ RegimeBars = Horizon["30d"]
        BY <3>1, GateAssumption
      <3>3. QED
        BY <1>1, <2>5, <3>2, GateAssumption DEF Assessable
    <2>7. Rose(Candles(Btc), RegimeBars, StrongBull30d)
      BY <2>4, <2>5, <2>6, RoseIsMonotone DEF Strong
    <2>8. Regime(Candles(Btc)) = "strong_bull"
      BY <2>5, <2>6, <2>7 DEF Regime
    <2>9. QED
      BY <2>5, <2>6, <2>8 DEF CurrentRegime
  <1>2. IInv => StrongPhaseIsStrongRegime
    BY <1>1 DEF IInv, StrongPhaseIsStrongRegime
  <1>3. QED
    BY <1>2, Invariance, PTL

\* The horizons can be counted.
LEMMA HorizonsAreFinite ==
  \A S, T \in SUBSET Horizons :
     S \subseteq T => Cardinality(S) \in Nat /\ Cardinality(T) \in Nat /\ Cardinality(S) <= Cardinality(T)
  <1>1. IsFiniteSet(Horizons)
    <2>1. Horizons = ((({"1d"} \cup {"7d"}) \cup {"30d"}) \cup {"90d"}) \cup {"365d"}
      BY DEF Horizons
    <2>2. IsFiniteSet({"1d"}) /\ IsFiniteSet({"7d"}) /\ IsFiniteSet({"30d"})
          /\ IsFiniteSet({"90d"}) /\ IsFiniteSet({"365d"})
      BY FS_Singleton
    <2>3. \A S, T : IsFiniteSet(S) /\ IsFiniteSet(T) => IsFiniteSet(S \cup T)
      BY FS_Union
    <2>4. QED
      BY <2>1, <2>2, <2>3
  <1>2. QED
    BY <1>1, FS_Subset, FS_CardinalityType

\* A higher last close rises by no less.
LEMMA HigherCloseRisesMore ==
  ASSUME NEW closes \in Seq(Nat \ {0}), NEW price \in Nat \ {0}, Assessable(closes),
         price >= closes[Len(closes)]
  PROVE  LET higher == [closes EXCEPT ![Len(closes)] = price]
         IN Assessable(higher) /\ (Strong(closes) => Strong(higher))
            /\ (Rising(closes) => Rising(higher))
  <1> DEFINE n == Len(closes)
             higher == [closes EXCEPT ![n] = price]
  <1>1. \A h \in Horizons : Horizon[h] \in Nat \ {0} /\ Horizon[h] < n
    BY GateAssumption DEF Assessable, Horizons
  <1>2. Len(higher) = n /\ n \in Nat /\ higher[n] = price
        /\ \A j \in 1..(n - 1) : higher[j] = closes[j] /\ closes[j] \in Nat
    BY <1>1 DEF Horizons
  <1>3. closes[n] \in Nat /\ price >= closes[n]
    BY <1>1 DEF Horizons
  <1> HIDE DEF n, higher
  <1>4. ASSUME NEW h \in Horizons, NEW p \in Nat, Rose(closes, Horizon[h], p)
        PROVE  Rose(higher, Horizon[h], p)
    <2>1. n - Horizon[h] \in 1..(n - 1)
      BY <1>1, <1>2
    <2>2. higher[n - Horizon[h]] = closes[n - Horizon[h]] /\ closes[n - Horizon[h]] \in Nat
      BY <1>2, <2>1
    <2> DEFINE x == (100 + p) * closes[n - Horizon[h]]
    <2>3. x \in Nat
      BY <2>2
    <2>4. 100 * closes[n] > x
      BY <1>4 DEF Rose, n
    <2> HIDE DEF x
    <2>5. 100 * price > x
      BY <1>3, <2>3, <2>4
    <2>6. QED
      BY <1>2, <2>2, <2>5 DEF Rose, x
  <1>5. Assessable(higher)
    BY <1>2 DEF Assessable, n
  <1>6. ASSUME Strong(closes) PROVE Strong(higher)
    <2>1. Strong30d \in Nat /\ {"30d", "90d", "365d"} \subseteq Horizons
      BY GateAssumption DEF Horizons
    <2>2. QED
      BY <1>4, <1>6, <2>1 DEF Strong
  <1>7. ASSUME Rising(closes), ~Strong(closes) PROVE Rising(higher)
    <2>1. Positive(closes) \subseteq Positive(higher)
      BY <1>4 DEF Positive
    <2>2. Positive(closes) \in SUBSET Horizons /\ Positive(higher) \in SUBSET Horizons
      BY DEF Positive
    <2>3. /\ Cardinality(Positive(closes)) \in Nat /\ Cardinality(Positive(higher)) \in Nat
          /\ Cardinality(Positive(closes)) <= Cardinality(Positive(higher))
      BY <2>1, <2>2, HorizonsAreFinite
    <2>4. "30d" \in Positive(higher) /\ Cardinality(Positive(closes)) >= WeakMin /\ WeakMin \in Nat
      BY <1>7, <2>1, GateAssumption DEF Rising
    <2>5. QED
      BY <2>3, <2>4 DEF Rising
  <1>8. Rising(closes) => Rising(higher)
    BY <1>6, <1>7 DEF Rising
  <1>9. QED
    BY <1>5, <1>6, <1>8 DEF higher, n

\* More that rise never make a worse phase.
LEMMA CombineIsMonotone ==
  ASSUME NEW assets, assets # {}, NEW strong, NEW rising, NEW strong2, NEW rising2,
         strong \subseteq strong2, rising \subseteq rising2,
         strong2 \subseteq assets, rising2 \subseteq assets
  PROVE  PhaseRank[Combine(strong2, rising2, assets)] >= PhaseRank[Combine(strong, rising, assets)]
  <1>1. /\ PhaseRank["not_bull"] = 0 /\ PhaseRank["weak_bull"] = 1
        /\ PhaseRank["bull"] = 2 /\ PhaseRank["strong_bull"] = 3
    BY DEF PhaseRank
  <1>2. strong = assets => strong2 = assets
    OBVIOUS
  <1>3. rising = assets => rising2 = assets
    OBVIOUS
  <1>4. rising # {} => rising2 # {}
    OBVIOUS
  <1>5. QED
    BY <1>1, <1>2, <1>3, <1>4 DEF Combine

\* A rising market never closes the gate of the tracks (classify_asset and combine).
THEOREM RisingNeverClosesTheGate == Spec => []RiseNeverWorsensPhase
  <1>1. ASSUME TypeOK, NEW m \in PhaseMarkets, Assessable(Candles(m)), NEW price \in Prices[m],
               price >= Candles(m)[stored[m]]
        PROVE  PhaseRank[Phase(Raised(m, price))] >= PhaseRank[CurrentPhase]
    <2> DEFINE c == [x \in PhaseMarkets |-> Candles(x)]
               d == Raised(m, price)
               assets == {x \in PhaseMarkets : Assessable(c[x])}
               strong == {x \in assets : Strong(c[x])}
               rising == {x \in assets : Rising(c[x])}
               strong2 == {x \in assets : Strong(d[x])}
               rising2 == {x \in assets : Rising(d[x])}
    <2>1. Candles(m) \in Seq(Nat \ {0}) /\ Len(Candles(m)) = stored[m]
      BY <1>1, CandlesOfTape
    <2>2. price \in Nat \ {0}
      BY GateAssumption
    <2>3. /\ c[m] = Candles(m) /\ d[m] = [Candles(m) EXCEPT ![Len(Candles(m))] = price]
          /\ \A x \in PhaseMarkets : x # m => d[x] = c[x]
      BY <2>1 DEF Raised
    <2>4. /\ Assessable(d[m]) /\ (Strong(c[m]) => Strong(d[m])) /\ (Rising(c[m]) => Rising(d[m]))
      BY <1>1, <2>1, <2>2, <2>3, HigherCloseRisesMore
    <2>5. m \in assets
      BY <1>1, <2>3
    <2> HIDE DEF c, d
    <2>6. {x \in PhaseMarkets : Assessable(d[x])} = assets
      BY <2>3, <2>4, <2>5
    <2>7. strong \subseteq strong2 /\ rising \subseteq rising2
      BY <2>3, <2>4
    <2>8. CurrentPhase = Combine(strong, rising, assets)
      <3>1. CurrentPhase = Phase(c)
        BY DEF CurrentPhase, c
      <3>2. Phase(c) = IF assets = {} THEN None ELSE Combine(strong, rising, assets)
        BY DEF Phase
      <3>3. QED
        BY <2>5, <3>1, <3>2
    <2>9. Phase(d) = Combine(strong2, rising2, assets)
      <3> DEFINE assets2 == {x \in PhaseMarkets : Assessable(d[x])}
      <3>1. Phase(d) = IF assets2 = {} THEN None
                       ELSE Combine({x \in assets2 : Strong(d[x])}, {x \in assets2 : Rising(d[x])}, assets2)
        BY DEF Phase
      <3>2. assets2 = assets
        BY <2>6
      <3> HIDE DEF assets2, assets
      <3>3. QED
        BY <2>5, <3>1, <3>2
    <2>10. strong2 \subseteq assets /\ rising2 \subseteq assets /\ assets # {}
      BY <2>5
    <2> HIDE DEF assets, strong, rising, strong2, rising2
    <2>11. QED
      BY <2>7, <2>8, <2>9, <2>10, CombineIsMonotone DEF d
  <1>2. IInv => RiseNeverWorsensPhase
    BY <1>1 DEF IInv, RiseNeverWorsensPhase
  <1>3. QED
    BY <1>2, Invariance, PTL
=============================================================================
