-------------------------- MODULE TradeSimulationProofs --------------------------
(* Proofs about TradeSimulation, for every path of prices, frame, hold and lag. *)
EXTENDS TradeSimulation, FiniteSetTheorems, SequenceTheorems, WellFoundedInduction, TLAPS

(* Arithmetic of frames *)

\* The bars of a frame that have closed.
LEMMA Division ==
  ASSUME NEW a \in Nat, NEW w \in Nat \ {0}
  PROVE  /\ a \div w \in Nat /\ (a \div w) * w <= a /\ a < (a \div w) * w + w
         /\ \A q \in Nat : q * w <= a => q <= a \div w
         /\ (a * w) \div w = a
  <1>1. a \div w \in Nat
    BY SMT
  <1>2. (a \div w) * w <= a
    BY SMT
  <1>3. a < (a \div w) * w + w
    BY SMT
  <1>4. \A q \in Nat : q * w <= a => q <= a \div w
    BY SMT
  <1>5. (a * w) \div w = a
    BY SMT
  <1>6. QED
    BY <1>1, <1>2, <1>3, <1>4, <1>5

\* A set of numbers that is not empty has a first member.
LEMMA FirstExists ==
  ASSUME NEW S, S \subseteq Nat, S # {}
  PROVE  \E x \in S : \A y \in S : x <= y
  <1> DEFINE R == {ss \in Nat \X Nat : ss[1] < ss[2]}
  <1>1. IsWellFoundedOn(R, Nat)
    BY NatLessThanWellFounded DEF OpToRel
  <1> HIDE DEF R
  <1>2. PICK x \in S : \A y \in S : ~(<<y, x>> \in R)
    BY <1>1, WFMin
  <1>3. \A a, b \in Nat : a < b => <<a, b>> \in R
    BY DEF R
  <1>4. \A y \in S : ~(y < x)
    BY <1>2, <1>3
  <1>5. QED
    BY <1>4

\* Min picks it.
LEMMA MinOfNaturals ==
  ASSUME NEW S, S \subseteq Nat, S # {}
  PROVE  Min(S) \in S /\ \A y \in S : Min(S) <= y
  BY FirstExists DEF Min

-----------------------------------------------------------------------------
(* Types *)

\* The history starts with one bar of the entry frame.
LEMMA TypeInit == Init => TypeOK
  <1> SUFFICES ASSUME Init PROVE TypeOK
    OBVIOUS
  <1>1. PICK q \in Quotes : tape = [k \in 1..EntryWidth |-> q]
    BY DEF Init
  <1>2. EntryWidth \in Nat \ {0} /\ SimWidth \in Nat \ {0} /\ EntryWidth <= MaxTime
    BY SimulationAssumption
  <1>3. tape \in Seq(Quotes) /\ Len(tape) = EntryWidth
    <2>1. EntryWidth \in Nat
      BY <1>2
    <2>2. \A k \in 1..EntryWidth : q \in Quotes
      OBVIOUS
    <2>3. QED
      BY <1>1, <2>1, <2>2, IsASeq
  <1>4. open \in SUBSET (1..gated) /\ gated \in {0, 1}
    BY DEF Init
  <1>5. gated \in Nat /\ (gated - 1) * GateWidth <= Len(tape)
    <2>1. GateWidth \in Nat \ {0}
      BY SimulationAssumption
    <2>2. CASE gated = 0
      <3>1. (0 - 1) * GateWidth <= 0
        BY <2>1
      <3>2. QED
        BY <1>2, <1>3, <2>1, <2>2, <3>1
    <2>3. CASE gated = 1
      BY <1>2, <1>3, <2>1, <2>3
    <2>4. QED
      BY <1>4, <2>2, <2>3
  <1>6. entries = 0 /\ sims = 0 /\ signals = {}
    BY DEF Init
  <1>7. entries * EntryWidth <= Len(tape) /\ sims * SimWidth <= Len(tape)
    BY <1>2, <1>3, <1>6
  <1>8. QED
    BY <1>2, <1>3, <1>4, <1>5, <1>6, <1>7 DEF TypeOK

\* A frame stores no bar that has not closed.
LEMMA TypeStep == TypeOK /\ [Next]_vars => TypeOK'
  <1> SUFFICES ASSUME TypeOK, [Next]_vars PROVE TypeOK'
    OBVIOUS
  <1>n. /\ EntryWidth \in Nat \ {0} /\ SimWidth \in Nat \ {0} /\ GateWidth \in Nat \ {0}
        /\ tape \in Seq(Quotes) /\ Len(tape) \in Nat /\ Len(tape) <= MaxTime
        /\ entries \in Nat /\ sims \in Nat /\ gated \in Nat /\ MaxTime \in Nat
        /\ signals \in SUBSET (1..entries) /\ open \in SUBSET (1..gated)
    BY SimulationAssumption DEF TypeOK
  <1> DEFINE length == Len(tape)
  <1>1. CASE Close
    <2>1. PICK q \in Quotes : tape' = Append(tape, q)
      BY <1>1 DEF Close
    <2>2. UNCHANGED <<signals, entries, sims, open, gated>> /\ length < MaxTime
      BY <1>1 DEF Close
    <2> DEFINE longer == Len(tape')
    <2>3. tape' \in Seq(Quotes) /\ longer \in Nat /\ longer = length + 1 /\ longer <= MaxTime
      BY <1>n, <2>1, <2>2
    <2> DEFINE a == entries * EntryWidth
               b == sims * SimWidth
               c == (gated - 1) * GateWidth
    <2>4. a <= longer /\ b <= longer /\ c <= longer
      <3>1. a <= length /\ b <= length /\ c <= length
        BY DEF TypeOK
      <3>2. a \in Int /\ b \in Int /\ c \in Int /\ length \in Int
        BY <1>n
      <3> HIDE DEF a, b, c, longer, length
      <3>3. QED
        BY <2>3, <3>1, <3>2
    <2>5. a' = a /\ b' = b /\ c' = c
      BY <2>2
    <2>6. QED
      BY <1>n, <2>2, <2>3, <2>4, <2>5 DEF TypeOK
  <1>2. CASE CollectEntries
    <2>1. /\ entries' = length \div EntryWidth /\ entries' > entries
          /\ UNCHANGED <<tape, sims, open, gated>>
      BY <1>2 DEF CollectEntries
    <2>2. entries' \in Nat /\ entries' * EntryWidth <= length
      BY <1>n, <2>1, Division
    <2>3. PICK fired \in SUBSET (entries + 1 .. entries') : signals' = signals \cup fired
      BY <1>2 DEF CollectEntries
    <2>4. signals' \in SUBSET (1..entries')
      BY <1>n, <2>1, <2>2, <2>3
    <2>5. QED
      BY <2>1, <2>2, <2>4 DEF TypeOK
  <1>3. CASE CollectSims
    <2>1. sims' = length \div SimWidth /\ UNCHANGED <<tape, signals, entries, open, gated>>
      BY <1>3 DEF CollectSims
    <2>2. sims' \in Nat /\ sims' * SimWidth <= length
      BY <1>n, <2>1, Division
    <2>3. QED
      BY <2>1, <2>2 DEF TypeOK
  <1>4. CASE CollectGate
    <2>1. gated' = GateBar(length) /\ gated' > gated /\ UNCHANGED <<tape, signals, entries, sims>>
      BY <1>4 DEF CollectGate
    <2>2. gated' \in Nat /\ (gated' - 1) * GateWidth <= length
      <3> DEFINE d == length \div GateWidth
      <3>1. d \in Nat /\ d * GateWidth <= length /\ gated' = d + 1
        BY <1>n, <2>1, Division DEF GateBar
      <3> HIDE DEF d
      <3>2. gated' - 1 = d
        BY <3>1
      <3>3. QED
        BY <3>1, <3>2
    <2>3. PICK above \in SUBSET (gated + 1 .. gated') : open' = open \cup above
      BY <1>4 DEF CollectGate
    <2>4. open' \in SUBSET (1..gated')
      BY <1>n, <2>1, <2>2, <2>3
    <2>5. QED
      BY <2>1, <2>2, <2>4 DEF TypeOK
  <1>5. CASE UNCHANGED vars
    BY <1>5 DEF vars, TypeOK
  <1>6. QED
    BY <1>1, <1>2, <1>3, <1>4, <1>5 DEF Next

\* The variables keep their types: no frame holds a bar that has not closed.
THEOREM TypeCorrect == Spec => []TypeOK
  BY TypeInit, TypeStep, PTL DEF Spec

-----------------------------------------------------------------------------
(* The walk *)

\* The prices that a bar touches, the bars of a hold that touch one, and what the
\* first of them says.
Stops(width, price, j) == Bar(width, j).low <= price - Down
Targets(width, price, j) == Bar(width, j).high >= price + Up
Ends(width, price, first, last) ==
    {j \in first..last : Stops(width, price, j) \/ Targets(width, price, j)}
Settled(width, price, first, last) ==
    LET ends == Ends(width, price, first, last)
    IN IF ends = {}
       THEN [result |-> "timeout", ret |-> Bar(width, last).close - price, exit |-> last * width]
       ELSE IF Stops(width, price, Min(ends))
       THEN [result |-> "loss", ret |-> -Down, exit |-> Min(ends) * width]
       ELSE [result |-> "win", ret |-> Up, exit |-> Min(ends) * width]

\* One bar of the walk, given what the walk says of the next one.
Visit(width, price, last, walk, j) ==
    IF j > last
    THEN [result |-> "timeout", ret |-> Bar(width, last).close - price, exit |-> last * width]
    ELSE IF Stops(width, price, j) THEN [result |-> "loss", ret |-> -Down, exit |-> j * width]
    ELSE IF Targets(width, price, j) THEN [result |-> "win", ret |-> Up, exit |-> j * width]
    ELSE walk[j + 1]

\* What the first touch says follows from the bar and what it says of the rest.
LEMMA SettledIsVisited ==
  ASSUME NEW width, NEW price, NEW last \in Nat, NEW j \in Nat,
         NEW rest, rest = Settled(width, price, j + 1, last)
  PROVE  Settled(width, price, j, last) =
            IF j > last THEN [result |-> "timeout", ret |-> Bar(width, last).close - price,
                              exit |-> last * width]
            ELSE IF Stops(width, price, j)
                 THEN [result |-> "loss", ret |-> -Down, exit |-> j * width]
            ELSE IF Targets(width, price, j)
                 THEN [result |-> "win", ret |-> Up, exit |-> j * width]
            ELSE rest
  <1> DEFINE ends == Ends(width, price, j, last)
  <1>1. CASE j > last
    <2>1. ends = {}
      BY <1>1 DEF Ends
    <2>2. QED
      BY <1>1, <2>1 DEF Settled
  <1>2. CASE j <= last /\ (Stops(width, price, j) \/ Targets(width, price, j))
    <2>1. j \in ends /\ ends \subseteq Nat /\ \A k \in ends : j <= k
      BY <1>2 DEF Ends
    <2> HIDE DEF ends
    <2>2. Min(ends) = j
      <3> DEFINE m == Min(ends)
      <3>1. ends # {} /\ ends \subseteq Nat
        BY <2>1
      <3>2. m \in ends /\ \A k \in ends : m <= k
        BY <3>1, MinOfNaturals
      <3> HIDE DEF m
      <3>3. m \in Nat /\ m <= j /\ j <= m
        BY <2>1, <3>2
      <3>4. QED
        BY <3>3 DEF m
    <2>3. ends # {} /\ ~(j > last)
      BY <1>2, <2>1
    <2>4. QED
      BY <1>2, <2>2, <2>3 DEF Settled, ends
  <1>3. CASE j <= last /\ ~Stops(width, price, j) /\ ~Targets(width, price, j)
    <2>1. ends = Ends(width, price, j + 1, last)
      <3>1. \A k \in j..last : k # j => k \in (j + 1)..last
        OBVIOUS
      <3>2. \A k \in (j + 1)..last : k \in j..last
        OBVIOUS
      <3>3. \A k \in ends : k \in Ends(width, price, j + 1, last)
        BY <1>3, <3>1 DEF Ends
      <3>4. \A k \in Ends(width, price, j + 1, last) : k \in ends
        BY <3>2 DEF Ends
      <3>5. QED
        BY <3>3, <3>4
    <2>2. Settled(width, price, j, last) = Settled(width, price, j + 1, last)
      BY <2>1 DEF Settled
    <2>3. QED
      BY <1>3, <2>2
  <1>4. QED
    BY <1>1, <1>2, <1>3

\* The walk that all judges share ends as the first touch says, whatever the prices.
LEMMA WalkIsSettled ==
  ASSUME NEW width, NEW price, NEW first \in Nat, NEW last \in Nat
  PROVE  Walk(width, price, first, last) = Settled(width, price, first, last)
  <1> DEFINE IsWalk(w) == w = [j \in Nat |-> Visit(width, price, last, w, j)]
             walk == CHOOSE w : IsWalk(w)
             settled == [j \in Nat |-> Settled(width, price, j, last)]
  <1>1. Walk(width, price, first, last) = walk[first]
    BY DEF Walk, Visit, Stops, Targets
  <1>2. IsWalk(settled)
    <2>1. ASSUME NEW j \in Nat
          PROVE  Settled(width, price, j, last) = Visit(width, price, last, settled, j)
      <3>1. settled[j + 1] = Settled(width, price, j + 1, last)
        OBVIOUS
      <3> DEFINE rest == settled[j + 1]
      <3> HIDE DEF settled
      <3>2. Visit(width, price, last, settled, j) =
              IF j > last THEN [result |-> "timeout", ret |-> Bar(width, last).close - price,
                                exit |-> last * width]
              ELSE IF Stops(width, price, j)
                   THEN [result |-> "loss", ret |-> -Down, exit |-> j * width]
              ELSE IF Targets(width, price, j)
                   THEN [result |-> "win", ret |-> Up, exit |-> j * width]
              ELSE rest
        BY DEF Visit
      <3> HIDE DEF rest
      <3>3. rest = Settled(width, price, j + 1, last)
        BY <3>1 DEF rest
      <3>4. QED
        BY <3>2, <3>3, SettledIsVisited
    <2>2. QED
      BY <2>1
  <1>3. IsWalk(walk)
    <2> HIDE DEF IsWalk
    <2>1. QED
      BY <1>2
  <1>4. ASSUME walk[first] # settled[first] PROVE FALSE
    <2> DEFINE bad == {i \in Nat : \E j \in Nat : i + j = last /\ walk[j] # settled[j]}
    <2>1. \A j \in Nat : walk[j] = Visit(width, price, last, walk, j)
                      /\ settled[j] = Visit(width, price, last, settled, j)
      <3> HIDE DEF walk, settled
      <3>1. QED
        BY <1>2, <1>3
    <2> HIDE DEF walk, settled
    <2>2. \A j \in Nat : j > last => walk[j] = settled[j]
      BY <2>1 DEF Visit
    <2>3. last - first \in bad
      BY <1>4, <2>2
    <2>4. PICK i \in bad : \A k \in bad : i <= k
      <3>1. bad \subseteq Nat /\ bad # {}
        BY <2>3
      <3> HIDE DEF bad
      <3>2. QED
        BY <3>1, FirstExists
    <2>5. PICK j \in Nat : i + j = last /\ walk[j] # settled[j]
      OBVIOUS
    <2>6. walk[j + 1] # settled[j + 1]
      BY <2>1, <2>5 DEF Visit
    <2>7. j + 1 <= last
      BY <2>2, <2>6
    <2>8. i - 1 \in bad
      BY <2>5, <2>6, <2>7
    <2>9. QED
      BY <2>4, <2>8
  <1>5. QED
    BY <1>1, <1>4

\* The reference says the same.
LEMMA SettledIsFirstTouch ==
  ASSUME NEW width, NEW price, NEW first \in Nat, NEW last \in Nat
  PROVE  Settled(width, price, first, last).result = FirstTouch(width, price, first, last)
  <1> DEFINE stops == {j \in first..last : Bar(width, j).low <= price - Down}
             all == stops \cup {j \in first..last : Bar(width, j).high >= price + Up}
  <1>1. all = Ends(width, price, first, last)
    BY DEF Ends, Stops, Targets
  <1>2. CASE all = {}
    BY <1>1, <1>2 DEF Settled, FirstTouch
  <1>3. CASE all # {}
    <2>1. all \subseteq Nat
      OBVIOUS
    <2> HIDE DEF all
    <2>2. Min(all) \in all
      BY <1>3, <2>1, MinOfNaturals
    <2>3. Min(all) \in stops <=> Stops(width, price, Min(all))
      BY <2>2 DEF all, Stops
    <2>4. Settled(width, price, first, last).result =
            IF Stops(width, price, Min(all)) THEN "loss" ELSE "win"
      BY <1>1, <1>3 DEF Settled
    <2>5. FirstTouch(width, price, first, last) = IF Min(all) \in stops THEN "loss" ELSE "win"
      BY <1>3 DEF FirstTouch, all
    <2>6. QED
      BY <2>3, <2>4, <2>5
  <1>4. QED
    BY <1>2, <1>3

\* What is known of the frames.
LEMMA Frames ==
  ASSUME TypeOK
  PROVE  /\ entries \in Nat /\ entries * EntryWidth <= Len(tape)
         /\ sims \in Nat /\ sims * SimWidth <= Len(tape)
         /\ Len(tape) \in Nat /\ tape \in Seq(Quotes)
         /\ EntryWidth \in Nat \ {0} /\ SimWidth \in Nat \ {0}
         /\ HoldBars \in Nat \ {0} /\ Forward \in Nat \ {0}
         /\ GateWidth \in Nat \ {0}
  <1>1. tape \in Seq(Quotes) /\ Len(tape) \in Nat
    BY DEF TypeOK
  <1>2. entries \in Nat /\ entries * EntryWidth <= Len(tape)
    BY DEF TypeOK
  <1>3. sims \in Nat /\ sims * SimWidth <= Len(tape)
    BY DEF TypeOK
  <1>4. QED
    BY <1>1, <1>2, <1>3, SimulationAssumption

\* A frame that holds a bar has the prices of the market at its end.
LEMMA CloseIsPrice ==
  ASSUME TypeOK, NEW width \in Nat \ {0}, NEW j \in Nat \ {0}, j * width <= Len(tape)
  PROVE  /\ j * width \in 1..Len(tape) /\ tape[j * width] \in Quotes
         /\ tape[j * width].close \in Int /\ Bar(width, j).close \in Int
  <1>1. tape \in Seq(Quotes) /\ Len(tape) \in Nat
    BY DEF TypeOK
  <1>2. j * width \in Nat /\ j * width >= 1
    BY SMT
  <1>3. j * width \in 1..Len(tape)
    BY <1>1, <1>2
  <1>4. tape[j * width] \in Quotes
    BY <1>1, <1>3
  <1>5. tape[j * width].close \in Int
    BY <1>4, SimulationAssumption
  <1>6. Bar(width, j).close = tape[j * width].close
    BY DEF Bar
  <1>7. QED
    BY <1>3, <1>4, <1>5, <1>6

\* A walk whose bars are stored comes to an outcome.
LEMMA WalkIsOutcome ==
  ASSUME TypeOK, NEW width \in Nat \ {0}, NEW price \in Int, NEW first \in Nat,
         NEW last \in Nat \ {0}, last * width <= Len(tape)
  PROVE  Walk(width, price, first, last) \in TradeOutcome
  <1> DEFINE ends == Ends(width, price, first, last)
  <1>1. Walk(width, price, first, last) = Settled(width, price, first, last)
    BY WalkIsSettled
  <1>2. Bar(width, last).close - price \in Int /\ last * width \in Int /\ -Down \in Int /\ Up \in Int
    BY CloseIsPrice, SimulationAssumption
  <1>3. ends # {} => Min(ends) * width \in Int
    <2>1. ends \subseteq Nat
      BY DEF Ends
    <2> HIDE DEF ends
    <2>2. ends # {} => Min(ends) \in Nat
      BY <2>1, MinOfNaturals
    <2>3. QED
      BY <2>2
  <1> DEFINE timeout == [result |-> "timeout", ret |-> Bar(width, last).close - price,
                         exit |-> last * width]
             loss == [result |-> "loss", ret |-> -Down, exit |-> Min(ends) * width]
             win == [result |-> "win", ret |-> Up, exit |-> Min(ends) * width]
  <1>4. \/ Settled(width, price, first, last) = timeout
        \/ ends # {} /\ Settled(width, price, first, last) \in {loss, win}
    BY DEF Settled
  <1>5. timeout \in TradeOutcome
    BY <1>2 DEF TradeOutcome
  <1>6. ends # {} => loss \in TradeOutcome /\ win \in TradeOutcome
    BY <1>2, <1>3 DEF TradeOutcome
  <1> HIDE DEF ends, timeout, loss, win
  <1>7. QED
    BY <1>1, <1>4, <1>5, <1>6

\* Of two numbers Min picks the smaller one.
LEMMA MinOfTwo ==
  ASSUME NEW a \in Nat, NEW b \in Nat
  PROVE  Min({a, b}) = IF a <= b THEN a ELSE b
  <1> DEFINE m == Min({a, b})
  <1>1. m \in {a, b} /\ \A y \in {a, b} : m <= y
    BY MinOfNaturals
  <1> HIDE DEF m
  <1>2. m = IF a <= b THEN a ELSE b
    BY <1>1
  <1>3. QED
    BY <1>2 DEF m

\* The entry of a stored signal, on the frame of the simulation.
EntryBar(n) == (n * EntryWidth) \div SimWidth

\* The entries and their prices are in the market's history.
LEMMA EntryIsStored ==
  ASSUME TypeOK, NEW n \in 1..entries
  PROVE  /\ n \in Nat /\ EntryBar(n) \in Nat /\ EntryPrice(n) \in Int
         /\ n * EntryWidth \in 1..Len(tape)
  <1>1. /\ entries \in Nat /\ EntryWidth \in Nat \ {0} /\ SimWidth \in Nat \ {0} /\ n \in Nat \ {0}
        /\ n <= entries /\ entries * EntryWidth <= Len(tape) /\ Len(tape) \in Nat
    BY Frames
  <1>2. n * EntryWidth <= entries * EntryWidth /\ entries * EntryWidth \in Nat /\ n * EntryWidth \in Nat
    BY <1>1, SMT
  <1>3. n * EntryWidth <= Len(tape)
    <2> DEFINE x == n * EntryWidth
               y == entries * EntryWidth
    <2>1. x <= y /\ y <= Len(tape) /\ x \in Nat /\ y \in Nat
      BY <1>1, <1>2
    <2> HIDE DEF x, y
    <2>2. x <= Len(tape)
      BY <1>1, <2>1
    <2>3. QED
      BY <2>2 DEF x
  <1>4. EntryPrice(n) \in Int /\ n * EntryWidth \in 1..Len(tape)
    BY <1>1, <1>3, CloseIsPrice DEF EntryPrice
  <1>5. EntryBar(n) \in Nat
    BY <1>1, <1>2, Division DEF EntryBar
  <1>6. QED
    BY <1>1, <1>4, <1>5

\* A trade is undecided until its hold is stored, and then the walk over it.
LEMMA SimulateIsWalk ==
  ASSUME TypeOK, NEW n \in 1..entries
  PROVE  /\ EntryBar(n) = 0 \/ EntryBar(n) + HoldBars > sims => Simulate(n) = None
         /\ ~(EntryBar(n) = 0 \/ EntryBar(n) + HoldBars > sims) =>
               /\ Simulate(n) = Walk(SimWidth, EntryPrice(n), EntryBar(n) + 1, EntryBar(n) + HoldBars)
               /\ Simulate(n) \in TradeOutcome
  <1>1. EntryBar(n) \in Nat /\ EntryPrice(n) \in Int /\ HoldBars \in Nat \ {0} /\ sims \in Nat
        /\ SimWidth \in Nat \ {0} /\ Len(tape) \in Nat /\ sims * SimWidth <= Len(tape)
    BY EntryIsStored, Frames
  <1> DEFINE start == IndexAt(n * EntryWidth)
             bar == EntryBar(n)
  <1>2. start = IF sims <= bar THEN sims ELSE bar
    BY <1>1, MinOfTwo DEF IndexAt, EntryBar
  <1>3. Simulate(n) = IF start = 0 \/ start + HoldBars > sims THEN None
                      ELSE Walk(SimWidth, EntryPrice(n), start + 1, start + HoldBars)
    BY DEF Simulate
  <1> HIDE DEF start
  <1>4. CASE bar = 0 \/ bar + HoldBars > sims
    <2> HIDE DEF bar
    <2>1. start = 0 \/ start + HoldBars > sims
      BY <1>1, <1>2, <1>4 DEF bar
    <2>2. QED
      BY <1>3, <1>4, <2>1 DEF bar
  <1>5. CASE ~(bar = 0 \/ bar + HoldBars > sims)
    <2>1. start = bar
      BY <1>1, <1>2, <1>5
    <2>2. Simulate(n) = Walk(SimWidth, EntryPrice(n), bar + 1, bar + HoldBars)
      BY <1>3, <1>5, <2>1
    <2>3. (bar + HoldBars) * SimWidth <= Len(tape)
      <3> DEFINE last == bar + HoldBars
      <3>1. last \in Nat /\ last <= sims
        BY <1>1, <1>5
      <3> HIDE DEF last
      <3>2. last * SimWidth <= sims * SimWidth
        BY <1>1, <3>1, SMT
      <3>3. last * SimWidth \in Nat /\ sims * SimWidth \in Nat
        BY <1>1, <3>1
      <3> DEFINE x == last * SimWidth
                 y == sims * SimWidth
      <3>4. x \in Nat /\ y \in Nat /\ x <= y /\ y <= Len(tape)
        BY <1>1, <3>2, <3>3
      <3> HIDE DEF x, y
      <3>5. x <= Len(tape)
        BY <1>1, <3>4
      <3>6. QED
        BY <3>5 DEF x, last
    <2>4. Walk(SimWidth, EntryPrice(n), bar + 1, bar + HoldBars) \in TradeOutcome
      <3>1. bar + 1 \in Nat /\ bar + HoldBars \in Nat \ {0}
        BY <1>1
      <3> HIDE DEF bar
      <3>2. QED
        BY <1>1, <2>3, <3>1, WalkIsOutcome
    <2>5. QED
      BY <1>5, <2>2, <2>4
  <1>6. QED
    BY <1>4, <1>5

\* The same of the trades on the entry frame.
LEMMA SimulateTradeIsWalk ==
  ASSUME TypeOK, NEW n \in 1..entries
  PROVE  /\ n + Forward > entries => SimulateTrade(n) = None
         /\ n + Forward <= entries =>
               /\ SimulateTrade(n) = Walk(EntryWidth, EntryPrice(n), n + 1, n + Forward)
               /\ SimulateTrade(n) \in TradeOutcome
  <1>1. n \in Nat /\ EntryPrice(n) \in Int /\ Forward \in Nat \ {0} /\ entries \in Nat
        /\ EntryWidth \in Nat \ {0} /\ Len(tape) \in Nat /\ entries * EntryWidth <= Len(tape)
    BY EntryIsStored, Frames
  <1>2. CASE n + Forward > entries
    BY <1>1, <1>2 DEF SimulateTrade
  <1>3. CASE n + Forward <= entries
    <2> DEFINE last == n + Forward
    <2>1. last \in Nat \ {0} /\ last <= entries /\ n + 1 \in Nat
      BY <1>1, <1>3
    <2>2. SimulateTrade(n) = Walk(EntryWidth, EntryPrice(n), n + 1, last)
      BY <1>1, <1>3 DEF SimulateTrade
    <2> HIDE DEF last
    <2>3. last * EntryWidth <= entries * EntryWidth
      BY <1>1, <2>1, SMT
    <2>4. last * EntryWidth <= Len(tape)
      <3> DEFINE x == last * EntryWidth
                 y == entries * EntryWidth
      <3>1. x \in Nat /\ y \in Nat /\ x <= y /\ y <= Len(tape)
        BY <1>1, <2>1, <2>3
      <3> HIDE DEF x, y
      <3>2. x <= Len(tape)
        BY <1>1, <3>1
      <3>3. QED
        BY <3>2 DEF x
    <2>5. SimulateTrade(n) \in TradeOutcome
      BY <1>1, <2>1, <2>2, <2>4, WalkIsOutcome
    <2>6. ~(n + Forward > entries)
      BY <1>1, <1>3
    <2>7. QED
      BY <2>2, <2>5, <2>6 DEF last
  <1>4. QED
    BY <1>1, <1>2, <1>3

\* The outcome of every trade that the statistics count is what the first bar of its
\* hold that touches a price says, the stop before the target, and it is known exactly
\* when every bar of the hold is stored (simulate, simulate_trade): for every path of
\* prices, length of the hold, pair of frames and lag of either.
THEOREM TradesEndAtFirstTouch == Spec => []DecidedByFirstTouch
  <1>1. ASSUME TypeOK, NEW n \in 1..entries
        PROVE  LET start == (n * EntryWidth) \div SimWidth IN
               /\ (Simulate(n) = None <=> start = 0 \/ start + HoldBars > sims)
               /\ Simulate(n) # None =>
                     Simulate(n).result =
                         FirstTouch(SimWidth, EntryPrice(n), start + 1, start + HoldBars)
               /\ SimulateTrade(n) # None =>
                     SimulateTrade(n).result = FirstTouch(EntryWidth, EntryPrice(n), n + 1, n + Forward)
    <2> DEFINE start == EntryBar(n)
    <2>1. start \in Nat /\ n \in Nat /\ HoldBars \in Nat /\ Forward \in Nat /\ entries \in Nat
      BY <1>1, EntryIsStored, SimulationAssumption DEF TypeOK
    <2>2. Simulate(n) = None <=> start = 0 \/ start + HoldBars > sims
      BY <1>1, SimulateIsWalk, OutcomeAssumption
    <2>3. Simulate(n) # None =>
            Simulate(n).result = FirstTouch(SimWidth, EntryPrice(n), start + 1, start + HoldBars)
      <3>1. start + 1 \in Nat /\ start + HoldBars \in Nat
        BY <2>1
      <3> HIDE DEF start
      <3>2. Simulate(n) # None =>
              Simulate(n) = Settled(SimWidth, EntryPrice(n), start + 1, start + HoldBars)
        BY <1>1, <3>1, SimulateIsWalk, WalkIsSettled DEF start
      <3>3. QED
        BY <3>1, <3>2, SettledIsFirstTouch
    <2>4. SimulateTrade(n) # None =>
            SimulateTrade(n).result = FirstTouch(EntryWidth, EntryPrice(n), n + 1, n + Forward)
      <3>1. n + 1 \in Nat /\ n + Forward \in Nat /\ (n + Forward > entries \/ n + Forward <= entries)
        BY <2>1
      <3>2. SimulateTrade(n) # None =>
              SimulateTrade(n) = Settled(EntryWidth, EntryPrice(n), n + 1, n + Forward)
        BY <1>1, <3>1, SimulateTradeIsWalk, WalkIsSettled
      <3>3. QED
        BY <3>1, <3>2, SettledIsFirstTouch
    <2>5. QED
      BY <2>2, <2>3, <2>4 DEF EntryBar
  <1>2. TypeOK => DecidedByFirstTouch
    BY <1>1 DEF DecidedByFirstTouch
  <1>3. QED
    BY <1>2, TypeCorrect, PTL

-----------------------------------------------------------------------------
(* Coarse bars and fine ones *)

\* A finite set of integers has a least member and a greatest one: those that the
\* fewest others lie beyond.
LEMMA MinOfIntegers ==
  ASSUME NEW S, S \subseteq Int, S # {}, IsFiniteSet(S)
  PROVE  Min(S) \in S /\ \A y \in S : Min(S) <= y
  <1> DEFINE below(x) == {y \in S : y < x}
             counts == {Cardinality(below(x)) : x \in S}
  <1>1. \A x \in S : IsFiniteSet(below(x)) /\ Cardinality(below(x)) \in Nat
    BY FS_Subset, FS_CardinalityType
  <1>2. PICK n \in counts : \A m \in counts : n <= m
    <2>1. counts \subseteq Nat /\ counts # {}
      BY <1>1
    <2> HIDE DEF counts
    <2>2. QED
      BY <2>1, FirstExists
  <1>3. PICK x \in S : n = Cardinality(below(x))
    OBVIOUS
  <1>4. ASSUME NEW y \in S, y < x PROVE FALSE
    <2>1. x \in Int /\ y \in Int
      OBVIOUS
    <2>2. below(y) \subseteq below(x) /\ below(y) # below(x)
      <3>1. y \in below(x) /\ y \notin below(y)
        BY <1>4, <2>1
      <3>2. \A z \in below(y) : z \in below(x)
        BY <1>4, <2>1
      <3> HIDE DEF below
      <3>3. QED
        BY <3>1, <3>2
    <2>3. /\ Cardinality(below(y)) <= Cardinality(below(x))
          /\ Cardinality(below(y)) # Cardinality(below(x))
      BY <1>1, <2>2, FS_Subset
    <2>4. n <= Cardinality(below(y))
      BY <1>2
    <2>5. QED
      BY <1>1, <1>3, <2>3, <2>4
  <1>5. \A y \in S : x <= y
    BY <1>4
  <1>6. QED
    BY <1>5 DEF Min

\* The same at the other end.
LEMMA MaxOfIntegers ==
  ASSUME NEW S, S \subseteq Int, S # {}, IsFiniteSet(S)
  PROVE  Max(S) \in S /\ \A y \in S : Max(S) >= y
  <1> DEFINE T == {z \in Int : -z \in S}
             minus == [x \in S |-> -x]
  <1>1. T \subseteq Int /\ T # {} /\ \A x \in S : -x \in T
    <2>1. \A x \in S : x \in Int /\ -x \in Int /\ -(-x) = x
      OBVIOUS
    <2>2. \A x \in S : -x \in T
      BY <2>1
    <2>3. QED
      BY <2>2
  <1>2. IsFiniteSet(T)
    <2>1. minus \in [S -> T]
      BY <1>1
    <2>2. \A z \in T : \E x \in S : minus[x] = z
      <3>1. ASSUME NEW z \in T PROVE \E x \in S : minus[x] = z
        <4>1. z \in Int /\ -z \in S
          OBVIOUS
        <4>2. minus[-z] = -(-z) /\ -(-z) = z
          BY <4>1
        <4>3. QED
          BY <4>1, <4>2
      <3>2. QED
        BY <3>1
    <2>3. minus \in Surjection(S, T)
      BY <2>1, <2>2 DEF Surjection
    <2>4. QED
      BY <2>3, FS_Surjection
  <1>3. Min(T) \in T /\ \A y \in T : Min(T) <= y
    <2> HIDE DEF T
    <2>1. QED
      BY <1>1, <1>2, MinOfIntegers
  <1> DEFINE m == Min(T)
  <1>4. m \in Int /\ -m \in S /\ \A y \in S : m <= -y
    BY <1>1, <1>3
  <1> HIDE DEF T, m
  <1>5. \A y \in S : -m >= y
    <2>1. ASSUME NEW y \in S PROVE -m >= y
      <3>1. y \in Int /\ m <= -y
        BY <1>4
      <3>2. QED
        BY <1>4, <3>1
    <2>2. QED
      BY <2>1
  <1>6. QED
    BY <1>4, <1>5 DEF Max

\* The bars of the monitor in bar j of a frame.
Part(width, j) == (j - 1) * width + 1 .. j * width

\* They are a bar or more, and in the history when the coarse bar is.
LEMMA PartIsStored ==
  ASSUME TypeOK, NEW width \in Nat \ {0}, NEW j \in Nat \ {0}, j * width <= Len(tape)
  PROVE  /\ Part(width, j) # {} /\ IsFiniteSet(Part(width, j)) /\ Part(width, j) \subseteq 1..Len(tape)
         /\ \A k \in Part(width, j) : tape[k] \in Quotes /\ tape[k].low \in Int /\ tape[k].high \in Int
  <1> DEFINE a == (j - 1) * width + 1
             b == j * width
  <1>1. a \in Nat /\ b \in Nat /\ a >= 1 /\ a <= b
    <2>1. (j - 1) * width \in Nat /\ j * width \in Nat /\ j * width = (j - 1) * width + width
      BY SMT
    <2>2. QED
      BY <2>1
  <1>2. b <= Len(tape) /\ Len(tape) \in Nat /\ tape \in Seq(Quotes)
    BY Frames
  <1>3. Part(width, j) = a..b
    BY DEF Part
  <1> HIDE DEF a, b
  <1>4. a..b # {} /\ a..b \subseteq 1..Len(tape)
    BY <1>1, <1>2
  <1>5. IsFiniteSet(a..b)
    BY <1>1, FS_Interval
  <1>6. \A k \in a..b : tape[k] \in Quotes
    BY <1>2, <1>4
  <1>7. \A k \in a..b : tape[k].low \in Int /\ tape[k].high \in Int
    BY <1>6, SimulationAssumption
  <1>8. QED
    BY <1>3, <1>4, <1>5, <1>6, <1>7

\* A bar touches a price when one of the finer bars in it does.
LEMMA BarTouches ==
  ASSUME TypeOK, NEW width \in Nat \ {0}, NEW j \in Nat \ {0}, j * width <= Len(tape), NEW price \in Int
  PROVE  /\ Stops(width, price, j) <=> \E k \in Part(width, j) : tape[k].low <= price - Down
         /\ Targets(width, price, j) <=> \E k \in Part(width, j) : tape[k].high >= price + Up
  <1> DEFINE lows == {tape[k].low : k \in Part(width, j)}
             highs == {tape[k].high : k \in Part(width, j)}
  <1>1. lows \subseteq Int /\ highs \subseteq Int /\ lows # {} /\ highs # {}
    BY PartIsStored
  <1>2. IsFiniteSet(lows) /\ IsFiniteSet(highs)
    <2> DEFINE low == [k \in Part(width, j) |-> tape[k].low]
               high == [k \in Part(width, j) |-> tape[k].high]
    <2>1. IsFiniteSet(Part(width, j))
      BY PartIsStored
    <2>2. low \in Surjection(Part(width, j), lows) /\ high \in Surjection(Part(width, j), highs)
      BY DEF Surjection
    <2> HIDE DEF low, high, lows, highs
    <2>3. QED
      BY <2>1, <2>2, FS_Surjection
  <1>3. Bar(width, j).low = Min(lows) /\ Bar(width, j).high = Max(highs)
    BY DEF Bar, Part
  <1>4. price - Down \in Int /\ price + Up \in Int
    BY SimulationAssumption
  <1>5. Min(lows) <= price - Down <=> \E x \in lows : x <= price - Down
    <2> HIDE DEF lows
    <2> DEFINE m == Min(lows)
               p == price - Down
    <2>1. m \in lows /\ (\A x \in lows : m <= x) /\ p \in Int
      BY <1>1, <1>2, <1>4, MinOfIntegers
    <2> HIDE DEF m, p
    <2>2. m <= p <=> \E x \in lows : x <= p
      BY <1>1, <2>1
    <2>3. QED
      BY <2>2 DEF m, p
  <1>6. Max(highs) >= price + Up <=> \E x \in highs : x >= price + Up
    <2> HIDE DEF highs
    <2> DEFINE m == Max(highs)
               p == price + Up
    <2>1. m \in highs /\ (\A x \in highs : m >= x) /\ p \in Int
      BY <1>1, <1>2, <1>4, MaxOfIntegers
    <2> HIDE DEF m, p
    <2>2. m >= p <=> \E x \in highs : x >= p
      BY <1>1, <2>1
    <2>3. QED
      BY <2>2 DEF m, p
  <1>7. QED
    BY <1>3, <1>5, <1>6 DEF Stops, Targets

\* The monitor's own bars have nothing in them but themselves.
LEMMA FineBarTouches ==
  ASSUME TypeOK, NEW k \in 1..Len(tape), NEW price \in Int
  PROVE  /\ Stops(1, price, k) <=> tape[k].low <= price - Down
         /\ Targets(1, price, k) <=> tape[k].high >= price + Up
  <1>1. Len(tape) \in Nat /\ k \in Nat \ {0} /\ k * 1 <= Len(tape) /\ 1 \in Nat \ {0}
    BY Frames
  <1>2. Part(1, k) = {k}
    BY <1>1 DEF Part
  <1>3. QED
    BY <1>1, <1>2, BarTouches

\* A hold of coarse bars is the same stretch of the monitor's bars, in the same order.
LEMMA HoldIsParts ==
  ASSUME NEW width \in Nat \ {0}, NEW start \in Nat, NEW hold \in Nat
  PROVE  LET first == start * width + 1
             last == start * width + hold * width
         IN /\ first \in Nat /\ last \in Nat /\ (start + hold) * width = last
            /\ \A j \in start + 1..start + hold : \A k \in Part(width, j) : k \in first..last
            /\ \A k \in first..last : \E j \in start + 1..start + hold : k \in Part(width, j)
  <1> DEFINE first == start * width + 1
             last == start * width + hold * width
  <1>1. start * width \in Nat /\ hold * width \in Nat
    BY SMT
  <1>2. (start + hold) * width = last
    BY SMT
  <1>3. ASSUME NEW j \in start + 1..start + hold, NEW k \in Part(width, j) PROVE k \in first..last
    <2>1. j \in Nat /\ j - 1 \in Nat /\ start <= j - 1 /\ j <= start + hold
      OBVIOUS
    <2>2. start * width <= (j - 1) * width /\ j * width <= (start + hold) * width
      BY <2>1, SMT
    <2>3. (j - 1) * width \in Nat /\ j * width \in Nat
      BY <2>1
    <2> DEFINE a == (j - 1) * width
               b == j * width
               x == start * width
               y == start * width + hold * width
    <2>4. k \in a + 1..b
      BY DEF Part
    <2>5. a \in Nat /\ b \in Nat /\ x \in Nat /\ y \in Nat /\ x <= a /\ b <= y
      BY <1>1, <1>2, <2>2, <2>3
    <2> HIDE DEF a, b, x, y
    <2>6. k \in x + 1..y
      BY <2>4, <2>5
    <2>7. QED
      BY <2>6 DEF x, y
  <1>4. ASSUME NEW k \in first..last PROVE \E j \in start + 1..start + hold : k \in Part(width, j)
    <2> DEFINE i == (k - 1) \div width
    <2>1. k \in Nat \ {0} /\ k - 1 \in Nat /\ k <= last /\ first <= k
      BY <1>1
    <2>2. i \in Nat /\ i * width <= k - 1 /\ k - 1 < i * width + width
      BY <2>1, Division
    <2>3. start <= i
      <3>1. start * width <= k - 1
        BY <1>1, <2>1
      <3>2. QED
        BY <2>1, <3>1, Division
    <2>4. i < start + hold
      <3>1. i * width < (start + hold) * width
        <4> DEFINE x == i * width
                   y == (start + hold) * width
        <4>1. x \in Nat /\ y \in Nat /\ x <= k - 1 /\ k <= y
          BY <1>1, <1>2, <2>1, <2>2
        <4> HIDE DEF x, y
        <4>2. x < y
          BY <2>1, <4>1
        <4>3. QED
          BY <4>2 DEF x, y
      <3> HIDE DEF i
      <3>2. QED
        BY <2>2, <3>1, SMT
    <2>5. k \in Part(width, i + 1)
      <3>1. (i + 1) - 1 = i /\ (i + 1) * width = i * width + width
        BY <2>2
      <3> DEFINE x == i * width
      <3>2. x \in Nat /\ x <= k - 1 /\ k - 1 < x + width /\ width \in Nat
        BY <2>2
      <3> HIDE DEF x, i
      <3>3. k \in x + 1..x + width
        BY <2>1, <3>2
      <3>4. Part(width, i + 1) = x + 1..x + width
        BY <3>1 DEF Part, x
      <3>5. QED
        BY <3>3, <3>4
    <2> HIDE DEF i
    <2>6. i + 1 \in start + 1..start + hold
      BY <2>2, <2>3, <2>4
    <2>7. QED
      BY <2>5, <2>6
  <1>5. QED
    BY <1>1, <1>2, <1>3, <1>4

\* Later bars have later parts.
LEMMA PartsAreOrdered ==
  ASSUME NEW width \in Nat \ {0}, NEW i \in Nat \ {0}, NEW j \in Nat \ {0},
         NEW k \in Part(width, i), NEW m \in Part(width, j), k <= m
  PROVE  i <= j
  <1> SUFFICES ASSUME j < i PROVE FALSE
    OBVIOUS
  <1>1. j <= i - 1 /\ i - 1 \in Nat
    OBVIOUS
  <1>2. j * width <= (i - 1) * width
    BY <1>1, SMT
  <1> DEFINE x == j * width
             y == (i - 1) * width
             z == (j - 1) * width
             t == i * width
  <1>3. x \in Nat /\ y \in Nat /\ x <= y /\ z \in Nat /\ t \in Nat
    BY <1>1, <1>2
  <1>4. k \in y + 1..t /\ m \in z + 1..x
    BY DEF Part
  <1> HIDE DEF x, y, z, t
  <1>5. QED
    BY <1>3, <1>4

\* What the first touch says, by the bars that touch a price.
LEMMA FirstTouchByEnds ==
  ASSUME NEW width, NEW price, NEW first \in Nat, NEW last \in Nat
  PROVE  LET ends == Ends(width, price, first, last)
             touch == FirstTouch(width, price, first, last)
         IN /\ touch = "timeout" <=> ends = {}
            /\ ends # {} => touch = IF Stops(width, price, Min(ends)) THEN "loss" ELSE "win"
            /\ ends # {} => Min(ends) \in ends /\ \A j \in ends : Min(ends) <= j
  <1> DEFINE ends == Ends(width, price, first, last)
             touch == FirstTouch(width, price, first, last)
  <1>1. touch = Settled(width, price, first, last).result
    BY SettledIsFirstTouch
  <1>2. ends = {} => touch = "timeout"
    BY <1>1 DEF Settled
  <1>3. ends # {} => touch = IF Stops(width, price, Min(ends)) THEN "loss" ELSE "win"
    BY <1>1 DEF Settled
  <1>4. ends \subseteq Nat
    BY DEF Ends
  <1> HIDE DEF ends, touch
  <1>5. ends # {} => Min(ends) \in ends /\ \A j \in ends : Min(ends) <= j
    BY <1>4, MinOfNaturals
  <1>6. QED
    BY <1>2, <1>3, <1>5 DEF ends, touch

\* A hold judged on coarse bars is judged no better than on the bars of the monitor.
LEMMA CoarseIsConservative ==
  ASSUME TypeOK, NEW width \in Nat \ {0}, NEW start \in Nat, NEW hold \in Nat,
         (start + hold) * width <= Len(tape), NEW price \in Int
  PROVE  LET coarse == FirstTouch(width, price, start + 1, start + hold)
             live == FirstTouch(1, price, start * width + 1, start * width + hold * width)
         IN /\ coarse = "win" => live = "win"
            /\ live = "timeout" <=> coarse = "timeout"
  <1> DEFINE first == start * width + 1
             last == start * width + hold * width
             coarse == FirstTouch(width, price, start + 1, start + hold)
             live == FirstTouch(1, price, first, last)
             bars == Ends(width, price, start + 1, start + hold)
             ticks == Ends(1, price, first, last)
             Low(k) == tape[k].low <= price - Down
             High(k) == tape[k].high >= price + Up
  <1>1. /\ first \in Nat /\ last \in Nat /\ (start + hold) * width = last
        /\ \A j \in start + 1..start + hold : \A k \in Part(width, j) : k \in first..last
        /\ \A k \in first..last : \E j \in start + 1..start + hold : k \in Part(width, j)
    BY HoldIsParts
  <1>2. start + 1 \in Nat /\ start + hold \in Nat /\ Len(tape) \in Nat
    BY Frames
  <1>3. \A j \in start + 1..start + hold :
          /\ j \in Nat \ {0}
          /\ Stops(width, price, j) <=> \E k \in Part(width, j) : Low(k)
          /\ Targets(width, price, j) <=> \E k \in Part(width, j) : High(k)
    <2>1. ASSUME NEW j \in start + 1..start + hold
          PROVE  /\ j \in Nat \ {0}
                 /\ Stops(width, price, j) <=> \E k \in Part(width, j) : Low(k)
                 /\ Targets(width, price, j) <=> \E k \in Part(width, j) : High(k)
      <3>1. j \in Nat \ {0} /\ j <= start + hold
        OBVIOUS
      <3>2. j * width <= (start + hold) * width
        BY <3>1, SMT
      <3>3. j * width <= Len(tape)
        <4> DEFINE x == j * width
                   y == (start + hold) * width
        <4>1. x \in Nat /\ y \in Nat /\ x <= y /\ y <= Len(tape)
          BY <3>1, <3>2
        <4> HIDE DEF x, y
        <4>2. x <= Len(tape)
          BY <1>2, <4>1
        <4>3. QED
          BY <4>2 DEF x
      <3>4. QED
        BY <3>1, <3>3, BarTouches
    <2>2. QED
      BY <2>1
  <1>4. \A k \in first..last : (Stops(1, price, k) <=> Low(k)) /\ (Targets(1, price, k) <=> High(k))
    <2>1. ASSUME NEW k \in first..last PROVE k \in 1..Len(tape)
      <3>1. first >= 1 /\ last <= Len(tape)
        <4>1. start * width \in Nat
          BY SMT
        <4>2. first >= 1
          BY <4>1
        <4>3. QED
          BY <1>1, <4>2
      <3> HIDE DEF first, last
      <3>2. QED
        BY <1>1, <1>2, <3>1
    <2> HIDE DEF first, last
    <2>2. QED
      BY <2>1, FineBarTouches
  <1>5. /\ live = "timeout" <=> ticks = {}
        /\ ticks # {} => live = IF Stops(1, price, Min(ticks)) THEN "loss" ELSE "win"
        /\ ticks # {} => Min(ticks) \in ticks /\ \A k \in ticks : Min(ticks) <= k
    <2> HIDE DEF first, last
    <2>1. QED
      BY <1>1, FirstTouchByEnds
  <1>6. /\ coarse = "timeout" <=> bars = {}
        /\ bars # {} => coarse = IF Stops(width, price, Min(bars)) THEN "loss" ELSE "win"
        /\ bars # {} => Min(bars) \in bars /\ \A j \in bars : Min(bars) <= j
    BY <1>2, FirstTouchByEnds
  <1>7. \A j : j \in bars <=> /\ j \in start + 1..start + hold
                              /\ \E k \in Part(width, j) : Low(k) \/ High(k)
    BY <1>3 DEF Ends
  <1>8. \A k : k \in ticks <=> k \in first..last /\ (Low(k) \/ High(k))
    BY <1>4 DEF Ends
  <1> HIDE DEF first, last, coarse, live, bars, ticks, Low, High
  <1>9. \A k \in ticks : \E j \in bars : k \in Part(width, j)
    BY <1>1, <1>7, <1>8
  <1>10. \A j \in bars : \E k \in ticks : k \in Part(width, j)
    BY <1>1, <1>7, <1>8
  <1>11. live = "timeout" <=> coarse = "timeout"
    BY <1>5, <1>6, <1>9, <1>10
  <1>12. ASSUME coarse = "win" PROVE live = "win"
    <2> DEFINE j == Min(bars)
               k == Min(ticks)
    <2>1. bars # {} /\ j \in bars /\ ~Stops(width, price, j) /\ \A i \in bars : j <= i
      BY <1>6, <1>12
    <2>2. ticks # {} /\ k \in ticks /\ \A m \in ticks : k <= m
      BY <1>5, <1>10, <2>1
    <2> HIDE DEF j, k
    <2>3. PICK m \in ticks : m \in Part(width, j)
      BY <1>10, <2>1
    <2>4. PICK i \in bars : k \in Part(width, i)
      BY <1>9, <2>2
    <2>5. i \in Nat \ {0} /\ j \in Nat \ {0} /\ k <= m /\ j <= i
      BY <1>3, <1>7, <2>1, <2>2
    <2>6. i <= j
      BY <2>3, <2>4, <2>5, PartsAreOrdered
    <2>7. i = j
      BY <2>5, <2>6
    <2>8. ~Low(k)
      BY <1>3, <1>7, <2>1, <2>4, <2>7
    <2>9. ~Stops(1, price, k)
      BY <1>4, <1>8, <2>2, <2>8
    <2>10. QED
      BY <1>5, <2>2, <2>9 DEF k
  <1>13. QED
    BY <1>11, <1>12 DEF first, last, coarse, live

\* An entry is at the close of a bar of the simulation.
LEMMA EntryBarCloses ==
  ASSUME TypeOK, NEW n \in 1..entries
  PROVE  EntryBar(n) * SimWidth = n * EntryWidth
  <1>1. n \in Nat /\ SimWidth \in Nat \ {0} /\ EntryWidth \in Nat \ {0} /\ EntryWidth % SimWidth = 0
    BY EntryIsStored, SimulationAssumption
  <1> DEFINE q == EntryWidth \div SimWidth
  <1>2. q \in Nat /\ EntryWidth = q * SimWidth
    BY <1>1
  <1> HIDE DEF q
  <1>3. n * EntryWidth = (n * q) * SimWidth /\ n * q \in Nat
    BY <1>1, <1>2, SMT
  <1>4. ((n * q) * SimWidth) \div SimWidth = n * q
    BY <1>1, <1>3, Division
  <1>5. EntryBar(n) = n * q
    BY <1>3, <1>4 DEF EntryBar
  <1>6. QED
    BY <1>3, <1>5

\* A win on the bars of the statistics is a win on the monitor's bars, and a timeout
\* there is one here (BR18, BR27), both for the tracks (simulate) and for the regime
\* (simulate_trade): the bars of an entry frame begin where bars of the simulation do.
THEOREM WinsAreRealAlways == Spec => []WinsAreReal
  <1> DEFINE Conservative(n, trade, hold) ==
                LET live == FirstTouch(1, EntryPrice(n), n * EntryWidth + 1, n * EntryWidth + hold)
                IN trade # None => /\ trade.result = "win" => live = "win"
                                   /\ live = "timeout" <=> trade.result = "timeout"
  <1>1. ASSUME TypeOK, NEW n \in 1..entries
        PROVE  Conservative(n, Simulate(n), HoldBars * SimWidth)
    <2> SUFFICES ASSUME Simulate(n) # None
                 PROVE  Conservative(n, Simulate(n), HoldBars * SimWidth)
      OBVIOUS
    <2> DEFINE start == EntryBar(n)
               price == EntryPrice(n)
    <2>1. /\ start \in Nat /\ price \in Int /\ n \in Nat /\ HoldBars \in Nat /\ sims \in Nat
          /\ SimWidth \in Nat \ {0} /\ sims * SimWidth <= Len(tape) /\ Len(tape) \in Nat
      BY <1>1, EntryIsStored, Frames
    <2>2. start + HoldBars <= sims
      BY <1>1, <2>1, SimulateIsWalk
    <2>3. Simulate(n).result = FirstTouch(SimWidth, price, start + 1, start + HoldBars)
      <3>1. start + 1 \in Nat /\ start + HoldBars \in Nat
        BY <2>1
      <3>2. Simulate(n) = Walk(SimWidth, price, start + 1, start + HoldBars)
        BY <1>1, SimulateIsWalk
      <3> HIDE DEF start
      <3>3. QED
        BY <3>1, <3>2, WalkIsSettled, SettledIsFirstTouch
    <2>4. start * SimWidth = n * EntryWidth
      BY <1>1, EntryBarCloses
    <2>5. (start + HoldBars) * SimWidth <= Len(tape)
      <3> DEFINE x == (start + HoldBars) * SimWidth
                 y == sims * SimWidth
      <3>1. x \in Nat /\ y \in Nat /\ x <= y /\ y <= Len(tape)
        <4> HIDE DEF start
        <4>1. (start + HoldBars) * SimWidth <= sims * SimWidth
          BY <2>1, <2>2, SMT
        <4>2. QED
          BY <2>1, <4>1
      <3> HIDE DEF x, y
      <3>2. x <= Len(tape)
        BY <2>1, <3>1
      <3>3. QED
        BY <3>2 DEF x
    <2> HIDE DEF start, price
    <2>6. LET coarse == FirstTouch(SimWidth, price, start + 1, start + HoldBars)
              live == FirstTouch(1, price, start * SimWidth + 1, start * SimWidth + HoldBars * SimWidth)
          IN /\ coarse = "win" => live = "win"
             /\ live = "timeout" <=> coarse = "timeout"
      BY <1>1, <2>1, <2>5, CoarseIsConservative
    <2>7. QED
      BY <2>3, <2>4, <2>6 DEF price
  <1>2. ASSUME TypeOK, NEW n \in 1..entries
        PROVE  Conservative(n, SimulateTrade(n), Forward * EntryWidth)
    <2> SUFFICES ASSUME SimulateTrade(n) # None
                 PROVE  Conservative(n, SimulateTrade(n), Forward * EntryWidth)
      OBVIOUS
    <2> DEFINE price == EntryPrice(n)
    <2>1. /\ price \in Int /\ n \in Nat /\ Forward \in Nat /\ entries \in Nat
          /\ EntryWidth \in Nat \ {0} /\ entries * EntryWidth <= Len(tape) /\ Len(tape) \in Nat
      BY <1>2, EntryIsStored, Frames
    <2>2. n + Forward <= entries
      BY <1>2, <2>1, SimulateTradeIsWalk
    <2>3. SimulateTrade(n).result = FirstTouch(EntryWidth, price, n + 1, n + Forward)
      <3>1. n + 1 \in Nat /\ n + Forward \in Nat
        BY <2>1
      <3>2. SimulateTrade(n) = Walk(EntryWidth, price, n + 1, n + Forward)
        BY <1>2, <2>2, SimulateTradeIsWalk
      <3>3. QED
        BY <3>1, <3>2, WalkIsSettled, SettledIsFirstTouch
    <2>4. (n + Forward) * EntryWidth <= Len(tape)
      <3> DEFINE x == (n + Forward) * EntryWidth
                 y == entries * EntryWidth
      <3>1. x \in Nat /\ y \in Nat /\ x <= y /\ y <= Len(tape)
        <4>1. (n + Forward) * EntryWidth <= entries * EntryWidth
          BY <2>1, <2>2, SMT
        <4>2. QED
          BY <2>1, <4>1
      <3> HIDE DEF x, y
      <3>2. x <= Len(tape)
        BY <2>1, <3>1
      <3>3. QED
        BY <3>2 DEF x
    <2> HIDE DEF price
    <2>5. LET coarse == FirstTouch(EntryWidth, price, n + 1, n + Forward)
              live == FirstTouch(1, price, n * EntryWidth + 1, n * EntryWidth + Forward * EntryWidth)
          IN /\ coarse = "win" => live = "win"
             /\ live = "timeout" <=> coarse = "timeout"
      BY <1>2, <2>1, <2>4, CoarseIsConservative
    <2>6. QED
      BY <2>3, <2>5 DEF price
  <1>3. TypeOK => WinsAreReal
    BY <1>1, <1>2 DEF WinsAreReal
  <1>4. QED
    BY <1>3, TypeCorrect, PTL

-----------------------------------------------------------------------------
(* The trades of a track *)

\* The loop over the first e bars, given the signals S, the verdicts J and where a
\* trade lets the next one in, X; and the trades that it counts.
IsLoop(f, e, S, J, X) ==
    f = [n \in 0..e |->
           IF n = 0 THEN 0
           ELSE IF n \in S /\ n * EntryWidth >= f[n - 1] /\ J[n] # None THEN X[n] ELSE f[n - 1]]
CountedBy(f, e, S, J) ==
    [n \in {x \in S \cap 1..e : x * EntryWidth >= f[x - 1] /\ J[x] # None} |-> J[n]]

\* The loop is defined for all signals and verdicts.
LEMMA LoopExists ==
  ASSUME NEW e \in Nat, NEW S, NEW J, NEW X
  PROVE  \E f : IsLoop(f, e, S, J, X)
  <1> DEFINE bad == {k \in Nat : ~\E f : IsLoop(f, k, S, J, X)}
             Passes(f, n) == n \in S /\ n * EntryWidth >= f[n - 1] /\ J[n] # None
  <1>1. SUFFICES ASSUME e \in bad PROVE FALSE
    OBVIOUS
  <1>2. PICK x \in bad : \A k \in bad : x <= k
    <2>1. bad \subseteq Nat /\ bad # {}
      BY <1>1
    <2> HIDE DEF bad
    <2>2. QED
      BY <2>1, FirstExists
  <1>3. x \in Nat /\ ~\E f : IsLoop(f, x, S, J, X)
    OBVIOUS
  <1>4. x # 0
    <2> DEFINE f == [n \in 0..0 |-> 0]
    <2>1. IsLoop(f, 0, S, J, X)
      <3>1. \A n \in 0..0 : n = 0
        OBVIOUS
      <3>2. QED
        BY <3>1 DEF IsLoop
    <2> HIDE DEF f
    <2>2. QED
      BY <1>3, <2>1
  <1>5. PICK f : IsLoop(f, x - 1, S, J, X)
    <2>1. x - 1 \in Nat /\ ~(x <= x - 1)
      BY <1>3, <1>4
    <2>2. x - 1 \notin bad
      BY <1>2, <2>1
    <2>3. QED
      BY <2>1, <2>2
  <1> DEFINE g == [n \in 0..x |-> IF n = x THEN IF Passes(f, x) THEN X[x] ELSE f[x - 1] ELSE f[n]]
  <1>6. \A n \in 0..x : g[n] = IF n = 0 THEN 0 ELSE IF Passes(g, n) THEN X[n] ELSE g[n - 1]
    <2>1. ASSUME NEW n \in 0..x
          PROVE  g[n] = IF n = 0 THEN 0 ELSE IF Passes(g, n) THEN X[n] ELSE g[n - 1]
      <3>1. n # 0 => g[n - 1] = f[n - 1]
        BY <1>3
      <3>2. n # 0 => (Passes(g, n) <=> Passes(f, n))
        BY <3>1
      <3>3. CASE n = x
        <4>1. g[n] = IF Passes(f, n) THEN X[n] ELSE f[n - 1]
          BY <3>3
        <4> HIDE DEF g, Passes
        <4>2. QED
          BY <1>4, <3>1, <3>2, <3>3, <4>1
      <3>4. CASE n # x
        <4>1. n \in 0..(x - 1) /\ g[n] = f[n]
          BY <1>3, <3>4
        <4>2. f[n] = IF n = 0 THEN 0 ELSE IF Passes(f, n) THEN X[n] ELSE f[n - 1]
          BY <1>5, <4>1 DEF IsLoop
        <4> HIDE DEF g, Passes
        <4>3. QED
          BY <3>1, <3>2, <4>1, <4>2
      <3>5. QED
        BY <3>3, <3>4
    <2>2. QED
      BY <2>1
  <1>7. IsLoop(g, x, S, J, X)
    BY <1>6 DEF IsLoop
  <1> HIDE DEF g
  <1>8. QED
    BY <1>3, <1>7

\* What the loop of compute_track_stats counts, given its last exits f.
Counted(f, n) == n \in TrackEntries /\ n * EntryWidth >= f[n - 1] /\ Simulate(n) # None
IsLastExit(f, last) ==
    f = [n \in 0..last |-> IF n = 0 THEN 0 ELSE IF Counted(f, n) THEN Reopens(n) ELSE f[n - 1]]
LastExit == CHOOSE f : IsLastExit(f, entries)

\* The loop has a last exit at every bar.
LEMMA LastExitExists ==
  ASSUME NEW last \in Nat
  PROVE  \E f : IsLastExit(f, last)
  <1> DEFINE J == [n \in 0..last |-> Simulate(n)]
             X == [n \in 0..last |-> Reopens(n)]
  <1>1. PICK f : IsLoop(f, last, TrackEntries, J, X)
    BY LoopExists
  <1>2. \A n \in 0..last : J[n] = Simulate(n) /\ X[n] = Reopens(n)
    OBVIOUS
  <1> HIDE DEF J, X
  <1>3. IsLastExit(f, last)
    BY <1>1, <1>2 DEF IsLoop, IsLastExit, Counted
  <1>4. QED
    BY <1>3

\* A trade ends after its entry.
LEMMA ExitFollowsEntry ==
  ASSUME TypeOK, NEW n \in 1..entries, Simulate(n) # None
  PROVE  Reopens(n) \in Int /\ Reopens(n) >= n * EntryWidth
  <1> DEFINE start == EntryBar(n)
             last == start + HoldBars
             ends == Ends(SimWidth, EntryPrice(n), start + 1, last)
  <1>1. start \in Nat /\ HoldBars \in Nat \ {0} /\ SimWidth \in Nat \ {0} /\ start + 1 \in Nat /\ last \in Nat
    <2>1. start \in Nat /\ HoldBars \in Nat \ {0} /\ SimWidth \in Nat \ {0}
      BY EntryIsStored, Frames
    <2> HIDE DEF start
    <2>2. QED
      BY <2>1
  <1>2. Simulate(n) = Settled(SimWidth, EntryPrice(n), start + 1, last)
    <2>1. Simulate(n) = Walk(SimWidth, EntryPrice(n), start + 1, last)
      BY SimulateIsWalk
    <2> HIDE DEF start, last
    <2>2. QED
      BY <1>1, <2>1, WalkIsSettled
  <1> DEFINE bar == IF ends = {} THEN last ELSE Min(ends)
  <1>3. Reopens(n) = bar * SimWidth
    BY <1>2 DEF Reopens, Settled
  <1>4. bar \in Nat /\ start <= bar
    <2>1. ends \subseteq Nat /\ \A j \in ends : start <= j
      BY <1>1 DEF Ends
    <2> HIDE DEF ends
    <2>2. ends # {} => Min(ends) \in ends
      BY <2>1, MinOfNaturals
    <2>3. ends # {} => Min(ends) \in Nat /\ start <= Min(ends)
      BY <2>1, <2>2
    <2>4. last \in Nat /\ start <= last
      BY <1>1
    <2> HIDE DEF last
    <2>5. QED
      BY <2>3, <2>4
  <1> HIDE DEF bar
  <1>5. start * SimWidth <= bar * SimWidth /\ bar * SimWidth \in Int
    <2> HIDE DEF start
    <2>1. QED
      BY <1>1, <1>4, SMT
  <1>6. QED
    BY <1>3, <1>5, EntryBarCloses

\* The last exits never go back, and each is that of a counted trade.
LEMMA LastExitGrows ==
  ASSUME TypeOK
  PROVE  \A n \in 0..entries :
           /\ LastExit[n] \in Int
           /\ LastExit[n] = 0 \/ \E a \in 1..n : Counted(LastExit, a) /\ LastExit[n] = Reopens(a)
           /\ n # 0 /\ Counted(LastExit, n) => LastExit[n] = Reopens(n)
           /\ \A m \in 0..n : LastExit[m] <= LastExit[n]
  <1> DEFINE f == LastExit
             Good(n) == /\ f[n] \in Int
                        /\ f[n] = 0 \/ \E a \in 1..n : Counted(f, a) /\ f[n] = Reopens(a)
                        /\ n # 0 /\ Counted(f, n) => f[n] = Reopens(n)
                        /\ \A m \in 0..n : f[m] <= f[n]
             bad == {n \in 0..entries : ~Good(n)}
  <1>1. entries \in Nat
    BY Frames
  <1>2. IsLastExit(f, entries)
    BY <1>1, LastExitExists DEF LastExit
  <1> HIDE DEF f
  <1>3. \A n \in 0..entries : f[n] = IF n = 0 THEN 0 ELSE IF Counted(f, n) THEN Reopens(n) ELSE f[n - 1]
    BY <1>2 DEF IsLastExit
  <1>4. SUFFICES ASSUME bad # {} PROVE FALSE
    BY DEF f
  <1>5. PICK n \in bad : \A k \in bad : n <= k
    <2>1. bad \subseteq Nat
      BY <1>1
    <2> HIDE DEF bad
    <2>2. QED
      BY <1>4, <2>1, FirstExists
  <1>6. n \in 0..entries /\ n \in Nat
    BY <1>1
  <1>7. CASE n = 0
    <2>1. f[0] = 0 /\ \A m \in 0..0 : m = 0
      BY <1>3, <1>6, <1>7
    <2>2. Good(0)
      BY <2>1
    <2>3. QED
      BY <1>7, <2>2
  <1>8. CASE n # 0
    <2>1. n - 1 \in 0..entries /\ ~(n <= n - 1) /\ n \in 1..entries
      BY <1>1, <1>6, <1>8
    <2> DEFINE before == n - 1
    <2>2. Good(before)
      <3>1. before \notin bad
        BY <1>5, <2>1
      <3> HIDE DEF Good
      <3>2. QED
        BY <2>1, <3>1
    <2>3. f[before] \in Int /\ \A m \in 0..before : f[m] <= f[before] /\ f[m] \in Int
      <3>1. \A m \in 0..before : Good(m)
        <4>1. \A m \in 0..before : m \in 0..entries /\ ~(n <= m)
          BY <1>1, <1>6, <2>1
        <4> HIDE DEF Good
        <4>2. QED
          BY <1>5, <4>1
      <3>2. QED
        BY <2>2, <3>1
    <2>4. f[n] \in Int /\ f[before] <= f[n]
      <3>1. CASE Counted(f, n)
        <4>1. f[n] = Reopens(n) /\ n * EntryWidth >= f[before] /\ Simulate(n) # None
          BY <1>3, <1>6, <1>8, <3>1 DEF Counted
        <4>2. Reopens(n) \in Int /\ Reopens(n) >= n * EntryWidth
          BY <2>1, <4>1, ExitFollowsEntry
        <4>3. n * EntryWidth \in Int
          BY <2>1, EntryIsStored
        <4> DEFINE x == n * EntryWidth
        <4> HIDE DEF x, before
        <4>4. f[n] \in Int /\ x \in Int /\ f[n] >= x /\ x >= f[before]
          BY <4>1, <4>2, <4>3 DEF x
        <4>5. QED
          BY <2>3, <4>4
      <3>2. CASE ~Counted(f, n)
        <4>1. f[n] = f[before]
          BY <1>3, <1>6, <1>8, <3>2
        <4> HIDE DEF before
        <4>2. QED
          BY <2>3, <4>1
      <3>3. QED
        BY <3>1, <3>2
    <2>5. \A m \in 0..n : f[m] <= f[n]
      <3>1. ASSUME NEW m \in 0..n PROVE f[m] <= f[n]
        <4>1. CASE m = n
          BY <2>4, <4>1
        <4>2. CASE m # n
          <5>1. m \in 0..before
            BY <1>6, <4>2
          <5> HIDE DEF before
          <5>2. f[m] \in Int /\ f[m] <= f[before]
            BY <2>3, <5>1
          <5>3. QED
            BY <2>3, <2>4, <5>2
        <4>3. QED
          BY <4>1, <4>2
      <3>2. QED
        BY <3>1
    <2>6. f[n] = 0 \/ \E a \in 1..n : Counted(f, a) /\ f[n] = Reopens(a)
      <3>1. CASE Counted(f, n)
        <4>1. f[n] = Reopens(n) /\ n \in 1..n
          BY <1>3, <1>6, <1>8, <2>1, <3>1
        <4>2. QED
          BY <3>1, <4>1
      <3>2. CASE ~Counted(f, n)
        <4>1. f[n] = f[before] /\ \A a \in 1..before : a \in 1..n
          BY <1>3, <1>6, <1>8, <3>2
        <4>2. QED
          BY <2>2, <4>1
      <3>3. QED
        BY <3>1, <3>2
    <2>7. Counted(f, n) => f[n] = Reopens(n)
      BY <1>3, <1>6, <1>8
    <2>8. Good(n)
      BY <2>4, <2>5, <2>6, <2>7
    <2>9. QED
      BY <2>8
  <1>9. QED
    BY <1>7, <1>8

\* No stretch of the history counts twice, and a signal is skipped for an open trade
\* only (compute_track_stats): for every path, any signals, any lag of the frames
\* and whatever BTC's stored bars say.
THEOREM TradesNeverOverlap == Spec => []TradesDoNotOverlap
  <1>1. ASSUME TypeOK PROVE TradesDoNotOverlap
    <2> DEFINE f == LastExit
               D == {x \in TrackEntries \cap 1..entries :
                       x * EntryWidth >= f[x - 1] /\ Simulate(x) # None}
               trades == [n \in D |-> Simulate(n)]
    <2>1. TrackTrades = trades
      BY DEF TrackTrades, Count, LastExit, IsLastExit, Counted
    <2>2. entries \in Nat
      BY <1>1, Frames
    <2>3. \A n \in 0..entries :
            /\ f[n] \in Int
            /\ f[n] = 0 \/ \E a \in 1..n : Counted(f, a) /\ f[n] = Reopens(a)
            /\ n # 0 /\ Counted(f, n) => f[n] = Reopens(n)
            /\ \A m \in 0..n : f[m] <= f[n]
      BY <1>1, LastExitGrows
    <2> HIDE DEF f
    <2>4. \A n \in D : n \in 1..entries /\ n \in TrackEntries /\ Counted(f, n) /\ trades[n].exit = Reopens(n)
      BY DEF Counted, Reopens
    <2>5. \A n \in 1..entries : n * EntryWidth \in Nat /\ n - 1 \in 0..entries
      BY <1>1, <2>2, EntryIsStored
    <2>6. \A n \in TrackEntries \cap 1..entries : Counted(f, n) => n \in D
      BY DEF Counted
    <2>7. ASSUME NEW a \in D, NEW n \in D, a < n PROVE ~(n * EntryWidth < trades[a].exit)
      <3>1. a \in 1..entries /\ n \in 1..entries /\ Counted(f, a) /\ Counted(f, n)
        BY <2>4
      <3>2. a \in 0..n - 1 /\ n - 1 \in 0..entries /\ a \in 0..entries /\ a # 0
        BY <2>2, <2>7, <3>1
      <3>3. f[a] <= f[n - 1] /\ f[a] = Reopens(a) /\ f[a] \in Int /\ f[n - 1] \in Int
        BY <2>3, <3>1, <3>2
      <3>4. n * EntryWidth >= f[n - 1]
        BY <3>1 DEF Counted
      <3>5. trades[a].exit = f[a]
        BY <2>4, <3>3
      <3> DEFINE x == n * EntryWidth
                 e == trades[a].exit
      <3>6. x \in Nat /\ x >= f[n - 1] /\ e = f[a]
        BY <2>5, <3>1, <3>4, <3>5
      <3> HIDE DEF x, e
      <3>7. ~(x < e)
        BY <3>3, <3>6
      <3>8. QED
        BY <3>7 DEF x, e
    <2>8. ASSUME NEW n \in TrackEntries \cap 1..entries, n \notin D, Simulate(n) # None
          PROVE  \E a \in D : a < n /\ n * EntryWidth < trades[a].exit
      <3>1. ~(n * EntryWidth >= f[n - 1])
        BY <2>8
      <3>2. n - 1 \in 0..entries /\ n * EntryWidth \in Nat /\ n \in 1..entries
        BY <2>5
      <3>3. f[n - 1] \in Int
        BY <2>3, <3>2
      <3> DEFINE x == n * EntryWidth
                 b == n - 1
      <3>4. x < f[b] /\ f[b] # 0
        <4>1. x \in Nat /\ f[b] \in Int /\ ~(x >= f[b])
          BY <3>1, <3>2, <3>3
        <4> HIDE DEF x, b
        <4>2. QED
          BY <4>1
      <3>5. PICK a \in 1..b : Counted(f, a) /\ f[b] = Reopens(a)
        BY <2>3, <3>2, <3>4
      <3>6. a \in 1..entries /\ a < n
        BY <2>2, <3>2
      <3>7. a \in D
        BY <2>6, <3>5, <3>6 DEF Counted
      <3>8. trades[a].exit = f[b]
        BY <2>4, <3>5, <3>7
      <3> HIDE DEF D
      <3>9. QED
        BY <3>4, <3>6, <3>7, <3>8
    <2>9. DOMAIN trades = D
      OBVIOUS
    <2> HIDE DEF D, trades
    <2>10. QED
      BY <2>1, <2>7, <2>8, <2>9 DEF TradesDoNotOverlap
  <1>2. QED
    BY <1>1, TypeCorrect, PTL

-----------------------------------------------------------------------------
(* A history that grows *)

\* A loop over more of the history counts what it has counted of the entries in V and adds
\* later trades only, if its verdicts and what it lets pass stay for the decided entries
\* in V, and if none but later entries lack a verdict or are missing in V.
LEMMA LoopContinues ==
  ASSUME NEW e \in Nat, NEW S, NEW J, NEW X, NEW f, IsLoop(f, e, S, J, X),
         NEW d \in Nat, e <= d, NEW T, NEW K, NEW Y, NEW g, IsLoop(g, d, T, K, Y),
         NEW V,
         \A n \in 1..e : n \in V => (n \in S <=> n \in T),
         \A n \in 1..e : J[n] # None => K[n] = J[n] /\ Y[n] = X[n],
         \A m, n \in 1..e : m < n /\ J[n] # None => J[m] # None,
         \A m, n \in 1..e : m < n /\ n \in V => m \in V
  PROVE  Continues(CountedBy(f, e, S, J), CountedBy(g, d, T, K), V)
  <1> DEFINE Sure(n) == J[n] # None /\ n \in V
             bad == {k \in 0..e : (k = 0 \/ Sure(k)) /\ f[k] # g[k]}
             OldPasses(n) == n \in S /\ n * EntryWidth >= f[n - 1] /\ J[n] # None
             NewPasses(n) == n \in T /\ n * EntryWidth >= g[n - 1] /\ K[n] # None
  <1>0. \A m, n \in 1..e : m < n /\ Sure(n) => Sure(m)
    <2> SUFFICES ASSUME NEW m \in 1..e, NEW n \in 1..e, m < n, J[n] # None, n \in V
                 PROVE  J[m] # None /\ m \in V
      OBVIOUS
    <2>1. J[m] # None
      OBVIOUS
    <2>2. m \in V
      OBVIOUS
    <2>3. QED
      BY <2>1, <2>2
  <1>1. \A n \in 0..e : f[n] = IF n = 0 THEN 0 ELSE IF OldPasses(n) THEN X[n] ELSE f[n - 1]
    BY DEF IsLoop
  <1>2. \A n \in 0..e : g[n] = IF n = 0 THEN 0 ELSE IF NewPasses(n) THEN Y[n] ELSE g[n - 1]
    <2>1. \A n \in 0..d : g[n] = IF n = 0 THEN 0 ELSE IF NewPasses(n) THEN Y[n] ELSE g[n - 1]
      BY DEF IsLoop
    <2>2. \A n \in 0..e : n \in 0..d
      OBVIOUS
    <2> HIDE DEF NewPasses
    <2>3. QED
      BY <2>1, <2>2
  <1>3. bad = {}
    <2> SUFFICES ASSUME bad # {} PROVE FALSE
      OBVIOUS
    <2>1. PICK k \in bad : \A i \in bad : k <= i
      <3>1. bad \subseteq Nat
        OBVIOUS
      <3> HIDE DEF bad
      <3>2. QED
        BY <3>1, FirstExists
    <2>2. k # 0 /\ k \in 1..e /\ Sure(k) /\ f[k] # g[k]
      BY <1>1, <1>2
    <2>3. k - 1 \in 0..e /\ (k - 1 = 0 \/ Sure(k - 1))
      <3>1. k - 1 \in 0..e /\ (k - 1 = 0 \/ k - 1 \in 1..e) /\ k - 1 < k
        BY <2>2
      <3> HIDE DEF Sure, bad
      <3>2. QED
        BY <1>0, <2>2, <3>1
    <2>4. f[k - 1] = g[k - 1]
      <3>1. ~(k <= k - 1)
        BY <2>2
      <3>2. k - 1 \notin bad
        BY <2>1, <3>1
      <3>3. QED
        BY <2>3, <3>2
    <2>5. K[k] = J[k] /\ Y[k] = X[k] /\ (k \in S <=> k \in T)
      BY <2>2
    <2>6. OldPasses(k) <=> NewPasses(k)
      BY <2>4, <2>5
    <2>7. k \in 0..e
      BY <2>2
    <2> HIDE DEF OldPasses, NewPasses
    <2>8. QED
      BY <1>1, <1>2, <2>2, <2>4, <2>5, <2>6, <2>7
  <1>4. \A n \in 1..e : Sure(n) => (OldPasses(n) <=> NewPasses(n)) /\ K[n] = J[n]
    <2>1. ASSUME NEW n \in 1..e, Sure(n) PROVE (OldPasses(n) <=> NewPasses(n)) /\ K[n] = J[n]
      <3>1. n - 1 \in 0..e /\ (n - 1 = 0 \/ n - 1 \in 1..e) /\ n - 1 < n
        OBVIOUS
      <3>2. n - 1 = 0 \/ Sure(n - 1)
        <4> HIDE DEF Sure
        <4>1. QED
          BY <1>0, <2>1, <3>1
      <3>3. f[n - 1] = g[n - 1]
        BY <1>3, <3>1, <3>2
      <3>4. K[n] = J[n] /\ (n \in S <=> n \in T)
        BY <2>1
      <3>5. QED
        BY <3>3, <3>4
    <2>2. QED
      BY <2>1
  <1> DEFINE old == CountedBy(f, e, S, J)
             new == CountedBy(g, d, T, K)
  <1>5. DOMAIN old = {n \in 1..e : OldPasses(n)} /\ DOMAIN new = {n \in 1..d : NewPasses(n)}
    BY DEF CountedBy
  <1>6. (\A n \in DOMAIN old : old[n] = J[n]) /\ (\A n \in DOMAIN new : new[n] = K[n])
    BY DEF CountedBy
  <1>7. \A n \in 1..e : OldPasses(n) => J[n] # None
    OBVIOUS
  <1> HIDE DEF old, new, OldPasses, NewPasses, bad
  <1>8. ASSUME NEW a \in DOMAIN old \cap V PROVE a \in DOMAIN new /\ new[a] = old[a]
    <2>1. a \in 1..e /\ a \in 1..d /\ OldPasses(a) /\ a \in V
      BY <1>5
    <2>2. NewPasses(a) /\ K[a] = J[a]
      BY <1>4, <1>7, <2>1
    <2>3. QED
      BY <1>5, <1>6, <2>1, <2>2
  <1>9. ASSUME NEW n \in DOMAIN new \ DOMAIN old, NEW a \in DOMAIN old \cap V, ~(a < n)
        PROVE  FALSE
    <2>1. a \in 1..e /\ n \in 1..d /\ a \in V /\ OldPasses(a) /\ NewPasses(n)
      BY <1>5, <1>9
    <2>2. n \in 1..e /\ (n < a \/ n = a)
      BY <1>9, <2>1
    <2>3. ~OldPasses(n)
      BY <1>5, <1>9, <2>2
    <2>4. J[a] # None
      BY <1>7, <2>1
    <2>5. Sure(n)
      <3>1. Sure(a)
        BY <2>1, <2>4
      <3>2. n = a \/ n < a
        BY <2>2
      <3> HIDE DEF Sure
      <3>3. QED
        BY <1>0, <2>1, <2>2, <3>1, <3>2
    <2>6. QED
      BY <1>4, <2>1, <2>2, <2>3, <2>5
  <1>10. QED
    BY <1>8, <1>9 DEF Continues, old, new

\* What is known at any moment of the trades that both loops judge.
Verdicts == [n \in 1..entries |-> Simulate(n)]
Exits == [n \in 1..entries |-> Reopens(n)]
SignalVerdicts == [n \in 1..entries |-> SimulateTrade(n)]
SignalExits == [n \in 1..entries |-> ReopensAfterWindow(n)]
Held(n) == Settled(SimWidth, EntryPrice(n), EntryBar(n) + 1, EntryBar(n) + HoldBars)
SignalHeld(n) == Settled(EntryWidth, EntryPrice(n), n + 1, n + Forward)
Known ==
    /\ \E f : /\ IsLoop(f, entries, TrackEntries, Verdicts, Exits)
              /\ TrackTrades = CountedBy(f, entries, TrackEntries, Verdicts)
    /\ \E f : /\ IsLoop(f, entries, RegimeEntries, SignalVerdicts, SignalExits)
              /\ SignalTrades = CountedBy(f, entries, RegimeEntries, SignalVerdicts)
    /\ \A n \in 1..entries :
         /\ Verdicts[n] = None <=> EntryBar(n) = 0 \/ EntryBar(n) + HoldBars > sims
         /\ Verdicts[n] # None => Verdicts[n] = Held(n) /\ Exits[n] = Held(n).exit
         /\ SignalVerdicts[n] = None <=> n + Forward > entries
         /\ SignalVerdicts[n] # None => SignalVerdicts[n] = SignalHeld(n)
         /\ SignalExits[n] = (n + Forward + 1) * EntryWidth

\* It holds whenever the types do.
LEMMA TradesAreKnown == TypeOK => Known
  <1> SUFFICES ASSUME TypeOK PROVE Known
    OBVIOUS
  <1>1. entries \in Nat
    BY Frames
  <1>2. \E f : /\ IsLoop(f, entries, TrackEntries, Verdicts, Exits)
               /\ TrackTrades = CountedBy(f, entries, TrackEntries, Verdicts)
    <2> DEFINE D == {x \in TrackEntries \cap 1..entries : x * EntryWidth >= LastExit[x - 1] /\ Simulate(x) # None}
    <2>1. IsLastExit(LastExit, entries)
      BY <1>1, LastExitExists DEF LastExit
    <2>2. \A n \in 0..entries : n # 0 => Verdicts[n] = Simulate(n) /\ Exits[n] = Reopens(n)
      BY <1>1 DEF Verdicts, Exits
    <2>3. IsLoop(LastExit, entries, TrackEntries, Verdicts, Exits)
      BY <2>1, <2>2 DEF IsLoop, IsLastExit, Counted
    <2>4. TrackTrades = [n \in D |-> Simulate(n)]
      BY DEF TrackTrades, Count, LastExit, IsLastExit, Counted
    <2>5. CountedBy(LastExit, entries, TrackEntries, Verdicts) = [n \in D |-> Simulate(n)]
      <3>1. \A n \in 1..entries : Verdicts[n] = Simulate(n)
        BY DEF Verdicts
      <3>2. D = {x \in TrackEntries \cap 1..entries : x * EntryWidth >= LastExit[x - 1] /\ Verdicts[x] # None}
        BY <3>1
      <3>3. \A n \in D : Verdicts[n] = Simulate(n)
        BY <3>1
      <3> HIDE DEF D
      <3>4. QED
        BY <3>2, <3>3 DEF CountedBy
    <2>6. QED
      BY <2>3, <2>4, <2>5
  <1>3. \E f : /\ IsLoop(f, entries, RegimeEntries, SignalVerdicts, SignalExits)
               /\ SignalTrades = CountedBy(f, entries, RegimeEntries, SignalVerdicts)
    <2> DEFINE IsExit(f) == f = [n \in 0..entries |->
                 IF n = 0 THEN 0
                 ELSE IF n \in RegimeEntries /\ n * EntryWidth >= f[n - 1] /\ SimulateTrade(n) # None
                      THEN ReopensAfterWindow(n) ELSE f[n - 1]]
               exit == CHOOSE f : IsExit(f)
               D == {x \in RegimeEntries \cap 1..entries : x * EntryWidth >= exit[x - 1] /\ SimulateTrade(x) # None}
    <2>1. \A n \in 0..entries : n # 0 => SignalVerdicts[n] = SimulateTrade(n)
                                      /\ SignalExits[n] = ReopensAfterWindow(n)
      BY <1>1 DEF SignalVerdicts, SignalExits
    <2>2. \A f : IsLoop(f, entries, RegimeEntries, SignalVerdicts, SignalExits) <=> IsExit(f)
      BY <2>1 DEF IsLoop
    <2>3. IsExit(exit)
      <3>1. \E f : IsExit(f)
        BY <1>1, <2>2, LoopExists
      <3> HIDE DEF IsExit
      <3>2. QED
        BY <3>1
    <2>4. SignalTrades = [n \in D |-> SimulateTrade(n)]
      BY DEF SignalTrades, Count
    <2> HIDE DEF exit
    <2>5. CountedBy(exit, entries, RegimeEntries, SignalVerdicts) = [n \in D |-> SimulateTrade(n)]
      <3>1. \A n \in 1..entries : SignalVerdicts[n] = SimulateTrade(n)
        BY DEF SignalVerdicts
      <3>2. D = {x \in RegimeEntries \cap 1..entries : x * EntryWidth >= exit[x - 1] /\ SignalVerdicts[x] # None}
        BY <3>1
      <3>3. \A n \in D : SignalVerdicts[n] = SimulateTrade(n)
        BY <3>1
      <3> HIDE DEF D
      <3>4. QED
        BY <3>2, <3>3 DEF CountedBy
    <2> HIDE DEF IsExit
    <2>6. QED
      BY <2>2, <2>3, <2>4, <2>5
  <1>4. ASSUME NEW n \in 1..entries
        PROVE  /\ Verdicts[n] = None <=> EntryBar(n) = 0 \/ EntryBar(n) + HoldBars > sims
               /\ Verdicts[n] # None => Verdicts[n] = Held(n) /\ Exits[n] = Held(n).exit
               /\ SignalVerdicts[n] = None <=> n + Forward > entries
               /\ SignalVerdicts[n] # None => SignalVerdicts[n] = SignalHeld(n)
               /\ SignalExits[n] = (n + Forward + 1) * EntryWidth
    <2>1. /\ Verdicts[n] = Simulate(n) /\ Exits[n] = Simulate(n).exit
          /\ SignalVerdicts[n] = SimulateTrade(n) /\ SignalExits[n] = (n + Forward + 1) * EntryWidth
      BY DEF Verdicts, Exits, SignalVerdicts, SignalExits, Reopens, ReopensAfterWindow
    <2>2. /\ EntryBar(n) \in Nat /\ EntryBar(n) + 1 \in Nat /\ EntryBar(n) + HoldBars \in Nat
          /\ n + 1 \in Nat /\ n + Forward \in Nat /\ (n + Forward > entries \/ n + Forward <= entries)
      <3>1. EntryBar(n) \in Nat /\ n \in Nat
        BY EntryIsStored
      <3>2. HoldBars \in Nat /\ Forward \in Nat /\ entries \in Nat
        BY Frames
      <3>3. QED
        BY <3>1, <3>2
    <2>3. Simulate(n) = None <=> EntryBar(n) = 0 \/ EntryBar(n) + HoldBars > sims
      BY SimulateIsWalk, OutcomeAssumption
    <2>4. Simulate(n) # None => Simulate(n) = Held(n)
      BY <2>2, SimulateIsWalk, WalkIsSettled DEF Held
    <2>5. SimulateTrade(n) = None <=> n + Forward > entries
      BY <2>2, SimulateTradeIsWalk, OutcomeAssumption
    <2>6. SimulateTrade(n) # None => SimulateTrade(n) = SignalHeld(n)
      BY <2>2, SimulateTradeIsWalk, WalkIsSettled DEF SignalHeld
    <2>7. QED
      BY <2>1, <2>3, <2>4, <2>5, <2>6
  <1>5. QED
    BY <1>2, <1>3, <1>4 DEF Known

\* A step only adds to the history.
LEMMA HistoryGrows ==
  ASSUME TypeOK, [Next]_vars
  PROVE  /\ entries \in Nat /\ entries' \in Nat /\ entries <= entries'
         /\ sims \in Nat /\ sims' \in Nat /\ sims <= sims'
         /\ gated \in Nat /\ gated' \in Nat /\ gated <= gated'
         /\ \A k \in 1..Len(tape) : tape'[k] = tape[k]
         /\ \A n \in 1..entries : n \in signals <=> n \in signals'
         /\ \A k \in 0..gated : k \in open <=> k \in open'
  <1>n. /\ entries \in Nat /\ sims \in Nat /\ gated \in Nat /\ GateWidth \in Nat \ {0}
        /\ tape \in Seq(Quotes) /\ Len(tape) \in Nat
        /\ EntryWidth \in Nat \ {0} /\ SimWidth \in Nat \ {0}
    <2>1. gated \in Nat
      BY DEF TypeOK
    <2>2. QED
      BY <2>1, Frames
  <1>t. entries' \in Nat /\ sims' \in Nat /\ gated' \in Nat
    BY TypeStep DEF TypeOK
  <1>1. CASE Close
    <2>1. PICK q \in Quotes : tape' = Append(tape, q)
      BY <1>1 DEF Close
    <2>2. UNCHANGED <<signals, entries, sims, open, gated>>
      BY <1>1 DEF Close
    <2>3. \A k \in 1..Len(tape) : tape'[k] = tape[k]
      BY <1>n, <2>1
    <2>4. QED
      BY <1>n, <2>2, <2>3
  <1>2. CASE CollectEntries
    <2>1. entries < entries' /\ UNCHANGED <<tape, sims, open, gated>>
      BY <1>n, <1>t, <1>2 DEF CollectEntries
    <2>2. PICK fired \in SUBSET (entries + 1 .. entries') : signals' = signals \cup fired
      BY <1>2 DEF CollectEntries
    <2>3. \A n \in 1..entries : n \notin fired
      BY <1>n, <1>t
    <2>4. \A n \in 1..entries : n \in signals <=> n \in signals'
      BY <2>2, <2>3
    <2>5. QED
      BY <1>n, <1>t, <2>1, <2>4
  <1>3. CASE CollectSims
    <2>1. sims < sims' /\ UNCHANGED <<tape, signals, entries, open, gated>>
      BY <1>n, <1>t, <1>3 DEF CollectSims
    <2>2. QED
      BY <1>n, <1>t, <2>1
  <1>4. CASE CollectGate
    <2>1. gated < gated' /\ UNCHANGED <<tape, signals, entries, sims>>
      BY <1>n, <1>t, <1>4 DEF CollectGate
    <2>2. PICK above \in SUBSET (gated + 1 .. gated') : open' = open \cup above
      BY <1>4 DEF CollectGate
    <2>3. \A k \in 0..gated : k \notin above
      BY <1>n, <1>t
    <2>4. \A k \in 0..gated : k \in open <=> k \in open'
      BY <2>2, <2>3
    <2>5. QED
      BY <1>n, <1>t, <2>1, <2>4
  <1>5. CASE UNCHANGED vars
    BY <1>n, <1>5 DEF vars
  <1>6. QED
    BY <1>1, <1>2, <1>3, <1>4, <1>5 DEF Next

\* BTC's bars are numbered.
LEMMA GateBarIsNumber ==
  ASSUME NEW moment \in Nat
  PROVE  GateBar(moment) \in Nat
  <1>1. GateWidth \in Nat \ {0}
    BY SimulationAssumption
  <1>2. moment \div GateWidth \in Nat
    BY <1>1, Division
  <1>3. QED
    BY <1>2 DEF GateBar

\* What the loops ask of BTC's stored bars stays.
LEMMA GateStays ==
  ASSUME TypeOK, [Next]_vars, NEW moment \in Nat, GateBar(moment) <= gated
  PROVE  GateOpen(moment) <=> GateOpen(moment)'
  <1> DEFINE b == GateBar(moment)
  <1>1. b \in Nat
    BY GateBarIsNumber
  <1>2. gated \in Nat /\ gated' \in Nat /\ gated <= gated' /\ \A k \in 0..gated : k \in open <=> k \in open'
    BY HistoryGrows
  <1>3. GateOpen(moment) <=> Min({gated, b}) \in open
    BY DEF GateOpen
  <1>4. GateOpen(moment)' <=> Min({gated', b}) \in open'
    BY DEF GateOpen, GateBar
  <1> HIDE DEF b
  <1>5. Min({gated, b}) = b /\ Min({gated', b}) = b
    <2>1. b <= gated /\ b <= gated'
      BY <1>1, <1>2 DEF b
    <2>2. QED
      BY <1>1, <1>2, <2>1, MinOfTwo
  <1>6. QED
    BY <1>1, <1>2, <1>3, <1>4, <1>5 DEF b

\* Entries for which BTC's bar is stored come before those for which it is not.
LEMMA GatesAreOrdered ==
  ASSUME TypeOK, NEW a \in Nat, NEW b \in Nat, a <= b
  PROVE  GateBar(a) <= GateBar(b)
  <1>1. GateWidth \in Nat \ {0}
    BY Frames
  <1> DEFINE c == a \div GateWidth
             d == b \div GateWidth
  <1>2. c \in Nat /\ d \in Nat /\ c * GateWidth <= a
    BY <1>1, Division
  <1>3. c <= d
    <2> HIDE DEF c, d
    <2> DEFINE e == c * GateWidth
    <2>1. e \in Nat /\ e <= a
      BY <1>1, <1>2
    <2> HIDE DEF e
    <2>2. e <= b
      BY <2>1
    <2>3. QED
      BY <1>1, <1>2, <2>2, Division DEF d, e
  <1> HIDE DEF c, d
  <1>4. c + 1 <= d + 1
    BY <1>2, <1>3
  <1>5. QED
    BY <1>4 DEF GateBar, c, d

\* Both loops let the same entries pass as before, as far as BTC's bars are stored.
LEMMA EntriesStay ==
  ASSUME TypeOK, [Next]_vars, NEW n \in 1..entries
  PROVE  /\ n \in TrackCertain => (n \in TrackEntries <=> n \in TrackEntries')
         /\ n \in RegimeCertain => (n \in RegimeEntries <=> n \in RegimeEntries')
  <1>1. n \in Nat /\ n * EntryWidth \in Nat /\ (n - 1) * EntryWidth \in Nat
    <2>1. n \in Nat \ {0} /\ EntryWidth \in Nat
      BY Frames, EntryIsStored
    <2>2. n - 1 \in Nat
      BY <2>1
    <2>3. QED
      BY <2>1, <2>2
  <1>2. n \in signals <=> n \in signals'
    BY HistoryGrows
  <1>3. ASSUME n \in TrackCertain PROVE n \in TrackEntries <=> n \in TrackEntries'
    <2>1. GateOpen(n * EntryWidth) <=> GateOpen(n * EntryWidth)'
      BY <1>1, <1>3, GateStays DEF TrackCertain
    <2>2. n \in TrackEntries <=> n \in signals /\ GateOpen(n * EntryWidth)
      BY DEF TrackEntries
    <2>3. n \in TrackEntries' <=> n \in signals' /\ GateOpen(n * EntryWidth)'
      BY DEF TrackEntries
    <2>4. QED
      BY <1>2, <2>1, <2>2, <2>3
  <1>4. ASSUME n \in RegimeCertain PROVE n \in RegimeEntries <=> n \in RegimeEntries'
    <2>1. GateOpen((n - 1) * EntryWidth) <=> GateOpen((n - 1) * EntryWidth)'
      BY <1>1, <1>4, GateStays DEF RegimeCertain
    <2>2. n \in RegimeEntries <=> n \in signals /\ GateOpen((n - 1) * EntryWidth)
      BY DEF RegimeEntries
    <2>3. n \in RegimeEntries' <=> n \in signals' /\ GateOpen((n - 1) * EntryWidth)'
      BY DEF RegimeEntries
    <2>4. QED
      BY <1>2, <2>1, <2>2, <2>3
  <1>5. QED
    BY <1>3, <1>4

\* An entry comes before those for which BTC's bar is missing.
LEMMA CertainIsPrefix ==
  ASSUME TypeOK, NEW m \in 1..entries, NEW n \in 1..entries, m < n
  PROVE  /\ n \in TrackCertain => m \in TrackCertain
         /\ n \in RegimeCertain => m \in RegimeCertain
  <1>1. m \in Nat \ {0} /\ n \in Nat \ {0} /\ EntryWidth \in Nat \ {0} /\ gated \in Nat
    <2>1. gated \in Nat /\ entries \in Nat
      BY DEF TypeOK
    <2>2. m \in Nat \ {0} /\ n \in Nat \ {0}
      BY <2>1
    <2>3. EntryWidth \in Nat \ {0}
      BY Frames
    <2>4. QED
      BY <2>1, <2>2, <2>3
  <1>2. ASSUME NEW a \in Nat, NEW b \in Nat, a <= b, GateBar(b) <= gated PROVE GateBar(a) <= gated
    <2>1. GateBar(a) <= GateBar(b)
      BY <1>2, GatesAreOrdered
    <2>2. GateBar(a) \in Nat /\ GateBar(b) \in Nat
      BY <1>2, GateBarIsNumber
    <2>3. QED
      BY <1>1, <1>2, <2>1, <2>2
  <1>3. m * EntryWidth \in Nat /\ n * EntryWidth \in Nat /\ m * EntryWidth <= n * EntryWidth
    BY <1>1, SMT
  <1>4. /\ (m - 1) * EntryWidth \in Nat /\ (n - 1) * EntryWidth \in Nat
        /\ (m - 1) * EntryWidth <= (n - 1) * EntryWidth
    <2>1. m - 1 \in Nat /\ n - 1 \in Nat /\ m - 1 <= n - 1
      BY <1>1
    <2> DEFINE x == m - 1
               y == n - 1
    <2> HIDE DEF x, y
    <2>2. x \in Nat /\ y \in Nat /\ x <= y
      BY <2>1 DEF x, y
    <2>3. x * EntryWidth \in Nat /\ y * EntryWidth \in Nat /\ x * EntryWidth <= y * EntryWidth
      BY <1>1, <2>2, SMT
    <2>4. QED
      BY <2>3 DEF x, y
  <1>5. QED
    BY <1>2, <1>3, <1>4 DEF TrackCertain, RegimeCertain

\* What has been formed of bars that have closed stays.
LEMMA BarStays ==
  ASSUME TypeOK, [Next]_vars, NEW width \in Nat \ {0}, NEW j \in Nat \ {0}, j * width <= Len(tape)
  PROVE  Bar(width, j)' = Bar(width, j)
  <1>1. \A k \in Part(width, j) : tape'[k] = tape[k]
    BY PartIsStored, HistoryGrows
  <1>2. j * width \in 1..Len(tape)
    BY CloseIsPrice
  <1>3. tape'[j * width].close = tape[j * width].close
    BY <1>2, HistoryGrows
  <1>4. {tape'[k].low : k \in Part(width, j)} = {tape[k].low : k \in Part(width, j)}
    BY <1>1
  <1>5. {tape'[k].high : k \in Part(width, j)} = {tape[k].high : k \in Part(width, j)}
    BY <1>1
  <1>6. QED
    BY <1>3, <1>4, <1>5 DEF Bar, Part

\* And so does the outcome of a stored hold.
LEMMA SettledStays ==
  ASSUME TypeOK, [Next]_vars, NEW n \in 1..entries, NEW width \in Nat \ {0},
         NEW first \in Nat \ {0}, NEW last \in Nat \ {0}, last * width <= Len(tape)
  PROVE  Settled(width, EntryPrice(n), first, last)' = Settled(width, EntryPrice(n), first, last)
  <1>1. EntryPrice(n)' = EntryPrice(n)
    <2>1. n * EntryWidth \in 1..Len(tape)
      BY EntryIsStored
    <2>2. QED
      BY <2>1, HistoryGrows DEF EntryPrice
  <1>2. \A j \in Nat \ {0} : j <= last => Bar(width, j)' = Bar(width, j)
    <2>1. ASSUME NEW j \in Nat \ {0}, j <= last PROVE Bar(width, j)' = Bar(width, j)
      <3>1. j * width <= last * width
        BY <2>1, SMT
      <3>2. j * width <= Len(tape)
        <4> DEFINE x == j * width
                   y == last * width
        <4>1. x \in Nat /\ y \in Nat /\ Len(tape) \in Nat /\ x <= y /\ y <= Len(tape)
          BY <3>1, Frames
        <4> HIDE DEF x, y
        <4>2. x <= Len(tape)
          BY <4>1
        <4>3. QED
          BY <4>2 DEF x
      <3>3. QED
        BY <3>2, BarStays
    <2>2. QED
      BY <2>1
  <1>3. \A j \in first..last : Bar(width, j)' = Bar(width, j)
    BY <1>2
  <1>4. Bar(width, last)' = Bar(width, last)
    BY <1>2
  <1> DEFINE ends == Ends(width, EntryPrice(n), first, last)
  <1>5. ends' = ends
    BY <1>1, <1>3 DEF Ends, Stops, Targets
  <1>6. ends # {} => Min(ends) \in first..last
    <2>1. ends \subseteq Nat /\ ends \subseteq first..last
      BY DEF Ends
    <2> HIDE DEF ends
    <2>2. QED
      BY <2>1, MinOfNaturals
  <1> HIDE DEF ends
  <1>7. ends # {} => Stops(width, EntryPrice(n), Min(ends))' = Stops(width, EntryPrice(n), Min(ends))
    BY <1>1, <1>3, <1>5, <1>6 DEF Stops
  <1>8. QED
    BY <1>1, <1>4, <1>5, <1>7 DEF Settled, ends

\* Holds end in the order of their entries.
LEMMA HoldsAreOrdered ==
  ASSUME TypeOK, NEW m \in 1..entries, NEW n \in 1..entries, m < n
  PROVE  EntryBar(m) # 0 /\ EntryBar(m) <= EntryBar(n)
  <1>1. m \in Nat /\ n \in Nat /\ EntryBar(m) \in Nat /\ EntryBar(n) \in Nat
    BY EntryIsStored
  <1>2. EntryBar(m) * SimWidth = m * EntryWidth /\ EntryBar(n) * SimWidth = n * EntryWidth
    BY EntryBarCloses
  <1>3. SimWidth \in Nat \ {0} /\ EntryWidth \in Nat \ {0} /\ m * EntryWidth \in 1..Len(tape)
    BY EntryIsStored, Frames
  <1>4. m * EntryWidth <= n * EntryWidth
    BY <1>1, <1>3, SMT
  <1> DEFINE a == EntryBar(m)
             b == EntryBar(n)
  <1>5. a \in Nat /\ b \in Nat /\ a * SimWidth <= b * SimWidth /\ a * SimWidth # 0
    BY <1>1, <1>2, <1>3, <1>4
  <1> HIDE DEF a, b
  <1>6. a # 0 /\ a <= b
    <2>1. a # 0
      BY <1>3, <1>5
    <2>2. a <= b
      BY <1>3, <1>5, SMT
    <2>3. QED
      BY <2>1, <2>2
  <1>7. QED
    BY <1>6 DEF a, b

\* A trade of a track that is decided stays as it is.
LEMMA VerdictsStay ==
  ASSUME TypeOK, [Next]_vars, Known, Known', NEW n \in 1..entries
  PROVE  /\ Verdicts[n] # None => Verdicts[n]' = Verdicts[n] /\ Exits[n]' = Exits[n]
         /\ SignalVerdicts[n] # None => SignalVerdicts[n]' = SignalVerdicts[n]
         /\ SignalExits[n]' = SignalExits[n]
  <1>1. /\ entries \in Nat /\ entries' \in Nat /\ entries <= entries'
        /\ sims \in Nat /\ sims' \in Nat /\ sims <= sims' /\ n \in 1..entries'
    BY HistoryGrows
  <1>2. EntryBar(n) \in Nat /\ n \in Nat /\ HoldBars \in Nat \ {0} /\ Forward \in Nat \ {0}
        /\ SimWidth \in Nat \ {0} /\ EntryWidth \in Nat \ {0}
    BY EntryIsStored, Frames
  <1>3. EntryBar(n)' = EntryBar(n)
    BY DEF EntryBar
  <1>4. /\ Verdicts[n] = None <=> EntryBar(n) = 0 \/ EntryBar(n) + HoldBars > sims
        /\ Verdicts[n] # None => Verdicts[n] = Held(n) /\ Exits[n] = Held(n).exit
        /\ SignalVerdicts[n] = None <=> n + Forward > entries
        /\ SignalVerdicts[n] # None => SignalVerdicts[n] = SignalHeld(n)
        /\ SignalExits[n] = (n + Forward + 1) * EntryWidth
    BY DEF Known
  <1>5. /\ Verdicts[n]' = None <=> EntryBar(n) = 0 \/ EntryBar(n) + HoldBars > sims'
        /\ Verdicts[n]' # None => Verdicts[n]' = Held(n)' /\ Exits[n]' = Held(n)'.exit
        /\ SignalVerdicts[n]' = None <=> n + Forward > entries'
        /\ SignalVerdicts[n]' # None => SignalVerdicts[n]' = SignalHeld(n)'
        /\ SignalExits[n]' = (n + Forward + 1) * EntryWidth
    BY <1>1, <1>3 DEF Known
  <1>6. ASSUME Verdicts[n] # None PROVE Verdicts[n]' = Verdicts[n] /\ Exits[n]' = Exits[n]
    <2>1. EntryBar(n) # 0 /\ EntryBar(n) + HoldBars <= sims
      BY <1>1, <1>2, <1>4, <1>6
    <2>2. Held(n)' = Held(n)
      <3> DEFINE first == EntryBar(n) + 1
                 last == EntryBar(n) + HoldBars
      <3>1. first \in Nat \ {0} /\ last \in Nat \ {0} /\ last <= sims
        BY <1>2, <2>1
      <3>2. last * SimWidth <= Len(tape)
        <4> HIDE DEF last
        <4>1. last * SimWidth <= sims * SimWidth
          BY <1>1, <1>2, <3>1, SMT
        <4> DEFINE x == last * SimWidth
                   y == sims * SimWidth
        <4>2. x \in Nat /\ y \in Nat /\ Len(tape) \in Nat /\ x <= y /\ y <= Len(tape)
          BY <1>1, <1>2, <3>1, <4>1, Frames
        <4> HIDE DEF x, y
        <4>3. x <= Len(tape)
          BY <4>2
        <4>4. QED
          BY <4>3 DEF x
      <3> HIDE DEF first, last
      <3>3. Settled(SimWidth, EntryPrice(n), first, last)' = Settled(SimWidth, EntryPrice(n), first, last)
        BY <1>2, <3>1, <3>2, SettledStays
      <3>4. QED
        BY <1>3, <3>3 DEF Held, first, last
    <2>3. Verdicts[n]' # None
      BY <1>1, <1>2, <1>5, <2>1
    <2>4. QED
      BY <1>4, <1>5, <1>6, <2>2, <2>3
  <1>7. ASSUME SignalVerdicts[n] # None PROVE SignalVerdicts[n]' = SignalVerdicts[n]
    <2> DEFINE last == n + Forward
    <2>1. last <= entries /\ last \in Nat \ {0} /\ n + 1 \in Nat \ {0}
      BY <1>1, <1>2, <1>4, <1>7
    <2>2. SignalHeld(n)' = SignalHeld(n)
      <3>1. last * EntryWidth <= Len(tape)
        <4> HIDE DEF last
        <4>1. last * EntryWidth <= entries * EntryWidth
          BY <1>1, <1>2, <2>1, SMT
        <4> DEFINE x == last * EntryWidth
                   y == entries * EntryWidth
        <4>2. x \in Nat /\ y \in Nat /\ Len(tape) \in Nat /\ x <= y /\ y <= Len(tape)
          BY <1>1, <1>2, <2>1, <4>1, Frames
        <4> HIDE DEF x, y
        <4>3. x <= Len(tape)
          BY <4>2
        <4>4. QED
          BY <4>3 DEF x
      <3>2. Settled(EntryWidth, EntryPrice(n), n + 1, last)' = Settled(EntryWidth, EntryPrice(n), n + 1, last)
        <4> HIDE DEF last
        <4>1. QED
          BY <1>2, <2>1, <3>1, SettledStays
      <3>3. QED
        BY <3>2 DEF SignalHeld
    <2>3. SignalVerdicts[n]' # None
      BY <1>1, <1>2, <1>5, <2>1
    <2>4. QED
      BY <1>4, <1>5, <1>7, <2>2, <2>3
  <1>8. QED
    BY <1>4, <1>5, <1>6, <1>7

\* Verdicts come in the order of the entries.
LEMMA VerdictsAreOrdered ==
  ASSUME TypeOK, Known, NEW m \in 1..entries, NEW n \in 1..entries, m < n
  PROVE  /\ Verdicts[n] # None => Verdicts[m] # None
         /\ SignalVerdicts[n] # None => SignalVerdicts[m] # None
  <1>1. EntryBar(m) # 0 /\ EntryBar(m) <= EntryBar(n)
    BY HoldsAreOrdered
  <1>2. EntryBar(m) \in Nat /\ EntryBar(n) \in Nat /\ m \in Nat /\ n \in Nat
    BY EntryIsStored
  <1>3. HoldBars \in Nat /\ Forward \in Nat /\ sims \in Nat /\ entries \in Nat
    BY Frames
  <1>4. \A i \in {m, n} : /\ Verdicts[i] = None <=> EntryBar(i) = 0 \/ EntryBar(i) + HoldBars > sims
                          /\ SignalVerdicts[i] = None <=> i + Forward > entries
    BY DEF Known
  <1> DEFINE a == EntryBar(m)
             b == EntryBar(n)
  <1>5. (Verdicts[n] = None <=> b = 0 \/ b + HoldBars > sims) /\ (Verdicts[m] = None <=> a = 0 \/ a + HoldBars > sims)
    BY <1>4
  <1>6. (SignalVerdicts[n] = None <=> n + Forward > entries) /\ (SignalVerdicts[m] = None <=> m + Forward > entries)
    BY <1>4
  <1>7. a \in Nat /\ b \in Nat /\ a # 0 /\ a <= b
    BY <1>1, <1>2
  <1> HIDE DEF a, b
  <1>8. a + HoldBars > sims => b + HoldBars > sims
    BY <1>3, <1>7
  <1>9. m + Forward > entries => n + Forward > entries
    BY <1>2, <1>3
  <1>10. QED
    BY <1>5, <1>6, <1>7, <1>8, <1>9

\* A step changes no trade that is certain and adds none before it, in either loop.
LEMMA CountContinues ==
  ASSUME TypeOK, [Next]_vars, Known, Known'
  PROVE  /\ Continues(TrackTrades, TrackTrades', TrackCertain)
         /\ Continues(SignalTrades, SignalTrades', RegimeCertain)
  <1>1. entries \in Nat /\ entries' \in Nat /\ entries <= entries'
    BY HistoryGrows
  <1>2. \A n \in 1..entries :
          /\ Verdicts[n] # None => Verdicts'[n] = Verdicts[n] /\ Exits'[n] = Exits[n]
          /\ SignalVerdicts[n] # None => SignalVerdicts'[n] = SignalVerdicts[n]
          /\ SignalExits'[n] = SignalExits[n]
    BY VerdictsStay
  <1>3. \A m, n \in 1..entries : m < n => /\ Verdicts[n] # None => Verdicts[m] # None
                                          /\ SignalVerdicts[n] # None => SignalVerdicts[m] # None
    BY VerdictsAreOrdered
  <1>4. \A n \in 1..entries :
          /\ n \in TrackCertain => (n \in TrackEntries <=> n \in TrackEntries')
          /\ n \in RegimeCertain => (n \in RegimeEntries <=> n \in RegimeEntries')
    BY EntriesStay
  <1>5. \A m, n \in 1..entries : m < n => /\ n \in TrackCertain => m \in TrackCertain
                                          /\ n \in RegimeCertain => m \in RegimeCertain
    BY CertainIsPrefix
  <1>6. Continues(TrackTrades, TrackTrades', TrackCertain)
    <2>1. PICK f : /\ IsLoop(f, entries, TrackEntries, Verdicts, Exits)
                   /\ TrackTrades = CountedBy(f, entries, TrackEntries, Verdicts)
      BY DEF Known
    <2>2. PICK g : /\ IsLoop(g, entries', TrackEntries', Verdicts', Exits')
                   /\ TrackTrades' = CountedBy(g, entries', TrackEntries', Verdicts')
      BY DEF Known
    <2>3. Continues(CountedBy(f, entries, TrackEntries, Verdicts),
                    CountedBy(g, entries', TrackEntries', Verdicts'), TrackCertain)
      BY <1>1, <1>2, <1>3, <1>4, <1>5, <2>1, <2>2, LoopContinues
    <2>4. QED
      BY <2>1, <2>2, <2>3
  <1>7. Continues(SignalTrades, SignalTrades', RegimeCertain)
    <2>1. PICK f : /\ IsLoop(f, entries, RegimeEntries, SignalVerdicts, SignalExits)
                   /\ SignalTrades = CountedBy(f, entries, RegimeEntries, SignalVerdicts)
      BY DEF Known
    <2>2. PICK g : /\ IsLoop(g, entries', RegimeEntries', SignalVerdicts', SignalExits')
                   /\ SignalTrades' = CountedBy(g, entries', RegimeEntries', SignalVerdicts')
      BY DEF Known
    <2>3. Continues(CountedBy(f, entries, RegimeEntries, SignalVerdicts),
                    CountedBy(g, entries', RegimeEntries', SignalVerdicts'), RegimeCertain)
      BY <1>1, <1>2, <1>3, <1>4, <1>5, <2>1, <2>2, LoopContinues
    <2>4. QED
      BY <2>1, <2>2, <2>3
  <1>8. QED
    BY <1>6, <1>7

\* What the statistics have counted stays so once the bar of BTC's is stored that
\* _as_of or regime_as_of asks (compute_track_stats and compute_signal_stats): a bar that
\* closes, or a frame that is collected before the others, changes no such trade and adds
\* none before it, whichever signals fire.
THEOREM HistoryStaysStable == Spec => HistoryIsStable
  <1> DEFINE Stable ==
        /\ \A old \in {TrackTrades}, new \in {TrackTrades'} : Continues(old, new, TrackCertain)
        /\ \A old \in {SignalTrades}, new \in {SignalTrades'} : Continues(old, new, RegimeCertain)
  <1>1. TypeOK /\ Known /\ Known' /\ [Next]_vars => [Stable]_vars
    <2> SUFFICES ASSUME TypeOK, Known, Known', [Next]_vars PROVE Stable
      OBVIOUS
    <2>1. /\ Continues(TrackTrades, TrackTrades', TrackCertain)
          /\ Continues(SignalTrades, SignalTrades', RegimeCertain)
      BY CountContinues
    <2>2. QED
      BY <2>1
  <1>2. QED
    BY <1>1, TypeCorrect, TradesAreKnown, PTL DEF Spec, HistoryIsStable
=============================================================================
