------------------------- MODULE CandleCollectionProofs -------------------------
(* Proofs about CandleCollection, for every frame, lookback, limit and failure. *)
EXTENDS CandleCollection, FiniteSetTheorems, WellFoundedInduction, TLAPS

\* A set of times that is not empty has a first member.
LEMMA FirstExists ==
  ASSUME NEW S, S \subseteq Nat, S # {}
  PROVE  \E x \in S : \A y \in S : x <= y
  <1> DEFINE R == {ss \in Nat \X Nat : ss[1] < ss[2]}
  <1>1. IsWellFoundedOn(R, Nat)
    BY NatLessThanWellFounded DEF OpToRel
  <1> HIDE DEF R
  <1>2. PICK x \in S : \A y \in S : ~(<<y, x>> \in R)
    BY <1>1, WFMin
  <1>3. \A a, b \in Nat : a < b => <<a, b>> \in R
    BY DEF R
  <1>4. \A y \in S : ~(y < x)
    BY <1>2, <1>3
  <1>5. QED
    BY <1>4

\* A finite one has a last member as well: the one that the fewest others exceed.
LEMMA LastExists ==
  ASSUME NEW S, S \subseteq Nat, S # {}, IsFiniteSet(S)
  PROVE  \E x \in S : \A y \in S : x >= y
  <1> DEFINE above(x) == {y \in S : y > x}
             counts == {Cardinality(above(x)) : x \in S}
  <1>1. \A x \in S : IsFiniteSet(above(x)) /\ Cardinality(above(x)) \in Nat
    BY FS_Subset, FS_CardinalityType
  <1>2. PICK n \in counts : \A m \in counts : n <= m
    <2>1. counts \subseteq Nat /\ counts # {}
      BY <1>1
    <2> HIDE DEF counts
    <2>2. QED
      BY <2>1, FirstExists
  <1>3. PICK x \in S : n = Cardinality(above(x))
    OBVIOUS
  <1>4. ASSUME NEW y \in S, y > x PROVE FALSE
    <2>1. above(y) \subseteq above(x) /\ above(y) # above(x)
      <3>1. x \in Nat /\ y \in Nat
        OBVIOUS
      <3>2. y \in above(x) /\ y \notin above(y)
        BY <1>4, <3>1
      <3>3. \A z \in above(y) : z \in above(x)
        BY <1>4, <3>1
      <3> HIDE DEF above
      <3>4. QED
        BY <3>2, <3>3
    <2>2. Cardinality(above(y)) < Cardinality(above(x))
      <3>1. /\ Cardinality(above(y)) <= Cardinality(above(x))
            /\ Cardinality(above(y)) # Cardinality(above(x))
        BY <1>1, <2>1, FS_Subset
      <3>2. QED
        BY <1>1, <3>1
    <2>3. n <= Cardinality(above(y))
      BY <1>2
    <2>4. QED
      BY <1>1, <1>3, <2>2, <2>3
  <1>5. QED
    BY <1>4

\* Oldest and Newest pick the ends of a set of bars.
LEMMA Ends ==
  ASSUME NEW bars \in SUBSET Opens, bars # {}
  PROVE  /\ Oldest(bars) \in bars /\ \A x \in bars : Oldest(bars) <= x
         /\ Newest(bars) \in bars /\ \A x \in bars : Newest(bars) >= x
         /\ Oldest(bars) \in Nat /\ Newest(bars) \in Nat
  <1>1. bars \subseteq Nat /\ IsFiniteSet(bars)
    BY CollectionAssumption, FS_Subset
  <1>2. (\E x \in bars : \A y \in bars : x <= y) /\ (\E x \in bars : \A y \in bars : x >= y)
    BY <1>1, FirstExists, LastExists
  <1>3. QED
    BY <1>1, <1>2 DEF Oldest, Newest

-----------------------------------------------------------------------------
(* Types *)

\* The type invariant made inductive: a collection that decides has fetched nothing, a
\* walk's first bar is recorded only of a backfill that has bars, a walk has pages left
\* while it goes on, and only a walk holds an answer.
TInv == /\ TypeOK
        /\ job.pc = "decide" => job.pages = 0 /\ job.bars = {}
        /\ job.pc = "earliest" => job.bars # {} /\ job.backfill
        /\ job.pc = "pages" => job.pages < MaxPages
        /\ job.pc # "pages" => job.answered = None

\* What a response holds.
LEMMA ResponseIsOpen ==
  ASSUME NEW start, NEW n, NEW at
  PROVE  /\ Response(start, n, at) \in SUBSET Opens
         /\ \A b \in Response(start, n, at) : Listed <= b /\ start <= b /\ b + Approx <= now
  BY DEF Response, Klines, Leading

\* No collection is in progress.
LEMMA IdleIsJob == Idle \in Job /\ Idle.pc = "idle" /\ Idle.bars = {} /\ Idle.forming = {}
                   /\ Idle.pages = 0 /\ Idle.answered = None
  BY CollectionAssumption DEF Idle, Job, Time

\* A collection begins.
LEMMA BeginEffect ==
  ASSUME TypeOK, Begin
  PROVE  /\ job' \in Job /\ job'.pc = "decide" /\ job'.started = now /\ job'.target = now - lookback
         /\ job'.bars = {} /\ job'.forming = {} /\ job'.pages = 0 /\ job'.answered = None
         /\ UNCHANGED <<now, database, lookback, faults>>
  <1> DEFINE target == now - lookback
             next == [Idle EXCEPT !.pc = "decide", !.started = now, !.target = target]
  <1>1. now \in Time /\ target \in Int
    BY CollectionAssumption DEF TypeOK, Time
  <1>2. job' = next /\ UNCHANGED <<now, database, lookback, faults>>
    BY DEF Begin
  <1> HIDE DEF target
  <1>3. next \in Job
    BY <1>1, IdleIsJob DEF Job
  <1>4. /\ next.pc = "decide" /\ next.started = now /\ next.target = target
        /\ next.bars = {} /\ next.forming = {} /\ next.pages = 0 /\ next.answered = None
    BY IdleIsJob DEF Job
  <1>5. QED
    BY <1>2, <1>3, <1>4 DEF target

\* A walk begins.
LEMMA WalkIsJob ==
  ASSUME TypeOK, NEW backfill \in BOOLEAN, NEW from \in Int, Walk(backfill, from)
  PROVE  /\ job' \in Job /\ job'.pc = "pages" /\ job'.backfill = backfill /\ job'.cursor = from
         /\ job'.tries = 0 /\ job'.started = job.started /\ job'.target = job.target
         /\ job'.pages = job.pages /\ job'.bars = job.bars /\ job'.forming = job.forming
         /\ job'.answered = job.answered
  <1> DEFINE next == [job EXCEPT !.pc = "pages", !.backfill = backfill, !.cursor = from,
                                 !.tries = 0]
  <1>1. job' = next /\ job \in Job
    BY DEF Walk, TypeOK
  <1>2. 0 \in 0..MaxRetries
    BY CollectionAssumption
  <1>3. next \in Job
    BY <1>1, <1>2 DEF Job
  <1>4. next.pc = "pages" /\ next.backfill = backfill /\ next.cursor = from /\ next.tries = 0
    BY <1>1 DEF Job
  <1>5. /\ next.started = job.started /\ next.target = job.target /\ next.pages = job.pages
        /\ next.bars = job.bars /\ next.forming = job.forming /\ next.answered = job.answered
    BY <1>1 DEF Job
  <1>6. QED
    BY <1>1, <1>3, <1>4, <1>5

\* A collection that skips, or continues after the newest bar.
LEMMA IncrementIsJob ==
  ASSUME TypeOK, stored # {}, Increment
  PROVE  \/ job' = Idle /\ UpToDate
         \/ /\ job' \in Job /\ job'.pc = "pages" /\ ~job'.backfill /\ job'.cursor = Newest(stored)
            /\ job'.started = job.started /\ job'.target = job.target
            /\ job'.pages = job.pages /\ job'.bars = job.bars /\ job'.forming = job.forming
            /\ job'.answered = job.answered
  <1>1. Newest(stored) \in Int
    BY Ends DEF TypeOK
  <1>2. CASE UpToDate
    BY <1>2 DEF Increment
  <1>3. CASE ~UpToDate
    <2>1. Walk(FALSE, Newest(stored))
      BY <1>3 DEF Increment
    <2>2. QED
      BY <1>1, <2>1, WalkIsJob
  <1>4. QED
    BY <1>2, <1>3

\* What the decision whether to ask for older bars leads to.
LEMMA DecideEffect ==
  ASSUME TypeOK, Decide \/ Probe
  PROVE  /\ job.pc = "decide"
         /\ \/ /\ job' = Idle /\ UpToDate /\ stored # {}
               /\ Oldest(stored) <= job.target \/ (earliest' # None /\ earliest' >= Oldest(stored))
            \/ /\ job' \in Job /\ job'.pc = "pages"
               /\ job'.started = job.started /\ job'.target = job.target
               /\ job'.pages = job.pages /\ job'.bars = job.bars /\ job'.forming = job.forming
               /\ job'.answered = job.answered
               /\ \/ job'.backfill /\ job'.cursor = job.target
                     /\ (stored # {} => Oldest(stored) > job.target)
                  \/ /\ ~job'.backfill /\ job'.cursor = Newest(stored) /\ stored # {}
                     /\ Oldest(stored) <= job.target \/ (earliest' # None /\ earliest' >= Oldest(stored))
         /\ earliest' \in Opens \cup {None} /\ faults' \in 0..MaxFaults
         /\ UNCHANGED <<now, stored, forming, lookback>>
  <1>1. job.target \in Int /\ TRUE \in BOOLEAN
    BY DEF TypeOK, Job
  <1>2. CASE Decide
    <2>1. job.pc = "decide" /\ UNCHANGED <<now, stored, forming, earliest, lookback, faults>>
      BY <1>2 DEF Decide, database
    <2>2. \/ (stored # {} => Oldest(stored) > job.target) /\ Walk(TRUE, job.target)
          \/ /\ stored # {} /\ Increment
             /\ Oldest(stored) <= job.target \/ (earliest' # None /\ earliest' >= Oldest(stored))
      BY <1>2, <2>1 DEF Decide
    <2>3. QED
      BY <1>1, <2>1, <2>2, WalkIsJob, IncrementIsJob DEF TypeOK
  <1>3. CASE Probe
    <2>1. /\ job.pc = "decide" /\ stored # {} /\ Oldest(stored) > job.target
          /\ UNCHANGED <<now, stored, forming, lookback>>
      BY <1>3 DEF Probe, Asking
    <2>2. \/ Increment /\ earliest' # None /\ earliest' >= Oldest(stored)
          \/ Walk(TRUE, job.target)
      BY <1>3, ResponseIsOpen, CollectionAssumption DEF Probe
    <2>3. earliest' \in Opens \cup {None}
      BY <1>3, ResponseIsOpen DEF Probe, TypeOK
    <2>4. faults' \in 0..MaxFaults
      <3>1. faults' = faults \/ (faults < MaxFaults /\ faults' = faults + 1)
        BY <1>3 DEF Probe
      <3>2. faults \in 0..MaxFaults /\ MaxFaults \in Nat
        BY CollectionAssumption DEF TypeOK
      <3>3. QED
        BY <3>1, <3>2
    <2>5. QED
      BY <1>1, <2>1, <2>2, <2>3, <2>4, WalkIsJob, IncrementIsJob
  <1>4. QED
    BY <1>2, <1>3

\* In short: it is left alone, or a walk begins that has fetched nothing.
LEMMA DecideFrame ==
  ASSUME TypeOK, Decide \/ Probe
  PROVE  /\ job.pc = "decide"
         /\ \/ job' = Idle
            \/ /\ job' \in Job /\ job'.pc = "pages" /\ job'.pages = job.pages
               /\ job'.bars = job.bars /\ job'.forming = job.forming
                  /\ job'.answered = job.answered
         /\ earliest' \in Opens \cup {None} /\ faults' \in 0..MaxFaults
         /\ UNCHANGED <<now, stored, forming, lookback>>
  <1>1. job.pc = "decide" /\ earliest' \in Opens \cup {None} /\ faults' \in 0..MaxFaults
        /\ UNCHANGED <<now, stored, forming, lookback>>
    BY Zenon, DecideEffect
  <1>2. job' # Idle => /\ job' \in Job /\ job'.pc = "pages" /\ job'.pages = job.pages
                      /\ job'.bars = job.bars /\ job'.forming = job.forming
                      /\ job'.answered = job.answered
    BY DecideEffect
  <1>3. QED
    BY <1>1, <1>2

\* What a page does.
LEMMA PageEffect ==
  ASSUME TInv, Page
  PROVE  LET raw == Response(job.cursor, Limit, job.answered)
             fresh == {b \in raw : \A x \in job.bars : b > x}
             bars == job.bars \cup fresh
             last == fresh = {} \/ Cardinality(raw) < Limit \/ job.pages + 1 = MaxPages
         IN /\ job.pc = "pages" /\ job' \in Job
            /\ job'.bars = bars /\ job'.pages = job.pages + 1
            /\ job'.forming = job.forming \cup {b \in fresh : ~Over(b, job.answered)}
            /\ job.answered \in Time /\ job'.answered = None
            /\ job'.started = job.started /\ job'.target = job.target
            /\ job'.backfill = job.backfill
            /\ ~last => job'.pc = "pages" /\ job'.cursor = Newest(bars) /\ bars # {}
                        /\ job'.pages < MaxPages
            /\ last => job'.pc \in {"earliest", "upsert"}
            /\ job'.pc = "earliest" => bars # {} /\ job.backfill
            /\ UNCHANGED <<now, stored, forming, earliest, lookback, faults>>
  <1> DEFINE raw == Response(job.cursor, Limit, job.answered)
             fresh == {b \in raw : \A x \in job.bars : b > x}
             bars == job.bars \cup fresh
             last == fresh = {} \/ Cardinality(raw) < Limit \/ job.pages + 1 = MaxPages
             pc == IF ~last THEN "pages" ELSE IF FoundFirst(bars) THEN "earliest" ELSE "upsert"
             cursor == IF last THEN job.cursor ELSE Newest(bars)
             young == {b \in fresh : ~Over(b, job.answered)}
             next == [job EXCEPT !.pc = pc, !.cursor = cursor, !.pages = job.pages + 1, !.tries = 0,
                                 !.answered = None, !.bars = bars,
                                 !.forming = job.forming \cup young]
  <1>1. job.pc = "pages" /\ job \in Job /\ job.pages < MaxPages /\ job.answered # None
        /\ UNCHANGED <<now, stored, forming, earliest, lookback, faults>>
    BY DEF Page, TInv, TypeOK, database
  <1>a. job.answered \in Time
    BY <1>1 DEF Job
  <1>2. job' = next
    <2>1. job \in Job
      BY <1>1
    <2>2. QED
      BY <2>1 DEF Page, Job
  <1>3. fresh \in SUBSET Opens /\ bars \in SUBSET Opens /\ young \in SUBSET Opens
        /\ job.forming \cup young \in SUBSET Opens
    BY <1>1, ResponseIsOpen DEF Job
  <1>4. ~last => bars # {}
    OBVIOUS
  <1>5. cursor \in Int
    <2>1. job.cursor \in Int
      BY <1>1 DEF Job
    <2>2. ~last => Newest(bars) \in Int
      BY <1>3, <1>4, Ends
    <2>3. QED
      BY <2>1, <2>2
  <1>6. job.pages \in Nat /\ MaxPages \in Nat /\ job.pages + 1 \in 0..MaxPages /\ 0 \in 0..MaxRetries
    BY <1>1, CollectionAssumption DEF Job
  <1>7. pc \in {"pages", "earliest", "upsert"}
    OBVIOUS
  <1>8. ~last => job.pages + 1 < MaxPages
    BY <1>6
  <1>9. pc = "earliest" => bars # {} /\ job.backfill
    BY DEF FoundFirst
  <1>10. (~last => pc = "pages" /\ cursor = Newest(bars)) /\ (last => pc \in {"earliest", "upsert"})
    OBVIOUS
  <1> HIDE DEF raw, fresh, bars, last, pc, cursor, young
  <1>11. next \in Job
    BY <1>1, <1>3, <1>5, <1>6, <1>7 DEF Job
  <1>12. /\ next.pc = pc /\ next.cursor = cursor /\ next.pages = job.pages + 1
         /\ next.bars = bars /\ next.forming = job.forming \cup young
         /\ next.started = job.started /\ next.target = job.target
    BY <1>1 DEF Job
  <1>13. next.backfill = job.backfill /\ next.answered = None
    BY <1>1 DEF Job
  <1> HIDE DEF next
  <1>14. QED
    BY <1>1, <1>a, <1>2, <1>4, <1>8, <1>9, <1>10, <1>11, <1>12, <1>13
    DEF raw, fresh, bars, last, young

\* What an answer does.
LEMMA AnswerEffect ==
  ASSUME TypeOK, Answer
  PROVE  /\ job.pc = "pages" /\ job' \in Job /\ job'.pc = "pages" /\ job'.answered = now
         /\ job'.started = job.started /\ job'.target = job.target /\ job'.backfill = job.backfill
         /\ job'.cursor = job.cursor /\ job'.pages = job.pages
         /\ job'.bars = job.bars /\ job'.forming = job.forming
         /\ UNCHANGED <<now, stored, forming, earliest, lookback, faults>>
  <1> DEFINE next == [job EXCEPT !.answered = now]
  <1>1. job' = next /\ job.pc = "pages" /\ job \in Job /\ now \in Time
        /\ UNCHANGED <<now, stored, forming, earliest, lookback, faults>>
    BY DEF Answer, Requesting, TypeOK, database
  <1>2. next \in Job
    BY <1>1 DEF Job
  <1>3. /\ next.pc = job.pc /\ next.answered = now /\ next.started = job.started
        /\ next.target = job.target /\ next.cursor = job.cursor /\ next.pages = job.pages
    BY <1>1 DEF Job
  <1>4. next.backfill = job.backfill /\ next.bars = job.bars /\ next.forming = job.forming
    BY <1>1 DEF Job
  <1>5. QED
    BY <1>1, <1>2, <1>3, <1>4

\* A collection that ends, for whatever reason.
LEMMA ToIdle ==
  ASSUME TypeOK, job' = Idle, UNCHANGED <<now, database, lookback>>, faults' \in 0..MaxFaults
  PROVE  TInv'
  BY IdleIsJob DEF TInv, TypeOK, database

\* A failure is counted.
LEMMA FaultIsCounted ==
  ASSUME TypeOK, faults < MaxFaults, faults' = faults + 1
  PROVE  faults' \in 0..MaxFaults
  BY CollectionAssumption DEF TypeOK

\* The types hold at the start.
LEMMA TypeInit == Init => TInv
  <1> SUFFICES ASSUME Init PROVE TInv
    OBVIOUS
  <1>1. now \in Time /\ faults \in 0..MaxFaults
    BY CollectionAssumption DEF Init, Time
  <1>2. stored \in SUBSET Opens /\ forming \in SUBSET stored /\ earliest \in Opens \cup {None}
        /\ lookback \in Lookbacks
    BY DEF Init
  <1>3. job = Idle
    BY DEF Init
  <1>4. QED
    BY <1>1, <1>2, <1>3, IdleIsJob DEF TInv, TypeOK

\* The types hold on.
LEMMA TypeStep == TInv /\ [Next]_vars => TInv'
  <1> SUFFICES ASSUME TInv, [Next]_vars PROVE TInv'
    OBVIOUS
  <1>t. TypeOK /\ job \in Job /\ now \in Time /\ MaxTime \in Nat /\ StartTime \in Nat
    BY CollectionAssumption DEF TInv, TypeOK
  <1>1. CASE Tick
    <2>1. now' \in Time
      BY <1>1, <1>t DEF Tick, Time
    <2>2. QED
      BY <1>1, <2>1 DEF Tick, TInv, TypeOK, database
  <1>2. CASE Begin
    <2>1. QED
      BY <1>2, <1>t, BeginEffect DEF TInv, TypeOK, database
  <1>3. CASE Decide \/ Probe
    <2>1. CASE job' = Idle
      BY <1>3, <1>t, <2>1, DecideFrame, IdleIsJob DEF TInv, TypeOK
    <2>2. CASE job'.pc = "pages" /\ job' \in Job
      <3>1. job.pages = 0
        BY <1>3, <1>t, DecideFrame DEF TInv
      <3>2. job'.pages < MaxPages
        BY <1>3, <1>t, <2>2, <3>1, DecideFrame, CollectionAssumption, IdleIsJob
      <3>3. TypeOK'
        BY <1>3, <1>t, <2>2, DecideFrame DEF TypeOK
      <3>4. QED
        BY <2>2, <3>2, <3>3 DEF TInv
    <2>3. QED
      BY <1>3, <1>t, <2>1, <2>2, DecideFrame
  <1>4. CASE Retry
    <2> DEFINE next == [job EXCEPT !.tries = @ + 1]
    <2>1. job.tries + 1 \in 0..MaxRetries /\ faults' \in 0..MaxFaults
      BY <1>4, <1>t, CollectionAssumption, FaultIsCounted DEF Retry, Job
    <2>2. next \in Job /\ next.pc = job.pc /\ next.bars = job.bars /\ next.pages = job.pages
          /\ next.answered = job.answered
      BY <1>t, <2>1 DEF Job
    <2>3. job' = next /\ UNCHANGED <<now, database, lookback>> /\ job.pc # "earliest"
      BY <1>4 DEF Retry, Asking, Requesting
    <2> HIDE DEF next
    <2>4. QED
      BY <2>1, <2>2, <2>3 DEF TInv, TypeOK, database
  <1>5. CASE GiveUp \/ Abandon
    BY <1>5, <1>t, ToIdle, FaultIsCounted DEF GiveUp, Abandon
  <1>6. CASE Page
    BY <1>6, <1>t, PageEffect DEF TInv, TypeOK
  <1>7. CASE RecordEarliest
    <2> DEFINE next == [job EXCEPT !.pc = "upsert"]
    <2>1. Oldest(job.bars) \in Opens
      <3>1. job.bars \in SUBSET Opens /\ job.bars # {}
        BY <1>7, <1>t DEF RecordEarliest, TInv, Job
      <3>2. QED
        BY <3>1, Ends
    <2>2. next \in Job /\ next.pc = "upsert" /\ next.answered = None
      BY <1>7, <1>t DEF Job, TInv, RecordEarliest
    <2>3. job' = next /\ earliest' = Oldest(job.bars)
          /\ UNCHANGED <<now, stored, forming, lookback, faults>>
      BY <1>7 DEF RecordEarliest
    <2> HIDE DEF next
    <2>4. QED
      BY <2>1, <2>2, <2>3 DEF TInv, TypeOK
  <1>8. CASE Upsert
    <2>1. Kept \in SUBSET Opens
      BY <1>t DEF Kept, Job
    <2>2. stored' = stored \cup Kept /\ forming' = (forming \ Kept) \cup (job.forming \cap Kept)
          /\ job' = Idle /\ UNCHANGED <<now, earliest, lookback, faults>>
      BY <1>8 DEF Upsert
    <2>3. QED
      BY <2>1, <2>2, IdleIsJob DEF TInv, TypeOK
  <1>9. CASE AskListing
    BY <1>9, ResponseIsOpen DEF AskListing, TInv, TypeOK
  <1>10. CASE Reconfigure
    BY <1>10 DEF Reconfigure, TInv, TypeOK, database
  <1>11. CASE UNCHANGED vars
    BY <1>11 DEF vars, TInv, TypeOK, database
  <1>12. CASE Answer
    BY <1>12, <1>t, AnswerEffect DEF TInv, TypeOK
  <1>13. QED
    BY <1>1, <1>2, <1>3, <1>4, <1>5, <1>6, <1>7, <1>8, <1>9, <1>10, <1>11, <1>12
    DEF Next, Proceed

\* The types and the bounds of a walk hold in every reachable state.
THEOREM TypesHold == Spec => []TInv
  BY TypeInit, TypeStep, PTL DEF Spec

\* The variables keep their types.
THEOREM TypeCorrect == Spec => []TypeOK
  <1>1. TInv => TypeOK
    BY DEF TInv
  <1>2. QED
    BY <1>1, TypesHold, PTL

-----------------------------------------------------------------------------
(* Closed bars *)

\* Neither the database nor the collection in progress holds a bar that is not over.
FInv == \A b \in stored \cup job.bars : Over(b, now)

\* A bar that is over stays so.
LEMMA OverStays ==
  ASSUME NEW b, NEW at \in Nat, NEW later \in Nat, at <= later, Over(b, at)
  PROVE  Over(b, later)
  BY CollectionAssumption DEF Over

\* A step adds only bars that are over.
LEMMA ClosedStep ==
  ASSUME NoBarIsLonger, TInv, FInv, [Next]_vars
  PROVE  FInv'
  <1>t. TypeOK /\ now \in Time /\ now \in Nat /\ job \in Job
    BY CollectionAssumption DEF TInv, TypeOK, Time
  <1>1. CASE Tick
    <2>1. now' \in Nat /\ now <= now' /\ UNCHANGED <<stored, job>>
      BY <1>1, <1>t DEF Tick, database
    <2>2. \A b \in stored \cup job.bars : Over(b, now')
      BY <1>t, <2>1, OverStays DEF FInv
    <2>3. (\A b \in stored \cup job.bars : Over(b, now))'
      BY <2>1, <2>2 DEF Over
    <2>4. QED
      BY <2>3 DEF FInv
  <1>2. ASSUME now' = now, stored' \cup job'.bars \subseteq stored \cup job.bars PROVE FInv'
    BY <1>2 DEF FInv, Over
  <1>3. CASE Begin
    BY <1>2, <1>3, <1>t, BeginEffect DEF database
  <1>4. CASE Decide \/ Probe
    BY <1>2, <1>4, <1>t, DecideFrame, IdleIsJob
  <1>5. CASE Retry
    <2>1. [job EXCEPT !.tries = @ + 1].bars = job.bars
      BY <1>t DEF Job
    <2>2. QED
      BY <1>2, <1>5, <2>1 DEF Retry, database
  <1>6. CASE GiveUp \/ Abandon
    BY <1>2, <1>6, IdleIsJob DEF GiveUp, Abandon, database
  <1>7. CASE Answer
    BY <1>2, <1>7, <1>t, AnswerEffect
  <1>8. CASE Page
    <2> DEFINE raw == Response(job.cursor, Limit, job.answered)
               fresh == {b \in raw : \A x \in job.bars : b > x}
    <2>1. \A b \in fresh : Over(b, now)
      BY <1>t, ResponseIsOpen DEF NoBarIsLonger
    <2>2. job'.bars = job.bars \cup fresh /\ stored' = stored /\ now' = now
      BY <1>8, PageEffect
    <2> HIDE DEF fresh
    <2>3. QED
      BY <2>1, <2>2 DEF FInv, Over
  <1>9. CASE RecordEarliest
    <2>1. [job EXCEPT !.pc = "upsert"].bars = job.bars
      BY <1>t DEF Job
    <2>2. QED
      BY <1>2, <1>9, <2>1 DEF RecordEarliest
  <1>10. CASE Upsert
    <2>1. Kept \subseteq job.bars
      BY DEF Kept
    <2>2. QED
      BY <1>2, <1>10, <2>1, IdleIsJob DEF Upsert
  <1>11. CASE AskListing \/ Reconfigure \/ UNCHANGED vars
    BY <1>2, <1>11 DEF AskListing, Reconfigure, vars, database
  <1>12. QED
    BY <1>1, <1>3, <1>4, <1>5, <1>6, <1>7, <1>8, <1>9, <1>10, <1>11 DEF Next, Proceed

\* In a frame of which no bar lasts longer than it is taken to, only bars that are over
\* are stored (drop_unclosed), whatever fails and however old an answer is when it is
\* judged.
THEOREM OnlyClosedBarsAreStored == ASSUME NoBarIsLonger PROVE Spec => []StoredIsClosed
  <1>1. Init => TInv /\ FInv
    BY TypeInit, IdleIsJob DEF Init, FInv
  <1>2. (TInv /\ FInv) /\ [Next]_vars => (TInv /\ FInv)'
    BY TypeStep, ClosedStep
  <1>3. FInv => StoredIsClosed
    BY DEF FInv, StoredIsClosed
  <1>4. QED
    BY <1>1, <1>2, <1>3, PTL DEF Spec

-----------------------------------------------------------------------------
(* No gap *)

\* Where the walk in progress started.
From == IF job.backfill THEN job.target ELSE Newest(stored)

\* What a walk has fetched: bars that are over, without a gap, from where it started.
WalkInv ==
    /\ \A x \in job.bars : From <= x /\ Listed <= x /\ x + Approx <= now
    /\ \A x \in job.bars, b \in Opens : From <= b /\ Listed <= b /\ b <= x => b \in job.bars
    /\ job.pc = "pages" =>
          /\ job.bars = {} => job.cursor = From
          /\ job.bars # {} => job.cursor = Newest(job.bars)

\* When the walk has ended: every bar that was over when it began.
Complete ==
    \A b \in Opens : From <= b /\ Listed <= b /\ b + Approx <= job.started => b \in job.bars

\* Why a walk is a backfill or an increment.
Purpose ==
    /\ job.backfill /\ stored # {} => Oldest(stored) > job.target
    /\ ~job.backfill => /\ stored # {}
                       /\ \/ Oldest(stored) <= job.target
                          \/ earliest # None /\ earliest >= Oldest(stored)

\* The inductive invariant behind NoGap.
GInv ==
    /\ TInv /\ NoGap
    /\ \A b \in stored : Listed <= b /\ b + Approx <= now
    /\ job.pc # "idle" => job.started <= now /\ \A b \in stored : b + Approx <= job.started
    /\ job.pc = "decide" => job.bars = {}
    /\ job.pc \in {"pages", "earliest", "upsert"} => WalkInv /\ Purpose
    /\ job.pc \in {"earliest", "upsert"} => Complete
    /\ job.answered # None => job.started <= job.answered /\ job.answered <= now

\* Sets of bars can be counted.
LEMMA BarsAreFinite ==
  \A S, T \in SUBSET Opens :
     S \subseteq T => Cardinality(S) \in Nat /\ Cardinality(T) \in Nat /\ Cardinality(S) <= Cardinality(T)
  BY CollectionAssumption, FS_Subset, FS_CardinalityType

\* A response is a beginning of the bars that are over, from where it is asked for.
LEMMA ResponseIsBeginning ==
  ASSUME now \in Nat, NEW at \in Nat, NEW start \in Int, NEW x \in Response(start, Limit, at),
         NEW b \in Opens, Listed <= b, start <= b, b <= x
  PROVE  b \in Response(start, Limit, at)
  <1> DEFINE line == {y \in Opens : Listed <= y /\ y <= at /\ start <= y}
             before(y) == {z \in line : z < y}
  <1>1. /\ Opens \subseteq Nat /\ Approx \in Nat /\ Limit \in Nat
    BY CollectionAssumption
  <1>2. x \in line /\ Cardinality(before(x)) < Limit /\ x + Approx <= now
    BY DEF Response, Klines, Leading
  <1>3. b \in line /\ b + Approx <= now
    BY <1>1, <1>2
  <1>4. before(b) \subseteq before(x) /\ before(b) \in SUBSET Opens /\ before(x) \in SUBSET Opens
    <2>1. x \in Nat /\ b \in Nat /\ line \subseteq Nat
      BY <1>1, <1>2
    <2>2. \A z \in line : z < b => z < x
      BY <2>1
    <2> HIDE DEF line
    <2>3. before(b) \subseteq before(x)
      BY <2>2
    <2>4. before(b) \subseteq line /\ before(x) \subseteq line /\ line \subseteq Opens
      BY DEF line
    <2>5. QED
      BY <2>3, <2>4
  <1>5. Cardinality(before(b)) < Limit
    <2> HIDE DEF before
    <2>1. QED
      BY <1>1, <1>2, <1>4, BarsAreFinite
  <1>6. b \in Leading(line, Limit)
    BY <1>3, <1>5 DEF Leading
  <1>7. QED
    BY <1>3, <1>6 DEF Response, Klines

\* A bar that was over in an answer is missing from it only if a full page comes before it.
LEMMA MissingIsBeyondPage ==
  ASSUME now \in Nat, NEW at \in Nat, at <= now, NEW start \in Int, NEW b \in Opens,
         Listed <= b, start <= b, b + Approx <= at, b \notin Response(start, Limit, at)
  PROVE  LET before == {y \in Opens : Listed <= y /\ start <= y /\ y < b}
         IN before \in SUBSET Opens /\ Cardinality(before) \in Nat /\ Cardinality(before) >= Limit
  <1> DEFINE line == {y \in Opens : Listed <= y /\ y <= at /\ start <= y}
             before == {y \in Opens : Listed <= y /\ start <= y /\ y < b}
  <1>1. Opens \subseteq Nat /\ Approx \in Nat /\ Limit \in Nat
    BY CollectionAssumption
  <1>2. b \in line /\ b + Approx <= now
    BY <1>1
  <1>3. {z \in line : z < b} = before
    <2>1. b \in Nat /\ \A y \in Opens : y \in Nat /\ (y < b => y <= at)
      BY <1>1
    <2>2. QED
      BY <2>1
  <1>4. ~(Cardinality(before) < Limit)
    BY <1>2, <1>3 DEF Response, Klines, Leading
  <1>5. before \in SUBSET Opens
    OBVIOUS
  <1>6. Cardinality(before) \in Nat
    BY <1>5, BarsAreFinite
  <1> HIDE DEF before
  <1>7. QED
    BY <1>1, <1>4, <1>5, <1>6 DEF before

\* A page continues what the walk has without a gap, and the walk's last page, when it
\* is short or brings nothing new, leaves no bar out that was over in the answer.
LEMMA PageIsContinuation ==
  ASSUME now \in Nat, NEW at \in Nat, at <= now, Limit > 1, NEW from \in Int, NEW cursor \in Int, NEW bars \in SUBSET Opens,
         \A x \in bars : from <= x /\ Listed <= x /\ x + Approx <= now,
         \A x \in bars, b \in Opens : from <= b /\ Listed <= b /\ b <= x => b \in bars,
         bars = {} => cursor = from, bars # {} => cursor = Newest(bars)
  PROVE  LET raw == Response(cursor, Limit, at)
             fresh == {b \in raw : \A x \in bars : b > x}
             all == bars \cup fresh
         IN /\ \A x \in all : from <= x /\ Listed <= x /\ x + Approx <= now
            /\ \A x \in all, b \in Opens : from <= b /\ Listed <= b /\ b <= x => b \in all
            /\ fresh = {} \/ Cardinality(raw) < Limit =>
                  \A b \in Opens : from <= b /\ Listed <= b /\ b + Approx <= at => b \in all
  <1> DEFINE raw == Response(cursor, Limit, at)
             fresh == {b \in raw : \A x \in bars : b > x}
             all == bars \cup fresh
  <1>1. /\ Opens \subseteq Nat /\ Approx \in Nat \ {0} /\ Limit \in Nat /\ Listed \in Nat
        /\ raw \in SUBSET Opens
        /\ \A b \in raw : Listed <= b /\ cursor <= b /\ b + Approx <= now
    BY CollectionAssumption, ResponseIsOpen
  <1>2. bars # {} => cursor \in bars /\ \A x \in bars : x <= cursor
    BY Ends
  <1>3. from <= cursor
    BY <1>2
  <1>4. \A b \in raw : b \in all
    <2> HIDE DEF raw
    <2> TAKE b \in raw
    <2>1. CASE bars = {}
      BY <2>1
    <2>2. CASE bars # {}
      <3>1. b \in Opens /\ b \in Nat /\ Listed <= b /\ cursor <= b /\ from <= b
        <4>1. b \in Opens /\ Listed <= b /\ cursor <= b
          BY <1>1
        <4>2. QED
          BY <1>1, <1>3, <4>1
      <3>2. cursor \in bars /\ \A x \in bars : x \in Nat /\ x <= cursor
        BY <1>1, <1>2, <2>2
      <3> HIDE DEF raw
      <3>3. CASE b <= cursor
        BY <3>1, <3>2, <3>3
      <3>4. CASE b > cursor
        <4>1. \A x \in bars : b > x
          BY <3>1, <3>2, <3>4
        <4>2. QED
          BY <4>1
      <3>5. QED
        BY <3>1, <3>3, <3>4
    <2>3. QED
      BY <2>1, <2>2
  <1>5. \A x \in all : from <= x /\ Listed <= x /\ x + Approx <= now
    BY <1>1, <1>3
  <1>6. ASSUME NEW x \in all, NEW b \in Opens, from <= b, Listed <= b, b <= x PROVE b \in all
    <2>1. CASE x \in bars
      BY <1>6, <2>1
    <2>2. CASE x \in raw /\ cursor <= b
      BY <1>4, <1>6, <2>2, ResponseIsBeginning
    <2>3. CASE cursor > b
      <3>1. bars # {}
        BY <1>1, <1>6, <2>3
      <3>2. cursor \in bars /\ b <= cursor
        BY <1>1, <1>2, <2>3, <3>1
      <3>3. QED
        BY <1>6, <3>2
    <2>4. QED
      BY <1>1, <2>1, <2>2, <2>3
  <1>7. ASSUME fresh = {} \/ Cardinality(raw) < Limit,
               NEW c \in Opens, from <= c, Listed <= c, c + Approx <= at, c \notin all
        PROVE  FALSE
    <2> DEFINE missing == {b \in Opens : from <= b /\ Listed <= b /\ b + Approx <= at /\ b \notin all}
    <2>1. PICK m \in missing : \A y \in missing : m <= y
      <3>1. c \in missing /\ missing \subseteq Nat
        BY <1>1, <1>7
      <3> HIDE DEF missing
      <3>2. QED
        BY <3>1, FirstExists
    <2>2. m \in Opens /\ from <= m /\ Listed <= m /\ m + Approx <= at /\ m \notin all /\ m \in Nat
      BY <1>1, <2>1
    <2>3. cursor <= m
      <3>1. bars = {} => cursor <= m
        BY <2>2
      <3>2. bars # {} => ~(m <= cursor)
        BY <1>2, <2>2
      <3>3. QED
        BY <2>2, <3>1, <3>2
    <2> DEFINE before == {y \in Opens : Listed <= y /\ cursor <= y /\ y < m}
    <2>4. m \notin raw
      BY <1>4, <2>2
    <2>5. before \in SUBSET Opens /\ Cardinality(before) \in Nat /\ Cardinality(before) >= Limit
      BY <2>2, <2>3, <2>4, MissingIsBeyondPage
    <2>6. \A y \in before : y \in all /\ y + Approx <= at
      <3> TAKE y \in before
      <3>1. y \in Nat /\ Listed <= y /\ from <= y /\ y < m /\ y + Approx <= at
        BY <1>1, <1>3, <2>2
      <3>2. y \notin missing
        BY <2>1, <2>2, <3>1
      <3>3. QED
        BY <3>1, <3>2
    <2>7. \A y \in before : y \in bars => y = cursor
      BY <1>1, <1>2
    <2>8. CASE fresh = {}
      <3>1. before \subseteq {cursor}
        BY <2>6, <2>7, <2>8
      <3>2. IsFiniteSet({cursor}) /\ Cardinality({cursor}) = 1
        BY FS_Singleton
      <3>3. before \in SUBSET {cursor}
        BY <3>1
      <3> HIDE DEF before
      <3>4. Cardinality(before) <= Cardinality({cursor})
        BY <3>2, <3>3, FS_Subset
      <3>5. QED
        BY <1>1, <2>5, <3>2, <3>4
    <2>9. CASE Cardinality(raw) < Limit
      <3>1. ASSUME NEW y \in before PROVE y \in raw
        <4>1. CASE y \in bars
          <5>1. y = cursor /\ y \in Opens /\ Listed <= y /\ y + Approx <= at
            BY <2>6, <2>7, <4>1
          <5> DEFINE earlier == {z \in Opens : Listed <= z /\ cursor <= z /\ z < y}
          <5>2. earlier = {}
            <6>1. \A z \in Opens : z \in Nat
              BY <1>1
            <6>2. \A z \in Opens : ~(cursor <= z /\ z < y)
              BY <5>1, <6>1
            <6>3. QED
              BY <6>2
          <5>3. ASSUME y \notin raw PROVE FALSE
            <6>1. Cardinality(earlier) >= Limit
              BY <5>1, <5>3, MissingIsBeyondPage
            <6>2. Cardinality({}) = 0
              BY FS_EmptySet
            <6>3. QED
              BY <1>1, <5>2, <6>1, <6>2
          <5>4. QED
            BY <5>3
        <4>2. CASE y \in fresh
          BY <4>2
        <4>3. QED
          BY <2>6, <4>1, <4>2
      <3>2. before \subseteq raw
        BY <3>1
      <3> HIDE DEF before, raw
      <3>3. Cardinality(before) <= Cardinality(raw) /\ Cardinality(raw) \in Nat
        BY <1>1, <2>5, <3>2, BarsAreFinite
      <3>4. QED
        BY <1>1, <2>5, <2>9, <3>3
    <2>10. QED
      BY <1>7, <2>8, <2>9
  <1> HIDE DEF raw, fresh, all
  <1>8. QED
    BY <1>5, <1>6, <1>7 DEF raw, fresh, all

\* What is stored at the start has no gap.
LEMMA GapInit == NoBarIsShorter /\ Init => GInv
  <1> SUFFICES ASSUME NoBarIsShorter, Init PROVE GInv
    OBVIOUS
  <1>1. PICK from \in Opens : stored = {b \in Opens : from <= b /\ Listed <= b /\ Over(b, StartTime)}
    BY DEF Init
  <1>2. Opens \subseteq Nat /\ Approx \in Nat /\ StartTime \in Nat /\ Listed \in Nat /\ now = StartTime
    BY CollectionAssumption DEF Init
  <1>3. \A b \in stored : Listed <= b /\ b + Approx <= now
    <2> TAKE b \in stored
    <2>1. PICK x \in Opens : b < x /\ x <= StartTime
      BY <1>1 DEF Over
    <2>2. b \in Opens /\ Listed <= b /\ b + Approx <= x
      BY <1>1, <2>1 DEF NoBarIsShorter
    <2>3. QED
      BY <1>2, <2>1, <2>2
  <1>4. NoGap
    <2> SUFFICES ASSUME NEW a \in stored, NEW c \in stored, NEW b \in Opens, a < b, b < c
                 PROVE  b \in stored
      BY DEF NoGap
    <2>1. PICK x \in Opens : c < x /\ x <= StartTime
      BY <1>1 DEF Over
    <2>2. a \in Nat /\ b \in Nat /\ c \in Nat /\ x \in Nat /\ from \in Nat /\ from <= a /\ Listed <= a
      BY <1>1, <1>2
    <2>3. from <= b /\ Listed <= b /\ b < x
      BY <1>2, <2>1, <2>2
    <2>4. QED
      BY <1>1, <2>1, <2>3 DEF Over
  <1>5. job.pc = "idle" /\ TInv
    BY TypeInit, IdleIsJob DEF Init
  <1>6. QED
    BY <1>3, <1>4, <1>5, IdleIsJob DEF GInv, Init

\* Steps that leave no collection in progress and the candles alone.
LEMMA GapQuiet ==
  ASSUME GInv, TInv', job'.pc = "idle", stored' = stored, now' = now
  PROVE  GInv'
  <1>1. NoGap'
    BY DEF GInv, NoGap
  <1>2. (\A b \in stored : Listed <= b /\ b + Approx <= now)'
    BY DEF GInv
  <1>3. job'.answered = None
    BY DEF TInv
  <1>4. QED
    BY <1>1, <1>2, <1>3 DEF GInv

\* What a walk has fetched stays true of it while time passes.
LEMMA WalkInvSame ==
  ASSUME WalkInv, job'.pc = job.pc, job'.bars = job.bars, job'.cursor = job.cursor, From' = From,
         \A x \in job'.bars : From' <= x /\ Listed <= x /\ x + Approx <= now'
  PROVE  WalkInv'
  BY DEF WalkInv

\* Steps that leave the collection in progress as it is, while time may pass.
LEMMA GapSame ==
  ASSUME GInv, TInv', job'.pc = job.pc, job'.started = job.started, job'.target = job.target,
         job'.backfill = job.backfill, job'.cursor = job.cursor, job'.bars = job.bars,
         job'.answered \in {job.answered, now},
         stored' = stored, earliest' = earliest \/ job.pc = "idle",
         now' \in Nat, now \in Nat, now <= now'
  PROVE  GInv'
  <1>1. NoGap'
    BY DEF GInv, NoGap
  <1>2. /\ Opens \subseteq Nat /\ Approx \in Nat /\ stored \in SUBSET Opens /\ job.bars \in SUBSET Opens
        /\ job.started \in Nat
    BY CollectionAssumption DEF GInv, TInv, TypeOK, Job, Time
  <1>3. (\A b \in stored : Listed <= b /\ b + Approx <= now)'
    <2> SUFFICES ASSUME NEW b \in stored PROVE Listed <= b /\ b + Approx <= now'
      OBVIOUS
    <2>1. b \in Nat /\ Listed <= b /\ b + Approx <= now
      BY <1>2 DEF GInv
    <2>2. QED
      BY <1>2, <2>1
  <1>4. (job.pc # "idle" => job.started <= now /\ \A b \in stored : b + Approx <= job.started)'
    <2>1. job.pc # "idle" => job.started <= now /\ \A b \in stored : b + Approx <= job.started
      BY DEF GInv
    <2>2. QED
      BY <1>2, <2>1
  <1>5. From' = From
    BY DEF From
  <1>6. ASSUME job.pc \in {"pages", "earliest", "upsert"} PROVE WalkInv' /\ Purpose'
    <2>1. WalkInv /\ Purpose /\ earliest' = earliest
      BY <1>6 DEF GInv
    <2>2. \A x \in job'.bars : From' <= x /\ Listed <= x /\ x + Approx <= now'
      <3> SUFFICES ASSUME NEW x \in job.bars PROVE From <= x /\ Listed <= x /\ x + Approx <= now'
        BY <1>5
      <3>1. x \in Nat /\ From <= x /\ Listed <= x /\ x + Approx <= now
        BY <1>2, <2>1 DEF WalkInv
      <3>2. QED
        BY <1>2, <3>1
    <2>3. Purpose'
      BY <2>1 DEF Purpose
    <2>4. WalkInv'
      BY <1>5, <2>1, <2>2, WalkInvSame
    <2>5. QED
      BY <2>3, <2>4
  <1>7. ASSUME job.pc \in {"earliest", "upsert"} PROVE Complete'
    <2>1. Complete
      BY <1>7 DEF GInv
    <2>2. QED
      BY <1>5, <2>1 DEF Complete
  <1>8. (job.pc = "decide" => job.bars = {})'
    BY DEF GInv
  <1>a. (job.answered # None => job.started <= job.answered /\ job.answered <= now)'
    <2>1. CASE job'.answered = job.answered
      <3>1. job.answered # None => job.answered \in Nat
        BY CollectionAssumption DEF GInv, TInv, TypeOK, Job, Time
      <3>2. job.answered # None => job.started <= job.answered /\ job.answered <= now
        BY DEF GInv
      <3>3. QED
        BY <2>1, <3>1, <3>2
    <2>2. CASE job'.answered = now /\ job'.answered # None
      <3>1. job.pc # "idle"
        BY <2>2 DEF TInv
      <3>2. QED
        BY <2>2, <3>1 DEF GInv
    <2>3. QED
      BY <2>1, <2>2
  <1>9. QED
    BY <1>1, <1>3, <1>4, <1>6, <1>7, <1>8, <1>a DEF GInv

\* A walk begins where its purpose says.
LEMMA GapDecide ==
  ASSUME GInv, TInv', Decide \/ Probe
  PROVE  GInv'
  <1>1. TypeOK /\ job.pc = "decide" /\ UNCHANGED <<now, stored>> /\ job.bars = {}
    BY Zenon, DecideEffect DEF GInv, TInv
  <1>2. CASE job' = Idle
    BY <1>1, <1>2, IdleIsJob, GapQuiet
  <1>3. CASE job' # Idle
    <2>1. /\ job' \in Job /\ job'.pc = "pages" /\ job'.bars = {} /\ job'.answered = None
          /\ job'.started = job.started /\ job'.target = job.target
      BY <1>1, <1>3, DecideEffect DEF GInv, TInv
    <2>2. \/ job'.backfill /\ job'.cursor = job'.target /\ (stored # {} => Oldest(stored) > job'.target)
          \/ /\ ~job'.backfill /\ job'.cursor = Newest(stored) /\ stored # {}
             /\ Oldest(stored) <= job'.target \/ (earliest' # None /\ earliest' >= Oldest(stored))
      <3>1. \/ job'.backfill /\ job'.cursor = job.target /\ (stored # {} => Oldest(stored) > job.target)
            \/ /\ ~job'.backfill /\ job'.cursor = Newest(stored) /\ stored # {}
               /\ Oldest(stored) <= job.target \/ (earliest' # None /\ earliest' >= Oldest(stored))
        BY Zenon, <1>1, <1>3, DecideEffect
      <3>2. QED
        BY <2>1, <3>1
    <2>3. stored' = stored /\ Newest(stored)' = Newest(stored) /\ Oldest(stored)' = Oldest(stored)
      BY <1>1
    <2>4. job'.cursor = From' /\ Purpose'
      <3>1. CASE job'.backfill
        BY <2>2, <2>3, <3>1 DEF From, Purpose
      <3>2. CASE ~job'.backfill
        BY <2>2, <2>3, <3>2 DEF From, Purpose
      <3>3. QED
        BY <3>1, <3>2
    <2>5. WalkInv'
      BY <2>1, <2>4 DEF WalkInv
    <2>6. NoGap' /\ (\A b \in stored : Listed <= b /\ b + Approx <= now)'
      BY <1>1 DEF GInv, NoGap
    <2>7. job'.started <= now' /\ \A b \in stored' : b + Approx <= job'.started
      BY <1>1, <2>1 DEF GInv
    <2>8. QED
      BY <2>1, <2>4, <2>5, <2>6, <2>7 DEF GInv
  <1>4. QED
    BY <1>2, <1>3

\* A page goes on, or is the last one.
LEMMA GapPage ==
  ASSUME GInv, TInv', Limit > 1, WithinGuard, Page
  PROVE  GInv'
  <1> DEFINE raw == Response(job.cursor, Limit, job.answered)
             fresh == {b \in raw : \A x \in job.bars : b > x}
             all == job.bars \cup fresh
             last == fresh = {} \/ Cardinality(raw) < Limit
  <1>1. TInv /\ TypeOK /\ job.pc = "pages" /\ WalkInv /\ Purpose /\ job \in Job
    BY DEF GInv, TInv, TypeOK, Page
  <1>2. /\ job'.bars = all /\ UNCHANGED <<now, stored, earliest>> /\ job' \in Job
        /\ job'.started = job.started /\ job'.target = job.target /\ job'.backfill = job.backfill
    BY <1>1, PageEffect
  <1>3. /\ ~last => job'.pc = "pages" /\ job'.cursor = Newest(all) /\ all # {}
        /\ last => job'.pc \in {"earliest", "upsert"}
    <2>1. job.pages + 1 # MaxPages
      BY <1>1, CollectionAssumption DEF WithinGuard, Job
    <2>2. QED
      BY <1>1, <2>1, PageEffect
  <1>a. /\ job.answered \in Nat /\ job.answered <= now /\ job.started <= job.answered
        /\ job'.answered = None
    <2>1. job.answered \in Time /\ job'.answered = None
      BY <1>1, PageEffect
    <2>2. job.answered \in Nat /\ job.answered # None
      BY <2>1, CollectionAssumption DEF Time
    <2>3. QED
      BY <2>1, <2>2 DEF GInv
  <1>4. From \in Int /\ job.cursor \in Int /\ now \in Nat /\ job.bars \in SUBSET Opens
        /\ job.started \in Nat /\ job.started <= now
    <2>1. job.cursor \in Int /\ now \in Nat /\ job.bars \in SUBSET Opens /\ job.started \in Nat
      BY <1>1, CollectionAssumption DEF TypeOK, Time, Job
    <2>2. job.started <= now
      BY <1>1 DEF GInv
    <2>3. job.target \in Int /\ stored \in SUBSET Opens
      BY <1>1 DEF TypeOK, Job
    <2>4. ~job.backfill => Newest(stored) \in Int
      BY <1>1, <2>3, Ends DEF Purpose
    <2>5. From \in Int
      BY <2>3, <2>4 DEF From
    <2>6. QED
      BY <2>1, <2>2, <2>5
  <1>5. From' = From
    BY <1>2 DEF From
  <1>6. /\ \A x \in all : From <= x /\ Listed <= x /\ x + Approx <= now
        /\ \A x \in all, b \in Opens : From <= b /\ Listed <= b /\ b <= x => b \in all
        /\ last => \A b \in Opens : From <= b /\ Listed <= b /\ b + Approx <= job.answered
                                    => b \in all
    <2> DEFINE from == From
    <2>1. /\ \A x \in job.bars : from <= x /\ Listed <= x /\ x + Approx <= now
          /\ \A x \in job.bars, b \in Opens : from <= b /\ Listed <= b /\ b <= x => b \in job.bars
          /\ job.bars = {} => job.cursor = from
          /\ job.bars # {} => job.cursor = Newest(job.bars)
      BY <1>1 DEF WalkInv
    <2>2. from \in Int
      BY <1>4
    <2> HIDE DEF from
    <2>3. /\ \A x \in all : from <= x /\ Listed <= x /\ x + Approx <= now
          /\ \A x \in all, b \in Opens : from <= b /\ Listed <= b /\ b <= x => b \in all
          /\ last => \A b \in Opens : from <= b /\ Listed <= b /\ b + Approx <= job.answered
                                      => b \in all
      BY <1>4, <1>a, <2>1, <2>2, PageIsContinuation
    <2>4. QED
      BY <2>3 DEF from
  <1> HIDE DEF all, last, raw, fresh
  <1>7. WalkInv'
    <2>1. \A x \in job'.bars : From' <= x /\ Listed <= x /\ x + Approx <= now'
      BY <1>2, <1>5, <1>6
    <2>2. \A x \in job'.bars, b \in Opens : From' <= b /\ Listed <= b /\ b <= x => b \in job'.bars
      BY <1>2, <1>5, <1>6
    <2>3. job'.pc = "pages" => job'.bars # {} /\ job'.cursor = Newest(job'.bars)
      BY <1>2, <1>3
    <2>4. QED
      BY <2>1, <2>2, <2>3 DEF WalkInv
  <1>8. Purpose'
    BY <1>1, <1>2 DEF Purpose
  <1>9. job'.pc \in {"earliest", "upsert"} => Complete'
    <2>1. last => \A b \in Opens : From <= b /\ Listed <= b /\ b + Approx <= job.started => b \in all
      <3>1. Opens \subseteq Nat /\ Approx \in Nat
        BY CollectionAssumption
      <3>2. \A b \in Opens : b + Approx <= job.started => b + Approx <= job.answered
        BY <1>4, <1>a, <3>1
      <3>3. QED
        BY <1>6, <3>2
    <2>2. last => Complete'
      BY <1>2, <1>5, <2>1 DEF Complete
    <2>3. QED
      BY <1>3, <2>2
  <1>10. NoGap' /\ (\A b \in stored : Listed <= b /\ b + Approx <= now)'
    BY <1>2 DEF GInv, NoGap
  <1>11. job'.started <= now' /\ \A b \in stored' : b + Approx <= job'.started
    BY <1>1, <1>2, <1>4 DEF GInv
  <1>12. job'.pc \in {"pages", "earliest", "upsert"}
    BY <1>3
  <1>13. QED
    BY <1>7, <1>8, <1>9, <1>10, <1>11, <1>12, <1>a DEF GInv

\* The first bar of the walk is recorded.
LEMMA GapRecord ==
  ASSUME GInv, TInv', RecordEarliest
  PROVE  GInv'
  <1> DEFINE next == [job EXCEPT !.pc = "upsert"]
  <1>1. job \in Job /\ job.pc = "earliest" /\ WalkInv /\ Purpose /\ Complete
    BY DEF GInv, TInv, TypeOK, RecordEarliest
  <1>2. /\ next.pc = "upsert" /\ next.started = job.started /\ next.target = job.target
        /\ next.bars = job.bars
    BY <1>1 DEF Job
  <1>3. next.backfill = job.backfill
    BY <1>1 DEF Job
  <1>4. job' = next /\ UNCHANGED <<now, stored>>
    BY DEF RecordEarliest
  <1> HIDE DEF next
  <1>5. From' = From
    BY <1>2, <1>3, <1>4 DEF From
  <1>6. WalkInv'
    BY <1>1, <1>2, <1>4, <1>5 DEF WalkInv
  <1>7. Complete'
    BY <1>1, <1>2, <1>4, <1>5 DEF Complete
  <1>8. Purpose'
    <2>1. job.backfill
      BY <1>1 DEF GInv, TInv
    <2>2. QED
      BY <1>1, <1>2, <1>3, <1>4, <2>1 DEF Purpose
  <1>9. NoGap' /\ (\A b \in stored : Listed <= b /\ b + Approx <= now)'
    BY <1>4 DEF GInv, NoGap
  <1>10. job'.started <= now' /\ \A b \in stored' : b + Approx <= job'.started
    BY <1>1, <1>2, <1>4 DEF GInv
  <1>11. job'.answered = None
    BY <1>2, <1>4 DEF TInv
  <1>12. QED
    BY <1>2, <1>4, <1>6, <1>7, <1>8, <1>9, <1>10, <1>11 DEF GInv

\* What the walk has fetched joins what is stored without a gap: a backfill has every
\* bar that is stored, an increment starts from the newest of them.
LEMMA GapUpsert ==
  ASSUME GInv, TInv', Upsert
  PROVE  GInv'
  <1>1. TypeOK /\ job.pc = "upsert" /\ WalkInv /\ Purpose /\ Complete /\ NoGap
    BY DEF GInv, TInv, Upsert
  <1>2. /\ Opens \subseteq Nat /\ stored \in SUBSET Opens /\ job.bars \in SUBSET Opens /\ Approx \in Nat
        /\ job.started \in Nat /\ job.target \in Int /\ Listed \in Nat /\ now \in Nat
    BY <1>1, CollectionAssumption DEF TypeOK, Job, Time
  <1>3. stored' = stored \cup Kept /\ job' = Idle /\ now' = now
    BY DEF Upsert
  <1>4. \A b \in stored : Listed <= b /\ b + Approx <= now /\ b + Approx <= job.started
    BY <1>1 DEF GInv
  <1>5. (\A b \in stored : Listed <= b /\ b + Approx <= now)'
    BY <1>1, <1>3, <1>4 DEF Kept, WalkInv
  <1>6. CASE job.backfill
    <2>1. From = job.target /\ Kept = job.bars
      BY <1>6 DEF From, Kept
    <2>2. \A b \in stored : From <= b
      <3> TAKE b \in stored
      <3>1. Oldest(stored) <= b /\ Oldest(stored) \in Nat
        BY <1>2, Ends
      <3>2. Oldest(stored) > job.target
        BY <1>1, <1>6 DEF Purpose
      <3>3. QED
        BY <1>2, <2>1, <3>1, <3>2
    <2>3. \A b \in stored : b \in job.bars
      BY <1>1, <1>2, <1>4, <2>2 DEF Complete
    <2>4. stored' = job.bars
      BY <1>3, <2>1, <2>3
    <2>5. NoGap'
      <3> SUFFICES ASSUME NEW a \in job.bars, NEW c \in job.bars, NEW b \in Opens, a < b, b < c
                   PROVE  b \in job.bars
        BY <2>4 DEF NoGap
      <3>1. From <= a /\ Listed <= a /\ a \in Nat /\ b \in Nat /\ c \in Nat
        BY <1>1, <1>2 DEF WalkInv
      <3>2. From <= b /\ Listed <= b /\ b <= c
        BY <1>2, <2>1, <3>1
      <3>3. QED
        BY <1>1, <3>2 DEF WalkInv
    <2>6. QED
      BY <1>3, <1>5, <2>5, IdleIsJob DEF GInv
  <1>7. CASE ~job.backfill
    <2>1. stored # {} /\ From = Newest(stored) /\ Kept = {b \in job.bars : b > Newest(stored)}
      BY <1>1, <1>7 DEF From, Kept, Purpose
    <2> DEFINE newest == Newest(stored)
    <2>2. newest \in stored /\ newest \in Nat /\ \A b \in stored : b <= newest
      BY <1>2, <2>1, Ends
    <2>3. ASSUME NEW a \in stored', NEW c \in stored', NEW b \in Opens, a < b, b < c
          PROVE  b \in stored'
      <3>1. a \in Nat /\ b \in Nat /\ c \in Nat /\ Listed <= a
        BY <1>2, <1>3, <1>5, <2>1
      <3>2. CASE b <= newest
        <4>1. a \in stored
          BY <1>2, <1>3, <2>1, <2>2, <2>3, <3>1, <3>2
        <4>2. b # newest => b < newest
          BY <2>2, <3>1, <3>2
        <4>3. QED
          BY <1>1, <1>3, <2>2, <2>3, <4>1, <4>2 DEF NoGap
      <3>3. CASE b > newest
        <4>1. c \in job.bars
          <5>1. c \notin stored
            BY <2>2, <2>3, <3>1, <3>3
          <5>2. QED
            BY <1>3, <2>1, <5>1
        <4>2. From <= b /\ Listed <= b /\ b <= c
          BY <1>2, <2>1, <2>2, <2>3, <3>1, <3>3
        <4>3. b \in job.bars
          BY <1>1, <4>1, <4>2 DEF WalkInv
        <4>4. QED
          BY <1>3, <2>1, <3>3, <4>3
      <3>4. QED
        BY <2>2, <3>1, <3>2, <3>3
    <2>4. NoGap'
      BY <2>3 DEF NoGap
    <2>5. QED
      BY <1>3, <1>5, <2>4, IdleIsJob DEF GInv
  <1>8. QED
    BY <1>6, <1>7

\* Every step keeps the history free of gaps.
LEMMA GapStep ==
  ASSUME NoBarIsShorter, Limit > 1, GInv, WithinGuard, [Next]_vars
  PROVE  GInv'
  <1>t. TInv /\ TInv' /\ TypeOK /\ now \in Nat /\ job \in Job
    BY TypeStep, CollectionAssumption DEF GInv, TInv, TypeOK, Time
  <1>1. CASE Tick
    <2>1. job' = job /\ stored' = stored /\ earliest' = earliest /\ now' = now + 1
      BY <1>1 DEF Tick, database
    <2>2. QED
      BY <1>t, <2>1, GapSame
  <1>2. CASE Begin
    <2>1. /\ job'.pc = "decide" /\ job'.started = now /\ job'.bars = {} /\ job'.answered = None
          /\ UNCHANGED <<now, stored>>
      BY <1>2, <1>t, BeginEffect DEF database
    <2>2. NoGap' /\ (\A b \in stored : Listed <= b /\ b + Approx <= now)'
      BY <2>1 DEF GInv, NoGap
    <2>3. job'.started <= now' /\ \A b \in stored' : b + Approx <= job'.started
      BY <1>t, <2>1 DEF GInv
    <2>4. QED
      BY <1>t, <2>1, <2>2, <2>3 DEF GInv
  <1>3. CASE Decide \/ Probe
    BY <1>3, <1>t, GapDecide
  <1>4. CASE Retry
    <2> DEFINE next == [job EXCEPT !.tries = @ + 1]
    <2>1. /\ next.pc = job.pc /\ next.started = job.started /\ next.target = job.target
          /\ next.cursor = job.cursor /\ next.bars = job.bars /\ next.answered = job.answered
      BY <1>t DEF Job
    <2>2. next.backfill = job.backfill
      BY <1>t DEF Job
    <2>3. job' = next /\ stored' = stored /\ earliest' = earliest /\ now' = now
      BY <1>4 DEF Retry, database
    <2> HIDE DEF next
    <2>4. QED
      BY <1>t, <2>1, <2>2, <2>3, GapSame
  <1>5. CASE GiveUp \/ Abandon
    BY <1>5, <1>t, IdleIsJob, GapQuiet DEF GiveUp, Abandon, database
  <1>6. CASE Page
    BY <1>6, <1>t, GapPage
  <1>7. CASE RecordEarliest
    BY <1>7, <1>t, GapRecord
  <1>8. CASE Upsert
    BY <1>8, <1>t, GapUpsert
  <1>9. CASE AskListing \/ Reconfigure \/ UNCHANGED vars
    <2>1. job' = job /\ stored' = stored /\ now' = now /\ (earliest' = earliest \/ job.pc = "idle")
      BY <1>9 DEF AskListing, Reconfigure, vars, database
    <2>2. QED
      BY <1>t, <2>1, GapSame
  <1>10. CASE Answer
    BY <1>10, <1>t, AnswerEffect, GapSame
  <1>11. QED
    BY <1>1, <1>2, <1>3, <1>4, <1>5, <1>6, <1>7, <1>8, <1>9, <1>10 DEF Next, Proceed

\* The stored history never has a gap as long as no walk runs into its page guard and
\* no bar is shorter than the program takes it to be: whatever fails, however long a
\* walk takes and however the lookback changes (get_klines_since, _needs_backfill).
THEOREM HistoryHasNoGap ==
  ASSUME NoBarIsShorter, Limit > 1
  PROVE  Spec /\ []WithinGuard => []NoGap
  <1>1. Init => GInv
    BY GapInit
  <1>2. GInv /\ WithinGuard /\ [Next]_vars => GInv'
    BY GapStep
  <1>3. GInv => NoGap
    BY DEF GInv
  <1>4. QED
    BY <1>1, <1>2, <1>3, PTL DEF Spec

-----------------------------------------------------------------------------
(* Completeness *)

\* The bars that a collection owes when it returns.
Owed(b) == /\ b \in Opens /\ Over(b, job.started) /\ b >= job.target /\ b >= Listed
           /\ earliest' # None => b >= earliest'

\* What is stored covers the bars up to its newest one, where no backfill is due.
LEMMA HeadIsStored ==
  ASSUME GInv, stored # {}, NEW b, Owed(b), b <= Newest(stored),
         Oldest(stored) <= job.target \/ (earliest' # None /\ earliest' >= Oldest(stored)),
         earliest' \in Opens \cup {None}
  PROVE  b \in stored
  <1>1. /\ stored \in SUBSET Opens /\ Opens \subseteq Nat /\ None \notin Opens /\ job.target \in Int
        /\ b \in Opens /\ b \in Nat /\ b >= job.target
    BY CollectionAssumption DEF GInv, TInv, TypeOK, Job, Owed
  <1>2. /\ Oldest(stored) \in stored /\ Oldest(stored) \in Nat
        /\ Newest(stored) \in stored /\ Newest(stored) \in Nat
    BY <1>1, Ends
  <1>3. Oldest(stored) <= b
    <2>1. CASE Oldest(stored) <= job.target
      BY <1>1, <1>2, <2>1
    <2>2. CASE earliest' # None /\ earliest' >= Oldest(stored)
      <3>1. earliest' \in Nat /\ b >= earliest'
        BY <1>1, <2>2 DEF Owed
      <3>2. QED
        BY <1>1, <1>2, <2>2, <3>1
    <2>3. QED
      BY <2>1, <2>2
  <1>4. CASE b = Oldest(stored) \/ b = Newest(stored)
    BY <1>2, <1>4
  <1>5. CASE b # Oldest(stored) /\ b # Newest(stored)
    <2>1. Oldest(stored) < b /\ b < Newest(stored)
      BY <1>1, <1>2, <1>3, <1>5
    <2>2. QED
      BY <1>1, <1>2, <2>1 DEF GInv, NoGap
  <1>6. QED
    BY <1>4, <1>5

\* A collection that returns has stored what it owes.
LEMMA CompleteStep ==
  ASSUME NoBarIsShorter, GInv, [Next]_vars, job.pc # "idle", job'.pc = "idle", faults' = faults,
         NEW b, Owed(b)
  PROVE  b \in stored'
  <1>t. TInv /\ TypeOK
    BY DEF GInv, TInv
  <1>n. /\ stored \in SUBSET Opens /\ Opens \subseteq Nat /\ Approx \in Nat \ {0} /\ job.target \in Int
        /\ job.started \in Nat /\ now \in Nat /\ job.started <= now
        /\ earliest \in Opens \cup {None}
    BY <1>t, CollectionAssumption DEF GInv, TypeOK, Job, Time
  <1>b. b \in Opens /\ b \in Nat /\ b >= job.target /\ b >= Listed
    BY <1>n DEF Owed
  <1>o. PICK x \in Opens : b < x /\ x <= job.started
    BY DEF Owed, Over
  <1>s. b + Approx <= x /\ b + Approx <= job.started /\ x \in Nat
    BY <1>n, <1>b, <1>o DEF NoBarIsShorter
  <1>1. CASE Decide \/ Probe
    <2>1. /\ UpToDate /\ stored # {} /\ stored' = stored /\ earliest' \in Opens \cup {None}
          /\ Oldest(stored) <= job.target \/ (earliest' # None /\ earliest' >= Oldest(stored))
      BY <1>1, <1>t, DecideEffect
    <2>2. Newest(stored) \in stored /\ Newest(stored) \in Nat
      BY <1>n, <2>1, Ends
    <2>3. ASSUME b > Newest(stored) PROVE FALSE
      <3>1. Newest(stored) + Approx <= b
        BY <1>n, <1>b, <2>2, <2>3 DEF NoBarIsShorter
      <3>2. now < Newest(stored) + 2 * Approx
        BY <2>1 DEF UpToDate
      <3>3. QED
        BY <1>n, <1>b, <1>o, <1>s, <2>2, <3>1, <3>2
    <2>4. b <= Newest(stored)
      BY <1>b, <2>2, <2>3
    <2>5. QED
      BY <2>1, <2>4, HeadIsStored
  <1>2. CASE Upsert
    <2>1. WalkInv /\ Purpose /\ Complete /\ stored' = stored \cup Kept /\ earliest' = earliest
      BY <1>2 DEF Upsert, GInv
    <2>2. CASE job.backfill
      BY <1>b, <1>s, <2>1, <2>2 DEF Complete, From, Kept
    <2>3. CASE ~job.backfill
      <3>1. /\ stored # {} /\ From = Newest(stored) /\ Kept = {y \in job.bars : y > Newest(stored)}
            /\ Oldest(stored) <= job.target \/ (earliest # None /\ earliest >= Oldest(stored))
        BY <2>1, <2>3 DEF Purpose, From, Kept
      <3>2. Newest(stored) \in Nat
        BY <1>n, <3>1, Ends
      <3>3. CASE b <= Newest(stored)
        BY <1>n, <2>1, <3>1, <3>3, HeadIsStored
      <3>4. CASE b > Newest(stored)
        BY <1>b, <1>s, <2>1, <3>1, <3>2, <3>4 DEF Complete
      <3>5. QED
        BY <1>b, <3>2, <3>3, <3>4
    <2>4. QED
      BY <2>2, <2>3
  <1>3. CASE Page
    BY <1>3, <1>t, PageEffect
  <1>4. CASE RecordEarliest
    <2>1. [job EXCEPT !.pc = "upsert"].pc = "upsert"
      BY <1>t DEF TypeOK, Job
    <2>2. QED
      BY <1>4, <2>1 DEF RecordEarliest
  <1>5. CASE Retry \/ GiveUp \/ Abandon
    <2>1. faults' = faults + 1 /\ faults \in Nat
      BY <1>5, <1>t, CollectionAssumption DEF Retry, GiveUp, Abandon, TypeOK
    <2>2. QED
      BY <2>1
  <1>6. CASE Begin \/ Tick \/ AskListing \/ Reconfigure \/ UNCHANGED vars
    BY <1>6 DEF Begin, Tick, AskListing, Reconfigure, vars
  <1>7. CASE Answer
    BY <1>7, <1>t, AnswerEffect
  <1>8. QED
    BY <1>1, <1>2, <1>3, <1>4, <1>5, <1>6, <1>7 DEF Next, Proceed

\* A collection that returns has every bar of its lookback that was over when it began,
\* except those that collection_state says the exchange does not have: as long as no
\* walk runs into its page guard and no bar is shorter than it is taken to be.
THEOREM CollectionsAreComplete ==
  ASSUME NoBarIsShorter, Limit > 1
  PROVE  Spec /\ []WithinGuard => CollectionIsComplete
  <1> DEFINE Returns == job.pc # "idle" /\ job'.pc = "idle" /\ faults' = faults =>
                          \A b \in Opens : /\ Over(b, job.started) /\ b >= job.target /\ b >= Listed
                                           /\ earliest' # None => b >= earliest'
                                           => b \in stored'
  <1>1. Init => GInv
    BY GapInit
  <1>2. GInv /\ WithinGuard /\ [Next]_vars => GInv'
    BY GapStep
  <1>3. GInv /\ [Next]_vars => Returns
    BY CompleteStep DEF Owed
  <1>4. GInv /\ [Next]_vars => [Returns]_vars
    BY <1>3
  <1> HIDE DEF Returns
  <1>5. Spec /\ []WithinGuard => [][Returns]_vars
    BY <1>1, <1>2, <1>4, PTL DEF Spec
  <1>6. QED
    BY <1>5, PTL DEF CollectionIsComplete, Returns

-----------------------------------------------------------------------------
(* The page guard *)

\* Each page after which a walk goes on was full, and all but the bar at which it was
\* asked for is new.
Share == job.pages * (Limit - 1)
CountInv ==
    job.pc = "pages" => \/ job.pages = 0 /\ job.bars = {}
                        \/ Share < Cardinality(job.bars)

\* Counting what is added to a set.
LEMMA OneMore ==
  ASSUME NEW S, IsFiniteSet(S), NEW x, NEW T, T \subseteq S \cup {x}
  PROVE  Cardinality(S) + 1 >= Cardinality(T)
  <1>1. IsFiniteSet(S \cup {x})
        /\ Cardinality(S \cup {x}) = IF x \in S THEN Cardinality(S) ELSE Cardinality(S) + 1
    BY FS_AddElement
  <1>2. Cardinality(T) <= Cardinality(S \cup {x}) /\ Cardinality(T) \in Nat
    BY <1>1, FS_Subset, FS_CardinalityType
  <1>3. Cardinality(S) \in Nat
    BY FS_CardinalityType
  <1>4. Cardinality(S \cup {x}) <= Cardinality(S) + 1 /\ Cardinality(S \cup {x}) \in Nat
    BY <1>1, <1>3
  <1> DEFINE all == Cardinality(S \cup {x})
             part == Cardinality(T)
             old == Cardinality(S)
  <1>5. part <= all /\ all <= old + 1 /\ part \in Nat /\ all \in Nat /\ old \in Nat
    BY <1>2, <1>3, <1>4
  <1> HIDE DEF all, part, old
  <1>6. old + 1 >= part
    BY <1>5
  <1>7. QED
    BY <1>6 DEF old, part

LEMMA TwoParts ==
  ASSUME NEW S, IsFiniteSet(S), NEW T, IsFiniteSet(T), S \cap T = {}
  PROVE  Cardinality(S \cup T) = Cardinality(S) + Cardinality(T)
  <1>1. Cardinality(S \cup T) = Cardinality(S) + Cardinality(T) - Cardinality(S \cap T)
    BY FS_Union
  <1>2. Cardinality(S \cap T) = 0
    BY FS_EmptySet
  <1>3. Cardinality(S) \in Nat /\ Cardinality(T) \in Nat
    BY FS_CardinalityType
  <1>4. QED
    BY <1>1, <1>2, <1>3

\* A walk that has nearly used its pages up would hold more bars than there are.
LEMMA WalkEndsInTime ==
  ASSUME PagesHoldAll, Limit > 1, GInv, CountInv
  PROVE  WithinGuard
  <1> SUFFICES ASSUME job.pc = "pages", ~(job.pages + 1 < MaxPages) PROVE FALSE
    BY DEF WithinGuard
  <1> DEFINE given == {b \in Opens : Listed <= b /\ b + Approx <= MaxTime}
  <1>1. /\ MaxPages \in Nat /\ Limit \in Nat /\ Approx \in Nat /\ MaxTime \in Nat /\ Opens \subseteq Nat
        /\ job.pages \in Nat /\ job.bars \in SUBSET Opens /\ now \in Nat /\ now <= MaxTime
    BY CollectionAssumption DEF GInv, TInv, TypeOK, Job, Time
  <1>2. job.pages = MaxPages - 1
    BY <1>1 DEF GInv, TInv
  <1>3. Share < Cardinality(job.bars)
    BY <1>1, <1>2 DEF CountInv, PagesHoldAll
  <1>4. job.bars \subseteq given
    <2> SUFFICES ASSUME NEW b \in job.bars PROVE Listed <= b /\ b + Approx <= MaxTime
      BY <1>1
    <2>1. b \in Nat /\ Listed <= b /\ b + Approx <= now
      BY <1>1 DEF GInv, WalkInv
    <2>2. QED
      BY <1>1, <2>1
  <1>5. Cardinality(job.bars) <= Cardinality(given) /\ Cardinality(job.bars) \in Nat
        /\ Cardinality(given) \in Nat
    <2>1. given \in SUBSET Opens
      OBVIOUS
    <2> HIDE DEF given
    <2>2. QED
      BY <1>1, <1>4, <2>1, BarsAreFinite
  <1>6. Cardinality(given) <= Share
    BY <1>2 DEF PagesHoldAll, Share
  <1>7. Share \in Int
    BY <1>1, SMT DEF Share
  <1> HIDE DEF given
  <1>8. QED
    BY <1>3, <1>5, <1>6, <1>7

\* A page after which the walk goes on.
LEMMA PageCounts ==
  ASSUME Limit > 1, GInv, CountInv, Page, job'.pc = "pages"
  PROVE  CountInv'
  <1> DEFINE raw == Response(job.cursor, Limit, job.answered)
             fresh == {b \in raw : \A x \in job.bars : b > x}
             last == fresh = {} \/ Cardinality(raw) < Limit \/ job.pages + 1 = MaxPages
  <1>1. /\ Opens \subseteq Nat /\ IsFiniteSet(Opens) /\ Limit \in Nat /\ job.pages \in Nat
        /\ job.bars \in SUBSET Opens /\ job.cursor \in Int
        /\ raw \in SUBSET Opens /\ \A b \in raw : job.cursor <= b
    BY CollectionAssumption, ResponseIsOpen DEF GInv, TInv, TypeOK, Job
  <1>2. TInv /\ WalkInv /\ job.pc = "pages"
    BY DEF GInv, Page
  <1>3. job'.bars = job.bars \cup fresh /\ job'.pages = job.pages + 1 /\ ~last
    BY <1>2, PageEffect
  <1>4. fresh \in SUBSET Opens
    BY <1>1
  <1>5. Cardinality(raw) >= Limit
    <2>1. Cardinality(raw) \in Nat
      <3> HIDE DEF raw
      <3>1. QED
        BY <1>1, BarsAreFinite
    <2>2. ~(Cardinality(raw) < Limit)
      BY <1>3
    <2> HIDE DEF raw
    <2>3. QED
      BY <1>1, <2>1, <2>2
  <1>6. job'.pages * (Limit - 1) = Share + Limit - 1 /\ Share \in Int
    BY <1>1, <1>3, SMT DEF Share
  <1>7. CASE job.bars = {}
    <2>1. job'.bars = raw
      BY <1>3, <1>7
    <2>2. Cardinality(job.bars) = 0
      BY <1>7, FS_EmptySet
    <2>3. job.pages = 0 \/ Share < 0
      BY <1>2, <2>2 DEF CountInv
    <2>4. 0 <= Share
      BY <1>1, SMT DEF Share
    <2>5. Share = 0
      BY <1>1, <1>6, <2>3, <2>4, SMT DEF Share
    <2> HIDE DEF raw
    <2>6. Cardinality(job'.bars) >= Limit /\ Cardinality(job'.bars) \in Nat
      BY <1>1, <1>5, <2>1, BarsAreFinite
    <2>7. Share' < Cardinality(job'.bars)
      BY <1>1, <1>6, <2>5, <2>6 DEF Share
    <2>8. QED
      BY <2>7 DEF CountInv
  <1>8. CASE job.bars # {}
    <2>1. job.cursor \in job.bars /\ \A x \in job.bars : x <= job.cursor
      <3>1. job.cursor = Newest(job.bars)
        BY <1>2, <1>8 DEF WalkInv
      <3>2. \A x \in job.bars : x \in Nat
        BY <1>1
      <3>3. Newest(job.bars) \in job.bars /\ \A x \in job.bars : Newest(job.bars) >= x
        BY <1>1, <1>8, Ends
      <3>4. QED
        BY <3>1, <3>2, <3>3
    <2>2. raw \subseteq fresh \cup {job.cursor}
      <3> SUFFICES ASSUME NEW b \in raw, b # job.cursor PROVE \A x \in job.bars : b > x
        OBVIOUS
      <3>1. b \in Nat /\ job.cursor <= b
        BY <1>1
      <3>2. \A x \in job.bars : x \in Nat /\ x <= job.cursor
        BY <1>1, <2>1
      <3> HIDE DEF raw
      <3>3. QED
        BY <1>1, <3>1, <3>2
    <2>3. fresh \cap job.bars = {}
      <3> SUFFICES ASSUME NEW b \in fresh, b \in job.bars PROVE FALSE
        OBVIOUS
      <3>1. b > b /\ b \in Nat
        BY <1>1
      <3>2. QED
        BY <3>1
    <2>4. IsFiniteSet(fresh) /\ IsFiniteSet(job.bars) /\ IsFiniteSet(raw)
      BY <1>1, <1>4, FS_Subset
    <2> HIDE DEF fresh, raw
    <2>5. Cardinality(fresh) + 1 >= Cardinality(raw)
      BY <2>2, <2>4, OneMore
    <2>6. Cardinality(job'.bars) = Cardinality(job.bars) + Cardinality(fresh)
      BY <1>3, <2>3, <2>4, TwoParts
    <2>7. /\ Cardinality(job.bars) \in Nat /\ Cardinality(fresh) \in Nat /\ Cardinality(raw) \in Nat
      BY <2>4, FS_CardinalityType
    <2>8. Share < Cardinality(job.bars)
      BY <1>2, <1>8 DEF CountInv
    <2>9. Share' < Cardinality(job'.bars)
      BY <1>1, <1>5, <1>6, <2>5, <2>6, <2>7, <2>8 DEF Share
    <2>10. QED
      BY <2>9 DEF CountInv
  <1>9. QED
    BY <1>7, <1>8

\* Every other step leaves the pages alone, or begins a walk.
LEMMA CountStep ==
  ASSUME Limit > 1, GInv, CountInv, [Next]_vars
  PROVE  CountInv'
  <1>t. TInv /\ TypeOK /\ job \in Job
    BY DEF GInv, TInv, TypeOK
  <1>1. CASE Begin
    BY <1>1, <1>t, BeginEffect DEF CountInv
  <1>2. CASE Decide \/ Probe
    BY <1>2, <1>t, DecideFrame, DecideEffect, IdleIsJob DEF CountInv, TInv
  <1>3. CASE Retry
    <2> DEFINE next == [job EXCEPT !.tries = @ + 1]
    <2>1. next.pc = job.pc /\ next.pages = job.pages /\ next.bars = job.bars
      BY <1>t DEF Job
    <2>2. job' = next
      BY <1>3 DEF Retry
    <2> HIDE DEF next
    <2>3. QED
      BY <2>1, <2>2 DEF CountInv, Share
  <1>4. CASE GiveUp \/ Abandon \/ Upsert
    BY <1>4, IdleIsJob DEF GiveUp, Abandon, Upsert, CountInv
  <1>5. CASE Page
    <2>1. CASE job'.pc = "pages"
      BY <1>5, <2>1, PageCounts
    <2>2. CASE job'.pc # "pages"
      BY <2>2 DEF CountInv
    <2>3. QED
      BY <2>1, <2>2
  <1>6. CASE RecordEarliest
    <2>1. [job EXCEPT !.pc = "upsert"].pc = "upsert"
      BY <1>t DEF Job
    <2>2. QED
      BY <1>6, <2>1 DEF RecordEarliest, CountInv
  <1>7. CASE Tick \/ AskListing \/ Reconfigure \/ UNCHANGED vars
    BY <1>7 DEF Tick, AskListing, Reconfigure, vars, CountInv, Share
  <1>8. CASE Answer
    BY <1>8, <1>t, AnswerEffect DEF CountInv, Share
  <1>9. QED
    BY <1>1, <1>2, <1>3, <1>4, <1>5, <1>6, <1>7, <1>8 DEF Next, Proceed


\* While the pages of the guard hold all there is to be had, GInv needs no other
\* condition to be inductive.
LEMMA GuardedStep ==
  ASSUME NoBarIsShorter, Limit > 1, PagesHoldAll
  PROVE  Spec => [](GInv /\ CountInv)
  <1>1. Init => GInv /\ CountInv
    <2>1. Init => CountInv
      BY IdleIsJob DEF Init, CountInv
    <2>2. QED
      BY <2>1, GapInit
  <1>2. (GInv /\ CountInv) /\ [Next]_vars => (GInv /\ CountInv)'
    BY WalkEndsInTime, GapStep, CountStep
  <1>3. QED
    BY <1>1, <1>2, PTL DEF Spec

\* No walk is cut off by the guard while the guard's pages hold every bar there is.
THEOREM NoWalkIsCutOff ==
  ASSUME NoBarIsShorter, Limit > 1, PagesHoldAll
  PROVE  Spec => []WithinGuard
  <1>1. GInv /\ CountInv => WithinGuard
    BY WalkEndsInTime
  <1>2. QED
    BY <1>1, GuardedStep, PTL

\* So that the history has no gap in any behaviour.
THEOREM HistoryNeverHasAGap ==
  ASSUME NoBarIsShorter, Limit > 1, PagesHoldAll
  PROVE  Spec => []NoGap
  BY NoWalkIsCutOff, HistoryHasNoGap, PTL

\* And every collection that returns is complete.
THEOREM EveryCollectionIsComplete ==
  ASSUME NoBarIsShorter, Limit > 1, PagesHoldAll
  PROVE  Spec => CollectionIsComplete
  BY NoWalkIsCutOff, CollectionsAreComplete, PTL

-----------------------------------------------------------------------------
(* Prices of forming bars *)

\* Whatever a collection has fetched with the prices of a forming bar was not over when
\* the collection began: every answer is younger than that.
YInv == \A b \in job.forming : ~Over(b, job.started)

LEMMA YoungStep ==
  ASSUME GInv, YInv, [Next]_vars
  PROVE  YInv'
  <1>t. TInv /\ TypeOK /\ job \in Job
    BY DEF GInv, TInv, TypeOK
  <1>1. ASSUME job'.forming = {} PROVE YInv'
    BY <1>1 DEF YInv
  <1>2. ASSUME job'.forming = job.forming, job'.started = job.started PROVE YInv'
    BY <1>2 DEF YInv, Over
  <1>3. CASE Begin
    BY <1>1, <1>3, <1>t, BeginEffect
  <1>4. CASE Decide \/ Probe
    BY <1>1, <1>2, <1>4, <1>t, DecideEffect, IdleIsJob
  <1>5. CASE Retry
    <2> DEFINE next == [job EXCEPT !.tries = @ + 1]
    <2>1. next.forming = job.forming /\ next.started = job.started
      BY <1>t DEF Job
    <2>2. QED
      BY <1>2, <1>5, <2>1 DEF Retry
  <1>6. CASE GiveUp \/ Abandon \/ Upsert
    BY <1>1, <1>6, IdleIsJob DEF GiveUp, Abandon, Upsert
  <1>7. CASE Answer
    BY <1>2, <1>7, <1>t, AnswerEffect
  <1>8. CASE Page
    <2> DEFINE raw == Response(job.cursor, Limit, job.answered)
               fresh == {b \in raw : \A x \in job.bars : b > x}
    <2>1. /\ job'.forming = job.forming \cup {b \in fresh : ~Over(b, job.answered)}
          /\ job'.started = job.started /\ job.answered \in Time
      BY <1>8, <1>t, PageEffect
    <2>2. job.answered \in Nat /\ job.started \in Nat /\ job.started <= job.answered
      BY <1>t, <2>1, CollectionAssumption DEF GInv, Time, Job
    <2>3. \A b : Over(b, job.started) => Over(b, job.answered)
      BY <2>2, OverStays
    <2> HIDE DEF fresh
    <2>4. \A b \in job'.forming : ~Over(b, job.started)
      BY <2>1, <2>3 DEF YInv
    <2>5. QED
      BY <2>1, <2>4 DEF YInv, Over
  <1>9. CASE RecordEarliest
    <2> DEFINE next == [job EXCEPT !.pc = "upsert"]
    <2>1. next.forming = job.forming /\ next.started = job.started
      BY <1>t DEF Job
    <2>2. QED
      BY <1>2, <1>9, <2>1 DEF RecordEarliest
  <1>10. CASE Tick \/ AskListing \/ Reconfigure \/ UNCHANGED vars
    BY <1>2, <1>10 DEF Tick, AskListing, Reconfigure, vars
  <1>11. QED
    BY <1>3, <1>4, <1>5, <1>6, <1>7, <1>8, <1>9, <1>10 DEF Next, Proceed

\* A backfill that lands has every bar from its start on that was over when it began, as
\* it was then: it replaces whatever else is stored of them.
LEMMA RefreshStep ==
  ASSUME NoBarIsShorter, GInv, GInv', YInv, [Next]_vars, job.pc = "upsert", job.backfill,
         job'.pc = "idle", faults' = faults,
         NEW b \in forming', b >= job.target, Over(b, job.started)
  PROVE  FALSE
  <1>t. /\ TypeOK /\ TypeOK' /\ Opens \subseteq Nat /\ Approx \in Nat \ {0}
        /\ job.target \in Int /\ job.started \in Nat
    BY CollectionAssumption DEF GInv, TInv, TypeOK, Job, Time
  <1>1. Upsert \/ Abandon \/ Tick \/ AskListing \/ Reconfigure \/ UNCHANGED vars
    BY DecideEffect, <1>t
    DEF Next, Proceed, Begin, Retry, Asking, Requesting, GiveUp, Answer, Page, RecordEarliest
  <1>2. Upsert
    <2>1. ~Abandon
      BY <1>t, CollectionAssumption DEF Abandon, TypeOK
    <2>2. QED
      BY <1>1, <2>1 DEF Tick, AskListing, Reconfigure, vars
  <1>3. forming' = (forming \ Kept) \cup (job.forming \cap Kept) /\ Kept = job.bars
    BY <1>2 DEF Upsert, Kept
  <1>4. b \in Opens /\ b \in Nat /\ Listed <= b
    BY <1>t DEF TypeOK, GInv
  <1>5. b \in job.bars
    <2>1. PICK x \in Opens : b < x /\ x <= job.started
      BY DEF Over
    <2>2. b + Approx <= job.started
      BY <1>t, <1>4, <2>1 DEF NoBarIsShorter
    <2>3. Complete /\ From = job.target
      BY DEF GInv, From
    <2>4. QED
      BY <1>t, <1>4, <2>2, <2>3 DEF Complete
  <1>6. b \in job.forming
    BY <1>3, <1>5
  <1>7. QED
    BY <1>6 DEF YInv

\* A backfill that returns leaves no bar with the prices of a forming one that was over
\* when it began: as long as no walk runs into its page guard and no bar is shorter than
\* it is taken to be.
THEOREM BackfillsRefresh ==
  ASSUME NoBarIsShorter, Limit > 1, PagesHoldAll
  PROVE  Spec => BackfillRefreshes
  <1> DEFINE Refreshes == job.pc = "upsert" /\ job.backfill /\ job'.pc = "idle" /\ faults' = faults =>
                            \A b \in forming' : b >= job.target => ~Over(b, job.started)
  <1>1. Init => YInv
    BY IdleIsJob DEF Init, YInv
  <1>2. GInv /\ YInv /\ [Next]_vars => YInv'
    BY YoungStep
  <1>3. GInv /\ GInv' /\ YInv /\ [Next]_vars => Refreshes
    BY RefreshStep
  <1>4. Spec => [](GInv /\ CountInv)
    BY GuardedStep
  <1>5. Spec => [][Refreshes]_vars
    BY <1>1, <1>2, <1>3, <1>4, PTL DEF Spec
  <1>6. QED
    BY <1>5, PTL DEF BackfillRefreshes, Refreshes

-----------------------------------------------------------------------------
(* CandleHistory is implemented *)

LEMMA SameOver == \A b, at : History!Over(b, at) <=> Over(b, at)
  BY DEF History!Over, Over

\* What is stored can be read.
LEMMA StoredIsReadable == NoBarIsLonger /\ GInv => History!Readable(stored, now)
  <1> SUFFICES ASSUME NoBarIsLonger, GInv PROVE History!Readable(stored, now)
    OBVIOUS
  <1>1. stored \in SUBSET Opens /\ now \in Time
    BY DEF GInv, TInv, TypeOK
  <1>2. \A b \in stored : Listed <= b /\ Over(b, now)
    BY <1>1 DEF GInv, NoBarIsLonger
  <1>3. History!Stretch(stored)
    BY <1>1 DEF History!Stretch, GInv, NoGap
  <1>4. QED
    BY <1>2, <1>3, SameOver DEF History!Readable

LEMMA StoredStaysReadable ==
  NoBarIsLonger /\ GInv' /\ now' = now => History!Readable(stored', now)
  <1> SUFFICES ASSUME NoBarIsLonger, GInv', now' = now PROVE History!Readable(stored', now)
    OBVIOUS
  <1>1. stored' \in SUBSET Opens /\ now \in Time
    BY DEF GInv, TInv, TypeOK, Time
  <1>2. \A b \in stored' : Listed <= b /\ Over(b, now)
    BY <1>1 DEF GInv, NoBarIsLonger
  <1>3. History!Stretch(stored')
    BY <1>1 DEF History!Stretch, GInv, NoGap
  <1>4. QED
    BY <1>2, <1>3, SameOver DEF History!Readable

\* A collection that goes on owes what it owed.
LEMMA OwingStays ==
  ASSUME job.pc # "idle", job'.pc # "idle", job'.started = job.started, job'.target = job.target
  PROVE  Owing' = Owing
  BY DEF Owing, Over

LEMMA NothingOwed == job.pc = "idle" => Owing = {}
  BY DEF Owing

\* A request that is begun owes the bars of the lookback that are over.
LEMMA BeginAsks ==
  ASSUME GInv, Begin
  PROVE  History!Ask
  <1>1. /\ job.pc = "idle" /\ job'.pc = "decide" /\ job'.started = now /\ job'.target = now - lookback
        /\ UNCHANGED <<now, stored, earliest, faults>>
    BY BeginEffect DEF GInv, TInv, Begin, database
  <1>2. now \in Nat /\ lookback \in Nat /\ Opens \subseteq Nat /\ Listed \in Nat
    BY CollectionAssumption DEF GInv, TInv, TypeOK, Time
  <1> DEFINE since == IF now - lookback < 0 THEN 0 ELSE now - lookback
  <1>3. since \in 0..now
    BY <1>2
  <1>4. \A b \in Opens : b >= now - lookback <=> b >= since
    BY <1>2
  <1> HIDE DEF since
  <1>5. Owing' = {b \in Opens : Over(b, now) /\ b >= since /\ b >= Listed}
    <2>1. Owing' = {b \in Opens : Over(b, now) /\ b >= now - lookback /\ b >= Listed}
      BY <1>1 DEF Owing, Over
    <2>2. QED
      BY <1>4, <2>1
  <1>6. QED
    BY <1>1, <1>3, <1>5, SameOver DEF History!Ask

\* A collection that returns without a failure answers.
LEMMA ReturnAnswers ==
  ASSUME NoBarIsShorter, NoBarIsLonger, GInv, GInv', [Next]_vars,
         job.pc # "idle", job'.pc = "idle", stored \subseteq stored',
         earliest' = earliest \/ (earliest' \in Opens /\ earliest' >= Listed),
         UNCHANGED <<now, faults>>
  PROVE  History!Answer
  <1>1. Owing' = {} /\ History!Readable(stored', now)
    BY StoredStaysReadable DEF Owing
  <1>2. \A b \in Owing : (earliest' # None => b >= earliest') => b \in stored'
    BY CompleteStep DEF Owing, Owed
  <1>3. QED
    BY <1>1, <1>2 DEF History!Answer

\* What a probe may find out.
LEMMA ProbeLearns ==
  ASSUME GInv, Decide \/ Probe
  PROVE  /\ earliest' = earliest \/ (earliest' \in Opens /\ earliest' >= Listed)
         /\ \/ faults' = faults
            \/ faults' = faults + 1 /\ earliest' = earliest /\ job'.pc = "pages"
  <1>1. CASE Decide
    BY <1>1 DEF Decide, database
  <1>2. CASE Probe
    <2>1. CASE \E b \in Response(0, 1, now) : earliest' = b /\ UNCHANGED faults
      <3>1. PICK b \in Response(0, 1, now) : earliest' = b /\ UNCHANGED faults
        BY <2>1
      <3>2. b \in Opens /\ Listed <= b /\ Opens \subseteq Nat /\ Listed \in Nat
        BY ResponseIsOpen, CollectionAssumption
      <3>3. QED
        BY <3>1, <3>2
    <2>2. CASE UNCHANGED <<earliest, faults>>
      BY <2>2
    <2>3. CASE faults' = faults + 1 /\ Walk(TRUE, job.target) /\ UNCHANGED earliest
      <3>1. job.target \in Int /\ TypeOK
        BY DEF GInv, TInv, TypeOK, Job
      <3>2. job'.pc = "pages"
        BY <2>3, <3>1, WalkIsJob
      <3>3. QED
        BY <2>3, <3>2
    <2>4. QED
      BY <1>2, <2>1, <2>2, <2>3 DEF Probe
  <1>3. QED
    BY <1>1, <1>2

\* Every step of a collection is one of the history or shows nothing of itself.
LEMMA HistoryStep ==
  ASSUME NoBarIsShorter, NoBarIsLonger, GInv, GInv', [Next]_vars
  PROVE  [History!Next]_(History!vars)
  <1>t. TInv /\ TypeOK /\ job \in Job /\ now \in Nat
    BY CollectionAssumption DEF GInv, TInv, TypeOK, Time
  <1>1. CASE Tick
    <2>1. job' = job /\ now' > now /\ UNCHANGED <<stored, earliest, faults>>
      BY <1>1, <1>t DEF Tick, database
    <2>2. Owing' = Owing
      BY <2>1 DEF Owing, Over
    <2>3. History!Pass
      BY <2>1, <2>2 DEF History!Pass
    <2>4. QED
      BY <2>3 DEF History!Next
  <1>2. CASE Begin
    BY <1>2, BeginAsks DEF History!Next
  <1>3. CASE Decide \/ Probe
    <2>1. job.pc = "decide" /\ UNCHANGED <<now, stored>>
      BY <1>3, <1>t, DecideFrame
    <2>2. CASE job' = Idle
      <3>1. job'.pc = "idle" /\ faults' = faults
        BY <1>3, <2>2, IdleIsJob, ProbeLearns
      <3>2. History!Answer
        BY <1>3, <2>1, <3>1, ProbeLearns, ReturnAnswers
      <3>3. QED
        BY <3>2 DEF History!Next
    <2>3. CASE job' # Idle
      <3>1. job'.pc = "pages" /\ job'.started = job.started /\ job'.target = job.target
        BY <1>3, <1>t, <2>3, DecideEffect
      <3>2. Owing' = Owing
        BY <2>1, <3>1, OwingStays
      <3>3. CASE faults' = faults /\ earliest' = earliest
        BY <2>1, <3>1, <3>2, <3>3 DEF History!vars
      <3>4. CASE faults' = faults /\ earliest' \in Opens /\ earliest' >= Listed
        <4>1. History!Learn
          BY <2>1, <3>1, <3>2, <3>4 DEF History!Learn
        <4>2. QED
          BY <4>1 DEF History!Next
      <3>5. CASE faults' = faults + 1 /\ earliest' = earliest
        <4>1. History!Fail
          BY <2>1, <3>1, <3>2, <3>5 DEF History!Fail
        <4>2. QED
          BY <4>1 DEF History!Next
      <3>6. QED
        BY <1>3, <3>3, <3>4, <3>5, ProbeLearns
    <2>4. QED
      BY <2>2, <2>3
  <1>4. CASE Retry
    <2> DEFINE next == [job EXCEPT !.tries = @ + 1]
    <2>1. next.pc = job.pc /\ next.started = job.started /\ next.target = job.target
      BY <1>t DEF Job
    <2>2. job' = next /\ job.pc # "idle" /\ faults' = faults + 1 /\ UNCHANGED <<now, stored, earliest>>
      BY <1>4 DEF Retry, Asking, Requesting, database
    <2> HIDE DEF next
    <2>3. Owing' = Owing
      BY <2>1, <2>2, OwingStays
    <2>4. History!Fail
      BY <2>1, <2>2, <2>3 DEF History!Fail
    <2>5. QED
      BY <2>4 DEF History!Next
  <1>5. CASE GiveUp \/ Abandon
    <2>1. /\ job.pc # "idle" /\ job'.pc = "idle" /\ faults' = faults + 1
          /\ UNCHANGED <<now, stored, earliest>>
      BY <1>5, IdleIsJob DEF GiveUp, Abandon, Requesting, database
    <2>2. Owing' = {}
      BY <2>1 DEF Owing
    <2>3. History!Fail
      BY <2>1, <2>2 DEF History!Fail
    <2>4. QED
      BY <2>3 DEF History!Next
  <1>6. CASE Page
    <2>1. /\ job.pc # "idle" /\ job'.pc # "idle"
          /\ job'.started = job.started /\ job'.target = job.target
          /\ UNCHANGED <<now, stored, earliest, faults>>
      BY <1>6, <1>t, PageEffect
    <2>2. Owing' = Owing
      BY <2>1, OwingStays
    <2>3. QED
      BY <2>1, <2>2 DEF History!vars
  <1>7. CASE RecordEarliest
    <2> DEFINE next == [job EXCEPT !.pc = "upsert"]
    <2>1. next.pc = "upsert" /\ next.started = job.started /\ next.target = job.target
      BY <1>t DEF Job
    <2>2. /\ job' = next /\ job.pc = "earliest" /\ earliest' = Oldest(job.bars)
          /\ UNCHANGED <<now, stored, faults>>
      BY <1>7 DEF RecordEarliest
    <2> HIDE DEF next
    <2>3. Owing' = Owing
      BY <2>1, <2>2, OwingStays
    <2>4. job.bars # {} /\ job.bars \in SUBSET Opens /\ \A x \in job.bars : Listed <= x
      BY <1>t, <2>2 DEF GInv, TInv, WalkInv, Job
    <2>5. Oldest(job.bars) \in Opens /\ Oldest(job.bars) >= Listed
      <3>1. Oldest(job.bars) \in job.bars
        BY <2>4, Ends
      <3>2. QED
        BY <2>4, <3>1, CollectionAssumption
    <2>6. History!Learn
      BY <2>1, <2>2, <2>3, <2>5 DEF History!Learn
    <2>7. QED
      BY <2>6 DEF History!Next
  <1>8. CASE Upsert
    <2>1. /\ job.pc # "idle" /\ job'.pc = "idle" /\ stored \subseteq stored'
          /\ UNCHANGED <<now, earliest, faults>>
      BY <1>8, IdleIsJob DEF Upsert
    <2>2. History!Answer
      BY <2>1, ReturnAnswers
    <2>3. QED
      BY <2>2 DEF History!Next
  <1>9. CASE AskListing
    <2>1. PICK b \in Response(0, 1, now) : earliest' = b
      BY <1>9 DEF AskListing
    <2>2. b \in Opens /\ b >= Listed
      BY ResponseIsOpen, CollectionAssumption
    <2>3. job' = job /\ UNCHANGED <<now, stored, faults>>
      BY <1>9 DEF AskListing
    <2>4. Owing' = Owing
      BY <2>3 DEF Owing, Over
    <2>5. History!Learn
      BY <2>1, <2>2, <2>3, <2>4 DEF History!Learn
    <2>6. QED
      BY <2>5 DEF History!Next
  <1>10. CASE Reconfigure \/ UNCHANGED vars
    <2>1. UNCHANGED <<now, stored, earliest, job, faults>>
      BY <1>10 DEF Reconfigure, vars, database
    <2>2. Owing' = Owing
      BY <2>1 DEF Owing, Over
    <2>3. QED
      BY <2>1, <2>2 DEF History!vars
  <1>11. CASE Answer
    <2>1. /\ job.pc # "idle" /\ job'.pc # "idle"
          /\ job'.started = job.started /\ job'.target = job.target
          /\ UNCHANGED <<now, stored, earliest, faults>>
      BY <1>11, <1>t, AnswerEffect
    <2>2. Owing' = Owing
      BY <2>1, OwingStays
    <2>3. QED
      BY <2>1, <2>2 DEF History!vars
  <1>12. QED
    BY <1>1, <1>2, <1>3, <1>4, <1>5, <1>6, <1>7, <1>8, <1>9, <1>10, <1>11 DEF Next, Proceed

\* The collection keeps the promise of CandleHistory in every frame of bars of one
\* length: whoever reads the candles sees whole answers, without a gap and of bars
\* that are over, whatever is retried, refused or interrupted and however the lookback changes.
THEOREM HistoryIsImplemented ==
  ASSUME NoBarIsShorter, NoBarIsLonger, Limit > 1, PagesHoldAll
  PROVE  Spec => ImplementsHistory
  <1>1. Init => History!Init
    <2> SUFFICES ASSUME Init PROVE History!Init
      OBVIOUS
    <2>1. GInv
      BY GapInit
    <2>2. earliest = None /\ faults = 0 /\ job.pc = "idle" /\ Owing = {}
      BY IdleIsJob DEF Init, Owing
    <2>3. QED
      BY <2>1, <2>2, StoredIsReadable DEF History!Init
  <1>2. GInv /\ GInv' /\ [Next]_vars => [History!Next]_(History!vars)
    BY HistoryStep
  <1>3. Spec => [](GInv /\ CountInv)
    BY GuardedStep
  <1>4. QED
    BY <1>1, <1>2, <1>3, PTL DEF Spec, ImplementsHistory, History!Spec
=============================================================================
