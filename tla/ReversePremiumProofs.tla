-------------------------- MODULE ReversePremiumProofs --------------------------
(* Proofs about ReversePremium, for every number of channels and all prices. *)
EXTENDS ReversePremium, TLAPS

\* Only the message step carries a notice, and only of a spell that no run has told
\* yet; the channels it has passed heard of it or failed, the others have not heard.
NoticeIsNew ==
    run.report =>
        /\ run.pc = "notify" /\ ~told
        /\ \A c \in DOMAIN Channels :
              IF c < run.channel THEN heard[c] = 1 \/ (heard[c] = 0 /\ c \in failed)
              ELSE heard[c] = 0

\* Until the message is sent, no channel has been tried and there is no notice.
NothingIsSentEarly == run.pc # "notify" => run.channel = 1 /\ run.report = FALSE

\* While no spell is on record, nobody has heard of one.
NoRecordNoNotice ==
    active # TRUE =>
        failed = {} /\ raised = {} /\ ~told /\ \A c \in DOMAIN Channels : heard[c] = 0

\* The inductive invariant.
IInv == /\ TypeOK /\ NoticeIsNew /\ NothingIsSentEarly /\ NoRecordNoNotice
        /\ ReportedOncePerRecord /\ FailedRequestsAreLocal

\* The channels are numbered from 1 on.
LEMMA ChannelsAreNumbered == Len(Channels) \in Nat /\ DOMAIN Channels = 1..Len(Channels)
  BY FaultAssumption

\* The program starts without a record and without a notice.
LEMMA InvInit == Init => IInv
  <1> SUFFICES ASSUME Init PROVE IInv
    OBVIOUS
  <1>1. Idle \in Run
    <2>1. 1 \in 1..(Len(Channels) + 1)
      BY ChannelsAreNumbered
    <2>2. QED
      BY <2>1 DEF Idle, Run, Stages
  <1>2. run.report = FALSE /\ run.channel = 1
    BY DEF Init, Idle
  <1>3. TypeOK
    <2>1. quotes \in Quotes /\ run \in Run /\ ~run.report
      BY <1>1, <1>2 DEF Init
    <2>2. active \in {TRUE, FALSE, None}
      BY DEF Init
    <2>3. /\ heard \in [DOMAIN Channels -> 0..2] /\ failed \in SUBSET DOMAIN Channels
          /\ raised \in SUBSET DOMAIN Channels
      BY DEF Init
    <2>4. told \in BOOLEAN
      BY DEF Init
    <2>5. faults \in 0..MaxFaults
      BY FaultAssumption DEF Init
    <2>6. QED
      BY <2>1, <2>2, <2>3, <2>4, <2>5 DEF TypeOK
  <1>4. /\ NoticeIsNew /\ NothingIsSentEarly /\ NoRecordNoNotice
        /\ ReportedOncePerRecord /\ FailedRequestsAreLocal
    <2>1. failed = {} /\ raised = {} /\ ~told /\ \A c \in DOMAIN Channels : heard[c] = 0
      BY DEF Init
    <2>2. NoticeIsNew /\ NothingIsSentEarly
      BY <1>2 DEF NoticeIsNew, NothingIsSentEarly
    <2>3. NoRecordNoNotice /\ FailedRequestsAreLocal
      BY <2>1 DEF NoRecordNoNotice, FailedRequestsAreLocal
    <2>4. ReportedOncePerRecord
      BY <2>1 DEF ReportedOncePerRecord
    <2>5. QED
      BY <2>2, <2>3, <2>4
  <1>5. QED
    BY <1>3, <1>4 DEF IInv

\* A step of the run that has nothing to report and leaves the record alone.
LEMMA QuietStep ==
  ASSUME IInv, run' \in Run, run'.report = FALSE, run'.pc # "notify" => run'.channel = 1,
         faults' \in 0..MaxFaults, quotes' \in Quotes, UNCHANGED <<active, history>>
  PROVE  IInv'
  <1>1. TypeOK'
    BY DEF IInv, TypeOK, history
  <1>2. NoticeIsNew' /\ NothingIsSentEarly'
    BY DEF NoticeIsNew, NothingIsSentEarly
  <1>3. NoRecordNoNotice' /\ ReportedOncePerRecord' /\ FailedRequestsAreLocal'
    BY DEF IInv, NoRecordNoNotice, ReportedOncePerRecord, FailedRequestsAreLocal, history
  <1>4. QED
    BY <1>1, <1>2, <1>3 DEF IInv

\* Comparing with the record and storing the state.
LEMMA StoreStep == ASSUME IInv, StoreState PROVE IInv'
  <1>0. run \in Run /\ TypeOK /\ run.pc = "state" /\ run.channel = 1
    BY DEF IInv, TypeOK, StoreState, NothingIsSentEarly
  <1>1. /\ run'.pc = "notify" /\ run'.reverse = run.reverse /\ run'.channel = run.channel
        /\ run'.report = (run.reverse /\ active # TRUE) /\ run' \in Run
    BY <1>0 DEF StoreState, Run, Stages
  <1>2. active' = run.reverse /\ run.reverse \in BOOLEAN /\ UNCHANGED <<quotes, faults>>
    BY <1>0 DEF StoreState, Run
  <1>3. CASE run.reverse = TRUE /\ active = TRUE
    <2>1. UNCHANGED <<active, history>> /\ run'.report = FALSE
      BY <1>1, <1>2, <1>3 DEF StoreState, Forget
    <2>2. QED
      BY <1>0, <1>1, <1>2, <2>1, QuietStep DEF TypeOK
  <1>4. CASE run.reverse = TRUE /\ active # TRUE
    <2>1. UNCHANGED <<heard, failed, raised, told>> /\ active' = TRUE
      BY <1>2, <1>4 DEF StoreState, Forget, history
    <2>2. failed = {} /\ raised = {} /\ ~told /\ \A c \in DOMAIN Channels : heard[c] = 0
      BY <1>4 DEF IInv, NoRecordNoNotice
    <2>3. TypeOK'
      <3>1. quotes' \in Quotes /\ faults' \in 0..MaxFaults
        BY <1>0, <1>2 DEF TypeOK
      <3>2. active' \in {TRUE, FALSE, None} /\ run'.reverse
        BY <1>1, <1>4, <2>1
      <3>3. /\ heard' \in [DOMAIN Channels -> 0..2] /\ failed' \in SUBSET DOMAIN Channels
            /\ raised' \in SUBSET DOMAIN Channels /\ told' \in BOOLEAN
        BY <1>0, <2>1 DEF TypeOK
      <3>4. QED
        BY <1>1, <2>1, <3>1, <3>2, <3>3 DEF TypeOK
    <2>4. NoRecordNoNotice' /\ NothingIsSentEarly' /\ FailedRequestsAreLocal'
      BY <1>1, <2>1, <2>2 DEF NoRecordNoNotice, NothingIsSentEarly, FailedRequestsAreLocal
    <2>5. ReportedOncePerRecord'
      BY <2>1, <2>2 DEF ReportedOncePerRecord
    <2>6. NoticeIsNew'
      <3>1. \A c \in DOMAIN Channels : ~(c < run'.channel) /\ heard'[c] = 0
        BY <1>0, <1>1, <2>1, <2>2, ChannelsAreNumbered
      <3>2. ~told'
        BY <2>1, <2>2
      <3>3. QED
        BY <1>1, <3>1, <3>2 DEF NoticeIsNew
    <2>7. QED
      BY <2>3, <2>4, <2>5, <2>6 DEF IInv
  <1>5. CASE run.reverse = FALSE
    <2>1. /\ heard' = [c \in DOMAIN Channels |-> 0]
          /\ failed' = {} /\ raised' = {} /\ told' = FALSE
      BY <1>5 DEF StoreState, Forget
    <2>2. run'.report = FALSE /\ active' = FALSE
      BY <1>1, <1>2, <1>5
    <2>3. TypeOK'
      <3>1. quotes' \in Quotes /\ faults' \in 0..MaxFaults
        BY <1>0, <1>2 DEF TypeOK
      <3>2. active' \in {TRUE, FALSE, None} /\ ~run'.report /\ told' \in BOOLEAN
        BY <2>1, <2>2
      <3>3. /\ heard' \in [DOMAIN Channels -> 0..2] /\ failed' \in SUBSET DOMAIN Channels
            /\ raised' \in SUBSET DOMAIN Channels
        BY <2>1
      <3>4. QED
        BY <1>1, <3>1, <3>2, <3>3 DEF TypeOK
    <2>4. NoticeIsNew' /\ NothingIsSentEarly'
      BY <1>1, <2>2 DEF NoticeIsNew, NothingIsSentEarly
    <2>5. failed' = {} /\ raised' = {} /\ ~told' /\ \A c \in DOMAIN Channels : heard'[c] = 0
      BY <2>1
    <2>6. NoRecordNoNotice' /\ FailedRequestsAreLocal'
      BY <2>5 DEF NoRecordNoNotice, FailedRequestsAreLocal
    <2>7. ReportedOncePerRecord'
      BY <2>5 DEF ReportedOncePerRecord
    <2>8. QED
      BY <2>3, <2>4, <2>6, <2>7 DEF IInv
  <1>6. QED
    BY <1>2, <1>3, <1>4, <1>5

\* A channel takes the message, or fails to.
LEMMA DispatchStep == ASSUME IInv, Deliver \/ ChannelFails PROVE IInv'
  <1> DEFINE c == run.channel
  <1>0. /\ TypeOK /\ run \in Run /\ run.pc = "notify"
        /\ UNCHANGED <<quotes, active, raised, told, faults>> /\ heard \in [DOMAIN Channels -> 0..2] /\ c \in Nat /\ c \in DOMAIN Channels
        /\ run.report \in BOOLEAN
    <2>1. TypeOK /\ run \in Run /\ heard \in [DOMAIN Channels -> 0..2]
      BY DEF IInv, TypeOK
    <2>2. /\ run.pc = "notify" /\ c <= Len(Channels)
          /\ UNCHANGED <<quotes, active, raised, told, faults>>
      BY DEF Deliver, ChannelFails, Dispatching
    <2>3. c \in 1..(Len(Channels) + 1) /\ run.report \in BOOLEAN
      BY <2>1 DEF Run
    <2>4. c \in Nat /\ c \in DOMAIN Channels
      BY <2>2, <2>3, ChannelsAreNumbered
    <2>5. QED
      BY <2>1, <2>2, <2>3, <2>4
  <1>1. /\ run'.channel = c + 1 /\ run'.pc = "notify" /\ run'.report = run.report
        /\ run'.reverse = run.reverse /\ run' \in Run
    <2>1. run' = [run EXCEPT !.channel = @ + 1]
      BY DEF Deliver, ChannelFails
    <2>2. c + 1 \in 1..(Len(Channels) + 1)
      BY <1>0, ChannelsAreNumbered
    <2>3. QED
      BY <1>0, <2>1, <2>2 DEF Run
  <1>2. CASE run.report = FALSE
    <2>1. UNCHANGED history
      BY <1>2 DEF Deliver, ChannelFails, history
    <2>2. QED
      BY <1>0, <1>1, <1>2, <2>1, QuietStep DEF TypeOK
  <1>3. CASE run.report = TRUE
    <2>1. /\ ~told
          /\ \A x \in DOMAIN Channels :
                IF x < c THEN heard[x] = 1 \/ (heard[x] = 0 /\ x \in failed) ELSE heard[x] = 0
      BY <1>3 DEF IInv, NoticeIsNew
    <2>2. \/ heard' = [heard EXCEPT ![c] = 1] /\ failed' = failed
          \/ heard' = heard /\ failed' = failed \cup {c}
      BY <1>0, <1>3, <2>1 DEF Deliver, ChannelFails
    <2>3. \A x \in DOMAIN Channels :
            IF x < c + 1 THEN heard'[x] = 1 \/ (heard'[x] = 0 /\ x \in failed') ELSE heard'[x] = 0
      BY <1>0, <2>1, <2>2, ChannelsAreNumbered
    <2>4. TypeOK'
      <3>1. /\ quotes' \in Quotes /\ active' \in {TRUE, FALSE, None} /\ told' \in BOOLEAN
            /\ faults' \in 0..MaxFaults
        BY <1>0 DEF TypeOK
      <3>2. run'.report => run'.reverse /\ active' = TRUE
        BY <1>0, <1>1 DEF TypeOK
      <3>3. /\ heard' \in [DOMAIN Channels -> 0..2] /\ failed' \in SUBSET DOMAIN Channels
            /\ raised' \in SUBSET DOMAIN Channels
        BY <1>0, <2>2 DEF TypeOK
      <3>4. QED
        BY <1>1, <3>1, <3>2, <3>3 DEF TypeOK
    <2>5. active = TRUE
      BY <1>3 DEF IInv, TypeOK
    <2>6. NoticeIsNew' /\ NothingIsSentEarly' /\ NoRecordNoNotice'
      BY <1>0, <1>1, <2>1, <2>3, <2>5 DEF NoticeIsNew, NothingIsSentEarly, NoRecordNoNotice
    <2>7. ReportedOncePerRecord' /\ FailedRequestsAreLocal'
      BY <1>0, <2>1, <2>3 DEF ReportedOncePerRecord, FailedRequestsAreLocal
    <2>8. QED
      BY <2>4, <2>6, <2>7 DEF IInv
  <1>4. QED
    BY <1>0, <1>2, <1>3

\* A run comes to its end: the channels it has not passed are those an exception has
\* passed over, if there are any.
LEMMA EndStep ==
  ASSUME IInv, run.pc = "notify", run' = Idle, told' = (told \/ run.report),
         UNCHANGED <<quotes, active, heard, failed, faults>>,
         run.report = FALSE => UNCHANGED raised, raised' \in SUBSET DOMAIN Channels,
         run.report = TRUE =>
             \A c \in DOMAIN Channels : c < run.channel \/ \E d \in raised' : d <= c
  PROVE  IInv'
  <1>0. TypeOK /\ run \in Run /\ run.report \in BOOLEAN
    BY DEF IInv, TypeOK, Run
  <1>1. Idle \in Run /\ Idle.report = FALSE /\ Idle.channel = 1
    BY ChannelsAreNumbered DEF Idle, Run, Stages
  <1>2. CASE run.report = FALSE
    <2>1. UNCHANGED history
      BY <1>0, <1>2 DEF TypeOK, history
    <2>2. QED
      BY <1>0, <1>1, <2>1, QuietStep DEF TypeOK
  <1>3. CASE run.report = TRUE
    <2>1. \A c \in DOMAIN Channels :
            \/ heard[c] = 1 \/ (heard[c] = 0 /\ c \in failed)
            \/ \E d \in raised' : d <= c
      BY <1>3 DEF IInv, NoticeIsNew
    <2>2. TypeOK' /\ ReportedOncePerRecord' /\ FailedRequestsAreLocal'
      <3>1. told' \in BOOLEAN
        BY <1>0, <1>3
      <3>2. TypeOK'
        BY <1>0, <1>1, <3>1 DEF TypeOK
      <3>3. ReportedOncePerRecord'
        BY <1>0 DEF IInv, ReportedOncePerRecord
      <3>4. FailedRequestsAreLocal'
        BY <1>0, <2>1 DEF FailedRequestsAreLocal
      <3>5. QED
        BY <3>2, <3>3, <3>4
    <2>3. NoticeIsNew' /\ NothingIsSentEarly'
      BY <1>0, <1>1 DEF NoticeIsNew, NothingIsSentEarly
    <2>4. active = TRUE
      BY <1>3 DEF IInv, TypeOK
    <2>5. QED
      BY <1>0, <2>2, <2>3, <2>4 DEF IInv, NoRecordNoNotice
  <1>4. QED
    BY <1>0, <1>2, <1>3

\* The run has handed the message to every channel.
LEMMA FinishStep == ASSUME IInv, Finish PROVE IInv'
  <1>1. /\ run.pc = "notify" /\ ~(run.channel <= Len(Channels))
        /\ run' = Idle /\ told' = (told \/ run.report)
        /\ UNCHANGED <<quotes, active, heard, failed, raised, faults>>
    BY DEF Finish, Dispatching
  <1>2. run.channel \in 1..(Len(Channels) + 1) /\ raised \in SUBSET DOMAIN Channels
    BY DEF IInv, TypeOK, Run
  <1>3. \A c \in DOMAIN Channels : c < run.channel
    BY <1>1, <1>2, ChannelsAreNumbered
  <1>4. QED
    BY <1>1, <1>2, <1>3, EndStep

\* An exception has passed over the channels from the one it came at.
LEMMA RaiseStep == ASSUME IInv, NotifyRaises PROVE IInv'
  <1>1. /\ run.pc = "notify" /\ run.channel <= Len(Channels)
        /\ run' = Idle /\ told' = (told \/ run.report)
        /\ UNCHANGED <<quotes, active, heard, failed, faults>>
    BY DEF NotifyRaises, Dispatching
  <1>2. /\ run.channel \in 1..(Len(Channels) + 1) /\ raised \in SUBSET DOMAIN Channels
        /\ run.report \in BOOLEAN
    BY DEF IInv, TypeOK, Run
  <1>3. run.channel \in DOMAIN Channels
    BY <1>1, <1>2, ChannelsAreNumbered
  <1>4. raised' \in SUBSET DOMAIN Channels /\ (run.report = FALSE => UNCHANGED raised)
    BY <1>2, <1>3 DEF NotifyRaises
  <1>5. ASSUME run.report = TRUE, NEW c \in DOMAIN Channels, ~(c < run.channel)
        PROVE  \E d \in raised' : d <= c
    <2>1. run.channel \in raised'
      BY <1>5 DEF NotifyRaises
    <2>2. run.channel <= c
      BY <1>2, <1>5, ChannelsAreNumbered
    <2>3. QED
      BY <2>1, <2>2
  <1>6. QED
    BY <1>1, <1>4, <1>5, EndStep

\* Every step keeps the invariant.
LEMMA InvStep == IInv /\ [Next]_vars => IInv'
  <1> SUFFICES ASSUME IInv, [Next]_vars PROVE IInv'
    OBVIOUS
  <1>0. /\ TypeOK /\ run \in Run /\ faults \in 0..MaxFaults
        /\ Idle \in Run /\ Idle.report = FALSE /\ Idle.channel = 1
    <2>1. TypeOK /\ run \in Run /\ faults \in 0..MaxFaults
      BY DEF IInv, TypeOK
    <2>2. Idle \in Run /\ Idle.report = FALSE /\ Idle.channel = 1
      BY ChannelsAreNumbered DEF Idle, Run, Stages
    <2>3. QED
      BY <2>1, <2>2
  <1>1. CASE UNCHANGED <<active, run, history, faults>> /\ quotes' \in Quotes
    BY <1>1 DEF IInv, TypeOK, NoticeIsNew, NothingIsSentEarly, NoRecordNoNotice,
                ReportedOncePerRecord, FailedRequestsAreLocal, history
  <1>2. CASE Move \/ UNCHANGED vars
    BY <1>0, <1>1, <1>2 DEF Move, vars, TypeOK
  <1>3. CASE Start
    <2>1. [Idle EXCEPT !.pc = "fx"] \in Run
      BY <1>0 DEF Run, Stages, Idle
    <2>2. QED
      BY <1>0, <1>3, <2>1, QuietStep DEF Start, TypeOK, Idle
  <1>4. CASE FetchRate \/ FetchUpbit \/ FetchBinance \/ FetchFails
    <2>1. run.pc # "notify"
      BY <1>4 DEF FetchRate, FetchUpbit, FetchBinance, FetchFails, Fetch
    <2>2. run.channel = 1 /\ run.report = FALSE
      BY <2>1 DEF IInv, NothingIsSentEarly
    <2>3. quotes.fx \in Prices /\ quotes.upbit \in Prices
      BY <1>0 DEF TypeOK, Prices
    <2>4. \A q : Reverse(q) \in BOOLEAN
      BY DEF Reverse
    <2>5. run' \in Run /\ run'.report = FALSE /\ run'.channel = 1
      BY <1>0, <1>4, <2>2, <2>3, <2>4
         DEF FetchRate, FetchUpbit, FetchBinance, FetchFails, Fetch, Run, Stages
    <2>6. UNCHANGED <<quotes, active, history>> /\ faults' \in 0..MaxFaults
      BY <1>0, <1>4, FaultAssumption
         DEF FetchRate, FetchUpbit, FetchBinance, FetchFails, Fetch, TypeOK
    <2>7. QED
      BY <1>0, <2>5, <2>6, QuietStep DEF TypeOK
  <1>5. CASE Abort
    <2>1. faults' \in 0..MaxFaults
      BY <1>0, <1>5, FaultAssumption DEF Abort
    <2>2. run' = Idle /\ UNCHANGED <<quotes, active, history>>
      BY <1>5 DEF Abort
    <2>3. QED
      BY <1>0, <2>1, <2>2, QuietStep DEF TypeOK
  <1>6. QED
    BY <1>2, <1>3, <1>4, <1>5, StoreStep, DispatchStep, FinishStep, RaiseStep
       DEF Next, Proceed

\* The inductive invariant holds in every state.
THEOREM Invariance == Spec => []IInv
  <1>1. QED
    BY InvInit, InvStep, PTL DEF Spec

\* The premium's state has its type, and a run carries a notice only of a premium that
\* is on record as reversed.
THEOREM TypeCorrect == Spec => []TypeOK
  <1>1. IInv => TypeOK
    BY DEF IInv
  <1>2. QED
    BY <1>1, Invariance, PTL

\* No channel hears twice of a spell that _reverse_premium_to_report has stored.
THEOREM SpellsAreReportedOnce == Spec => []ReportedOncePerRecord
  <1>1. IInv => ReportedOncePerRecord
    BY DEF IInv
  <1>2. QED
    BY <1>1, Invariance, PTL

\* A failed request costs _dispatch no other channel; only an exception the senders do not
\* catch does, and it costs none tried before it.
THEOREM ChannelsAreIndependent == Spec => []FailedRequestsAreLocal
  <1>1. IInv => FailedRequestsAreLocal
    BY DEF IInv
  <1>2. QED
    BY <1>1, Invariance, PTL

-----------------------------------------------------------------------------
(* SpellNotice is implemented *)

\* A step that moves neither the record nor the notice shows nothing of itself.
LEMMA NothingShows ==
  ASSUME UNCHANGED <<active, heard>>, run.report = FALSE, run'.report = FALSE
  PROVE  UNCHANGED Notice!vars
  BY DEF Notice!vars, Passed

\* Storing the state is the onset of a spell, its end, or neither.
LEMMA StoreShows == ASSUME IInv, StoreState PROVE [Notice!Next]_(Notice!vars)
  <1>1. run \in Run /\ run.pc = "state" /\ run.report = FALSE /\ run.channel = 1
    BY DEF IInv, TypeOK, StoreState, NothingIsSentEarly
  <1>2. /\ run'.report = (run.reverse /\ active # TRUE) /\ run'.channel = 1
        /\ active' = run.reverse /\ run.reverse \in BOOLEAN
    BY <1>1 DEF StoreState, Run
  <1>3. \A c \in DOMAIN Channels : ~(c < 1)
    BY ChannelsAreNumbered
  <1>4. Passed = {} /\ Passed' = {}
    BY <1>1, <1>2, <1>3 DEF Passed
  <1>5. CASE run.reverse = TRUE /\ active # TRUE
    <2>1. UNCHANGED heard
      BY <1>5 DEF StoreState, Forget, history
    <2>2. Notice!Onset
      BY <1>2, <1>4, <1>5, <2>1 DEF Notice!Onset
    <2>3. QED
      BY <2>2 DEF Notice!Next
  <1>6. CASE run.reverse = TRUE /\ active = TRUE
    <2>1. UNCHANGED <<active, heard>>
      BY <1>2, <1>6 DEF StoreState, Forget, history
    <2>2. run'.report = FALSE
      BY <1>2, <1>6
    <2>3. QED
      BY <1>1, <2>1, <2>2, NothingShows
  <1>7. CASE run.reverse = FALSE
    <2>1. heard' = Notice!Nobody /\ active' = FALSE /\ run'.report = FALSE
      BY <1>2, <1>7 DEF StoreState, Forget, Notice!Nobody
    <2>2. CASE active = TRUE
      <3>1. Notice!Recover
        BY <1>1, <1>4, <2>1, <2>2 DEF Notice!Recover
      <3>2. QED
        BY <3>1 DEF Notice!Next
    <2>3. CASE active # TRUE
      <3>1. \A c \in DOMAIN Channels : heard[c] = 0
        BY <2>3 DEF IInv, NoRecordNoNotice
      <3>2. heard \in [DOMAIN Channels -> 0..2]
        BY DEF IInv, TypeOK
      <3>3. heard = Notice!Nobody
        BY <3>1, <3>2 DEF Notice!Nobody
      <3>4. QED
        BY <1>1, <1>4, <2>1, <2>3, <3>3 DEF Notice!vars
    <2>4. QED
      BY <2>2, <2>3
  <1>8. QED
    BY <1>2, <1>5, <1>6, <1>7

\* A channel that the message of a run with a notice comes to is passed, and hears of the
\* spell for the first time if it hears of it.
LEMMA DispatchShows == ASSUME IInv, Deliver \/ ChannelFails PROVE [Notice!Next]_(Notice!vars)
  <1> DEFINE c == run.channel
  <1>1. /\ run \in Run /\ c \in DOMAIN Channels /\ c \in Nat /\ run.report \in BOOLEAN
        /\ active' = active
    <2>1. run \in Run /\ c <= Len(Channels) /\ active' = active
      BY DEF IInv, TypeOK, Deliver, ChannelFails, Dispatching
    <2>2. c \in 1..(Len(Channels) + 1) /\ run.report \in BOOLEAN
      BY <2>1 DEF Run
    <2>3. QED
      BY <2>1, <2>2, ChannelsAreNumbered
  <1>2. run'.channel = c + 1 /\ run'.report = run.report
    BY <1>1 DEF Deliver, ChannelFails, Run
  <1>3. CASE run.report = FALSE
    <2>1. heard' = heard
      BY <1>3 DEF Deliver, ChannelFails
    <2>2. QED
      BY <1>1, <1>2, <1>3, <2>1, NothingShows
  <1>4. CASE run.report = TRUE
    <2>1. Passed = {x \in DOMAIN Channels : x < c}
      BY <1>4 DEF Passed
    <2>2. Passed' = {x \in DOMAIN Channels : x < c + 1}
      BY <1>2, <1>4 DEF Passed
    <2>3. c \notin Passed /\ Passed' = Passed \cup {c}
      BY <1>1, <2>1, <2>2, ChannelsAreNumbered
    <2>4. heard[c] = 0
      BY <1>1, <1>4 DEF IInv, NoticeIsNew
    <2>5. UNCHANGED heard \/ heard' = [heard EXCEPT ![c] = 1]
      BY <1>4, <2>4 DEF Deliver, ChannelFails
    <2>6. Notice!Pass(c)
      BY <1>1, <1>2, <1>4, <2>3, <2>4, <2>5 DEF Notice!Pass
    <2>7. QED
      BY <1>1, <2>6 DEF Notice!Next
  <1>5. QED
    BY <1>1, <1>3, <1>4

\* A run that ends, at its end or anywhere, takes its chance along.
LEMMA EndShows ==
  ASSUME IInv, Finish \/ NotifyRaises \/ Abort PROVE [Notice!Next]_(Notice!vars)
  <1>1. run'.report = FALSE /\ UNCHANGED <<active, heard>>
    BY DEF Finish, NotifyRaises, Abort, Idle, history
  <1>2. run.report \in BOOLEAN
    BY DEF IInv, TypeOK, Run
  <1>3. CASE run.report = TRUE
    <2>1. Notice!Close
      BY <1>1, <1>3 DEF Notice!Close, Passed
    <2>2. QED
      BY <2>1 DEF Notice!Next
  <1>4. QED
    BY <1>1, <1>2, <1>3, NothingShows

\* The other steps of a run come before there is a notice.
LEMMA NoticeStep == IInv /\ [Next]_vars => [Notice!Next]_(Notice!vars)
  <1> SUFFICES ASSUME IInv, [Next]_vars PROVE [Notice!Next]_(Notice!vars)
    OBVIOUS
  <1>1. CASE Move \/ UNCHANGED vars
    BY <1>1 DEF Move, vars, history, Notice!vars, Passed
  <1>2. CASE Start \/ FetchRate \/ FetchUpbit \/ FetchBinance \/ FetchFails
    <2>1. run.pc # "notify" /\ UNCHANGED <<active, heard>>
      BY <1>2 DEF Start, FetchRate, FetchUpbit, FetchBinance, FetchFails, Fetch, history
    <2>2. run.report = FALSE /\ run \in Run
      BY <2>1 DEF IInv, TypeOK, NothingIsSentEarly
    <2>3. run'.report = FALSE
      BY <1>2, <2>2 DEF Start, FetchRate, FetchUpbit, FetchBinance, FetchFails, Fetch, Run, Idle
    <2>4. QED
      BY <2>1, <2>2, <2>3, NothingShows
  <1>3. QED
    BY <1>1, <1>2, StoreShows, DispatchShows, EndShows DEF Next, Proceed

\* A spell of the reverse premium is told of by the run that has stored it
\* (_reverse_premium_to_report) and by no other, to each channel at most once.
THEOREM NoticeIsImplemented == Spec => ImplementsNotice
  <1>1. Init => Notice!Init
    <2> SUFFICES ASSUME Init PROVE Notice!Init
      OBVIOUS
    <2>1. run.report = FALSE /\ heard = Notice!Nobody
      BY DEF Init, Idle, Notice!Nobody
    <2>2. active # TRUE
      BY NoneAssumption DEF Init
    <2>3. QED
      BY <2>1, <2>2 DEF Notice!Init, Passed
  <1>2. IInv /\ [Next]_vars => [Notice!Next]_(Notice!vars)
    BY NoticeStep
  <1>3. QED
    BY <1>1, <1>2, Invariance, PTL DEF Spec, ImplementsNotice, Notice!Spec
=============================================================================
