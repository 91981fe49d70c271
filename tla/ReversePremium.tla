----------------------------- MODULE ReversePremium -----------------------------
(***************************************************************************)
(* The reverse-premium notice of a pipeline run (BR35): BTC's price in     *)
(* Korea against its price abroad (src/premium.py), compared with the      *)
(* state an earlier run left in app_state (_reverse_premium_to_report in   *)
(* src/pipeline.py), and the message that carries it at the end of the     *)
(* run, after the recommendations have been stored.                        *)
(*                                                                         *)
(* The lock lets one run at a time in (LockHeldByTheRun of                 *)
(* RecommendationLifecycle), so there is one run here.  The markets move   *)
(* between its three requests, and each channel of the message may fail or *)
(* be cut off by a crash (src/notifier.py).                                *)
(***************************************************************************)
EXTENDS Integers, Sequences

CONSTANTS
    Quotes,     \* [fx, upbit, binance] prices the markets may show
    Channels,   \* the configured channels, in the order they are tried
    MaxFaults,  \* bound on failed requests, exceptions and crashes
    None        \* Python's None and a missing key of app_state

Reverse(q) == 100 * q.upbit <= 98 * (q.binance * q.fx)

ASSUME QuoteAssumption ==
    /\ Quotes \subseteq [fx : Nat \ {0}, upbit : Nat \ {0}, binance : Nat \ {0}]
    /\ Quotes # {}
ASSUME FaultAssumption == MaxFaults \in Nat /\ Channels \in Seq(STRING)
ASSUME NoneAssumption == None \notin BOOLEAN

Prices == UNION {{q.fx, q.upbit, q.binance} : q \in Quotes}
Stages == {"idle", "fx", "upbit", "binance", "state", "notify"}
Run == [pc : Stages, fx : Prices \cup {None}, upbit : Prices \cup {None},
        reverse : BOOLEAN, report : BOOLEAN, channel : 1..(Len(Channels) + 1)]
Idle == [pc |-> "idle", fx |-> None, upbit |-> None, reverse |-> FALSE, report |-> FALSE,
         channel |-> 1]

VARIABLES
    quotes,  \* what the three services answer now
    active,  \* app_state's reverse_premium_active: "1" is TRUE, "0" is FALSE
    run,     \* the run in progress
    heard,   \* history: notices of the spell on record by channel, 2 is several
    failed,  \* history: channels that failed to take a notice of it
    raised,  \* history: channels at which an exception has ended a notice of it
    told,    \* history: a run with a notice of it has come to its end
    faults

history == <<heard, failed, raised, told>>
vars == <<quotes, active, run, history, faults>>

TypeOK ==
    /\ quotes \in Quotes
    /\ active \in {TRUE, FALSE, None}
    /\ run \in Run /\ (run.report => run.reverse /\ active = TRUE)
    /\ heard \in [DOMAIN Channels -> 0..2] /\ failed \in SUBSET DOMAIN Channels
    /\ raised \in SUBSET DOMAIN Channels
    /\ told \in BOOLEAN
    /\ faults \in 0..MaxFaults

Init ==
    /\ quotes \in Quotes
    /\ active = None
    /\ run = Idle
    /\ heard = [c \in DOMAIN Channels |-> 0] /\ failed = {} /\ raised = {} /\ told = FALSE
    /\ faults = 0

Move == quotes' \in Quotes /\ UNCHANGED <<active, run, history, faults>>

-----------------------------------------------------------------------------
(* One run *)

\* The scheduler or POST /run, having selected and collected.
Start ==
    /\ run.pc = "idle"
    /\ run' = [Idle EXCEPT !.pc = "fx"]
    /\ UNCHANGED <<quotes, active, history, faults>>

\* fetch_usd_krw, then Upbit's price of BTC, then Binance's, each at its moment.
Fetch(stage, next, answer) ==
    /\ run.pc = stage
    /\ run' = [answer EXCEPT !.pc = next]
    /\ UNCHANGED <<quotes, active, history, faults>>
FetchRate == Fetch("fx", "upbit", [run EXCEPT !.fx = quotes.fx])
FetchUpbit == Fetch("upbit", "binance", [run EXCEPT !.upbit = quotes.upbit])
FetchBinance ==
    Fetch("binance", "state",
          [run EXCEPT !.reverse =
              Reverse([fx |-> run.fx, upbit |-> run.upbit, binance |-> quotes.binance])])

\* Any of the three fails: there is no premium, which is_reverse takes for a
\* premium above the threshold.
FetchFails ==
    /\ run.pc \in {"fx", "upbit", "binance"} /\ faults < MaxFaults
    /\ faults' = faults + 1
    /\ run' = [run EXCEPT !.pc = "state"]
    /\ UNCHANGED <<quotes, active, history>>

\* A state above the threshold ends the spell on record.
Forget == IF run.reverse THEN UNCHANGED history
          ELSE /\ heard' = [c \in DOMAIN Channels |-> 0]
               /\ failed' = {} /\ raised' = {} /\ told' = FALSE

\* Bug to be caught: the earlier state is not looked at.
ReportEachTime ==
    /\ run.pc = "state"
    /\ active' = run.reverse
    /\ Forget
    /\ run' = [run EXCEPT !.pc = "notify", !.report = run.reverse]
    /\ UNCHANGED <<quotes, faults>>

\* Bug to be caught: the state is stored only when there is something to report.
StoreOnsetOnly ==
    /\ run.pc = "state"
    /\ active' = IF run.reverse THEN TRUE ELSE active
    /\ UNCHANGED history
    /\ run' = [run EXCEPT !.pc = "notify", !.report = run.reverse /\ active # TRUE]
    /\ UNCHANGED <<quotes, faults>>

\* Bug to be caught: every change of the state is reported, the recovery too.
ReportChanges ==
    /\ run.pc = "state"
    /\ active' = run.reverse
    /\ Forget
    /\ run' = [run EXCEPT !.pc = "notify", !.report = (run.reverse # (active = TRUE))]
    /\ UNCHANGED <<quotes, faults>>

\* The state is stored in every run, and a premium is reported when it is the
\* first below the threshold.
StoreState ==
    /\ run.pc = "state"
    /\ active' = run.reverse
    /\ Forget
    /\ run' = [run EXCEPT !.pc = "notify", !.report = run.reverse /\ active # TRUE]
    /\ UNCHANGED <<quotes, faults>>

\* _dispatch hands the message of the run, with or without the notice, to one channel
\* after the other.
Dispatching == run.pc = "notify" /\ run.channel <= Len(Channels)
Deliver ==
    /\ Dispatching
    /\ run' = [run EXCEPT !.channel = @ + 1]
    /\ heard' = IF run.report /\ heard[run.channel] < 2
                THEN [heard EXCEPT ![run.channel] = @ + 1] ELSE heard
    /\ UNCHANGED <<quotes, active, failed, raised, told, faults>>

\* Bug to be caught: the failure is not caught where it happens, and the rest of the
\* channels are passed over.
ChannelFailsAll ==
    /\ Dispatching
    /\ run' = [run EXCEPT !.channel = Len(Channels) + 1]
    /\ failed' = IF run.report THEN failed \cup {run.channel} ELSE failed
    /\ UNCHANGED <<quotes, active, heard, raised, told, faults>>

\* The channel refuses the message or does not answer in time, which is logged.
ChannelFails ==
    /\ Dispatching
    /\ run' = [run EXCEPT !.channel = @ + 1]
    /\ failed' = IF run.report THEN failed \cup {run.channel} ELSE failed
    /\ UNCHANGED <<quotes, active, heard, raised, told, faults>>

\* What is not a failed request is not caught where it happens: an exception while the
\* performance is read, the message is written or a sender runs passes over this channel
\* and those after it, is logged, and the run comes to its end all the same.
NotifyRaises ==
    /\ Dispatching
    /\ run' = Idle
    /\ told' = (told \/ run.report)
    /\ raised' = IF run.report THEN raised \cup {run.channel} ELSE raised
    /\ UNCHANGED <<quotes, active, heard, failed, faults>>

\* The run goes on to the evaluation and its end.
Finish ==
    /\ run.pc = "notify" /\ ~Dispatching
    /\ run' = Idle
    /\ told' = (told \/ run.report)
    /\ UNCHANGED <<quotes, active, heard, failed, raised, faults>>

\* An exception in the scoring or in save_run, which lie between the state and
\* the message, ends the run; so does a crash anywhere.
Abort ==
    /\ run.pc # "idle" /\ faults < MaxFaults
    /\ faults' = faults + 1
    /\ run' = Idle
    /\ UNCHANGED <<quotes, active, history>>

Proceed == \/ FetchRate \/ FetchUpbit \/ FetchBinance \/ StoreState
           \/ Deliver \/ ChannelFails \/ NotifyRaises \/ Finish
Next == Move \/ Start \/ Proceed \/ FetchFails \/ Abort
Spec == Init /\ [][Next]_vars

\* The cron trigger keeps starting runs, and every request has a timeout.
FairSpec == Spec /\ WF_vars(Start) /\ WF_vars(Proceed)

-----------------------------------------------------------------------------
(* What must hold *)

\* No channel hears twice of a spell that stays on record, whatever fails or crashes
\* between storing the state and sending, and between the channels.
ReportedOncePerRecord == \A c \in DOMAIN Channels : heard[c] < 2

\* A channel's failed request costs no other channel the notice (BR4).  Once a run with
\* a notice has ended, a channel that has not heard of the spell has failed itself, or an
\* exception that is no failed request came at it or at one tried before it.
FailedRequestsAreLocal ==
    told => \A c \in DOMAIN Channels :
                \/ heard[c] > 0 \/ c \in failed
                \/ \E d \in raised : d <= c

\* Once the markets stand still, the state on record comes to agree with them and
\* stays so, although requests fail and runs end early.
RecordFollowsMarket ==
    \A q \in Quotes : <>[](quotes = q) => <>[](active = Reverse(q))

-----------------------------------------------------------------------------
(* What it implements *)

\* The channels that a run with a notice has passed.
Passed == IF run.report THEN {c \in DOMAIN Channels : c < run.channel} ELSE {}

Notice == INSTANCE SpellNotice WITH
    Channels <- DOMAIN Channels, spell <- active = TRUE, chance <- run.report, passed <- Passed

\* Of a spell only the run tells that has put it on record, each channel at most once;
\* prices, failed requests, exceptions and crashes show in nothing but a chance that ends
\* early, and no later run makes up for it or tells a second time.
ImplementsNotice == Notice!Spec
=============================================================================
