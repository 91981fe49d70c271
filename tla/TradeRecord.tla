------------------------------ MODULE TradeRecord ------------------------------
(***************************************************************************)
(* What coin-recommender promises about its recommendations, without the   *)
(* threads, the snapshots, the failures and the database that stand behind *)
(* it: a recommendation is put on record before anybody hears of it, its   *)
(* price events are recorded once each and end with the target or the      *)
(* stop, each is alerted once, and a verdict is given once and rests on    *)
(* the record.  RecommendationLifecycle implements this module.            *)
(***************************************************************************)
CONSTANTS
    Entry,    \* what a recommendation is about: market, track, entry bar
    Kinds,    \* the price events; "target" and "stop" end a trade
    Moment,   \* when an event happens
    None

VARIABLES
    trade,      \* trade[e]: the events on record and the verdict
    announced,  \* entries that users have been told of
    alerted     \* alerted[<<e, k>>]: how often they were told of an event

vars == <<trade, announced, alerted>>

Opened == [events |-> [k \in Kinds |-> None], verdict |-> "open"]
OnRecord(e) == trade[e] # None
Recorded(e, k) == OnRecord(e) /\ trade[e].events[k] # None
Ended(e) == Recorded(e, "target") \/ Recorded(e, "stop")

Init ==
    /\ trade = [e \in Entry |-> None]
    /\ announced = {}
    /\ alerted = [a \in Entry \X Kinds |-> 0]

\* New recommendations are put on record, all of a run at once.
Publish ==
    /\ \E entries \in SUBSET {e \in Entry : ~OnRecord(e)} :
          trade' = [e \in Entry |-> IF e \in entries THEN Opened ELSE trade[e]]
    /\ UNCHANGED <<announced, alerted>>

\* Users are told of recommendations, which are on record by then.
Announce ==
    /\ \E entries \in SUBSET {e \in Entry : OnRecord(e)} :
          announced' = announced \cup entries
    /\ UNCHANGED <<trade, alerted>>

\* A price event is recorded, for the first time and while the trade has no end.
Record(e, k, at) ==
    /\ OnRecord(e) /\ ~Ended(e) /\ ~Recorded(e, k)
    /\ trade' = [trade EXCEPT ![e].events[k] = at]
    /\ UNCHANGED <<announced, alerted>>

\* Users are told of recorded events that they have not been told of.
Alert ==
    /\ \E events \in SUBSET {a \in Entry \X Kinds : Recorded(a[1], a[2]) /\ alerted[a] = 0} :
          alerted' = [a \in Entry \X Kinds |-> IF a \in events THEN 1 ELSE alerted[a]]
    /\ UNCHANGED <<trade, announced>>

\* A trade is judged, once; success needs a recorded target.
Settle(e, verdict) ==
    /\ OnRecord(e) /\ trade[e].verdict = "open"
    /\ verdict = "success" => Recorded(e, "target")
    /\ trade' = [trade EXCEPT ![e].verdict = verdict]
    /\ UNCHANGED <<announced, alerted>>

Next ==
    \/ Publish \/ Announce \/ Alert
    \/ \E e \in Entry, k \in Kinds, at \in Moment : Record(e, k, at)
    \/ \E e \in Entry, verdict \in {"success", "failure"} : Settle(e, verdict)

Spec == Init /\ [][Next]_vars
=============================================================================
