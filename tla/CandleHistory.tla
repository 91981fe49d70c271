----------------------------- MODULE CandleHistory -----------------------------
(***************************************************************************)
(* What the readers of a market's candles may rely on, without the pages,  *)
(* the retries, the decision between backfill and increment and the two    *)
(* transactions behind it: the history is one stretch of bars that are     *)
(* over; it only ever grows, and only as the whole answer to a collection, *)
(* which then leaves nothing out; a collection that fails changes nothing. *)
(* CandleCollection implements this module.                                *)
(***************************************************************************)
EXTENDS Integers

CONSTANTS
    Opens,   \* open times of the bars of the frame
    Listed,  \* the first of them on the exchange
    None     \* the exchange's first bar is not known

VARIABLES
    now,
    history,   \* the bars that readers find
    known,     \* what is taken for the exchange's first bar
    collects,  \* whether a collection is in progress
    owed,      \* the bars that it was begun to supply
    failures   \* failures so far

vars == <<now, history, known, collects, owed, failures>>

Over(b, at) == \E x \in Opens : b < x /\ x <= at
Stretch(bars) ==
    /\ bars \subseteq Opens
    /\ \A a, c \in bars : \A b \in Opens : a < b /\ b < c => b \in bars
Readable(bars, at) == Stretch(bars) /\ \A b \in bars : Listed <= b /\ Over(b, at)

Init ==
    /\ Readable(history, now)
    /\ known = None /\ ~collects /\ owed = {} /\ failures = 0

Pass == now' > now /\ UNCHANGED <<history, known, collects, owed, failures>>

\* A collection begins, and owes the bars since some time that are over.
Ask ==
    /\ ~collects /\ collects'
    /\ \E since \in 0..now : owed' = {b \in Opens : Over(b, now) /\ b >= since /\ b >= Listed}
    /\ UNCHANGED <<now, history, known, failures>>

\* It is found out from which bar on the exchange has any.
Learn ==
    /\ known' \in Opens /\ known' >= Listed
    /\ UNCHANGED <<now, history, collects, owed, failures>>

\* The collection returns, with all it owes except what the exchange does not have.
Answer ==
    /\ collects /\ ~collects' /\ owed' = {}
    /\ history \subseteq history' /\ Readable(history', now)
    /\ known' = known \/ (known' \in Opens /\ known' >= Listed)
    /\ \A b \in owed : (known' # None => b >= known') => b \in history'
    /\ UNCHANGED <<now, failures>>

\* Something fails; the collection goes on or is given up.
Fail ==
    /\ collects /\ failures' = failures + 1
    /\ UNCHANGED <<collects, owed>> \/ (~collects' /\ owed' = {})
    /\ UNCHANGED <<now, history, known>>

Next == Pass \/ Ask \/ Learn \/ Answer \/ Fail

Spec == Init /\ [][Next]_vars
=============================================================================
