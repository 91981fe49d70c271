------------------------------- MODULE SpellNotice -------------------------------
(***************************************************************************)
(* What the program promises of the reverse premium, without the prices,   *)
(* the requests and the failures behind it: a spell of it is put on        *)
(* record, and there is one chance to tell of it, which begins with the    *)
(* record and in which each channel is passed at most once, in any order.  *)
(* A chance that is cut short does not come back before the spell is over. *)
(* ReversePremium implements this module.                                  *)
(***************************************************************************)
CONSTANT Channels

VARIABLES
    spell,   \* a spell is on record
    chance,  \* there is a chance to tell of it
    passed,  \* channels that the chance has passed
    heard    \* heard[c]: how often channel c has heard of the spell

vars == <<spell, chance, passed, heard>>

Nobody == [c \in Channels |-> 0]

Init == ~spell /\ ~chance /\ passed = {} /\ heard = Nobody

Onset ==
    /\ ~spell
    /\ spell' /\ chance'
    /\ UNCHANGED <<passed, heard>>

\* A channel hears of the spell, for the first time; or it does not.
Pass(c) ==
    /\ chance /\ c \notin passed
    /\ passed' = passed \cup {c}
    /\ \/ heard[c] = 0 /\ heard' = [heard EXCEPT ![c] = 1]
       \/ UNCHANGED heard
    /\ UNCHANGED <<spell, chance>>

\* The chance is over, whether every channel has been passed or not.
Close ==
    /\ chance
    /\ ~chance' /\ passed' = {}
    /\ UNCHANGED <<spell, heard>>

Recover ==
    /\ spell /\ ~chance
    /\ ~spell' /\ heard' = Nobody
    /\ UNCHANGED <<chance, passed>>

Next == Onset \/ Close \/ Recover \/ \E c \in Channels : Pass(c)

Spec == Init /\ [][Next]_vars
=============================================================================
