----------------------- MODULE MCRecommendationLifecycle -----------------------
(* The small instances on which TLC checks RecommendationLifecycle. *)
EXTENDS RecommendationLifecycle

CONSTANTS btc, day, long, cron, request

\* Entries are looked for on bars of two or four, closing prices on bars of one.
FramesOfMC == {"30m", "4h"}
WidthOf(w) == [f \in FramesOfMC |-> IF f = "30m" THEN 1 ELSE w]
Width2 == WidthOf(2)
Width4 == WidthOf(4)
EntryOn4h == [k \in Tracks |-> "4h"]

\* A short and a long track whose targets lie at different distances.
HoldOfMC == [k \in Tracks |-> IF k = day THEN 1 ELSE 2]
UpOfMC == [k \in Tracks |-> IF k = day THEN 2 ELSE 3]
DownOfMC == [k \in Tracks |-> 1]

Quote(low, high, close) == [low |-> low, high |-> high, close |-> close]
Flat == {Quote(0, 0, 0)}
\* One bar after another: back at the entry price; the target; the stop and the
\* target at once; a timed-out trade above and below its entry price.
CalmOrSwing == {Quote(1, 1, 1), Quote(-1, 3, -1)}
\* Never back at the entry price, and through the target.
QuietOrRise == {Quote(1, 1, 1), Quote(1, 3, 1)}
=============================================================================
