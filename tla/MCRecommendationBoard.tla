------------------------- MODULE MCRecommendationBoard -------------------------
(* The small instance on which TLC checks RecommendationBoard. *)
EXTENDS RecommendationBoard

CONSTANTS btc, long, cron

FramesOfMC == {"30m", "4h"}
WidthOfMC == [f \in FramesOfMC |-> IF f = "30m" THEN 1 ELSE 2]
EntryOn4h == [k \in Tracks |-> "4h"]
HoldOfMC == [k \in Tracks |-> 2]
UpOfMC == [k \in Tracks |-> 3]
DownOfMC == [k \in Tracks |-> 1]
Quiet == {[low |-> 1, high |-> 1, close |-> 1]}
=============================================================================
