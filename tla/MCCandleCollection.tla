--------------------------- MODULE MCCandleCollection ---------------------------
(* The small instances on which TLC checks CandleCollection. *)
EXTENDS CandleCollection

\* Bars of two, as frames up to a week are even.
Even == {2 * i : i \in 0..8}
ASSUME FrameIsRegular == NoBarIsLonger /\ NoBarIsShorter
=============================================================================
