----------------------------- MODULE MCMarketGates -----------------------------
(* The small instance on which TLC checks MarketGates: closes that rise by less  *)
(* than the strong threshold, by exactly it and by more, and fall.               *)
EXTENDS MarketGates

\* BTC rises above its cloud with the last bar of the start.
CloudsOfMC == {{StartBars}}
PricesOfMC == [m \in PhaseMarkets |-> IF m = Btc THEN {10, 12, 13} ELSE {10, 13}]
HorizonOfMC == [h \in Horizons |-> CASE h \in {"1d", "7d"} -> 1 [] h = "30d" -> 2 [] OTHER -> 3]
=============================================================================
