---------------------------- MODULE MCTradeSimulation ----------------------------
(* The small instance on which TLC checks TradeSimulation: a bar of the          *)
(* simulation holds two of the monitor's, which idle, rise to a target or fall   *)
(* to a stop, and one after the other do both.                                   *)
EXTENDS TradeSimulation

Quote(low, high, close) == [low |-> low, high |-> high, close |-> close]
Paths == {Quote(0, 1, 1), Quote(0, 2, 0), Quote(-2, 0, 0)}
=============================================================================
