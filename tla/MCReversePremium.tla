---------------------------- MODULE MCReversePremium ----------------------------
(* The small instance on which TLC checks ReversePremium: Korea dearer than    *)
(* abroad, at par, at the threshold of two per cent and below it, the last     *)
(* also with another rate.                                                     *)
EXTENDS ReversePremium

Three == <<"telegram", "discord", "slack">>

Quote(fx, upbit, binance) == [fx |-> fx, upbit |-> upbit, binance |-> binance]
Around == {Quote(2, 202, 100), Quote(2, 200, 100), Quote(2, 197, 100), Quote(2, 196, 100),
           Quote(3, 290, 100), Quote(2, 200, 103)}
=============================================================================
