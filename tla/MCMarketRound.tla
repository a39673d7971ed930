--------------------------- MODULE MCMarketRound ---------------------------
(* Three orders: one large enough to rest through two others or to take    *)
(* both of them, and one that expires early.                               *)
EXTENDS MarketRound

CONSTANTS first, second, third, n1, n2

FirstIsLarger == [o \in Orders |-> IF o = first THEN 2 ELSE 1]

SecondExpires == [o \in Orders |-> IF o = second THEN 0 ELSE 1]
=============================================================================
