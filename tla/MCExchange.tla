----------------------------- MODULE MCExchange -----------------------------
(***************************************************************************)
(* Instances of Exchange: the two participants that the engine is opened   *)
(* with, and a few orders chosen so that they cross, improve on a limit,   *)
(* exhaust a balance or the proof domain, trade with their own account,    *)
(* claim another's entity, expire or are immediate-or-cancel.              *)
(***************************************************************************)
EXTENDS Exchange

CONSTANTS alice, bob

Order(n, who, entity, side, price, quantity, ioc, expires_at) ==
    [n |-> n, participant |-> who, entity |-> entity, side |-> side, price |-> price,
     quantity |-> quantity, ioc |-> ioc, expires_at |-> expires_at]

MCParticipants == {alice, bob}

MCOrders ==
    {Order(1, alice, alice, "sell", 2, 2, FALSE, 1),
     Order(2, alice, alice, "sell", 1, 1, FALSE, 0),
     Order(3, bob, bob, "buy", 3, 3, FALSE, 1),
     Order(4, bob, bob, "buy", 5, 1, TRUE, 1),
     Order(5, alice, alice, "buy", 3, 1, FALSE, 1),
     Order(6, alice, alice, "sell", 3, 1, FALSE, 1),
     Order(7, bob, alice, "buy", 1, 1, FALSE, 1)}

\* An order larger than what rests, immediate-or-cancel.
MCIocOrders ==
    {Order(1, alice, alice, "sell", 2, 1, FALSE, 1),
     Order(2, bob, bob, "buy", 1, 1, FALSE, 1),
     Order(3, bob, bob, "buy", 2, 2, TRUE, 1)}
=============================================================================
