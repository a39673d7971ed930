--------------------------- MODULE MCPrivateBook ---------------------------
(***************************************************************************)
(* Resting orders at two prices, two of them alike and some expiring       *)
(* early, and orders of either side that take from one, from several or    *)
(* from more of them than the circuit has slots for.                       *)
(***************************************************************************)
EXTENDS PrivateBook

NewOrder(salt, side, price, quantity, can_rest, expires_at) ==
    [salt |-> salt, side |-> side, price |-> price, quantity |-> quantity,
     can_rest |-> can_rest, expires_at |-> expires_at]

MCOrders ==
    {NewOrder(1, "sell", p, 1, TRUE, t) : p \in {1, 2}, t \in {0, 1}}
    \cup {NewOrder(1, "buy", p, q, TRUE, 1) : p \in {1, 2}, q \in {1, 3}}
    \cup {NewOrder(2, "sell", 1, 1, TRUE, 1), NewOrder(1, "sell", 1, 3, TRUE, 1),
          NewOrder(1, "buy", 2, 3, FALSE, 1), NewOrder(1, "sell", 1, 2, FALSE, 1)}
=============================================================================
