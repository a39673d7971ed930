---------------------------- MODULE MCNativeFill ----------------------------
(***************************************************************************)
(* A buyer takes from two sell orders of one seller in a round, a second   *)
(* buyer takes from the rest of the first of them, and what is left of it  *)
(* is cancelled.                                                           *)
(***************************************************************************)
EXTENDS NativeFill, TLC

CONSTANTS b1, b2, s1, s2, n1, n2, alice, bob, carol

MCOrders == {b1, b2, s1, s2}
MCNodes == {n1, n2}
MCSigners == {n1, n2}
MCSide == b1 :> "buy" @@ b2 :> "buy" @@ s1 :> "sell" @@ s2 :> "sell"
MCLimit == b1 :> 2 @@ b2 :> 1 @@ s1 :> 1 @@ s2 :> 2
MCAmount == b1 :> 4 @@ b2 :> 2 @@ s1 :> 3 @@ s2 :> 1
MCHolder == b1 :> alice @@ b2 :> carol @@ s1 :> bob @@ s2 :> bob
MCDeadline == b1 :> 1 @@ b2 :> 1 @@ s1 :> 1 @@ s2 :> 0

First == [kind |-> "round", taker |-> b1, left |-> 0,
          fills |-> 0 :> [maker |-> s1, quantity |-> 1, price |-> 1]
                 @@ 2 :> [maker |-> s2, quantity |-> 1, price |-> 2]]
Second == [kind |-> "round", taker |-> b2, left |-> 1,
           fills |-> 0 :> [maker |-> s1, quantity |-> 1, price |-> 1]]
Cancel(o) == [kind |-> "cancel", order |-> o]

MCLog == <<First, Second, Cancel(s1)>>
SignerSymmetry == Permutations(MCSigners)
MCValueRange == 1 .. 4
=============================================================================
