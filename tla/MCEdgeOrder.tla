---------------------------- MODULE MCEdgeOrder ----------------------------
(***************************************************************************)
(* Four nodes, two of them corrupt, in the field of five elements.  The    *)
(* order a holds a reservation and may be cut into shares twice, c is a    *)
(* legacy order without a reservation.                                     *)
(***************************************************************************)
EXTENDS EdgeOrder, TLC

CONSTANTS a, c

MCOrders == {a, c}
MCManifests == {<<a, 0>>, <<a, 1>>, <<c, 0>>}

\* Coefficients 0..2 of the value, then 3..5 of the blinding.
MCRandom ==
    [d \in {0, 1} |->
        [name \in Fields \cup {"key"} |->
            [k \in 0..5 |-> CASE name = "key" -> (<<3, 1, 4, 2, 2, 1>>[k + 1] + d) % 5
                              [] name = "price" -> (2 * k + 1 + d) % 5
                              [] name = "side" -> (k + 3 + 2 * d) % 5
                              [] name = "handle" -> (k * k + 2 + d) % 5
                              [] OTHER -> (3 * k + 1 + d) % 5]]]

MCSecret ==
    [o \in MCOrders |->
        [side |-> IF o = a THEN 1 ELSE 0, price |-> IF o = c THEN 4 ELSE 2,
         handle |-> 3, reserve |-> IF o = a THEN 4 ELSE 1]]

MCBlinding == [o \in MCOrders |-> [side |-> 2, reserve |-> 3]]
MCHold == (a :> "h") @@ (c :> None)
MCDeadline == (a :> 0) @@ (c :> 0)

MCSlips ==
    {[manifest |-> <<a, 1>>, party |-> 2, part |-> "reserve"],
     [manifest |-> <<a, 1>>, party |-> 3, part |-> "key"]}

====
