---------------------------- MODULE MCNodeStore ----------------------------
(***************************************************************************)
(* Instances of NodeStore.                                                 *)
(***************************************************************************)
EXTENDS NodeStore, TLC

CONSTANTS o1, o2, o3, c1, c2, h1, h2, h3

\* Every order has its own reservation; the first order is released.
OwnHold == (o1 :> h1) @@ (o2 :> h2) @@ (o3 :> h3)
ReleaseFirst == c1 :> o1

\* Two commands to release the first order.
ReleaseFirstTwice == (c1 :> o1) @@ (c2 :> o1)

=============================================================================
