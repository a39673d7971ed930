--------------------------- MODULE MCNodeOrdering ---------------------------
(***************************************************************************)
(* Instances of NodeOrdering for TLC.                                      *)
(***************************************************************************)
EXTENDS NodeOrdering, TLC

CONSTANTS n1, n2, n3, n4, early, late

\* Four nodes, one of them corrupt, quorum three: the smallest committee with
\* the proportions of the seven-node one (two quorums share an honest node).
MCNodes == {n1, n2, n3, n4}
MCByzantine == {n4}
NoByzantine == {}

MCCommitments == {early, late}

\* The admission of early ends one second before that of late, so votes can
\* expire and be replaced by votes for late.
MCDeadline == [c \in MCCommitments |-> IF c = early THEN 0 ELSE 1]

NodeSymmetry == Permutations({n1, n2, n3})
=============================================================================
