-------------------------- MODULE MCCorporateQueue --------------------------
(* Small instances: one request the worker funds and one the client funds.  *)
EXTENDS CorporateQueue

UnitLimits == [a |-> 1, b |-> 1]

OneDeadline == [a |-> 0, b |-> 0]
=============================================================================
