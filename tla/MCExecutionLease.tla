-------------------------- MODULE MCExecutionLease --------------------------
(***************************************************************************)
(* Clock readings for ExecutionLease: Ragged are all ticks of a second,    *)
(* whose fractions have none, one or two digits.                           *)
(***************************************************************************)
EXTENDS ExecutionLease, TLC

Ragged == {0, 1, 2, 3}
Symmetry == Permutations(Worker)
=============================================================================
