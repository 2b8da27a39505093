-------------------------- MODULE MCValidationRuns --------------------------
(***************************************************************************)
(* Instances of ValidationRuns for TLC.                                    *)
(***************************************************************************)
EXTENDS ValidationRuns, TLC

Interchangeable == Permutations(Executor)

=============================================================================
