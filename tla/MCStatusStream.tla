--------------------------- MODULE MCStatusStream ---------------------------
(***************************************************************************)
(* Instances of StatusStream for TLC.                                      *)
(***************************************************************************)
EXTENDS StatusStream, TLC

Interchangeable == Permutations(Client) \cup Permutations(Place)

=============================================================================
