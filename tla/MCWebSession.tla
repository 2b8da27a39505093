---------------------------- MODULE MCWebSession ----------------------------
(***************************************************************************)
(* Instances of WebSession for TLC.                                        *)
(***************************************************************************)
EXTENDS WebSession, TLC

Interchangeable == Permutations(Slot)

=============================================================================
