------------------------------ MODULE MCPayPage ------------------------------
(***************************************************************************)
(* An instance of PayPage for TLC.                                         *)
(***************************************************************************)
EXTENDS PayPage
=============================================================================
