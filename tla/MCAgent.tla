------------------------------- MODULE MCAgent -------------------------------
(***************************************************************************)
(* Instances of Agent for TLC.                                             *)
(***************************************************************************)
EXTENDS Agent, TLC

CONSTANTS d1, p1, p2

\* A disk has room for two OSDs.
OnOneDisk == (p1 :> d1) @@ (p2 :> d1)
=============================================================================
