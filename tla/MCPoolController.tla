-------------------------- MODULE MCPoolController --------------------------
(***************************************************************************)
(* Instances of PoolController for TLC.                                    *)
(***************************************************************************)
EXTENDS PoolController, TLC

CONSTANTS a, b, c1, c2

\* Pool a may take either id, pool b only the second.
SharedIds == (a :> {c1, c2}) @@ (b :> {c2})
=============================================================================
