----------------------------- MODULE MCOperator -----------------------------
(***************************************************************************)
(* Instances of Operator for TLC.                                          *)
(***************************************************************************)
EXTENDS Operator, TLC

CONSTANTS n1, n2, p1, o1

\* One disk that fits into either host.
OneDisk == p1 :> o1
AnyHost == p1 :> {n1, n2}

\* The hosts are alike, so the disk is in the first to begin with.
FirstInit == OperatorInit /\ where[p1] = n1
InFirst == FirstInit /\ [][OperatorNext]_allVars /\ OperatorFairness
=============================================================================
