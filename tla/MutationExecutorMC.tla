------------------------- MODULE MutationExecutorMC -------------------------
(***************************************************************************)
(* An instance of MutationExecutor for TLC: two committed files, one name  *)
(* that is free, and every operation allowed.                              *)
(***************************************************************************)
EXTENDS MutationExecutor

FreeName == "c.ts"
Tree == [p \in Paths |-> IF p = FreeName THEN Absent ELSE Committed]
=============================================================================
