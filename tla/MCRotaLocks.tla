----------------------------- MODULE MCRotaLocks -----------------------------
(***************************************************************************)
(* A small instance of RotaLocks: three rotas, so that three transactions  *)
(* can wait in a circle that no two of them are in.                        *)
(***************************************************************************)
EXTENDS RotaLocks, TLC

CONSTANTS f1, f2, f3

FlowSymmetry == Permutations(Flows)
=============================================================================
