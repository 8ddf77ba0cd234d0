----------------------------- MODULE MCSettings -----------------------------
(***************************************************************************)
(* A small instance of Settings: two Roles, one of which may yet have to   *)
(* be created.                                                             *)
(***************************************************************************)
EXTENDS Settings, TLC

CONSTANTS x, y, lead, helper, r1, r2, w1, w2, e1, plain, capped
=============================================================================
