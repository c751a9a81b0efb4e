------------------------------- MODULE MCCore -------------------------------
(***************************************************************************)
(* Model values for Core.tla: two contents of one and two bytes (so block  *)
(* offsets and indices differ), the core's key and another writer's key.   *)
(***************************************************************************)
EXTENDS Core, TLC

CONSTANTS c1, c2

MCContent == {c1, c2}

MCDataLen == c1 :> 1 @@ c2 :> 2

=============================================================================
