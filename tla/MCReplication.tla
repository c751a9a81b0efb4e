--------------------------- MODULE MCReplication ---------------------------
(* A writer starting with one block and appending up to two more. *)
EXTENDS Replication, TLC

CONSTANTS w, r, c1, c2

MCContent == {c1, c2}
MCInitLog == <<c1>>

=============================================================================
