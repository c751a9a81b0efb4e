--------------------------- MODULE AppendOnlyLog ---------------------------
(***************************************************************************)
(* What a Core promises (spec section 1): an append-only log.  Entries are *)
(* only ever added at the end, one at a time; an entry, once in the log,   *)
(* never changes and is never removed.                                     *)
(***************************************************************************)
EXTENDS Sequences

CONSTANT Content     \* the entries a log may hold

VARIABLE log         \* the entries appended so far, oldest first

Init == log = <<>>

\* A step from the log old to the log new adds one entry at the end.
AppendStep(old, new) == \E c \in Content : new = Append(old, c)

Next == AppendStep(log, log')

Spec == Init /\ [][Next]_log

=============================================================================
