----------------------------- MODULE MCProtocol -----------------------------
(* Two endpoints and two keys for Protocol.tla. *)
EXTENDS Protocol, TLC

CONSTANTS a, b, k1, k2

MCPeers == {a, b}
MCKeys == {k1, k2}

\* Call bounds: the same for both endpoints; three calls for a against two
\* for b (the safety and liveness run, which cannot use symmetry); or five
\* calls for a (open, open, close, reopen, send) against two for b (open,
\* open).
Calls2 == [p \in MCPeers |-> 2]
Calls3 == [p \in MCPeers |-> 3]
Calls32 == a :> 3 @@ b :> 2
CallsReopen == a :> 5 @@ b :> 2

\* The two keys are interchangeable: nothing in the protocol orders them.
KeySymmetry == Permutations(MCKeys)

\* Scenario of the reopen run: b's application only opens channels, as a
\* passive replica does, and makes its calls before a's application starts.
BOpensFirst ==
    /\ \A i \in 1..Len(issued[b]) : issued[b][i].type = "open"
    /\ issued[a] /= <<>> => Len(issued[b]) = MaxCalls[b]

=============================================================================
