--------------------------- MODULE MCWireGuardPeers ---------------------------
(* An instance of WireGuardPeers for TLC: two accounts. *)
EXTENDS WireGuardPeers

CONSTANTS a1, a2, s1, s2, w1, w2

\* One request at a time without failures.
MCOrderly ==
  [workers |-> {w1}, servers |-> {s1, s2}, addresses |-> {1, 2}, maxKeys |-> 3,
   maxFaults |-> 0, features |-> {}]
\* Failures: an address for each account, and one for both.
MCFailures ==
  [workers |-> {w1}, servers |-> {s1}, addresses |-> {1, 2}, maxKeys |-> 3,
   maxFaults |-> 2, features |-> {}]
\* Accounts move, thresholds act and servers restart.
MCMoves ==
  [workers |-> {w1}, servers |-> {s1, s2}, addresses |-> {1, 2}, maxKeys |-> 2,
   maxFaults |-> 1, features |-> {"move", "threshold", "restart"}]
\* Two requests at a time.
MCConcurrent ==
  [workers |-> {w1, w2}, servers |-> {s1}, addresses |-> {1, 2}, maxKeys |-> 2,
   maxFaults |-> 0, features |-> {"threshold"}]
MCScopes == {MCOrderly, MCFailures, MCMoves, MCConcurrent}
=============================================================================
