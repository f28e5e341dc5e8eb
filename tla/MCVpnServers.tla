------------------------------ MODULE MCVpnServers ------------------------------
(* An instance of VpnServers for TLC: the administrators are alike, and the servers. *)
EXTENDS VpnServers, TLC

CONSTANTS s1, s2, w1, w2, h1, h2

Symmetry == Permutations({w1, w2}) \cup Permutations({s1, s2})
=============================================================================
