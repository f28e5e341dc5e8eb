---------------------------- MODULE MCVpnAssignment ----------------------------
(* An instance of VpnAssignment for TLC. *)
EXTENDS VpnAssignment

CONSTANTS s1, s2

\* A user of a department and of a role, with up to two rules.
MCScopes == {[default |-> s1, maxRules |-> 2, targets |-> {"department", "role"}]}
=============================================================================
