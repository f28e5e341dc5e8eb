----------------------------- MODULE MCRestRules -----------------------------
(* An instance of RestRules for TLC. *)
EXTENDS RestRules, TLC

CONSTANTS u1, d1, d2, w1, w2

MCDepartmentOf == u1 :> d1
\* One administrator, whose requests may fail, and two, whose requests do not.
MCScopes == {[workers |-> {w1}, failing |-> TRUE], [workers |-> {w1, w2}, failing |-> FALSE]}
=============================================================================
