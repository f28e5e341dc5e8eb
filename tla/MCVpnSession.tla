---------------------------- MODULE MCVpnSession ----------------------------
(* Instances of VpnSession for TLC. *)
EXTENDS VpnSession

CONSTANTS s1, s2, alice, ghost, dept, admin

\* alice holds a certificate on the first server and may get another one there; ghost is a
\* common name without account.
MCCertificates == {s1} \X {alice} \X (1..2)
MCDepartmentOf == [a \in {alice} |-> dept]

MCOneDay == [d \in 1..1 |-> 1]
MCTwoDays == [d \in 1..2 |-> 1]

\* A rule on a server and a rule on a certificate, one of them disabling it.
MCConcurrentRules ==
  {[target |-> <<"server", s1>>, period |-> "day", threshold |-> 2, action |-> "disable_certificate"]}
MCCalendarRules ==
  {[target |-> <<"server", s1>>, period |-> "month", threshold |-> 3, action |-> "notify"],
   [target |-> <<"certificate", <<s1, alice, 1>>>>, period |-> "day", threshold |-> 2,
    action |-> "disable_certificate"]}
=============================================================================
