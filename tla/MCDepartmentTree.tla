-------------------------- MODULE MCDepartmentTree --------------------------
(* DepartmentTree for TLC: the ids of departments are interchangeable. *)
EXTENDS DepartmentTree, TLC

CONSTANTS admin1, admin2

\* Four departments and one request at a time, or two requests over two.
MCScopes == {[admins |-> {admin1}, departments |-> 4],
             [admins |-> {admin1, admin2}, departments |-> 2]}
Symmetry == Permutations(Departments)
=============================================================================
