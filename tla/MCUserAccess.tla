---------------------------- MODULE MCUserAccess ----------------------------
(* An instance of UserAccess for TLC. *)
EXTENDS UserAccess

CONSTANTS alice, bob, admin, clerk, d1, d2, w1, w2

Empty == [columns |-> <<>>, lists |-> <<>>]
\* Lists with more than one id, with one that is not valid (gone) or given as null.
MCPayloads ==
  {[Empty EXCEPT !.columns = [active |-> FALSE]],
   [columns |-> [active |-> TRUE, deleted |-> FALSE], lists |-> [role |-> <<clerk>>]],
   [columns |-> [deleted |-> TRUE], lists |-> [department |-> <<d1, d2>>]],
   [Empty EXCEPT !.lists = [role |-> <<clerk>>]],
   [Empty EXCEPT !.lists = [role |-> <<>>, scope |-> <<"gone", d1>>]],
   [Empty EXCEPT !.lists = [department |-> Null, positions |-> <<d1, d2>>]]}
MCRolePayloads ==
  {[active |-> FALSE], [active |-> TRUE, grants |-> <<"system:user:query">>], [grants |-> Null]}

\* Two handlers at the same time, or one whose requests may fail; from a system that
\* has the user and the role, or has the built-in ones only.
MCScopes ==
  {[workers |-> ws, failing |-> ws = {w1}, start |-> start,
    requests |-> IF ws = {w1} THEN 4 ELSE 3] :
     ws \in {{w1}, {w1, w2}}, start \in {{admin}, {admin, alice, clerk}}}
=============================================================================
