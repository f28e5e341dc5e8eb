---------------------------- MODULE PlacementProofs ----------------------------
(***************************************************************************)
(* Where users are placed: in the department tree (DepartmentTree) and on  *)
(* VPN servers (VpnAssignment), for any departments, users, requests,      *)
(* servers and rules.                                                      *)
(*                                                                         *)
(* The searches of the tree find the least set that holds the children of  *)
(* what they start from and theirs: what a round finds is in every such    *)
(* set, a round that finds nothing new is the last, and as every other     *)
(* finds a department, there are enough rounds.                            *)
(*                                                                         *)
(* What a request leaves to be written is about the tables as they are, as *)
(* long as no other commits (UpToDate); what it then writes follows from   *)
(* what it checked.                                                        *)
(*                                                                         *)
(* An account's server and what it is put down to are written together;    *)
(* resolving one names a rule only with that rule's server.                *)
(***************************************************************************)
EXTENDS DepartmentTree, VpnAssignment, FiniteSetTheorems, WellFoundedInduction, TLAPS
Transaction ==
  [kind : {"none", "create", "update", "delete", "assign", "user"},
   create : SUBSET Departments, parents : SUBSET (Departments \X (Departments \cup {None})),
   delete : SUBSET Departments, restore : SUBSET Departments,
   members : SUBSET (Users \X (Departments \cup {None})), gone : SUBSET Users]

TypeOK ==
  /\ scope \in Scopes
  /\ created \in SUBSET Departments
  /\ deleted \in SUBSET created
  /\ parent \in [Departments -> Departments \cup {None}]
  /\ member \in [Users -> Departments \cup {None}]
  /\ gone \in SUBSET Users
  /\ txn \in [Admins -> Transaction]
  /\ overtaken \in SUBSET Admins

\* Parents have a row, also those about to be written; so has what is about to be deleted.
HasRows(t) ==
  /\ \A d \in t.create : \E p \in t.parents : p[1] = d
  /\ \A p \in t.parents : p[2] \in created \cup {None}
  /\ t.delete \subseteq created
Rows ==
  /\ \A d \in created : parent[d] \in created \cup {None}
  /\ \A w \in Admins : HasRows(txn[w])

\* What a request validated and will write, all of it about the tables as they are.
Creates(t) ==
  \E d \in Departments \ created, p \in Live \cup {None} : t = CreateWrites(d, p)
Updates(t) ==
  \E d \in created, moves \in {{}} \cup {{p} : p \in Departments \cup {None}},
     marks \in {{}} \cup {{m} : m \in BOOLEAN} :
    /\ \A p \in moves : ValidParent(p, d)
    /\ TRUE \in marks /\ d \notin deleted => TreeHasNoUsers(d)
    /\ t = UpdateWrites(d, moves, marks)
Deletes(t) == \E d \in Live : TreeHasNoUsers(d) /\ t = DeleteWrites(d)
Assigns(t) ==
  \E u \in Users, d \in Live \cup {None} :
    t = [Idle EXCEPT !.kind = "assign", !.members = {<<u, d>>}]
Dismisses(t) == \E us \in SUBSET Users : t = [Idle EXCEPT !.kind = "user", !.gone = us]

\* The snapshot of a request no other commit overtook is still what is stored.
UpToDate ==
  \A w \in Admins \ overtaken :
    LET t == txn[w] IN
    t = Idle \/ Creates(t) \/ Updates(t) \/ Deletes(t) \/ Assigns(t) \/ Dismisses(t)

Inv == TypeOK /\ Rows /\ UpToDate
-----------------------------------------------------------------------------
(* Departments under one another, in any table of departments *)

\* The rows in live whose parent is one of ids, and the least set of rows that holds the
\* children of d and theirs.
Kids(live, up, ids) == {d \in live : up[d] \in ids}
Below(live, up, d) ==
  {x \in Departments :
     \A s \in SUBSET Departments : Kids(live, up, s \cup {d}) \subseteq s => x \in s}

LEMMA ChildrenAreKids ==
  ASSUME NEW ids
  PROVE  Children(ids) = Kids(Live, parent, ids)
  BY DEF Children, Kids

LEMMA DescendantsAreBelow ==
  ASSUME NEW d
  PROVE  /\ Descendants(d) = Below(Live, parent, d)
         /\ Descendants(d)' = Below(Live', parent', d)
  BY DEF Descendants, Below, Children, Kids

\* There is such a set: it is closed, it is made of rows, and no closed set is without it.
LEMMA BelowLeast ==
  ASSUME NEW live \in SUBSET Departments, NEW up, NEW d
  PROVE  /\ Kids(live, up, Below(live, up, d) \cup {d}) \subseteq Below(live, up, d)
         /\ Below(live, up, d) \subseteq live
         /\ \A s \in SUBSET Departments :
              Kids(live, up, s \cup {d}) \subseteq s => Below(live, up, d) \subseteq s
<1> DEFINE B == Below(live, up, d)
<1>1. \A s \in SUBSET Departments : Kids(live, up, s \cup {d}) \subseteq s => B \subseteq s
  BY DEF Below
<1>2. Kids(live, up, live \cup {d}) \subseteq live
  BY DEF Kids
<1>3. ASSUME NEW x \in Kids(live, up, B \cup {d}) PROVE x \in B
  <2>1. x \in Departments
    BY <1>3 DEF Kids
  <2>2. ASSUME NEW s \in SUBSET Departments, Kids(live, up, s \cup {d}) \subseteq s PROVE x \in s
    <3>1. B \subseteq s
      BY <1>1, <2>2
    <3> HIDE DEF B
    <3>2. x \in Kids(live, up, s \cup {d})
      BY <1>3, <3>1 DEF Kids
    <3> QED  BY <2>2, <3>2
  <2> QED  BY <2>1, <2>2 DEF Below
<1> QED  BY <1>1, <1>2, <1>3

\* A department under another has everything under it under that one, too.
LEMMA BelowTransitive ==
  ASSUME NEW live \in SUBSET Departments, NEW up, NEW d, NEW x \in Below(live, up, d)
  PROVE  Below(live, up, x) \subseteq Below(live, up, d)
<1> DEFINE B == Below(live, up, d)
<1>1. /\ Kids(live, up, B \cup {d}) \subseteq B /\ B \subseteq live
      /\ x \in B
  BY BelowLeast
<1> HIDE DEF B
<1>2. Kids(live, up, B \cup {x}) \subseteq B
  BY <1>1 DEF Kids
<1>3. Below(live, up, x) \subseteq B
  BY <1>1, <1>2, BelowLeast
<1> QED  BY <1>3 DEF B

-----------------------------------------------------------------------------
(* Searches in rounds *)

\* A set of natural numbers that is not empty has a least one.
LEMMA LeastNumber ==
  ASSUME NEW T \in SUBSET Nat, T # {}
  PROVE  \E n \in T : \A m \in T : n <= m
<1> DEFINE R == {p \in Nat \X Nat : p[1] < p[2]}
<1>1. IsWellFoundedOn(R, Nat)
  BY NatLessThanWellFounded DEF OpToRel
<1> HIDE DEF R
<1>2. PICK n \in T : \A m \in T : ~ (<<m, n>> \in R)
  BY <1>1, WFMin
<1>3. ASSUME NEW m \in T PROVE n <= m
  <2>1. m \in Nat /\ n \in Nat /\ ~ (m < n)
    BY <1>2 DEF R
  <2> QED  BY <2>1
<1> QED  BY <1>3

\* f begins with a and takes the step G from each round to the next.
Rounds(f, N, G, a) == f = [n \in 0..N |-> IF n = 0 THEN a ELSE G[f[n - 1]]]

\* As many rounds as one likes can be made.
LEMMA RoundsExist ==
  ASSUME NEW T, NEW G \in [T -> T], NEW a \in T, NEW N \in Nat
  PROVE  \E f \in [0..N -> T] : Rounds(f, N, G, a)
<1> DEFINE bad == {n \in Nat : ~ \E f \in [0..n -> T] : Rounds(f, n, G, a)}
<1> SUFFICES bad = {}
  OBVIOUS
<1> SUFFICES ASSUME bad # {} PROVE FALSE
  OBVIOUS
<1>1. PICK n \in bad : \A m \in bad : n <= m
  <2> HIDE DEF bad
  <2>1. bad \in SUBSET Nat
    BY DEF bad
  <2> QED  BY <2>1, LeastNumber
<1>2. CASE n = 0
  <2> DEFINE f == [k \in 0..0 |-> a]
  <2>1. f \in [0..0 -> T]
    OBVIOUS
  <2>2. \A k \in 0..0 : k = 0
    OBVIOUS
  <2>3. Rounds(f, 0, G, a)
    BY <2>2 DEF Rounds
  <2> QED  BY <1>2, <2>1, <2>3
<1>3. CASE n # 0
  <2>1. n \in Nat /\ n - 1 \in Nat /\ ~ (n <= n - 1)
    BY <1>3
  <2>2. n - 1 \notin bad
    <3> HIDE DEF bad
    <3> QED  BY <1>1, <2>1
  <2>3. PICK f \in [0..n - 1 -> T] : Rounds(f, n - 1, G, a)
    BY <2>1, <2>2
  <2> DEFINE g == [k \in 0..n |-> IF k = n THEN G[f[n - 1]] ELSE f[k]]
  <2>4. \A k \in 0..n : k # n => k \in 0..n - 1
    BY <2>1
  <2>5. n - 1 \in 0..n - 1 /\ f[n - 1] \in T
    BY <2>1, <2>3
  <2>6. g \in [0..n -> T]
    BY <2>4, <2>5
  <2>7. ASSUME NEW k \in 0..n PROVE g[k] = IF k = 0 THEN a ELSE G[g[k - 1]]
    <3>1. CASE k = n
      <4>1. g[k] = G[f[n - 1]] /\ g[n - 1] = f[n - 1] /\ k # 0
        BY <2>1, <3>1
      <4> QED  BY <3>1, <4>1
    <3>2. CASE k # n
      <4>1. g[k] = f[k] /\ k \in 0..n - 1
        BY <2>4, <3>2
      <4>2. f[k] = IF k = 0 THEN a ELSE G[f[k - 1]]
        BY <2>3, <4>1 DEF Rounds
      <4>3. k # 0 => g[k - 1] = f[k - 1]
        BY <2>1, <3>2
      <4> QED  BY <4>1, <4>2, <4>3
    <3> QED  BY <3>1, <3>2
  <2>8. Rounds(g, n, G, a)
    BY <2>7 DEF Rounds
  <2> QED  BY <2>6, <2>8
<1> QED  BY <1>2, <1>3

\* F is what is found and P what is pending after each round, until there were as many
\* rounds as there are departments.
Search(live, up, F, P) ==
  \A n \in 0..Cardinality(Departments) :
    /\ F[n] \in SUBSET Departments
    /\ n # 0 => /\ P[n] = Kids(live, up, P[n - 1]) \ F[n - 1]
                /\ F[n] = F[n - 1] \cup P[n]

\* What is found after n rounds holds all but the children of what is pending, more of it
\* with each round that still has something pending, and nothing a closed set B lacks.
Found(live, up, S, F, P, n) ==
  /\ F[0] \subseteq F[n]
  /\ Kids(live, up, S \cup F[n]) \subseteq F[n] \cup Kids(live, up, P[n])
  /\ P[n] = {} \/ Cardinality(F[n]) >= n
  /\ \A B \in SUBSET Departments :
       F[0] \subseteq B /\ Kids(live, up, S \cup B) \subseteq B
         => F[n] \subseteq B /\ P[n] \subseteq S \cup B

\* One round more: what is new are the children of what is pending that were not found yet.
LEMMA SearchStep ==
  ASSUME NEW live \in SUBSET Departments, NEW up, NEW S \in SUBSET Departments,
         NEW F, NEW P, NEW n \in Nat, NEW m \in Nat, n = m + 1,
         F[m] \in SUBSET Departments,
         P[n] = Kids(live, up, P[m]) \ F[m], F[n] = F[m] \cup P[n],
         Found(live, up, S, F, P, m)
  PROVE  Found(live, up, S, F, P, n)
<1>1. F[0] \subseteq F[n]
  BY DEF Found
<1>2. Kids(live, up, S \cup F[n]) \subseteq F[n] \cup Kids(live, up, P[n])
  <2>1. Kids(live, up, S \cup F[n]) \subseteq
          Kids(live, up, S \cup F[m]) \cup Kids(live, up, P[n])
    BY DEF Kids
  <2>2. Kids(live, up, P[m]) \subseteq F[n]
    OBVIOUS
  <2> QED  BY <2>1, <2>2 DEF Found
<1>3. P[n] = {} \/ Cardinality(F[n]) >= n
  <2> SUFFICES ASSUME P[n] # {} PROVE Cardinality(F[n]) >= n
    OBVIOUS
  <2>1. PICK x : x \in P[n]
    OBVIOUS
  <2>2. x \in live /\ x \notin F[m] /\ P[m] # {}
    BY <2>1 DEF Kids
  <2>3. P[n] \subseteq Departments
    BY DEF Kids
  <2>4. IsFiniteSet(F[m]) /\ IsFiniteSet(F[n]) /\ IsFiniteSet(F[m] \cup {x})
    BY <2>1, <2>3, DepartmentsAssumption, FS_Subset, FS_AddElement
  <2>5. Cardinality(F[m] \cup {x}) = Cardinality(F[m]) + 1
    BY <2>2, <2>4, FS_AddElement
  <2>6. Cardinality(F[m] \cup {x}) <= Cardinality(F[n])
    BY <2>1, <2>4, FS_Subset
  <2>7. /\ Cardinality(F[m]) \in Nat /\ Cardinality(F[n]) \in Nat
        /\ Cardinality(F[m]) >= m
    BY <2>2, <2>4, FS_CardinalityType DEF Found
  <2> HIDE DEF Found
  <2> QED  BY <2>5, <2>6, <2>7
<1>4. ASSUME NEW B \in SUBSET Departments, F[0] \subseteq B, Kids(live, up, S \cup B) \subseteq B
      PROVE  F[n] \subseteq B /\ P[n] \subseteq S \cup B
  <2>1. F[m] \subseteq B /\ P[m] \subseteq S \cup B
    BY <1>4 DEF Found
  <2>2. Kids(live, up, P[m]) \subseteq Kids(live, up, S \cup B)
    BY <2>1 DEF Kids
  <2> QED  BY <1>4, <2>1, <2>2
<1> QED  BY <1>1, <1>2, <1>3, <1>4 DEF Found

\* all is the least set that holds A, the children of S and theirs.
Reaches(live, up, A, S, all) ==
  /\ A \subseteq all
  /\ Kids(live, up, S \cup all) \subseteq all
  /\ \A B \in SUBSET Departments :
       A \subseteq B /\ Kids(live, up, S \cup B) \subseteq B => all \subseteq B

\* As many rounds as there are departments find the least set that holds what the search
\* counts as found at the start, the children of S and theirs.
LEMMA SearchEnds ==
  ASSUME NEW live \in SUBSET Departments, NEW up, NEW S \in SUBSET Departments,
         NEW F, NEW P, Search(live, up, F, P), F[0] \subseteq S, P[0] = S
  PROVE  Reaches(live, up, F[0], S, F[Cardinality(Departments)])
<1> DEFINE N == Cardinality(Departments)
           bad == {n \in 0..N : ~ Found(live, up, S, F, P, n)}
<1>1. N \in Nat
  BY DepartmentsAssumption, FS_CardinalityType
<1>2. Found(live, up, S, F, P, 0)
  <2>1. Cardinality(F[0]) \in Nat
    BY <1>1, DepartmentsAssumption, FS_Subset, FS_CardinalityType DEF Search
  <2>2. Kids(live, up, S \cup F[0]) \subseteq Kids(live, up, P[0])
    BY DEF Kids
  <2>3. Cardinality(F[0]) >= 0
    BY <2>1
  <2> QED  BY <2>2, <2>3 DEF Found
<1>3. bad = {}
  <2> SUFFICES ASSUME bad # {} PROVE FALSE
    OBVIOUS
  <2>1. PICK n \in bad : \A m \in bad : n <= m
    <3>1. bad \in SUBSET Nat
      BY <1>1
    <3> HIDE DEF bad
    <3> QED  BY <3>1, LeastNumber
  <2>2. n \in 0..N /\ n # 0
    BY <1>2, <2>1
  <2>3. n - 1 \in 0..N /\ n - 1 \in Nat /\ n \in Nat /\ n = (n - 1) + 1 /\ ~ (n <= n - 1)
    BY <1>1, <2>2
  <2>4. n - 1 \notin bad
    <3> HIDE DEF bad
    <3> QED  BY <2>1, <2>3
  <2>5. Found(live, up, S, F, P, n - 1)
    BY <2>3, <2>4
  <2>6. Found(live, up, S, F, P, n)
    <3> HIDE DEF bad
    <3> QED  BY <2>2, <2>3, <2>5, SearchStep DEF Search
  <2> QED  BY <2>1, <2>6
<1>4. N \in 0..N /\ Found(live, up, S, F, P, N)
  BY <1>1, <1>3
<1>5. Kids(live, up, S \cup F[N]) \subseteq F[N]
  <2>1. CASE P[N] = {}
    BY <1>4, <2>1 DEF Found, Kids
  <2>2. CASE Cardinality(F[N]) >= N
    <3>1. F[N] \in SUBSET Departments /\ Cardinality(F[N]) \in Nat
      BY <1>4, DepartmentsAssumption, FS_Subset, FS_CardinalityType DEF Search
    <3>2. Cardinality(F[N]) <= N /\ (Cardinality(F[N]) = N => F[N] = Departments)
      BY <3>1, DepartmentsAssumption, FS_Subset
    <3>3. F[N] = Departments
      BY <1>1, <2>2, <3>1, <3>2
    <3> QED  BY <3>3 DEF Kids
  <2> QED  BY <1>4, <2>1, <2>2 DEF Found
<1> QED  BY <1>4, <1>5 DEF Found, Reaches

\* The rounds of collect_descendant_ids (department_service.py).
LEMMA CollectRounds ==
  ASSUME Live \in SUBSET Departments, NEW d \in Departments
  PROVE  \E F, P :
           /\ Search(Live, parent, F, P) /\ F[0] = {} /\ P[0] = {d}
           /\ CollectDescendantIds(d) = F[Cardinality(Departments)]
<1> DEFINE N == Cardinality(Departments)
           T == [found : SUBSET Departments, pending : SUBSET Departments]
           Fresh(t) == Children(t.pending) \ t.found
           After(t) == [found |-> t.found \cup Fresh(t), pending |-> Fresh(t)]
           G == [t \in T |-> After(t)]
           a == [found |-> {}, pending |-> {d}]
           Levels(f) ==
             f = [n \in 0..N |->
                    IF n = 0 THEN a
                    ELSE LET new == Children(f[n - 1].pending) \ f[n - 1].found
                         IN [found |-> f[n - 1].found \cup new, pending |-> new]]
           level == CHOOSE f : Levels(f)
<1>1. N \in Nat
  BY DepartmentsAssumption, FS_CardinalityType
<1>2. a \in T /\ \A t \in T : After(t) \in T
  BY DEF Children
<1>3. G \in [T -> T] /\ \A t \in T : G[t] = After(t)
  <2> HIDE DEF T, After
  <2> QED  BY <1>2
<1>4. \E f : Levels(f)
  <2>1. PICK f \in [0..N -> T] : Rounds(f, N, G, a)
    <3> HIDE DEF G, a, N, T
    <3> QED  BY <1>1, <1>2, <1>3, RoundsExist
  <2>2. ASSUME NEW n \in 0..N, n # 0 PROVE G[f[n - 1]] = After(f[n - 1])
    <3>1. n - 1 \in 0..N
      BY <1>1, <2>2
    <3>2. f[n - 1] \in T
      <4> HIDE DEF T
      <4> QED  BY <2>1, <3>1
    <3> HIDE DEF T, After, G
    <3> QED  BY <1>3, <3>2
  <2>3. Levels(f)
    <3> HIDE DEF G, T, N, a
    <3> QED  BY <2>1, <2>2 DEF Rounds
  <2> QED  BY <2>3
<1>5. Levels(level)
  <2> HIDE DEF Levels
  <2> QED  BY <1>4
<1>6. CollectDescendantIds(d) = level[N].found
  BY DEF CollectDescendantIds
<1> HIDE DEF level
<1> DEFINE F == [n \in 0..N |-> level[n].found]
           P == [n \in 0..N |-> level[n].pending]
<1>7. level[0] = a /\ F[0] = {} /\ P[0] = {d}
  BY <1>1, <1>5
<1>8. ASSUME NEW n \in 0..N, n # 0
      PROVE  /\ n - 1 \in 0..N
             /\ P[n] = Kids(Live, parent, P[n - 1]) \ F[n - 1]
             /\ F[n] = F[n - 1] \cup P[n]
  <2>1. n - 1 \in 0..N
    BY <1>1, <1>8
  <2>2. level[n] = After(level[n - 1])
    <3> HIDE DEF a, N
    <3> QED  BY <1>5, <1>8
  <2> QED  BY <2>1, <2>2, ChildrenAreKids
<1>9. \A n \in 0..N : F[n] \in SUBSET Departments
  <2> DEFINE bad == {n \in 0..N : ~ (F[n] \in SUBSET Departments)}
  <2> SUFFICES ASSUME bad # {} PROVE FALSE
    OBVIOUS
  <2>1. PICK n \in bad : \A m \in bad : n <= m
    <3>1. bad \in SUBSET Nat
      BY <1>1
    <3> HIDE DEF bad
    <3> QED  BY <3>1, LeastNumber
  <2> HIDE DEF F, P
  <2>2. n \in 0..N /\ n # 0
    BY <1>7, <2>1
  <2>3. n - 1 \in 0..N /\ ~ (n <= n - 1)
    BY <1>1, <2>2
  <2>4. F[n - 1] \in SUBSET Departments
    <3>1. n - 1 \notin bad
      <4> HIDE DEF bad
      <4> QED  BY <2>1, <2>3
    <3> QED  BY <2>3, <3>1
  <2>5. F[n] \in SUBSET Departments
    BY <1>8, <2>2, <2>4 DEF Kids
  <2> QED  BY <2>1, <2>5
<1>10. CollectDescendantIds(d) = F[N] /\ N \in 0..N
  BY <1>1, <1>6
<1> HIDE DEF F, P
<1> QED  BY <1>7, <1>8, <1>9, <1>10 DEF Search

\* collect_descendant_ids finds what is below the department and nothing else.
LEMMA CollectsDescendants ==
  ASSUME Live \in SUBSET Departments, NEW d \in Departments
  PROVE  CollectDescendantIds(d) = Descendants(d)
<1> DEFINE B == Below(Live, parent, d)
           all == CollectDescendantIds(d)
<1>1. PICK F, P :
        /\ Search(Live, parent, F, P) /\ F[0] = {} /\ P[0] = {d}
        /\ all = F[Cardinality(Departments)]
  BY CollectRounds
<1>2. /\ Kids(Live, parent, {d} \cup all) \subseteq all
      /\ \A X \in SUBSET Departments : Kids(Live, parent, {d} \cup X) \subseteq X => all \subseteq X
      /\ all \in SUBSET Departments
  <2>1. Reaches(Live, parent, F[0], {d}, all)
    BY <1>1, SearchEnds
  <2>2. all \in SUBSET Departments
    BY <1>1, DepartmentsAssumption, FS_CardinalityType DEF Search
  <2> HIDE DEF all
  <2> QED  BY <1>1, <2>1, <2>2 DEF Reaches
<1>3. /\ Kids(Live, parent, B \cup {d}) \subseteq B /\ B \in SUBSET Departments
      /\ Kids(Live, parent, all \cup {d}) \subseteq all => B \subseteq all
  BY <1>2, BelowLeast
<1>4. {d} \cup B = B \cup {d} /\ {d} \cup all = all \cup {d}
  OBVIOUS
<1> HIDE DEF B, all
<1>5. all = B
  BY <1>2, <1>3, <1>4
<1> QED  BY <1>5, DescendantsAreBelow DEF B, all

\* The rounds of the search of data_scope.py, which count where they start as found.
LEMMA ScopeRounds ==
  ASSUME Live \in SUBSET Departments, NEW ids \in SUBSET Departments
  PROVE  \E F, P :
           /\ Search(Live, parent, F, P) /\ F[0] = ids /\ P[0] = ids
           /\ DescendantDepartmentIds(ids) = F[Cardinality(Departments)]
<1> DEFINE N == Cardinality(Departments)
           T == [scoped : SUBSET Departments, pending : SUBSET Departments]
           Fresh(t) == Children(t.pending) \ t.scoped
           After(t) == [scoped |-> t.scoped \cup Fresh(t), pending |-> Fresh(t)]
           G == [t \in T |-> After(t)]
           a == [scoped |-> ids, pending |-> ids]
           Levels(f) ==
             f = [n \in 0..N |->
                    IF n = 0 THEN a
                    ELSE LET new == Children(f[n - 1].pending) \ f[n - 1].scoped
                         IN [scoped |-> f[n - 1].scoped \cup new, pending |-> new]]
           level == CHOOSE f : Levels(f)
<1>1. N \in Nat
  BY DepartmentsAssumption, FS_CardinalityType
<1>2. a \in T /\ \A t \in T : After(t) \in T
  BY DEF Children
<1>3. G \in [T -> T] /\ \A t \in T : G[t] = After(t)
  <2> HIDE DEF T, After
  <2> QED  BY <1>2
<1>4. \E f : Levels(f)
  <2>1. PICK f \in [0..N -> T] : Rounds(f, N, G, a)
    <3> HIDE DEF G, a, N, T
    <3> QED  BY <1>1, <1>2, <1>3, RoundsExist
  <2>2. ASSUME NEW n \in 0..N, n # 0 PROVE G[f[n - 1]] = After(f[n - 1])
    <3>1. n - 1 \in 0..N
      BY <1>1, <2>2
    <3>2. f[n - 1] \in T
      <4> HIDE DEF T
      <4> QED  BY <2>1, <3>1
    <3> HIDE DEF T, After, G
    <3> QED  BY <1>3, <3>2
  <2>3. Levels(f)
    <3> HIDE DEF G, T, N, a
    <3> QED  BY <2>1, <2>2 DEF Rounds
  <2> QED  BY <2>3
<1>5. Levels(level)
  <2> HIDE DEF Levels
  <2> QED  BY <1>4
<1>6. DescendantDepartmentIds(ids) = level[N].scoped
  BY DEF DescendantDepartmentIds
<1> HIDE DEF level
<1> DEFINE F == [n \in 0..N |-> level[n].scoped]
           P == [n \in 0..N |-> level[n].pending]
<1>7. level[0] = a /\ F[0] = ids /\ P[0] = ids
  BY <1>1, <1>5
<1>8. ASSUME NEW n \in 0..N, n # 0
      PROVE  /\ n - 1 \in 0..N
             /\ P[n] = Kids(Live, parent, P[n - 1]) \ F[n - 1]
             /\ F[n] = F[n - 1] \cup P[n]
  <2>1. n - 1 \in 0..N
    BY <1>1, <1>8
  <2>2. level[n] = After(level[n - 1])
    <3> HIDE DEF a, N
    <3> QED  BY <1>5, <1>8
  <2> QED  BY <2>1, <2>2, ChildrenAreKids
<1>9. \A n \in 0..N : F[n] \in SUBSET Departments
  <2> DEFINE bad == {n \in 0..N : ~ (F[n] \in SUBSET Departments)}
  <2> SUFFICES ASSUME bad # {} PROVE FALSE
    OBVIOUS
  <2>1. PICK n \in bad : \A m \in bad : n <= m
    <3>1. bad \in SUBSET Nat
      BY <1>1
    <3> HIDE DEF bad
    <3> QED  BY <3>1, LeastNumber
  <2> HIDE DEF F, P
  <2>2. n \in 0..N /\ n # 0
    BY <1>7, <2>1
  <2>3. n - 1 \in 0..N /\ ~ (n <= n - 1)
    BY <1>1, <2>2
  <2>4. F[n - 1] \in SUBSET Departments
    <3>1. n - 1 \notin bad
      <4> HIDE DEF bad
      <4> QED  BY <2>1, <2>3
    <3> QED  BY <2>3, <3>1
  <2>5. F[n] \in SUBSET Departments
    BY <1>8, <2>2, <2>4 DEF Kids
  <2> QED  BY <2>1, <2>5
<1>10. DescendantDepartmentIds(ids) = F[N] /\ N \in 0..N
  BY <1>1, <1>6
<1> HIDE DEF F, P
<1> QED  BY <1>7, <1>8, <1>9, <1>10 DEF Search

\* The search of data_scope.py finds the departments it starts from and what is below them.
LEMMA ScopesDescendants ==
  ASSUME Live \in SUBSET Departments, NEW ids \in SUBSET Departments
  PROVE  DescendantDepartmentIds(ids) = ids \cup UNION {Descendants(d) : d \in ids}
<1> DEFINE B == ids \cup UNION {Below(Live, parent, d) : d \in ids}
           all == DescendantDepartmentIds(ids)
<1>1. PICK F, P :
        /\ Search(Live, parent, F, P) /\ F[0] = ids /\ P[0] = ids
        /\ all = F[Cardinality(Departments)]
  BY ScopeRounds
<1>2. /\ ids \subseteq all /\ Kids(Live, parent, ids \cup all) \subseteq all
      /\ \A X \in SUBSET Departments :
           ids \subseteq X /\ Kids(Live, parent, ids \cup X) \subseteq X => all \subseteq X
      /\ all \in SUBSET Departments
  <2>1. Reaches(Live, parent, F[0], ids, all)
    BY <1>1, SearchEnds
  <2>2. all \in SUBSET Departments
    BY <1>1, DepartmentsAssumption, FS_CardinalityType DEF Search
  <2> HIDE DEF all
  <2> QED  BY <1>1, <2>1, <2>2 DEF Reaches
<1>3. \A d \in ids :
        LET under == Below(Live, parent, d) IN
        Kids(Live, parent, under \cup {d}) \subseteq under /\ under \subseteq Departments
  BY BelowLeast
<1>4. B \in SUBSET Departments /\ ids \subseteq B
  BY <1>3
<1>5. Kids(Live, parent, ids \cup B) \subseteq B
  <2> SUFFICES ASSUME NEW x \in Kids(Live, parent, ids \cup B) PROVE x \in B
    OBVIOUS
  <2>1. PICK d \in ids : parent[x] \in Below(Live, parent, d) \cup {d}
    BY DEF Kids
  <2>2. x \in Kids(Live, parent, Below(Live, parent, d) \cup {d})
    BY <2>1 DEF Kids
  <2> QED  BY <1>3, <2>2
<1>6. ASSUME NEW d \in ids PROVE Below(Live, parent, d) \subseteq all
  <2>1. all \cup {d} \subseteq ids \cup all
    OBVIOUS
  <2>2. Kids(Live, parent, all \cup {d}) \subseteq all
    <3> HIDE DEF all
    <3> QED  BY <1>2, <2>1 DEF Kids
  <2> HIDE DEF all
  <2> QED  BY <1>2, <2>2, BelowLeast
<1>7. B \subseteq all
  <2> HIDE DEF all
  <2> QED  BY <1>2, <1>6
<1>8. all \subseteq B
  <2> HIDE DEF all, B
  <2> QED  BY <1>2, <1>4, <1>5
<1>9. {Below(Live, parent, d) : d \in ids} = {Descendants(d) : d \in ids}
  BY DescendantsAreBelow
<1> QED  BY <1>7, <1>8, <1>9

-----------------------------------------------------------------------------
(* The invariant *)

\* Nothing the searches say changes while the tables stay as they are.
LEMMA SameTables ==
  ASSUME UNCHANGED <<created, deleted, parent>>
  PROVE  /\ Live' = Live
         /\ \A d \in Departments :
              /\ CollectDescendantIds(d)' = CollectDescendantIds(d)
              /\ Descendants(d)' = Descendants(d)
<1>1. Live' = Live
  BY DEF Live
<1>2. ASSUME NEW d \in Departments
      PROVE  /\ CollectDescendantIds(d)' = CollectDescendantIds(d)
             /\ Descendants(d)' = Descendants(d)
  BY <1>1 DEF CollectDescendantIds, Descendants, Children
<1> QED  BY <1>1, <1>2

LEMMA InitiallyInv == Init => Inv
<1> SUFFICES ASSUME Init PROVE Inv
  OBVIOUS
<1>1. Idle \in Transaction /\ HasRows(Idle)
  BY DEF Idle, Transaction, HasRows
<1> HIDE DEF Idle
<1>2. TypeOK /\ Rows /\ UpToDate
  BY <1>1 DEF Init, TypeOK, Rows, UpToDate
<1> QED  BY <1>2 DEF Inv

\* What a request validated on its snapshot, in the form its row in txn has.
Fits(t) == t = Idle \/ Creates(t) \/ Updates(t) \/ Deletes(t) \/ Assigns(t) \/ Dismisses(t)

\* A request that begins, commits nothing or gives up leaves what others validated true.
LEMMA FitsUntouched ==
  ASSUME TypeOK, UNCHANGED <<created, deleted, parent, member, gone>>,
         NEW t, Fits(t), NEW w \in Admins, txn'[w] = t
  PROVE  Fits(txn[w])'
<1>1. /\ Live' = Live
      /\ \A d \in Departments : CollectDescendantIds(d)' = CollectDescendantIds(d)
  BY SameTables
<1>2. \A d \in Departments : DepartmentTreeIds(d)' = DepartmentTreeIds(d)
  BY <1>1 DEF DepartmentTreeIds
<1>3. \A d \in Departments : TreeHasNoUsers(d)' = TreeHasNoUsers(d)
  BY <1>2 DEF TreeHasNoUsers
<1>4. CASE t = Idle
  BY <1>4 DEF Fits, Idle
<1>5. CASE Creates(t)
  <2>1. Creates(txn[w])'
    BY <1>1, <1>5 DEF Creates, CreateWrites, Idle
  <2> QED  BY <2>1 DEF Fits
<1>6. CASE Updates(t)
  <2>1. PICK d \in created, moves \in {{}} \cup {{p} : p \in Departments \cup {None}},
             marks \in {{}} \cup {{m} : m \in BOOLEAN} :
          /\ \A p \in moves : ValidParent(p, d)
          /\ TRUE \in marks /\ d \notin deleted => TreeHasNoUsers(d)
          /\ t = UpdateWrites(d, moves, marks)
    BY <1>6 DEF Updates
  <2>2. d \in created' /\ d \in Departments
    BY DEF TypeOK
  <2>3. UpdateWrites(d, moves, marks)' = UpdateWrites(d, moves, marks)
    BY <1>2, <2>2 DEF UpdateWrites, Idle
  <2>4. \A p \in moves : ValidParent(p, d)' = ValidParent(p, d)
    BY <1>1, <2>2 DEF ValidParent
  <2>5. /\ \A p \in moves : ValidParent(p, d)'
        /\ TRUE \in marks /\ d \notin deleted' => TreeHasNoUsers(d)'
        /\ txn'[w] = UpdateWrites(d, moves, marks)'
    BY <1>3, <2>1, <2>2, <2>3, <2>4
  <2>6. Updates(txn[w])'
    BY <2>2, <2>5 DEF Updates
  <2> QED  BY <2>6 DEF Fits
<1>7. CASE Deletes(t)
  <2>1. Deletes(txn[w])'
    BY <1>1, <1>2, <1>3, <1>7 DEF Deletes, DeleteWrites, Idle, Live, TypeOK
  <2> QED  BY <2>1 DEF Fits
<1>8. CASE Assigns(t) \/ Dismisses(t)
  <2>1. (Assigns(txn[w]) \/ Dismisses(txn[w]))'
    BY <1>1, <1>8 DEF Assigns, Dismisses, Idle
  <2> QED  BY <2>1 DEF Fits
<1> QED  BY <1>4, <1>5, <1>6, <1>7, <1>8 DEF Fits

\* A request that begins has read the tables as they are.
LEMMA BeginKeepsInv ==
  ASSUME Inv, NEW w \in Admins, NEW t \in Transaction, HasRows(t), Fits(t), Begin(w, t)
  PROVE  Inv'
<1>1. TypeOK'
  BY DEF Inv, TypeOK, Begin
<1>2. Rows'
  BY DEF Inv, Rows, HasRows, TypeOK, Begin
<1>3. ASSUME NEW v \in Admins \ overtaken' PROVE Fits(txn[v])'
  <2>1. CASE v = w
    <3>1. txn'[v] = t
      BY <2>1 DEF Begin, Inv, TypeOK
    <3> QED  BY <3>1, FitsUntouched DEF Begin, Inv
  <2>2. CASE v # w
    <3>1. v \notin overtaken /\ txn'[v] = txn[v]
      BY <1>3, <2>2 DEF Begin, Inv, TypeOK
    <3>2. Fits(txn[v])
      BY <3>1 DEF Inv, UpToDate, Fits
    <3> QED  BY <3>1, <3>2, FitsUntouched DEF Begin, Inv
  <2> QED  BY <2>1, <2>2
<1>4. UpToDate'
  BY <1>3 DEF UpToDate, Fits
<1> QED  BY <1>1, <1>2, <1>4 DEF Inv

LEMMA CreateItemKeepsInv ==
  ASSUME Inv, NEW w \in Admins, CreateItem(w)
  PROVE  Inv'
<1>1. PICK d \in Departments \ Taken, p \in Departments \cup {None} :
        /\ p = None \/ p \in Live
        /\ Begin(w, CreateWrites(d, p))
  BY DEF CreateItem
<1>2. d \notin created /\ p \in Live \cup {None} /\ p \in created \cup {None}
  BY <1>1 DEF Taken, Live
<1>3. CreateWrites(d, p) \in Transaction /\ HasRows(CreateWrites(d, p))
  <2>1. {<<d, p>>} \in SUBSET (Departments \X (Departments \cup {None}))
    OBVIOUS
  <2> DEFINE t == CreateWrites(d, p)
  <2>2. /\ t = [Idle EXCEPT !.kind = "create", !.create = {d}, !.parents = {<<d, p>>}]
        /\ DOMAIN Idle = {"kind", "create", "parents", "delete", "restore", "members", "gone"}
    BY DEF CreateWrites, Idle
  <2>3. /\ t.kind = "create" /\ t.create = {d} /\ t.parents = {<<d, p>>}
        /\ t.delete = Idle.delete /\ t.restore = Idle.restore
        /\ t.members = Idle.members /\ t.gone = Idle.gone
    BY <2>2
  <2>4. Idle.delete = {} /\ Idle.restore = {} /\ Idle.members = {} /\ Idle.gone = {}
    BY DEF Idle
  <2>5. t = [kind |-> t.kind, create |-> t.create, parents |-> t.parents, delete |-> t.delete,
           restore |-> t.restore, members |-> t.members, gone |-> t.gone]
    BY <2>2
  <2> QED  BY <1>1, <1>2, <2>1, <2>3, <2>4, <2>5 DEF Transaction, HasRows
<1>4. Fits(CreateWrites(d, p))
  BY <1>1, <1>2 DEF Fits, Creates
<1> QED  BY <1>1, <1>3, <1>4, BeginKeepsInv

\* A department's tree is made of rows.
LEMMA TreeHasRows ==
  ASSUME TypeOK, NEW d \in created
  PROVE  /\ d \in Departments /\ Live \in SUBSET Departments
         /\ DepartmentTreeIds(d) = {d} \cup Descendants(d)
         /\ Descendants(d) = Below(Live, parent, d)
         /\ Descendants(d) \subseteq Live
         /\ DepartmentTreeIds(d) \subseteq created
<1>1. d \in Departments /\ Live \in SUBSET Departments /\ Live \subseteq created
  BY DEF TypeOK, Live
<1>2. Descendants(d) = Below(Live, parent, d) /\ Below(Live, parent, d) \subseteq Live
  BY <1>1, DescendantsAreBelow, BelowLeast
<1> QED  BY <1>1, <1>2, CollectsDescendants DEF DepartmentTreeIds

LEMMA UpdateItemKeepsInv ==
  ASSUME Inv, NEW w \in Admins, UpdateItem(w)
  PROVE  Inv'
<1>1. PICK d \in created, moves \in {{}} \cup {{p} : p \in Departments \cup {None}},
           marks \in {{}} \cup {{m} : m \in DeletedMarks} :
        /\ \A p \in moves : ValidParent(p, d)
        /\ TRUE \in marks /\ d \notin deleted => TreeHasNoUsers(d)
        /\ Begin(w, UpdateWrites(d, moves, marks))
  BY DEF UpdateItem
<1> DEFINE t == UpdateWrites(d, moves, marks)
<1>2. marks \in {{}} \cup {{m} : m \in BOOLEAN}
  BY MarksAssumption
<1>3. d \in Departments /\ DepartmentTreeIds(d) \subseteq created /\ created \subseteq Departments
  BY TreeHasRows DEF Inv, TypeOK
<1>4. moves \subseteq created \cup {None}
  BY <1>1 DEF ValidParent, Live
<1>5. t \in Transaction
  BY <1>3, <1>4 DEF UpdateWrites, Idle, Transaction
<1>6. HasRows(t)
  BY <1>3, <1>4 DEF UpdateWrites, Idle, HasRows
<1>7. Fits(t)
  BY <1>1, <1>2 DEF Fits, Updates
<1> QED  BY <1>1, <1>5, <1>6, <1>7, BeginKeepsInv

LEMMA DeleteItemKeepsInv ==
  ASSUME Inv, NEW w \in Admins, DeleteItem(w)
  PROVE  Inv'
<1>1. PICK d \in Live : TreeHasNoUsers(d) /\ Begin(w, DeleteWrites(d))
  BY DEF DeleteItem
<1>2. DepartmentTreeIds(d) \subseteq created /\ created \subseteq Departments
  BY TreeHasRows DEF Inv, TypeOK, Live
<1>3. DeleteWrites(d) \in Transaction /\ HasRows(DeleteWrites(d))
  BY <1>2 DEF DeleteWrites, Idle, Transaction, HasRows
<1>4. Fits(DeleteWrites(d))
  BY <1>1 DEF Fits, Deletes
<1> QED  BY <1>1, <1>3, <1>4, BeginKeepsInv

LEMMA UserRequestsKeepInv ==
  ASSUME Inv, NEW w \in Admins, ReplaceDepartments(w) \/ DeleteUsers(w)
  PROVE  Inv'
<1>1. CASE ReplaceDepartments(w)
  <2>1. PICK u \in Users \ gone, d \in Live \cup {None} :
          Begin(w, [Idle EXCEPT !.kind = "assign", !.members = {<<u, d>>}])
    BY <1>1 DEF ReplaceDepartments, ValidDepartments
  <2> DEFINE t == [Idle EXCEPT !.kind = "assign", !.members = {<<u, d>>}]
  <2>2. d \in Departments \cup {None}
    BY DEF Inv, TypeOK, Live
  <2>3. t \in Transaction /\ HasRows(t)
    <3>1. {<<u, d>>} \in SUBSET (Users \X (Departments \cup {None}))
      BY <2>2
    <3> QED  BY <3>1 DEF Idle, Transaction, HasRows
  <2>4. Fits(t)
    BY DEF Fits, Assigns
  <2> QED  BY <2>1, <2>3, <2>4, BeginKeepsInv
<1>2. CASE DeleteUsers(w)
  <2>1. PICK us \in SUBSET (Users \ gone) : Begin(w, [Idle EXCEPT !.kind = "user", !.gone = us])
    BY <1>2 DEF DeleteUsers
  <2> DEFINE t == [Idle EXCEPT !.kind = "user", !.gone = us]
  <2>2. t \in Transaction /\ HasRows(t)
    BY DEF Idle, Transaction, HasRows
  <2>3. Fits(t)
    BY DEF Fits, Dismisses
  <2> QED  BY <2>1, <2>2, <2>3, BeginKeepsInv
<1> QED  BY <1>1, <1>2

\* Written changes the column of the rows it is told to, to a value it is told.
LEMMA WrittenValues ==
  ASSUME NEW S, NEW T, NEW f \in [S -> T], NEW pairs
  PROVE  /\ pairs \subseteq S \X T => Written(f, pairs) \in [S -> T]
         /\ \A x \in S : (\A y \in pairs : y[1] # x) => Written(f, pairs)[x] = f[x]
         /\ \A x \in S : (\E y \in pairs : y[1] = x)
              => \E y \in pairs : y[1] = x /\ Written(f, pairs)[x] = y[2]
<1>1. ASSUME NEW x \in S PROVE
        /\ (\A y \in pairs : y[1] # x) => Written(f, pairs)[x] = f[x]
        /\ (\E y \in pairs : y[1] = x)
             => \E y \in pairs : y[1] = x /\ Written(f, pairs)[x] = y[2]
  BY DEF Written
<1>2. ASSUME pairs \subseteq S \X T PROVE Written(f, pairs) \in [S -> T]
  <2>1. \A x \in S : Written(f, pairs)[x] \in T
    BY <1>1, <1>2
  <2> QED  BY <2>1 DEF Written
<1> QED  BY <1>1, <1>2

\* What is written is written at once; of what others validated nothing is up to date now.
LEMMA CommitKeepsInv ==
  ASSUME Inv, NEW w \in Admins, Commit(w)
  PROVE  Inv'
<1> DEFINE t == txn[w]
<1>1. TypeOK /\ t \in Transaction /\ HasRows(t)
  BY DEF Inv, TypeOK, Rows
<1>2. /\ t.create \subseteq Departments
      /\ t.parents \subseteq Departments \X (Departments \cup {None})
      /\ t.delete \subseteq created /\ t.members \subseteq Users \X (Departments \cup {None})
      /\ t.gone \subseteq Users
  BY <1>1 DEF Transaction, HasRows
<1>3. Idle \in Transaction /\ HasRows(Idle)'
  BY DEF Idle, Transaction, HasRows
<1>4. /\ parent' \in [Departments -> Departments \cup {None}]
      /\ member' \in [Users -> Departments \cup {None}]
  BY <1>1, <1>2, WrittenValues DEF Commit, TypeOK
<1>5. TypeOK'
  <2> HIDE DEF Idle
  <2> QED  BY <1>1, <1>2, <1>3, <1>4 DEF TypeOK, Commit
<1>6. /\ parent' = Written(parent, t.parents)
      /\ parent \in [Departments -> Departments \cup {None}]
  BY <1>1 DEF Commit, TypeOK
<1>7. ASSUME NEW d \in created' PROVE parent'[d] \in created' \cup {None}
  <2>1. d \in Departments /\ created \subseteq created'
    BY <1>1, <1>2, <1>7 DEF Commit, TypeOK
  <2>2. CASE \E y \in t.parents : y[1] = d
    <3>1. \E y \in t.parents : y[1] = d /\ parent'[d] = y[2]
      BY <1>6, <2>1, <2>2 DEF Written
    <3> QED  BY <1>1, <2>1, <3>1 DEF HasRows
  <2>3. CASE \A y \in t.parents : y[1] # d
    <3>1. parent'[d] = parent[d]
      BY <1>6, <2>1, <2>3 DEF Written
    <3>2. d \in created
      BY <1>1, <1>7, <2>3 DEF Commit, HasRows
    <3> QED  BY <2>1, <3>1, <3>2 DEF Inv, Rows
  <2> QED  BY <2>2, <2>3
<1>8. ASSUME NEW v \in Admins PROVE HasRows(txn[v])'
  <2>1. CASE v = w
    <3>1. txn'[v] = Idle
      BY <1>1, <2>1 DEF Commit, TypeOK
    <3> QED  BY <1>3, <3>1 DEF HasRows
  <2>2. CASE v # w
    <3>1. txn'[v] = txn[v] /\ HasRows(txn[v]) /\ created \subseteq created'
      BY <1>1, <2>2 DEF Commit, TypeOK, Inv, Rows
    <3> QED  BY <3>1 DEF HasRows
  <2> QED  BY <2>1, <2>2
<1>9. ASSUME NEW v \in Admins \ overtaken' PROVE txn'[v] = Idle
  BY <1>1 DEF Commit, TypeOK
<1>10. UpToDate'
  BY <1>9 DEF UpToDate, Idle
<1> QED  BY <1>5, <1>7, <1>8, <1>10 DEF Inv, Rows

LEMMA RollbackKeepsInv ==
  ASSUME Inv, NEW w \in Admins, Rollback(w)
  PROVE  Inv'
<1>1. Idle \in Transaction /\ HasRows(Idle)'
  BY DEF Idle, Transaction, HasRows
<1>2. TypeOK'
  <2> HIDE DEF Idle
  <2> QED  BY <1>1 DEF Inv, TypeOK, Rollback
<1>3. ASSUME NEW v \in Admins
      PROVE  txn'[v] = Idle \/ (v # w /\ txn'[v] = txn[v])
  BY DEF Inv, TypeOK, Rollback
<1>4. Rows'
  <2>1. ASSUME NEW v \in Admins PROVE HasRows(txn[v])'
    <3> HIDE DEF Idle
    <3>1. CASE txn'[v] = Idle
      BY <1>1, <3>1 DEF HasRows
    <3>2. CASE txn'[v] = txn[v]
      BY <3>2 DEF HasRows, Inv, Rows, Rollback
    <3> QED  BY <1>3, <3>1, <3>2
  <2> QED  BY <2>1 DEF Inv, Rows, Rollback
<1>5. ASSUME NEW v \in Admins \ overtaken' PROVE Fits(txn[v])'
  <2>1. CASE txn'[v] = Idle
    BY <2>1 DEF Fits, Idle
  <2>2. CASE v # w /\ txn'[v] = txn[v]
    <3>1. Fits(txn[v])
      BY <1>5, <2>2 DEF Inv, UpToDate, Fits, Rollback
    <3> QED  BY <2>2, <3>1, FitsUntouched DEF Rollback, Inv
  <2> QED  BY <1>3, <2>1, <2>2
<1>6. UpToDate'
  BY <1>5 DEF UpToDate, Fits
<1> QED  BY <1>2, <1>4, <1>6 DEF Inv

LEMMA NextKeepsInv == Inv /\ [Next]_vars => Inv'
<1> SUFFICES ASSUME Inv, [Next]_vars PROVE Inv'
  OBVIOUS
<1>1. CASE UNCHANGED vars
  <2>1. ASSUME NEW v \in Admins \ overtaken' PROVE Fits(txn[v])'
    <3>1. Fits(txn[v]) /\ txn'[v] = txn[v]
      BY <1>1, <2>1 DEF Inv, UpToDate, Fits, vars
    <3> QED  BY <1>1, <3>1, FitsUntouched DEF vars, Inv
  <2>2. UpToDate'
    BY <2>1 DEF UpToDate, Fits
  <2> QED  BY <1>1, <2>2 DEF Inv, TypeOK, Rows, HasRows, vars
<1>2. ASSUME NEW w \in scope.admins,
             \/ CreateItem(w) \/ UpdateItem(w) \/ DeleteItem(w)
             \/ ReplaceDepartments(w) \/ DeleteUsers(w)
             \/ Commit(w) \/ Rollback(w)
      PROVE  Inv'
  <2>1. w \in Admins
    BY ScopesAssumption DEF Inv, TypeOK
  <2> QED  BY <1>2, <2>1, CreateItemKeepsInv, UpdateItemKeepsInv, DeleteItemKeepsInv,
           UserRequestsKeepInv, CommitKeepsInv, RollbackKeepsInv
<1> QED  BY <1>1, <1>2 DEF Next

\* The type invariant, that every parent is a row, and that what a request validated and no
\* other commit overtook is still so.
THEOREM RequestsHoldTheirSnapshot == Spec => []Inv
<1> QED  BY InitiallyInv, NextKeepsInv, PTL DEF Spec

-----------------------------------------------------------------------------
(* Searches *)

\* DescendantsCorrect, in every state of every run: both searches find the departments under
\* the ones they start from, all of them and nothing else, whatever the tree looks like, and
\* within as many rounds as there are departments.
THEOREM SearchesAreExact == Spec => []DescendantsCorrect
<1>1. ASSUME TypeOK PROVE DescendantsCorrect
  <2>1. Live \in SUBSET Departments /\ created \subseteq Departments
    BY <1>1 DEF TypeOK, Live
  <2>2. \A d \in created : CollectDescendantIds(d) = Descendants(d)
    BY <2>1, CollectsDescendants
  <2>3. \A ids \in SUBSET created :
          DescendantDepartmentIds(ids) = ids \cup UNION {Descendants(d) : d \in ids}
    BY <2>1, ScopesDescendants
  <2> QED  BY <2>2, <2>3 DEF DescendantsCorrect
<1> QED  BY <1>1, RequestsHoldTheirSnapshot, PTL DEF Inv

-----------------------------------------------------------------------------
(* Cycles *)

NoCycle(live, up) == \A x \in live : x \notin Below(live, up, x)

LEMMA AcyclicIsNoCycle == /\ Acyclic <=> NoCycle(Live, parent)
                          /\ Acyclic' <=> NoCycle(Live', parent')
  BY DescendantsAreBelow DEF Acyclic, NoCycle

\* Deleting departments closes no cycle.
LEMMA FewerKeepNoCycle ==
  ASSUME NEW live \in SUBSET Departments, NEW up, NEW less \in SUBSET live, NoCycle(live, up)
  PROVE  NoCycle(less, up)
<1> SUFFICES ASSUME NEW x \in less PROVE x \notin Below(less, up, x)
  BY DEF NoCycle
<1> DEFINE B == Below(live, up, x)
<1>1. Kids(live, up, B \cup {x}) \subseteq B /\ B \in SUBSET Departments /\ x \notin B
  BY BelowLeast DEF NoCycle
<1> HIDE DEF B
<1>2. Kids(less, up, B \cup {x}) \subseteq B
  BY <1>1 DEF Kids
<1>3. Below(less, up, x) \subseteq B
  BY <1>1, <1>2, BelowLeast
<1> QED  BY <1>1, <1>3

\* Moving a department to one that is not in its tree closes no cycle.
LEMMA MoveKeepsNoCycle ==
  ASSUME NEW live \in SUBSET Departments, NEW up \in [Departments -> Departments \cup {None}],
         NEW d \in Departments, NEW q, q # d, q \notin Below(live, up, d), NoCycle(live, up)
  PROVE  NoCycle(live, [up EXCEPT ![d] = q])
<1> DEFINE up2 == [up EXCEPT ![d] = q]
           B(x) == Below(live, up, x)
<1> SUFFICES ASSUME NEW x \in live PROVE x \notin Below(live, up2, x)
  BY DEF NoCycle
<1>1. ASSUME NEW y \in Departments
      PROVE  Kids(live, up, B(y) \cup {y}) \subseteq B(y) /\ B(y) \in SUBSET Departments
  BY BelowLeast
<1>2. x \notin B(x) /\ x \in Departments
  BY DEF NoCycle
<1>3. \A y \in live : y # d => up2[y] = up[y]
  OBVIOUS
<1>4. up2[d] = q
  OBVIOUS
<1>5. \A s \in SUBSET Departments :
        Kids(live, up2, s \cup {x}) \subseteq s => Below(live, up2, x) \subseteq s
  <2> HIDE DEF up2
  <2> QED  BY <1>2, BelowLeast
<1>6. x \in B(d) => B(x) \subseteq B(d)
  BY BelowTransitive
<1> HIDE DEF up2, B
<1>7. CASE x = d
  <2>1. Kids(live, up2, B(d) \cup {d}) \subseteq B(d)
    BY <1>1, <1>3, <1>4 DEF Kids, B
  <2> QED  BY <1>1, <1>2, <1>5, <1>7, <2>1
<1>8. CASE x \in B(d) /\ x # d
  <2>1. q \notin B(x) \cup {x}
    BY <1>6, <1>8 DEF B
  <2>2. Kids(live, up2, B(x) \cup {x}) \subseteq B(x)
    BY <1>1, <1>2, <1>3, <1>4, <2>1 DEF Kids
  <2> QED  BY <1>1, <1>2, <1>5, <2>2
<1>9. CASE x \notin B(d) /\ x # d
  <2> DEFINE s == B(x) \cup B(d) \cup {d}
  <2>1. s \in SUBSET Departments /\ x \notin s
    BY <1>1, <1>2, <1>9
  <2>2. Kids(live, up2, s \cup {x}) \subseteq s
    <3> SUFFICES ASSUME NEW y \in live, y # d, up[y] \in s \cup {x} PROVE y \in s
      BY <1>3 DEF Kids
    <3>1. CASE up[y] \in B(x) \cup {x}
      BY <1>1, <1>2, <3>1 DEF Kids
    <3>2. CASE up[y] \in B(d) \cup {d}
      BY <1>1, <3>2 DEF Kids
    <3> QED  BY <3>1, <3>2
  <2> HIDE DEF s
  <2> QED  BY <1>5, <2>1, <2>2
<1> QED  BY <1>7, <1>8, <1>9

\* A new department is under its parent and has nothing under it.
LEMMA CreateKeepsNoCycle ==
  ASSUME NEW live \in SUBSET Departments, NEW up \in [Departments -> Departments \cup {None}],
         NEW d \in Departments, NEW q, q # d, \A x \in live : x # d /\ up[x] # d,
         NoCycle(live, up)
  PROVE  NoCycle(live \cup {d}, [up EXCEPT ![d] = q])
<1> DEFINE up2 == [up EXCEPT ![d] = q]
           more == live \cup {d}
<1> SUFFICES ASSUME NEW x \in more PROVE x \notin Below(more, up2, x)
  BY DEF NoCycle
<1>1. \A y \in live : up2[y] = up[y]
  OBVIOUS
<1>2. up2[d] = q
  OBVIOUS
<1>3. \A s \in SUBSET Departments :
        Kids(more, up2, s \cup {x}) \subseteq s => Below(more, up2, x) \subseteq s
  <2>1. more \in SUBSET Departments
    OBVIOUS
  <2> HIDE DEF up2, more
  <2> QED  BY <2>1, BelowLeast
<1>4. CASE x = d
  <2> DEFINE s == {}
  <2>1. Kids(more, up2, s \cup {x}) \subseteq s
    <3> HIDE DEF up2
    <3> QED  BY <1>1, <1>2, <1>4 DEF Kids
  <2>2. s \in SUBSET Departments /\ x \notin s
    OBVIOUS
  <2> HIDE DEF s, up2, more
  <2> QED  BY <1>3, <2>1, <2>2
<1>5. CASE x # d
  <2> DEFINE B == Below(live, up, x)
             s == B \cup {d}
  <2>1. x \in live
    BY <1>5
  <2>2. Kids(live, up, B \cup {x}) \subseteq B /\ B \in SUBSET Departments /\ x \notin B
    BY <2>1, BelowLeast DEF NoCycle
  <2> HIDE DEF B, up2
  <2>3. Kids(more, up2, s \cup {x}) \subseteq s
    BY <1>1, <2>2 DEF Kids
  <2>4. s \in SUBSET Departments /\ x \notin s
    BY <1>5, <2>2
  <2> HIDE DEF s
  <2> QED  BY <1>3, <2>3, <2>4
<1> QED  BY <1>4, <1>5

-----------------------------------------------------------------------------
(* What a commit that no other overtook does *)

\* Who commits later than another is overtaken.
LEMMA CommitLate ==
  ASSUME Inv, NEW w \in Admins, Commit(w), ~ LateCommit
  PROVE  w \in Admins \ overtaken /\ Fits(txn[w])
<1>1. txn'[w] = Idle
  BY DEF Commit, Inv, TypeOK
<1>2. w \notin overtaken
  BY <1>1 DEF LateCommit
<1> QED  BY <1>2 DEF Inv, UpToDate, Fits

LEMMA WrittenParent ==
  ASSUME parent \in [Departments -> Departments \cup {None}],
         NEW d \in Departments, NEW q, NEW pairs, pairs = {<<d, q>>}
  PROVE  Written(parent, pairs) = [parent EXCEPT ![d] = q]
<1>1. (CHOOSE z \in pairs : z[1] = d)[2] = q
  <2>1. PICK z \in pairs : z[1] = d /\ (CHOOSE y \in pairs : y[1] = d) = z
    OBVIOUS
  <2> QED  BY <2>1
<1>2. \A x \in Departments : (\E y \in pairs : y[1] = x) <=> x = d
  OBVIOUS
<1> QED  BY <1>1, <1>2 DEF Written

\* A commit of a creation inserts a row under no parent or a live one.
LEMMA CommitOfCreation ==
  ASSUME Inv, NEW w \in Admins, Commit(w), Creates(txn[w])
  PROVE  /\ \E d \in Departments \ created, p \in Live \cup {None} :
              Live' = Live \cup {d} /\ parent' = [parent EXCEPT ![d] = p] /\ d # p
         /\ UNCHANGED <<deleted, member, gone>>
<1>1. PICK d \in Departments \ created, p \in Live \cup {None} : txn[w] = CreateWrites(d, p)
  BY DEF Creates
<1> DEFINE t == txn[w]
<1>2. /\ t.create = {d} /\ t.parents = {<<d, p>>} /\ t.delete = {} /\ t.restore = {}
      /\ t.members = {} /\ t.gone = {}
  BY <1>1 DEF CreateWrites, Idle
<1>3. deleted' = deleted /\ gone' = gone /\ created' = created \cup {d}
  BY <1>2 DEF Commit
<1>4. member' = member
  BY <1>2 DEF Commit, Written, Inv, TypeOK
<1>5. parent' = [parent EXCEPT ![d] = p]
  <2>1. parent \in [Departments -> Departments \cup {None}] /\ parent' = Written(parent, {<<d, p>>})
    BY <1>2 DEF Commit, Inv, TypeOK
  <2>2. Written(parent, t.parents) = [parent EXCEPT ![d] = p]
    <3>1. d \in Departments
      OBVIOUS
    <3> HIDE DEF t
    <3> QED  BY <1>2, <2>1, <3>1, WrittenParent
  <2> QED  BY <1>2, <2>1, <2>2
<1>6. Live' = Live \cup {d} /\ d # p
  BY <1>3, NoneAssumption DEF Live, Inv, TypeOK
<1> QED  BY <1>3, <1>4, <1>5, <1>6

\* What an update or a deletion of d may do to the tables: move d, restore it, or delete it
\* with all under it.
Changes(d) ==
  /\ UNCHANGED <<created, member, gone>>
  /\ \/ parent' = parent
     \/ \E q \in (Live \cup {None}) \ ({d} \cup Below(Live, parent, d)) :
          parent' = [parent EXCEPT ![d] = q]
  /\ \/ deleted' = deleted
     \/ d \in deleted /\ deleted' = deleted \ {d}
     \/ /\ deleted' = deleted \cup {d} \cup Below(Live, parent, d)
        /\ d \notin deleted =>
             \A u \in Users \ gone : member[u] \notin {d} \cup Below(Live, parent, d)

LEMMA CommitOfUpdate ==
  ASSUME Inv, NEW w \in Admins, Commit(w), Updates(txn[w])
  PROVE  \E d \in created : Changes(d)
<1>1. PICK d \in created, moves \in {{}} \cup {{p} : p \in Departments \cup {None}},
           marks \in {{}} \cup {{m} : m \in BOOLEAN} :
        /\ \A p \in moves : ValidParent(p, d)
        /\ TRUE \in marks /\ d \notin deleted => TreeHasNoUsers(d)
        /\ txn[w] = UpdateWrites(d, moves, marks)
  BY DEF Updates
<1> DEFINE t == txn[w]
           tree == {d} \cup Below(Live, parent, d)
<1>2. /\ t.create = {} /\ t.parents = ({d} \X moves) \ {<<d, parent[d]>>}
      /\ t.delete = IF TRUE \in marks THEN DepartmentTreeIds(d) \ deleted ELSE {}
      /\ t.restore = IF FALSE \in marks THEN {d} \cap deleted ELSE {}
      /\ t.members = {} /\ t.gone = {}
  BY <1>1 DEF UpdateWrites, Idle
<1>3. d \in Departments /\ DepartmentTreeIds(d) = tree /\ tree \subseteq Departments
  BY TreeHasRows DEF Inv
<1>4. /\ parent \in [Departments -> Departments \cup {None}]
      /\ member \in [Users -> Departments \cup {None}]
  BY DEF Inv, TypeOK
<1> HIDE DEF t, tree
<1>5. created' = created /\ gone' = gone /\ member' = member
  <2>1. /\ created' = created \cup t.create /\ gone' = gone \cup t.gone
        /\ member' = Written(member, t.members)
    BY DEF Commit, t
  <2> QED  BY <1>2, <1>4, <2>1 DEF Written
<1>6. \/ parent' = parent
      \/ \E q \in (Live \cup {None}) \ tree : parent' = [parent EXCEPT ![d] = q]
  <2>1. parent' = Written(parent, t.parents)
    BY DEF Commit, t
  <2>2. CASE t.parents = {}
    BY <1>4, <2>1, <2>2 DEF Written
  <2>3. CASE t.parents # {}
    <3>1. PICK q \in moves : t.parents = {<<d, q>>}
      BY <1>2, <2>3
    <3>2. q \in (Live \cup {None}) \ tree
      <4>1. CollectDescendantIds(d) = Below(Live, parent, d)
        BY CollectsDescendants, DescendantsAreBelow, <1>3, TreeHasRows DEF Inv
      <4> QED  BY <1>1, <1>3, <4>1, NoneAssumption DEF ValidParent, tree
    <3> QED  BY <1>3, <1>4, <2>1, <3>1, <3>2, WrittenParent
  <2> QED  BY <2>2, <2>3
<1>7. \/ deleted' = deleted
      \/ d \in deleted /\ deleted' = deleted \ {d}
      \/ /\ deleted' = deleted \cup tree
         /\ d \notin deleted => \A u \in Users \ gone : member[u] \notin tree
  <2>1. deleted' = (deleted \cup t.delete) \ t.restore
    BY DEF Commit, t
  <2>2. CASE TRUE \in marks
    <3>1. FALSE \notin marks
      <4>1. PICK m \in BOOLEAN : marks = {m}
        BY <2>2
      <4> QED  BY <2>2, <4>1
    <3>2. deleted' = deleted \cup tree
      BY <1>2, <1>3, <2>1, <2>2, <3>1
    <3> QED  BY <1>1, <1>3, <2>2, <3>2 DEF TreeHasNoUsers
  <2>3. CASE TRUE \notin marks
    BY <1>2, <2>1, <2>3
  <2> QED  BY <2>2, <2>3
<1> QED  BY <1>5, <1>6, <1>7 DEF Changes, tree

LEMMA CommitOfDeletion ==
  ASSUME Inv, NEW w \in Admins, Commit(w), Deletes(txn[w])
  PROVE  \E d \in created : Changes(d)
<1>1. PICK d \in Live : TreeHasNoUsers(d) /\ txn[w] = DeleteWrites(d)
  BY DEF Deletes
<1> DEFINE t == txn[w]
           tree == {d} \cup Below(Live, parent, d)
<1>2. /\ t.create = {} /\ t.parents = {} /\ t.delete = DepartmentTreeIds(d) /\ t.restore = {}
      /\ t.members = {} /\ t.gone = {}
  BY <1>1 DEF DeleteWrites, Idle
<1>3. d \in created /\ DepartmentTreeIds(d) = tree
  BY TreeHasRows DEF Inv, Live
<1> HIDE DEF t, tree
<1>4. /\ created' = created \cup t.create /\ gone' = gone \cup t.gone
      /\ member' = Written(member, t.members) /\ parent' = Written(parent, t.parents)
      /\ deleted' = (deleted \cup t.delete) \ t.restore
  BY DEF Commit, t
<1>5. UNCHANGED <<created, gone, member, parent>> /\ deleted' = deleted \cup tree
  BY <1>2, <1>3, <1>4 DEF Written, Inv, TypeOK
<1>6. \A u \in Users \ gone : member[u] \notin tree
  BY <1>1, <1>3 DEF TreeHasNoUsers
<1> QED  BY <1>3, <1>5, <1>6 DEF Changes, tree

\* Giving a user a live department, and deleting users, leave the tree alone.
LEMMA CommitOfUsers ==
  ASSUME Inv, NEW w \in Admins, Commit(w), Assigns(txn[w]) \/ Dismisses(txn[w])
  PROVE  /\ UNCHANGED <<created, deleted, parent>> /\ gone \subseteq gone'
         /\ \A u \in Users : member'[u] = member[u] \/ member'[u] \in Live \cup {None}
<1> DEFINE t == txn[w]
<1>1. /\ t.create = {} /\ t.parents = {} /\ t.delete = {} /\ t.restore = {}
      /\ \A y \in t.members : y[2] \in Live \cup {None}
  <2>1. CASE Assigns(t)
    <3>1. PICK u \in Users, d \in Live \cup {None} :
            t = [Idle EXCEPT !.kind = "assign", !.members = {<<u, d>>}]
      BY <2>1 DEF Assigns
    <3>2. /\ t.create = {} /\ t.parents = {} /\ t.delete = {} /\ t.restore = {}
          /\ t.members = {<<u, d>>}
      BY <3>1 DEF Idle
    <3> QED  BY <3>2
  <2>2. CASE Dismisses(t)
    <3>1. PICK us \in SUBSET Users : t = [Idle EXCEPT !.kind = "user", !.gone = us]
      BY <2>2 DEF Dismisses
    <3> QED  BY <3>1 DEF Idle
  <2> QED  BY <2>1, <2>2
<1> HIDE DEF t
<1>2. /\ created' = created \cup t.create /\ gone' = gone \cup t.gone
      /\ member' = Written(member, t.members) /\ parent' = Written(parent, t.parents)
      /\ deleted' = (deleted \cup t.delete) \ t.restore
  BY DEF Commit, t
<1>3. UNCHANGED <<created, deleted, parent>> /\ gone \subseteq gone'
  BY <1>1, <1>2 DEF Written, Inv, TypeOK
<1>4. ASSUME NEW u \in Users
      PROVE  member'[u] = member[u] \/ member'[u] \in Live \cup {None}
  BY <1>1, <1>2 DEF Written, Inv, TypeOK
<1> QED  BY <1>3, <1>4

\* Whoever has nothing to write does not commit.
LEMMA StepIsCommit ==
  ASSUME Inv, [Next]_vars
  PROVE  \/ UNCHANGED <<created, deleted, parent, member, gone>>
         \/ \E w \in Admins : Commit(w) /\ txn[w] # Idle
<1>1. CASE UNCHANGED vars
  BY <1>1 DEF vars
<1>2. ASSUME NEW w \in scope.admins,
             \/ CreateItem(w) \/ UpdateItem(w) \/ DeleteItem(w)
             \/ ReplaceDepartments(w) \/ DeleteUsers(w)
             \/ Commit(w) \/ Rollback(w)
      PROVE  \/ UNCHANGED <<created, deleted, parent, member, gone>>
             \/ Commit(w) /\ txn[w] # Idle /\ w \in Admins
  <2>1. w \in Admins
    BY ScopesAssumption DEF Inv, TypeOK
  <2>2. CASE CreateItem(w)
    BY <2>2 DEF CreateItem, Begin
  <2>3. CASE UpdateItem(w)
    BY <2>3 DEF UpdateItem, Begin
  <2>4. CASE DeleteItem(w)
    BY <2>4 DEF DeleteItem, Begin
  <2>5. CASE ReplaceDepartments(w)
    BY <2>5 DEF ReplaceDepartments, Begin
  <2>6. CASE DeleteUsers(w)
    BY <2>6 DEF DeleteUsers, Begin
  <2>7. CASE Commit(w)
    BY <2>1, <2>7 DEF Commit
  <2>8. CASE Rollback(w)
    BY <2>8 DEF Rollback
  <2> QED  BY <1>2, <2>2, <2>3, <2>4, <2>5, <2>6, <2>7, <2>8
<1> QED  BY <1>1, <1>2 DEF Next

\* A commit that is not late did one of three things.
LEMMA CommitDoes ==
  ASSUME Inv, [Next]_vars, ~ LateCommit
  PROVE  \/ UNCHANGED <<created, deleted, parent, member, gone>>
         \/ \E w \in Admins : Commit(w) /\ Creates(txn[w])
         \/ \E d \in created : Changes(d)
         \/ \E w \in Admins : Commit(w) /\ (Assigns(txn[w]) \/ Dismisses(txn[w]))
<1> SUFFICES ASSUME NEW w \in Admins, Commit(w), txn[w] # Idle
             PROVE  \/ Creates(txn[w]) \/ \E d \in created : Changes(d)
                    \/ Assigns(txn[w]) \/ Dismisses(txn[w])
  BY StepIsCommit
<1> QED  BY CommitLate, CommitOfUpdate, CommitOfDeletion DEF Fits

-----------------------------------------------------------------------------
(* What breaks the tree *)

LEMMA ChangesKeepAcyclic ==
  ASSUME Inv, NEW d \in created, Changes(d), Acyclic
  PROVE  Acyclic' \/ Restored # {}
<1>1. /\ Live \in SUBSET Departments /\ d \in Departments /\ NoCycle(Live, parent)
      /\ parent \in [Departments -> Departments \cup {None}]
  BY AcyclicIsNoCycle DEF Inv, TypeOK, Live
<1>2. NoCycle(Live, parent')
  <2>1. CASE parent' = parent
    BY <1>1, <2>1
  <2>2. CASE parent' # parent
    <3>1. PICK q \in (Live \cup {None}) \ ({d} \cup Below(Live, parent, d)) :
            parent' = [parent EXCEPT ![d] = q]
      BY <2>2 DEF Changes
    <3>2. q # d /\ q \notin Below(Live, parent, d)
      OBVIOUS
    <3> QED  BY <1>1, <3>1, <3>2, MoveKeepsNoCycle
  <2> QED  BY <2>1, <2>2
<1>3. CASE d \in deleted /\ deleted' = deleted \ {d}
  BY <1>3 DEF Restored
<1>4. CASE deleted \subseteq deleted'
  <2>1. Live' \in SUBSET Live
    BY <1>4 DEF Live, Changes
  <2>2. NoCycle(Live', parent')
    BY <1>1, <1>2, <2>1, FewerKeepNoCycle
  <2> QED  BY <2>2, AcyclicIsNoCycle
<1> QED  BY <1>3, <1>4 DEF Changes

LEMMA CreationKeepsAcyclic ==
  ASSUME Inv, NEW w \in Admins, Commit(w), Creates(txn[w]), Acyclic
  PROVE  Acyclic'
<1>1. PICK d \in Departments \ created, p \in Live \cup {None} :
        Live' = Live \cup {d} /\ parent' = [parent EXCEPT ![d] = p] /\ d # p
  BY CommitOfCreation
<1>2. /\ Live \in SUBSET Departments /\ NoCycle(Live, parent)
      /\ parent \in [Departments -> Departments \cup {None}]
  BY AcyclicIsNoCycle DEF Inv, TypeOK, Live
<1>3. d \in Departments /\ \A x \in Live : x # d /\ parent[x] # d
  BY NoneAssumption DEF Inv, Rows, Live
<1>4. NoCycle(Live', parent')
  BY <1>1, <1>2, <1>3, CreateKeepsNoCycle
<1> QED  BY <1>4, AcyclicIsNoCycle

\* A department whose parent is deleted goes with it, unless it was moved, to a live one.
LEMMA ChangesLeaveNoOrphan ==
  ASSUME Inv, NEW d \in created, Changes(d), NEW x \in Departments, Orphan(x)'
  PROVE  Orphan(x) \/ x \in Restored
<1> DEFINE tree == {d} \cup Below(Live, parent, d)
<1>1. x \in Live' /\ parent'[x] \in deleted' /\ x \in created
  BY DEF Orphan, Live, Changes
<1>2. SUFFICES ASSUME x \notin Restored PROVE Orphan(x)
  OBVIOUS
<1>3. x \in Live
  BY <1>1, <1>2 DEF Live, Restored
<1>4. Kids(Live, parent, tree) \subseteq tree
  <2>1. Live \in SUBSET Departments
    BY DEF Inv, TypeOK, Live
  <2>2. Kids(Live, parent, Below(Live, parent, d) \cup {d}) \subseteq Below(Live, parent, d)
    BY <2>1, BelowLeast
  <2> QED  BY <2>2 DEF Kids
<1>5. /\ deleted' = deleted \/ deleted' = deleted \ {d} \/ deleted' = deleted \cup tree
      /\ None \notin deleted' /\ Live \cap deleted = {}
  <2>1. deleted' \subseteq Departments
    <3>1. Below(Live, parent, d) \subseteq Departments
      BY DEF Below
    <3> QED  BY <3>1 DEF Changes, Inv, TypeOK
  <2> QED  BY <2>1, NoneAssumption DEF Changes, Live
<1>6. parent'[x] = parent[x] \/ parent'[x] \in (Live \cup {None}) \ tree
  BY DEF Changes, Inv, TypeOK
<1> HIDE DEF tree
<1>7. parent'[x] \in deleted
  <2>1. parent'[x] \in deleted \/ parent'[x] \in tree
    BY <1>1, <1>5
  <2>2. ASSUME parent'[x] \in tree, deleted' = deleted \cup tree PROVE FALSE
    <3>1. parent'[x] = parent[x]
      BY <1>6, <2>2
    <3>2. x \in tree
      BY <1>3, <1>4, <2>2, <3>1 DEF Kids
    <3> QED  BY <1>1, <2>2, <3>2 DEF Live
  <2> QED  BY <1>1, <1>5, <2>2
<1>8. parent'[x] = parent[x]
  BY <1>1, <1>5, <1>6, <1>7
<1> QED  BY <1>3, <1>7, <1>8 DEF Orphan

LEMMA CreationLeavesNoOrphan ==
  ASSUME Inv, NEW w \in Admins, Commit(w), Creates(txn[w]), NEW x \in Departments, Orphan(x)'
  PROVE  Orphan(x)
<1>1. PICK d \in Departments \ created, p \in Live \cup {None} :
        Live' = Live \cup {d} /\ parent' = [parent EXCEPT ![d] = p] /\ d # p
  BY CommitOfCreation
<1>2. deleted' = deleted /\ x \in Live \cup {d} /\ parent'[x] \in deleted
  BY <1>1, CommitOfCreation DEF Orphan
<1>3. p \notin deleted
  BY NoneAssumption DEF Inv, TypeOK, Live
<1>4. x # d /\ parent'[x] = parent[x]
  BY <1>1, <1>2, <1>3 DEF Inv, TypeOK
<1> QED  BY <1>2, <1>4 DEF Orphan

\* BrokenOnlyByRestore, for any departments and requests: a request that no other commit
\* overtook checks the parent against the tree as it is, so it closes no cycle, and deletes a
\* department with all that is under it, so it leaves no live one under it, unless it
\* restores a department.
THEOREM TreeBrokenOnlyByRestore == Spec => BrokenOnlyByRestore
<1>1. ASSUME Inv, [Next]_vars, ~ LateCommit
      PROVE  /\ Acyclic => Acyclic' \/ Restored # {}
             /\ \A d \in Departments : Orphan(d)' => Orphan(d) \/ d \in Restored
  <2>1. CASE UNCHANGED <<created, deleted, parent>>
    <3>1. Live' = Live /\ parent' = parent /\ deleted' = deleted
      BY <2>1, SameTables
    <3>2. Acyclic => Acyclic'
      BY <3>1, AcyclicIsNoCycle
    <3>3. \A d \in Departments : Orphan(d)' => Orphan(d)
      BY <3>1 DEF Orphan
    <3> QED  BY <3>2, <3>3
  <2>2. CASE \E w \in Admins : Commit(w) /\ Creates(txn[w])
    <3>1. \A d \in Departments : Orphan(d)' => Orphan(d)
      BY <1>1, <2>2, CreationLeavesNoOrphan
    <3> QED  BY <1>1, <2>2, <3>1, CreationKeepsAcyclic
  <2>3. CASE \E d \in created : Changes(d)
    <3>1. \A d \in Departments : Orphan(d)' => Orphan(d) \/ d \in Restored
      BY <1>1, <2>3, ChangesLeaveNoOrphan
    <3> QED  BY <1>1, <2>3, <3>1, ChangesKeepAcyclic
  <2> QED  BY <1>1, <2>1, <2>2, <2>3, CommitDoes, CommitOfUsers
<1>2. Inv /\ [Next]_vars =>
        [LateCommit \/
           /\ Acyclic => Acyclic' \/ Restored # {}
           /\ \A d \in Departments : Orphan(d)' => Orphan(d) \/ d \in Restored]_vars
  BY <1>1
<1> QED  BY <1>2, RequestsHoldTheirSnapshot, PTL DEF Spec, BrokenOnlyByRestore

\* StrayOnlyUnderDeleted, for any departments, users and requests: a deletion counts the users
\* of the whole tree as it is, and a user is given a live department.
THEOREM UsersStrayOnlyUnderDeleted == Spec => StrayOnlyUnderDeleted
<1>1. ASSUME Inv, [Next]_vars, ~ LateCommit, NEW u \in Users, Stray(u)'
      PROVE  Stray(u) \/ \E d \in deleted : member[u] \in Descendants(d)
  <2>1. u \notin gone' /\ member'[u] \in deleted'
    BY <1>1 DEF Stray
  <2>2. CASE UNCHANGED <<deleted, member, gone>>
    BY <2>1, <2>2 DEF Stray
  <2>3. ASSUME NEW d \in created, Changes(d)
        PROVE  Stray(u) \/ \E x \in deleted : member[u] \in Descendants(x)
    <3>1. u \notin gone /\ member[u] \in deleted'
      BY <2>1, <2>3 DEF Changes
    <3>2. CASE member[u] \in deleted
      BY <3>1, <3>2 DEF Stray
    <3>3. CASE member[u] \notin deleted
      <4>1. /\ member[u] \in {d} \cup Below(Live, parent, d)
            /\ d \notin deleted =>
                 \A v \in Users \ gone : member[v] \notin {d} \cup Below(Live, parent, d)
        BY <2>3, <3>1, <3>3 DEF Changes
      <4>2. d \in deleted /\ member[u] \in Below(Live, parent, d)
        BY <3>1, <3>3, <4>1
      <4>3. member[u] \in Descendants(d)
        BY <4>2, DescendantsAreBelow
      <4> QED  BY <4>2, <4>3
    <3> QED  BY <3>2, <3>3
  <2>4. ASSUME NEW w \in Admins, Commit(w), Assigns(txn[w]) \/ Dismisses(txn[w])
        PROVE  Stray(u)
    <3>1. /\ deleted' = deleted /\ u \notin gone
          /\ member'[u] = member[u] \/ member'[u] \in Live \cup {None}
      BY <1>1, <2>1, <2>4, CommitOfUsers
    <3>2. (Live \cup {None}) \cap deleted = {}
      BY <1>1, NoneAssumption DEF Inv, TypeOK, Live
    <3> QED  BY <2>1, <3>1, <3>2 DEF Stray
  <2> QED  BY <1>1, <2>2, <2>3, <2>4, CommitDoes, CommitOfCreation
<1>2. Inv /\ [Next]_vars =>
        [\A u \in Users :
           Stray(u)' => \/ Stray(u) \/ LateCommit
                        \/ \E d \in deleted : member[u] \in Descendants(d)]_vars
  BY <1>1
<1> QED  BY <1>2, RequestsHoldTheirSnapshot, PTL DEF Spec, StrayOnlyUnderDeleted

-----------------------------------------------------------------------------
(* Which server an account gets (VpnAssignment) *)

\* A rule is for a server there is, whatever happened to that server since.
StoredRule ==
  [exists : BOOLEAN, server : Servers, target : Targets, priority : Nat,
   fallback : BOOLEAN, active : BOOLEAN]
Sources == Targets \cup {"default", "manual"}

AssignmentTypeOK ==
  /\ assignmentScope \in AssignmentScopes
  /\ default \in Servers \cup {NoServer}
  /\ rules \in Seq(StoredRule)
  /\ account \in [status : {"none", "enabled", "disabled"}, server : Servers \cup {NoServer},
                  source : Sources, rule : DOMAIN rules \cup {NoRule}]

AssignmentInv == AssignmentTypeOK /\ SourceIsTrue

LEMMA StoredRules ==
  ASSUME AssignmentTypeOK
  PROVE  /\ DOMAIN rules \subseteq Nat /\ NoRule \notin DOMAIN rules
         /\ \A r \in DOMAIN rules :
              /\ rules[r] \in StoredRule
              /\ rules[r].server \in Servers /\ rules[r].priority \in Nat
<1>1. rules \in Seq(StoredRule)
  BY DEF AssignmentTypeOK
<1>2. \A r \in DOMAIN rules : r \in Nat /\ r # NoRule /\ rules[r] \in StoredRule
  BY <1>1 DEF NoRule
<1> QED  BY <1>2 DEF StoredRule

LEMMA UserTargetsAreTargets ==
  ASSUME AssignmentTypeOK
  PROVE  UserTargets \subseteq Targets
  BY AssignmentScopesAssumption DEF AssignmentTypeOK, UserTargets

\* The first of some rules: there is a least priority among them, and a first of that priority.
LEMMA FirstOfRules ==
  ASSUME AssignmentTypeOK, NEW R \in SUBSET DOMAIN rules, R # {}
  PROVE  First(R) \in R
<1> DEFINE priorities == {rules[r].priority : r \in R}
<1>1. \A r \in R : r \in Nat /\ rules[r].priority \in Nat
  BY StoredRules
<1>2. PICK p \in priorities : \A q \in priorities : p <= q
  <2>1. priorities \in SUBSET Nat /\ priorities # {}
    BY <1>1
  <2> HIDE DEF priorities
  <2> QED  BY <2>1, LeastNumber
<1> DEFINE least == {r \in R : rules[r].priority = p}
<1>3. PICK r \in least : \A q \in least : r <= q
  <2>1. least \in SUBSET Nat /\ least # {}
    BY <1>1, <1>2
  <2> HIDE DEF least
  <2> QED  BY <2>1, LeastNumber
<1>4. ASSUME NEW q \in R
      PROVE  \/ rules[r].priority < rules[q].priority
             \/ rules[r].priority = rules[q].priority /\ r <= q
  <2>1. rules[r].priority <= rules[q].priority
    BY <1>2, <1>3
  <2>2. rules[r].priority = rules[q].priority => r <= q
    BY <1>3
  <2>3. rules[r].priority \in Nat /\ rules[q].priority \in Nat
    BY <1>1, <1>3
  <2> QED  BY <2>1, <2>2, <2>3
<1>5. r \in R
  BY <1>3
<1> QED  BY <1>4, <1>5 DEF First

\* What decides for a target is the first of its candidates; a target with a candidate that
\* may be used decides.
LEMMA DecidingRule ==
  ASSUME AssignmentTypeOK, NEW target
  PROVE  /\ Candidates(target) \subseteq DOMAIN rules
         /\ \A r \in Deciding(target) :
              /\ r \in Candidates(target) /\ r = First(Candidates(target))
              /\ rules[r].server \in Servers
              /\ Available(rules[r].server) \/ rules[r].fallback
         /\ Candidates(target) # {} /\ Available(rules[First(Candidates(target))].server)
              => Deciding(target) # {}
<1> DEFINE R == Candidates(target)
<1>1. R \subseteq DOMAIN rules
  BY DEF Candidates
<1>2. \A r \in R : rules[r].server \in Servers
  BY <1>1, StoredRules
<1> HIDE DEF R
<1>3. \A r \in Deciding(target) :
        R # {} /\ r = First(R) /\ (Available(rules[r].server) \/ rules[r].fallback)
  BY DEF Deciding, R
<1>4. R # {} => First(R) \in R
  BY <1>1, FirstOfRules
<1>5. R # {} /\ Available(rules[First(R)].server) => Deciding(target) # {}
  BY DEF Deciding, R
<1> QED  BY <1>1, <1>2, <1>3, <1>4, <1>5 DEF R

Decides == {i \in DOMAIN TargetTypes : Deciding(TargetTypes[i]) # {}}

\* If a target decides, the first of them gives its rule and that rule's server; if none does,
\* the account has the default server or none, and no rule.
LEMMA ResolvedServer ==
  ASSUME AssignmentTypeOK
  PROVE  /\ Decides = {} => Resolved = ByDefault
         /\ Decides # {} =>
              \E i \in Decides : \E r \in Deciding(TargetTypes[i]) :
                Resolved = [server |-> rules[r].server, source |-> TargetTypes[i], rule |-> r]
<1>1. CASE Decides = {}
  BY <1>1 DEF Resolved, Decides
<1>2. CASE Decides # {}
  <2>1. Decides \in SUBSET Nat
    BY DEF Decides, TargetTypes
  <2>2. \E x \in Decides : \A y \in Decides : x <= y
    BY <1>2, <2>1, LeastNumber
  <2> DEFINE i == CHOOSE x \in Decides : \A y \in Decides : x <= y
             r == CHOOSE x \in Deciding(TargetTypes[i]) : TRUE
  <2>3. i \in Decides
    BY <2>2
  <2>4. r \in Deciding(TargetTypes[i])
    <3> HIDE DEF i
    <3> QED  BY <2>3 DEF Decides
  <2>5. Resolved = [server |-> rules[r].server, source |-> TargetTypes[i], rule |-> r]
    BY <1>2 DEF Resolved, Decides
  <2> HIDE DEF i, r
  <2> QED  BY <1>2, <2>3, <2>4, <2>5
<1> QED  BY <1>1, <1>2

\* A server and what it is put down to: a rule is there, for that server and that kind of
\* target; without one it is the operator's choice or the default server.
Explained(to) ==
  /\ to.server \in Servers \cup {NoServer} /\ to.source \in Sources
  /\ to.rule \in DOMAIN rules \cup {NoRule}
  /\ to.rule # NoRule => /\ rules[to.rule].exists
                         /\ rules[to.rule].server = to.server
                         /\ rules[to.rule].target = to.source
  /\ to.rule = NoRule => to.source \in {"manual", "default"}
  /\ to.source = "default" => to.server \in {default, NoServer}
  /\ to.server = NoServer => to.source = "default"

LEMMA ResolvedIsExplained ==
  ASSUME AssignmentTypeOK
  PROVE  Explained(Resolved)
<1>1. CASE Decides = {}
  <2>1. Resolved = ByDefault
    BY <1>1, ResolvedServer
  <2>2. default \in Servers \cup {NoServer}
    BY DEF AssignmentTypeOK
  <2> QED  BY <2>1, <2>2 DEF ByDefault, Sources, Explained
<1>2. CASE Decides # {}
  <2>1. PICK i \in Decides : \E r \in Deciding(TargetTypes[i]) :
                Resolved = [server |-> rules[r].server, source |-> TargetTypes[i], rule |-> r]
    BY <1>2, ResolvedServer
  <2>2. PICK r \in Deciding(TargetTypes[i]) :
                Resolved = [server |-> rules[r].server, source |-> TargetTypes[i], rule |-> r]
    BY <2>1
  <2>3. /\ rules[r].server \in Servers /\ r \in DOMAIN rules
        /\ rules[r].exists /\ rules[r].target = TargetTypes[i]
    BY DecidingRule DEF Candidates
  <2>4. r # NoRule
    BY <2>3, StoredRules
  <2>5. TargetTypes[i] \in Sources /\ TargetTypes[i] # "default"
    BY DEF Decides, Sources, Targets, TargetTypes
  <2>6. /\ Resolved.server = rules[r].server /\ Resolved.source = TargetTypes[i]
        /\ Resolved.rule = r
    BY <2>2
  <2> QED  BY <2>3, <2>4, <2>5, <2>6, ServersAssumption DEF Explained
<1> QED  BY <1>1, <1>2

\* The same of what an operator asked for.
LEMMA AskedIsExplained ==
  ASSUME AssignmentTypeOK, NEW preferred \in Preferable
  PROVE  Explained(Asked(preferred))
<1>1. CASE preferred = NoServer
  BY <1>1, ResolvedIsExplained DEF Asked
<1>2. CASE preferred # NoServer
  BY <1>2 DEF Asked, Manual, Preferable, Sources, Explained
<1> QED  BY <1>1, <1>2

-----------------------------------------------------------------------------
LEMMA EnableAccountTells ==
  ASSUME AssignmentInv, EnableAccount
  PROVE  AssignmentInv'
<1>1. PICK preferred \in Preferable :
        LET to == Asked(preferred)
            s == IF to.server # NoServer THEN to.server ELSE account.server
        IN /\ account' = [status |-> "enabled", server |-> s,
                          source |-> to.source, rule |-> to.rule]
           /\ since' = IF to.server = NoServer THEN since \cup {"kept"} ELSE {}
           /\ UNCHANGED <<assignmentScope, server, default, rules>>
  BY DEF EnableAccount
<1> DEFINE to == Asked(preferred)
<1>2. Explained(to)
  BY AskedIsExplained DEF AssignmentInv
<1>3. /\ account' = [status |-> "enabled",
                     server |-> IF to.server # NoServer THEN to.server ELSE account.server,
                     source |-> to.source, rule |-> to.rule]
      /\ since' = IF to.server = NoServer THEN since \cup {"kept"} ELSE {}
      /\ UNCHANGED <<assignmentScope, server, default, rules>>
  BY <1>1
<1> HIDE DEF to
<1>4. AssignmentTypeOK'
  BY <1>2, <1>3 DEF AssignmentInv, AssignmentTypeOK, Explained
<1>5. CASE to.server # NoServer
  <2>1. /\ account'.server = to.server /\ account'.source = to.source /\ account'.rule = to.rule
        /\ since' = {}
    BY <1>3, <1>5
  <2>2. SourceIsTrue'
    BY <1>2, <1>3, <1>5, <2>1 DEF Explained, SourceIsTrue
  <2> QED  BY <1>4, <2>2 DEF AssignmentInv
<1>6. CASE to.server = NoServer
  <2>1. /\ account'.source = "default" /\ account'.source = to.source /\ account'.rule = to.rule
        /\ "kept" \in since'
    BY <1>2, <1>3, <1>6 DEF Explained
  <2>2. to.rule = NoRule
    <3>1. ASSUME to.rule # NoRule PROVE FALSE
      <4>1. to.rule \in DOMAIN rules /\ rules[to.rule].server = NoServer
        BY <1>2, <1>6, <3>1 DEF Explained
      <4> QED  BY <4>1, StoredRules, ServersAssumption DEF AssignmentInv
    <3> QED  BY <3>1
  <2>3. SourceIsTrue'
    BY <2>1, <2>2 DEF SourceIsTrue
  <2> QED  BY <1>4, <2>3 DEF AssignmentInv
<1> QED  BY <1>5, <1>6

LEMMA AssignAccountServerTells ==
  ASSUME AssignmentInv, AssignAccountServer
  PROVE  AssignmentInv'
<1>1. PICK preferred \in Preferable :
        LET to == Asked(preferred) IN
        /\ to.server # NoServer
        /\ account' = [account EXCEPT !.server = to.server, !.source = to.source,
                                      !.rule = to.rule]
  BY DEF AssignAccountServer
<1> DEFINE to == Asked(preferred)
<1>2. Explained(to)
  BY AskedIsExplained DEF AssignmentInv
<1>3. /\ to.server # NoServer
      /\ account' = [account EXCEPT !.server = to.server, !.source = to.source,
                                    !.rule = to.rule]
      /\ since' = {}
      /\ UNCHANGED <<assignmentScope, server, default, rules>>
  BY <1>1 DEF AssignAccountServer
<1> HIDE DEF to
<1>4. AssignmentTypeOK'
  BY <1>2, <1>3 DEF AssignmentInv, AssignmentTypeOK, Explained
<1>5. /\ account'.server = to.server /\ account'.source = to.source /\ account'.rule = to.rule
  BY <1>3 DEF AssignmentInv, AssignmentTypeOK
<1>6. SourceIsTrue'
  BY <1>2, <1>3, <1>5 DEF Explained, SourceIsTrue
<1> QED  BY <1>4, <1>6 DEF AssignmentInv

LEMMA CreateRuleTells ==
  ASSUME AssignmentInv, CreateRule
  PROVE  AssignmentInv'
<1>1. PICK x \in Given : rules' = Append(rules, x)
  BY DEF CreateRule
<1>2. UNCHANGED <<assignmentScope, default, account, since>>
  BY DEF CreateRule
<1>3. x \in StoredRule
  BY UserTargetsAreTargets, PrioritiesAssumption DEF Given, StoredRule, AssignmentInv
<1>4. /\ rules' \in Seq(StoredRule) /\ DOMAIN rules \subseteq DOMAIN rules'
      /\ \A r \in DOMAIN rules : rules'[r] = rules[r]
  BY <1>1, <1>3 DEF AssignmentInv, AssignmentTypeOK
<1>5. account.rule \in DOMAIN rules \cup {NoRule}
  BY DEF AssignmentInv, AssignmentTypeOK
<1> QED  BY <1>2, <1>4, <1>5 DEF AssignmentInv, AssignmentTypeOK, SourceIsTrue

\* A changed rule is still there; what the account recorded of it is out of date.
LEMMA UpdateRuleTells ==
  ASSUME AssignmentInv, NEW r \in DOMAIN rules, UpdateRule(r)
  PROVE  AssignmentInv'
<1>1. PICK x \in Given : rules' = [rules EXCEPT ![r] = x]
  BY DEF UpdateRule
<1>2. /\ UNCHANGED <<assignmentScope, default, account>>
      /\ since' = IF account.rule = r THEN since \cup {"rule"} ELSE since
  BY DEF UpdateRule, Changed
<1>3. x \in StoredRule /\ x.exists
  BY UserTargetsAreTargets, PrioritiesAssumption DEF Given, StoredRule, AssignmentInv
<1>4. /\ rules' \in Seq(StoredRule) /\ DOMAIN rules' = DOMAIN rules
      /\ rules'[r] = x /\ \A q \in DOMAIN rules : q # r => rules'[q] = rules[q]
  BY <1>1, <1>3 DEF AssignmentInv, AssignmentTypeOK
<1>5. account.rule \in DOMAIN rules \cup {NoRule}
  BY DEF AssignmentInv, AssignmentTypeOK
<1>6. SourceIsTrue'
  <2>1. CASE account.rule = r
    <3>1. r # NoRule
      BY StoredRules DEF AssignmentInv
    <3> QED  BY <1>2, <1>3, <1>4, <2>1, <3>1 DEF AssignmentInv, SourceIsTrue
  <2>2. CASE account.rule # r
    BY <1>2, <1>4, <1>5, <2>2 DEF AssignmentInv, SourceIsTrue
  <2> QED  BY <2>1, <2>2
<1> QED  BY <1>2, <1>4, <1>6 DEF AssignmentInv, AssignmentTypeOK

LEMMA DeleteRuleTells ==
  ASSUME AssignmentInv, NEW r \in DOMAIN rules, DeleteRule(r)
  PROVE  AssignmentInv'
<1> DEFINE withdrawn == [rules[r] EXCEPT !.exists = FALSE, !.active = FALSE, !.fallback = FALSE,
                                         !.target = TargetTypes[1]]
<1>1. /\ rules' = [rules EXCEPT ![r] = withdrawn]
      /\ account' = [account EXCEPT !.rule = IF @ = r THEN NoRule ELSE @]
      /\ since' = IF account.rule = r THEN since \cup {"rule"} ELSE since
      /\ UNCHANGED <<assignmentScope, default>>
  BY DEF DeleteRule, Changed, AssignmentInv, AssignmentTypeOK
<1>2. withdrawn \in StoredRule
  <2>1. rules[r] \in StoredRule
    BY StoredRules DEF AssignmentInv
  <2>2. TargetTypes[1] \in Targets
    BY DEF Targets, TargetTypes
  <2> QED  BY <2>1, <2>2 DEF StoredRule
<1> HIDE DEF withdrawn
<1>3. /\ rules' \in Seq(StoredRule) /\ DOMAIN rules' = DOMAIN rules
      /\ \A q \in DOMAIN rules : q # r => rules'[q] = rules[q]
  BY <1>1, <1>2 DEF AssignmentInv, AssignmentTypeOK
<1>4. /\ account'.status = account.status /\ account'.server = account.server
      /\ account'.source = account.source
      /\ account'.rule = IF account.rule = r THEN NoRule ELSE account.rule
      /\ account.rule \in DOMAIN rules \cup {NoRule}
  BY <1>1 DEF AssignmentInv, AssignmentTypeOK
<1>5. AssignmentTypeOK'
  BY <1>1, <1>3, <1>4 DEF AssignmentInv, AssignmentTypeOK
<1>6. SourceIsTrue'
  <2>1. CASE account.rule = r
    BY <1>1, <1>4, <2>1 DEF AssignmentInv, SourceIsTrue
  <2>2. CASE account.rule # r
    BY <1>1, <1>3, <1>4, <2>2 DEF AssignmentInv, SourceIsTrue
  <2> QED  BY <2>1, <2>2
<1> QED  BY <1>5, <1>6 DEF AssignmentInv

\* Servers change under an account: only which is the default matters to what it records.
LEMMA ServerChangeTells ==
  ASSUME AssignmentInv, NEW s \in Servers,
         UpdateServer(s) \/ DeleteServer(s) \/ SetDefaultServer(s)
  PROVE  AssignmentInv'
<1>1. /\ UNCHANGED <<assignmentScope, rules, account>>
      /\ default' \in Servers \cup {NoServer}
      /\ since' = IF default' = default THEN since ELSE since \cup {"default"}
  BY DEF UpdateServer, DeleteServer, SetDefaultServer, SetDefault, AssignmentInv, AssignmentTypeOK
<1> QED  BY <1>1 DEF AssignmentInv, AssignmentTypeOK, SourceIsTrue

LEMMA SourceInvariant == AssignmentSpec => []AssignmentInv
<1>1. AssignmentInit => AssignmentInv
  BY AssignmentScopesAssumption
     DEF AssignmentInit, AssignmentInv, AssignmentTypeOK, SourceIsTrue, Sources
<1>2. AssignmentInv /\ [AssignmentNext]_assignmentVars => AssignmentInv'
  <2> SUFFICES ASSUME AssignmentInv, [AssignmentNext]_assignmentVars PROVE AssignmentInv'
    OBVIOUS
  <2>1. CASE UNCHANGED assignmentVars
    BY <2>1 DEF AssignmentInv, AssignmentTypeOK, SourceIsTrue, assignmentVars
  <2>2. CASE DisableAccount
    BY <2>2 DEF DisableAccount, AssignmentInv, AssignmentTypeOK, SourceIsTrue
  <2> QED  BY <2>1, <2>2, EnableAccountTells, AssignAccountServerTells, CreateRuleTells,
           UpdateRuleTells, DeleteRuleTells, ServerChangeTells DEF AssignmentNext
<1> QED  BY <1>1, <1>2, PTL DEF AssignmentSpec

\* SourceIsTrue, for any servers, rules and scopes: what is recorded and the server it is
\* recorded with come from one row, are written together, and part only by what the history
\* names: a rule changed or deleted, another default, an account enabled for want of a server.
THEOREM SourcesAreTrue == AssignmentSpec => []SourceIsTrue
<1>1. AssignmentInv => SourceIsTrue
  BY DEF AssignmentInv
<1> QED  BY <1>1, SourceInvariant, PTL

\* UpRuleUsed, for any servers, rules and scopes: a target whose first rule is for a server
\* that is up decides, if none before it does, and what decides is up or may fall back.
THEOREM UpRulesAreUsed == AssignmentSpec => []UpRuleUsed
<1>1. ASSUME AssignmentTypeOK PROVE UpRuleUsed
  <2> SUFFICES ASSUME NEW j \in DOMAIN TargetTypes, Candidates(TargetTypes[j]) # {},
                      Available(rules[First(Candidates(TargetTypes[j]))].server)
               PROVE  /\ Resolved.server # NoServer
                      /\ Available(Resolved.server) \/ rules[Resolved.rule].fallback
    BY DEF UpRuleUsed
  <2>1. j \in Decides
    BY <1>1, DecidingRule DEF Decides
  <2>2. PICK i \in Decides : \E r \in Deciding(TargetTypes[i]) :
          Resolved = [server |-> rules[r].server, source |-> TargetTypes[i], rule |-> r]
    BY <1>1, <2>1, ResolvedServer
  <2>3. PICK r \in Deciding(TargetTypes[i]) :
          Resolved = [server |-> rules[r].server, source |-> TargetTypes[i], rule |-> r]
    BY <2>2
  <2>4. rules[r].server \in Servers /\ (Available(rules[r].server) \/ rules[r].fallback)
    BY <1>1, DecidingRule
  <2>5. Resolved.server = rules[r].server /\ Resolved.rule = r
    BY <2>3
  <2> QED  BY <2>4, <2>5, ServersAssumption
<1>2. AssignmentInv => UpRuleUsed
  BY <1>1 DEF AssignmentInv
<1> QED  BY <1>2, SourceInvariant, PTL
=============================================================================
