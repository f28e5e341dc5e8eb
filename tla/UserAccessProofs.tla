---------------------------- MODULE UserAccessProofs ----------------------------
(***************************************************************************)
(* What UserAccess keeps for any number of administrators, users, roles and*)
(* payloads: a deletion is final, an inactive user has no enabled VPN      *)
(* account, and the operation log tells how users and roles are.           *)
(*                                                                         *)
(* A request goes on with rows it read before others committed.  What it   *)
(* still may assume of them (Agrees) holds for the fields no overlapping   *)
(* request touches (Quiet): that it knows of those that do is Overlaps, an *)
(* overlap is noted for both requests and for every row both are about, and*)
(* the end of one does not erase it while the other runs.                  *)
(***************************************************************************)
EXTENDS UserAccess, TLAPS

UserFields == DOMAIN NewUser
RoleFields == DOMAIN NewRole
Steps == {"idle", "insert", "reread", "columns", "lists"}

\* Tables and handlers have the shape they should.
Formed ==
  /\ scope \in Scopes
  /\ DOMAIN rows \subseteq Subjects
  /\ \A s \in DOMAIN rows : DOMAIN rows[s] = IF s \in Users THEN UserFields ELSE RoleFields
  /\ DOMAIN disturbed = Subjects /\ DOMAIN untold = Subjects
  /\ DOMAIN txn = Workers
  /\ \A w \in Workers : DOMAIN txn[w] = DOMAIN Idle

\* A creation fills in all lists of a user, or all columns of a role.
Inserts(t, s) ==
  IF s \in Users
  THEN /\ DOMAIN t.columns = {"active"} /\ DOMAIN t.lists = ListFields
       /\ DOMAIN t.asked = ListFields \cup {"active", "deleted"} /\ t.asked.deleted = FALSE
  ELSE DOMAIN t.asked = RoleFields /\ DOMAIN t.lists = {}

\* What a handler was asked and has still to write.
Carries(t) ==
  /\ t.step \in Steps /\ t.on \subseteq Subjects
  /\ t.step = "idle" => t.on = {}
  /\ DOMAIN t.asked \subseteq t.touches /\ t.touches \subseteq DOMAIN t.asked \cup {"vpn"}
  /\ DOMAIN t.columns \subseteq t.touches
  /\ DOMAIN t.lists \subseteq ListFields \cap DOMAIN t.asked
  /\ \A f \in DOMAIN t.lists : t.lists[f] = t.asked[f]
  /\ \A f \in DOMAIN t.columns \ {"vpn"} :
       f \in DOMAIN t.asked /\ t.columns[f] = Value(f, t.asked[f])
  /\ "active" \in DOMAIN t.columns /\ ~t.columns.active => "vpn" \in t.touches
  /\ "vpn" \in DOMAIN t.columns =>
       \/ t.columns.vpn = "disabled"
       \/ /\ t.columns.vpn = "enabled" /\ t.step # "reread"
          /\ DOMAIN t.columns = {"vpn"} /\ t.touches = {"vpn"}
  /\ DOMAIN t.lists # {} => \E u \in Users : t.on = {u}
  /\ t.step = "insert" => ~t.done /\ \E s \in Subjects : t.on = {s} /\ Inserts(t, s)
Handler(w) ==
  /\ Carries(txn[w])
  /\ txn[w].step \in {"reread", "columns", "lists"} => txn[w].on \subseteq DOMAIN rows

\* What handler t assumes of the row of s, where field f is concerned.
Agrees(t, row, s, f) ==
  /\ t.step = "columns" /\ f \in DOMAIN row => row[f] = t.read[s][f]
  /\ t.step \in {"reread", "columns"} /\ f = "deleted" => ~row.deleted
  /\ f = "vpn" /\ s \in Users =>
       /\ t.step \in {"reread", "columns"} /\ "vpn" \notin DOMAIN t.columns => row.vpn = None
       /\ t.step = "columns" /\ "vpn" \in DOMAIN t.columns /\ t.columns.vpn = "enabled" =>
            row.active
       /\ t.step = "lists" => row.active \/ row.vpn # "enabled"
  /\ /\ f \in DOMAIN t.asked \ {"vpn"} /\ f \notin DOMAIN t.lists /\ f \in DOMAIN row
     /\ t.step = "lists" \/ (t.step \in {"reread", "columns"} /\ f \notin DOMAIN t.columns)
     => row[f] = Value(f, t.asked[f])
\* Nobody else touches field f of s while handler w is at it.
Quiet(w, s, f) == f \notin txn[w].contested \/ f \notin disturbed[s]
Current(w) ==
  \A s \in txn[w].on \cap DOMAIN rows : \A f \in txn[w].touches :
    Quiet(w, s, f) => Agrees(txn[w], rows[s], s, f)

\* Handlers that overlap know it.
Contested(v, w) ==
  \A f \in Common(txn[v], txn[w]) :
    /\ f \in txn[v].contested /\ f \in txn[w].contested
    /\ \A s \in txn[v].on \cap txn[w].on : f \in disturbed[s]

\* The log is behind only where some handler has committed, or where it does not tell.
Unsettled(s, f) ==
  \E w \in Workers : s \in txn[w].on /\ txn[w].done /\ f \in txn[w].touches
Told(s, f) == s \in DOMAIN logged /\ f \in DOMAIN logged[s] /\ rows[s][f] = logged[s][f]
Logged ==
  \A s \in DOMAIN rows : \A f \in DOMAIN rows[s] \ {"vpn"} :
    f \notin untold[s] \cup disturbed[s] /\ ~Unsettled(s, f) => Told(s, f)

Handlers == \A w \in Workers : Handler(w)
Currents == \A w \in Workers : Current(w)
Overlaps == \A v, w \in Workers : v # w => Contested(v, w)

Inv == Formed /\ Handlers /\ Currents /\ Overlaps /\ Logged /\ InactiveHasNoVpn

-----------------------------------------------------------------------------
(* Fields, lists and payloads *)

LEMMA FieldNames ==
  /\ DOMAIN Idle = {"step", "on", "read", "columns", "lists", "asked", "touches",
                    "contested", "done"}
  /\ UserFields = {"active", "deleted", "vpn", "department", "scope", "role", "positions"}
  /\ RoleFields = {"active", "deleted", "grants"}
  /\ ListFields = {"department", "scope", "role", "positions"}
<1>1. DOMAIN UserLists = {1, 2, 3, 4}
  BY DEF UserLists
<1>2. /\ UserLists[1] = "department" /\ UserLists[2] = "scope"
      /\ UserLists[3] = "role" /\ UserLists[4] = "positions"
  BY DEF UserLists
<1>3. ListFields = {"department", "scope", "role", "positions"}
  BY <1>1, <1>2 DEF ListFields
<1> QED BY <1>3 DEF Idle, UserFields, RoleFields, NewUser, NewRole

\* Columns that are not lists have the value given.
LEMMA ColumnValues ==
  ASSUME NEW f, f \in {"active", "deleted", "vpn"}
  PROVE  \A v : Value(f, v) = v
<1>1. f \notin Lists
  BY FieldNames DEF Lists
<1> QED BY <1>1 DEF Value

\* What the log does not hide it shows.
LEMMA ShownIsValue ==
  ASSUME NEW f, NEW v, ~Hidden(f, v)
  PROVE  Shown(f, v) = Value(f, v)
<1>1. CASE f \notin Lists
  BY <1>1 DEF Shown, Value
<1>2. CASE f \in Lists
  <2>1. Taken(f, IdsOf(v)) \cap 1..LogItems = Taken(f, IdsOf(v))
    BY <1>2 DEF Hidden
  <2> QED BY <1>2, <2>1 DEF Shown, Value
<1> QED BY <1>1, <1>2

\* The next list to replace is one that is left.
LEMMA FirstListIsLeft ==
  ASSUME NEW lists, DOMAIN lists \subseteq ListFields, DOMAIN lists # {}
  PROVE  FirstList(lists) \in DOMAIN lists
<1> DEFINE First(i) == /\ UserLists[i] \in DOMAIN lists
                       /\ \A j \in 1..(i - 1) : UserLists[j] \notin DOMAIN lists
<1>1. DOMAIN UserLists = 1..4
  BY DEF UserLists
<1>2. \E i \in 1..4 : UserLists[i] \in DOMAIN lists
  BY <1>1 DEF ListFields
<1>3. \E i \in DOMAIN UserLists : First(i)
  <2>1. CASE UserLists[1] \in DOMAIN lists
    BY <1>1, <2>1
  <2>2. CASE UserLists[1] \notin DOMAIN lists /\ UserLists[2] \in DOMAIN lists
    <3>1. \A j \in 1..(2 - 1) : j = 1
      OBVIOUS
    <3> QED BY <1>1, <2>2, <3>1
  <2>3. CASE /\ UserLists[1] \notin DOMAIN lists /\ UserLists[2] \notin DOMAIN lists
             /\ UserLists[3] \in DOMAIN lists
    <3>1. \A j \in 1..(3 - 1) : j = 1 \/ j = 2
      OBVIOUS
    <3> QED BY <1>1, <2>3, <3>1
  <2>4. CASE /\ UserLists[1] \notin DOMAIN lists /\ UserLists[2] \notin DOMAIN lists
             /\ UserLists[3] \notin DOMAIN lists
    <3>1. \A j \in 1..(4 - 1) : j = 1 \/ j = 2 \/ j = 3
      OBVIOUS
    <3>2. \A i \in 1..4 : i = 1 \/ i = 2 \/ i = 3 \/ i = 4
      OBVIOUS
    <3>3. First(4)
      BY <1>2, <2>4, <3>1, <3>2
    <3> QED BY <1>1, <3>3
  <2> QED BY <2>1, <2>2, <2>3, <2>4
<1>4. First(CHOOSE i \in DOMAIN UserLists : First(i))
  <2> HIDE DEF First
  <2> QED BY <1>3
<1> QED BY <1>4 DEF FirstList

LEMMA IdleCarries ==
  /\ Carries(Idle) /\ Idle.step = "idle" /\ Idle.on = {} /\ Idle.done = FALSE
  BY DEF Carries, Idle, Steps

-----------------------------------------------------------------------------
(* What a handler holds depends on some of its fields only *)

LEMMA CarriesSame ==
  ASSUME NEW t, NEW u, Carries(t), u.step = t.step, u.on = t.on, u.columns = t.columns,
         u.lists = t.lists, u.asked = t.asked, u.touches = t.touches, u.done = t.done
  PROVE  Carries(u)
  BY DEF Carries, Inserts

LEMMA AgreesSame ==
  ASSUME NEW t, NEW u, NEW s, NEW row, NEW new, NEW f, Agrees(t, row, s, f),
         u.step = t.step, u.read = t.read, u.columns = t.columns,
         u.lists = t.lists, u.asked = t.asked,
         "deleted" \in DOMAIN row, s \in Users => "vpn" \in DOMAIN row,
         DOMAIN new = DOMAIN row, f \in DOMAIN row => new[f] = row[f],
         f = "vpn" /\ row.active => new.active
  PROVE  Agrees(u, new, s, f)
  BY DEF Agrees

\* A handler that only learns of an overlap, while rows change elsewhere.
LEMMA OthersStay ==
  ASSUME Inv, NEW v \in Workers, UNCHANGED scope,
         LET t == txn[v]  u == txn'[v] IN
           /\ DOMAIN u = DOMAIN t /\ u.step = t.step /\ u.on = t.on /\ u.read = t.read
           /\ u.columns = t.columns /\ u.lists = t.lists /\ u.asked = t.asked
           /\ u.touches = t.touches /\ u.done = t.done,
         DOMAIN rows \subseteq DOMAIN rows',
         \A s \in txn[v].on : \A f \in txn[v].touches :
           Quiet(v, s, f)' => /\ Quiet(v, s, f)
                              /\ s \in DOMAIN rows =>
                                   /\ DOMAIN rows'[s] = DOMAIN rows[s]
                                   /\ f \in DOMAIN rows[s] => rows'[s][f] = rows[s][f]
                                   /\ f = "vpn" /\ rows[s].active => rows'[s].active
  PROVE  Handler(v)' /\ Current(v)'
<1>1. Handler(v) /\ Current(v)
  BY DEF Inv, Handlers, Currents
<1>2. Carries(txn'[v])
  BY <1>1, CarriesSame DEF Handler
<1>3. Handler(v)'
  BY <1>1, <1>2 DEF Handler
<1>4. ASSUME NEW s \in txn[v].on \cap DOMAIN rows', NEW f \in txn[v].touches, Quiet(v, s, f)'
      PROVE  Agrees(txn'[v], rows'[s], s, f)
  <2>1. CASE s \in DOMAIN rows
    <3>1. Agrees(txn[v], rows[s], s, f)
      BY <1>1, <1>4, <2>1 DEF Current
    <3>2. "deleted" \in DOMAIN rows[s] /\ (s \in Users => "vpn" \in DOMAIN rows[s])
      BY <2>1, FieldNames DEF Inv, Formed
    <3> QED BY <1>4, <2>1, <3>1, <3>2, AgreesSame
  <2>2. CASE s \notin DOMAIN rows
    <3>1. txn[v].step \in {"idle", "insert"}
      BY <1>1, <2>2 DEF Handler, Carries, Steps
    <3>2. txn'[v].step \in {"idle", "insert"}
      BY <3>1
    <3> QED BY <3>2 DEF Agrees
  <2> QED BY <2>1, <2>2
<1>5. Current(v)'
  BY <1>4 DEF Current
<1> QED BY <1>3, <1>5

-----------------------------------------------------------------------------
(* A request begins *)

LEMMA BeginKeeps ==
  ASSUME Inv, NEW w \in Workers, NEW step \in Steps \ {"idle"}, NEW on, NEW columns, NEW lists,
         NEW asked, Begin(w, step, on, columns, lists, asked),
         NEW t, t = [step |-> step, on |-> on,
                     read |-> [s \in on \cap DOMAIN rows |-> rows[s]],
                     columns |-> columns, lists |-> lists, asked |-> asked,
                     touches |-> Touches(asked), contested |-> {}, done |-> FALSE],
         Carries(t), step # "insert" => on \subseteq DOMAIN rows,
         \A s \in on \cap DOMAIN rows : \A f \in Touches(asked) : Agrees(t, rows[s], s, f)
  PROVE  Inv'
<1>0. /\ t.step = step /\ t.on = on /\ t.read = [s \in on \cap DOMAIN rows |-> rows[s]]
      /\ t.columns = columns /\ t.lists = lists /\ t.asked = asked
      /\ t.touches = Touches(asked) /\ t.contested = {} /\ t.done = FALSE
      /\ DOMAIN t = DOMAIN Idle
  BY FieldNames
<1>1. PICK all : all = UNION {Common(t, txn[v]) : v \in Workers}
  OBVIOUS
<1>2. /\ txn' = [v \in Workers |->
          IF v = w THEN [t EXCEPT !.contested = all]
          ELSE [txn[v] EXCEPT !.contested = @ \cup Common(t, txn[v])]]
      /\ disturbed' = [s \in Subjects |->
          IF s \in on THEN disturbed[s] \cup all ELSE disturbed[s]]
      /\ UNCHANGED <<scope, rows, logged, untold>> /\ At(w, "idle")
  BY <1>1, Zenon DEF Begin, log
<1>3. Workers' = Workers
  BY <1>2 DEF Workers
<1>4. LET u == txn'[w] IN
        /\ DOMAIN u = DOMAIN Idle /\ u.step = step /\ u.on = on /\ u.read = t.read
        /\ u.columns = columns /\ u.lists = lists /\ u.asked = asked
        /\ u.touches = t.touches /\ u.contested = all /\ u.done = FALSE
  BY <1>0, <1>2, FieldNames
<1>5. ASSUME NEW v \in Workers, v # w
      PROVE  LET x == txn[v]  u == txn'[v] IN
               /\ DOMAIN u = DOMAIN x /\ u.step = x.step /\ u.on = x.on /\ u.read = x.read
               /\ u.columns = x.columns /\ u.lists = x.lists /\ u.asked = x.asked
               /\ u.touches = x.touches /\ u.done = x.done
               /\ u.contested = x.contested \cup Common(t, x)
  <2>1. DOMAIN txn[v] = DOMAIN Idle
    BY DEF Inv, Formed
  <2>2. txn'[v] = [txn[v] EXCEPT !.contested = @ \cup Common(t, txn[v])]
    BY <1>2, <1>5
  <2> QED BY <2>1, <2>2, FieldNames
<1> HIDE DEF Touches
<1>6. \A s \in Subjects : disturbed[s] \subseteq disturbed'[s]
  BY <1>2
<1>7. Formed'
  <2>1. DOMAIN txn' = Workers /\ DOMAIN disturbed' = Subjects
    BY <1>2
  <2>2. \A v \in Workers : DOMAIN txn'[v] = DOMAIN Idle
    BY <1>4, <1>5 DEF Inv, Formed
  <2> QED BY <1>2, <1>3, <2>1, <2>2 DEF Inv, Formed
<1>8. Handler(w)' /\ Current(w)'
  <2>1. Carries(txn'[w])
    BY <1>0, <1>4, CarriesSame
  <2>2. Handler(w)'
    BY <1>2, <1>4, <2>1 DEF Handler
  <2>3. ASSUME NEW s \in on \cap DOMAIN rows, NEW f \in Touches(asked)
        PROVE  Agrees(txn'[w], rows[s], s, f)
    <3>1. Agrees(t, rows[s], s, f)
      BY <2>3
    <3>2. "deleted" \in DOMAIN rows[s] /\ (s \in Users => "vpn" \in DOMAIN rows[s])
      BY FieldNames DEF Inv, Formed
    <3> QED BY <1>0, <1>4, <3>1, <3>2, AgreesSame
  <2>4. Current(w)'
    BY <1>0, <1>2, <1>4, <2>3 DEF Current
  <2> QED BY <2>2, <2>4
<1>9. ASSUME NEW v \in Workers, v # w PROVE Handler(v)' /\ Current(v)'
  <2>1. ASSUME NEW s \in txn[v].on, NEW f, Quiet(v, s, f)' PROVE Quiet(v, s, f)
    <3>1. s \in Subjects
      BY DEF Inv, Handlers, Handler, Carries
    <3> QED BY <1>5, <1>6, <1>9, <2>1, <3>1 DEF Quiet
  <2> QED BY <1>2, <1>5, <1>9, <2>1, OthersStay
<1>10. Overlaps'
  <2>1. ASSUME NEW v \in Workers, v # w
        PROVE  /\ Common(txn'[v], txn'[w]) = Common(t, txn[v])
               /\ Common(txn'[w], txn'[v]) = Common(t, txn[v])
    BY <1>0, <1>4, <1>5, <2>1 DEF Common
  <2>2. ASSUME NEW v \in Workers, v # w, NEW f \in Common(t, txn[v])
        PROVE  /\ f \in txn'[v].contested /\ f \in txn'[w].contested
               /\ \A s \in txn'[v].on \cap txn'[w].on : f \in disturbed'[s]
    <3>1. f \in all
      BY <1>1
    <3>2. txn'[v].on \subseteq Subjects
      BY <1>5, <2>2 DEF Inv, Handlers, Handler, Carries
    <3> QED BY <1>2, <1>4, <1>5, <2>2, <3>1, <3>2
  <2>3. ASSUME NEW v \in Workers, NEW x \in Workers, v # x, v # w, x # w
        PROVE  Contested(v, x)'
    <3>1. Contested(v, x) /\ txn[v].on \subseteq Subjects
      BY <2>3 DEF Inv, Overlaps, Handlers, Handler, Carries
    <3>2. Common(txn'[v], txn'[x]) = Common(txn[v], txn[x])
      BY <1>5, <2>3 DEF Common
    <3> QED BY <1>5, <1>6, <2>3, <3>1, <3>2 DEF Contested
  <2>4. ASSUME NEW v \in Workers, v # w PROVE Contested(v, w)' /\ Contested(w, v)'
    BY <2>1, <2>2, <2>4 DEF Contested
  <2> QED BY <1>3, <2>3, <2>4 DEF Overlaps
<1>11. Logged'
  <2>1. \A s, f : Unsettled(s, f) => Unsettled(s, f)'
    <3>1. \A v \in Workers : txn[v].done /\ v = w => txn[v].on = {}
      BY <1>2 DEF At, Inv, Handlers, Handler, Carries
    <3> QED BY <1>3, <1>5, <3>1 DEF Unsettled
  <2>2. \A s, f : Told(s, f) => Told(s, f)'
    BY <1>2 DEF Told
  <2>3. DOMAIN rows \subseteq Subjects
    BY DEF Inv, Formed
  <2> QED BY <1>2, <1>6, <2>1, <2>2, <2>3 DEF Inv, Logged
<1>12. InactiveHasNoVpn'
  <2>1. Users \subseteq Subjects
    BY DEF Subjects
  <2> QED BY <1>2, <1>6, <2>1 DEF Inv, InactiveHasNoVpn
<1>13. Handlers' /\ Currents'
  BY <1>3, <1>8, <1>9 DEF Handlers, Currents
<1> QED BY <1>7, <1>10, <1>11, <1>12, <1>13 DEF Inv

-----------------------------------------------------------------------------
(* A handler commits *)

LEMMA CommitKeeps ==
  ASSUME Inv, NEW w \in Workers, NEW t, txn' = [txn EXCEPT ![w] = t],
         DOMAIN t = DOMAIN Idle, t.on = txn[w].on, t.touches = txn[w].touches,
         txn[w].contested \subseteq t.contested, t.done = TRUE,
         UNCHANGED <<scope, logged, untold>>,
         DOMAIN disturbed' = Subjects, \A s \in Subjects : disturbed[s] \subseteq disturbed'[s],
         DOMAIN rows \subseteq DOMAIN rows', DOMAIN rows' \subseteq DOMAIN rows \cup txn[w].on,
         \A s \in DOMAIN rows :
           /\ DOMAIN rows'[s] = DOMAIN rows[s]
           /\ s \notin txn[w].on => rows'[s] = rows[s]
           /\ \A f \in DOMAIN rows[s] \ txn[w].touches : rows'[s][f] = rows[s][f]
           /\ "vpn" \notin txn[w].touches /\ rows[s].active => rows'[s].active,
         \A s \in DOMAIN rows' \ DOMAIN rows :
           /\ DOMAIN rows'[s] = IF s \in Users THEN UserFields ELSE RoleFields
           /\ DOMAIN rows'[s] \ {"vpn"} \subseteq txn[w].touches
           /\ s \in Users => rows'[s].active,
         Carries(t),
         t.step \in {"reread", "columns", "lists"} => t.on \subseteq DOMAIN rows',
         \A s \in t.on \cap DOMAIN rows' : \A f \in t.touches :
           f \notin t.contested \/ f \notin disturbed'[s] => Agrees(t, rows'[s], s, f),
         \A u \in t.on \cap Users \cap DOMAIN rows :
           "vpn" \in t.touches => t.step = "lists" \/ rows'[u] = rows[u]
  PROVE  Inv'
<1>1. Workers' = Workers /\ DOMAIN txn = Workers
  BY DEF Workers, Inv, Formed
<1>2. txn'[w] = t /\ \A v \in Workers : v # w => txn'[v] = txn[v]
  BY <1>1
<1>3. \A v \in Workers : txn[v].on \subseteq Subjects
  BY DEF Inv, Handlers, Handler, Carries
<1>4. Formed'
  <2>1. DOMAIN txn' = Workers /\ \A v \in Workers : DOMAIN txn'[v] = DOMAIN Idle
    BY <1>1, <1>2 DEF Inv, Formed
  <2>2. scope' \in Scopes /\ DOMAIN rows' \subseteq Subjects /\ DOMAIN untold' = Subjects
    BY <1>3 DEF Inv, Formed
  <2>3. \A s \in DOMAIN rows' :
          DOMAIN rows'[s] = IF s \in Users THEN UserFields ELSE RoleFields
    BY DEF Inv, Formed
  <2> QED BY <1>1, <2>1, <2>2, <2>3 DEF Formed
<1>5. Handler(w)' /\ Current(w)'
  BY <1>2 DEF Handler, Current, Quiet
<1>6. ASSUME NEW v \in Workers, v # w PROVE Handler(v)' /\ Current(v)'
  <2>1. ASSUME NEW s \in txn[v].on, NEW f \in txn[v].touches, Quiet(v, s, f)'
        PROVE  /\ Quiet(v, s, f)
               /\ s \in DOMAIN rows =>
                    /\ DOMAIN rows'[s] = DOMAIN rows[s]
                    /\ f \in DOMAIN rows[s] => rows'[s][f] = rows[s][f]
                    /\ f = "vpn" /\ rows[s].active => rows'[s].active
    <3>1. Quiet(v, s, f)
      BY <1>2, <1>3, <1>6, <2>1 DEF Quiet
    <3>2. s \in txn[w].on => f \notin txn[w].touches
      <4>1. Contested(v, w)
        BY <1>6 DEF Inv, Overlaps
      <4>2. ASSUME s \in txn[w].on, f \in txn[w].touches PROVE FALSE
        <5>1. f \in Common(txn[v], txn[w])
          BY <2>1, <4>2 DEF Common
        <5> QED BY <2>1, <3>1, <4>1, <4>2, <5>1 DEF Contested, Quiet
      <4> QED BY <4>2
    <3>3. ASSUME s \in DOMAIN rows
          PROVE  /\ DOMAIN rows'[s] = DOMAIN rows[s]
                 /\ f \in DOMAIN rows[s] => rows'[s][f] = rows[s][f]
                 /\ f = "vpn" /\ rows[s].active => rows'[s].active
      <4>1. CASE f \in DOMAIN rows[s] \/ s \notin txn[w].on
        BY <3>2, <3>3, <4>1
      <4>2. CASE f \notin DOMAIN rows[s] /\ s \in txn[w].on
        BY <3>2, <3>3, <4>2
      <4> QED BY <4>1, <4>2
    <3> QED BY <3>1, <3>3
  <2> QED BY <1>2, <1>6, <2>1, OthersStay
<1>7. Overlaps'
  <2>1. ASSUME NEW v \in Workers, NEW x \in Workers, v # x PROVE Contested(v, x)'
    <3>1. Contested(v, x)
      BY <2>1 DEF Inv, Overlaps
    <3>2. /\ txn'[v].on = txn[v].on /\ txn'[v].touches = txn[v].touches
          /\ txn'[x].on = txn[x].on /\ txn'[x].touches = txn[x].touches
          /\ txn[v].contested \subseteq txn'[v].contested
          /\ txn[x].contested \subseteq txn'[x].contested
      BY <1>2
    <3>3. Common(txn'[v], txn'[x]) = Common(txn[v], txn[x])
      BY <3>2 DEF Common
    <3> QED BY <1>3, <3>1, <3>2, <3>3 DEF Contested
  <2> QED BY <1>1, <2>1 DEF Overlaps
<1>8. Logged'
  <2>1. ASSUME NEW s \in DOMAIN rows', NEW f \in DOMAIN rows'[s] \ {"vpn"},
               f \notin untold'[s] \cup disturbed'[s], ~Unsettled(s, f)'
        PROVE  Told(s, f)'
    <3>1. ~(s \in txn[w].on /\ f \in txn[w].touches)
      BY <1>1, <1>2, <2>1 DEF Unsettled
    <3>2. s \in DOMAIN rows
      BY <2>1, <3>1
    <3>3. ~Unsettled(s, f)
      BY <1>1, <1>2, <2>1, <3>1 DEF Unsettled
    <3>4. f \notin untold[s] \cup disturbed[s]
      BY <2>1, <3>2 DEF Inv, Formed
    <3>5. Told(s, f) /\ f \in DOMAIN rows[s]
      BY <2>1, <3>2, <3>3, <3>4 DEF Inv, Logged
    <3>6. rows'[s][f] = rows[s][f]
      BY <3>1, <3>2, <3>5
    <3> QED BY <3>5, <3>6 DEF Told
  <2> QED BY <2>1 DEF Logged
<1>9. InactiveHasNoVpn'
  <2>1. ASSUME NEW u \in Users \cap DOMAIN rows', ~rows'[u].active, "vpn" \notin disturbed'[u],
               rows'[u].vpn = "enabled"
        PROVE  FALSE
    <3>1. u \in DOMAIN rows /\ u \in Subjects
      BY <2>1 DEF Subjects
    <3>2. "vpn" \in DOMAIN rows[u]
      BY <2>1, <3>1, FieldNames DEF Inv, Formed
    <3>3. "vpn" \notin disturbed[u]
      BY <2>1, <3>1
    <3>4. ~rows[u].active => rows[u].vpn # "enabled"
      BY <2>1, <3>1, <3>3 DEF Inv, InactiveHasNoVpn
    <3>5. CASE rows'[u] = rows[u]
      BY <2>1, <3>4, <3>5
    <3>6. CASE u \in txn[w].on /\ "vpn" \notin txn[w].touches
      BY <2>1, <3>1, <3>2, <3>4, <3>6
    <3>7. CASE u \in txn[w].on /\ "vpn" \in txn[w].touches /\ t.step = "lists"
      <4>1. Agrees(t, rows'[u], u, "vpn")
        BY <2>1, <3>7
      <4> QED BY <2>1, <3>7, <4>1 DEF Agrees
    <3> QED BY <2>1, <3>1, <3>5, <3>6, <3>7
  <2> QED BY <2>1 DEF InactiveHasNoVpn
<1>10. Handlers' /\ Currents'
  BY <1>1, <1>5, <1>6 DEF Handlers, Currents
<1> QED BY <1>4, <1>7, <1>8, <1>9, <1>10 DEF Inv

-----------------------------------------------------------------------------
(* A handler ends *)

\* Its end erases nothing that concerns a handler still running.
LEMMA EndKeeps ==
  ASSUME Inv, NEW w \in Workers, txn' = [txn EXCEPT ![w] = Idle], UNCHANGED <<scope, rows>>,
         DOMAIN disturbed' = Subjects, DOMAIN untold' = Subjects,
         \A s \in Subjects : s \notin txn[w].on => disturbed'[s] = disturbed[s],
         \A s \in txn[w].on :
           disturbed[s] \ (txn[w].touches \ txn[w].contested) \subseteq disturbed'[s],
         Logged', InactiveHasNoVpn'
  PROVE  Inv'
<1>1. Workers' = Workers /\ DOMAIN txn = Workers
  BY DEF Workers, Inv, Formed
<1>2. txn'[w] = Idle /\ \A v \in Workers : v # w => txn'[v] = txn[v]
  BY <1>1
<1>3. \A v \in Workers : txn[v].on \subseteq Subjects
  BY DEF Inv, Handlers, Handler, Carries
<1>4. ASSUME NEW v \in Workers, v # w, NEW s \in txn[v].on, NEW f \in txn[v].touches,
             f \in disturbed[s]
      PROVE  f \in disturbed'[s]
  <2>1. Contested(v, w)
    BY <1>4 DEF Inv, Overlaps
  <2>2. CASE s \notin txn[w].on
    BY <1>3, <1>4, <2>2
  <2>3. CASE s \in txn[w].on /\ f \notin txn[w].touches
    BY <1>4, <2>3
  <2>4. CASE s \in txn[w].on /\ f \in txn[w].touches
    <3>1. f \in Common(txn[v], txn[w])
      BY <1>4, <2>4 DEF Common
    <3> QED BY <1>4, <2>1, <2>4, <3>1 DEF Contested
  <2> QED BY <2>2, <2>3, <2>4
<1>5. Formed'
  <2>1. DOMAIN txn' = Workers /\ \A v \in Workers : DOMAIN txn'[v] = DOMAIN Idle
    BY <1>1, <1>2 DEF Inv, Formed
  <2> QED BY <1>1, <2>1 DEF Inv, Formed
<1>6. Handler(w)' /\ Current(w)'
  BY <1>2, IdleCarries DEF Handler, Current
<1>7. ASSUME NEW v \in Workers, v # w PROVE Handler(v)' /\ Current(v)'
  <2>1. ASSUME NEW s \in txn[v].on, NEW f \in txn[v].touches, Quiet(v, s, f)'
        PROVE  Quiet(v, s, f)
    BY <1>2, <1>4, <1>7, <2>1 DEF Quiet
  <2> QED BY <1>2, <1>7, <2>1, OthersStay
<1>8. Overlaps'
  <2>1. ASSUME NEW v \in Workers, NEW x \in Workers, v # x PROVE Contested(v, x)'
    <3>1. CASE v = w \/ x = w
      <4>1. Common(txn'[v], txn'[x]) = {}
        BY <1>2, <3>1, IdleCarries DEF Common
      <4> QED BY <4>1 DEF Contested
    <3>2. CASE v # w /\ x # w
      <4>1. Contested(v, x)
        BY <2>1 DEF Inv, Overlaps
      <4>2. txn'[v] = txn[v] /\ txn'[x] = txn[x]
        BY <1>2, <3>2
      <4>3. Common(txn[v], txn[x]) \subseteq txn[v].touches
        BY DEF Common
      <4> QED BY <1>4, <3>2, <4>1, <4>2, <4>3 DEF Contested
    <3> QED BY <3>1, <3>2
  <2> QED BY <1>1, <2>1 DEF Overlaps
<1>9. Handlers' /\ Currents'
  BY <1>1, <1>6, <1>7 DEF Handlers, Currents
<1> QED BY <1>5, <1>8, <1>9 DEF Inv

\* A handler gives up before it committed anything.
LEMMA AbandonKeeps ==
  ASSUME Inv, NEW w \in Workers, ~txn[w].done \/ txn[w].touches = {"vpn"},
         Abandon(w), UNCHANGED <<scope, rows, sent, logged, untold>>
  PROVE  Inv'
<1>1. txn' = [txn EXCEPT ![w] = Idle] /\ disturbed' = disturbed
  BY DEF Abandon
<1>2. Workers' = Workers /\ DOMAIN txn = Workers
  BY DEF Workers, Inv, Formed
<1>3. \A s, f : f # "vpn" /\ Unsettled(s, f) => Unsettled(s, f)'
  BY <1>1, <1>2 DEF Unsettled
<1>4. Logged'
  BY <1>1, <1>3 DEF Inv, Logged, Told
<1>5. InactiveHasNoVpn'
  BY <1>1 DEF Inv, InactiveHasNoVpn
<1>6. DOMAIN disturbed' = Subjects /\ DOMAIN untold' = Subjects
  BY <1>1 DEF Inv, Formed
<1> QED BY <1>1, <1>4, <1>5, <1>6, EndKeeps

-----------------------------------------------------------------------------
(* Each step of a handler *)

\* The row is read again; whatever changed meanwhile, this handler may assume.
LEMMA RereadKeeps ==
  ASSUME Inv, NEW w \in Workers, Reread(w)
  PROVE  Inv'
<1> DEFINE t == [txn[w] EXCEPT !.step = "columns", !.done = TRUE,
                               !.read = [s \in txn[w].on |-> rows[s]]]
<1>1. txn' = [txn EXCEPT ![w] = t] /\ UNCHANGED <<scope, rows, sent, logged, untold, disturbed>>
  BY DEF Reread, log
<1>2. Handler(w) /\ Current(w) /\ DOMAIN txn[w] = DOMAIN Idle /\ txn[w].step = "reread"
  BY DEF Inv, Handlers, Currents, Formed, Reread, At
<1>3. /\ DOMAIN t = DOMAIN Idle /\ t.on = txn[w].on /\ t.touches = txn[w].touches
      /\ t.contested = txn[w].contested /\ t.done = TRUE /\ t.step = "columns"
      /\ t.columns = txn[w].columns /\ t.lists = txn[w].lists /\ t.asked = txn[w].asked
      /\ t.read = [s \in txn[w].on |-> rows[s]]
  BY <1>2, FieldNames
<1> HIDE DEF t
<1>4. Carries(t) /\ t.on \subseteq DOMAIN rows
  BY <1>2, <1>3 DEF Handler, Carries, Steps
<1>5. ASSUME NEW s \in t.on \cap DOMAIN rows, NEW f \in t.touches,
             f \notin t.contested \/ f \notin disturbed[s]
      PROVE  Agrees(t, rows[s], s, f)
  <2>1. Agrees(txn[w], rows[s], s, f)
    BY <1>2, <1>3, <1>5 DEF Current, Quiet
  <2>2. ~("vpn" \in DOMAIN t.columns /\ t.columns.vpn = "enabled")
    BY <1>2, <1>3 DEF Handler, Carries
  <2> QED BY <1>2, <1>3, <2>1, <2>2 DEF Agrees
<1>6. \A s \in DOMAIN rows : s \in Subjects
  BY DEF Inv, Formed
<1>7. DOMAIN disturbed = Subjects
  BY DEF Inv, Formed
<1> QED BY <1>1, <1>3, <1>4, <1>5, <1>6, <1>7, CommitKeeps

\* What is committed is what was asked, where what was read still held.
LEMMA CommitColumnsKeeps ==
  ASSUME Inv, NEW w \in Workers, CommitColumns(w)
  PROVE  Inv'
<1>1. /\ Handler(w) /\ Current(w) /\ DOMAIN txn[w] = DOMAIN Idle /\ txn[w].step = "columns"
      /\ txn[w].on \subseteq DOMAIN rows /\ Carries(txn[w]) /\ txn[w].on \subseteq Subjects
  BY DEF Inv, Handlers, Currents, Formed, CommitColumns, At, Handler, Carries
<1>2. CASE AccountExists(w)
  <2>1. txn[w].touches = {"vpn"}
    BY <1>1, <1>2 DEF AccountExists, Carries
  <2> QED BY <1>2, <2>1, AbandonKeeps DEF CommitColumns, log
<1>3. CASE ~AccountExists(w)
  <2> DEFINE t == [txn[w] EXCEPT !.step = "lists", !.done = TRUE]
  <2>1. /\ txn' = [txn EXCEPT ![w] = t] /\ UNCHANGED <<scope, logged, untold, disturbed>>
        /\ rows' = [s \in DOMAIN rows |->
             IF s \in txn[w].on THEN WriteColumns(rows[s], txn[w].read[s], txn[w].columns)
             ELSE rows[s]]
    BY <1>3 DEF CommitColumns, log
  <2>2. /\ DOMAIN t = DOMAIN Idle /\ t.on = txn[w].on /\ t.touches = txn[w].touches
        /\ t.contested = txn[w].contested /\ t.done = TRUE /\ t.step = "lists"
        /\ t.columns = txn[w].columns /\ t.lists = txn[w].lists /\ t.asked = txn[w].asked
        /\ t.read = txn[w].read
    BY <1>1, FieldNames
  <2> HIDE DEF t
  <2>3. Carries(t)
    BY <1>1, <2>2 DEF Carries, Steps
  <2>4. /\ DOMAIN rows \subseteq Subjects /\ DOMAIN disturbed = Subjects
        /\ DOMAIN rows' = DOMAIN rows
        /\ \A s \in DOMAIN rows : /\ {"active", "deleted"} \subseteq DOMAIN rows[s]
                                  /\ s \in Users => "vpn" \in DOMAIN rows[s]
    BY <2>1, FieldNames DEF Inv, Formed
  <2>5. ASSUME NEW s \in DOMAIN rows
        PROVE  /\ DOMAIN rows'[s] = DOMAIN rows[s]
               /\ s \notin txn[w].on => rows'[s] = rows[s]
               /\ \A f \in DOMAIN rows[s] \ txn[w].touches : rows'[s][f] = rows[s][f]
               /\ "vpn" \notin txn[w].touches /\ rows[s].active => rows'[s].active
    <3>1. CASE s \in txn[w].on
      <4>1. rows'[s] = WriteColumns(rows[s], txn[w].read[s], txn[w].columns)
        BY <2>1, <3>1
      <4>2. \A f \in DOMAIN rows[s] :
              \/ rows'[s][f] = rows[s][f]
              \/ f \in DOMAIN txn[w].columns /\ rows'[s][f] = txn[w].columns[f]
        BY <4>1 DEF WriteColumns
      <4>3. DOMAIN rows'[s] = DOMAIN rows[s]
        BY <4>1 DEF WriteColumns
      <4>4. "active" \in DOMAIN txn[w].columns /\ "vpn" \notin txn[w].touches
              => txn[w].columns.active
        BY <1>1 DEF Carries
      <4>5. DOMAIN txn[w].columns \subseteq txn[w].touches
        BY <1>1 DEF Carries
      <4> QED BY <2>4, <3>1, <4>2, <4>3, <4>4, <4>5
    <3>2. CASE s \notin txn[w].on
      BY <2>1, <3>2
    <3> QED BY <3>1, <3>2
  <2>6. ASSUME NEW s \in t.on, NEW f \in t.touches, f \notin t.contested \/ f \notin disturbed[s]
        PROVE  Agrees(t, rows'[s], s, f)
    <3> DEFINE columns == txn[w].columns  read == txn[w].read[s]
    <3>1. s \in DOMAIN rows /\ Agrees(txn[w], rows[s], s, f)
      BY <1>1, <2>2, <2>6 DEF Current, Quiet
    <3>2. rows'[s] = WriteColumns(rows[s], read, columns)
      BY <2>1, <2>2, <3>1
    <3>3. f \in DOMAIN rows[s] => read[f] = rows[s][f]
      BY <1>1, <3>1 DEF Agrees
    <3>4. DOMAIN rows'[s] = DOMAIN rows[s]
      BY <3>2 DEF WriteColumns
    <3>5. ASSUME f \in DOMAIN columns \ {"vpn"}, f \in DOMAIN rows[s]
          PROVE  rows'[s][f] = columns[f]
      BY <3>2, <3>3, <3>5 DEF WriteColumns, Written
    <3>6. ASSUME f \notin DOMAIN columns, f \in DOMAIN rows[s]
          PROVE  rows'[s][f] = rows[s][f]
      BY <3>2, <3>6 DEF WriteColumns
    <3>7. ASSUME f \in DOMAIN t.asked \ {"vpn"}, f \notin DOMAIN t.lists, f \in DOMAIN rows'[s]
          PROVE  rows'[s][f] = Value(f, t.asked[f])
      <4>1. CASE f \in DOMAIN columns
        BY <1>1, <2>2, <3>4, <3>5, <3>7, <4>1 DEF Carries
      <4>2. CASE f \notin DOMAIN columns
        BY <1>1, <2>2, <3>1, <3>4, <3>6, <3>7, <4>2 DEF Agrees
      <4> QED BY <4>1, <4>2
    <3>8. ASSUME f = "vpn", s \in Users
          PROVE  rows'[s].active \/ rows'[s].vpn # "enabled"
      <4>1. "vpn" \in DOMAIN rows[s] /\ "active" \in DOMAIN rows[s]
        BY <2>4, <3>1, <3>8
      <4>2. read.vpn = rows[s].vpn
        BY <3>3, <3>8, <4>1
      <4>3. CASE "vpn" \notin DOMAIN columns
        <5>1. rows[s].vpn = None
          BY <1>1, <3>1, <3>8, <4>3 DEF Agrees
        <5> QED BY <3>6, <3>8, <4>1, <4>3, <5>1, NoneAssumption
      <4>4. CASE "vpn" \in DOMAIN columns /\ columns.vpn = "disabled"
        <5>1. rows'[s].vpn = IF "disabled" # rows[s].vpn /\ rows[s].vpn # None
                             THEN "disabled" ELSE rows[s].vpn
          BY <3>2, <4>1, <4>2, <4>4 DEF WriteColumns, Written
        <5> QED BY <5>1, NoneAssumption
      <4>5. CASE "vpn" \in DOMAIN columns /\ columns.vpn # "disabled"
        <5>1. columns.vpn = "enabled" /\ DOMAIN columns = {"vpn"}
          BY <1>1, <4>5 DEF Carries
        <5>2. rows[s].active
          BY <1>1, <3>1, <3>8, <4>5, <5>1 DEF Agrees
        <5>3. rows'[s].active = rows[s].active
          BY <3>2, <4>1, <5>1 DEF WriteColumns
        <5> QED BY <5>2, <5>3
      <4> QED BY <4>3, <4>4, <4>5
    <3> HIDE DEF columns, read
    <3> QED BY <2>2, <3>7, <3>8 DEF Agrees
  <2>7. disturbed' = disturbed /\ t.on \subseteq DOMAIN rows'
    BY <1>1, <2>1, <2>2, <2>4
  <2> QED BY <2>1, <2>2, <2>3, <2>4, <2>5, <2>6, <2>7, CommitKeeps
<1> QED BY <1>2, <1>3

\* The list is what was asked makes of it, unless ids were left out: then it is disturbed.
LEMMA CommitListKeeps ==
  ASSUME Inv, NEW w \in Workers, CommitList(w)
  PROVE  Inv'
<1>1. /\ Handler(w) /\ Current(w) /\ DOMAIN txn[w] = DOMAIN Idle /\ txn[w].step = "lists"
      /\ txn[w].on \subseteq DOMAIN rows /\ Carries(txn[w]) /\ txn[w].on \subseteq Subjects
      /\ DOMAIN txn[w].lists # {}
  BY DEF Inv, Handlers, Currents, Formed, CommitList, At, Handler, Carries
<1>2. PICK u \in Users : txn[w].on = {u}
  BY <1>1 DEF Carries
<1>3. u = (CHOOSE x \in txn[w].on : TRUE)
  BY <1>2
<1>4. PICK field : field = FirstList(txn[w].lists)
  OBVIOUS
<1>5. PICK given, valid, ids :
        /\ given = txn[w].lists[field] /\ valid = ValidIds(field, given)
        /\ ids = {given[i] : i \in Taken(field, valid)}
  OBVIOUS
<1>6. PICK dropped : dropped = IF valid = IdsOf(given) THEN {} ELSE {field}
  OBVIOUS
<1> DEFINE left == [f \in DOMAIN txn[w].lists \ {field} |-> txn[w].lists[f]]
           t == [txn[w] EXCEPT !.lists = left, !.done = TRUE, !.contested = @ \cup dropped]
<1>7. /\ rows' = [rows EXCEPT ![u][field] = ids]
      /\ disturbed' = [disturbed EXCEPT ![u] = @ \cup dropped]
      /\ txn' = [txn EXCEPT ![w].lists = [f \in DOMAIN @ \ {field} |-> @[f]], ![w].done = TRUE,
                            ![w].contested = @ \cup dropped]
      /\ UNCHANGED <<scope, sent, logged, untold>>
  BY <1>3, <1>4, <1>5, <1>6 DEF CommitList, log
<1>8. txn' = [txn EXCEPT ![w] = t]
  BY <1>1, <1>7, FieldNames DEF Inv, Formed
<1>9. /\ DOMAIN t = DOMAIN Idle /\ t.on = txn[w].on /\ t.touches = txn[w].touches
      /\ t.contested = txn[w].contested \cup dropped /\ t.done = TRUE /\ t.step = "lists"
      /\ t.columns = txn[w].columns /\ t.lists = left /\ t.asked = txn[w].asked
      /\ t.read = txn[w].read
  BY <1>1, FieldNames
<1> HIDE DEF t
<1>10. field \in DOMAIN txn[w].lists
  BY <1>1, <1>4, FirstListIsLeft DEF Carries
<1>11. field \in ListFields /\ field \in txn[w].touches /\ txn[w].lists[field] = txn[w].asked[field]
  BY <1>1, <1>10 DEF Carries
<1>12. /\ field \notin {"vpn", "active", "deleted"} /\ field \in UserFields
       /\ {"active", "deleted", "vpn"} \subseteq UserFields
  BY <1>11, FieldNames
<1>13. /\ DOMAIN rows \subseteq Subjects /\ DOMAIN disturbed = Subjects /\ u \in DOMAIN rows
       /\ DOMAIN rows[u] = UserFields
  BY <1>1, <1>2 DEF Inv, Formed
<1>14. /\ DOMAIN rows' = DOMAIN rows /\ \A s \in DOMAIN rows : s # u => rows'[s] = rows[s]
       /\ DOMAIN rows'[u] = UserFields /\ rows'[u][field] = ids
       /\ \A f \in UserFields \ {field} : rows'[u][f] = rows[u][f]
  BY <1>7, <1>12, <1>13
<1>15. rows'[u].active = rows[u].active /\ rows'[u].vpn = rows[u].vpn
  BY <1>12, <1>14
<1>16. Carries(t)
  BY <1>1, <1>9 DEF Carries, Steps
<1>17. ASSUME NEW f \in t.touches, f \notin t.contested \/ f \notin disturbed'[u]
       PROVE  Agrees(t, rows'[u], u, f)
  <2>1. f \notin dropped /\ (f \notin txn[w].contested \/ f \notin disturbed[u])
    BY <1>7, <1>9, <1>13, <1>17
  <2>2. Agrees(txn[w], rows[u], u, f)
    BY <1>1, <1>2, <1>9, <1>13, <1>17, <2>1 DEF Current, Quiet
  <2>3. ASSUME f \in DOMAIN t.asked \ {"vpn"}, f \notin DOMAIN t.lists, f \in DOMAIN rows'[u]
        PROVE  rows'[u][f] = Value(f, t.asked[f])
    <3>1. CASE f = field
      <4>1. valid = IdsOf(given) /\ given = t.asked[f]
        BY <1>5, <1>6, <1>9, <1>11, <2>1, <3>1
      <4>2. f \in Lists
        BY <1>11, <3>1 DEF Lists
      <4> QED BY <1>5, <1>14, <3>1, <4>1, <4>2 DEF Value
    <3>2. CASE f # field
      <4>1. f \notin DOMAIN txn[w].lists
        BY <1>9, <2>3, <3>2
      <4>2. rows[u][f] = Value(f, t.asked[f])
        BY <1>1, <1>9, <1>13, <1>14, <2>2, <2>3, <4>1 DEF Agrees
      <4> QED BY <1>13, <1>14, <2>3, <3>2, <4>2
    <3> QED BY <3>1, <3>2
  <2>4. f = "vpn" => rows'[u].active \/ rows'[u].vpn # "enabled"
    BY <1>1, <1>2, <1>15, <2>2 DEF Agrees
  <2> QED BY <1>9, <2>3, <2>4 DEF Agrees
<1>18. DOMAIN disturbed' = Subjects /\ \A s \in Subjects : disturbed[s] \subseteq disturbed'[s]
  BY <1>7, <1>13
<1>19. \A s \in DOMAIN rows :
         /\ DOMAIN rows'[s] = DOMAIN rows[s]
         /\ s \notin txn[w].on => rows'[s] = rows[s]
         /\ \A f \in DOMAIN rows[s] \ txn[w].touches : rows'[s][f] = rows[s][f]
         /\ "vpn" \notin txn[w].touches /\ rows[s].active => rows'[s].active
  BY <1>2, <1>11, <1>13, <1>14, <1>15
<1>20. \A s \in t.on \cap DOMAIN rows' : \A f \in t.touches :
         f \notin t.contested \/ f \notin disturbed'[s] => Agrees(t, rows'[s], s, f)
  BY <1>2, <1>9, <1>17
<1> HIDE DEF left
<1> QED BY <1>1, <1>7, <1>8, <1>9, <1>14, <1>16, <1>18, <1>19, <1>20, CommitKeeps

\* A new row is as asked, but for the lists of a user, which are still to be written.
LEMMA InsertKeeps ==
  ASSUME Inv, NEW w \in Workers, Insert(w)
  PROVE  Inv'
<1>1. /\ Handler(w) /\ DOMAIN txn[w] = DOMAIN Idle /\ txn[w].step = "insert"
      /\ Carries(txn[w]) /\ ~txn[w].done
  BY DEF Inv, Handlers, Formed, Insert, At, Handler, Carries
<1>2. PICK s \in Subjects : txn[w].on = {s} /\ Inserts(txn[w], s)
  BY <1>1 DEF Carries
<1>3. s = (CHOOSE x \in txn[w].on : TRUE)
  BY <1>2
<1>4. CASE s \in DOMAIN rows
  <2>1. Abandon(w) /\ UNCHANGED <<scope, rows, sent, logged, untold>>
    BY <1>3, <1>4 DEF Insert, log
  <2> QED BY <1>1, <2>1, AbandonKeeps
<1>5. CASE s \notin DOMAIN rows
  <2> DEFINE step == IF s \in Users THEN "reread" ELSE "lists"
             t == [txn[w] EXCEPT !.step = step, !.done = TRUE]
  <2>1. /\ rows' = [x \in DOMAIN rows \cup {s} |->
             IF x = s THEN (IF s \in Users THEN NewUser ELSE Values(txn[w].asked)) ELSE rows[x]]
        /\ txn' = [txn EXCEPT ![w].step = step, ![w].done = TRUE]
        /\ UNCHANGED <<scope, sent, logged, untold, disturbed>>
    BY <1>3, <1>5 DEF Insert, Added, log
  <2>2. txn' = [txn EXCEPT ![w] = t]
    BY <1>1, <2>1, FieldNames DEF Inv, Formed
  <2>3. /\ DOMAIN t = DOMAIN Idle /\ t.on = txn[w].on /\ t.touches = txn[w].touches
        /\ t.contested = txn[w].contested /\ t.done = TRUE /\ t.step = step
        /\ t.columns = txn[w].columns /\ t.lists = txn[w].lists /\ t.asked = txn[w].asked
        /\ t.read = txn[w].read
    BY <1>1, FieldNames
  <2> HIDE DEF t
  <2>4. /\ DOMAIN rows \subseteq Subjects /\ DOMAIN disturbed = Subjects
        /\ DOMAIN rows' = DOMAIN rows \cup {s}
        /\ \A x \in DOMAIN rows : x # s /\ rows'[x] = rows[x]
        /\ rows'[s] = IF s \in Users THEN NewUser ELSE Values(txn[w].asked)
    BY <1>5, <2>1 DEF Inv, Formed
  <2>5. /\ s \in Users =>
             /\ DOMAIN txn[w].columns = {"active"} /\ DOMAIN txn[w].lists = ListFields
             /\ DOMAIN txn[w].asked = ListFields \cup {"active", "deleted"}
             /\ txn[w].asked.deleted = FALSE
        /\ s \notin Users => DOMAIN txn[w].asked = RoleFields /\ DOMAIN txn[w].lists = {}
    BY <1>2 DEF Inserts
  <2>6. Carries(t)
    BY <1>1, <2>3, <2>5 DEF Carries, Steps
  <2>7. /\ DOMAIN rows'[s] = IF s \in Users THEN UserFields ELSE RoleFields
        /\ s \in Users => rows'[s].active
    BY <2>4, <2>5 DEF UserFields, NewUser, Values
  <2>8. DOMAIN rows'[s] \ {"vpn"} \subseteq txn[w].touches
    BY <1>1, <2>5, <2>7, FieldNames DEF Carries
  <2>9. ASSUME NEW f \in t.touches PROVE Agrees(t, rows'[s], s, f)
    <3>1. CASE s \in Users
      <4>1. /\ rows'[s].deleted = FALSE /\ rows'[s].vpn = None
            /\ DOMAIN rows'[s] = UserFields
        BY <2>4, <3>1 DEF NewUser, UserFields
      <4>2. f \in DOMAIN t.asked \ {"vpn"} /\ f \notin DOMAIN t.lists /\ f \notin DOMAIN t.columns
              => f = "deleted"
        BY <2>3, <2>5, <3>1
      <4>3. t.step = "reread" /\ t.asked.deleted = Value("deleted", t.asked.deleted)
        BY <2>3, <3>1, ColumnValues
      <4> QED BY <2>3, <2>5, <3>1, <4>1, <4>2, <4>3 DEF Agrees
    <3>2. CASE s \notin Users
      <4>1. rows'[s] = Values(t.asked) /\ t.step = "lists"
        BY <2>3, <2>4, <3>2
      <4>2. \A g \in DOMAIN t.asked : Values(t.asked)[g] = Value(g, t.asked[g])
        BY DEF Values
      <4> QED BY <3>2, <4>1, <4>2 DEF Agrees
    <3> QED BY <3>1, <3>2
  <2>10. DOMAIN rows' \subseteq DOMAIN rows \cup txn[w].on /\ t.on \subseteq DOMAIN rows'
    BY <1>2, <2>3, <2>4
  <2>11. \A x \in DOMAIN rows' \ DOMAIN rows : x = s
    BY <2>4
  <2>12. \A x \in t.on \cap DOMAIN rows' : x = s
    BY <1>2, <2>3
  <2>13. \A u \in t.on \cap Users \cap DOMAIN rows :
           "vpn" \in t.touches => t.step = "lists" \/ rows'[u] = rows[u]
    BY <1>2, <1>5, <2>3
  <2>14. \A x \in Subjects : disturbed[x] \subseteq disturbed'[x]
    BY <2>1
  <2>15. \A x \in DOMAIN rows :
           /\ DOMAIN rows'[x] = DOMAIN rows[x]
           /\ x \notin txn[w].on => rows'[x] = rows[x]
           /\ \A f \in DOMAIN rows[x] \ txn[w].touches : rows'[x][f] = rows[x][f]
           /\ "vpn" \notin txn[w].touches /\ rows[x].active => rows'[x].active
    BY <2>4
  <2>16. \A x \in DOMAIN rows' \ DOMAIN rows :
           /\ DOMAIN rows'[x] = IF x \in Users THEN UserFields ELSE RoleFields
           /\ DOMAIN rows'[x] \ {"vpn"} \subseteq txn[w].touches
           /\ x \in Users => rows'[x].active
    BY <2>7, <2>8, <2>11
  <2>17. \A x \in t.on \cap DOMAIN rows' : \A f \in t.touches :
           f \notin t.contested \/ f \notin disturbed'[x] => Agrees(t, rows'[x], x, f)
    BY <2>9, <2>12
  <2>18. /\ txn[w].contested \subseteq t.contested /\ UNCHANGED <<scope, logged, untold>>
         /\ DOMAIN disturbed' = Subjects /\ DOMAIN rows \subseteq DOMAIN rows'
    BY <2>1, <2>3, <2>4
  <2> HIDE DEF step
  <2> QED BY <2>2, <2>3, <2>6, <2>10, <2>13, <2>14, <2>15, <2>16, <2>17, <2>18, CommitKeeps
<1> QED BY <1>4, <1>5

\* The log learns what was asked, which is what was written.
LEMMA RecordKeeps ==
  ASSUME Inv, NEW w \in Workers, Record(w)
  PROVE  Inv'
<1>1. /\ Handler(w) /\ Current(w) /\ txn[w].step = "lists" /\ DOMAIN txn[w].lists = {}
      /\ Carries(txn[w]) /\ txn[w].on \subseteq Subjects
  BY DEF Inv, Handlers, Currents, Record, At, Handler, Carries
<1> DEFINE hide == {f \in DOMAIN txn[w].asked : Hidden(f, txn[w].asked[f])}
           tell == [f \in DOMAIN txn[w].asked \ hide |-> Shown(f, txn[w].asked[f])]
           Outcome(t, hidden, told) == \E named \in SUBSET t.on :
             /\ logged' = [s \in DOMAIN logged \cup named |->
                  IF s \notin named THEN logged[s]
                  ELSE IF s \in DOMAIN logged THEN Over(told, logged[s]) ELSE told]
             /\ untold' = [s \in Subjects |->
                  IF s \in named THEN (untold[s] \ DOMAIN told) \cup hidden
                  ELSE IF s \in t.on THEN untold[s] \cup DOMAIN t.asked
                  ELSE untold[s]]
<1>2. Outcome(txn[w], hide, tell)
  BY Zenon DEF Record
<1>3. PICK t, hidden, told :
        /\ t = txn[w] /\ hidden = hide /\ told = tell
        /\ hidden = {f \in DOMAIN t.asked : Hidden(f, t.asked[f])}
        /\ told = [f \in DOMAIN t.asked \ hidden |-> Shown(f, t.asked[f])]
  OBVIOUS
<1> HIDE DEF hide, tell, Outcome
<1>4. Outcome(t, hidden, told)
  BY <1>3, <1>2
<1>5. PICK named \in SUBSET t.on :
        /\ logged' = [s \in DOMAIN logged \cup named |->
             IF s \notin named THEN logged[s]
             ELSE IF s \in DOMAIN logged THEN Over(told, logged[s]) ELSE told]
        /\ untold' = [s \in Subjects |->
             IF s \in named THEN (untold[s] \ DOMAIN told) \cup hidden
             ELSE IF s \in t.on THEN untold[s] \cup DOMAIN t.asked
             ELSE untold[s]]
  BY <1>4 DEF Outcome
<1>6. /\ UNCHANGED <<scope, rows, sent>> /\ txn' = [txn EXCEPT ![w] = Idle]
      /\ disturbed' = [s \in Subjects |->
           IF s \notin txn[w].on THEN disturbed[s]
           ELSE disturbed[s] \ (txn[w].touches \ txn[w].contested)]
  BY DEF Record, End
<1>7. /\ DOMAIN told = DOMAIN t.asked \ hidden
       /\ \A f \in DOMAIN told : told[f] = Value(f, t.asked[f])
  BY <1>3, ShownIsValue
<1>8. /\ DOMAIN disturbed' = Subjects /\ DOMAIN untold' = Subjects
      /\ \A s \in Subjects : s \notin txn[w].on => disturbed'[s] = disturbed[s]
      /\ \A s \in txn[w].on :
           disturbed[s] \ (txn[w].touches \ txn[w].contested) \subseteq disturbed'[s]
  BY <1>1, <1>5, <1>6
<1>9. DOMAIN rows \subseteq Subjects
  BY DEF Inv, Formed
<1>10. \A s \in txn[w].on \cap DOMAIN rows : \A f \in txn[w].touches :
        f \notin disturbed'[s] => Agrees(txn[w], rows[s], s, f)
  BY <1>1, <1>8 DEF Current, Quiet
<1>11. ASSUME NEW s \in DOMAIN rows, NEW f \in DOMAIN rows[s] \ {"vpn"},
             f \notin untold'[s] \cup disturbed'[s], ~Unsettled(s, f)'
      PROVE  Told(s, f)'
  <2> s \in Subjects
    BY <1>9
  <2>1. CASE s \in t.on /\ f \in t.touches
    <3>1. f \in DOMAIN t.asked
      BY <1>1, <1>3, <1>11, <2>1 DEF Carries
    <3>2. rows[s][f] = Value(f, t.asked[f])
      BY <1>1, <1>3, <1>10, <1>11, <2>1, <3>1 DEF Agrees
    <3>3. s \in named /\ f \notin hidden
      BY <1>11, <1>5, <2>1, <3>1
    <3>4. f \in DOMAIN told /\ told[f] = rows[s][f]
      BY <1>7, <3>1, <3>2, <3>3
    <3>5. s \in DOMAIN logged' /\ f \in DOMAIN logged'[s] /\ logged'[s][f] = told[f]
      <4>1. CASE s \in DOMAIN logged
        <5>1. s \in DOMAIN logged' /\ logged'[s] = Over(told, logged[s])
          BY <1>5, <3>3, <4>1
        <5> QED BY <3>4, <5>1 DEF Over
      <4>2. CASE s \notin DOMAIN logged
        BY <1>5, <3>3, <3>4, <4>2
      <4> QED BY <4>1, <4>2
    <3> QED BY <1>6, <3>4, <3>5 DEF Told
  <2>2. CASE ~(s \in t.on /\ f \in t.touches)
    <3>1. f \notin disturbed[s]
      BY <1>3, <1>8, <1>11, <2>2
    <3>2. Workers' = Workers /\ DOMAIN txn = Workers
      BY <1>6 DEF Workers, Inv, Formed
    <3>3. ~Unsettled(s, f)
      BY <1>3, <1>11, <1>6, <2>2, <3>2 DEF Unsettled
    <3>4. s \in t.on => f \notin DOMAIN t.asked
      BY <1>1, <1>3, <2>2 DEF Carries
    <3>5. f \notin untold[s]
      BY <1>11, <1>5, <1>7, <3>4
    <3>6. Told(s, f)
      BY <1>11, <3>1, <3>3, <3>5 DEF Inv, Logged
    <3>7. CASE s \notin named
      BY <1>5, <1>6, <3>6, <3>7 DEF Told
    <3>8. CASE s \in named
      <4>1. logged'[s] = Over(told, logged[s]) /\ s \in DOMAIN logged'
        BY <1>5, <3>6, <3>8 DEF Told
      <4>2. f \in DOMAIN logged[s] \ DOMAIN told /\ rows[s][f] = logged[s][f]
        BY <1>7, <3>4, <3>6, <3>8 DEF Told
      <4>3. f \in DOMAIN logged'[s] /\ logged'[s][f] = logged[s][f]
        BY <4>1, <4>2 DEF Over
      <4> QED BY <1>6, <4>1, <4>2, <4>3 DEF Told
    <3> QED BY <3>7, <3>8
  <2> QED BY <2>1, <2>2
<1>12. Logged'
  BY <1>6, <1>11 DEF Logged
<1>13. InactiveHasNoVpn'
  <2>1. ASSUME NEW u \in Users \cap DOMAIN rows, ~rows[u].active, "vpn" \notin disturbed'[u]
        PROVE  rows[u].vpn # "enabled"
    <3>1. CASE "vpn" \notin disturbed[u]
      BY <2>1, <3>1 DEF Inv, InactiveHasNoVpn
    <3>2. CASE "vpn" \in disturbed[u]
      <4>1. u \in txn[w].on /\ "vpn" \in txn[w].touches
        BY <1>8, <1>9, <2>1, <3>2
      <4>2. Agrees(txn[w], rows[u], u, "vpn")
        BY <1>10, <2>1, <4>1
      <4>3. txn[w].step = "lists" /\ u \in Users
        BY <1>1, <2>1
      <4>4. rows[u].active \/ rows[u].vpn # "enabled"
        BY <4>2, <4>3 DEF Agrees
      <4> QED BY <2>1, <4>4
    <3> QED BY <3>1, <3>2
  <2> QED BY <1>6, <2>1 DEF InactiveHasNoVpn
<1> QED BY <1>6, <1>8, <1>12, <1>13, <1>5, EndKeeps

\* What was committed and not logged is disturbed.
LEMMA FailKeeps ==
  ASSUME Inv, NEW w \in Workers, Fail(w)
  PROVE  Inv'
<1>1. CASE ~txn[w].done
  BY <1>1, AbandonKeeps DEF Fail, log
<1>2. CASE txn[w].done
  <2>1. /\ txn' = [txn EXCEPT ![w] = Idle] /\ UNCHANGED <<scope, rows, sent, logged, untold>>
        /\ disturbed' = [s \in Subjects |->
             IF s \notin txn[w].on THEN disturbed[s] ELSE disturbed[s] \cup txn[w].touches]
    BY <1>2 DEF Fail, End, log
  <2>2. DOMAIN rows \subseteq Subjects /\ txn[w].on \subseteq Subjects
    BY DEF Inv, Formed, Handlers, Handler, Carries
  <2>3. Workers' = Workers /\ DOMAIN txn = Workers
    BY <2>1 DEF Workers, Inv, Formed
  <2>4. ASSUME NEW s \in DOMAIN rows, NEW f, f \notin disturbed'[s], ~Unsettled(s, f)'
        PROVE  f \notin disturbed[s] /\ ~Unsettled(s, f)
    BY <2>1, <2>2, <2>3, <2>4 DEF Unsettled
  <2>5. Logged'
    <3>1. \A s \in DOMAIN rows : \A f \in DOMAIN rows[s] \ {"vpn"} :
            f \notin untold[s] \cup disturbed'[s] /\ ~Unsettled(s, f)' => Told(s, f)
      BY <2>4 DEF Inv, Logged
    <3> QED BY <2>1, <3>1 DEF Logged, Told
  <2>6. InactiveHasNoVpn'
    BY <2>1, <2>2 DEF Inv, InactiveHasNoVpn
  <2>7. /\ DOMAIN disturbed' = Subjects
        /\ \A s \in Subjects : s \notin txn[w].on => disturbed'[s] = disturbed[s]
        /\ \A s \in txn[w].on :
             disturbed[s] \ (txn[w].touches \ txn[w].contested) \subseteq disturbed'[s]
    BY <2>1, <2>2
  <2>8. DOMAIN untold' = Subjects
    BY <2>1 DEF Inv, Formed
  <2> QED BY <2>1, <2>5, <2>6, <2>7, <2>8, EndKeeps
<1> QED BY <1>1, <1>2

-----------------------------------------------------------------------------
(* Each request *)

\* A request about rows that are there has all it was asked still to write, reads the rows
\* as they are, and asks to delete only rows that are not deleted.
LEMMA RequestKeeps ==
  ASSUME Inv, NEW w \in Workers, NEW step \in {"reread", "columns", "lists"},
         NEW on, NEW columns, NEW lists, NEW asked, Begin(w, step, on, columns, lists, asked),
         on \subseteq DOMAIN rows, step = "lists" => DOMAIN columns = {},
         DOMAIN lists \subseteq ListFields \cap DOMAIN asked,
         \A f \in DOMAIN lists : lists[f] = asked[f],
         \A f \in DOMAIN columns \ {"vpn"} :
           f \in DOMAIN asked /\ columns[f] = Value(f, asked[f]),
         DOMAIN asked \subseteq DOMAIN lists \cup DOMAIN columns,
         DOMAIN lists # {} => \E u \in Users : on = {u},
         "deleted" \in DOMAIN asked => \A s \in on : ~rows[s].deleted,
         "vpn" \in DOMAIN columns =>
           /\ "vpn" \in Touches(asked)
           /\ \/ columns.vpn = "disabled"
              \/ /\ columns.vpn = "enabled" /\ step = "columns"
                 /\ DOMAIN columns = {"vpn"} /\ Touches(asked) = {"vpn"}
                 /\ \A s \in on : rows[s].active,
         "vpn" \in Touches(asked) /\ on \cap Users # {} => "vpn" \in DOMAIN columns
  PROVE  Inv'
<1> DEFINE t == [step |-> step, on |-> on, read |-> [s \in on \cap DOMAIN rows |-> rows[s]],
                 columns |-> columns, lists |-> lists, asked |-> asked,
                 touches |-> Touches(asked), contested |-> {}, done |-> FALSE]
<1>1. /\ t.step = step /\ t.on = on /\ t.columns = columns /\ t.lists = lists
      /\ t.asked = asked /\ t.touches = Touches(asked) /\ t.done = FALSE
      /\ t.read = [s \in on \cap DOMAIN rows |-> rows[s]]
  OBVIOUS
<1>2. t = [step |-> step, on |-> on, read |-> [s \in on \cap DOMAIN rows |-> rows[s]],
           columns |-> columns, lists |-> lists, asked |-> asked,
           touches |-> Touches(asked), contested |-> {}, done |-> FALSE]
  OBVIOUS
<1> HIDE DEF t
<1>3. /\ DOMAIN asked \subseteq Touches(asked) /\ Touches(asked) \subseteq DOMAIN asked \cup {"vpn"}
      /\ "active" \in DOMAIN asked /\ ~asked.active => "vpn" \in Touches(asked)
  BY DEF Touches, Deactivates
<1>4. Carries(t)
  <2>1. on \subseteq Subjects
    BY DEF Inv, Formed
  <2>2. DOMAIN columns \subseteq Touches(asked)
    BY <1>3
  <2>3. "active" \in DOMAIN columns /\ ~columns.active => "vpn" \in Touches(asked)
    BY <1>3, ColumnValues
  <2> QED BY <1>1, <1>3, <2>1, <2>2, <2>3 DEF Carries, Steps
<1>5. ASSUME NEW s \in on \cap DOMAIN rows, NEW f \in Touches(asked)
      PROVE  Agrees(t, rows[s], s, f)
  <2>1. f \in DOMAIN asked \/ f = "vpn"
    BY <1>3
  <2>2. f = "deleted" => ~rows[s].deleted
    BY <2>1
  <2>3. f = "vpn" /\ s \in Users => "vpn" \in DOMAIN columns
    BY <1>5
  <2>4. "vpn" \in DOMAIN columns /\ columns.vpn = "enabled" => rows[s].active
    OBVIOUS
  <2>5. t.read[s] = rows[s]
    BY <1>1
  <2>6. f \in DOMAIN asked /\ f \notin DOMAIN lists => f \in DOMAIN columns
    OBVIOUS
  <2> QED BY <1>1, <2>2, <2>3, <2>4, <2>5, <2>6 DEF Agrees
<1>6. step \in Steps \ {"idle"}
  BY DEF Steps
<1> QED BY <1>2, <1>4, <1>5, <1>6, BeginKeeps

LEMMA CreateUserKeeps ==
  ASSUME Inv, NEW w \in Workers, NEW u \in Users, NEW p \in Payloads, CreateUser(w, u, p)
  PROVE  Inv'
<1> DEFINE lists == Over(p.lists, [f \in ListFields |-> <<>>])
           active == ~Deactivates(p.columns)
           columns == [active |-> active]
           asked == Over(lists, [active |-> active, deleted |-> FALSE])
           t == [step |-> "insert", on |-> {u},
                 read |-> [s \in {u} \cap DOMAIN rows |-> rows[s]],
                 columns |-> columns, lists |-> lists, asked |-> asked,
                 touches |-> Touches(asked), contested |-> {}, done |-> FALSE]
<1>1. u \notin DOMAIN rows /\ Begin(w, "insert", {u}, columns, lists, asked)
  BY DEF CreateUser
<1>2. DOMAIN p.lists \subseteq ListFields
  BY PayloadsAssumption
<1>3. DOMAIN lists = ListFields
  BY <1>2 DEF Over
<1>4. /\ DOMAIN asked = ListFields \cup {"active", "deleted"}
      /\ \A f \in DOMAIN lists : asked[f] = lists[f]
      /\ asked.active = active /\ asked.deleted = FALSE
  <2>1. "active" \notin DOMAIN lists /\ "deleted" \notin DOMAIN lists
    BY <1>3, FieldNames
  <2> HIDE DEF lists, active
  <2> QED BY <1>3, <2>1 DEF Over
<1>5. DOMAIN columns = {"active"} /\ columns.active = active
  OBVIOUS
<1>6. /\ t.step = "insert" /\ t.on = {u} /\ t.columns = columns /\ t.lists = lists
      /\ t.asked = asked /\ t.touches = Touches(asked) /\ t.done = FALSE
  OBVIOUS
<1>7. t = [step |-> "insert", on |-> {u}, read |-> [s \in {u} \cap DOMAIN rows |-> rows[s]],
           columns |-> columns, lists |-> lists, asked |-> asked,
           touches |-> Touches(asked), contested |-> {}, done |-> FALSE]
  OBVIOUS
<1> HIDE DEF t, asked, lists, columns, active
<1>8. /\ DOMAIN asked \subseteq Touches(asked) /\ Touches(asked) \subseteq DOMAIN asked \cup {"vpn"}
      /\ ~active => "vpn" \in Touches(asked)
  BY <1>4 DEF Touches, Deactivates
<1>9. Carries(t)
  <2>1. Inserts(t, u) /\ u \in Subjects
    BY <1>3, <1>4, <1>5, <1>6 DEF Inserts, Subjects
  <2>2. columns.active = Value("active", asked.active)
    BY <1>4, <1>5, ColumnValues
  <2> QED BY <1>3, <1>4, <1>5, <1>6, <1>8, <2>1, <2>2 DEF Carries, Steps
<1>10. /\ "insert" \in Steps \ {"idle"}
       /\ \A s \in {u} \cap DOMAIN rows : \A f \in Touches(asked) : Agrees(t, rows[s], s, f)
  BY <1>1 DEF Steps
<1> QED BY <1>1, <1>7, <1>9, <1>10, BeginKeeps


LEMMA CreateRoleKeeps ==
  ASSUME Inv, NEW w \in Workers, NEW r \in Roles, NEW p \in RolePayloads, CreateRole(w, r, p)
  PROVE  Inv'
<1> DEFINE asked == Over(p, [active |-> TRUE, deleted |-> FALSE, grants |-> <<>>])
           t == [step |-> "insert", on |-> {r},
                 read |-> [s \in {r} \cap DOMAIN rows |-> rows[s]],
                 columns |-> <<>>, lists |-> <<>>, asked |-> asked,
                 touches |-> Touches(asked), contested |-> {}, done |-> FALSE]
<1>1. r \notin DOMAIN rows /\ Begin(w, "insert", {r}, <<>>, <<>>, asked)
  BY DEF CreateRole
<1>2. DOMAIN asked = RoleFields
  BY PayloadsAssumption DEF RoleFields, NewRole, Over
<1>3. /\ t.step = "insert" /\ t.on = {r} /\ t.columns = <<>> /\ t.lists = <<>>
      /\ t.asked = asked /\ t.touches = Touches(asked) /\ t.done = FALSE
  OBVIOUS
<1>4. t = [step |-> "insert", on |-> {r}, read |-> [s \in {r} \cap DOMAIN rows |-> rows[s]],
           columns |-> <<>>, lists |-> <<>>, asked |-> asked,
           touches |-> Touches(asked), contested |-> {}, done |-> FALSE]
  OBVIOUS
<1> HIDE DEF t, asked
<1>5. DOMAIN asked \subseteq Touches(asked) /\ Touches(asked) \subseteq DOMAIN asked \cup {"vpn"}
  BY DEF Touches
<1>6. Carries(t)
  <2>1. DOMAIN t.columns = {} /\ DOMAIN t.lists = {}
    BY <1>3
  <2>2. Inserts(t, r) /\ r \in Subjects
    BY <1>2, <1>3, <2>1, NamesAssumption DEF Inserts, Subjects
  <2> QED BY <1>3, <1>5, <2>1, <2>2 DEF Carries, Steps
<1>7. /\ "insert" \in Steps \ {"idle"}
      /\ \A s \in {r} \cap DOMAIN rows : \A f \in Touches(asked) : Agrees(t, rows[s], s, f)
  BY <1>1 DEF Steps
<1> QED BY <1>1, <1>4, <1>6, <1>7, BeginKeeps

\* Deactivating a user disables its account in the same request.
LEMMA UpdateUserKeeps ==
  ASSUME Inv, NEW w \in Workers, NEW u \in Users, NEW p \in Payloads, UpdateUser(w, u, p)
  PROVE  Inv'
<1> DEFINE columns == Disabling(p.columns)
           asked == Over(p.lists, p.columns)
<1>1. /\ Begin(w, "reread", {u}, columns, p.lists, asked)
      /\ {u} \subseteq DOMAIN rows /\ ~rows[u].deleted
  BY DEF UpdateUser, Changeable, Found
<1>2. DOMAIN p.lists \subseteq ListFields /\ DOMAIN p.columns \subseteq {"active", "deleted"}
  BY PayloadsAssumption
<1>3. DOMAIN p.lists \cap {"active", "deleted", "vpn"} = {}
  BY <1>2, FieldNames
<1>4. /\ DOMAIN asked = DOMAIN p.lists \cup DOMAIN p.columns
      /\ \A f \in DOMAIN p.lists : p.lists[f] = asked[f]
      /\ \A f \in DOMAIN p.columns : p.columns[f] = asked[f]
  <2>1. \A f \in DOMAIN p.columns : f \notin DOMAIN p.lists
    BY <1>2, <1>3
  <2> QED BY <2>1 DEF Over
<1> HIDE DEF asked
<1>5. Deactivates(asked) <=> Deactivates(p.columns)
  BY <1>3, <1>4 DEF Deactivates
<1>6. /\ Deactivates(p.columns) =>
           DOMAIN columns = DOMAIN p.columns \cup {"vpn"} /\ columns.vpn = "disabled"
      /\ ~Deactivates(p.columns) => DOMAIN columns = DOMAIN p.columns
      /\ \A f \in DOMAIN p.columns : columns[f] = p.columns[f]
  <2>1. "vpn" \notin DOMAIN p.columns
    BY <1>2
  <2> QED BY <2>1 DEF Disabling, Over
<1> HIDE DEF columns
<1>7. "vpn" \in Touches(asked) <=> Deactivates(p.columns)
  BY <1>2, <1>3, <1>4, <1>5 DEF Touches
<1>8. "vpn" \in DOMAIN columns => Deactivates(p.columns)
  BY <1>2, <1>6
<1>9. /\ DOMAIN columns \subseteq DOMAIN p.columns \cup {"vpn"}
      /\ DOMAIN p.columns \subseteq DOMAIN columns
  BY <1>6
<1>10. \A f \in DOMAIN columns \ {"vpn"} :
         f \in DOMAIN asked /\ columns[f] = Value(f, asked[f])
  BY <1>2, <1>4, <1>6, <1>9, ColumnValues
<1> QED BY <1>1, <1>2, <1>4, <1>6, <1>7, <1>8, <1>9, <1>10, RequestKeeps

\* A registered user is active, and the log does not tell of it; no handler is about it but
\* one that is to find the name taken.
LEMMA RegisterKeeps ==
  ASSUME Inv, NEW w \in Workers, NEW u \in Users, Register(w, u)
  PROVE  Inv'
<1>1. /\ u \notin DOMAIN rows /\ rows' = [x \in DOMAIN rows \cup {u} |->
           IF x = u THEN NewUser ELSE rows[x]]
      /\ untold' = [untold EXCEPT ![u] = DOMAIN NewUser]
      /\ UNCHANGED <<scope, txn, logged, disturbed>>
  BY DEF Register, Added
<1>2. /\ DOMAIN rows' = DOMAIN rows \cup {u} /\ rows'[u] = NewUser
      /\ \A s \in DOMAIN rows : s # u /\ rows'[s] = rows[s]
  BY <1>1
<1>3. DOMAIN untold = Subjects /\ DOMAIN rows \subseteq Subjects /\ u \in Subjects
  BY DEF Inv, Formed, Subjects
<1>4. DOMAIN NewUser = UserFields /\ NewUser.active
  BY DEF UserFields, NewUser
<1>5. Workers' = Workers
  BY <1>1 DEF Workers
<1>6. Formed'
  BY <1>1, <1>2, <1>3, <1>4, <1>5 DEF Inv, Formed
<1>7. ASSUME NEW v \in Workers PROVE Handler(v)' /\ Current(v)'
  <2>1. ASSUME NEW s, NEW f, Quiet(v, s, f)' PROVE Quiet(v, s, f)
    BY <1>1, <2>1 DEF Quiet
  <2> QED BY <1>1, <1>2, <1>7, <2>1, OthersStay
<1>8. Handlers' /\ Currents'
  BY <1>5, <1>7 DEF Handlers, Currents
<1>9. Overlaps'
  BY <1>1, <1>5 DEF Inv, Overlaps, Contested
<1>10. Logged'
  <2>1. ASSUME NEW s \in DOMAIN rows', NEW f \in DOMAIN rows'[s] \ {"vpn"},
               f \notin untold'[s] \cup disturbed'[s], ~Unsettled(s, f)'
        PROVE  Told(s, f)'
    <3>1. s # u
      BY <1>1, <1>2, <1>3, <2>1
    <3>2. s \in DOMAIN rows /\ rows'[s] = rows[s] /\ untold'[s] = untold[s]
      BY <1>1, <1>2, <1>3, <2>1, <3>1
    <3>3. Told(s, f)
      BY <1>1, <1>5, <2>1, <3>2 DEF Inv, Logged, Unsettled
    <3> QED BY <1>1, <3>2, <3>3 DEF Told
  <2> QED BY <2>1 DEF Logged
<1>11. InactiveHasNoVpn'
  BY <1>1, <1>2, <1>4 DEF Inv, InactiveHasNoVpn
<1> QED BY <1>6, <1>8, <1>9, <1>10, <1>11 DEF Inv

\* What a deletion writes.
LEMMA DeletedFields ==
  /\ DOMAIN DeletedColumns = {"deleted", "active"} /\ Deactivates(DeletedColumns)
  /\ Touches(DeletedColumns) = {"deleted", "active", "vpn"}
  /\ DOMAIN Disabling(DeletedColumns) = {"deleted", "active", "vpn"}
  /\ Disabling(DeletedColumns).vpn = "disabled"
  /\ \A f \in {"deleted", "active"} :
       /\ Disabling(DeletedColumns)[f] = DeletedColumns[f]
       /\ DeletedColumns[f] = Value(f, DeletedColumns[f])
<1>1. DOMAIN DeletedColumns = {"deleted", "active"} /\ Deactivates(DeletedColumns)
  BY DEF DeletedColumns, Deactivates
<1> QED BY <1>1, ColumnValues DEF Touches, Disabling, Over

LEMMA DeleteUsersKeeps ==
  ASSUME Inv, NEW w \in Workers, NEW us \in SUBSET Users, DeleteUsers(w, us)
  PROVE  Inv'
<1>1. /\ Begin(w, "columns", us, Disabling(DeletedColumns), <<>>, DeletedColumns)
      /\ us \subseteq DOMAIN rows /\ \A s \in us : ~rows[s].deleted
  BY DEF DeleteUsers, Changeable, Found
<1> QED BY <1>1, DeletedFields, RequestKeeps

LEMMA AssignRolesKeeps ==
  ASSUME Inv, NEW w \in Workers, NEW u \in Users, NEW lists, AssignRoles(w, u, lists)
  PROVE  Inv'
<1>1. /\ Begin(w, "lists", {u}, <<>>, lists, lists) /\ {u} \subseteq DOMAIN rows
      /\ DOMAIN lists \subseteq ListFields /\ DOMAIN lists \subseteq {"role", "scope"}
  BY FieldNames DEF AssignRoles, Changeable, Found
<1>2. "vpn" \notin Touches(lists) /\ "deleted" \notin DOMAIN lists
  BY <1>1 DEF Touches, Deactivates
<1> QED BY <1>1, <1>2, RequestKeeps

\* Only the account of an active user is enabled.
LEMMA EnableAccountKeeps ==
  ASSUME Inv, NEW w \in Workers, NEW u \in Users, EnableAccount(w, u)
  PROVE  Inv'
<1>1. PICK columns : columns = [vpn |-> "enabled"]
  OBVIOUS
<1>2. DOMAIN columns = {"vpn"} /\ columns.vpn = "enabled" /\ Touches(columns) = {"vpn"}
  BY <1>1 DEF Touches, Deactivates
<1>3. /\ Begin(w, "columns", {u}, columns, <<>>, columns)
      /\ {u} \subseteq DOMAIN rows /\ rows[u].active
  BY <1>1 DEF EnableAccount, Found
<1> QED BY <1>2, <1>3, RequestKeeps

LEMMA DisableAccountKeeps ==
  ASSUME Inv, NEW w \in Workers, NEW u \in Users, DisableAccount(w, u)
  PROVE  Inv'
<1>1. PICK columns : columns = [vpn |-> "disabled"]
  OBVIOUS
<1>2. DOMAIN columns = {"vpn"} /\ columns.vpn = "disabled" /\ Touches(columns) = {"vpn"}
  BY <1>1 DEF Touches, Deactivates
<1>3. Begin(w, "columns", {u}, columns, <<>>, columns) /\ {u} \subseteq DOMAIN rows
  BY <1>1 DEF DisableAccount
<1> QED BY <1>2, <1>3, RequestKeeps

\* Roles have no VPN account.
LEMMA UpdateRoleKeeps ==
  ASSUME Inv, NEW w \in Workers, NEW r \in Roles, NEW p \in RolePayloads, UpdateRole(w, r, p)
  PROVE  Inv'
<1>1. PICK columns : columns = Values(p)
  OBVIOUS
<1>2. /\ Begin(w, "columns", {r}, columns, <<>>, p) /\ {r} \subseteq DOMAIN rows
      /\ ~rows[r].deleted
  BY <1>1 DEF UpdateRole, Changeable, Found
<1>3. DOMAIN columns = DOMAIN p /\ \A f \in DOMAIN p : columns[f] = Value(f, p[f])
  BY <1>1 DEF Values
<1>4. "vpn" \notin DOMAIN p /\ {r} \cap Users = {}
  BY PayloadsAssumption, NamesAssumption, FieldNames DEF RoleFields
<1> QED BY <1>2, <1>3, <1>4, RequestKeeps

LEMMA DeleteRoleKeeps ==
  ASSUME Inv, NEW w \in Workers, NEW r \in Roles, DeleteRole(w, r)
  PROVE  Inv'
<1>1. /\ Begin(w, "columns", {r}, DeletedColumns, <<>>, DeletedColumns)
      /\ {r} \subseteq DOMAIN rows /\ ~rows[r].deleted
  BY DEF DeleteRole, Changeable, Found
<1>2. {r} \cap Users = {}
  BY NamesAssumption
<1> QED BY <1>1, <1>2, DeletedFields, RequestKeeps

-----------------------------------------------------------------------------
(* Every behaviour *)

LEMMA InvInit ==
  ASSUME Init PROVE Inv
<1>1. /\ scope \in Scopes /\ rows = [s \in scope.start |-> IF s \in Users THEN NewUser ELSE NewRole]
      /\ txn = [w \in Workers |-> Idle] /\ logged = rows
      /\ disturbed = [s \in Subjects |-> {}] /\ untold = [s \in Subjects |-> {}]
  BY DEF Init
<1>2. DOMAIN rows \subseteq Subjects
  BY <1>1, ScopesAssumption DEF Subjects
<1>3. \A s \in DOMAIN rows : rows[s] = IF s \in Users THEN NewUser ELSE NewRole
  BY <1>1
<1>4. Formed
  BY <1>1, <1>2, <1>3 DEF Formed, UserFields, RoleFields
<1>5. Handlers /\ Currents
  BY <1>1, IdleCarries DEF Handlers, Handler, Currents, Current
<1>6. Overlaps
  <2>1. \A v, w \in Workers : Common(txn[v], txn[w]) = {}
    BY <1>1, IdleCarries DEF Common
  <2> QED BY <2>1 DEF Overlaps, Contested
<1>7. Logged
  BY <1>1 DEF Logged, Told
<1>8. InactiveHasNoVpn
  <2>1. NewUser.active
    BY DEF NewUser
  <2> QED BY <1>3, <2>1 DEF InactiveHasNoVpn
<1> QED BY <1>4, <1>5, <1>6, <1>7, <1>8 DEF Inv

LEMMA InvStep ==
  ASSUME Inv, [Next]_vars PROVE Inv'
<1>1. CASE UNCHANGED vars
  <2>1. UNCHANGED <<scope, rows, txn, sent, logged, untold, disturbed>>
    BY <1>1 DEF vars, log
  <2>2. Formed' /\ Handlers' /\ Currents' /\ Overlaps'
    BY <2>1 DEF Inv, Formed, Handlers, Handler, Currents, Current, Quiet, Overlaps, Contested,
                Workers
  <2>3. Logged' /\ InactiveHasNoVpn'
    BY <2>1 DEF Inv, Logged, Told, Unsettled, InactiveHasNoVpn, Workers
  <2> QED BY <2>2, <2>3 DEF Inv
<1>2. ASSUME NEW w \in Workers, RequestUser(w) PROVE Inv'
  <2>1. CASE \E u \in Users, p \in Payloads : CreateUser(w, u, p) \/ UpdateUser(w, u, p)
    BY <2>1, CreateUserKeeps, UpdateUserKeeps
  <2>2. CASE \E us \in SUBSET Users : DeleteUsers(w, us)
    BY <2>2, DeleteUsersKeeps
  <2>3. CASE \E u \in Users, p \in Payloads : AssignRoles(w, u, p.lists)
    BY <2>3, AssignRolesKeeps
  <2>4. CASE \E u \in Users : Register(w, u) \/ EnableAccount(w, u) \/ DisableAccount(w, u)
    BY <2>4, RegisterKeeps, EnableAccountKeeps, DisableAccountKeeps
  <2> QED BY <1>2, <2>1, <2>2, <2>3, <2>4 DEF RequestUser
<1>3. ASSUME NEW w \in Workers, RequestRole(w) PROVE Inv'
  BY <1>3, CreateRoleKeeps, UpdateRoleKeeps, DeleteRoleKeeps DEF RequestRole
<1>4. ASSUME NEW w \in Workers, Continue(w) PROVE Inv'
  BY <1>4, InsertKeeps, RereadKeeps, CommitColumnsKeeps, CommitListKeeps, RecordKeeps DEF Continue
<1>5. ASSUME NEW w \in Workers, Fail(w) PROVE Inv'
  BY <1>5, FailKeeps
<1> QED BY <1>1, <1>2, <1>3, <1>4, <1>5 DEF Next

LEMMA InvHolds == Spec => []Inv
<1>1. Init => Inv
  BY InvInit
<1>2. Inv /\ [Next]_vars => Inv'
  BY InvStep
<1> QED BY <1>1, <1>2, PTL DEF Spec

\* The operation log tells how users and roles are (user_service.update_admin_user and the
\* others log what they were asked after committing it): whatever handlers overlap, fail or
\* leave ids out, any other field that the log tells whole has the value that the request last
\* logged gives, of a list of departments, scope or roles the first id.
THEOREM LogIsTrue == Spec => []LogTells
<1>1. Inv => LogTells
  <2>1. ASSUME Inv, NEW s \in DOMAIN rows, NEW f \in DOMAIN rows[s] \ {"vpn"},
               f \notin untold[s] \cup disturbed[s] \cup InProgress(s)
        PROVE  rows[s][f] = logged[s][f]
    <3>1. ~Unsettled(s, f)
      BY <2>1 DEF Unsettled, InProgress
    <3> QED BY <2>1, <3>1 DEF Inv, Logged, Told
  <2> QED BY <2>1 DEF LogTells
<1> QED BY <1>1, InvHolds, PTL

\* A user that is not active has no enabled VPN account (user_service.delete_user and
\* update_admin_user disable it, openvpn_service enables it for active users only), unless
\* the last request about the account overlapped another (enabling it, the one that deactivated
\* the user) or failed halfway.
THEOREM InactiveUsersAreOut == Spec => []InactiveHasNoVpn
<1>1. Inv => InactiveHasNoVpn
  BY DEF Inv
<1> QED BY <1>1, InvHolds, PTL

\* A deletion is final (the getters of base_service leave deleted rows out): only an update
\* that was being handled when the row was deleted writes its columns back.
THEOREM DeletedStaysDeleted == Spec => DeletionIsFinal
<1>1. ASSUME Inv, [Next]_vars, NEW s \in DOMAIN rows, rows[s].deleted, "deleted" \notin disturbed[s]
      PROVE  rows'[s].deleted
  <2>1. "deleted" \in DOMAIN rows[s]
    BY <1>1, FieldNames DEF Inv, Formed
  <2>2. ASSUME NEW w \in Workers, CommitColumns(w), rows' # rows PROVE rows'[s].deleted
    <3>1. /\ txn[w].step = "columns" /\ Carries(txn[w]) /\ Current(w)
          /\ rows' = [x \in DOMAIN rows |->
               IF x \in txn[w].on THEN WriteColumns(rows[x], txn[w].read[x], txn[w].columns)
               ELSE rows[x]]
      BY <1>1, <2>2 DEF CommitColumns, At, Inv, Handlers, Handler, Currents
    <3>2. CASE s \in txn[w].on
      <4>1. ASSUME "deleted" \in DOMAIN txn[w].columns PROVE FALSE
        <5>1. "deleted" \in txn[w].touches /\ Quiet(w, s, "deleted")
          BY <1>1, <3>1, <4>1 DEF Carries, Quiet
        <5>2. Agrees(txn[w], rows[s], s, "deleted")
          BY <1>1, <3>1, <3>2, <5>1 DEF Current
        <5> QED BY <1>1, <3>1, <5>2 DEF Agrees
      <4>2. rows'[s].deleted = rows[s].deleted
        BY <2>1, <3>1, <3>2, <4>1 DEF WriteColumns
      <4> QED BY <1>1, <4>2
    <3>3. CASE s \notin txn[w].on
      BY <1>1, <3>1, <3>3
    <3> QED BY <3>2, <3>3
  <2>3. ASSUME NEW w \in Workers, CommitList(w) PROVE rows'[s].deleted
    <3>1. PICK u, ids : rows' = [rows EXCEPT ![u][FirstList(txn[w].lists)] = ids]
      BY <2>3, Zenon DEF CommitList
    <3>2. FirstList(txn[w].lists) \in ListFields
      BY <1>1, <2>3, FirstListIsLeft DEF CommitList, Inv, Handlers, Handler, Carries
    <3>3. FirstList(txn[w].lists) # "deleted"
      BY <3>2, FieldNames
    <3> QED BY <1>1, <2>1, <3>1, <3>3
  <2>4. ASSUME NEW w \in Workers, Insert(w) PROVE rows'[s].deleted
    BY <1>1, <2>4 DEF Insert, Added
  <2>5. CASE rows' = rows
    BY <1>1, <2>5
  <2>6. CASE UNCHANGED vars
    BY <1>1, <2>6 DEF vars
  <2>7. ASSUME NEW w \in Workers, RequestUser(w) \/ RequestRole(w)
        PROVE  rows' = rows \/ \E u \in Users : Register(w, u)
    <3>1. \A step, on, columns, lists, asked :
            Begin(w, step, on, columns, lists, asked) => rows' = rows
      BY DEF Begin
    <3> QED BY <2>7, <3>1 DEF RequestUser, RequestRole, CreateUser, UpdateUser, DeleteUsers,
                 AssignRoles, EnableAccount, DisableAccount, CreateRole, UpdateRole, DeleteRole
  <2>8. ASSUME NEW w \in Workers, Reread(w) \/ Record(w) \/ Fail(w) PROVE rows' = rows
    BY <2>8 DEF Reread, Record, Fail
  <2>9. ASSUME NEW w \in Workers, NEW u \in Users, Register(w, u) PROVE rows'[s].deleted
    BY <1>1, <2>9 DEF Register, Added
  <2> QED BY <1>1, <2>2, <2>3, <2>4, <2>5, <2>6, <2>7, <2>8, <2>9 DEF Next, Continue
<1>2. Inv /\ [Next]_vars =>
        [\A s \in DOMAIN rows : rows[s].deleted /\ "deleted" \notin disturbed[s]
           => rows'[s].deleted]_vars
  BY <1>1
<1> QED BY <1>2, InvHolds, PTL DEF Spec, DeletionIsFinal
=============================================================================
