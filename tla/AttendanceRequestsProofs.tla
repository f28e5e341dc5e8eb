------------------------ MODULE AttendanceRequestsProofs ------------------------
(***************************************************************************)
(* What AttendanceRequests keeps for any number of handlers, requests and  *)
(* days: a decision is final, what takes effect or is counted was approved,*)
(* and, where requests are handled one at a time, the promise of           *)
(* RequestDecision.                                                        *)
(*                                                                         *)
(* Handlers write over rows they read long ago.  What saves the decision   *)
(* (Holds): every handler that writes read an undecided row, and only      *)
(* changed columns are written, so the status is left alone or becomes a   *)
(* decision.  What saves the effects (Backing): an approved row, a row to  *)
(* be applied and a request to be counted each have someone who approved.  *)
(*                                                                         *)
(* The refinement needs more of the one handler (Steady): the row it is    *)
(* about to write over is the one it read, it changes the content or the   *)
(* status and not both, and the request it applies has had no effect yet.  *)
(***************************************************************************)
EXTENDS AttendanceRequests, FiniteSetTheorems, TLAPS

Row == [type : Types, start : Days, end : Days, schedule : BOOLEAN,
        minutes : Int, status : Statuses, approver : BOOLEAN]

Transaction ==
  [step : {"idle", "create", "write", "approved", "effect", "rebuild", "daily"},
   id : Nat, old : Row \cup {NoRow}, new : Row \cup {NoRow},
   daily : [Days -> SUBSET Nat], days : SUBSET Days]

TypeOK ==
  /\ scope \in Scopes
  /\ requests \in Seq(Row)
  /\ effects \in [RequestIds -> Nat]
  /\ seen \in [RequestIds -> SUBSET Content]
  /\ claimed \in SUBSET Nat
  /\ daily \in [Days -> SUBSET Nat]
  /\ txn \in [Workers -> Transaction]

\* There is an identifier for every request inserted or about to be.
Bounded == Len(requests) + Cardinality(Pending) <= scope.requests

\* The requests that were approved by someone, or claimed to be.
Backed == {i \in RequestIds : seen[i] # {} \/ i \in claimed}

\* What a handler holds, when the stored requests are ids and the backed ones backed.
Holds(t, ids, backed) ==
  /\ t.step = "create" => t.new \in Row /\ t.new.status = "pending"
  /\ t.step = "write" => /\ t.id \in ids
                         /\ t.old \in Row /\ t.new \in Row
                         /\ t.old.status = "pending"
  /\ t.step \in {"approved", "effect", "rebuild"} => t.id \in ids
  /\ t.step = "effect" => t.id \in backed
  /\ \A d \in Days : t.daily[d] \subseteq backed

Holding == \A w \in Workers : Holds(txn[w], DOMAIN requests, Backed)

Backing ==
  /\ \A i \in DOMAIN requests : requests[i].status = "approved" => i \in Backed
  /\ \A d \in Days : daily[d] \subseteq Backed
  /\ \A i \in RequestIds : effects[i] > 0 => i \in Backed

Inv == TypeOK /\ Bounded /\ Holding /\ Backing

-----------------------------------------------------------------------------
(* Rows *)

LEMMA NewRequestIsRow ==
  ASSUME NEW c \in Content
  PROVE  NewRequest(c) \in Row /\ NewRequest(c).status = "pending"
  BY BoundsAssumption DEF Content, NewRequest, Row, Duration, Days, Statuses

LEMMA EditedIsRow ==
  ASSUME NEW c \in Content, NEW r \in Row, NEW status \in Statuses
  PROVE  Edited(r, c, status) \in Row
<1>1. NewRequest(c) \in Row
  BY NewRequestIsRow
<1>2. \A n \in Row : [n EXCEPT !.status = status, !.approver = r.approver] \in Row
  BY DEF Row
<1> QED  BY <1>1, <1>2 DEF Edited

LEMMA StatusIsRow ==
  ASSUME NEW r \in Row, NEW status \in Statuses
  PROVE  /\ [r EXCEPT !.status = status] \in Row
         /\ [r EXCEPT !.status = status, !.approver = TRUE] \in Row
  BY DEF Row

LEMMA ContentOfRow ==
  ASSUME NEW r \in Row
  PROVE  ContentOf(r) \in Content
  BY DEF Row, ContentOf, Content

\* A row over which a handler that read it undecided writes is a row; its status stays,
\* or becomes the decision written.
LEMMA MergedIsRow ==
  ASSUME NEW now \in Row, NEW old \in Row, NEW new \in Row, old.status = "pending"
  PROVE  /\ Merged(now, old, new) \in Row
         /\ Merged(now, old, new).status = now.status
            \/ (Merged(now, old, new).status = new.status /\ new.status # "pending")
<1>1. Merged(now, old, new).status
        = IF new.status = "pending" THEN now.status ELSE new.status
  BY DEF Merged, Changed
<1>2. Merged(now, old, new) \in Row
  BY DEF Merged, Changed, Row
<1> QED  BY <1>1, <1>2

LEMMA IdleHolds ==
  ASSUME NEW ids, NEW backed
  PROVE  Idle \in Transaction /\ Holds(Idle, ids, backed) /\ Idle.step = "idle"
  BY DEF Idle, Transaction, Holds

LEMMA HoldsStays ==
  ASSUME NEW t, NEW ids, NEW backed, NEW ids2, NEW backed2,
         Holds(t, ids, backed), ids \subseteq ids2, backed \subseteq backed2
  PROVE  Holds(t, ids2, backed2)
  BY DEF Holds

LEMMA RequestsHaveIds ==
  ASSUME Inv
  PROVE  /\ DOMAIN requests = 1..Len(requests)
         /\ DOMAIN requests \subseteq RequestIds
         /\ IsFiniteSet(Pending) /\ Cardinality(Pending) \in Nat
         /\ Len(requests) \in Nat /\ scope.requests \in 0..MaxRequests
<1>1. IsFiniteSet(Pending)
  BY WorkersAssumption, FS_Subset DEF Pending
<1>2. Cardinality(Pending) \in Nat
  BY <1>1, FS_CardinalityType
<1>3. scope.requests \in 0..MaxRequests
  BY ScopesAssumption DEF Inv, TypeOK
<1>4. DOMAIN requests = 1..Len(requests) /\ Len(requests) \in Nat
  BY DEF Inv, TypeOK
<1>5. Len(requests) <= MaxRequests
  BY <1>2, <1>3, <1>4, BoundsAssumption DEF Inv, Bounded
<1> QED  BY <1>1, <1>2, <1>3, <1>4, <1>5, BoundsAssumption DEF RequestIds

-----------------------------------------------------------------------------
(* Steps that change only where a handler is *)

LEMMA PendingAfter ==
  ASSUME Inv, NEW w \in Workers, NEW t \in Transaction, txn' = [txn EXCEPT ![w] = t]
  PROVE  /\ Cardinality(Pending') \in Nat
         /\ Cardinality(Pending') <= Cardinality(Pending) + 1
         /\ t.step # "create" => Cardinality(Pending') <= Cardinality(Pending)
         /\ t.step # "create" /\ txn[w].step = "create" =>
              Cardinality(Pending') = Cardinality(Pending) - 1
<1>0. IsFiniteSet(Pending) /\ Cardinality(Pending) \in Nat
  BY RequestsHaveIds
<1>1. Pending' = IF t.step = "create" THEN Pending \cup {w} ELSE Pending \ {w}
  BY DEF Pending, Inv, TypeOK
<1>2. /\ IsFiniteSet(Pending \cup {w})
      /\ Cardinality(Pending \cup {w})
           = IF w \in Pending THEN Cardinality(Pending) ELSE Cardinality(Pending) + 1
  BY <1>0, FS_AddElement
<1>3. /\ IsFiniteSet(Pending \ {w})
      /\ Cardinality(Pending \ {w})
           = IF w \in Pending THEN Cardinality(Pending) - 1 ELSE Cardinality(Pending)
  BY <1>0, FS_RemoveElement
<1>4. Cardinality(Pending \ {w}) \in Nat
  BY <1>3, FS_CardinalityType
<1>5. w \in Pending <=> txn[w].step = "create"
  BY DEF Pending
<1> QED  BY <1>0, <1>1, <1>2, <1>3, <1>4, <1>5

LEMMA HandlerStep ==
  ASSUME Inv, NEW w \in Workers, NEW t \in Transaction,
         Holds(t, DOMAIN requests, Backed),
         t.step = "create" => Len(requests) + Cardinality(Pending) < scope.requests,
         txn' = [txn EXCEPT ![w] = t],
         UNCHANGED <<scope, requests, effects, seen, claimed, daily>>
  PROVE  Inv'
<1>1. TypeOK'
  BY DEF Inv, TypeOK
<1>2. Bounded'
  <2>1. Len(requests) \in Nat /\ scope.requests \in Nat /\ Cardinality(Pending) \in Nat
    BY RequestsHaveIds, BoundsAssumption
  <2>2. Len(requests) + Cardinality(Pending) <= scope.requests
    BY DEF Inv, Bounded
  <2>3. /\ Cardinality(Pending') \in Nat
        /\ Cardinality(Pending') <= Cardinality(Pending) + 1
        /\ t.step # "create" => Cardinality(Pending') <= Cardinality(Pending)
    BY PendingAfter
  <2>4. Len(requests) + Cardinality(Pending') <= scope.requests
    BY <2>1, <2>2, <2>3
  <2> QED  BY <2>4 DEF Bounded
<1>3. Backed' = Backed
  BY DEF Backed
<1>4. Holding'
  BY <1>3 DEF Inv, TypeOK, Holding
<1>5. Backing'
  BY <1>3 DEF Inv, Backing
<1> QED  BY <1>1, <1>2, <1>4, <1>5 DEF Inv

LEMMA CreateKeeps ==
  ASSUME Inv, NEW w \in Workers, NEW c \in Content, CreateRequest(w, c)
  PROVE  Inv'
<1> DEFINE t == [txn[w] EXCEPT !.step = "create", !.new = NewRequest(c)]
<1>1. txn[w] \in Transaction /\ Holds(txn[w], DOMAIN requests, Backed)
  BY DEF Inv, TypeOK, Holding
<1>2. NewRequest(c) \in Row /\ NewRequest(c).status = "pending"
  BY NewRequestIsRow
<1>3. t \in Transaction
  BY <1>1, <1>2 DEF Transaction
<1>4. t.step = "create" /\ t.new = NewRequest(c) /\ t.daily = txn[w].daily
  BY <1>1 DEF Transaction
<1>5. Holds(t, DOMAIN requests, Backed)
  BY <1>1, <1>2, <1>4 DEF Holds
<1>6. txn' = [txn EXCEPT ![w] = t]
  BY DEF CreateRequest, Inv, TypeOK
<1>7. Len(requests) + Cardinality(Pending) < scope.requests
  BY DEF CreateRequest
<1>8. UNCHANGED <<scope, requests, effects, seen, claimed, daily>>
  BY DEF CreateRequest
<1> HIDE DEF t
<1> QED  BY <1>3, <1>5, <1>6, <1>7, <1>8, HandlerStep

\* Every handler that is about to write read an undecided row.
LEMMA WriteKeeps ==
  ASSUME Inv, NEW w \in Workers, NEW i \in DOMAIN requests, NEW row \in Row,
         requests[i].status = "pending", Write(w, i, row),
         UNCHANGED <<scope, requests, effects, seen, claimed, daily>>
  PROVE  Inv'
<1> DEFINE t == [txn[w] EXCEPT !.step = "write", !.id = i, !.old = requests[i], !.new = row]
<1>1. txn[w] \in Transaction /\ Holds(txn[w], DOMAIN requests, Backed)
  BY DEF Inv, TypeOK, Holding
<1>2. requests[i] \in Row /\ i \in Nat
  BY DEF Inv, TypeOK
<1>3. t \in Transaction
  BY <1>1, <1>2 DEF Transaction
<1>4. /\ t.step = "write" /\ t.id = i /\ t.old = requests[i] /\ t.new = row
      /\ t.daily = txn[w].daily
  BY <1>1 DEF Transaction
<1>5. Holds(t, DOMAIN requests, Backed)
  BY <1>1, <1>2, <1>4 DEF Holds
<1>6. txn' = [txn EXCEPT ![w] = t]
  BY DEF Write, Inv, TypeOK
<1>7. t.step # "create"
  BY <1>4
<1> HIDE DEF t
<1> QED  BY <1>3, <1>5, <1>6, <1>7, HandlerStep

LEMMA ResultsKeep ==
  ASSUME Inv, NEW w \in Workers, NEW ds \in SUBSET Days, ToDaily(w, ds),
         UNCHANGED <<scope, requests, effects, seen, claimed, daily>>
  PROVE  Inv'
<1> DEFINE t == [txn[w] EXCEPT !.step = "daily", !.daily = [d \in Days |-> Counted(d)],
                               !.days = {d \in ds : Counted(d) # daily[d]}]
<1>1. txn[w] \in Transaction /\ Holds(txn[w], DOMAIN requests, Backed)
  BY DEF Inv, TypeOK, Holding
<1>2. \A d \in Days : Counted(d) \subseteq Backed
  BY DEF Counted, Inv, Backing
<1>3. [d \in Days |-> Counted(d)] \in [Days -> SUBSET Nat]
  BY <1>2 DEF Backed, RequestIds
<1>4. t \in Transaction
  BY <1>1, <1>3 DEF Transaction
<1>5. t.step = "daily" /\ t.daily = [d \in Days |-> Counted(d)]
  BY <1>1 DEF Transaction
<1>6. Holds(t, DOMAIN requests, Backed)
  BY <1>2, <1>5 DEF Holds
<1>7. txn' = [txn EXCEPT ![w] = t]
  BY DEF ToDaily, Results, Inv, TypeOK
<1>8. t.step # "create"
  BY <1>5
<1> HIDE DEF t
<1> QED  BY <1>4, <1>6, <1>7, <1>8, HandlerStep

\* A handler that ends holds nothing.
LEMMA EndKeeps ==
  ASSUME Inv, NEW w \in Workers, txn' = [txn EXCEPT ![w] = Idle],
         UNCHANGED <<scope, requests, effects, seen, claimed, daily>>
  PROVE  Inv'
<1>1. Idle \in Transaction /\ Holds(Idle, DOMAIN requests, Backed) /\ Idle.step # "create"
  BY IdleHolds
<1> QED  BY <1>1, HandlerStep

\* Only an approved request is applied.
LEMMA ApplyKeeps ==
  ASSUME Inv, NEW w \in Workers, ApplyApprovedRequest(w)
  PROVE  Inv'
<1> DEFINE r == requests[txn[w].id]
<1>1. txn[w] \in Transaction /\ Holds(txn[w], DOMAIN requests, Backed)
  BY DEF Inv, TypeOK, Holding
<1>2. txn[w].id \in DOMAIN requests
  BY <1>1 DEF ApplyApprovedRequest, At, Holds
<1>3. r \in Row
  BY <1>2 DEF Inv, TypeOK
<1>4. UNCHANGED <<scope, requests, effects, seen, claimed, daily>>
  BY DEF ApplyApprovedRequest
<1>5. CASE ToDaily(w, r.start .. r.end)
  <2>1. r.start .. r.end \in SUBSET Days
    BY <1>3, BoundsAssumption DEF Row, Days
  <2> HIDE DEF r
  <2> QED  BY <1>4, <1>5, <2>1, ResultsKeep
<1>6. CASE r.status = "approved" /\ Goto(w, "effect")
  <2> DEFINE t == [txn[w] EXCEPT !.step = "effect"]
  <2>1. t \in Transaction
    BY <1>1 DEF Transaction
  <2>2. t.step = "effect" /\ t.id = txn[w].id /\ t.daily = txn[w].daily
    BY <1>1 DEF Transaction
  <2>3. txn[w].id \in Backed
    BY <1>2, <1>6 DEF Inv, Backing
  <2>4. Holds(t, DOMAIN requests, Backed)
    BY <1>1, <1>2, <2>2, <2>3 DEF Holds
  <2>5. txn' = [txn EXCEPT ![w] = t]
    BY <1>6 DEF Goto, Inv, TypeOK
  <2>6. t.step # "create"
    BY <2>2
  <2> HIDE DEF t
  <2> QED  BY <1>4, <2>1, <2>4, <2>5, <2>6, HandlerStep
<1>7. CASE txn' = [txn EXCEPT ![w] = Idle]
  BY <1>4, <1>7, EndKeeps
<1> QED  BY <1>5, <1>6, <1>7 DEF ApplyApprovedRequest

LEMMA RebuildKeeps ==
  ASSUME Inv, NEW w \in Workers, RebuildForRequest(w)
  PROVE  Inv'
<1> DEFINE ds == requests[txn[w].id].start .. requests[txn[w].id].end
<1>1. txn[w].id \in DOMAIN requests
  BY DEF Inv, Holding, Holds, RebuildForRequest, At
<1>2. ds \in SUBSET Days
  <2>1. requests[txn[w].id] \in Row
    BY <1>1 DEF Inv, TypeOK
  <2> QED  BY <2>1, BoundsAssumption DEF Row, Days
<1>3. ToDaily(w, ds) /\ UNCHANGED <<scope, requests, effects, seen, claimed, daily>>
  BY DEF RebuildForRequest
<1> HIDE DEF ds
<1> QED  BY <1>2, <1>3, ResultsKeep

-----------------------------------------------------------------------------
(* Commits *)

\* Whatever a commit stores, what the other handlers hold stays good.
LEMMA OthersHold ==
  ASSUME Inv, NEW w \in Workers, NEW t,
         txn' = [txn EXCEPT ![w] = t],
         DOMAIN requests \subseteq DOMAIN requests', Backed \subseteq Backed',
         Holds(t, DOMAIN requests', Backed')
  PROVE  Holding'
<1> SUFFICES ASSUME NEW v \in Workers
             PROVE  Holds(txn'[v], DOMAIN requests', Backed')
  BY DEF Holding
<1>1. CASE v = w
  BY <1>1 DEF Inv, TypeOK
<1>2. CASE v # w
  <2>1. txn'[v] = txn[v]
    BY <1>2 DEF Inv, TypeOK
  <2>2. Holds(txn[v], DOMAIN requests, Backed)
    BY DEF Inv, Holding
  <2> QED  BY <2>1, <2>2, HoldsStays
<1> QED  BY <1>1, <1>2

LEMMA CommitCreateKeeps ==
  ASSUME Inv, NEW w \in Workers, CommitCreate(w)
  PROVE  Inv' /\ \A i \in DOMAIN requests : requests'[i] = requests[i]
<1>1. txn[w].step = "create" /\ txn[w].new \in Row /\ txn[w].new.status = "pending"
  BY DEF Inv, Holding, Holds, CommitCreate, At
<1>2. Idle \in Transaction /\ Holds(Idle, DOMAIN requests', Backed') /\ Idle.step # "create"
  BY IdleHolds
<1>3. txn' = [txn EXCEPT ![w] = Idle] /\ UNCHANGED <<scope, effects, seen, claimed, daily>>
  BY DEF CommitCreate
<1>4. requests' = Append(requests, txn[w].new) /\ requests \in Seq(Row)
  BY DEF CommitCreate, Inv, TypeOK
<1>5. /\ Len(requests') = Len(requests) + 1 /\ DOMAIN requests = 1..Len(requests)
      /\ DOMAIN requests' = 1..(Len(requests) + 1)
      /\ Len(requests) \in Nat
      /\ \A i \in DOMAIN requests : requests'[i] = requests[i]
      /\ requests'[Len(requests) + 1] = txn[w].new
      /\ requests' \in Seq(Row)
  BY <1>1, <1>4
<1>6. Backed' = Backed
  BY <1>3 DEF Backed
<1>7. TypeOK'
  BY <1>2, <1>3, <1>5 DEF Inv, TypeOK
<1>8. Bounded'
  <2>1. Cardinality(Pending') = Cardinality(Pending) - 1
    BY <1>1, <1>2, <1>3, PendingAfter
  <2>2. Cardinality(Pending) \in Nat /\ scope.requests \in Nat
    BY RequestsHaveIds, BoundsAssumption
  <2>3. Len(requests) + Cardinality(Pending) <= scope.requests
    BY DEF Inv, Bounded
  <2>4. Len(requests') + Cardinality(Pending') <= scope.requests
    BY <1>5, <2>1, <2>2, <2>3
  <2> QED  BY <1>3, <2>4 DEF Bounded
<1>9. Holding'
  <2>1. DOMAIN requests \subseteq DOMAIN requests' /\ Backed \subseteq Backed'
    BY <1>5, <1>6
  <2>2. txn' = [txn EXCEPT ![w] = Idle] /\ Holds(Idle, DOMAIN requests', Backed')
    BY <1>2, <1>3
  <2> QED  BY <2>1, <2>2, OthersHold
<1>10. Backing'
  <2>1. \A i \in DOMAIN requests' : i \in DOMAIN requests \/ i = Len(requests) + 1
    BY <1>5
  <2>2. \A i \in DOMAIN requests' : requests'[i].status = "approved" => i \in Backed
    BY <1>1, <1>5, <2>1 DEF Inv, Backing
  <2> QED  BY <1>3, <1>6, <2>2 DEF Inv, Backing
<1> QED  BY <1>5, <1>7, <1>8, <1>9, <1>10 DEF Inv

LEMMA CommitEffectKeeps ==
  ASSUME Inv, NEW w \in Workers, CommitEffect(w)
  PROVE  Inv'
<1> DEFINE t == [txn[w] EXCEPT !.step = "rebuild"]
<1>1. txn[w] \in Transaction /\ Holds(txn[w], DOMAIN requests, Backed)
  BY DEF Inv, TypeOK, Holding
<1>2. txn[w].id \in DOMAIN requests /\ txn[w].id \in Backed
  BY <1>1 DEF CommitEffect, At, Holds
<1>3. /\ txn' = [txn EXCEPT ![w] = t]
      /\ UNCHANGED <<scope, requests, seen, claimed, daily>>
      /\ effects' = [effects EXCEPT ![txn[w].id] = @ + 1]
  BY DEF CommitEffect, Goto, Inv, TypeOK
<1>4. t \in Transaction
  BY <1>1 DEF Transaction
<1>5. t.step = "rebuild" /\ t.id = txn[w].id /\ t.daily = txn[w].daily
  BY <1>1 DEF Transaction
<1>6. Holds(t, DOMAIN requests, Backed) /\ t.step # "create"
  BY <1>1, <1>2, <1>5 DEF Holds
<1> HIDE DEF t
<1>7. Backed' = Backed
  BY <1>3 DEF Backed
<1>8. TypeOK'
  <2>1. effects' \in [RequestIds -> Nat]
    <3>1. \A n \in Nat : n + 1 \in Nat
      OBVIOUS
    <3> QED  BY <1>3, <3>1, Zenon DEF Inv, TypeOK
  <2>2. txn' \in [Workers -> Transaction]
    BY <1>3, <1>4 DEF Inv, TypeOK
  <2> QED  BY <1>3, <2>1, <2>2 DEF Inv, TypeOK
<1>9. Bounded'
  <2>1. /\ Cardinality(Pending') <= Cardinality(Pending)
        /\ Cardinality(Pending') \in Nat
    BY <1>3, <1>4, <1>6, PendingAfter
  <2>2. /\ Cardinality(Pending) \in Nat /\ scope.requests \in Nat
        /\ Len(requests) \in Nat
    BY RequestsHaveIds, BoundsAssumption
  <2>3. Len(requests) + Cardinality(Pending') <= scope.requests
    BY <2>1, <2>2 DEF Inv, Bounded
  <2> QED  BY <1>3, <2>3 DEF Bounded
<1>10. Holding'
  BY <1>3, <1>6, <1>7, OthersHold
<1>11. Backing'
  BY <1>2, <1>3, <1>7 DEF Inv, TypeOK, Backing
<1> QED  BY <1>8, <1>9, <1>10, <1>11 DEF Inv

LEMMA CommitDailyKeeps ==
  ASSUME Inv, NEW w \in Workers, CommitDaily(w)
  PROVE  Inv'
<1>1. txn[w] \in Transaction /\ Holds(txn[w], DOMAIN requests, Backed)
  BY DEF Inv, TypeOK, Holding
<1>2. Idle \in Transaction /\ Holds(Idle, DOMAIN requests, Backed) /\ Idle.step # "create"
  BY IdleHolds
<1>3. /\ txn' = [txn EXCEPT ![w] = Idle]
      /\ UNCHANGED <<scope, requests, seen, claimed, effects>>
      /\ daily' = [d \in Days |-> IF d \in txn[w].days THEN txn[w].daily[d] ELSE daily[d]]
  BY DEF CommitDaily
<1>4. Backed' = Backed
  BY <1>3 DEF Backed
<1>5. \A d \in Days : txn[w].daily[d] \subseteq Nat
  BY <1>1 DEF Transaction
<1>6. daily' \in [Days -> SUBSET Nat]
  BY <1>3, <1>5 DEF Inv, TypeOK
<1>7. TypeOK'
  BY <1>2, <1>3, <1>6 DEF Inv, TypeOK
<1>8. Bounded'
  <2>1. /\ Cardinality(Pending') <= Cardinality(Pending)
        /\ Cardinality(Pending') \in Nat
    BY <1>2, <1>3, PendingAfter
  <2>2. /\ Cardinality(Pending) \in Nat /\ scope.requests \in Nat
        /\ Len(requests) \in Nat
    BY RequestsHaveIds, BoundsAssumption
  <2>3. Len(requests) + Cardinality(Pending') <= scope.requests
    BY <2>1, <2>2 DEF Inv, Bounded
  <2> QED  BY <1>3, <2>3 DEF Bounded
<1>9. Holding'
  BY <1>2, <1>3, <1>4, OthersHold
<1>10. Backing'
  <2>1. \A d \in Days : daily'[d] \subseteq Backed
    BY <1>1, <1>3 DEF Holds, Inv, Backing
  <2> QED  BY <1>3, <1>4, <2>1 DEF Inv, Backing
<1> QED  BY <1>7, <1>8, <1>9, <1>10 DEF Inv

\* Only the status of the row written changes, from undecided to decided or not at all;
\* when it becomes approved, someone approved it.
LEMMA CommitWriteKeeps ==
  ASSUME Inv, NEW w \in Workers, CommitWrite(w)
  PROVE  /\ Inv'
         /\ \A i \in DOMAIN requests :
              requests[i].status # "pending" => requests'[i].status # "pending"
<1> DEFINE t == txn[w]
           row == Merged(requests[t.id], t.old, t.new)
           next == IF Decides(t) THEN [Idle EXCEPT !.step = "approved", !.id = t.id] ELSE Idle
<1>1. /\ t.id \in DOMAIN requests /\ t.old \in Row /\ t.new \in Row
      /\ t.old.status = "pending" /\ t.step = "write" /\ t \in Transaction
  BY DEF Inv, TypeOK, Holding, Holds, CommitWrite, At
<1>2. /\ requests' = [requests EXCEPT ![t.id] = row]
      /\ seen' = IF Decides(t) /\ t.new.status = "approved"
                 THEN [seen EXCEPT ![t.id] = @ \cup {ContentOf(t.old)}] ELSE seen
      /\ claimed' = IF ~Decides(t) /\ t.new.status = "approved"
                    THEN claimed \cup {t.id} ELSE claimed
      /\ txn' = [txn EXCEPT ![w] = next]
      /\ UNCHANGED <<scope, effects, daily>>
  BY DEF CommitWrite
<1>3. /\ requests[t.id] \in Row /\ t.id \in Nat
  BY <1>1 DEF Inv, TypeOK
<1>4. /\ row \in Row
      /\ row.status = requests[t.id].status
         \/ (row.status = t.new.status /\ row.status # "pending")
  BY <1>1, <1>3, MergedIsRow
<1>5. /\ next \in Transaction /\ next.step # "create"
      /\ \A ids, backed : t.id \in ids => Holds(next, ids, backed)
  BY <1>3 DEF Idle, Transaction, Holds
<1>6. ContentOf(t.old) \in Content
  BY <1>1, ContentOfRow
<1> HIDE DEF next, row
<1>7. t.id \in RequestIds
  BY <1>1, RequestsHaveIds
<1> HIDE DEF t
<1>8. /\ requests' \in Seq(Row) /\ DOMAIN requests' = DOMAIN requests
      /\ Len(requests') = Len(requests)
      /\ \A i \in DOMAIN requests :
           requests'[i] = IF i = t.id THEN row ELSE requests[i]
  BY <1>1, <1>2, <1>4 DEF Inv, TypeOK
<1>9. seen' \in [RequestIds -> SUBSET Content] /\ claimed' \in SUBSET Nat
  BY <1>2, <1>3, <1>6 DEF Inv, TypeOK
<1>10. Backed \subseteq Backed'
  BY <1>2 DEF Backed, Inv, TypeOK
<1>11. t.new.status = "approved" => t.id \in Backed'
  <2>1. CASE Decides(t)
    BY <1>2, <1>7, <2>1 DEF Backed, Inv, TypeOK
  <2>2. CASE ~Decides(t)
    BY <1>2, <1>7, <2>2 DEF Backed
  <2> QED  BY <2>1, <2>2
<1>12. TypeOK'
  <2>1. txn' \in [Workers -> Transaction]
    BY <1>2, <1>5 DEF Inv, TypeOK
  <2> QED  BY <1>2, <1>8, <1>9, <2>1 DEF Inv, TypeOK
<1>13. Bounded'
  <2>1. /\ Cardinality(Pending') <= Cardinality(Pending)
        /\ Cardinality(Pending') \in Nat
    BY <1>2, <1>5, PendingAfter
  <2>2. /\ Cardinality(Pending) \in Nat /\ scope.requests \in Nat
        /\ Len(requests) \in Nat
    BY RequestsHaveIds, BoundsAssumption
  <2>3. Len(requests) + Cardinality(Pending') <= scope.requests
    BY <2>1, <2>2 DEF Inv, Bounded
  <2> QED  BY <1>2, <1>8, <2>3 DEF Bounded
<1>14. Holding'
  <2>1. Holds(next, DOMAIN requests', Backed')
    BY <1>1, <1>5, <1>8
  <2> QED  BY <1>2, <1>8, <1>10, <2>1, OthersHold
<1>15. Backing'
  <2>1. \A i \in DOMAIN requests' : requests'[i].status = "approved" => i \in Backed'
    BY <1>4, <1>8, <1>10, <1>11 DEF Inv, Backing
  <2> QED  BY <1>2, <1>10, <2>1 DEF Inv, Backing
<1>16. \A i \in DOMAIN requests :
         requests[i].status # "pending" => requests'[i].status # "pending"
  BY <1>4, <1>8
<1> QED  BY <1>12, <1>13, <1>14, <1>15, <1>16 DEF Inv

-----------------------------------------------------------------------------
(* The theorems *)

LEMMA InitInv == Init => Inv
<1> SUFFICES ASSUME Init  PROVE Inv
  OBVIOUS
<1>1. requests = <<>> /\ Len(requests) = 0 /\ DOMAIN requests = {}
  BY DEF Init
<1>2. TypeOK
  BY <1>1, IdleHolds DEF Init, TypeOK
<1>3. Bounded
  <2>1. Pending = {}
    BY DEF Init, Pending, Idle
  <2>2. Cardinality(Pending) = 0
    BY <2>1, FS_EmptySet
  <2>3. scope.requests \in Nat
    BY <1>2, ScopesAssumption, BoundsAssumption DEF TypeOK
  <2>4. 0 + 0 <= scope.requests
    BY <2>3
  <2> QED  BY <1>1, <2>2, <2>4 DEF Bounded
<1>4. Holding
  BY IdleHolds DEF Init, Holding
<1>5. Backing
  BY <1>1 DEF Init, Backing
<1> QED  BY <1>2, <1>3, <1>4, <1>5 DEF Inv

LEMMA StepInv ==
  ASSUME Inv, [Next]_vars
  PROVE  /\ Inv'
         /\ \A i \in DOMAIN requests :
              requests[i].status # "pending" => requests'[i].status # "pending"
<1> DEFINE Final == \A i \in DOMAIN requests :
                      requests[i].status # "pending" => requests'[i].status # "pending"
<1>1. CASE UNCHANGED vars
  <2>1. Backed' = Backed /\ Pending' = Pending
    BY <1>1 DEF vars, Backed, Pending
  <2> QED  BY <1>1, <2>1 DEF vars, Inv, TypeOK, Bounded, Holding, Backing
<1>2. ASSUME NEW w \in scope.workers, Begin(w)
      PROVE  Inv' /\ Final
  <2>1. w \in Workers /\ Asked \subseteq Content /\ scope.statuses \subseteq Statuses
    BY ScopesAssumption DEF Inv, TypeOK, Asked
  <2>2. requests' = requests
    BY <1>2 DEF Begin, CreateRequest, UpdateRequest, WithdrawRequest, ApproveRequest,
                RebuildDailyResults
  <2>3. ASSUME NEW c \in Asked, CreateRequest(w, c)
        PROVE  Inv'
    BY <2>1, <2>3, CreateKeeps
  <2>4. ASSUME NEW i \in DOMAIN requests, NEW c \in Asked,
               NEW status \in {requests[i].status} \cup scope.statuses,
               UpdateRequest(w, i, c, status)
        PROVE  Inv'
    <3>1. requests[i] \in Row
      BY DEF Inv, TypeOK
    <3>2. status \in Statuses
      BY <2>1, <3>1 DEF Row
    <3>3. Edited(requests[i], c, status) \in Row
      BY <2>1, <3>1, <3>2, EditedIsRow
    <3> QED  BY <2>1, <2>4, <3>3, WriteKeeps DEF UpdateRequest
  <2>5. ASSUME NEW i \in DOMAIN requests, WithdrawRequest(w, i)
        PROVE  Inv'
    <3>1. requests[i] \in Row /\ "withdrawn" \in Statuses
      BY DEF Inv, TypeOK, Statuses
    <3>2. [requests[i] EXCEPT !.status = "withdrawn"] \in Row
      BY <3>1, StatusIsRow
    <3> QED  BY <2>1, <2>5, <3>2, WriteKeeps DEF WithdrawRequest
  <2>6. ASSUME NEW i \in DOMAIN requests, NEW status \in {"approved", "rejected"},
               ApproveRequest(w, i, status)
        PROVE  Inv'
    <3>1. requests[i] \in Row /\ status \in Statuses
      BY DEF Inv, TypeOK, Statuses
    <3>2. [requests[i] EXCEPT !.status = status, !.approver = TRUE] \in Row
      BY <3>1, StatusIsRow
    <3> QED  BY <2>1, <2>6, <3>2, WriteKeeps DEF ApproveRequest
  <2>7. ASSUME NEW d \in Days, RebuildDailyResults(w, d)
        PROVE  Inv'
    <3>1. {d} \in SUBSET Days
      OBVIOUS
    <3> QED  BY <2>1, <2>7, <3>1, ResultsKeep DEF RebuildDailyResults
  <2> QED  BY <1>2, <2>2, <2>3, <2>4, <2>5, <2>6, <2>7 DEF Begin
<1>3. ASSUME NEW w \in scope.workers, Continue(w)
      PROVE  Inv' /\ Final
  <2>1. w \in Workers
    BY ScopesAssumption DEF Inv, TypeOK
  <2>2. CASE ApplyApprovedRequest(w)
    BY <2>1, <2>2, ApplyKeeps DEF ApplyApprovedRequest
  <2>3. CASE RefuseSwap(w)
    BY <2>1, <2>3, EndKeeps DEF RefuseSwap
  <2>4. CASE RebuildForRequest(w)
    BY <2>1, <2>4, RebuildKeeps DEF RebuildForRequest
  <2>5. CASE CommitCreate(w)
    BY <2>1, <2>5, CommitCreateKeeps
  <2>6. CASE CommitWrite(w)
    BY <2>1, <2>6, CommitWriteKeeps
  <2>7. CASE CommitEffect(w)
    BY <2>1, <2>7, CommitEffectKeeps DEF CommitEffect
  <2>8. CASE CommitDaily(w)
    BY <2>1, <2>8, CommitDailyKeeps DEF CommitDaily
  <2> QED  BY <1>3, <2>2, <2>3, <2>4, <2>5, <2>6, <2>7, <2>8 DEF Continue, Commit
<1>4. ASSUME NEW w \in scope.workers, Rollback(w)
      PROVE  Inv' /\ Final
  <2>1. w \in Workers
    BY ScopesAssumption DEF Inv, TypeOK
  <2> QED  BY <1>4, <2>1, EndKeeps DEF Rollback
<1> QED  BY <1>1, <1>2, <1>3, <1>4 DEF Next

\* What handlers hold and the decisions stored keep their types and what they rest on.
LEMMA Invariant == Spec => []Inv
<1>1. Init => Inv
  BY InitInv
<1>2. Inv /\ [Next]_vars => Inv'
  BY StepInv
<1> QED  BY <1>1, <1>2, PTL DEF Spec

\* A decided request is never undecided again (update_request, withdraw_request and
\* approve_request, each over an old snapshot).
THEOREM DecisionsAreFinal == Spec => DecidedIsFinal
<1>1. Inv /\ [Next]_vars =>
        [\A i \in DOMAIN requests :
           requests[i].status # "pending" => requests'[i].status # "pending"]_vars
  BY StepInv
<1> QED  BY <1>1, Invariant, PTL DEF Spec, DecidedIsFinal

\* Nothing takes effect and no day counts a request that nobody approved
\* (_apply_approved_request, _build_daily_result).
THEOREM EffectsAreApproved == Spec => []EffectsWereApproved
<1>1. Inv => EffectsWereApproved
  <2> SUFFICES ASSUME Inv, NEW i \in DOMAIN requests,
                      effects[i] > 0 \/ (\E d \in Days : i \in daily[d])
               PROVE  seen[i] # {} \/ i \in claimed
    BY DEF EffectsWereApproved
  <2>1. i \in RequestIds
    BY RequestsHaveIds
  <2>2. i \in Backed
    BY <2>1 DEF Inv, Backing
  <2> QED  BY <2>2 DEF Backed
<1> QED  BY <1>1, Invariant, PTL

-----------------------------------------------------------------------------
(* The promise, where requests are handled one at a time *)

\* What the handler goes on with.
Steady(w) ==
  /\ At(w, "write") =>
       /\ txn[w].old = requests[txn[w].id]
       /\ \/ txn[w].new.status = "pending"
          \/ /\ txn[w].new.status \in Promise!Decisions
             /\ ContentOf(txn[w].new) = ContentOf(txn[w].old)
  /\ At(w, "approved") \/ At(w, "effect") => effects[txn[w].id] = 0
  /\ At(w, "effect") => requests[txn[w].id].status = "approved"

EffectsApproved ==
  \A i \in RequestIds : effects[i] # 0 => i \in DOMAIN requests /\ requests[i].status = "approved"

InOrder == Orderly => EffectsApproved /\ \A w \in scope.workers : Steady(w)

LEMMA OneWorker ==
  ASSUME Inv, Orderly, NEW v \in scope.workers, NEW w \in scope.workers
  PROVE  v = w
<1>1. IsFiniteSet(scope.workers)
  BY ScopesAssumption, WorkersAssumption, FS_Subset DEF Inv, TypeOK
<1>2. PICK x : scope.workers = {x}
  BY <1>1, FS_Singleton DEF Orderly, Alone
<1> QED  BY <1>2

\* The contents and the status of a row written over the one that was read.
LEMMA MergedSame ==
  ASSUME NEW old \in Row, NEW new \in Row
  PROVE  Merged(old, old, new) = new
  BY DEF Merged, Changed, Row

LEMMA MappedStays ==
  ASSUME UNCHANGED <<scope, requests, effects>>
  PROVE  UNCHANGED Promise!promised
  BY DEF Promise!promised, decisions, contents, committed, Submitted, Orderly, Alone

\* Out of order nothing is promised.
LEMMA NothingPromised ==
  ASSUME ~Orderly, UNCHANGED scope
  PROVE  UNCHANGED Promise!promised
<1>1. ~Orderly'
  BY DEF Orderly, Alone
<1> QED  BY <1>1 DEF Promise!promised, decisions, contents, committed, Submitted

LEMMA InitPromise == Init => Promise!Init /\ InOrder
<1> SUFFICES ASSUME Init  PROVE Promise!Init /\ InOrder
  OBVIOUS
<1>1. DOMAIN requests = {} /\ \A i \in RequestIds : effects[i] = 0
  BY DEF Init
<1>2. Promise!Init
  BY <1>1 DEF Promise!Init, decisions, contents, committed, Submitted
<1>3. ASSUME NEW w \in scope.workers PROVE Steady(w)
  <2>1. w \in Workers
    BY ScopesAssumption DEF Init
  <2>2. txn[w].step = "idle"
    BY <2>1 DEF Init, Idle
  <2> QED  BY <2>2 DEF Steady, At
<1> QED  BY <1>1, <1>2, <1>3 DEF InOrder, EffectsApproved

\* A step that stores nothing: it is enough that the handler is steady after it.
LEMMA HandlerInOrder ==
  ASSUME Inv, InOrder, Orderly, NEW w \in scope.workers, Steady(w)',
         UNCHANGED <<scope, requests, effects>>
  PROVE  InOrder' /\ UNCHANGED Promise!promised
<1>1. \A v \in scope.workers : v = w
  BY OneWorker
<1>2. EffectsApproved'
  BY DEF InOrder, EffectsApproved
<1>3. \A v \in scope.workers' : v = w
  BY <1>1
<1> QED  BY <1>2, <1>3, MappedStays DEF InOrder

LEMMA WriteSteady ==
  ASSUME Inv, NEW w \in scope.workers, NEW i \in DOMAIN requests, NEW row \in Row,
         Write(w, i, row), UNCHANGED <<requests, effects>>,
         row.status = "pending" \/
           (row.status \in Promise!Decisions /\ ContentOf(row) = ContentOf(requests[i]))
  PROVE  Steady(w)'
<1>1. w \in Workers
  BY ScopesAssumption DEF Inv, TypeOK
<1>2. txn[w] \in Transaction
  BY <1>1 DEF Inv, TypeOK
<1>3. txn'[w] = [txn[w] EXCEPT !.step = "write", !.id = i, !.old = requests[i], !.new = row]
  BY <1>1 DEF Write, Inv, TypeOK
<1>4. txn'[w].step = "write" /\ txn'[w].id = i /\ txn'[w].old = requests[i] /\ txn'[w].new = row
  BY <1>2, <1>3 DEF Transaction
<1> QED  BY <1>4 DEF Steady, At

LEMMA ToDailySteady ==
  ASSUME Inv, NEW w \in scope.workers, NEW ds, ToDaily(w, ds)
  PROVE  Steady(w)'
<1>1. w \in Workers
  BY ScopesAssumption DEF Inv, TypeOK
<1>2. txn[w] \in Transaction
  BY <1>1 DEF Inv, TypeOK
<1>3. txn'[w] = [txn[w] EXCEPT !.step = "daily", !.daily = [d \in Days |-> Counted(d)],
                               !.days = {d \in ds : Counted(d) # daily[d]}]
  BY <1>1 DEF ToDaily, Results, Inv, TypeOK
<1>4. txn'[w].step = "daily"
  BY <1>2, <1>3 DEF Transaction
<1> QED  BY <1>4 DEF Steady, At

LEMMA EndSteady ==
  ASSUME Inv, NEW w \in scope.workers, txn' = [txn EXCEPT ![w] = Idle]
  PROVE  Steady(w)'
<1>1. w \in Workers
  BY ScopesAssumption DEF Inv, TypeOK
<1>2. txn'[w].step = "idle"
  BY <1>1 DEF Inv, TypeOK, Idle
<1> QED  BY <1>2 DEF Steady, At

\* Requests of employees and approvers: nothing is stored, and what will be is a new
\* request, another content or a decision.
LEMMA BeginInOrder ==
  ASSUME Inv, InOrder, Orderly, NEW w \in scope.workers, Begin(w)
  PROVE  InOrder' /\ UNCHANGED Promise!promised
<1>0. w \in Workers /\ Asked \subseteq Content /\ scope.statuses = {}
  BY ScopesAssumption DEF Inv, TypeOK, Asked, Orderly
<1>1. UNCHANGED <<scope, requests, effects>>
  BY DEF Begin, CreateRequest, UpdateRequest, WithdrawRequest, ApproveRequest,
         RebuildDailyResults
<1>2. ASSUME NEW c \in Asked, CreateRequest(w, c)
      PROVE  Steady(w)'
  <2>1. txn'[w] = [txn[w] EXCEPT !.step = "create", !.new = NewRequest(c)]
    BY <1>0, <1>2 DEF CreateRequest, Inv, TypeOK
  <2>2. txn[w] \in Transaction
    BY <1>0 DEF Inv, TypeOK
  <2>3. txn'[w].step = "create"
    BY <2>1, <2>2 DEF Transaction
  <2> QED  BY <2>3 DEF Steady, At
<1>3. ASSUME NEW i \in DOMAIN requests, NEW c \in Asked,
             NEW status \in {requests[i].status} \cup scope.statuses,
             UpdateRequest(w, i, c, status)
      PROVE  Steady(w)'
  <2>1. requests[i] \in Row /\ requests[i].status = "pending" /\ status = "pending"
    BY <1>0, <1>3 DEF Inv, TypeOK, UpdateRequest
  <2>2. Edited(requests[i], c, status) \in Row
    BY <1>0, <2>1, EditedIsRow DEF Statuses
  <2>3. Edited(requests[i], c, status).status = "pending"
    BY <2>1 DEF Edited, NewRequest
  <2> QED  BY <1>1, <1>3, <2>2, <2>3, WriteSteady DEF UpdateRequest
<1>4. ASSUME NEW i \in DOMAIN requests, WithdrawRequest(w, i)
      PROVE  Steady(w)'
  <2> DEFINE row == [requests[i] EXCEPT !.status = "withdrawn"]
  <2>1. requests[i] \in Row
    BY DEF Inv, TypeOK
  <2>2. row \in Row
    BY <2>1, StatusIsRow DEF Statuses
  <2>3. row.status \in Promise!Decisions /\ ContentOf(row) = ContentOf(requests[i])
    BY <2>1 DEF Row, ContentOf, Promise!Decisions
  <2>4. Write(w, i, row)
    BY <1>4 DEF WithdrawRequest
  <2> HIDE DEF row
  <2> QED  BY <1>1, <2>2, <2>3, <2>4, WriteSteady
<1>5. ASSUME NEW i \in DOMAIN requests, NEW status \in {"approved", "rejected"},
             ApproveRequest(w, i, status)
      PROVE  Steady(w)'
  <2> DEFINE row == [requests[i] EXCEPT !.status = status, !.approver = TRUE]
  <2>1. requests[i] \in Row
    BY DEF Inv, TypeOK
  <2>2. row \in Row
    BY <2>1, StatusIsRow DEF Statuses
  <2>3. row.status \in Promise!Decisions /\ ContentOf(row) = ContentOf(requests[i])
    BY <2>1 DEF Row, ContentOf, Promise!Decisions
  <2>4. Write(w, i, row)
    BY <1>5 DEF ApproveRequest
  <2> HIDE DEF row
  <2> QED  BY <1>1, <2>2, <2>3, <2>4, WriteSteady
<1>6. ASSUME NEW d \in Days, RebuildDailyResults(w, d)
      PROVE  Steady(w)'
  BY <1>6, ToDailySteady DEF RebuildDailyResults
<1>7. Steady(w)'
  BY <1>2, <1>3, <1>4, <1>5, <1>6 DEF Begin
<1> QED  BY <1>1, <1>7, HandlerInOrder

\* The transactions after an approval: only an approved request without effect goes on.
LEMMA ApplyInOrder ==
  ASSUME Inv, InOrder, Orderly, NEW w \in scope.workers, ApplyApprovedRequest(w)
  PROVE  InOrder' /\ UNCHANGED Promise!promised
<1>0. w \in Workers /\ Steady(w) /\ UNCHANGED <<scope, requests, effects>>
  BY ScopesAssumption DEF Inv, TypeOK, InOrder, ApplyApprovedRequest
<1>1. PICK i : i = txn[w].id
  OBVIOUS
<1>2. effects[i] = 0
  BY <1>0, <1>1 DEF Steady, ApplyApprovedRequest
<1>3. CASE requests[i].status = "approved" /\ Goto(w, "effect")
  <2>1. txn[w] \in Transaction
    BY <1>0 DEF Inv, TypeOK
  <2>2. txn'[w] = [txn[w] EXCEPT !.step = "effect"]
    BY <1>0, <1>3 DEF Goto, Inv, TypeOK
  <2>3. txn'[w].step = "effect" /\ txn'[w].id = i
    BY <1>1, <2>1, <2>2 DEF Transaction
  <2>4. Steady(w)'
    BY <1>0, <1>2, <1>3, <2>3 DEF Steady, At
  <2> QED  BY <1>0, <2>4, HandlerInOrder
<1>4. CASE \E ds : ToDaily(w, ds)
  BY <1>0, <1>4, ToDailySteady, HandlerInOrder
<1>5. CASE txn' = [txn EXCEPT ![w] = Idle]
  BY <1>0, <1>5, EndSteady, HandlerInOrder
<1> QED  BY <1>1, <1>3, <1>4, <1>5 DEF ApplyApprovedRequest

\* A new request is submitted.
LEMMA CommitCreatePromise ==
  ASSUME Inv, InOrder, Orderly, NEW w \in scope.workers, CommitCreate(w)
  PROVE  InOrder' /\ Promise!Next
<1>0. w \in Workers
  BY ScopesAssumption DEF Inv, TypeOK
<1>1. txn[w].step = "create" /\ txn[w].new \in Row /\ txn[w].new.status = "pending"
  BY <1>0 DEF Inv, Holding, Holds, CommitCreate, At
<1>2. /\ requests' = Append(requests, txn[w].new) /\ txn' = [txn EXCEPT ![w] = Idle]
      /\ UNCHANGED <<scope, effects>>
  BY DEF CommitCreate
<1>3. PICK i \in Nat : i = Len(requests) + 1
  BY DEF Inv, TypeOK
<1>4. /\ DOMAIN requests' = DOMAIN requests \cup {i} /\ i \notin DOMAIN requests
      /\ \A j \in DOMAIN requests : requests'[j] = requests[j]
      /\ requests'[i] = txn[w].new
  BY <1>1, <1>2, <1>3 DEF Inv, TypeOK
<1>5. i \in RequestIds
  <2>1. w \in Pending
    BY <1>0, <1>1 DEF Pending
  <2>2. Cardinality(Pending) # 0
    BY <2>1, RequestsHaveIds, FS_EmptySet
  <2>3. /\ Len(requests) \in Nat /\ Cardinality(Pending) \in Nat
        /\ scope.requests \in 0..MaxRequests /\ MaxRequests \in Nat
    BY RequestsHaveIds, BoundsAssumption
  <2>4. Len(requests) + Cardinality(Pending) <= scope.requests
    BY DEF Inv, Bounded
  <2>5. Len(requests) + 1 <= MaxRequests
    BY <2>2, <2>3, <2>4
  <2> QED  BY <1>3, <2>3, <2>5 DEF RequestIds
<1>6. Orderly' /\ scope' = scope
  BY <1>2 DEF Orderly, Alone
<1>7. ContentOf(txn[w].new) \in Content
  BY <1>1, ContentOfRow
<1>8. Promise!Submit(i, ContentOf(txn[w].new))
  <2>1. decisions[i] = "none"
    BY <1>4, <1>5 DEF decisions, Submitted
  <2>2. decisions' = [decisions EXCEPT ![i] = "pending"]
    BY <1>1, <1>4, <1>5, <1>6 DEF decisions, Submitted
  <2>3. contents' = [contents EXCEPT ![i] = ContentOf(txn[w].new)]
    BY <1>4, <1>5, <1>6 DEF contents, Submitted
  <2>4. committed' = committed
    BY <1>2, <1>6 DEF committed
  <2> QED  BY <2>1, <2>2, <2>3, <2>4 DEF Promise!Submit
<1>9. InOrder'
  <2>1. EffectsApproved'
    BY <1>2, <1>4 DEF InOrder, EffectsApproved
  <2>2. Steady(w)'
    BY <1>2, EndSteady
  <2>3. \A v \in scope.workers' : v = w
    BY <1>6, OneWorker
  <2> QED  BY <2>1, <2>2, <2>3 DEF InOrder
<1> QED  BY <1>5, <1>7, <1>8, <1>9 DEF Promise!Next

\* An undecided request gets another content, or its decision.
LEMMA CommitWritePromise ==
  ASSUME Inv, InOrder, Orderly, NEW w \in scope.workers, CommitWrite(w)
  PROVE  InOrder' /\ Promise!Next
<1> DEFINE t == txn[w]
           next == IF Decides(t) THEN [Idle EXCEPT !.step = "approved", !.id = t.id] ELSE Idle
<1>0. w \in Workers /\ Steady(w)
  BY ScopesAssumption DEF Inv, TypeOK, InOrder
<1>1. /\ t.id \in DOMAIN requests /\ t.old \in Row /\ t.new \in Row
      /\ t.old.status = "pending" /\ t.step = "write"
  BY <1>0 DEF Inv, TypeOK, Holding, Holds, CommitWrite, At
<1>2. PICK i \in RequestIds : i = t.id
  BY <1>1, RequestsHaveIds
<1>3. /\ t.old = requests[i]
      /\ \/ t.new.status = "pending"
         \/ /\ t.new.status \in Promise!Decisions
            /\ ContentOf(t.new) = ContentOf(t.old)
  BY <1>0, <1>2 DEF Steady, CommitWrite
<1>4. /\ requests' = [requests EXCEPT ![i] = t.new] /\ txn' = [txn EXCEPT ![w] = next]
      /\ UNCHANGED <<scope, effects>>
  BY <1>1, <1>2, <1>3, MergedSame DEF CommitWrite
<1>5. next.step \in {"idle", "approved"} /\ (next.step = "approved" => next.id = i)
  BY <1>2 DEF Idle
<1> HIDE DEF next
<1>6. /\ DOMAIN requests' = DOMAIN requests /\ i \in DOMAIN requests
      /\ \A j \in DOMAIN requests : requests'[j] = IF j = i THEN t.new ELSE requests[j]
      /\ requests[i].status = "pending"
  BY <1>1, <1>2, <1>3, <1>4 DEF Inv, TypeOK
<1>7. effects[i] = 0
  BY <1>6 DEF InOrder, EffectsApproved
<1>8. Orderly' /\ scope' = scope
  BY <1>4 DEF Orderly, Alone
<1>9. InOrder'
  <2>1. EffectsApproved'
    BY <1>4, <1>6, <1>7 DEF InOrder, EffectsApproved
  <2>2. txn'[w] = next
    BY <1>0, <1>4 DEF Inv, TypeOK
  <2>3. Steady(w)'
    BY <1>4, <1>5, <1>7, <2>2 DEF Steady, At
  <2>4. \A v \in scope.workers' : v = w
    BY <1>8, OneWorker
  <2> QED  BY <2>1, <2>3, <2>4 DEF InOrder
<1>10. /\ decisions[i] = "pending"
       /\ decisions' = [decisions EXCEPT ![i] = t.new.status]
       /\ contents' = [contents EXCEPT ![i] = ContentOf(t.new)]
       /\ contents[i] = ContentOf(t.old)
       /\ committed' = committed
  <2>1. \A j \in RequestIds :
          decisions'[j] = IF j = i THEN t.new.status ELSE decisions[j]
    BY <1>6, <1>8 DEF decisions, Submitted
  <2>2. \A j \in RequestIds :
          contents'[j] = IF j = i THEN ContentOf(t.new) ELSE contents[j]
    BY <1>6, <1>8 DEF contents, Submitted
  <2>3. decisions[i] = "pending" /\ contents[i] = ContentOf(t.old)
    BY <1>3, <1>6 DEF decisions, contents, Submitted
  <2>4. committed' = committed
    BY <1>4, <1>8 DEF committed
  <2>5. decisions' = [decisions EXCEPT ![i] = t.new.status]
    BY <2>1 DEF decisions
  <2>6. contents' = [contents EXCEPT ![i] = ContentOf(t.new)]
    BY <2>2 DEF contents
  <2> QED  BY <2>3, <2>4, <2>5, <2>6
<1>11. decisions = [j \in RequestIds |-> decisions[j]] /\ contents = [j \in RequestIds |-> contents[j]]
  BY DEF decisions, contents
<1>12. CASE t.new.status = "pending"
  <2>1. decisions' = decisions
    BY <1>10, <1>11, <1>12
  <2>2. Promise!Edit(i, ContentOf(t.new))
    BY <1>10, <2>1 DEF Promise!Edit
  <2>3. ContentOf(t.new) \in Content
    BY <1>1, ContentOfRow
  <2> QED  BY <1>9, <2>2, <2>3 DEF Promise!Next
<1>13. CASE t.new.status \in Promise!Decisions /\ ContentOf(t.new) = ContentOf(t.old)
  <2>1. contents' = contents
    BY <1>10, <1>11, <1>13
  <2>2. Promise!Decide(i, t.new.status)
    BY <1>10, <2>1 DEF Promise!Decide
  <2> QED  BY <1>9, <1>13, <2>2 DEF Promise!Next
<1> QED  BY <1>3, <1>12, <1>13

\* An approval takes effect, for the first time.
LEMMA CommitEffectPromise ==
  ASSUME Inv, InOrder, Orderly, NEW w \in scope.workers, CommitEffect(w)
  PROVE  InOrder' /\ Promise!Next
<1>0. w \in Workers /\ Steady(w) /\ txn[w] \in Transaction
  BY ScopesAssumption DEF Inv, TypeOK, InOrder
<1>1. txn[w].step = "effect" /\ txn[w].id \in DOMAIN requests
  BY <1>0 DEF Inv, Holding, Holds, CommitEffect, At
<1>2. PICK i \in RequestIds : i = txn[w].id
  BY <1>1, RequestsHaveIds
<1>3. effects[i] = 0 /\ requests[i].status = "approved" /\ i \in DOMAIN requests
  BY <1>0, <1>1, <1>2 DEF Steady, At
<1>4. /\ effects' = [effects EXCEPT ![i] = 1] /\ UNCHANGED <<scope, requests>>
      /\ txn' = [txn EXCEPT ![w].step = "rebuild"]
  BY <1>2, <1>3 DEF CommitEffect, Goto, Inv, TypeOK
<1>5. txn'[w].step = "rebuild"
  BY <1>0, <1>4 DEF Inv, TypeOK, Transaction
<1>6. Orderly' /\ scope' = scope
  BY <1>4 DEF Orderly, Alone
<1>7. InOrder'
  <2>1. \A j \in RequestIds : effects'[j] = IF j = i THEN 1 ELSE effects[j]
    BY <1>4 DEF Inv, TypeOK
  <2>2. EffectsApproved'
    BY <1>3, <1>4, <2>1 DEF InOrder, EffectsApproved
  <2>3. Steady(w)'
    BY <1>5 DEF Steady, At
  <2>4. \A v \in scope.workers' : v = w
    BY <1>6, OneWorker
  <2> QED  BY <2>2, <2>3, <2>4 DEF InOrder
<1>8. Promise!TakeEffect(i)
  <2>1. decisions[i] = "approved" /\ committed[i] = 0
    BY <1>3 DEF decisions, committed, Submitted
  <2>2. decisions' = decisions /\ contents' = contents
    BY <1>4, <1>6 DEF decisions, contents, Submitted
  <2>3. committed' = [committed EXCEPT ![i] = 1]
    BY <1>4, <1>6 DEF committed, Inv, TypeOK
  <2> QED  BY <2>1, <2>2, <2>3 DEF Promise!TakeEffect
<1> QED  BY <1>7, <1>8 DEF Promise!Next

\* Every step is a step of the promise, or none it knows of.
LEMMA StepPromise ==
  ASSUME Inv, InOrder, [Next]_vars
  PROVE  InOrder' /\ [Promise!Next]_(Promise!promised)
<1>1. CASE UNCHANGED vars
  <2>1. UNCHANGED <<scope, requests, effects, txn>>
    BY <1>1 DEF vars
  <2> QED  BY <2>1, MappedStays DEF InOrder, Orderly, Alone, EffectsApproved, Steady, At
<1>2. CASE ~Orderly /\ Next
  <2>1. UNCHANGED scope
    BY <1>2 DEF Next, Begin, CreateRequest, UpdateRequest, WithdrawRequest, ApproveRequest,
                RebuildDailyResults, Continue, ApplyApprovedRequest, RefuseSwap,
                RebuildForRequest, Commit, CommitCreate, CommitWrite, CommitEffect,
                CommitDaily, Rollback
  <2>2. ~Orderly'
    BY <1>2, <2>1 DEF Orderly, Alone
  <2> QED  BY <1>2, <2>1, <2>2, NothingPromised DEF InOrder
<1>3. CASE Orderly /\ Next
  <2>1. PICK w \in scope.workers : Begin(w) \/ Continue(w) \/ Rollback(w)
    BY <1>3 DEF Next
  <2>2. CASE Begin(w)
    BY <1>3, <2>2, BeginInOrder
  <2>3. CASE ApplyApprovedRequest(w)
    BY <1>3, <2>3, ApplyInOrder
  <2>4. CASE RefuseSwap(w) \/ CommitDaily(w) \/ Rollback(w)
    <3>1. txn' = [txn EXCEPT ![w] = Idle] /\ UNCHANGED <<scope, requests, effects>>
      BY <2>4 DEF RefuseSwap, CommitDaily, Rollback
    <3>2. Steady(w)'
      BY <3>1, EndSteady
    <3> QED  BY <1>3, <3>1, <3>2, HandlerInOrder
  <2>5. CASE RebuildForRequest(w)
    <3>1. \E ds : ToDaily(w, ds)
      BY <2>5 DEF RebuildForRequest
    <3>2. UNCHANGED <<scope, requests, effects>>
      BY <2>5 DEF RebuildForRequest
    <3> QED  BY <1>3, <3>1, <3>2, ToDailySteady, HandlerInOrder
  <2>6. CASE CommitCreate(w)
    BY <1>3, <2>6, CommitCreatePromise
  <2>7. CASE CommitWrite(w)
    BY <1>3, <2>7, CommitWritePromise
  <2>8. CASE CommitEffect(w)
    BY <1>3, <2>8, CommitEffectPromise
  <2> QED  BY <2>1, <2>2, <2>3, <2>4, <2>5, <2>6, <2>7, <2>8 DEF Continue, Commit
<1> QED  BY <1>1, <1>2, <1>3

\* Handled one at a time, by updates that leave the status alone, attendance requests
\* implement RequestDecision, whatever fails between the transactions of an approval: a
\* request changes until it is decided, is decided once, and takes effect at most once
\* with what was approved (update_request, withdraw_request, approve_request,
\* _apply_approved_request).
THEOREM RequestsKeepThePromise == Spec => PromiseKept
<1>1. Init => Promise!Init /\ InOrder
  BY InitPromise
<1>2. Inv /\ InOrder /\ [Next]_vars => InOrder' /\ [Promise!Next]_(Promise!promised)
  BY StepPromise
<1> QED  BY <1>1, <1>2, Invariant, PTL DEF Spec, PromiseKept, Promise!Spec
=============================================================================
