-------------------------- MODULE AttendanceRequests --------------------------
(***************************************************************************)
(* Attendance requests: submission, editing, withdrawal, approval and what *)
(* an approval does (src/backend/app/services/attendance_service.py).      *)
(*                                                                         *)
(* approve_request is up to three transactions: the decision, its effect   *)
(* (the correction record or the moved schedule item) and the daily results*)
(* of the days it spans.  A worker is a request handler; between two of its*)
(* transactions, and between the snapshot and the commit of each, other    *)
(* workers run.  Days stand for dates, the unit of the rebuilding loop.    *)
(***************************************************************************)
EXTENDS Integers, Sequences, FiniteSets

CONSTANTS
  Workers,         \* concurrent request handlers
  MaxRequests,     \* bound on the requests submitted
  LastDay,         \* dates are 1..LastDay
  Scopes           \* what is considered: records of the fields of scope

Days == 1..LastDay
RequestIds == 1..MaxRequests
Types == {"leave", "correction", "shift_swap"}

ASSUME BoundsAssumption == LastDay \in Nat /\ MaxRequests \in Nat
ASSUME WorkersAssumption == IsFiniteSet(Workers)
Statuses == {"pending", "approved", "rejected", "withdrawn"}
ASSUME ScopesAssumption ==
  \A s \in Scopes :
    /\ s.workers \subseteq Workers /\ s.types \subseteq Types
    /\ s.requests \in 0..MaxRequests
    /\ s.statuses \subseteq Statuses

VARIABLES
  scope,     \* the handlers at work, the types and number of requests, and the statuses
             \* an update may write; never changes
  requests,  \* attendance_requests, in order of id
  effects,   \* how often the effect of each request was committed
  failed,    \* requests approved by a worker that did not finish (history)
  seen,      \* what the approver saw of each approved request (history)
  claimed,   \* requests an update wrote the status "approved" to (history)
  daily,     \* the requests counted in the daily result of each day
  txn        \* where each worker is

vars == <<scope, requests, effects, failed, seen, claimed, daily, txn>>

-----------------------------------------------------------------------------
Content == [type : Types, start : Days, end : Days, schedule : BOOLEAN]

\* _duration_minutes: an end before the start counts for nothing.
Duration(start, end) == IF end < start THEN 0 ELSE end - start

NewRequest(c) ==
  [type |-> c.type, start |-> c.start, end |-> c.end, schedule |-> c.schedule,
   minutes |-> Duration(c.start, c.end), status |-> "pending", approver |-> FALSE]
ContentOf(r) == [type |-> r.type, start |-> r.start, end |-> r.end, schedule |-> r.schedule]

Edited(r, c, status) ==
  [NewRequest(c) EXCEPT !.status = status, !.approver = r.approver]

\* Mutant: the whole row is written.
WholeRow(now, old, new) == new
\* The ORM writes the columns whose value the handler changed, and no other.
Changed(now, old, new) == IF new = old THEN now ELSE new
Merged(now, old, new) ==
  [type |-> Changed(now.type, old.type, new.type),
   start |-> Changed(now.start, old.start, new.start),
   end |-> Changed(now.end, old.end, new.end),
   schedule |-> Changed(now.schedule, old.schedule, new.schedule),
   minutes |-> Changed(now.minutes, old.minutes, new.minutes),
   status |-> Changed(now.status, old.status, new.status),
   approver |-> Changed(now.approver, old.approver, new.approver)]

\* Mutant: pending requests count as well.
CountedUndecided(d) ==
  {i \in DOMAIN requests : /\ requests[i].status \in {"pending", "approved"}
                           /\ requests[i].start <= d + 1
                           /\ requests[i].end >= d}
\* A day's result counts the approved requests that touch the day or the next one:
\* day_end is the end of the day after work_date.
Counted(d) ==
  {i \in DOMAIN requests : /\ requests[i].status = "approved"
                           /\ requests[i].start <= d + 1
                           /\ requests[i].end >= d}

-----------------------------------------------------------------------------
(* Where a worker is: no request ("idle"), a row to insert or to update     *)
(* ("create", "write"), an approval committed ("approved"), its effect      *)
(* pending ("effect") or committed ("rebuild"), daily results to commit     *)
(* ("daily").  id is 0 when no request is being approved or written.        *)

NoRow == [type |-> "none"]
Idle == [step |-> "idle", id |-> 0, old |-> NoRow, new |-> NoRow,
         daily |-> [d \in Days |-> {}], days |-> {}]

At(w, step) == txn[w].step = step
Goto(w, step) == txn' = [txn EXCEPT ![w].step = step]
Applying(w) == txn[w].id # 0 /\ txn[w].step \in {"approved", "effect", "rebuild", "daily"}

\* The daily results of ds as they follow from what is stored now; a day that
\* already says so is not written.
Results(ds) ==
  [step |-> "daily", daily |-> [d \in Days |-> Counted(d)],
   days |-> {d \in ds : Counted(d) # daily[d]}]
ToDaily(w, ds) ==
  txn' = [txn EXCEPT ![w].step = Results(ds).step, ![w].daily = Results(ds).daily,
                     ![w].days = Results(ds).days]

Init ==
  /\ scope \in Scopes
  /\ requests = <<>>
  /\ effects = [i \in RequestIds |-> 0]
  /\ failed = {}
  /\ seen = [i \in RequestIds |-> {}]
  /\ claimed = {}
  /\ daily = [d \in Days |-> {}]
  /\ txn = [w \in Workers |-> Idle]
-----------------------------------------------------------------------------
(* Requests of employees and approvers *)

Pending == {v \in Workers : txn[v].step = "create"}
CreateRequest(w, c) ==
  /\ At(w, "idle")
  /\ Len(requests) + Cardinality(Pending) < scope.requests
  /\ txn' = [txn EXCEPT ![w].step = "create", ![w].new = NewRequest(c)]
  /\ UNCHANGED <<scope, requests, effects, failed, seen, claimed, daily>>

Write(w, i, row) ==
  txn' = [txn EXCEPT ![w].step = "write", ![w].id = i, ![w].old = requests[i],
                     ![w].new = row]

UpdateRequest(w, i, c, status) ==
  /\ At(w, "idle")
  /\ requests[i].status = "pending"
  /\ Write(w, i, Edited(requests[i], c, status))
  /\ UNCHANGED <<scope, requests, effects, failed, seen, claimed, daily>>

WithdrawRequest(w, i) ==
  /\ At(w, "idle")
  /\ requests[i].status = "pending"
  /\ Write(w, i, [requests[i] EXCEPT !.status = "withdrawn"])
  /\ UNCHANGED <<scope, requests, effects, failed, seen, claimed, daily>>

\* Mutant: only withdrawn requests are refused.
ApproveUnlessWithdrawn(w, i, status) ==
  /\ At(w, "idle")
  /\ requests[i].status # "withdrawn"
  /\ Write(w, i, [requests[i] EXCEPT !.status = status, !.approver = TRUE])
  /\ UNCHANGED <<scope, requests, effects, failed, seen, claimed, daily>>
ApproveRequest(w, i, status) ==
  /\ At(w, "idle")
  /\ requests[i].status = "pending"
  /\ Write(w, i, [requests[i] EXCEPT !.status = status, !.approver = TRUE])
  /\ UNCHANGED <<scope, requests, effects, failed, seen, claimed, daily>>

RebuildDailyResults(w, d) ==
  /\ At(w, "idle")
  /\ ToDaily(w, {d})
  /\ UNCHANGED <<scope, requests, effects, failed, seen, claimed, daily>>

-----------------------------------------------------------------------------
(* The transactions after an approval *)

\* The row is read again after the commit; what it says now is applied.
ApplyApprovedRequest(w) ==
  /\ At(w, "approved")
  /\ LET r == requests[txn[w].id]
     IN \/ /\ r.status = "approved" /\ r.type = "leave"
           /\ ToDaily(w, r.start..r.end)
        \/ /\ r.status = "approved"
           /\ r.type = "correction" \/ (r.type = "shift_swap" /\ r.schedule)
           /\ Goto(w, "effect")
        \/ /\ r.status # "approved"
           /\ txn' = [txn EXCEPT ![w] = Idle]
  /\ UNCHANGED <<scope, requests, effects, failed, seen, claimed, daily>>

\* A shift swap without a schedule item is refused after it was approved.
RefuseSwap(w) ==
  /\ At(w, "approved")
  /\ requests[txn[w].id].status = "approved"
  /\ requests[txn[w].id].type = "shift_swap" /\ ~requests[txn[w].id].schedule
  /\ failed' = failed \cup {txn[w].id}
  /\ txn' = [txn EXCEPT ![w] = Idle]
  /\ UNCHANGED <<scope, requests, effects, seen, claimed, daily>>

RebuildForRequest(w) ==
  /\ At(w, "rebuild")
  /\ ToDaily(w, requests[txn[w].id].start .. requests[txn[w].id].end)
  /\ UNCHANGED <<scope, requests, effects, failed, seen, claimed, daily>>

-----------------------------------------------------------------------------
(* The end of a transaction *)

CommitCreate(w) ==
  /\ At(w, "create")
  /\ requests' = Append(requests, txn[w].new)
  /\ txn' = [txn EXCEPT ![w] = Idle]
  /\ UNCHANGED <<scope, effects, failed, seen, claimed, daily>>

\* A decision, approval or rejection, goes on with the row as it is after the commit.
Decides(t) == t.new.approver /\ ~t.old.approver
CommitWrite(w) ==
  /\ At(w, "write")
  /\ LET t == txn[w]
     IN /\ requests' = [requests EXCEPT ![t.id] = Merged(@, t.old, t.new)]
        /\ seen' = IF Decides(t) /\ t.new.status = "approved"
                   THEN [seen EXCEPT ![t.id] = @ \cup {ContentOf(t.old)}] ELSE seen
        /\ claimed' = IF ~Decides(t) /\ t.new.status = "approved"
                      THEN claimed \cup {t.id} ELSE claimed
        /\ txn' = [txn EXCEPT ![w] =
             IF Decides(t) THEN [Idle EXCEPT !.step = "approved", !.id = t.id] ELSE Idle]
  /\ UNCHANGED <<scope, effects, failed, daily>>

CommitEffect(w) ==
  /\ At(w, "effect")
  /\ effects' = [effects EXCEPT ![txn[w].id] = @ + 1]
  /\ Goto(w, "rebuild")
  /\ UNCHANGED <<scope, requests, failed, seen, claimed, daily>>

\* Mutant: only the first day is written.
CommitFirstDay(w) ==
  /\ At(w, "daily")
  /\ daily' = [d \in Days |-> IF d \in txn[w].days /\ \A e \in txn[w].days : d <= e
                              THEN txn[w].daily[d] ELSE daily[d]]
  /\ txn' = [txn EXCEPT ![w] = Idle]
  /\ UNCHANGED <<scope, requests, effects, failed, seen, claimed>>
CommitDaily(w) ==
  /\ At(w, "daily")
  /\ daily' = [d \in Days |-> IF d \in txn[w].days THEN txn[w].daily[d] ELSE daily[d]]
  /\ txn' = [txn EXCEPT ![w] = Idle]
  /\ UNCHANGED <<scope, requests, effects, failed, seen, claimed>>

Commit(w) == CommitCreate(w) \/ CommitWrite(w) \/ CommitEffect(w) \/ CommitDaily(w)

\* A constraint, a database error or a crash ends the handler where it is.
Rollback(w) ==
  /\ ~At(w, "idle")
  /\ failed' = IF Applying(w) THEN failed \cup {txn[w].id} ELSE failed
  /\ txn' = [txn EXCEPT ![w] = Idle]
  /\ UNCHANGED <<scope, requests, effects, seen, claimed, daily>>

-----------------------------------------------------------------------------
\* Only a shift swap has use for a schedule item.
Asked == {c \in Content : c.type \in scope.types /\ (c.schedule => c.type = "shift_swap")}
Begin(w) ==
  \/ \E c \in Asked : CreateRequest(w, c)
  \/ \E i \in DOMAIN requests :
       \/ \E c \in Asked, status \in {requests[i].status} \cup scope.statuses :
            UpdateRequest(w, i, c, status)
       \/ WithdrawRequest(w, i)
       \/ \E status \in {"approved", "rejected"} : ApproveRequest(w, i, status)
  \/ \E d \in Days : RebuildDailyResults(w, d)
Continue(w) ==
  ApplyApprovedRequest(w) \/ RefuseSwap(w) \/ RebuildForRequest(w) \/ Commit(w)

Next == \E w \in scope.workers : Begin(w) \/ Continue(w) \/ Rollback(w)

Spec == Init /\ [][Next]_vars

\* A handler that is not killed runs to its end; nothing makes a user send a request.
FairSpec == Spec /\ \A w \in Workers : WF_vars(Continue(w))

-----------------------------------------------------------------------------
(* Properties *)

\* One handler works at a time.
Alone == Cardinality(scope.workers) = 1

\* A request that is decided never becomes undecided, whatever older snapshot of it
\* is written over it: approve, withdraw and update all find it decided afterwards.
DecidedIsFinal ==
  [][\A i \in DOMAIN requests :
       requests[i].status # "pending" => requests'[i].status # "pending"]_vars

\* Nothing takes effect and nothing is counted that no approver ever approved, unless an
\* update wrote the status itself (update_request writes every field it is sent).
EffectsWereApproved ==
  \A i \in DOMAIN requests :
    effects[i] > 0 \/ (\E d \in Days : i \in daily[d]) => seen[i] # {} \/ i \in claimed

\* The work of an approval is finished or given up; when finished, the effect is
\* committed and every day the request spans counts it.
Settled(i) ==
  \/ i \in failed
  \/ /\ requests[i].type # "leave" => effects[i] > 0
     /\ \A d \in requests[i].start .. requests[i].end : i \in daily[d]
ApprovalsSettle ==
  \A i \in RequestIds :
    (Alone /\ i \in DOMAIN requests /\ requests[i].status = "approved")
      ~> (i \in DOMAIN requests /\ Settled(i))

\* Handled one at a time, by updates that leave the status alone, requests keep the
\* promise of RequestDecision.
Orderly == Alone /\ scope.statuses = {}
Submitted(i) == Orderly /\ i \in DOMAIN requests
Blank == [type |-> "none"]
decisions == [i \in RequestIds |-> IF Submitted(i) THEN requests[i].status ELSE "none"]
contents == [i \in RequestIds |-> IF Submitted(i) THEN ContentOf(requests[i]) ELSE Blank]
committed == [i \in RequestIds |-> IF Orderly THEN effects[i] ELSE 0]
Promise == INSTANCE RequestDecision WITH
  Requests <- RequestIds, Contents <- Content,
  decision <- decisions, content <- contents, effects <- committed
PromiseKept == Promise!Spec
=============================================================================
