--------------------------- MODULE AttendanceResults ---------------------------
(***************************************************************************)
(* From schedules, clock records and approved requests to daily results and*)
(* monthly summaries (src/backend/app/services/attendance_service.py).     *)
(*                                                                         *)
(* One handler at a time: an action is a whole request.  How concurrent    *)
(* requests and approvals interleave is the subject of AttendanceRequests. *)
(* Time is counted in units, DayLength of them to the day, from the start  *)
(* of day 0; the days of a scope belong to one month.                      *)
(***************************************************************************)
EXTENDS Integers, Sequences, FiniteSets, SequencesExt, FiniteSetsExt

CONSTANTS
  Users,
  DayLength,
  Scopes  \* the workplaces considered: records of the fields below

ASSUME ClockAssumption == DayLength \in Nat \ {0}
ASSUME UsersAssumption == IsFiniteSet(Users)
Hours == [start : Nat, end : Nat, cross : BOOLEAN, flexible : Nat,
          lateAllowed : Nat, earlyAllowed : Nat]
ASSUME ScopesAssumption ==
  \A s \in Scopes :
    /\ s.hours \subseteq Hours /\ s.lastDay \in Nat
    /\ s.spans \subseteq Nat \X Nat /\ \A p \in s.spans : p[1] <= p[2]
    /\ s.times \subseteq Nat /\ s.minutes \subseteq Nat
    /\ s.clock \subseteq {"checkin", "checkout"}
    /\ s.requests \subseteq {"leave", "overtime", "rest", "business_trip", "outing",
                             "correction", "shift_swap"}
    /\ s.maxSchedules \in Nat /\ s.maxRecords \in Nat /\ s.maxRequests \in Nat

VARIABLES
  scope,      \* what happens in this behaviour; never changes
  shifts,     \* attendance_shifts
  schedules,  \* attendance_schedule_items, in order of id
  records,    \* attendance_records, in order of id
  approved,   \* the approved attendance_requests, in order of approval
  daily,      \* attendance_daily_results
  monthly     \* attendance_monthly_summaries of the month

vars == <<scope, shifts, schedules, records, approved, daily, monthly>>

Shifts == scope.shifts
ShiftRows == scope.hours        \* the working hours a shift may be given
RestDays == scope.rest          \* <<user, day>> pairs an active rest rule matches
RecordTimes == scope.times      \* when employees clock in or out
RecordTypes == scope.clock
GivenMinutes == scope.minutes   \* what a payload may say of late and early minutes
RequestTypes == scope.requests  \* types of the requests approved
RequestSpans == scope.spans     \* <<start, end>> times requests are about
ReportUsers == scope.reports    \* users whose monthly report is rebuilt
MaxSchedules == scope.maxSchedules  \* bounds on the rows ever inserted
MaxRecords == scope.maxRecords
MaxRequests == scope.maxRequests
Days == 0..scope.lastDay

Gone == [gone |-> TRUE]     \* a deleted row
NoMonth == [none |-> TRUE]  \* no summary yet
NoTime == -1                \* a missing check-in or check-out time

ScheduleIds == {i \in DOMAIN schedules : schedules[i] # Gone}
RecordIds == {i \in DOMAIN records : records[i] # Gone}
DayOf(t) == t \div DayLength
KeyOf(s) == <<s.user, s.day, s.shift>>

-----------------------------------------------------------------------------
(* Lateness of a record *)

AtLeastZero(n) == IF n < 0 THEN 0 ELSE n

ShiftStart(row, day) == day * DayLength + row.start
ShiftEnd(row, day) == (IF row.cross THEN day + 1 ELSE day) * DayLength + row.end

LateMinutes(row, day, t) ==
  AtLeastZero(t - (ShiftStart(row, day) + row.lateAllowed + row.flexible))
EarlyLeaveMinutes(row, day, t) ==
  AtLeastZero(ShiftEnd(row, day) - row.earlyAllowed - t)

\* A record belongs to the day of its schedule item, or to the day it was made.
WorkDate(r) == IF r.schedule \in ScheduleIds THEN schedules[r.schedule].day ELSE DayOf(r.time)
\* _apply_record_status: corrections and records without a shift stay as they are.
WithStatus(r) ==
  IF r.shift = {} THEN r
  ELSE LET row == shifts[CHOOSE sh \in r.shift : TRUE]
       IN CASE r.type = "checkin" -> [r EXCEPT !.late = LateMinutes(row, WorkDate(r), r.time)]
            [] r.type = "checkout" ->
                 [r EXCEPT !.early = EarlyLeaveMinutes(row, WorkDate(r), r.time)]
            [] OTHER -> r
NewRecord(u, schedule, shift, type, t) ==
  [user |-> u, schedule |-> schedule, shift |-> shift, type |-> type, time |-> t,
   late |-> 0, early |-> 0]

-----------------------------------------------------------------------------
(* The result of a schedule item *)

DayStart(d) == d * DayLength
DayEnd(d) == (d + 2) * DayLength - 1  \* the last instant of the day after

\* Mutant: only the records made for the schedule item count.
RecordsForItem(i, rs) ==
  {n \in DOMAIN rs : rs[n] # Gone /\ rs[n].user = schedules[i].user /\ rs[n].schedule = i}
RecordsOf(i, rs) ==
  {n \in DOMAIN rs : /\ rs[n] # Gone
                     /\ rs[n].user = schedules[i].user
                     /\ rs[n].time \in DayStart(schedules[i].day)..DayEnd(schedules[i].day)
                     /\ rs[n].schedule = i \/ rs[n].shift = {schedules[i].shift}}
RequestsOf(i) ==
  {n \in DOMAIN approved : /\ approved[n].user = schedules[i].user
                           /\ approved[n].start <= DayEnd(schedules[i].day)
                           /\ approved[n].end >= DayStart(schedules[i].day)}

\* The earliest check-in and the latest check-out; corrections count as check-ins.
CheckIns(ns) == {n \in ns : records[n].type \in {"checkin", "correction"}}
CheckOuts(ns) == {n \in ns : records[n].type = "checkout"}
Earliest(ns) ==
  {n \in ns : \A m \in ns : /\ records[n].time <= records[m].time
                            /\ records[n].time = records[m].time => n <= m}
Latest(ns) ==
  {n \in ns : \A m \in ns : /\ records[n].time >= records[m].time
                            /\ records[n].time = records[m].time => n <= m}

TimeOf(ns) == IF ns = {} THEN NoTime ELSE records[CHOOSE n \in ns : TRUE].time
MinutesOf(ns, types) ==
  MapThenSumSet(LAMBDA n : approved[n].end - approved[n].start,
                {n \in ns : approved[n].type \in types})
Has(ns, type) == \E n \in ns : approved[n].type = type

\* Rest and a business trip excuse missing records; an outing does not.
RestDay(i) == <<schedules[i].user, schedules[i].day>> \in RestDays \/ Has(RequestsOf(i), "rest")
Excused(i) == RestDay(i) \/ Has(RequestsOf(i), "business_trip")
Occasion(i, missIn, missOut) ==
  IF RestDay(i) THEN "rest"
  ELSE IF Has(RequestsOf(i), "business_trip") THEN "business_trip"
  ELSE IF Has(RequestsOf(i), "outing") THEN "outing"
  ELSE IF missIn \/ missOut THEN "missing" ELSE "normal"
StatusOf(i, missIn, missOut, leave) ==
  IF leave > 0 THEN "leave"
  ELSE IF missIn /\ missOut THEN "absent" ELSE Occasion(i, missIn, missOut)

\* _build_daily_result
DailyResult(i) ==
  LET ns == RecordsOf(i, records)
      in == Earliest(CheckIns(ns))
      out == Latest(CheckOuts(ns))
      leave == MinutesOf(RequestsOf(i), {"leave"})
      missIn == in = {} /\ ~Excused(i)
      missOut == out = {} /\ ~Excused(i)
  IN [key |-> KeyOf(schedules[i]),
      in |-> TimeOf(in), out |-> TimeOf(out),
      status |-> StatusOf(i, missIn, missOut, leave),
      late |-> IF in = {} THEN 0 ELSE records[CHOOSE n \in in : TRUE].late,
      early |-> IF out = {} THEN 0 ELSE records[CHOOSE n \in out : TRUE].early,
      leave |-> leave,
      overtime |-> MinutesOf(RequestsOf(i), {"overtime"}),
      work |-> IF in = {} \/ out = {} THEN 0 ELSE AtLeastZero(TimeOf(out) - TimeOf(in)),
      missIn |-> missIn, missOut |-> missOut]

\* The rows of schedule items are replaced, every other row stays.
WithResults(rows, results) ==
  {r \in rows : \A q \in results : q.key # r.key} \cup results
SchedulesOf(u, days) ==
  {i \in ScheduleIds : schedules[i].user = u /\ schedules[i].day \in days}

\* Mutant: absences are attended.
AttendedOrAbsent == {"normal", "outing", "business_trip", "absent"}
Attended == {"normal", "outing", "business_trip"}
\* _upsert_monthly_summary
MonthlySummary(rows) ==
  [work |-> Cardinality(rows),
   attendance |-> Cardinality({r \in rows : r.status \in Attended}),
   rest |-> Cardinality({r \in rows : r.status = "rest"}),
   late |-> Cardinality({r \in rows : r.late > 0}),
   early |-> Cardinality({r \in rows : r.early > 0}),
   missing |-> Cardinality({r \in rows : r.missIn \/ r.missOut}),
   absent |-> Cardinality({r \in rows : r.status = "absent"}),
   leave |-> MapThenSumSet(LAMBDA r : r.leave, rows),
   overtime |-> MapThenSumSet(LAMBDA r : r.overtime, rows),
   trips |-> Cardinality({r \in rows : r.status = "business_trip"})]
ResultsOf(u) == {r \in daily : r.key[1] = u}

-----------------------------------------------------------------------------
Init ==
  /\ scope \in Scopes
  /\ shifts \in [Shifts -> ShiftRows]
  /\ schedules = <<>> /\ records = <<>> /\ approved = <<>>
  /\ daily = {}
  /\ monthly = [u \in Users |-> NoMonth]

UpdateShift(sh, row) ==
  /\ row # shifts[sh]
  /\ shifts' = [shifts EXCEPT ![sh] = row]
  /\ UNCHANGED <<scope, schedules, records, approved, daily, monthly>>

\* uq_attendance_schedule_user_date_shift
TakenKeys(but) == {KeyOf(schedules[i]) : i \in ScheduleIds \ but}

\* Every user gets every day of the range, or the request fails as a whole.
CreateSchedules(us, sh, from, to) ==
  LET rows == SetToSeq({[user |-> u, shift |-> sh, day |-> d] : u \in us, d \in from..to})
  IN /\ us # {} /\ from <= to
     /\ Len(schedules) + Len(rows) <= MaxSchedules
     /\ \A n \in DOMAIN rows : KeyOf(rows[n]) \notin TakenKeys({})
     /\ schedules' = schedules \o rows
     /\ UNCHANGED <<scope, shifts, records, approved, daily, monthly>>

UpdateSchedule(i, u, sh, d) ==
  /\ i \in ScheduleIds
  /\ <<u, d, sh>> \notin TakenKeys({i})
  /\ schedules' = [schedules EXCEPT ![i] = [user |-> u, shift |-> sh, day |-> d]]
  /\ UNCHANGED <<scope, shifts, records, approved, daily, monthly>>

\* The foreign key of its records is set to null; its daily result stays.
DeleteSchedule(i) ==
  /\ i \in ScheduleIds
  /\ schedules' = [schedules EXCEPT ![i] = Gone]
  /\ records' = [n \in DOMAIN records |->
       IF n \in RecordIds /\ records[n].schedule = i
       THEN [records[n] EXCEPT !.schedule = 0] ELSE records[n]]
  /\ UNCHANGED <<scope, shifts, approved, daily, monthly>>

CreateRecord(u, schedule, shift, type, t) ==
  /\ Len(records) < MaxRecords
  /\ records' = Append(records, WithStatus(NewRecord(u, schedule, shift, type, t)))
  /\ UNCHANGED <<scope, shifts, schedules, approved, daily, monthly>>

\* The minutes of a payload last where _apply_record_status does not compute them.
UpdateRecord(n, u, schedule, shift, type, t, late, early) ==
  /\ n \in RecordIds
  /\ records' = [records EXCEPT ![n] = WithStatus(
       [NewRecord(u, schedule, shift, type, t) EXCEPT !.late = late, !.early = early])]
  /\ UNCHANGED <<scope, shifts, schedules, approved, daily, monthly>>

DeleteRecord(n) ==
  /\ n \in RecordIds
  /\ records' = [records EXCEPT ![n] = Gone]
  /\ UNCHANGED <<scope, shifts, schedules, approved, daily, monthly>>

-----------------------------------------------------------------------------
(* Approved requests: the approval commits, then its effect, then the results *)

Approval(u, type, span) == [user |-> u, type |-> type, start |-> span[1], end |-> span[2]]
Approve(u, type, span) ==
  /\ Len(approved) < MaxRequests
  /\ approved' = Append(approved, Approval(u, type, span))
  /\ UNCHANGED <<scope, shifts, monthly>>

\* _rebuild_results_for_request: over what is stored after the effect.
RebuildFor(u, span) ==
  daily' = WithResults(daily, {DailyResult(i) :
             i \in SchedulesOf(u, DayOf(span[1])..DayOf(span[2]))}')

ApprovePlain(u, type, span) ==
  /\ type \notin {"correction", "shift_swap"}
  /\ Approve(u, type, span)
  /\ UNCHANGED <<schedules, records>>
  /\ RebuildFor(u, span)

\* A correction is a record at the start of the request, with the shift of its item.
ApproveCorrection(u, span, i) ==
  LET shift == {schedules[j].shift : j \in {i} \cap ScheduleIds}
  IN /\ Len(records) < MaxRecords
     /\ Approve(u, "correction", span)
     /\ records' = Append(records, WithStatus(NewRecord(u, i, shift, "correction", span[1])))
     /\ UNCHANGED schedules
     /\ RebuildFor(u, span)

\* The schedule item moves to the day of the request, and takes the shift of the
\* requester's latest other item of that day.
Replacement(u, d) ==
  {j \in SchedulesOf(u, {d}) : \A k \in SchedulesOf(u, {d}) : k <= j}
Swapped(u, i, d) ==
  LET other == Replacement(u, d) \ {i}
  IN [schedules[i] EXCEPT
        !.day = d, !.shift = IF other = {} THEN @ ELSE schedules[CHOOSE j \in other : TRUE].shift]
\* Mutant: the unique constraint does not cover the shift swap.
SwapIgnoringConstraint(u, i, d) == i \in ScheduleIds
SwapSucceeds(u, i, d) ==
  i \in ScheduleIds /\ KeyOf(Swapped(u, i, d)) \notin TakenKeys({i})

ApproveSwap(u, span, i) ==
  /\ Approve(u, "shift_swap", span)
  /\ SwapSucceeds(u, i, DayOf(span[1]))
  /\ schedules' = [schedules EXCEPT ![i] = Swapped(u, i, DayOf(span[1]))]
  /\ UNCHANGED records
  /\ RebuildFor(u, span)

\* Without a schedule item, or against the constraint, the request stays approved
\* and nothing else happens.
ApproveSwapInVain(u, span, i) ==
  /\ Approve(u, "shift_swap", span)
  /\ ~SwapSucceeds(u, i, DayOf(span[1]))
  /\ UNCHANGED <<schedules, records, daily>>

ApproveRequest(u, span, i) ==
  \/ \E type \in RequestTypes : ApprovePlain(u, type, span)
  \/ "correction" \in RequestTypes /\ ApproveCorrection(u, span, i)
  \/ "shift_swap" \in RequestTypes /\ (ApproveSwap(u, span, i) \/ ApproveSwapInVain(u, span, i))

RebuildDailyResults(us, d) ==
  /\ daily' = WithResults(daily, {DailyResult(i) :
                i \in UNION {SchedulesOf(u, {d}) : u \in us}})
  /\ UNCHANGED <<scope, shifts, schedules, records, approved, monthly>>

\* Users without any daily result keep the summary they have.
RebuildMonthlySummaries(us) ==
  /\ monthly' = [u \in Users |-> IF u \in us /\ ResultsOf(u) # {}
                                  THEN MonthlySummary(ResultsOf(u)) ELSE monthly[u]]
  /\ UNCHANGED <<scope, shifts, schedules, records, approved, daily>>

Next ==
  \/ \E sh \in Shifts, row \in ShiftRows : UpdateShift(sh, row)
  \/ \E sh \in Shifts, us \in SUBSET Users, from, to \in Days : CreateSchedules(us, sh, from, to)
  \/ \E i \in ScheduleIds, u \in Users, sh \in Shifts, d \in Days : UpdateSchedule(i, u, sh, d)
  \/ \E i \in ScheduleIds : DeleteSchedule(i)
  \/ \E u \in Users, i \in ScheduleIds \cup {0}, shift \in {{}} \cup {{sh} : sh \in Shifts},
        type \in RecordTypes, t \in RecordTimes : CreateRecord(u, i, shift, type, t)
  \/ \E n \in RecordIds, u \in Users, i \in ScheduleIds \cup {0},
        shift \in {{}} \cup {{sh} : sh \in Shifts} :
       LET old == records[n]
       IN \E type \in RecordTypes \cup {old.type}, t \in RecordTimes \cup {old.time},
             late \in GivenMinutes \cup {old.late}, early \in GivenMinutes \cup {old.early} :
            UpdateRecord(n, u, i, shift, type, t, late, early)
  \/ \E n \in RecordIds : DeleteRecord(n)
  \/ \E u \in Users, span \in RequestSpans, i \in ScheduleIds \cup {0} : ApproveRequest(u, span, i)
  \/ \E us \in {Users} \cup {{u} : u \in Users}, d \in Days : RebuildDailyResults(us, d)
  \/ \E u \in ReportUsers : RebuildMonthlySummaries({u})

Spec == Init /\ [][Next]_vars
-----------------------------------------------------------------------------
(* Properties *)

Rebuilt(r) == r \notin daily /\ r \in daily'

\* Whoever clocked in or out for a scheduled shift on its day is not absent, and a day
\* covered by approved leave is not either, however the result is computed.
PresentNotAbsent ==
  [][\A r \in daily' : Rebuilt(r) /\ r.status = "absent" =>
       /\ \A n \in RecordIds' :
            ~ /\ records'[n].user = r.key[1] /\ DayOf(records'[n].time) = r.key[2]
              /\ records'[n].shift = {r.key[3]}
       /\ \A n \in DOMAIN approved' :
            ~ /\ approved'[n].user = r.key[1] /\ approved'[n].type = "leave"
              /\ approved'[n].start < approved'[n].end
              /\ r.key[2] \in DayOf(approved'[n].start)..DayOf(approved'[n].end)]_vars

\* Every day of a summary is attended, rest, absent or none of them, and absences and
\* incomplete days, the days with a missing record, are never attended in full.
MonthlyConsistent ==
  \A u \in Users : monthly[u] # NoMonth =>
    LET m == monthly[u]
    IN /\ m.attendance + m.rest + m.absent <= m.work
       /\ m.absent <= m.missing
       /\ m.trips <= m.attendance

\* A swap within one's own schedule never changes the shift of the item, and never
\* merges two items: the branch that takes over the other item's shift breaks the
\* unique constraint whenever it is reached.
OwnSwapKeepsShift ==
  [][\A i \in ScheduleIds :
       /\ approved' # approved
       /\ schedules[i].user = approved'[Len(approved')].user
       => schedules'[i].shift = schedules[i].shift]_vars

=============================================================================
