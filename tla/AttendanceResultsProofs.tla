------------------------ MODULE AttendanceResultsProofs ------------------------
(***************************************************************************)
(* Theorems about AttendanceResults, for any users, shifts, days and rows, *)
(* and about the rest rules that give the results their rest days          *)
(* (RestRules), for any administrators, rules, departments and users.      *)
(*                                                                         *)
(* A swap within one's own schedule keeps the shift of the item: the       *)
(* branch that takes over another shift finds it on an item of the same    *)
(* user and day, and the item moved there would have that item's key,      *)
(* which the unique constraint refuses.                                    *)
(*                                                                         *)
(* The counts of a summary agree because an absence is a day whose records *)
(* are missing.                                                            *)
(*                                                                         *)
(* Whoever is there is not absent: the records of a day include those of   *)
(* its shift on that day, a first check-in or a last check-out exists as   *)
(* soon as there is one, and the leave of a day is a sum without negative  *)
(* terms.  The invariant is that every row has its columns.                *)
(***************************************************************************)
EXTENDS AttendanceResults, RestRules, FiniteSetTheorems, WellFoundedInduction, TLAPS

Item == [user : Users, shift : Shifts, day : Int]
Approvals == [user : Users, type : RequestTypes \cup {"correction", "shift_swap"},
              start : Nat, end : Nat]

TypeOK ==
  /\ scope \in Scopes
  /\ schedules \in Seq(Item \cup {Gone})
  /\ approved \in Seq(Approvals)

\* What OwnSwapKeepsShift says of a step.
KeepsShift ==
  \A i \in ScheduleIds :
    /\ approved' # approved
    /\ schedules[i].user = approved'[Len(approved')].user
    => schedules'[i].shift = schedules[i].shift

-----------------------------------------------------------------------------
\* The days of a scope and of its requests are numbers.
LEMMA DaysAreInt ==
  ASSUME TypeOK
  PROVE  /\ Days \subseteq Int
         /\ RequestSpans \subseteq Nat \X Nat
         /\ \A span \in RequestSpans : DayOf(span[1]) \in Int
<1>1. Days \subseteq Int
  BY ScopesAssumption DEF Days, TypeOK
<1>2. RequestSpans \subseteq Nat \X Nat
  BY ScopesAssumption DEF RequestSpans, TypeOK
<1>3. \A n \in Nat : n \div DayLength \in Int
  BY ClockAssumption
<1> QED  BY <1>1, <1>2, <1>3 DEF DayOf

\* The rows CreateSchedules inserts.
Rows(us, sh, from, to) ==
  SetToSeq({[user |-> u, shift |-> sh, day |-> d] : u \in us, d \in from..to})

\* The rows of a request are finitely many, so they can be inserted one after the other.
LEMMA RowsInserted ==
  ASSUME TypeOK, NEW us \in SUBSET Users, NEW sh \in Shifts, NEW from \in Int, NEW to \in Int
  PROVE  Rows(us, sh, from, to) \in Seq(Item)
<1> DEFINE S == {[user |-> u, shift |-> sh, day |-> d] : u \in us, d \in from..to}
           pairs == us \X (from..to)
           f == [p \in pairs |-> [user |-> p[1], shift |-> sh, day |-> p[2]]]
<1>1. IsFiniteSet(pairs)
  BY UsersAssumption, FS_Subset, FS_Interval, FS_Product
<1>2. f \in Surjection(pairs, S)
  <2>1. ASSUME NEW s \in S PROVE \E p \in pairs : f[p] = s
    <3>1. PICK u \in us, d \in from..to : s = [user |-> u, shift |-> sh, day |-> d]
      OBVIOUS
    <3>2. <<u, d>> \in pairs /\ f[<<u, d>>] = s
      BY <3>1
    <3> HIDE DEF f, pairs
    <3> QED  BY <3>2
  <2>2. f \in [pairs -> S]
    OBVIOUS
  <2> HIDE DEF f, pairs, S
  <2> QED  BY <2>1, <2>2 DEF Surjection
<1>3. S \subseteq Item
  BY DEF Item
<1> HIDE DEF f, pairs, S
<1>4. IsFiniteSet(S)
  BY <1>1, <1>2, FS_Surjection
<1>5. Cardinality(S) \in Nat /\ ExistsBijection(1..Cardinality(S), S)
  BY <1>4, FS_CardinalityType
<1>6. \E g \in [1..Cardinality(S) -> S] : IsInjective(g)
  BY <1>5 DEF ExistsBijection, Bijection, Injection
<1>7. SetToSeq(S) \in [1..Cardinality(S) -> S]
  BY <1>6 DEF SetToSeq
<1>8. SetToSeq(S) \in Seq(S)
  BY <1>5, <1>7
<1>9. SetToSeq(S) \in Seq(Item)
  BY <1>3, <1>8
<1> QED  BY <1>9 DEF S, Rows

-----------------------------------------------------------------------------
(* Steps *)

\* A step that adds or changes no approval keeps every shift the property is about.
LEMMA QuietStep ==
  ASSUME TypeOK, UNCHANGED <<scope, approved>>, schedules' \in Seq(Item \cup {Gone})
  PROVE  TypeOK' /\ KeepsShift
<1>1. Shifts' = Shifts /\ RequestTypes' = RequestTypes
  BY DEF Shifts, RequestTypes
<1> QED  BY <1>1 DEF TypeOK, KeepsShift, Item, Approvals

\* What an approval appends.
LEMMA ApprovalAppended ==
  ASSUME TypeOK, NEW u \in Users, NEW span \in RequestSpans,
         NEW type \in RequestTypes \cup {"correction", "shift_swap"}, Approve(u, type, span),
         schedules' \in Seq(Item \cup {Gone})
  PROVE  TypeOK' /\ approved'[Len(approved')].user = u
<1>1. Approval(u, type, span) \in Approvals /\ Approval(u, type, span).user = u
  BY DaysAreInt DEF Approval, Approvals
<1>2. approved \in Seq(Approvals) /\ approved' = Append(approved, Approval(u, type, span))
  BY DEF TypeOK, Approve
<1> HIDE DEF Approval
<1>3. approved' \in Seq(Approvals) /\ approved'[Len(approved')] = Approval(u, type, span)
  BY <1>1, <1>2
<1>4. scope' = scope /\ Shifts' = Shifts /\ RequestTypes' = RequestTypes
  BY DEF Approve, Shifts, RequestTypes
<1> QED  BY <1>1, <1>3, <1>4 DEF TypeOK, Item, Approvals

\* The shift that a swap would take over has the key of a stored item.
LEMMA SwapKeepsShift ==
  ASSUME TypeOK, NEW u \in Users, NEW span \in RequestSpans, NEW i \in ScheduleIds,
         SwapSucceeds(u, i, DayOf(span[1]))
  PROVE  /\ Swapped(u, i, DayOf(span[1])) \in Item
         /\ schedules[i].user = u =>
              Swapped(u, i, DayOf(span[1])).shift = schedules[i].shift
<1> DEFINE d == DayOf(span[1])
           other == Replacement(u, d) \ {i}
           j == CHOOSE k \in other : TRUE
<1>1. \A k \in ScheduleIds : schedules[k] \in Item
  BY DEF TypeOK, ScheduleIds
<1>2. d \in Int
  BY DaysAreInt
<1> HIDE DEF d
<1>3. Swapped(u, i, d) = [schedules[i] EXCEPT !.day = d,
                            !.shift = IF other = {} THEN @ ELSE schedules[j].shift]
  BY DEF Swapped
<1>4. CASE other = {}
  <2>1. Swapped(u, i, d) = [schedules[i] EXCEPT !.day = d, !.shift = @]
    BY <1>3, <1>4
  <2>2. \A r \in Item : /\ [r EXCEPT !.day = d, !.shift = @] \in Item
                        /\ [r EXCEPT !.day = d, !.shift = @].shift = r.shift
    BY <1>2 DEF Item
  <2> QED  BY <1>1, <2>1, <2>2 DEF d
<1>5. CASE other # {}
  <2>1. j \in other
    BY <1>5
  <2>2. j \in ScheduleIds /\ j # i /\ schedules[j].user = u /\ schedules[j].day = d
    BY <2>1 DEF Replacement, SchedulesOf
  <2> HIDE DEF j, other
  <2>3. Swapped(u, i, d) = [schedules[i] EXCEPT !.day = d, !.shift = schedules[j].shift]
    BY <1>3, <1>5
  <2>4. \A r \in Item, sh \in Shifts :
          /\ [r EXCEPT !.day = d, !.shift = sh] \in Item
          /\ KeyOf([r EXCEPT !.day = d, !.shift = sh]) = <<r.user, d, sh>>
    BY <1>2 DEF Item, KeyOf
  <2>5. schedules[j].shift \in Shifts
    BY <1>1, <2>2 DEF Item
  <2>6. /\ Swapped(u, i, d) \in Item
        /\ KeyOf(Swapped(u, i, d)) = <<schedules[i].user, d, schedules[j].shift>>
    <3> DEFINE sh == schedules[j].shift
               r == schedules[i]
    <3>1. r \in Item /\ sh \in Shifts /\ Swapped(u, i, d) = [r EXCEPT !.day = d, !.shift = sh]
      BY <1>1, <2>3, <2>5
    <3> HIDE DEF sh, r
    <3>2. /\ Swapped(u, i, d) \in Item
          /\ KeyOf(Swapped(u, i, d)) = <<r.user, d, sh>>
      BY <3>1, <2>4, Zenon
    <3> QED  BY <3>2 DEF sh, r
  <2>7. KeyOf(schedules[j]) = <<u, d, schedules[j].shift>>
    BY <2>2 DEF KeyOf
  <2>8. KeyOf(schedules[j]) \in TakenKeys({i})
    BY <2>2 DEF TakenKeys
  <2>9. schedules[i].user # u
    BY <2>6, <2>7, <2>8 DEF SwapSucceeds, d
  <2> QED  BY <2>6, <2>9 DEF d
<1> QED  BY <1>4, <1>5
-----------------------------------------------------------------------------
(* Actions *)

\* A stored item is a row, and stays one when it is replaced by one.
LEMMA ScheduleTypes ==
  ASSUME TypeOK
  PROVE  /\ \A i \in ScheduleIds : schedules[i] \in Item /\ i \in DOMAIN schedules
         /\ \A i \in DOMAIN schedules, r \in Item \cup {Gone} :
              [schedules EXCEPT ![i] = r] \in Seq(Item \cup {Gone})
  BY DEF TypeOK, ScheduleIds

\* Items created, changed or deleted are of no approval.
LEMMA CreateStep ==
  ASSUME TypeOK, NEW sh \in Shifts, NEW us \in SUBSET Users, NEW from \in Days, NEW to \in Days,
         CreateSchedules(us, sh, from, to)
  PROVE  TypeOK' /\ KeepsShift
<1>1. from \in Int /\ to \in Int
  BY DaysAreInt
<1>2. Rows(us, sh, from, to) \in Seq(Item)
  BY <1>1, RowsInserted
<1>3. schedules' = schedules \o Rows(us, sh, from, to) /\ UNCHANGED <<scope, approved>>
  BY DEF CreateSchedules, Rows
<1>4. schedules' \in Seq(Item \cup {Gone})
  BY <1>2, <1>3 DEF TypeOK
<1> QED  BY <1>3, <1>4, QuietStep

LEMMA UpdateStep ==
  ASSUME TypeOK, NEW i \in ScheduleIds, NEW u \in Users, NEW sh \in Shifts, NEW d \in Days,
         UpdateSchedule(i, u, sh, d)
  PROVE  TypeOK' /\ KeepsShift
<1>1. [user |-> u, shift |-> sh, day |-> d] \in Item
  BY DaysAreInt DEF Item
<1>2. schedules' = [schedules EXCEPT ![i] = [user |-> u, shift |-> sh, day |-> d]]
      /\ UNCHANGED <<scope, approved>>
  BY DEF UpdateSchedule
<1> QED  BY <1>1, <1>2, ScheduleTypes, QuietStep

LEMMA DeleteStep ==
  ASSUME TypeOK, NEW i \in ScheduleIds, DeleteSchedule(i)
  PROVE  TypeOK' /\ KeepsShift
<1>1. schedules' = [schedules EXCEPT ![i] = Gone] /\ UNCHANGED <<scope, approved>>
  BY DEF DeleteSchedule
<1> QED  BY <1>1, ScheduleTypes, QuietStep

\* An approval that leaves the schedule alone changes no shift.
LEMMA ApprovalWithoutSwap ==
  ASSUME TypeOK, NEW u \in Users, NEW span \in RequestSpans,
         NEW type \in RequestTypes \cup {"correction", "shift_swap"}, Approve(u, type, span),
         UNCHANGED schedules
  PROVE  TypeOK' /\ KeepsShift
<1>1. schedules' \in Seq(Item \cup {Gone})
  BY DEF TypeOK
<1> QED  BY <1>1, ApprovalAppended DEF KeepsShift

\* A swap that is carried out.
LEMMA SwapStep ==
  ASSUME TypeOK, NEW u \in Users, NEW span \in RequestSpans, NEW i \in ScheduleIds \cup {0},
         ApproveSwap(u, span, i)
  PROVE  TypeOK' /\ KeepsShift
<1> DEFINE moved == Swapped(u, i, DayOf(span[1]))
<1>1. Approve(u, "shift_swap", span) /\ SwapSucceeds(u, i, DayOf(span[1]))
  BY DEF ApproveSwap
<1>2. i \in ScheduleIds
  BY <1>1 DEF SwapSucceeds
<1>3. moved \in Item /\ (schedules[i].user = u => moved.shift = schedules[i].shift)
  BY <1>1, <1>2, SwapKeepsShift
<1>4. schedules' = [schedules EXCEPT ![i] = moved]
  BY DEF ApproveSwap
<1> HIDE DEF moved
<1>5. schedules' \in Seq(Item \cup {Gone})
  BY <1>2, <1>3, <1>4, ScheduleTypes
<1>6. TypeOK' /\ approved'[Len(approved')].user = u
  BY <1>1, <1>5, ApprovalAppended
<1>7. \A k \in ScheduleIds : schedules[k].user = u => schedules'[k].shift = schedules[k].shift
  BY <1>2, <1>3, <1>4, ScheduleTypes
<1> QED  BY <1>6, <1>7 DEF KeepsShift

\* An approval of any type.
LEMMA ApproveStep ==
  ASSUME TypeOK, NEW u \in Users, NEW span \in RequestSpans, NEW i \in ScheduleIds \cup {0},
         ApproveRequest(u, span, i)
  PROVE  TypeOK' /\ KeepsShift
<1>1. CASE \E type \in RequestTypes : ApprovePlain(u, type, span)
  BY <1>1, ApprovalWithoutSwap DEF ApprovePlain
<1>2. CASE ApproveCorrection(u, span, i)
  BY <1>2, ApprovalWithoutSwap DEF ApproveCorrection
<1>3. CASE ApproveSwap(u, span, i)
  BY <1>3, SwapStep
<1>4. CASE ApproveSwapInVain(u, span, i)
  BY <1>4, ApprovalWithoutSwap DEF ApproveSwapInVain
<1> QED  BY <1>1, <1>2, <1>3, <1>4 DEF ApproveRequest

\* Every other step leaves the schedule and the approvals alone.
LEMMA OtherStep ==
  ASSUME TypeOK, UNCHANGED <<scope, schedules, approved>>
  PROVE  TypeOK' /\ KeepsShift
<1>1. schedules' \in Seq(Item \cup {Gone})
  BY DEF TypeOK
<1> QED  BY <1>1, QuietStep

\* Every step: one step of the proof per action.
LEMMA StepKeepsShift ==
  ASSUME TypeOK, [Next]_vars
  PROVE  TypeOK' /\ KeepsShift
<1>1. ASSUME NEW sh \in Shifts, NEW row \in ShiftRows, UpdateShift(sh, row)
      PROVE  TypeOK' /\ KeepsShift
  BY <1>1, OtherStep DEF UpdateShift
<1>2. ASSUME NEW sh \in Shifts, NEW us \in SUBSET Users, NEW from \in Days, NEW to \in Days,
             CreateSchedules(us, sh, from, to)
      PROVE  TypeOK' /\ KeepsShift
  BY <1>2, CreateStep
<1>3. ASSUME NEW i \in ScheduleIds, NEW u \in Users, NEW sh \in Shifts, NEW d \in Days,
             UpdateSchedule(i, u, sh, d)
      PROVE  TypeOK' /\ KeepsShift
  BY <1>3, UpdateStep
<1>4. ASSUME NEW i \in ScheduleIds, DeleteSchedule(i)
      PROVE  TypeOK' /\ KeepsShift
  BY <1>4, DeleteStep
<1>5. ASSUME NEW u, NEW i, NEW shift, NEW type, NEW t, CreateRecord(u, i, shift, type, t)
      PROVE  TypeOK' /\ KeepsShift
  BY <1>5, OtherStep DEF CreateRecord
<1>6. ASSUME NEW n, NEW u, NEW i, NEW shift, NEW type, NEW t, NEW late, NEW early,
             UpdateRecord(n, u, i, shift, type, t, late, early)
      PROVE  TypeOK' /\ KeepsShift
  BY <1>6, OtherStep DEF UpdateRecord
<1>7. ASSUME NEW n, DeleteRecord(n)
      PROVE  TypeOK' /\ KeepsShift
  BY <1>7, OtherStep DEF DeleteRecord
<1>8. ASSUME NEW u \in Users, NEW span \in RequestSpans, NEW i \in ScheduleIds \cup {0},
             ApproveRequest(u, span, i)
      PROVE  TypeOK' /\ KeepsShift
  BY <1>8, ApproveStep
<1>9. ASSUME NEW us, NEW d, RebuildDailyResults(us, d)
      PROVE  TypeOK' /\ KeepsShift
  BY <1>9, OtherStep DEF RebuildDailyResults
<1>10. ASSUME NEW u, RebuildMonthlySummaries({u})
       PROVE  TypeOK' /\ KeepsShift
  BY <1>10, OtherStep DEF RebuildMonthlySummaries
<1>11. CASE UNCHANGED vars
  BY <1>11, OtherStep DEF vars
<1> QED  BY <1>1, <1>2, <1>3, <1>4, <1>5, <1>6, <1>7, <1>8, <1>9, <1>10, <1>11 DEF Next

\* Approving a shift swap keeps the shift of every schedule item of the requester
\* (_apply_approved_request: the branch that takes over another shift is refused by the
\* unique constraint), for any users, shifts, days and rows.
THEOREM OwnSwapsKeepShifts == Spec => OwnSwapKeepsShift
<1>1. Init => TypeOK
  BY DEF Init, TypeOK
<1>2. TypeOK /\ [Next]_vars => TypeOK'
  BY StepKeepsShift
<1>3. TypeOK /\ [Next]_vars =>
        [\A i \in ScheduleIds :
           /\ approved' # approved
           /\ schedules[i].user = approved'[Len(approved')].user
           => schedules'[i].shift = schedules[i].shift]_vars
  BY StepKeepsShift DEF KeepsShift
<1> QED  BY <1>1, <1>2, <1>3, PTL DEF Spec, OwnSwapKeepsShift
-----------------------------------------------------------------------------
(* Monthly summaries *)

\* The daily results of a whole month are finitely many, and a result says absent only of a
\* day without a check-in and without a check-out.
ResultsOK ==
  /\ IsFiniteSet(daily)
  /\ \A r \in daily : r.status = "absent" => r.missIn \/ r.missOut

\* The results of schedule items are finitely many.
ResultSetsFinite ==
  TypeOK => \A S \in SUBSET ScheduleIds : IsFiniteSet({DailyResult(i) : i \in S})
LEMMA ResultsFinite == ResultSetsFinite
<1> SUFFICES ASSUME TypeOK, NEW S \in SUBSET ScheduleIds
             PROVE  IsFiniteSet({DailyResult(i) : i \in S})
  BY DEF ResultSetsFinite
<1> DEFINE T == {DailyResult(i) : i \in S}
           f == [i \in S |-> DailyResult(i)]
<1>1. IsFiniteSet(1..Len(schedules)) /\ S \subseteq 1..Len(schedules)
  BY FS_Interval DEF TypeOK, ScheduleIds
<1>2. IsFiniteSet(S)
  BY <1>1, FS_Subset
<1>3. f \in Surjection(S, T)
  BY DEF Surjection
<1> HIDE DEF f, T
<1>4. IsFiniteSet(T)
  BY <1>2, <1>3, FS_Surjection
<1> QED  BY <1>4 DEF T

\* _build_daily_result: absent is decided by the two missing records.
LEMMA AbsentMissed ==
  \A i : DailyResult(i).status = "absent" => DailyResult(i).missIn \/ DailyResult(i).missOut
<1> SUFFICES ASSUME NEW i, DailyResult(i).status = "absent"
             PROVE  DailyResult(i).missIn \/ DailyResult(i).missOut
  OBVIOUS
<1>1. \E missIn, missOut, leave :
        /\ DailyResult(i).status = StatusOf(i, missIn, missOut, leave)
        /\ DailyResult(i).missIn = missIn /\ DailyResult(i).missOut = missOut
  BY DEF DailyResult
<1> QED  BY <1>1 DEF StatusOf, Occasion

\* Replacing the results of schedule items keeps the invariant.
LEMMA ReplacedOK ==
  ASSUME ResultsOK, NEW T, IsFiniteSet(T), daily' = WithResults(daily, T),
         \A r \in T : r.status = "absent" => r.missIn \/ r.missOut
  PROVE  ResultsOK'
<1>1. IsFiniteSet({r \in daily : \A q \in T : q.key # r.key})
  BY FS_Subset DEF ResultsOK
<1>2. IsFiniteSet(daily')
  BY <1>1, FS_Union DEF WithResults
<1> QED  BY <1>2 DEF ResultsOK, WithResults

\* Results are rebuilt over what is stored after an approval, or over what is stored.
LEMMA RebuiltOK ==
  ASSUME TypeOK, TypeOK', ResultsOK, NEW S \in SUBSET ScheduleIds, NEW Z \in SUBSET ScheduleIds',
         \/ daily' = WithResults(daily, {DailyResult(i) : i \in S})
         \/ daily' = WithResults(daily, {DailyResult(i)' : i \in Z})
  PROVE  ResultsOK'
<1>1. CASE daily' = WithResults(daily, {DailyResult(i) : i \in S})
  <2>1. IsFiniteSet({DailyResult(i) : i \in S})
    BY ResultsFinite DEF ResultSetsFinite
  <2>2. \A r \in {DailyResult(i) : i \in S} : r.status = "absent" => r.missIn \/ r.missOut
    BY AbsentMissed
  <2> QED  BY <1>1, <2>1, <2>2, ReplacedOK
<1>2. CASE daily' = WithResults(daily, {DailyResult(i)' : i \in Z})
  <2>1. ResultSetsFinite'
    BY ResultsFinite, PTL
  <2>2. (\A i : DailyResult(i).status = "absent" => DailyResult(i).missIn \/ DailyResult(i).missOut)'
    BY AbsentMissed, PTL
  <2>3. IsFiniteSet({DailyResult(i)' : i \in Z})
    BY <2>1 DEF ResultSetsFinite
  <2>4. \A r \in {DailyResult(i)' : i \in Z} : r.status = "absent" => r.missIn \/ r.missOut
    BY <2>2
  <2> QED  BY <1>2, <2>3, <2>4, ReplacedOK
<1> QED  BY <1>1, <1>2

\* What a summary counts: attended days, rest days and absences are different days, an
\* absence is a day with a missing record, a business trip is attended.
LEMMA SummaryConsistent ==
  ASSUME NEW rows, IsFiniteSet(rows),
         \A r \in rows : r.status = "absent" => r.missIn \/ r.missOut
  PROVE  LET m == MonthlySummary(rows)
         IN /\ m.attendance + m.rest + m.absent <= m.work
            /\ m.absent <= m.missing
            /\ m.trips <= m.attendance
<1> DEFINE A == {r \in rows : r.status \in Attended}
           R == {r \in rows : r.status = "rest"}
           N == {r \in rows : r.status = "absent"}
           M == {r \in rows : r.missIn \/ r.missOut}
           B == {r \in rows : r.status = "business_trip"}
           m == MonthlySummary(rows)
<1>1. /\ m.work = Cardinality(rows) /\ m.attendance = Cardinality(A)
      /\ m.rest = Cardinality(R) /\ m.absent = Cardinality(N)
      /\ m.missing = Cardinality(M) /\ m.trips = Cardinality(B)
  BY DEF MonthlySummary
<1>2. /\ A \cap R = {} /\ (A \cup R) \cap N = {} /\ (A \cup R) \cup N \subseteq rows
      /\ N \subseteq M /\ B \subseteq A
      /\ A \subseteq rows /\ R \subseteq rows /\ N \subseteq rows /\ M \subseteq rows
  BY DEF Attended
<1> HIDE DEF A, R, N, M, B
<1>3. IsFiniteSet(A) /\ IsFiniteSet(R) /\ IsFiniteSet(N) /\ IsFiniteSet(M)
  BY <1>2, FS_Subset
<1>4. IsFiniteSet(A \cup R) /\ Cardinality(A \cup R) = Cardinality(A) + Cardinality(R)
  <2>1. /\ IsFiniteSet(A \cup R)
        /\ Cardinality(A \cup R) = Cardinality(A) + Cardinality(R) - Cardinality(A \cap R)
    BY <1>3, FS_Union
  <2>2. Cardinality(A \cap R) = 0
    BY <1>2, FS_EmptySet
  <2>3. Cardinality(A) \in Nat /\ Cardinality(R) \in Nat
    BY <1>3, FS_CardinalityType
  <2> QED  BY <2>1, <2>2, <2>3
<1>5. Cardinality((A \cup R) \cup N) = Cardinality(A) + Cardinality(R) + Cardinality(N)
  <2>1. Cardinality((A \cup R) \cup N)
          = Cardinality(A \cup R) + Cardinality(N) - Cardinality((A \cup R) \cap N)
    BY <1>3, <1>4, FS_Union
  <2>2. Cardinality((A \cup R) \cap N) = 0
    BY <1>2, FS_EmptySet
  <2>3. Cardinality(A) \in Nat /\ Cardinality(R) \in Nat /\ Cardinality(N) \in Nat
    BY <1>3, FS_CardinalityType
  <2> QED  BY <1>4, <2>1, <2>2, <2>3
<1>6. Cardinality((A \cup R) \cup N) <= Cardinality(rows)
  BY <1>2, FS_Subset
<1>7. Cardinality(N) <= Cardinality(M)
  BY <1>2, <1>3, FS_Subset
<1>8. Cardinality(B) <= Cardinality(A)
  BY <1>2, <1>3, FS_Subset
<1> HIDE DEF m
<1>9. /\ m.attendance + m.rest + m.absent <= m.work
      /\ m.absent <= m.missing /\ m.trips <= m.attendance
  BY <1>1, <1>5, <1>6, <1>7, <1>8
<1> QED  BY <1>9 DEF m

\* A step other than those below leaves results and summaries alone.
LEMMA SummariesStay ==
  ASSUME ResultsOK, MonthlyConsistent, UNCHANGED <<daily, monthly>>
  PROVE  ResultsOK' /\ MonthlyConsistent'
BY DEF ResultsOK, MonthlyConsistent

\* A report is made of the results of its user.
LEMMA ReportStep ==
  ASSUME ResultsOK, MonthlyConsistent, NEW us, RebuildMonthlySummaries(us)
  PROVE  ResultsOK' /\ MonthlyConsistent'
<1>1. UNCHANGED daily
  BY DEF RebuildMonthlySummaries
<1>2. ASSUME NEW u \in Users
      PROVE  LET m == MonthlySummary(ResultsOf(u))
             IN /\ m.attendance + m.rest + m.absent <= m.work
                /\ m.absent <= m.missing
                /\ m.trips <= m.attendance
  <2>1. IsFiniteSet(ResultsOf(u))
    BY FS_Subset DEF ResultsOK, ResultsOf
  <2>2. \A r \in ResultsOf(u) : r.status = "absent" => r.missIn \/ r.missOut
    BY DEF ResultsOK, ResultsOf
  <2> QED  BY <2>1, <2>2, SummaryConsistent
<1>3. \A u \in Users : monthly'[u] = MonthlySummary(ResultsOf(u)) \/ monthly'[u] = monthly[u]
  BY DEF RebuildMonthlySummaries
<1> QED  BY <1>1, <1>2, <1>3 DEF ResultsOK, MonthlyConsistent

\* An approval rebuilds the results of its user's days.
LEMMA ApprovalResults ==
  ASSUME TypeOK, TypeOK', ResultsOK, MonthlyConsistent,
         NEW u, NEW span, NEW i, ApproveRequest(u, span, i)
  PROVE  ResultsOK' /\ MonthlyConsistent'
<1>1. UNCHANGED monthly
  BY DEF ApproveRequest, ApprovePlain, ApproveCorrection, ApproveSwap, ApproveSwapInVain, Approve
<1>2. CASE RebuildFor(u, span)
  <2>1. SchedulesOf(u, DayOf(span[1])..DayOf(span[2]))' \subseteq ScheduleIds'
    BY DEF SchedulesOf
  <2>2. daily' = WithResults(daily, {DailyResult(j)' :
                   j \in SchedulesOf(u, DayOf(span[1])..DayOf(span[2]))'})
    BY <1>2 DEF RebuildFor
  <2>3. ResultsOK'
    BY <2>1, <2>2, RebuiltOK
  <2> QED  BY <1>1, <2>3 DEF MonthlyConsistent
<1>3. CASE UNCHANGED daily
  BY <1>1, <1>3, SummariesStay
<1> QED  BY <1>2, <1>3 DEF ApproveRequest, ApprovePlain, ApproveCorrection, ApproveSwap,
                          ApproveSwapInVain

\* Every step keeps the invariant and the property: one step of the proof per action.
LEMMA SummariesNext ==
  ASSUME TypeOK, ResultsOK, MonthlyConsistent, [Next]_vars
  PROVE  ResultsOK' /\ MonthlyConsistent'
<1>1. TypeOK'
  BY StepKeepsShift
<1>2. ASSUME NEW u, NEW span, NEW i, ApproveRequest(u, span, i)
      PROVE  ResultsOK' /\ MonthlyConsistent'
  BY <1>1, <1>2, ApprovalResults
<1>3. ASSUME NEW us, NEW d, RebuildDailyResults(us, d)
      PROVE  ResultsOK' /\ MonthlyConsistent'
  <2> DEFINE S == UNION {SchedulesOf(u, {d}) : u \in us}
  <2>1. S \subseteq ScheduleIds
    BY DEF SchedulesOf
  <2>2. daily' = WithResults(daily, {DailyResult(i) : i \in S})
    BY <1>3 DEF RebuildDailyResults
  <2> HIDE DEF S
  <2>3. ResultsOK'
    BY <1>1, <2>1, <2>2, RebuiltOK
  <2> QED  BY <1>3, <2>3 DEF RebuildDailyResults, MonthlyConsistent
<1>4. ASSUME NEW us, RebuildMonthlySummaries(us)
      PROVE  ResultsOK' /\ MonthlyConsistent'
  BY <1>4, ReportStep
<1>5. CASE UNCHANGED <<daily, monthly>>
  BY <1>5, SummariesStay
<1>6. ASSUME NEW sh, NEW row, NEW us, NEW from, NEW to, NEW i, NEW u, NEW d, NEW n,
             NEW shift, NEW type, NEW t, NEW late, NEW early,
             \/ UpdateShift(sh, row) \/ CreateSchedules(us, sh, from, to)
             \/ UpdateSchedule(i, u, sh, d) \/ DeleteSchedule(i)
             \/ CreateRecord(u, i, shift, type, t)
             \/ UpdateRecord(n, u, i, shift, type, t, late, early)
             \/ DeleteRecord(n) \/ UNCHANGED vars
      PROVE  ResultsOK' /\ MonthlyConsistent'
  BY <1>5, <1>6 DEF vars, UpdateShift, CreateSchedules, UpdateSchedule, DeleteSchedule,
                    CreateRecord, UpdateRecord, DeleteRecord
<1> QED  BY <1>2, <1>3, <1>4, <1>6, Zenon DEF Next

\* Whatever is edited, approved and rebuilt in whatever order, no month's summary counts a
\* day twice or an absence without a missing record (_upsert_monthly_summary).
THEOREM SummariesAreConsistent == Spec => []MonthlyConsistent
<1>1. Init => TypeOK /\ ResultsOK /\ MonthlyConsistent
  BY FS_EmptySet DEF Init, TypeOK, ResultsOK, MonthlyConsistent
<1>2. TypeOK /\ ResultsOK /\ MonthlyConsistent /\ [Next]_vars =>
        (TypeOK /\ ResultsOK /\ MonthlyConsistent)'
  BY StepKeepsShift, SummariesNext
<1> QED  BY <1>1, <1>2, PTL DEF Spec
-----------------------------------------------------------------------------
(* Minutes of requests *)

\* A set of natural numbers that is not empty has a least one.
LEMMA LeastNumber ==
  ASSUME NEW T \in SUBSET Nat, T # {}
  PROVE  \E n \in T : \A m \in T : n <= m
<1> DEFINE R == {p \in Nat \X Nat : p[1] < p[2]}
<1>1. IsWellFoundedOn(R, Nat)
  BY NatLessThanWellFounded DEF OpToRel
<1> HIDE DEF R
<1>2. PICK n \in T : \A m \in T : ~ (<<m, n>> \in R)
  BY <1>1, WFMin
<1>3. ASSUME NEW m \in T PROVE n <= m
  <2>1. m \in Nat /\ n \in Nat /\ ~ (m < n)
    BY <1>2 DEF R
  <2> QED  BY <2>1
<1> QED  BY <1>3

\* The function MapThenSumSet sums with takes the elements in the order CHOOSE gives; its
\* values for the subsets of S with up to n elements are the partial sums.
Minutes(n) == approved[n].end - approved[n].start
Pick(s) == CHOOSE x \in s : TRUE
Parts(S, n) == {s \in SUBSET S : Cardinality(s) <= n}
SumOn(g, D) ==
  g = [s \in D |-> IF s = {} THEN 0 ELSE Minutes(Pick(s)) + g[s \ {Pick(s)}]]

\* Taking the chosen element out of a finite set leaves a smaller one.
LEMMA SmallerPart ==
  ASSUME NEW S, IsFiniteSet(S), S # {}
  PROVE  /\ Pick(S) \in S /\ IsFiniteSet(S \ {Pick(S)})
         /\ Cardinality(S) \in Nat /\ Cardinality(S) > 0
         /\ Cardinality(S \ {Pick(S)}) = Cardinality(S) - 1
<1>1. Pick(S) \in S
  BY DEF Pick
<1>2. IsFiniteSet(S \ {Pick(S)}) /\ Cardinality(S \ {Pick(S)}) = Cardinality(S) - 1
  BY <1>1, FS_RemoveElement
<1>3. Cardinality(S) \in Nat /\ Cardinality(S) # 0
  BY FS_CardinalityType, FS_EmptySet
<1> QED  BY <1>1, <1>2, <1>3

\* What such a function gives for a part of its set.
LEMMA SumValue ==
  ASSUME NEW S, NEW g, SumOn(g, SUBSET S), NEW s \in SUBSET S
  PROVE  /\ s = {} => g[s] = 0
         /\ s # {} => g[s] = Minutes(Pick(s)) + g[s \ {Pick(s)}]
<1> DEFINE F(t) == IF t = {} THEN 0 ELSE Minutes(Pick(t)) + g[t \ {Pick(t)}]
<1>1. g = [t \in SUBSET S |-> F(t)]
  BY DEF SumOn
<1> HIDE DEF F
<1>2. g[s] = F(s)
  BY <1>1
<1> QED  BY <1>2 DEF F

\* The sums of the parts with up to n elements give those of the parts with one more.
LEMMA SumExtends ==
  ASSUME NEW S, IsFiniteSet(S), NEW n \in Nat, NEW g, SumOn(g, Parts(S, n))
  PROVE  \E h : SumOn(h, Parts(S, n + 1))
<1> DEFINE h == [s \in Parts(S, n + 1) |->
                   IF s = {} THEN 0 ELSE Minutes(Pick(s)) + g[s \ {Pick(s)}]]
<1>1. \A s \in Parts(S, n + 1) : s # {} => s \ {Pick(s)} \in Parts(S, n)
  <2> SUFFICES ASSUME NEW s \in Parts(S, n + 1), s # {}
               PROVE  s \ {Pick(s)} \in Parts(S, n)
    OBVIOUS
  <2>1. IsFiniteSet(s) /\ s \in SUBSET S /\ Cardinality(s) <= n + 1
    BY FS_Subset DEF Parts
  <2>2. Cardinality(s) \in Nat /\ Cardinality(s \ {Pick(s)}) = Cardinality(s) - 1
    BY <2>1, SmallerPart
  <2> QED  BY <2>1, <2>2 DEF Parts
<1>2. Parts(S, n) \subseteq Parts(S, n + 1)
  <2> SUFFICES ASSUME NEW s \in Parts(S, n)
               PROVE  s \in Parts(S, n + 1)
    OBVIOUS
  <2>1. s \in SUBSET S /\ Cardinality(s) <= n /\ IsFiniteSet(s)
    BY FS_Subset DEF Parts
  <2>2. Cardinality(s) \in Nat
    BY <2>1, FS_CardinalityType
  <2> QED  BY <2>1, <2>2 DEF Parts
<1>3. \A s \in Parts(S, n) : g[s] = h[s]
  BY <1>2 DEF SumOn
<1>4. h = [s \in Parts(S, n + 1) |-> IF s = {} THEN 0 ELSE Minutes(Pick(s)) + h[s \ {Pick(s)}]]
  <2>1. \A s \in Parts(S, n + 1) : s # {} => g[s \ {Pick(s)}] = h[s \ {Pick(s)}]
    BY <1>1, <1>3
  <2> HIDE DEF Parts
  <2> QED  BY <2>1
<1> HIDE DEF h
<1> QED  BY <1>4 DEF SumOn

\* So every finite set has its partial sums: there is no least size that has none.
LEMMA SumExists ==
  ASSUME NEW S, IsFiniteSet(S)
  PROVE  \E g : SumOn(g, SUBSET S)
<1> DEFINE bad == {n \in Nat : ~ \E g : SumOn(g, Parts(S, n))}
<1>1. bad = {}
  <2> SUFFICES ASSUME bad # {} PROVE FALSE
    OBVIOUS
  <2>1. PICK n \in bad : \A m \in bad : n <= m
    BY LeastNumber
  <2>2. CASE n = 0
    <3>1. Parts(S, 0) = {{}}
      <4>1. Cardinality({}) = 0
        BY FS_EmptySet
      <4>2. \A s \in SUBSET S : Cardinality(s) <= 0 => s = {}
        <5> SUFFICES ASSUME NEW s \in SUBSET S, Cardinality(s) <= 0 PROVE s = {}
          OBVIOUS
        <5>1. IsFiniteSet(s)
          BY FS_Subset
        <5>2. Cardinality(s) \in Nat
          BY <5>1, FS_CardinalityType
        <5> QED  BY <5>1, <5>2, FS_EmptySet
      <4>3. {} \in Parts(S, 0)
        BY <4>1 DEF Parts
      <4>4. \A s \in Parts(S, 0) : s = {}
        BY <4>2 DEF Parts
      <4> QED  BY <4>3, <4>4
    <3>2. SumOn([s \in {{}} |-> 0], {{}})
      BY DEF SumOn
    <3> QED  BY <2>1, <2>2, <3>1, <3>2
  <2>3. CASE n # 0
    <3>1. n - 1 \in Nat /\ n - 1 \notin bad
      BY <2>1, <2>3
    <3>2. PICK g : SumOn(g, Parts(S, n - 1))
      BY <3>1
    <3>3. \E h : SumOn(h, Parts(S, (n - 1) + 1))
      BY <3>1, <3>2, SumExtends
    <3>4. (n - 1) + 1 = n
      BY <2>1
    <3> QED  BY <2>1, <3>3, <3>4
  <2> QED  BY <2>2, <2>3
<1>2. Cardinality(S) \in Nat
  BY FS_CardinalityType
<1>3. Parts(S, Cardinality(S)) = SUBSET S
  BY FS_Subset DEF Parts
<1>4. \E g : SumOn(g, Parts(S, Cardinality(S)))
  BY <1>1, <1>2
<1> QED  BY <1>3, <1>4

\* Requests of no negative length, one of them longer, have a positive length together.
LEMMA PositiveSum ==
  ASSUME NEW S, IsFiniteSet(S), \A n \in S : Minutes(n) \in Nat,
         NEW z \in S, Minutes(z) > 0
  PROVE  MapThenSumSet(LAMBDA n : approved[n].end - approved[n].start, S) > 0
<1> DEFINE total == MapThenSumSet(LAMBDA n : approved[n].end - approved[n].start, S)
<1>1. total = (CHOOSE h : SumOn(h, SUBSET S))[S]
  BY DEF MapThenSumSet, MapThenFoldSet, SumOn, Pick, Minutes
<1>2. PICK g : SumOn(g, SUBSET S) /\ total = g[S]
  <2>1. \E h : SumOn(h, SUBSET S)
    BY SumExists
  <2> QED  BY <1>1, <2>1
<1> HIDE DEF total
<1>3. /\ g[{}] = 0
      /\ \A t \in SUBSET S : t # {} => g[t] = Minutes(Pick(t)) + g[t \ {Pick(t)}]
  <2>1. SumOn(g, SUBSET S) /\ {} \in SUBSET S
    BY <1>2
  <2>2. g[{}] = 0
    BY <2>1, SumValue
  <2> QED  BY <2>1, <2>2, SumValue
<1> DEFINE Right(s) == g[s] \in Nat /\ (z \in s => g[s] > 0)
           bad == {n \in Nat : \E s \in SUBSET S : Cardinality(s) = n /\ ~ Right(s)}
<1>4. bad = {}
  <2> SUFFICES ASSUME bad # {} PROVE FALSE
    OBVIOUS
  <2>1. PICK n \in bad : \A m \in bad : n <= m
    BY LeastNumber
  <2>2. PICK s \in SUBSET S : Cardinality(s) = n /\ ~ Right(s)
    BY <2>1
  <2>3. IsFiniteSet(s)
    BY FS_Subset
  <2>4. s # {}
    <3> SUFFICES ASSUME s = {} PROVE FALSE
      OBVIOUS
    <3>1. g[s] = 0 /\ z \notin s
      BY <1>3
    <3>2. Right(s)
      BY <3>1
    <3> QED  BY <2>2, <3>2
  <2>5. g[s] = Minutes(Pick(s)) + g[s \ {Pick(s)}]
    BY <1>3, <2>4
  <2>6. Pick(s) \in s /\ Cardinality(s \ {Pick(s)}) = n - 1 /\ n - 1 \in Nat
    <3>1. /\ Cardinality(s \ {Pick(s)}) = Cardinality(s) - 1
          /\ Cardinality(s) \in Nat /\ Cardinality(s) > 0 /\ Pick(s) \in s
      BY <2>3, <2>4, SmallerPart
    <3> QED  BY <2>2, <3>1
  <2>7. n - 1 \notin bad
    BY <2>1, <2>6
  <2>8. Right(s \ {Pick(s)})
    BY <2>6, <2>7
  <2>9. Minutes(Pick(s)) \in Nat
    BY <2>6
  <2>10. CASE Pick(s) = z
    BY <2>2, <2>5, <2>8, <2>9, <2>10
  <2>11. CASE Pick(s) # z
    BY <2>2, <2>5, <2>8, <2>9, <2>11
  <2> QED  BY <2>10, <2>11
<1>5. Cardinality(S) \in Nat
  BY FS_CardinalityType
<1>6. Right(S)
  BY <1>4, <1>5
<1>7. total > 0
  BY <1>2, <1>6
<1> QED  BY <1>7 DEF total
-----------------------------------------------------------------------------
(* Whoever is there is not absent *)

\* The columns the lateness and the results are computed from.
ClockRecord == [user : Users, schedule : Nat, shift : SUBSET Shifts,
                type : {"checkin", "checkout", "correction"}, time : Nat, late : Int, early : Int]
ColumnsOK ==
  /\ shifts \in [Shifts -> Hours]
  /\ records \in Seq(ClockRecord \cup {Gone})
  /\ \A n \in DOMAIN approved : approved[n].start <= approved[n].end

\* A deleted row is no row.
LEMMA RecordRows ==
  ASSUME TypeOK, ColumnsOK
  PROVE  /\ \A n \in RecordIds : records[n] \in ClockRecord /\ n \in DOMAIN records
         /\ RecordIds \subseteq Nat /\ ScheduleIds \subseteq Nat
BY DEF TypeOK, ColumnsOK, RecordIds, ScheduleIds

\* A record keeps its columns when its lateness is computed.
LEMMA StatusOfRecord ==
  ASSUME TypeOK, ColumnsOK, NEW r \in ClockRecord
  PROVE  WithStatus(r) \in ClockRecord
<1>1. CASE r.shift = {}
  BY <1>1 DEF WithStatus
<1>2. CASE r.shift # {}
  <2> DEFINE row == shifts[CHOOSE sh \in r.shift : TRUE]
  <2>1. (CHOOSE sh \in r.shift : TRUE) \in Shifts
    BY <1>2 DEF ClockRecord
  <2>2. row \in Hours
    BY <2>1 DEF ColumnsOK
  <2>3. WithStatus(r) =
          CASE r.type = "checkin" -> [r EXCEPT !.late = LateMinutes(row, WorkDate(r), r.time)]
            [] r.type = "checkout" -> [r EXCEPT !.early = EarlyLeaveMinutes(row, WorkDate(r), r.time)]
            [] OTHER -> r
    BY <1>2 DEF WithStatus
  <2> HIDE DEF row
  <2>4. WorkDate(r) \in Int
    <3>1. \A i \in ScheduleIds : schedules[i].day \in Int
      BY ScheduleTypes DEF Item
    <3>2. DayOf(r.time) \in Int
      BY ClockAssumption DEF DayOf, ClockRecord
    <3> QED  BY <3>1, <3>2 DEF WorkDate
  <2>5. r.time \in Int /\ DayLength \in Int
    BY ClockAssumption DEF ClockRecord
  <2>6. \A d, t \in Int : LateMinutes(row, d, t) \in Int /\ EarlyLeaveMinutes(row, d, t) \in Int
    BY <2>2, <2>5 DEF LateMinutes, EarlyLeaveMinutes, AtLeastZero, ShiftStart, ShiftEnd, Hours
  <2>7. LateMinutes(row, WorkDate(r), r.time) \in Int
        /\ EarlyLeaveMinutes(row, WorkDate(r), r.time) \in Int
    BY <2>4, <2>5, <2>6
  <2>8. \A n \in Int : /\ [r EXCEPT !.late = n] \in ClockRecord
                       /\ [r EXCEPT !.early = n] \in ClockRecord
    BY DEF ClockRecord
  <2> QED  BY <2>3, <2>7, <2>8
<1> QED  BY <1>1, <1>2

\* The first check-in and the last check-out of a day exist as soon as there is one.
LEMMA EarliestExists ==
  ASSUME TypeOK, ColumnsOK, NEW ns \in SUBSET RecordIds, ns # {}
  PROVE  Earliest(ns) # {}
<1> DEFINE T == {records[n].time : n \in ns}
<1>1. \A n \in ns : records[n].time \in Nat /\ n \in Nat
  BY RecordRows DEF ClockRecord
<1>2. PICK t \in T : \A u \in T : t <= u
  BY <1>1, LeastNumber
<1> DEFINE N == {n \in ns : records[n].time = t}
<1>3. N \in SUBSET Nat /\ N # {}
  BY <1>1, <1>2
<1>4. PICK n \in N : \A m \in N : n <= m
  BY <1>3, LeastNumber
<1>5. \A m \in ns : /\ records[n].time <= records[m].time
                    /\ records[n].time = records[m].time => n <= m
  BY <1>2, <1>4
<1> QED  BY <1>4, <1>5 DEF Earliest

\* Times are bounded by the end of the day they are looked for in.
LEMMA LatestExists ==
  ASSUME TypeOK, ColumnsOK, NEW ns \in SUBSET RecordIds, ns # {},
         NEW b \in Int, \A n \in ns : records[n].time <= b
  PROVE  Latest(ns) # {}
<1> DEFINE T == {b - records[n].time : n \in ns}
<1>1. \A n \in ns : records[n].time \in Nat /\ n \in Nat
  BY RecordRows DEF ClockRecord
<1>2. T \in SUBSET Nat /\ T # {}
  BY <1>1
<1>3. PICK t \in T : \A u \in T : t <= u
  BY <1>2, LeastNumber
<1> DEFINE N == {n \in ns : b - records[n].time = t}
<1>4. N \in SUBSET Nat /\ N # {}
  BY <1>1, <1>3
<1>5. PICK n \in N : \A m \in N : n <= m
  BY <1>4, LeastNumber
<1>6. ASSUME NEW m \in ns
      PROVE  /\ records[n].time >= records[m].time
             /\ records[n].time = records[m].time => n <= m
  <2>1. b - records[n].time <= b - records[m].time
    BY <1>3, <1>5
  <2>2. records[n].time = records[m].time => m \in N
    BY <1>5
  <2> QED  BY <1>1, <1>5, <2>1, <2>2
<1> QED  BY <1>5, <1>6 DEF Latest

\* Days and their instants.
LEMMA DayBounds ==
  ASSUME NEW t \in Nat
  PROVE  /\ DayOf(t) \in Nat /\ DayOf(t) * DayLength <= t /\ t < (DayOf(t) + 1) * DayLength
BY ClockAssumption DEF DayOf

\* An instant is within the two days its day is looked up in.
LEMMA DayContains ==
  ASSUME NEW t \in Nat
  PROVE  t \in DayStart(DayOf(t))..DayEnd(DayOf(t)) /\ DayEnd(DayOf(t)) \in Int
<1> DEFINE d == DayOf(t)
<1>1. d \in Nat /\ d * DayLength <= t /\ t < (d + 1) * DayLength /\ DayLength \in Nat \ {0}
  BY DayBounds, ClockAssumption
<1> HIDE DEF d
<1>2. (d + 2) * DayLength = (d + 1) * DayLength + DayLength
  BY <1>1
<1>3. t \in (d * DayLength)..((d + 2) * DayLength - 1) /\ (d + 2) * DayLength - 1 \in Int
  BY <1>1, <1>2
<1> QED  BY <1>3 DEF DayStart, DayEnd, d

\* A request touches every day from its first to its last.
LEMMA DayOverlaps ==
  ASSUME NEW a \in Nat, NEW b \in Nat, NEW d \in Int, d \in DayOf(a)..DayOf(b)
  PROVE  a <= DayEnd(d) /\ b >= DayStart(d)
BY ClockAssumption DEF DayOf, DayEnd, DayStart

\* What the property says of a result.
Present(r) ==
  r.status = "absent" =>
    /\ \A n \in RecordIds :
         ~ /\ records[n].user = r.key[1] /\ DayOf(records[n].time) = r.key[2]
           /\ records[n].shift = {r.key[3]}
    /\ \A n \in DOMAIN approved :
         ~ /\ approved[n].user = r.key[1] /\ approved[n].type = "leave"
           /\ approved[n].start < approved[n].end
           /\ r.key[2] \in DayOf(approved[n].start)..DayOf(approved[n].end)

\* A result says absent when no record and no leave was found.
LEMMA AbsentNothing ==
  ASSUME NEW i, DailyResult(i).status = "absent"
  PROVE  /\ Earliest(CheckIns(RecordsOf(i, records))) = {}
         /\ Latest(CheckOuts(RecordsOf(i, records))) = {}
         /\ ~ (MinutesOf(RequestsOf(i), {"leave"}) > 0)
<1> DEFINE in == Earliest(CheckIns(RecordsOf(i, records)))
           out == Latest(CheckOuts(RecordsOf(i, records)))
           leave == MinutesOf(RequestsOf(i), {"leave"})
<1>1. DailyResult(i).status = StatusOf(i, in = {} /\ ~Excused(i), out = {} /\ ~Excused(i), leave)
  BY DEF DailyResult
<1> HIDE DEF in, out, leave
<1>2. in = {} /\ out = {} /\ ~ (leave > 0)
  BY <1>1 DEF StatusOf, Occasion
<1> QED  BY <1>2 DEF in, out, leave

\* A record of the shift on the day is among those of the item.
LEMMA FoundByRecord ==
  ASSUME TypeOK, ColumnsOK, NEW i \in ScheduleIds, NEW n \in RecordIds,
         records[n].user = schedules[i].user, DayOf(records[n].time) = schedules[i].day,
         records[n].shift = {schedules[i].shift}
  PROVE  DailyResult(i).status # "absent"
<1> DEFINE ns == RecordsOf(i, records)
<1>1. records[n] \in ClockRecord /\ n \in DOMAIN records /\ records[n] # Gone
  BY RecordRows DEF RecordIds
<1>2. records[n].time \in Nat /\ records[n].type \in {"checkin", "checkout", "correction"}
  BY <1>1 DEF ClockRecord
<1>3. records[n].time \in DayStart(schedules[i].day)..DayEnd(schedules[i].day)
  BY <1>2, DayContains
<1>4. n \in ns
  BY <1>1, <1>3 DEF RecordsOf
<1>5. \A m \in ns : m \in RecordIds /\ records[m].time <= DayEnd(schedules[i].day)
  <2>1. DayEnd(schedules[i].day) \in Int
    BY <1>2, DayContains
  <2>2. ASSUME NEW m \in ns
        PROVE  m \in RecordIds /\ records[m].time <= DayEnd(schedules[i].day)
    <3>1. m \in DOMAIN records /\ records[m] # Gone
          /\ records[m].time \in DayStart(schedules[i].day)..DayEnd(schedules[i].day)
      BY DEF RecordsOf
    <3> QED  BY <3>1 DEF RecordIds
  <2> QED  BY <2>2
<1> HIDE DEF ns
<1>6. CASE records[n].type \in {"checkin", "correction"}
  <2>1. n \in CheckIns(ns) /\ CheckIns(ns) \in SUBSET RecordIds
    BY <1>4, <1>5, <1>6 DEF CheckIns
  <2>2. Earliest(CheckIns(ns)) # {}
    BY <2>1, EarliestExists
  <2> QED  BY <2>2, AbsentNothing DEF ns
<1>7. CASE records[n].type = "checkout"
  <2>1. n \in CheckOuts(ns) /\ CheckOuts(ns) \in SUBSET RecordIds
    BY <1>4, <1>5, <1>7 DEF CheckOuts
  <2>2. \A m \in CheckOuts(ns) : records[m].time <= DayEnd(schedules[i].day)
    BY <1>5 DEF CheckOuts
  <2>3. DayEnd(schedules[i].day) \in Int
    BY <1>2, DayContains
  <2>4. Latest(CheckOuts(ns)) # {}
    BY <2>1, <2>2, <2>3, LatestExists
  <2> QED  BY <2>4, AbsentNothing DEF ns
<1> QED  BY <1>2, <1>6, <1>7

\* Leave on the day is among the requests of the item, and counts.
LEMMA FoundByLeave ==
  ASSUME TypeOK, ColumnsOK, NEW i \in ScheduleIds, NEW n \in DOMAIN approved,
         approved[n].user = schedules[i].user, approved[n].type = "leave",
         approved[n].start < approved[n].end,
         schedules[i].day \in DayOf(approved[n].start)..DayOf(approved[n].end)
  PROVE  DailyResult(i).status # "absent"
<1> DEFINE S == {m \in RequestsOf(i) : approved[m].type \in {"leave"}}
<1>1. \A m \in DOMAIN approved : approved[m].start \in Nat /\ approved[m].end \in Nat
  <2>1. \A m \in DOMAIN approved : approved[m] \in Approvals
    BY DEF TypeOK
  <2> QED  BY <2>1 DEF Approvals
<1>2. schedules[i].day \in Int
  BY ScheduleTypes DEF Item
<1>3. /\ approved[n].start <= DayEnd(schedules[i].day)
      /\ approved[n].end >= DayStart(schedules[i].day)
  BY <1>1, <1>2, DayOverlaps
<1>4. n \in S
  BY <1>3 DEF RequestsOf
<1>5. IsFiniteSet(S)
  <2>1. IsFiniteSet(1..Len(approved)) /\ S \subseteq 1..Len(approved)
    BY FS_Interval DEF TypeOK, RequestsOf
  <2> QED  BY <2>1, FS_Subset
<1>6. \A m \in S : Minutes(m) \in Nat
  BY <1>1 DEF ColumnsOK, Minutes, RequestsOf
<1>7. Minutes(n) > 0
  BY <1>1 DEF Minutes
<1> HIDE DEF S
<1>8. MapThenSumSet(LAMBDA m : approved[m].end - approved[m].start, S) > 0
  BY <1>4, <1>5, <1>6, <1>7, PositiveSum
<1>9. MinutesOf(RequestsOf(i), {"leave"}) > 0
  BY <1>8 DEF MinutesOf, S
<1> QED  BY <1>9, AbsentNothing

\* Whatever is stored, a result says absent of nobody who was there.
ResultsPresent ==
  TypeOK /\ ColumnsOK => \A i \in ScheduleIds : Present(DailyResult(i))
LEMMA PresentResults == ResultsPresent
<1> SUFFICES ASSUME TypeOK, ColumnsOK, NEW i \in ScheduleIds
             PROVE  Present(DailyResult(i))
  BY DEF ResultsPresent
<1>1. DailyResult(i).key = <<schedules[i].user, schedules[i].day, schedules[i].shift>>
  BY DEF DailyResult, KeyOf
<1> QED  BY <1>1, FoundByRecord, FoundByLeave DEF Present

\* Every step stores whole rows.
LEMMA ColumnsStay ==
  ASSUME TypeOK, ColumnsOK, UNCHANGED <<scope, shifts, approved>>,
         records' \in Seq(ClockRecord \cup {Gone})
  PROVE  ColumnsOK'
<1>1. ClockRecord' = ClockRecord /\ Shifts' = Shifts
  BY DEF ClockRecord, Shifts
<1> QED  BY <1>1 DEF ColumnsOK

\* A request is stored with the times of its span.
LEMMA ColumnsApproved ==
  ASSUME TypeOK, ColumnsOK, NEW u \in Users, NEW span \in RequestSpans,
         NEW type \in RequestTypes \cup {"correction", "shift_swap"}, Approve(u, type, span),
         records' \in Seq(ClockRecord \cup {Gone})
  PROVE  ColumnsOK'
<1>1. ClockRecord' = ClockRecord /\ Shifts' = Shifts /\ shifts' = shifts
  BY DEF ClockRecord, Shifts, Approve
<1>2. span[1] <= span[2]
  BY ScopesAssumption DEF RequestSpans, TypeOK
<1>3. approved \in Seq(Approvals) /\ approved' = Append(approved, Approval(u, type, span))
  BY DEF TypeOK, Approve
<1>4. /\ Approval(u, type, span) \in Approvals
      /\ Approval(u, type, span).start <= Approval(u, type, span).end
  BY <1>2, DaysAreInt DEF Approval, Approvals
<1> HIDE DEF Approval
<1>5. \A n \in DOMAIN approved' : approved'[n].start <= approved'[n].end
  BY <1>3, <1>4 DEF ColumnsOK
<1> QED  BY <1>1, <1>5 DEF ColumnsOK

\* One step of the proof per action.
LEMMA ColumnsNext ==
  ASSUME TypeOK, ColumnsOK, [Next]_vars
  PROVE  ColumnsOK'
<1>1. /\ records \in Seq(ClockRecord \cup {Gone}) /\ ScheduleIds \cup {0} \subseteq Nat
      /\ RecordTypes \subseteq {"checkin", "checkout"} /\ RecordTimes \subseteq Nat
      /\ GivenMinutes \subseteq Nat /\ scope.hours \subseteq Hours
  <2>1. scope \in Scopes
    BY DEF TypeOK
  <2>2. /\ RecordTypes \subseteq {"checkin", "checkout"} /\ RecordTimes \subseteq Nat
        /\ GivenMinutes \subseteq Nat /\ scope.hours \subseteq Hours
    BY <2>1, ScopesAssumption, Zenon DEF RecordTypes, RecordTimes, GivenMinutes
  <2>3. records \in Seq(ClockRecord \cup {Gone}) /\ ScheduleIds \cup {0} \subseteq Nat
    BY RecordRows DEF ColumnsOK
  <2> QED  BY <2>2, <2>3
<1>2. \A r \in ClockRecord \cup {Gone} :
        /\ Append(records, r) \in Seq(ClockRecord \cup {Gone})
        /\ \A n \in DOMAIN records : [records EXCEPT ![n] = r] \in Seq(ClockRecord \cup {Gone})
  <2>1. records \in Seq(ClockRecord \cup {Gone})
    BY <1>1
  <2> QED  BY <2>1
<1>3. ASSUME NEW sh \in Shifts, NEW row \in ShiftRows, UpdateShift(sh, row)
      PROVE  ColumnsOK'
  <2>1. shifts' \in [Shifts -> Hours]
    BY <1>1, <1>3 DEF UpdateShift, ShiftRows, ColumnsOK
  <2>2. Shifts' = Shifts /\ ClockRecord' = ClockRecord /\ UNCHANGED <<records, approved>>
    BY <1>3 DEF UpdateShift, Shifts, ClockRecord
  <2> QED  BY <2>1, <2>2 DEF ColumnsOK
<1>4. ASSUME NEW i \in ScheduleIds, DeleteSchedule(i)
      PROVE  ColumnsOK'
  <2>1. \A n \in RecordIds : [records[n] EXCEPT !.schedule = 0] \in ClockRecord
    <3>1. \A r \in ClockRecord : [r EXCEPT !.schedule = 0] \in ClockRecord
      BY DEF ClockRecord
    <3> QED  BY <3>1, RecordRows
  <2>2. records' \in [1..Len(records) -> ClockRecord \cup {Gone}]
    BY <1>1, <1>4, <2>1 DEF DeleteSchedule
  <2>3. records' \in Seq(ClockRecord \cup {Gone})
    BY <1>1, <2>2
  <2> QED  BY <1>4, <2>3, ColumnsStay DEF DeleteSchedule
<1>5. ASSUME NEW u \in Users, NEW i \in ScheduleIds \cup {0}, NEW shift \in SUBSET Shifts,
             NEW type \in {"checkin", "checkout", "correction"}, NEW t \in Nat
      PROVE  WithStatus(NewRecord(u, i, shift, type, t)) \in ClockRecord
  <2>1. NewRecord(u, i, shift, type, t) \in ClockRecord
    BY <1>1 DEF NewRecord, ClockRecord
  <2> QED  BY <2>1, StatusOfRecord
<1>6. ASSUME NEW u \in Users, NEW i \in ScheduleIds \cup {0}, NEW shift \in SUBSET Shifts,
             NEW type \in RecordTypes, NEW t \in RecordTimes, CreateRecord(u, i, shift, type, t)
      PROVE  ColumnsOK'
  <2>1. WithStatus(NewRecord(u, i, shift, type, t)) \in ClockRecord
    BY <1>1, <1>5
  <2>2. records' \in Seq(ClockRecord \cup {Gone})
    BY <1>2, <1>6, <2>1 DEF CreateRecord
  <2> QED  BY <1>6, <2>2, ColumnsStay DEF CreateRecord
<1>7. ASSUME NEW n \in RecordIds, NEW u \in Users, NEW i \in ScheduleIds \cup {0},
             NEW shift \in SUBSET Shifts, NEW type \in RecordTypes \cup {records[n].type},
             NEW t \in RecordTimes \cup {records[n].time},
             NEW late \in GivenMinutes \cup {records[n].late},
             NEW early \in GivenMinutes \cup {records[n].early},
             UpdateRecord(n, u, i, shift, type, t, late, early)
      PROVE  ColumnsOK'
  <2> DEFINE new == [NewRecord(u, i, shift, type, t) EXCEPT !.late = late, !.early = early]
  <2>1. /\ type \in {"checkin", "checkout", "correction"} /\ t \in Nat
        /\ late \in Int /\ early \in Int
    BY <1>1, RecordRows DEF ClockRecord
  <2>2. new \in ClockRecord
    BY <1>1, <2>1 DEF NewRecord, ClockRecord
  <2> HIDE DEF new
  <2>4. WithStatus(new) \in ClockRecord
    BY <2>2, StatusOfRecord
  <2>3. records' \in Seq(ClockRecord \cup {Gone})
    BY <1>2, <1>7, <2>4, RecordRows DEF UpdateRecord, new
  <2> QED  BY <1>7, <2>3, ColumnsStay DEF UpdateRecord
<1>8. ASSUME NEW n \in RecordIds, DeleteRecord(n)
      PROVE  ColumnsOK'
  <2>1. records' \in Seq(ClockRecord \cup {Gone})
    BY <1>2, <1>8, RecordRows DEF DeleteRecord
  <2> QED  BY <1>8, <2>1, ColumnsStay DEF DeleteRecord
<1>9. ASSUME NEW u \in Users, NEW span \in RequestSpans, NEW i \in ScheduleIds \cup {0},
             ApproveRequest(u, span, i)
      PROVE  ColumnsOK'
  <2>1. CASE ApproveCorrection(u, span, i)
    <3> DEFINE shift == {schedules[j].shift : j \in {i} \cap ScheduleIds}
    <3>1. shift \in SUBSET Shifts
      BY ScheduleTypes DEF Item
    <3> HIDE DEF shift
    <3>2. span[1] \in Nat
      BY DaysAreInt
    <3>3. WithStatus(NewRecord(u, i, shift, "correction", span[1])) \in ClockRecord
      BY <1>5, <3>1, <3>2
    <3>4. records' \in Seq(ClockRecord \cup {Gone})
      BY <1>2, <2>1, <3>3 DEF ApproveCorrection, shift
    <3> QED  BY <2>1, <3>4, ColumnsApproved DEF ApproveCorrection
  <2>2. CASE \E type \in RequestTypes : ApprovePlain(u, type, span)
    BY <1>1, <2>2, ColumnsApproved DEF ApprovePlain
  <2>3. CASE ApproveSwap(u, span, i) \/ ApproveSwapInVain(u, span, i)
    BY <1>1, <2>3, ColumnsApproved DEF ApproveSwap, ApproveSwapInVain
  <2> QED  BY <1>9, <2>1, <2>2, <2>3 DEF ApproveRequest
<1>10. ASSUME UNCHANGED <<scope, shifts, records, approved>>
       PROVE  ColumnsOK'
  BY <1>1, <1>10, ColumnsStay
<1>11. ASSUME NEW sh, NEW us, NEW from, NEW to, NEW i, NEW u, NEW d,
              \/ CreateSchedules(us, sh, from, to) \/ UpdateSchedule(i, u, sh, d)
              \/ RebuildDailyResults(us, d) \/ RebuildMonthlySummaries(us) \/ UNCHANGED vars
       PROVE  ColumnsOK'
  BY <1>10, <1>11 DEF CreateSchedules, UpdateSchedule, RebuildDailyResults,
                      RebuildMonthlySummaries, vars
<1>12. \A shift \in {{}} \cup {{sh} : sh \in Shifts} : shift \in SUBSET Shifts
  OBVIOUS
<1>13. ASSUME NEW n \in RecordIds, NEW u \in Users, NEW i \in ScheduleIds \cup {0},
              NEW shift \in {{}} \cup {{sh} : sh \in Shifts},
              LET old == records[n]
              IN \E type \in RecordTypes \cup {old.type}, t \in RecordTimes \cup {old.time},
                    late \in GivenMinutes \cup {old.late}, early \in GivenMinutes \cup {old.early} :
                   UpdateRecord(n, u, i, shift, type, t, late, early)
       PROVE  ColumnsOK'
  <2>1. shift \in SUBSET Shifts
    BY <1>12
  <2>2. PICK type \in RecordTypes \cup {records[n].type},
             t \in RecordTimes \cup {records[n].time},
             late \in GivenMinutes \cup {records[n].late},
             early \in GivenMinutes \cup {records[n].early} :
               UpdateRecord(n, u, i, shift, type, t, late, early)
    BY <1>13, Zenon
  <2> QED  BY <1>7, <2>1, <2>2, Zenon
<1> QED  BY <1>3, <1>4, <1>6, <1>8, <1>9, <1>11, <1>12, <1>13, Zenon DEF Next

\* New results are results of schedule items, over what is stored after the step.
LEMMA NewResults ==
  ASSUME TypeOK, TypeOK', ColumnsOK, ColumnsOK', [Next]_vars, NEW r \in daily' \ daily
  PROVE  Present(r)'
<1>1. ASSUME NEW u, NEW span, NEW i, ApproveRequest(u, span, i)
      PROVE  Present(r)'
  <2>1. RebuildFor(u, span)
    BY <1>1 DEF ApproveRequest, ApprovePlain, ApproveCorrection, ApproveSwap, ApproveSwapInVain
  <2>2. \E j \in ScheduleIds' : r = DailyResult(j)'
    BY <2>1 DEF RebuildFor, WithResults, SchedulesOf
  <2>3. ResultsPresent'
    BY PresentResults, PTL
  <2>4. \A j \in ScheduleIds' : Present(DailyResult(j))'
    BY <2>3 DEF ResultsPresent
  <2> QED  BY <2>2, <2>4 DEF Present
<1>2. ASSUME NEW us, NEW d, RebuildDailyResults(us, d)
      PROVE  Present(r)'
  <2>1. \E j \in ScheduleIds : r = DailyResult(j)
    BY <1>2 DEF RebuildDailyResults, WithResults, SchedulesOf
  <2>2. \A j \in ScheduleIds : Present(DailyResult(j))
    BY PresentResults DEF ResultsPresent
  <2>3. Present(r)
    BY <2>1, <2>2
  <2>4. UNCHANGED <<records, approved>>
    BY <1>2 DEF RebuildDailyResults
  <2> QED  BY <2>3, <2>4 DEF Present, RecordIds
<1>3. ASSUME UNCHANGED daily
      PROVE  Present(r)'
  BY <1>3
<1>4. ASSUME NEW sh, NEW row, NEW us, NEW from, NEW to, NEW i, NEW u, NEW d, NEW n,
             NEW shift, NEW type, NEW t, NEW late, NEW early,
             \/ UpdateShift(sh, row) \/ CreateSchedules(us, sh, from, to)
             \/ UpdateSchedule(i, u, sh, d) \/ DeleteSchedule(i)
             \/ CreateRecord(u, i, shift, type, t)
             \/ UpdateRecord(n, u, i, shift, type, t, late, early) \/ DeleteRecord(n)
             \/ RebuildMonthlySummaries(us) \/ UNCHANGED vars
      PROVE  Present(r)'
  BY <1>3, <1>4 DEF vars, UpdateShift, CreateSchedules, UpdateSchedule, DeleteSchedule,
                    CreateRecord, UpdateRecord, DeleteRecord, RebuildMonthlySummaries
<1> QED  BY <1>1, <1>2, <1>4, Zenon DEF Next

\* However a day's result comes about, by a rebuild or by an approval, nobody who clocked in
\* or out for the shift, or was on approved leave, is absent (_build_daily_result).
THEOREM PresentAreNotAbsent == Spec => PresentNotAbsent
<1>1. Init => TypeOK /\ ColumnsOK
  <2>1. ASSUME Init PROVE TypeOK
    BY <2>1 DEF Init, TypeOK
  <2>2. ASSUME Init PROVE ColumnsOK
    <3>1. shifts \in [Shifts -> ShiftRows] /\ ShiftRows \subseteq Hours
      BY <2>2, ScopesAssumption DEF Init, ShiftRows
    <3> QED  BY <2>2, <3>1 DEF Init, ColumnsOK
  <2> QED  BY <2>1, <2>2
<1>2. TypeOK /\ ColumnsOK /\ [Next]_vars => (TypeOK /\ ColumnsOK)'
  BY StepKeepsShift, ColumnsNext
<1>3. TypeOK /\ ColumnsOK /\ [Next]_vars =>
        [\A r \in daily' : Rebuilt(r) /\ r.status = "absent" =>
           /\ \A n \in RecordIds' :
                ~ /\ records'[n].user = r.key[1] /\ DayOf(records'[n].time) = r.key[2]
                  /\ records'[n].shift = {r.key[3]}
           /\ \A n \in DOMAIN approved' :
                ~ /\ approved'[n].user = r.key[1] /\ approved'[n].type = "leave"
                  /\ approved'[n].start < approved'[n].end
                  /\ r.key[2] \in DayOf(approved'[n].start)..DayOf(approved'[n].end)]_vars
  <2> SUFFICES ASSUME TypeOK, ColumnsOK, [Next]_vars, NEW r \in daily',
                      Rebuilt(r), r.status = "absent"
               PROVE  /\ \A n \in RecordIds' :
                           ~ /\ records'[n].user = r.key[1]
                             /\ DayOf(records'[n].time) = r.key[2]
                             /\ records'[n].shift = {r.key[3]}
                      /\ \A n \in DOMAIN approved' :
                           ~ /\ approved'[n].user = r.key[1] /\ approved'[n].type = "leave"
                             /\ approved'[n].start < approved'[n].end
                             /\ r.key[2] \in DayOf(approved'[n].start)..DayOf(approved'[n].end)
    OBVIOUS
  <2>1. Present(r)'
    BY <1>2, NewResults DEF Rebuilt
  <2> QED  BY <2>1 DEF Present
<1> QED  BY <1>1, <1>2, <1>3, PTL DEF Spec, PresentNotAbsent

-----------------------------------------------------------------------------
(***************************************************************************)
(* Rest rules: the departments of a rule are those of one accepted         *)
(* request, and rest days are given as asked.                              *)
(*                                                                         *)
(* A handler commits the rule and replaces its departments later.  What    *)
(* carries over (Asked) is that the departments it goes on with are, by    *)
(* then, among those asked for its rule, and what is asked is never        *)
(* forgotten.  Between its deletion and its insertion others move; the     *)
(* locks see to it (Locks) that what it deleted is still all there is, and *)
(* that of two handlers which both found nothing to delete neither inserts *)
(* before the other is gone.  So what an insertion leaves is what its own  *)
(* request asked.                                                          *)
(*                                                                         *)
(* For a rule that is not disturbed more holds (Settled): one handler at   *)
(* most is at work on it, what that handler still has to write is what the *)
(* last accepted request means, and what it has written already is so too. *)
(* That is kept by a request that names only departments or only users     *)
(* because what it leaves out is read when the rule is committed, and      *)
(* nobody else writes it until the handler is done.                        *)
(***************************************************************************)

Request == [departments : SUBSET Departments, users : SUBSET RestUsers]
Transaction ==
  [step : {"idle", "rule", "departments", "insert", "users"}, id : Nat, rule : SUBSET Rule,
   departments : Optional(SUBSET Departments), users : Optional(SUBSET RestUsers),
   gone : SUBSET Departments]

RestTypeOK ==
  /\ restScope \in RestScopes
  /\ rules \in Seq(Rule)
  /\ departmentIds \in [RuleIds -> SUBSET Departments]
  /\ userIds \in [RuleIds -> SUBSET RestUsers]
  /\ asked \in [RuleIds -> Seq(Request)]
  /\ txn \in [Workers -> Transaction]

\* There is an identifier for every rule inserted or about to be.
Bounded == Len(rules) + Cardinality(Creating) <= MaxRules

\* A handler names a rule, or is about to insert one; the departments it goes on with were
\* asked for its rule.
AskedIn(s, ds) == \E n \in DOMAIN s : s[n].departments = ds
Asked ==
  \A w \in Workers :
    /\ txn[w].step = "rule" => /\ txn[w].rule # {}
                               /\ txn[w].id = 0 \/ txn[w].id \in DOMAIN rules
    /\ txn[w].step \in {"departments", "insert", "users"} => txn[w].id \in DOMAIN rules
    /\ txn[w].step \in {"departments", "insert"} =>
         /\ txn[w].departments # {}
         /\ \A ds \in txn[w].departments : AskedIn(asked[txn[w].id], ds)

\* What a handler deleted is still what is stored, and nothing if it is not alone.
Locks ==
  \A w \in Workers : txn[w].step = "insert" =>
    /\ txn[w].gone = departmentIds[txn[w].id]
    /\ \A v \in Workers :
         v # w /\ txn[v].step = "insert" /\ txn[v].id = txn[w].id => txn[w].gone = {}

OneRequest == \A r \in RuleIds : departmentIds[r] # {} => AskedIn(asked[r], departmentIds[r])

Inv == RestTypeOK /\ Bounded /\ Asked /\ Locks /\ OneRequest

-----------------------------------------------------------------------------
LEMMA RulesHaveIds ==
  ASSUME Inv
  PROVE  /\ DOMAIN rules = 1..Len(rules) /\ Len(rules) \in Nat
         /\ DOMAIN rules \subseteq RuleIds
         /\ IsFiniteSet(Creating) /\ Cardinality(Creating) \in Nat
<1>1. IsFiniteSet(Creating)
  BY RestScopesAssumption, FS_Subset DEF Inv, RestTypeOK, Creating, Workers
<1>2. Cardinality(Creating) \in Nat
  BY <1>1, FS_CardinalityType
<1>3. DOMAIN rules = 1..Len(rules) /\ Len(rules) \in Nat
  BY DEF Inv, RestTypeOK
<1>4. Len(rules) <= MaxRules
  BY <1>2, <1>3, BoundsAssumption DEF Inv, Bounded
<1> QED  BY <1>1, <1>2, <1>3, <1>4, BoundsAssumption DEF RuleIds

LEMMA IdleIsTransaction == Idle \in Transaction /\ Idle.step = "idle"
  BY DEF Idle, Transaction, Optional

LEMMA ChosenIn ==
  ASSUME NEW S, NEW old \in SUBSET S, NEW new \in Optional(SUBSET S)
  PROVE  Chosen(new, old) \in SUBSET S
<1>1. CASE new = {}
  BY <1>1 DEF Chosen
<1>2. CASE new # {}
  <2>1. (CHOOSE s \in new : TRUE) \in new
    BY <1>2
  <2> QED  BY <1>2, <2>1 DEF Chosen, Optional
<1> QED  BY <1>1, <1>2

LEMMA AppendKeeps ==
  ASSUME NEW S, NEW s \in Seq(S), NEW e \in S
  PROVE  /\ Append(s, e) \in Seq(S)
         /\ \A n \in DOMAIN s : n \in DOMAIN Append(s, e) /\ Append(s, e)[n] = s[n]
         /\ Len(Append(s, e)) \in DOMAIN Append(s, e)
         /\ Append(s, e)[Len(Append(s, e))] = e
  OBVIOUS

\* The rules about to be inserted, after one handler moved.
LEMMA CreatingAfter ==
  ASSUME Inv, NEW w \in Workers, NEW t \in Transaction, txn' = [txn EXCEPT ![w] = t],
         UNCHANGED restScope
  PROVE  /\ Cardinality(Creating') \in Nat
         /\ Cardinality(Creating') <= Cardinality(Creating) + 1
         /\ ~(t.step = "rule" /\ t.id = 0) =>
              /\ Cardinality(Creating') <= Cardinality(Creating)
              /\ txn[w].step = "rule" /\ txn[w].id = 0 =>
                   Cardinality(Creating') = Cardinality(Creating) - 1
<1>0. IsFiniteSet(Creating) /\ Cardinality(Creating) \in Nat
  BY RulesHaveIds
<1>1. Creating' = IF t.step = "rule" /\ t.id = 0 THEN Creating \cup {w} ELSE Creating \ {w}
  BY DEF Creating, At, Inv, RestTypeOK, Workers
<1>2. /\ IsFiniteSet(Creating \cup {w})
      /\ Cardinality(Creating \cup {w})
           = IF w \in Creating THEN Cardinality(Creating) ELSE Cardinality(Creating) + 1
  BY <1>0, FS_AddElement
<1>3. /\ IsFiniteSet(Creating \ {w})
      /\ Cardinality(Creating \ {w})
           = IF w \in Creating THEN Cardinality(Creating) - 1 ELSE Cardinality(Creating)
  BY <1>0, FS_RemoveElement
<1>4. Cardinality(Creating \ {w}) \in Nat
  BY <1>3, FS_CardinalityType
<1>5. w \in Creating <=> txn[w].step = "rule" /\ txn[w].id = 0
  BY DEF Creating, At
<1> QED  BY <1>0, <1>1, <1>2, <1>3, <1>4, <1>5

\* The locks of the others are not touched by a handler that holds none afterwards.
LEMMA NotInserting ==
  ASSUME Inv, NEW w \in Workers, NEW t, txn' = [txn EXCEPT ![w] = t], t.step # "insert",
         UNCHANGED <<restScope, departmentIds>>
  PROVE  Locks'
<1>1. Workers' = Workers /\ \A v \in Workers : txn'[v] = IF v = w THEN t ELSE txn[v]
  BY DEF Workers, Inv, RestTypeOK
<1> QED  BY <1>1 DEF Inv, Locks

\* A step that changes only where a handler is, to a place where it names a rule.
LEMMA HandlerStep ==
  ASSUME Inv, NEW w \in Workers, NEW t \in Transaction, txn' = [txn EXCEPT ![w] = t],
         UNCHANGED <<restScope, rules, departmentIds, userIds, asked>>,
         t.step \in {"idle", "rule"},
         t.step = "rule" =>
           /\ t.rule # {}
           /\ \/ t.id \in DOMAIN rules
              \/ t.id = 0 /\ Len(rules) + Cardinality(Creating) < MaxRules
  PROVE  Inv'
<1>1. RestTypeOK'
  BY DEF Inv, RestTypeOK, Workers
<1>2. Bounded'
  <2>1. 0 \notin DOMAIN rules /\ Len(rules) \in Nat /\ Cardinality(Creating) \in Nat
    BY RulesHaveIds
  <2>2. /\ Cardinality(Creating') \in Nat
        /\ Cardinality(Creating') <= Cardinality(Creating) + 1
        /\ ~(t.step = "rule" /\ t.id = 0) => Cardinality(Creating') <= Cardinality(Creating)
    BY CreatingAfter
  <2>3. Len(rules) + Cardinality(Creating') <= MaxRules
    BY <2>1, <2>2, BoundsAssumption DEF Inv, Bounded
  <2> QED  BY <2>3 DEF Bounded
<1>3. Asked'
  <2>1. \A v \in Workers : txn'[v] = IF v = w THEN t ELSE txn[v]
    BY DEF Inv, RestTypeOK
  <2>2. Workers' = Workers
    BY DEF Workers
  <2> QED  BY <2>1, <2>2 DEF Inv, Asked
<1>4. OneRequest'
  BY DEF Inv, OneRequest
<1>5. Locks'
  BY NotInserting
<1> QED  BY <1>1, <1>2, <1>3, <1>4, <1>5 DEF Inv

-----------------------------------------------------------------------------
(* The three transactions *)

LEMMA CommitRuleKeeps ==
  ASSUME Inv, NEW w \in Workers, CommitRule(w)
  PROVE  Inv'
<1> DEFINE t == txn[w]
           r == IF t.id = 0 THEN Len(rules) + 1 ELSE t.id
           rule == CHOOSE x \in t.rule : TRUE
           request == [departments |-> Chosen(t.departments, departmentIds[r]),
                       users |-> Chosen(t.users, userIds[r])]
           step == IF t.departments = {} THEN "users" ELSE "departments"
           next == [t EXCEPT !.step = step, !.id = r]
<1>1. /\ t \in Transaction /\ t.step = "rule" /\ t.rule # {}
      /\ t.id = 0 \/ t.id \in DOMAIN rules
  BY DEF CommitRule, At, Inv, RestTypeOK, Asked
<1>2. /\ DOMAIN rules = 1..Len(rules) /\ Len(rules) \in Nat /\ DOMAIN rules \subseteq RuleIds
      /\ Cardinality(Creating) \in Nat
  BY RulesHaveIds
<1>0. step \in {"departments", "users"} /\ (step = "departments" => t.departments # {})
  OBVIOUS
<1> HIDE DEF step
<1>3. next \in Transaction /\ next.id = r /\ next.step = step
      /\ next.departments = t.departments
  <2>1. r \in Nat
    BY <1>1, <1>2
  <2> HIDE DEF r
  <2> QED  BY <1>0, <1>1, <2>1 DEF Transaction
<1>4. /\ rules' = IF t.id = 0 THEN Append(rules, rule) ELSE [rules EXCEPT ![r] = rule]
      /\ asked' = [asked EXCEPT ![r] = Append(@, request)]
      /\ UNCHANGED <<restScope, departmentIds, userIds>>
  BY DEF CommitRule
<1>5. txn' = [txn EXCEPT ![w] = next]
  BY DEF CommitRule, Inv, RestTypeOK, step
<1>6. rule \in Rule
  <2>1. rule \in t.rule
    BY <1>1
  <2> QED  BY <1>1, <2>1 DEF Transaction
<1>7. /\ Cardinality(Creating') \in Nat
      /\ Cardinality(Creating') <= Cardinality(Creating)
      /\ t.id = 0 => Cardinality(Creating') = Cardinality(Creating) - 1
  BY <1>0, <1>1, <1>3, <1>4, <1>5, CreatingAfter
<1> HIDE DEF next, rule
<1>8. r \in RuleIds
  <2>1. CASE t.id = 0
    <3>1. Cardinality(Creating) >= 1
      BY <1>2, <1>7, <2>1
    <3> QED  BY <1>2, <2>1, <3>1, BoundsAssumption DEF Inv, Bounded, RuleIds
  <2>2. CASE t.id \in DOMAIN rules
    BY <1>2, <2>2
  <2> QED  BY <1>1, <2>1, <2>2
<1>9. request \in Request /\ \A ds \in t.departments : request.departments = ds
  <2>0. /\ t.departments \in Optional(SUBSET Departments) /\ t.users \in Optional(SUBSET RestUsers)
        /\ departmentIds[r] \in SUBSET Departments /\ userIds[r] \in SUBSET RestUsers
    BY <1>1, <1>8 DEF Inv, RestTypeOK, Transaction
  <2>1. Chosen(t.departments, departmentIds[r]) \in SUBSET Departments
    BY <2>0, ChosenIn
  <2>2. Chosen(t.users, userIds[r]) \in SUBSET RestUsers
    BY <2>0, ChosenIn
  <2>3. ASSUME NEW ds \in t.departments
        PROVE  Chosen(t.departments, departmentIds[r]) = ds
    <3>1. PICK s : t.departments = {s}
      BY <1>1, <2>3 DEF Transaction, Optional
    <3> QED  BY <2>3, <3>1 DEF Chosen
  <2> QED  BY <2>1, <2>2, <2>3 DEF Request
<1>10. /\ rules' \in Seq(Rule) /\ Len(rules') = IF t.id = 0 THEN Len(rules) + 1 ELSE Len(rules)
       /\ DOMAIN rules \subseteq DOMAIN rules' /\ r \in DOMAIN rules'
  <2>1. rules \in Seq(Rule)
    BY DEF Inv, RestTypeOK
  <2>2. CASE t.id = 0
    BY <1>2, <1>4, <1>6, <2>1, <2>2
  <2>3. CASE t.id # 0
    BY <1>1, <1>2, <1>4, <1>6, <2>1, <2>3
  <2> QED  BY <2>2, <2>3
<1> HIDE DEF r, request
<1>11. /\ asked' \in [RuleIds -> Seq(Request)]
       /\ \A q \in RuleIds : \A n \in DOMAIN asked[q] :
            n \in DOMAIN asked'[q] /\ asked'[q][n] = asked[q][n]
       /\ Len(asked'[r]) \in DOMAIN asked'[r] /\ asked'[r][Len(asked'[r])] = request
  <2>1. \A q \in RuleIds : asked[q] \in Seq(Request)
    BY DEF Inv, RestTypeOK
  <2>2. \A q \in RuleIds : asked'[q] = IF q = r THEN Append(asked[q], request) ELSE asked[q]
    BY <1>4 DEF Inv, RestTypeOK
  <2>3. \A q \in RuleIds :
          /\ Append(asked[q], request) \in Seq(Request)
          /\ \A n \in DOMAIN asked[q] : /\ n \in DOMAIN Append(asked[q], request)
                                       /\ Append(asked[q], request)[n] = asked[q][n]
          /\ Len(Append(asked[q], request)) \in DOMAIN Append(asked[q], request)
          /\ Append(asked[q], request)[Len(Append(asked[q], request))] = request
    BY <1>9, <2>1, AppendKeeps
  <2>4. asked' \in [RuleIds -> Seq(Request)]
    BY <1>4, <1>8, <2>3, Zenon DEF Inv, RestTypeOK
  <2>5. \A q \in RuleIds : \A n \in DOMAIN asked[q] :
            n \in DOMAIN asked'[q] /\ asked'[q][n] = asked[q][n]
    BY <2>2, <2>3, Zenon
  <2>6. Len(asked'[r]) \in DOMAIN asked'[r] /\ asked'[r][Len(asked'[r])] = request
    BY <1>8, <2>2, <2>3
  <2> QED  BY <2>4, <2>5, <2>6
<1>12. \A q \in RuleIds : \A ds : AskedIn(asked[q], ds) => AskedIn(asked'[q], ds)
  BY <1>11 DEF AskedIn
<1>13. RestTypeOK'
  BY <1>3, <1>4, <1>5, <1>10, <1>11 DEF Inv, RestTypeOK, Workers
<1>14. Bounded'
  <2>1. Len(rules) + Cardinality(Creating) <= MaxRules
    BY DEF Inv, Bounded
  <2>2. /\ Len(rules') = IF t.id = 0 THEN Len(rules) + 1 ELSE Len(rules)
        /\ Len(rules) \in Nat /\ Cardinality(Creating) \in Nat
        /\ Cardinality(Creating') \in Nat
        /\ Cardinality(Creating') <= Cardinality(Creating)
        /\ t.id = 0 => Cardinality(Creating') = Cardinality(Creating) - 1
    BY <1>2, <1>7, <1>10
  <2> HIDE DEF t
  <2>3. Len(rules') + Cardinality(Creating') <= MaxRules
    BY <2>1, <2>2, BoundsAssumption
  <2> QED  BY <2>3 DEF Bounded
<1>15. Asked'
  <2>1. \A v \in Workers : txn'[v] = IF v = w THEN next ELSE txn[v]
    BY <1>5 DEF Inv, RestTypeOK
  <2>2. Workers' = Workers
    BY <1>4 DEF Workers
  <2>3. \A ds \in next.departments : AskedIn(asked'[next.id], ds)
    BY <1>3, <1>9, <1>11 DEF AskedIn
  <2>4. ASSUME NEW v \in Workers, v # w
        PROVE  /\ txn[v].step = "rule" => /\ txn[v].rule # {}
                                          /\ txn[v].id = 0 \/ txn[v].id \in DOMAIN rules'
               /\ txn[v].step \in {"departments", "insert", "users"} =>
                    txn[v].id \in DOMAIN rules'
               /\ txn[v].step \in {"departments", "insert"} =>
                    /\ txn[v].departments # {}
                    /\ \A ds \in txn[v].departments : AskedIn(asked'[txn[v].id], ds)
    BY <1>2, <1>10, <1>12, <2>4 DEF Inv, Asked
  <2>5. ASSUME NEW v \in Workers
        PROVE  /\ txn'[v].step = "rule" => /\ txn'[v].rule # {}
                                           /\ txn'[v].id = 0 \/ txn'[v].id \in DOMAIN rules'
               /\ txn'[v].step \in {"departments", "insert", "users"} =>
                    txn'[v].id \in DOMAIN rules'
               /\ txn'[v].step \in {"departments", "insert"} =>
                    /\ txn'[v].departments # {}
                    /\ \A ds \in txn'[v].departments : AskedIn(asked'[txn'[v].id], ds)
    <3>1. CASE v = w
      BY <1>0, <1>3, <1>10, <2>1, <2>3, <3>1
    <3>2. CASE v # w
      BY <2>1, <2>4, <3>2
    <3> QED  BY <3>1, <3>2
  <2> QED  BY <2>2, <2>5 DEF Asked
<1>16. OneRequest'
  BY <1>4, <1>12 DEF Inv, OneRequest
<1>17. Locks'
  BY <1>0, <1>3, <1>4, <1>5, NotInserting
<1> QED  BY <1>13, <1>14, <1>15, <1>16, <1>17 DEF Inv

LEMMA DeleteDepartmentsKeeps ==
  ASSUME Inv, NEW w \in Workers, DeleteDepartments(w)
  PROVE  Inv'
<1> DEFINE t == txn[w]
           next == [t EXCEPT !.step = "insert", !.gone = departmentIds[t.id]]
<1>1. /\ t \in Transaction /\ t.step = "departments" /\ t.id \in DOMAIN rules
      /\ t.departments # {} /\ \A ds \in t.departments : AskedIn(asked[t.id], ds)
  BY DEF DeleteDepartments, At, Inv, RestTypeOK, Asked
<1>2. t.id \in RuleIds /\ departmentIds[t.id] \in SUBSET Departments
  BY <1>1, RulesHaveIds DEF Inv, RestTypeOK
<1>3. /\ next \in Transaction /\ next.step = "insert" /\ next.id = t.id
      /\ next.departments = t.departments /\ next.gone = departmentIds[t.id]
  BY <1>1, <1>2 DEF Transaction
<1>4. /\ txn' = [txn EXCEPT ![w] = next]
      /\ UNCHANGED <<restScope, rules, departmentIds, userIds, asked>>
      /\ Locking(t.id) = {} \/ departmentIds[t.id] = {}
  BY DEF DeleteDepartments, Inv, RestTypeOK
<1> HIDE DEF next
<1>5. Workers' = Workers /\ \A v \in Workers : txn'[v] = IF v = w THEN next ELSE txn[v]
  BY <1>4 DEF Workers, Inv, RestTypeOK
<1>6. RestTypeOK'
  BY <1>3, <1>4 DEF Inv, RestTypeOK, Workers
<1>7. Bounded'
  <2>1. Cardinality(Creating') \in Nat /\ Cardinality(Creating') <= Cardinality(Creating)
    BY <1>3, <1>4, CreatingAfter
  <2> QED  BY <1>4, <2>1, RulesHaveIds, BoundsAssumption DEF Inv, Bounded
<1>8. Asked'
  BY <1>1, <1>3, <1>4, <1>5 DEF Inv, Asked
<1>9. Locks'
  <2>1. ASSUME NEW v \in Workers, v # w, txn[v].step = "insert", txn[v].id = t.id
        PROVE  departmentIds[t.id] = {}
    <3>1. v \in Locking(t.id)
      BY <2>1 DEF Locking, At
    <3> QED  BY <1>4, <3>1
  <2> QED  BY <1>3, <1>4, <1>5, <2>1 DEF Inv, Locks
<1>10. OneRequest'
  BY <1>4 DEF Inv, OneRequest
<1> QED  BY <1>6, <1>7, <1>8, <1>9, <1>10 DEF Inv

\* What an insertion leaves is what it inserts.
LEMMA Inserted ==
  ASSUME Inv, NEW w \in Workers, InsertDepartments(w)
  PROVE  /\ txn[w] \in Transaction /\ txn[w].step = "insert"
         /\ txn[w].id \in DOMAIN rules /\ txn[w].id \in RuleIds
         /\ Chosen(txn[w].departments, {}) \in SUBSET Departments
         /\ Chosen(txn[w].departments, {}) \in txn[w].departments
         /\ departmentIds' = [departmentIds EXCEPT ![txn[w].id] = Chosen(txn[w].departments, {})]
<1> DEFINE t == txn[w]
           ds == Chosen(t.departments, {})
<1>1. t \in Transaction /\ t.step = "insert" /\ t.id \in DOMAIN rules /\ t.departments # {}
  BY DEF InsertDepartments, At, Inv, RestTypeOK, Asked
<1>2. t.id \in RuleIds
  BY <1>1, RulesHaveIds
<1>3. ds \in SUBSET Departments
  <2>1. t.departments \in Optional(SUBSET Departments) /\ {} \in SUBSET Departments
    BY <1>1 DEF Transaction
  <2> QED  BY <2>1, ChosenIn
<1>4. ds \in t.departments
  BY <1>1 DEF Chosen
<1>5. t.gone = departmentIds[t.id]
  BY <1>1 DEF Inv, Locks
<1>6. departmentIds' = [departmentIds EXCEPT ![t.id] = (departmentIds[t.id] \ t.gone) \cup ds]
  BY <1>2 DEF InsertDepartments, Inv, RestTypeOK
<1>7. (departmentIds[t.id] \ t.gone) \cup ds = ds
  BY <1>5
<1> QED  BY <1>1, <1>2, <1>3, <1>4, <1>6, <1>7

LEMMA InsertDepartmentsKeeps ==
  ASSUME Inv, NEW w \in Workers, InsertDepartments(w)
  PROVE  Inv'
<1> DEFINE t == txn[w]
           next == [t EXCEPT !.step = "users", !.gone = {}]
           ds == Chosen(t.departments, {})
<1>1. /\ t \in Transaction /\ t.step = "insert" /\ t.id \in DOMAIN rules /\ t.id \in RuleIds
      /\ ds \in SUBSET Departments /\ ds \in t.departments
      /\ departmentIds' = [departmentIds EXCEPT ![t.id] = ds]
  BY Inserted
<1>2. next \in Transaction /\ next.step = "users" /\ next.id = t.id
  BY <1>1 DEF Transaction
<1>3. /\ txn' = [txn EXCEPT ![w] = next]
      /\ UNCHANGED <<restScope, rules, userIds, asked>>
      /\ ds = {} \/ Locking(t.id) \subseteq {w}
  BY DEF InsertDepartments, Inv, RestTypeOK
<1> HIDE DEF next, ds
<1>4. Workers' = Workers /\ \A v \in Workers : txn'[v] = IF v = w THEN next ELSE txn[v]
  BY <1>3 DEF Workers, Inv, RestTypeOK
<1>5. \A r \in RuleIds : departmentIds'[r] = IF r = t.id THEN ds ELSE departmentIds[r]
  BY <1>1 DEF Inv, RestTypeOK
<1>6. RestTypeOK'
  BY <1>1, <1>2, <1>3 DEF Inv, RestTypeOK, Workers
<1>7. Bounded'
  <2>1. Cardinality(Creating') \in Nat /\ Cardinality(Creating') <= Cardinality(Creating)
    BY <1>2, <1>3, CreatingAfter
  <2> QED  BY <1>3, <2>1, RulesHaveIds, BoundsAssumption DEF Inv, Bounded
<1>8. Asked'
  BY <1>1, <1>2, <1>3, <1>4 DEF Inv, Asked
<1>9. Locks'
  <2>1. ASSUME NEW v \in Workers, v # w, txn[v].step = "insert"
        PROVE  txn[v].id \in RuleIds /\ departmentIds'[txn[v].id] = departmentIds[txn[v].id]
    <3>1. txn[v].id \in RuleIds
      BY <2>1, RulesHaveIds DEF Inv, Asked
    <3>2. CASE txn[v].id = t.id
      <4>1. v \in Locking(t.id)
        BY <2>1, <3>2 DEF Locking, At
      <4>2. ds = {}
        BY <1>3, <2>1, <4>1
      <4>3. txn[v].gone = departmentIds[txn[v].id] /\ txn[v].gone = {}
        BY <1>1, <2>1, <3>2 DEF Inv, Locks
      <4> QED  BY <1>5, <3>1, <3>2, <4>2, <4>3
    <3>3. CASE txn[v].id # t.id
      BY <1>5, <3>1, <3>3
    <3> QED  BY <3>1, <3>2, <3>3
  <2> QED  BY <1>2, <1>4, <2>1 DEF Inv, Locks
<1>10. OneRequest'
  <2>1. AskedIn(asked[t.id], ds)
    BY <1>1 DEF Inv, Asked
  <2> QED  BY <1>3, <1>5, <2>1 DEF Inv, OneRequest
<1> QED  BY <1>6, <1>7, <1>8, <1>9, <1>10 DEF Inv

LEMMA ReplaceUsersKeeps ==
  ASSUME Inv, NEW w \in Workers, ReplaceUsers(w)
  PROVE  Inv'
<1> DEFINE t == txn[w]
           us == Chosen(t.users, userIds[t.id])
<1>1. t \in Transaction /\ t.step = "users" /\ t.id \in RuleIds
  BY RulesHaveIds DEF ReplaceUsers, At, Inv, RestTypeOK, Asked
<1>2. us \in SUBSET RestUsers
  BY <1>1, ChosenIn DEF Inv, RestTypeOK, Transaction
<1>3. /\ userIds' = [userIds EXCEPT ![t.id] = us]
      /\ txn' = [txn EXCEPT ![w] = Idle]
      /\ UNCHANGED <<restScope, rules, departmentIds, asked>>
  BY <1>1 DEF ReplaceUsers, Inv, RestTypeOK
<1> HIDE DEF us
<1>4. RestTypeOK'
  BY <1>2, <1>3, IdleIsTransaction DEF Inv, RestTypeOK, Workers
<1>5. Bounded'
  <2>1. Cardinality(Creating') \in Nat /\ Cardinality(Creating') <= Cardinality(Creating)
    BY <1>3, IdleIsTransaction, CreatingAfter
  <2> QED  BY <1>3, <2>1, RulesHaveIds, BoundsAssumption DEF Inv, Bounded
<1>6. Asked'
  <2>1. \A v \in Workers : txn'[v] = IF v = w THEN Idle ELSE txn[v]
    BY <1>3 DEF Inv, RestTypeOK
  <2>2. Workers' = Workers
    BY <1>3 DEF Workers
  <2> QED  BY <1>3, <2>1, <2>2, IdleIsTransaction DEF Inv, Asked
<1>7. OneRequest'
  BY <1>3 DEF Inv, OneRequest
<1>8. Locks'
  BY <1>3, IdleIsTransaction, NotInserting
<1> QED  BY <1>4, <1>5, <1>6, <1>7, <1>8 DEF Inv

-----------------------------------------------------------------------------
(* The theorem *)

LEMMA InitInv == RestInit => Inv
<1> SUFFICES ASSUME RestInit  PROVE Inv
  OBVIOUS
<1>1. RestTypeOK
  BY IdleIsTransaction DEF RestInit, RestTypeOK, Workers
<1>2. Bounded
  <2>1. Creating = {}
    BY IdleIsTransaction DEF RestInit, Creating, At
  <2>2. Len(rules) = 0 /\ Cardinality(Creating) = 0
    BY <2>1, FS_EmptySet DEF RestInit
  <2>3. 0 + 0 <= MaxRules
    BY BoundsAssumption
  <2> QED  BY <2>2, <2>3 DEF Bounded
<1>3. Asked
  BY IdleIsTransaction DEF RestInit, Asked
<1>4. OneRequest
  BY DEF RestInit, OneRequest
<1>5. Locks
  BY IdleIsTransaction DEF RestInit, Locks
<1> QED  BY <1>1, <1>2, <1>3, <1>4, <1>5 DEF Inv

LEMMA StepInv ==
  ASSUME Inv, [RestNext]_restVars
  PROVE  Inv'
<1>1. CASE UNCHANGED restVars
  BY <1>1 DEF restVars, Inv, RestTypeOK, Bounded, Asked, Locks, OneRequest, Creating, At, Workers
<1>2. ASSUME NEW w \in Workers, NEW rule \in Rule, NEW ds \in SUBSET Departments,
             NEW us \in SUBSET RestUsers, CreateRestRule(w, rule, ds, us)
      PROVE  Inv'
  <2> DEFINE t == [step |-> "rule", id |-> 0, rule |-> {rule},
                   departments |-> {ds}, users |-> {us}, gone |-> {}]
  <2>1. t \in Transaction /\ t.step = "rule" /\ t.id = 0 /\ t.rule # {}
    BY DEF Transaction, Optional
  <2>2. /\ Len(rules) + Cardinality(Creating) < MaxRules
        /\ txn' = [txn EXCEPT ![w] = t]
        /\ UNCHANGED <<restScope, rules, departmentIds, userIds, asked>>
    BY <1>2 DEF CreateRestRule
  <2> HIDE DEF t
  <2> QED  BY <2>1, <2>2, HandlerStep
<1>3. ASSUME NEW w \in Workers, NEW r \in DOMAIN rules, NEW rule \in Rule,
             NEW ds \in Optional(SUBSET Departments), NEW us \in Optional(SUBSET RestUsers),
             UpdateRestRule(w, r, rule, ds, us)
      PROVE  Inv'
  <2> DEFINE t == [step |-> "rule", id |-> r, rule |-> {rule},
                   departments |-> ds, users |-> us, gone |-> {}]
  <2>1. r \in Nat
    BY DEF Inv, RestTypeOK
  <2>2. t \in Transaction /\ t.step = "rule" /\ t.id = r /\ t.rule # {}
    BY <2>1 DEF Transaction
  <2>3. /\ txn' = [txn EXCEPT ![w] = t]
        /\ UNCHANGED <<restScope, rules, departmentIds, userIds, asked>>
    BY <1>3 DEF UpdateRestRule
  <2> HIDE DEF t
  <2> QED  BY <2>2, <2>3, HandlerStep
<1>4. ASSUME NEW w \in Workers, NEW r \in DOMAIN rules, DeleteRestRule(w, r)
      PROVE  Inv'
  <2>1. [rules[r] EXCEPT !.active = FALSE] \in Rule
    <3>1. rules[r] \in Rule
      BY DEF Inv, RestTypeOK
    <3>2. \A rule \in Rule : [rule EXCEPT !.active = FALSE] \in Rule
      BY DEF Rule
    <3> QED  BY <3>1, <3>2
  <2>2. {} \in Optional(SUBSET Departments) /\ {} \in Optional(SUBSET RestUsers)
    BY DEF Optional
  <2> QED  BY <1>3, <1>4, <2>1, <2>2 DEF DeleteRestRule
<1>5. ASSUME NEW w \in Workers, Fail(w)
      PROVE  Inv'
  BY <1>5, HandlerStep, IdleIsTransaction DEF Fail
<1>6. ASSUME NEW u \in RestUsers, ChangeUser(u)
      PROVE  Inv'
  BY <1>6 DEF ChangeUser, Inv, RestTypeOK, Bounded, Asked, Locks, OneRequest, Creating, At, Workers
<1>7. ASSUME NEW w \in Workers, Continue(w)
      PROVE  Inv'
  BY <1>7, CommitRuleKeeps, DeleteDepartmentsKeeps, InsertDepartmentsKeeps, ReplaceUsersKeeps
     DEF Continue
<1> QED  BY <1>1, <1>2, <1>3, <1>4, <1>5, <1>6, <1>7 DEF RestNext, Begin

\* Requests for one rule, overlapping anywhere between their statements, failing or rolled
\* back for a deadlock, never leave a mixture of their departments
\* (replace_rest_rule_departments, under the locks of the default isolation level).
THEOREM DepartmentsAreOneRequests == RestSpec => []DepartmentsOfOneRequest
<1>1. RestInit => Inv
  BY InitInv
<1>2. Inv /\ [RestNext]_restVars => Inv'
  BY StepInv
<1>3. Inv => DepartmentsOfOneRequest
  BY RulesHaveIds DEF Inv, OneRequest, AskedIn, DepartmentsOfOneRequest
<1> QED  BY <1>1, <1>2, <1>3, PTL DEF RestSpec

-----------------------------------------------------------------------------
(* Rest days as asked *)

LastAsked(r) == asked[r][Len(asked[r])]

\* What a handler has still to write, and what it has written, is what its rule's last
\* accepted request means.
InProgress(w) ==
  /\ txn[w].step \in {"departments", "insert"} =>
       Chosen(txn[w].departments, {}) = LastAsked(txn[w].id).departments
  /\ txn[w].step = "users" =>
       departmentIds[txn[w].id] = LastAsked(txn[w].id).departments
  /\ txn[w].step \in {"departments", "insert", "users"} =>
       Chosen(txn[w].users, userIds[txn[w].id]) = LastAsked(txn[w].id).users

RuleAgrees(r) ==
  /\ \A v, w \in Handling(r) : v = w
  /\ \A w \in Handling(r) : InProgress(w)
  /\ Handling(r) = {} => /\ departmentIds[r] = LastAsked(r).departments
                         /\ userIds[r] = LastAsked(r).users

Settled ==
  \A r \in DOMAIN rules : Len(asked[r]) > 0 /\ (r \notin disturbed => RuleAgrees(r))

\* Where a handler moves, the rules it neither leaves nor takes up agree as they did.
LEMMA Elsewhere ==
  ASSUME Inv, NEW w \in Workers, NEW t, txn' = [txn EXCEPT ![w] = t], UNCHANGED restScope,
         NEW q, q \in RuleIds,
         departmentIds'[q] = departmentIds[q], userIds'[q] = userIds[q], asked'[q] = asked[q],
         w \notin Handling(q), t.step = "idle" \/ t.id # q, RuleAgrees(q)
  PROVE  RuleAgrees(q)'
<1>1. Workers' = Workers /\ \A v \in Workers : txn'[v] = IF v = w THEN t ELSE txn[v]
  BY DEF Workers, Inv, RestTypeOK
<1>2. Handling(q)' = Handling(q)
  BY <1>1 DEF Handling, At
<1>3. \A v \in Handling(q) : txn'[v] = txn[v] /\ txn[v].id = q
  BY <1>1 DEF Handling
<1>4. LastAsked(q)' = LastAsked(q)
  BY DEF LastAsked
<1>5. ASSUME NEW v \in Handling(q) PROVE InProgress(v)'
  <2>1. InProgress(v)
    BY <1>5 DEF RuleAgrees
  <2> QED  BY <1>3, <1>4, <2>1 DEF InProgress, LastAsked
<1> QED  BY <1>2, <1>4, <1>5 DEF RuleAgrees

\* A handler that leaves a rule it was alone at, or takes up one nobody is at.
LEMMA Alone ==
  ASSUME Inv, NEW w \in Workers, NEW t, txn' = [txn EXCEPT ![w] = t], UNCHANGED restScope,
         NEW q, \A v \in Handling(q) : v = w
  PROVE  Handling(q)' = IF t.step # "idle" /\ t.id = q THEN {w} ELSE {}
<1>1. Workers' = Workers /\ \A v \in Workers : txn'[v] = IF v = w THEN t ELSE txn[v]
  BY DEF Workers, Inv, RestTypeOK
<1> QED  BY <1>1 DEF Handling, At

LEMMA InitSettled == RestInit => Settled
  BY DEF RestInit, Settled

LEMMA CreateSettled ==
  ASSUME Inv, Settled, NEW w \in Workers, NEW rule, NEW ds, NEW us,
         CreateRestRule(w, rule, ds, us)
  PROVE  Settled'
<1> DEFINE t == [step |-> "rule", id |-> 0, rule |-> {rule},
                 departments |-> {ds}, users |-> {us}, gone |-> {}]
<1>1. /\ txn' = [txn EXCEPT ![w] = t] /\ txn[w].step = "idle"
      /\ UNCHANGED <<restScope, rules, departmentIds, userIds, asked, disturbed>>
  BY DEF CreateRestRule, At
<1>2. t.id = 0
  OBVIOUS
<1> HIDE DEF t
<1>3. ASSUME NEW q \in DOMAIN rules, q \notin disturbed PROVE RuleAgrees(q)'
  <2>1. q \in RuleIds /\ q # 0
    BY <1>3, RulesHaveIds DEF RuleIds
  <2>2. w \notin Handling(q)
    BY <1>1 DEF Handling, At
  <2>3. RuleAgrees(q)
    BY <1>3 DEF Settled
  <2> QED  BY <1>1, <1>2, <2>1, <2>2, <2>3, Elsewhere
<1> QED  BY <1>1, <1>3 DEF Settled

\* A request begins: alone it is now the only one, otherwise the rule is disturbed.
LEMMA UpdateSettled ==
  ASSUME Inv, Settled, NEW w \in Workers, NEW r \in DOMAIN rules, NEW rule, NEW ds, NEW us,
         UpdateRestRule(w, r, rule, ds, us)
  PROVE  Settled'
<1> DEFINE t == [step |-> "rule", id |-> r, rule |-> {rule},
                 departments |-> ds, users |-> us, gone |-> {}]
<1>1. /\ txn' = [txn EXCEPT ![w] = t] /\ txn[w].step = "idle"
      /\ UNCHANGED <<restScope, rules, departmentIds, userIds, asked>>
      /\ disturbed' = IF Handling(r) # {} THEN disturbed \cup {r}
                      ELSE IF ds # {} /\ us # {} THEN disturbed \ {r} ELSE disturbed
  BY DEF UpdateRestRule, At, Disturbing
<1>2. t.id = r /\ t.step = "rule"
  OBVIOUS
<1> HIDE DEF t
<1>3. ASSUME NEW q \in DOMAIN rules, q \notin disturbed' PROVE RuleAgrees(q)'
  <2>1. q \in RuleIds
    BY RulesHaveIds
  <2>2. CASE q = r
    <3>1. Handling(r) = {}
      BY <1>1, <1>3, <2>2
    <3>2. Handling(r)' = {w}
      BY <1>1, <1>2, <3>1, Alone
    <3>3. txn'[w].step = "rule"
      BY <1>1, <1>2 DEF Inv, RestTypeOK
    <3> QED  BY <2>2, <3>2, <3>3 DEF RuleAgrees, InProgress
  <2>3. CASE q # r
    <3>1. w \notin Handling(q)
      BY <1>1 DEF Handling, At
    <3>2. RuleAgrees(q)
      BY <1>1, <1>3, <2>3 DEF Settled
    <3> QED  BY <1>1, <1>2, <2>1, <2>3, <3>1, <3>2, Elsewhere
  <2> QED  BY <2>2, <2>3
<1> QED  BY <1>1, <1>3 DEF Settled

LEMMA CommitRuleSettled ==
  ASSUME Inv, Settled, NEW w \in Workers, CommitRule(w)
  PROVE  Settled'
<1> DEFINE t == txn[w]
           r == IF t.id = 0 THEN Len(rules) + 1 ELSE t.id
           rule == CHOOSE x \in t.rule : TRUE
           request == [departments |-> Chosen(t.departments, departmentIds[r]),
                       users |-> Chosen(t.users, userIds[r])]
           step == IF t.departments = {} THEN "users" ELSE "departments"
           next == [t EXCEPT !.step = step, !.id = r]
<1>0. /\ DOMAIN rules = 1..Len(rules) /\ Len(rules) \in Nat /\ DOMAIN rules \subseteq RuleIds
  BY RulesHaveIds
<1>1. /\ t \in Transaction /\ t.step = "rule"
      /\ t.id = 0 \/ t.id \in DOMAIN rules
  BY DEF CommitRule, At, Inv, RestTypeOK, Asked
<1>2. /\ rules' = IF t.id = 0 THEN Append(rules, rule) ELSE [rules EXCEPT ![r] = rule]
      /\ asked' = [asked EXCEPT ![r] = Append(@, request)]
      /\ txn' = [txn EXCEPT ![w] = next]
      /\ UNCHANGED <<restScope, departmentIds, userIds, disturbed>>
  BY DEF CommitRule, Inv, RestTypeOK
<1>3. /\ next.step = IF t.departments = {} THEN "users" ELSE "departments"
      /\ next.id = r
      /\ next.departments = t.departments /\ next.users = t.users
  BY <1>1 DEF Transaction
<1>4. /\ request.departments = Chosen(t.departments, departmentIds[r])
      /\ request.users = Chosen(t.users, userIds[r])
  OBVIOUS
<1>5. rules \in Seq(Rule)
  BY DEF Inv, RestTypeOK
<1>6. DOMAIN rules' = DOMAIN rules \cup {r} /\ (t.id = 0 => r \notin DOMAIN rules)
  <2> HIDE DEF rule
  <2>1. CASE t.id = 0
    BY <1>0, <1>2, <1>5, <2>1
  <2>2. CASE t.id # 0
    BY <1>1, <1>2, <2>2
  <2> QED  BY <2>1, <2>2
<1>7. Inv'
  BY CommitRuleKeeps
<1>8. r \in RuleIds /\ DOMAIN rules' \subseteq RuleIds
  <2>1. DOMAIN rules' = 1..Len(rules') /\ Len(rules') \in Nat
    BY <1>7 DEF Inv, RestTypeOK
  <2>2. IsFiniteSet(Creating')
    BY <1>7, RestScopesAssumption, FS_Subset DEF Inv, RestTypeOK, Creating, Workers
  <2>3. Cardinality(Creating') \in Nat
    BY <2>2, FS_CardinalityType
  <2>4. Len(rules') <= MaxRules
    BY <1>7, <2>1, <2>3, BoundsAssumption DEF Inv, Bounded
  <2>5. DOMAIN rules' \subseteq RuleIds
    BY <2>1, <2>4, BoundsAssumption DEF RuleIds
  <2> QED  BY <1>6, <2>5
<1> HIDE DEF next, rule, request, r
<1>9. PICK k \in RuleIds : k = r
  BY <1>8
<1>10. /\ k \in DOMAIN rules'
       /\ asked[k] \in Seq(Request) /\ asked'[k] = Append(asked[k], request)
       /\ request.departments = Chosen(t.departments, departmentIds[k])
       /\ request.users = Chosen(t.users, userIds[k])
       /\ next.id = k
  BY <1>2, <1>3, <1>4, <1>6, <1>9 DEF Inv, RestTypeOK
<1>11. asked'[k][Len(asked'[k])] = request /\ Len(asked'[k]) > 0
  BY <1>10
<1>12. txn'[w] = next
  BY <1>2 DEF Inv, RestTypeOK
<1>13. ASSUME k \notin disturbed PROVE RuleAgrees(k)'
  <2>1. \A v \in Handling(k) : v = w
    <3>1. CASE t.id = 0
      <4>1. k \notin DOMAIN rules /\ k # 0
        BY <1>6, <1>9, <3>1 DEF RuleIds
      <4>2. ASSUME NEW v \in Handling(k) PROVE FALSE
        <5>1. v \in Workers /\ txn[v].id = k /\ txn[v].step # "idle"
          BY <4>2 DEF Handling, At
        <5>2. txn[v].step \in {"rule", "departments", "insert", "users"}
          BY <5>1 DEF Inv, RestTypeOK, Transaction
        <5> QED  BY <4>1, <5>1, <5>2 DEF Inv, Asked
      <4> QED  BY <4>2
    <3>2. CASE t.id # 0
      <4>1. k = t.id /\ k \in DOMAIN rules
        BY <1>1, <1>9, <3>2 DEF r
      <4>2. w \in Handling(k)
        BY <1>1, <4>1 DEF Handling, At
      <4>3. RuleAgrees(k)
        BY <1>13, <4>1 DEF Settled
      <4> QED  BY <4>2, <4>3 DEF RuleAgrees
    <3> QED  BY <3>1, <3>2
  <2>2. Handling(k)' = {w}
    <3>1. Handling(k)' = IF next.step # "idle" /\ next.id = k THEN {w} ELSE {}
      BY <1>2, <2>1, Alone
    <3> QED  BY <1>3, <1>10, <3>1
  <2>3. /\ txn'[w].step = IF t.departments = {} THEN "users" ELSE "departments"
        /\ txn'[w].id = k
        /\ txn'[w].departments = t.departments /\ txn'[w].users = t.users
    BY <1>3, <1>10, <1>12
  <2>4. InProgress(w)'
    <3>1. /\ departmentIds'[k] = departmentIds[k] /\ userIds'[k] = userIds[k]
          /\ LastAsked(k)' = request
      BY <1>2, <1>11 DEF LastAsked
    <3>2. CASE t.departments = {}
      BY <1>10, <2>3, <3>1, <3>2 DEF InProgress, Chosen
    <3>3. CASE t.departments # {}
      <4>1. Chosen(t.departments, {}) = request.departments
        BY <1>10, <3>3 DEF Chosen
      <4> QED  BY <1>10, <2>3, <3>1, <3>3, <4>1 DEF InProgress
    <3> QED  BY <3>2, <3>3
  <2> QED  BY <2>2, <2>4 DEF RuleAgrees
<1>14. ASSUME NEW q \in DOMAIN rules, q # k
       PROVE  /\ Len(asked'[q]) > 0
              /\ q \notin disturbed => RuleAgrees(q)'
  <2>1. q \in RuleIds /\ asked'[q] = asked[q]
    BY <1>0, <1>2, <1>9, <1>14 DEF Inv, RestTypeOK
  <2>2. w \notin Handling(q)
    BY <1>0, <1>1, <1>9, <1>14 DEF Handling, r
  <2>3. Len(asked[q]) > 0 /\ (q \notin disturbed => RuleAgrees(q))
    BY DEF Settled
  <2>4. next.id # q
    BY <1>10, <1>14
  <2> QED  BY <1>2, <2>1, <2>2, <2>3, <2>4, Elsewhere
<1>15. ASSUME NEW q \in DOMAIN rules'
       PROVE  Len(asked'[q]) > 0 /\ (q \notin disturbed' => RuleAgrees(q)')
  BY <1>2, <1>6, <1>9, <1>11, <1>13, <1>14, <1>15
<1> QED  BY <1>15 DEF Settled

\* A handler goes on at its rule: nobody else's rule is touched.
LEMMA HandlerSettled ==
  ASSUME Inv, Settled, NEW w \in Workers, txn[w].step \in {"departments", "insert", "users"},
         NEW r \in RuleIds, r = txn[w].id,
         NEW t, txn' = [txn EXCEPT ![w] = t], t.step = "idle" \/ t.id = r,
         \A q \in RuleIds : q # r =>
           departmentIds'[q] = departmentIds[q] /\ userIds'[q] = userIds[q],
         UNCHANGED <<restScope, rules, asked, disturbed>>,
         InProgress(w) /\ (\A v \in Handling(r) : v = w) => RuleAgrees(r)'
  PROVE  Settled'
<1>1. ASSUME NEW q \in DOMAIN rules, q \notin disturbed PROVE RuleAgrees(q)'
  <2>1. q \in RuleIds
    BY RulesHaveIds
  <2>2. RuleAgrees(q)
    BY <1>1 DEF Settled
  <2>3. CASE q = r
    <3>1. w \in Handling(r)
      BY DEF Handling, At
    <3>2. \A v \in Handling(r) : v = w
      BY <2>2, <2>3, <3>1 DEF RuleAgrees
    <3>3. InProgress(w)
      BY <2>2, <2>3, <3>1 DEF RuleAgrees
    <3> QED  BY <2>3, <3>2, <3>3
  <2>4. CASE q # r
    <3>1. w \notin Handling(q)
      BY <2>4 DEF Handling
    <3>2. t.step = "idle" \/ t.id # q
      BY <2>4
    <3> QED  BY <2>1, <2>2, <2>4, <3>1, <3>2, Elsewhere
  <2> QED  BY <2>3, <2>4
<1> QED  BY <1>1 DEF Settled

LEMMA DeleteDepartmentsSettled ==
  ASSUME Inv, Settled, NEW w \in Workers, DeleteDepartments(w)
  PROVE  Settled'
<1> DEFINE next == [txn[w] EXCEPT !.step = "insert", !.gone = departmentIds[txn[w].id]]
<1>1. /\ txn[w] \in Transaction /\ txn[w].step = "departments" /\ txn[w].id \in RuleIds
  BY RulesHaveIds DEF DeleteDepartments, At, Inv, RestTypeOK, Asked
<1>2. PICK r \in RuleIds : r = txn[w].id
  BY <1>1
<1>3. /\ txn' = [txn EXCEPT ![w] = next]
      /\ UNCHANGED <<restScope, rules, departmentIds, userIds, asked, disturbed>>
  BY DEF DeleteDepartments, Inv, RestTypeOK
<1>4. /\ next.step = "insert" /\ next.id = r
      /\ next.departments = txn[w].departments /\ next.users = txn[w].users
  BY <1>1, <1>2 DEF Transaction
<1> HIDE DEF next
<1>5. txn'[w] = next
  BY <1>3 DEF Inv, RestTypeOK
<1>6. ASSUME InProgress(w), \A v \in Handling(r) : v = w PROVE RuleAgrees(r)'
  <2>1. Handling(r)' = IF next.step # "idle" /\ next.id = r THEN {w} ELSE {}
    BY <1>3, <1>6, Alone
  <2>2. Handling(r)' = {w}
    BY <1>4, <2>1
  <2>3. /\ Chosen(txn[w].departments, {}) = asked[r][Len(asked[r])].departments
        /\ Chosen(txn[w].users, userIds[r]) = asked[r][Len(asked[r])].users
    BY <1>1, <1>2, <1>6 DEF InProgress, LastAsked
  <2>4. InProgress(w)'
    BY <1>3, <1>4, <1>5, <2>3 DEF InProgress, LastAsked
  <2> QED  BY <2>2, <2>4 DEF RuleAgrees
<1> QED  BY <1>1, <1>2, <1>3, <1>4, <1>6, HandlerSettled

LEMMA InsertDepartmentsSettled ==
  ASSUME Inv, Settled, NEW w \in Workers, InsertDepartments(w)
  PROVE  Settled'
<1> DEFINE next == [txn[w] EXCEPT !.step = "users", !.gone = {}]
<1>1. /\ txn[w] \in Transaction /\ txn[w].step = "insert" /\ txn[w].id \in RuleIds
  BY Inserted
<1>2. PICK r \in RuleIds : r = txn[w].id
  BY <1>1
<1>3. /\ departmentIds' = [departmentIds EXCEPT ![r] = Chosen(txn[w].departments, {})]
      /\ txn' = [txn EXCEPT ![w] = next]
      /\ UNCHANGED <<restScope, rules, userIds, asked, disturbed>>
  BY <1>2, Inserted DEF InsertDepartments, Inv, RestTypeOK
<1>4. next.step = "users" /\ next.id = r /\ next.users = txn[w].users
  BY <1>1, <1>2 DEF Transaction
<1> HIDE DEF next
<1>5. /\ departmentIds'[r] = Chosen(txn[w].departments, {})
      /\ \A q \in RuleIds : q # r => departmentIds'[q] = departmentIds[q]
      /\ txn'[w] = next
  BY <1>3 DEF Inv, RestTypeOK
<1>6. ASSUME InProgress(w), \A v \in Handling(r) : v = w PROVE RuleAgrees(r)'
  <2>1. Handling(r)' = IF next.step # "idle" /\ next.id = r THEN {w} ELSE {}
    BY <1>3, <1>6, Alone
  <2>2. Handling(r)' = {w}
    BY <1>4, <2>1
  <2>3. /\ departmentIds'[r] = asked[r][Len(asked[r])].departments
        /\ Chosen(txn[w].users, userIds[r]) = asked[r][Len(asked[r])].users
    BY <1>1, <1>2, <1>5, <1>6 DEF InProgress, LastAsked
  <2>4. InProgress(w)'
    BY <1>3, <1>4, <1>5, <2>3 DEF InProgress, LastAsked
  <2> QED  BY <2>2, <2>4 DEF RuleAgrees
<1> QED  BY <1>1, <1>2, <1>3, <1>4, <1>5, <1>6, HandlerSettled

LEMMA ReplaceUsersSettled ==
  ASSUME Inv, Settled, NEW w \in Workers, ReplaceUsers(w)
  PROVE  Settled'
<1>1. /\ txn[w].step = "users" /\ txn[w].id \in RuleIds
  BY RulesHaveIds DEF ReplaceUsers, At, Inv, Asked
<1>2. PICK r \in RuleIds : r = txn[w].id
  BY <1>1
<1>3. /\ userIds' = [userIds EXCEPT ![r] = Chosen(txn[w].users, @)]
      /\ txn' = [txn EXCEPT ![w] = Idle]
      /\ UNCHANGED <<restScope, rules, departmentIds, asked, disturbed>>
  BY <1>2 DEF ReplaceUsers
<1>4. /\ userIds'[r] = Chosen(txn[w].users, userIds[r])
      /\ \A q \in RuleIds : q # r => userIds'[q] = userIds[q]
  BY <1>3 DEF Inv, RestTypeOK
<1>5. ASSUME InProgress(w), \A v \in Handling(r) : v = w PROVE RuleAgrees(r)'
  <2>1. Handling(r)' = IF Idle.step # "idle" /\ Idle.id = r THEN {w} ELSE {}
    BY <1>3, <1>5, Alone
  <2>2. Handling(r)' = {}
    BY <2>1, IdleIsTransaction
  <2>3. /\ departmentIds[r] = asked[r][Len(asked[r])].departments
        /\ userIds'[r] = asked[r][Len(asked[r])].users
    BY <1>1, <1>2, <1>4, <1>5 DEF InProgress, LastAsked
  <2> QED  BY <1>3, <2>2, <2>3 DEF RuleAgrees, LastAsked
<1> QED  BY <1>1, <1>2, <1>3, <1>4, <1>5, IdleIsTransaction, HandlerSettled

\* A request that stops halfway leaves its rule disturbed.
LEMMA FailSettled ==
  ASSUME Inv, Settled, NEW w \in Workers, Fail(w)
  PROVE  Settled'
<1>1. /\ txn' = [txn EXCEPT ![w] = Idle]
      /\ disturbed' = IF txn[w].id = 0 THEN disturbed ELSE disturbed \cup {txn[w].id}
      /\ UNCHANGED <<restScope, rules, departmentIds, userIds, asked>>
  BY DEF Fail
<1>2. ASSUME NEW q \in DOMAIN rules, q \notin disturbed' PROVE RuleAgrees(q)'
  <2>1. q \in RuleIds /\ q # 0
    BY RulesHaveIds DEF RuleIds
  <2>2. q # txn[w].id /\ q \notin disturbed
    BY <1>1, <1>2, <2>1
  <2>3. RuleAgrees(q) /\ w \notin Handling(q)
    BY <2>2 DEF Settled, Handling
  <2> QED  BY <1>1, <2>1, <2>3, IdleIsTransaction, Elsewhere
<1> QED  BY <1>1, <1>2 DEF Settled

LEMMA SettledKept == Inv /\ Settled /\ [RestNext]_restVars => Settled'
<1> SUFFICES ASSUME Inv, Settled, [RestNext]_restVars  PROVE Settled'
  OBVIOUS
<1>1. CASE UNCHANGED restVars
  BY <1>1 DEF restVars, Settled, RuleAgrees, InProgress, LastAsked, Handling, At, Workers
<1>2. ASSUME NEW w \in Workers, Begin(w)
      PROVE  Settled'
  BY <1>2, CreateSettled, UpdateSettled DEF Begin, DeleteRestRule
<1>3. ASSUME NEW w \in Workers, Continue(w)
      PROVE  Settled'
  BY <1>3, CommitRuleSettled, DeleteDepartmentsSettled, InsertDepartmentsSettled,
     ReplaceUsersSettled DEF Continue
<1>4. ASSUME NEW w \in Workers, Fail(w)
      PROVE  Settled'
  BY <1>4, FailSettled
<1>5. ASSUME NEW u \in RestUsers, ChangeUser(u)
      PROVE  Settled'
  BY <1>5 DEF ChangeUser, Settled, RuleAgrees, InProgress, LastAsked, Handling, At, Workers
<1> QED  BY <1>1, <1>2, <1>3, <1>4, <1>5 DEF RestNext

\* When nobody is at work, a rule that is not disturbed names whom it was asked to name.
LEMMA SettledRest == Inv /\ Settled => RestAsAsked
<1> SUFFICES ASSUME Inv, Settled, \A w \in Workers : At(w, "idle"), disturbed = {},
                    NEW u \in RestUsers
             PROVE  IsRestDay(u) <=>
                      \E r \in DOMAIN rules : /\ rules[r].active /\ rules[r].matches
                                              /\ Applies(asked[r][Len(asked[r])], u)
  BY DEF RestAsAsked
<1>1. ASSUME NEW r \in DOMAIN rules
      PROVE  Applies(Assigned(r), u) <=> Applies(asked[r][Len(asked[r])], u)
  <2>1. Handling(r) = {}
    BY DEF Handling
  <2>2. departmentIds[r] = LastAsked(r).departments /\ userIds[r] = LastAsked(r).users
    BY <2>1 DEF Settled, RuleAgrees
  <2> QED  BY <2>2 DEF Applies, Assigned, LastAsked
<1> QED  BY <1>1 DEF IsRestDay

\* Once nobody is handling a rest rule, each rule gives the day off to exactly those its
\* last accepted request meant, unless that request failed halfway or overlapped another
\* (create_rest_rule, update_rest_rule, _is_rest_day): three transactions per request,
\* optional fields and any number of administrators notwithstanding.
THEOREM RestIsAsAsked == RestSpec => []RestAsAsked
<1>1. RestInit => Inv /\ Settled
  BY InitInv, InitSettled
<1>2. (Inv /\ Settled) /\ [RestNext]_restVars => (Inv /\ Settled)'
  BY StepInv, SettledKept
<1>3. Inv /\ Settled => RestAsAsked
  BY SettledRest
<1> QED  BY <1>1, <1>2, <1>3, PTL DEF RestSpec
=============================================================================
