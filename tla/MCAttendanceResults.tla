------------------------- MODULE MCAttendanceResults -------------------------
(* An instance of AttendanceResults for TLC: days of four units and one employee. *)
EXTENDS AttendanceResults

CONSTANTS u1, early, night

\* From the second to the fourth unit of a day, or into the next day.
MCDayShift == [start |-> 1, end |-> 3, cross |-> FALSE, flexible |-> 0,
               lateAllowed |-> 0, earlyAllowed |-> 0]
MCNightShift == [start |-> 3, end |-> 1, cross |-> TRUE, flexible |-> 0,
                 lateAllowed |-> 0, earlyAllowed |-> 0]

\* Two clock records of a shift over midnight.
MCRecords ==
  [shifts |-> {early}, hours |-> {MCNightShift}, rest |-> {}, lastDay |-> 0,
   times |-> {3, 5}, minutes |-> {}, clock |-> {"checkin", "checkout"},
   requests |-> {}, spans |-> {}, reports |-> {},
   maxSchedules |-> 1, maxRecords |-> 2, maxRequests |-> 0]
\* One clock record, with minutes of its own, of a shift whose hours change.
MCHours ==
  [MCRecords EXCEPT !.hours = {MCDayShift, MCNightShift}, !.times = {1, 3, 5},
                    !.minutes = {2}, !.maxRecords = 1]
\* Requests without effect on schedules, and the month they end in.
MCMonth ==
  [shifts |-> {early}, hours |-> {MCDayShift}, rest |-> {<<u1, 0>>}, lastDay |-> 1,
   times |-> {1, 2}, minutes |-> {}, clock |-> {"checkin"},
   requests |-> {"leave", "overtime", "rest", "business_trip", "outing"},
   spans |-> {<<1, 3>>, <<1, 7>>, <<5, 7>>},
   reports |-> {u1}, maxSchedules |-> 2, maxRecords |-> 1, maxRequests |-> 1]
\* Swaps and corrections within the schedules of two shifts.
MCSwap ==
  [shifts |-> {early, night}, hours |-> {MCDayShift}, rest |-> {}, lastDay |-> 1,
   times |-> {}, minutes |-> {}, clock |-> {}, requests |-> {"correction", "shift_swap"},
   spans |-> {<<1, 3>>, <<1, 7>>, <<5, 7>>},
   reports |-> {}, maxSchedules |-> 3, maxRecords |-> 1, maxRequests |-> 1]
MCScopes == {MCRecords, MCHours, MCMonth, MCSwap}
=============================================================================
