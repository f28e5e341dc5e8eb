------------------------ MODULE MCAttendanceRequests ------------------------
(* An instance of AttendanceRequests for TLC. *)
EXTENDS AttendanceRequests

CONSTANTS w1, w2

\* Two requests of every type, handled one at a time; one request of a type, two at a time.
MCOrderly == [workers |-> {w1}, types |-> Types, requests |-> 2, statuses |-> {}]
MCConcurrent(type) == [workers |-> {w1, w2}, types |-> {type}, requests |-> 1,
                       statuses |-> {"approved"}]
MCScopes == {MCOrderly, MCConcurrent("leave"), MCConcurrent("correction")}
=============================================================================
