--------------------------- MODULE RequestDecision ---------------------------
(***************************************************************************)
(* What the attendance module promises of a request                        *)
(* (src/backend/app/services/attendance_service.py): its owner may change  *)
(* it until it is decided, it is decided once and for good, and an approval*)
(* takes effect at most once, with the content that was approved.          *)
(***************************************************************************)
EXTENDS Naturals

CONSTANTS
  Requests,  \* the requests that may ever be submitted
  Contents,  \* what a request may ask for
  Blank      \* the content of a request that is not submitted yet

VARIABLES
  decision,  \* "none" until the request is submitted, then its status
  content,   \* what it asks for
  effects    \* how often its approval took effect

promised == <<decision, content, effects>>

Decisions == {"approved", "rejected", "withdrawn"}

Init ==
  /\ decision = [i \in Requests |-> "none"]
  /\ content = [i \in Requests |-> Blank]
  /\ effects = [i \in Requests |-> 0]

Submit(i, c) ==
  /\ decision[i] = "none"
  /\ decision' = [decision EXCEPT ![i] = "pending"]
  /\ content' = [content EXCEPT ![i] = c]
  /\ UNCHANGED effects

Edit(i, c) ==
  /\ decision[i] = "pending"
  /\ content' = [content EXCEPT ![i] = c]
  /\ UNCHANGED <<decision, effects>>

Decide(i, d) ==
  /\ decision[i] = "pending"
  /\ decision' = [decision EXCEPT ![i] = d]
  /\ UNCHANGED <<content, effects>>

TakeEffect(i) ==
  /\ decision[i] = "approved"
  /\ effects[i] = 0
  /\ effects' = [effects EXCEPT ![i] = 1]
  /\ UNCHANGED <<decision, content>>

Next ==
  \E i \in Requests :
    \/ \E c \in Contents : Submit(i, c) \/ Edit(i, c)
    \/ \E d \in Decisions : Decide(i, d)
    \/ TakeEffect(i)

Spec == Init /\ [][Next]_promised
=============================================================================
