------------------------- MODULE MCSchemaMigrations -------------------------
(* An instance of SchemaMigrations for TLC. *)
EXTENDS SchemaMigrations

\* From every release: interrupted once, or one revision taken back and run again.
MCInterrupted == [starts |-> 0..Newest, crashes |-> 1, downs |-> 0]
MCTakenBack == [starts |-> 0..Newest, crashes |-> 0, downs |-> 1]
\* Interrupted twice, from the release before 0036.
MCTwice == [starts |-> {36}, crashes |-> 2, downs |-> 0]
MCScopes == {MCInterrupted, MCTakenBack, MCTwice}
=============================================================================
