--------------------------- MODULE MCEventStream ---------------------------
(***************************************************************************)
(* Instances of EventStream for TLC.                                       *)
(***************************************************************************)
EXTENDS EventStream

CONSTANTS r1, r2, p1

\* Each page request asks for the events of one run (GET /v1/runs/{id}/events).
RunScope == [p \in Pager |-> {r1}]

\* Each page request asks for the events of a thread with two runs
\* (GET /v1/threads/{id}/events).
ThreadScope == [p \in Pager |-> Run]

=============================================================================
