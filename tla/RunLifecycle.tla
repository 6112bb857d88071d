----------------------------- MODULE RunLifecycle -----------------------------
(***************************************************************************)
(* What the runtime promises a client that only looks at run rows: a       *)
(* thread works on at most one run at a time, a run begins at most once,   *)
(* and it ends at most once, with one outcome that never changes again.    *)
(* ExecutionEngine is checked to implement this specification.             *)
(***************************************************************************)

CONSTANTS Thread,       \* conversation threads
          Run,          \* requests to create a run, each with its own run id
          ThreadOf,     \* ThreadOf[r] is the thread a request names
          NoRun         \* the absence of a run

VARIABLES busy,         \* busy[t] is the run thread t works on, or NoRun
          outcome       \* outcome[r] is how run r ended, or "none"

lifecycleVars == <<busy, outcome>>

Outcome == {"cancelled", "completed", "failed"}

Init == /\ busy = [t \in Thread |-> NoRun]
        /\ outcome = [r \in Run |-> "none"]

(* The thread is idle and takes a run that has not been worked on before. *)
Begin(r) == /\ busy[ThreadOf[r]] = NoRun
            /\ outcome[r] = "none"
            /\ busy' = [busy EXCEPT ![ThreadOf[r]] = r]
            /\ UNCHANGED outcome

(* The run the thread works on ends and the thread becomes idle. *)
End(r) == /\ busy[ThreadOf[r]] = r
          /\ \E o \in Outcome : outcome' = [outcome EXCEPT ![r] = o]
          /\ busy' = [busy EXCEPT ![ThreadOf[r]] = NoRun]

Next == \E r \in Run : Begin(r) \/ End(r)

Spec == Init /\ [][Next]_lifecycleVars

=============================================================================
