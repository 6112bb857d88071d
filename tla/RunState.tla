------------------------------ MODULE RunState ------------------------------
(***************************************************************************)
(* The run state machine of runtime/run_state.py: the seven statuses a run *)
(* row can hold, which of them are terminal, and the transitions that      *)
(* EventStore.update_run_status accepts.  Every other transition raises    *)
(* InvalidRunTransitionError, except from a status to itself, which        *)
(* update_run_status answers without writing.                              *)
(***************************************************************************)

TerminalRunStatuses == {"cancelled", "completed", "failed"}

NonTerminalRunStatuses == {"queued", "running", "waiting_approval", "cancelling"}

RunStatuses == TerminalRunStatuses \cup NonTerminalRunStatuses

AllowedRunTransitions(from) ==
    CASE from = "queued" -> {"running", "cancelling", "failed"}
      [] from = "running" -> {"waiting_approval", "cancelling", "completed", "failed"}
      [] from = "waiting_approval" -> {"running", "cancelling", "completed"}
      [] from = "cancelling" -> {"cancelled", "failed"}
      [] OTHER -> {}

ValidRunTransition(from, to) == from = to \/ to \in AllowedRunTransitions(from)

=============================================================================
