--------------------------- MODULE ExecutionEngine ---------------------------
(***************************************************************************)
(* runtime/execution_engine.py: the in-process engine that takes a run     *)
(* from its creation, through the execution of the agent graph and a human *)
(* approval, to a terminal status, and that repairs the runs a dead        *)
(* process left behind when it starts again.                               *)
(*                                                                         *)
(* Granularity.  The engine is single-threaded asyncio code.  Between two  *)
(* real suspension points (a chunk of the graph's stream, the wait for the *)
(* approval event, the checkpoint work after the end, the first step of a  *)
(* created task) a coroutine runs alone, so one action is one such stretch *)
(* of code.  What it leaves in SQLite is not atomic: every event and every *)
(* status change is a commit of its own.  An action therefore queues its   *)
(* commits in writes, Commit performs them one by one, no other coroutine  *)
(* moves before the queue is empty, and a crash may come between any two.  *)
(* HTTP threads that read the store see the states in between.             *)
(***************************************************************************)
EXTENDS RunState, Integers, Sequences, FiniteSets

CONSTANTS
    Thread,             \* conversation threads
    Run,                \* requests that may create a run; each has its run id
    Managed,            \* ManagedRun objects the process can hold
    NoRun, NoManaged,   \* the absence of a run, of an object
    ThreadOf,           \* ThreadOf[r] is the thread request r names
    ConfirmedRun,       \* requests with confirm_dangerous = True
    KeyedRun,           \* streamed requests that carry an idempotency key
    MaxConcurrentRuns,  \* settings.max_concurrent_runs
    MaxRestarts         \* bound of the model: crashes considered

ASSUME EngineAssumption ==
    /\ IsFiniteSet(Managed)
    /\ NoRun \notin Run
    /\ NoManaged \notin Managed
    /\ ThreadOf \in [Run -> Thread]
    /\ ConfirmedRun \subseteq Run
    /\ KeyedRun \subseteq Run
    /\ MaxConcurrentRuns \in Nat \ {0}
    /\ MaxRestarts \in Nat

VARIABLES
    status,     \* status[r]: the status column of the run row, or "absent"
    log,        \* log[r]: the kinds of events (and recovery marks) stored for r
    closed,     \* threads that were ended or archived
    registry,   \* the dict _runs: run id -> ManagedRun object
    managed,    \* the fields of each ManagedRun object and where its task is
    freeSlots,  \* the value of the semaphore _run_slots
    writes,     \* commits the current stretch of code still has to perform
    phase,      \* "recovering" in __init__, "up", or "stopping"
    restarts    \* crashes so far

durable == <<status, log, closed>>
memory  == <<registry, managed, freeSlots>>
vars    == <<status, log, closed, registry, managed, freeSlots, writes, phase, restarts>>

-----------------------------------------------------------------------------
(* Types *)

EventKind ==
    {"run_created", "run_started", "approval_required", "run_checkpoint_meta",
     "approved", "rejected",            \* approval_resolved with its verdict
     "side_effect_blocked", "cancel_requested", "done", "error",
     "run_failed_meta", "cancelled", "run_consistency_checked",
     "recovered_at"}                    \* the column set by mark_run_recovered

\* Where the task of an object is: none was created, created but not begun,
\* inside the graph, waiting for approval_event, in _finalize_memory, or over.
TaskState ==
    {"none", "execute_new", "continue_new",
     "execute_graph",    \* _execute, in its try body
     "execute_wait",     \* _execute, in its GraphInterrupted handler
     "execute_resume",   \* _execute, in its GraphInterrupted handler
     "continue_graph",   \* _continue_after_approval, in its try body
     "verify", "compact", "done"}

\* The graph runs and the engine forwards what it streams.
GraphTask == {"execute_graph", "execute_resume", "continue_graph"}

ManagedRecord ==
    [run : Run \cup {NoRun}, task : TaskState, approved : BOOLEAN,
     rejected : BOOLEAN, signalled : BOOLEAN, killed : BOOLEAN, slot : BOOLEAN,
     rehydrated : BOOLEAN, reused : BOOLEAN, danger : BOOLEAN]

\* signalled: approval_event is set.      killed: task.cancel() was called.
\* slot: slot_acquired.                   reused: idempotency_reused.
\* danger: the graph runs with confirm_dangerous = True.
\* cancel_requested is not kept: cancel() sets it only together with
\* task.cancel(), so the code after a suspension point that tests it is
\* never reached (CancelledError is thrown at that point instead).
Blank == [run |-> NoRun, task |-> "none", approved |-> FALSE,
          rejected |-> FALSE, signalled |-> FALSE, killed |-> FALSE, slot |-> FALSE,
          rehydrated |-> FALSE, reused |-> FALSE, danger |-> FALSE]

Write == [run : Run, kind : {"event"}, value : EventKind]
         \cup [run : Run, kind : {"status"}, value : RunStatuses]

TypeOK ==
    /\ status \in [Run -> RunStatuses \cup {"absent"}]
    /\ log \in [Run -> SUBSET EventKind]
    /\ closed \subseteq Thread
    /\ registry \in [Run -> Managed \cup {NoManaged}]
    /\ managed \in [Managed -> ManagedRecord]
    /\ freeSlots \in 0..MaxConcurrentRuns
    /\ writes \in Seq(Write)
    /\ phase \in {"recovering", "up", "stopping"}
    /\ restarts \in 0..MaxRestarts

-----------------------------------------------------------------------------
(* The event store, as the engine uses it *)

Event(r, e) == [run |-> r, kind |-> "event", value |-> e]

StatusWrite(r, s) == [run |-> r, kind |-> "status", value |-> s]

\* update_run_status: nothing is written when the status is already s.
Update(r, s) == IF status[r] = s THEN <<>>
                ELSE <<StatusWrite(r, s)>>

CanMove(r, s) == ValidRunTransition(status[r], s)

Active_NotWaiting(r) == status[r] \in {"queued", "running", "cancelling"}
Active_NotCancelling(r) == status[r] \in {"queued", "running", "waiting_approval"}
Active(r) == status[r] \in NonTerminalRunStatuses

(* Commit performs the next commit of the current stretch of code.  A       *)
(* status change goes through validate_run_transition.                      *)
Commit ==
    /\ writes # <<>>
    /\ LET w == Head(writes) IN
         \/ /\ w.kind = "event"
            /\ log' = [log EXCEPT ![w.run] = @ \cup {w.value}]
            /\ UNCHANGED status
         \/ /\ w.kind = "status"
            /\ CanMove(w.run, w.value)
            /\ status' = [status EXCEPT ![w.run] = w.value]
            /\ UNCHANGED log
    /\ writes' = Tail(writes)
    /\ UNCHANGED <<closed, memory, phase, restarts>>

-----------------------------------------------------------------------------
(* Helpers of the engine *)

Live(m) == managed[m].task \notin {"none", "done"}

\* An object no task and no entry of _runs refers to: free to stand for a new one.
Unused(m) == ~Live(m) /\ ~managed[m].slot /\ \A r \in Run : registry[r] # m

\* The loop is free to run an HTTP handler.
Serving == phase = "up" /\ writes = <<>>

\* The loop may run the task of m, which stands at t.
Turn(m, t) ==
    phase # "recovering" /\ writes = <<>> /\ managed[m].task = t /\ ~managed[m].killed

(* The finally clause: the slot goes back, and a run whose status is now    *)
(* terminal enters _finalize_memory.  ws are the commits made before it, s  *)
(* the status they leave.  Only a completed run reads the checkpoint before *)
(* its consistency event is stored.                                         *)
Leave_KeepSlotOfUnfinished(m, ws, s) ==
    LET r == managed[m].run
        ended == s \in TerminalRunStatuses
    IN /\ writes' = ws \o (IF ended /\ s # "completed"
                           THEN <<Event(r, "run_consistency_checked")>> ELSE <<>>)
       /\ freeSlots' = IF managed[m].slot THEN freeSlots + 1 ELSE freeSlots
       /\ managed' = [managed EXCEPT
             ![m].slot = @ /\ ~ended, ![m].killed = FALSE,
             ![m].task = IF ~ended THEN "done"
                         ELSE IF s = "completed" THEN "verify" ELSE "compact"]

Leave_AlwaysFinalize(m, ws, s) ==
    LET r == managed[m].run
    IN /\ writes' = ws \o <<Event(r, "run_consistency_checked")>>
       /\ freeSlots' = IF managed[m].slot THEN freeSlots + 1 ELSE freeSlots
       /\ managed' = [managed EXCEPT
             ![m].slot = FALSE, ![m].killed = FALSE, ![m].task = "compact"]

Leave(m, ws, s) ==
    LET r == managed[m].run
        ended == s \in TerminalRunStatuses
    IN /\ writes' = ws \o (IF ended /\ s # "completed"
                           THEN <<Event(r, "run_consistency_checked")>> ELSE <<>>)
       /\ freeSlots' = IF managed[m].slot THEN freeSlots + 1 ELSE freeSlots
       /\ managed' = [managed EXCEPT
             ![m].slot = FALSE, ![m].killed = FALSE,
             ![m].task = IF ~ended THEN "done"
                         ELSE IF s = "completed" THEN "verify" ELSE "compact"]

(* An exception that no clause catches: those raised while a handler of     *)
(* _execute runs, such as everything after the wait for the approval.       *)
Unhandled(m, ws) == Leave(m, ws, status[managed[m].run])

(* After the commits ws, a status change to s: if it is refused the         *)
(* InvalidRunTransitionError leaves the coroutine through finally.          *)
LeaveWith(m, ws, s) ==
    LET r == managed[m].run
    IN IF CanMove(r, s) THEN Leave(m, ws \o Update(r, s), s) ELSE Unhandled(m, ws)

(* The clauses for CheckpointSyncFailed, TimeoutError and Exception: the    *)
(* evidence first, then complete_run(error=message), which takes an empty   *)
(* message for no error at all.                                             *)
Fail_StatusFirst(m, ws, blank) ==
    LET r == managed[m].run
        s == IF blank THEN "completed" ELSE "failed"
        evidence == <<Event(r, "error"), Event(r, "run_failed_meta")>>
    IN IF CanMove(r, s) THEN Leave(m, ws \o Update(r, s) \o evidence, s)
                        ELSE Unhandled(m, ws)

Fail(m, ws, blank) ==
    LET r == managed[m].run
        evidence == <<Event(r, "error"), Event(r, "run_failed_meta")>>
    IN LeaveWith(m, ws \o evidence, IF blank THEN "completed" ELSE "failed")

MarkCancelled_NoStatus(m) == Unhandled(m, <<Event(managed[m].run, "cancelled")>>)

MarkCancelled_StatusFirst(m) ==
    LET r == managed[m].run
    IN IF CanMove(r, "cancelled")
       THEN Leave(m, Update(r, "cancelled") \o <<Event(r, "cancelled")>>, "cancelled")
       ELSE Unhandled(m, <<>>)

MarkCancelled(m) == LeaveWith(m, <<Event(managed[m].run, "cancelled")>>, "cancelled")

\* The events of a GraphInterrupted that finds its run in a status from which
\* it may wait for an approval; the mapper has stored the request before.
AskForApproval(r) ==
    <<Event(r, "approval_required")>> \o Update(r, "waiting_approval")
        \o <<Event(r, "run_checkpoint_meta")>>

Resume(r) == Update(r, "running") \o <<Event(r, "run_started")>>

-----------------------------------------------------------------------------
(* API handlers *)

(* create_run when the idempotency key is new or there is none: a slot is   *)
(* taken, the thread must be active and without a non-terminal run, the row *)
(* is inserted, the object registered and its task created.                 *)
CreateRun(r, m) ==
    LET confirmed == r \in ConfirmedRun
    IN /\ Serving
       /\ freeSlots > 0
       /\ status[r] = "absent"
       /\ ThreadOf[r] \notin closed
       /\ \A q \in Run : ThreadOf[q] = ThreadOf[r] => ~Active(q)
       /\ Unused(m)
       /\ status' = [status EXCEPT ![r] = "queued"]
       /\ writes' = <<Event(r, "run_created")>>
       /\ registry' = [registry EXCEPT ![r] = m]
       /\ managed' = [managed EXCEPT ![m] =
             [Blank EXCEPT !.run = r, !.task = "execute_new", !.slot = TRUE,
                           !.approved = confirmed, !.signalled = confirmed]]
       /\ freeSlots' = freeSlots - 1
       /\ UNCHANGED <<log, closed, phase, restarts>>

ReplayCreate_KeepSlot(r, m) ==
    /\ Serving
    /\ freeSlots > 0
    /\ r \in KeyedRun
    /\ status[r] # "absent"
    /\ status[r] # "queued" \/ "run_created" \in log[r]
    /\ ThreadOf[r] \notin closed
    /\ Unused(m)
    /\ registry' = [registry EXCEPT ![r] = m]
    /\ managed' = [managed EXCEPT ![m] = [Blank EXCEPT !.run = r, !.reused = TRUE]]
    /\ freeSlots' = freeSlots - 1
    /\ UNCHANGED <<status, log, closed, writes, phase, restarts>>

(* create_run with the key and payload of an existing run.  The slot is     *)
(* only borrowed.  For a streamed request a second object, with no task,    *)
(* takes the place of the live one in the registry.                         *)
ReplayCreate(r, m) ==
    /\ Serving
    /\ freeSlots > 0
    /\ r \in KeyedRun
    /\ status[r] # "absent"
    /\ status[r] # "queued" \/ "run_created" \in log[r]
    /\ ThreadOf[r] \notin closed
    /\ Unused(m)
    /\ registry' = [registry EXCEPT ![r] = m]
    /\ managed' = [managed EXCEPT ![m] = [Blank EXCEPT !.run = r, !.reused = TRUE]]
    /\ UNCHANGED <<status, log, closed, freeSlots, writes, phase, restarts>>

(* stream() of a replayed request: the final marker is already queued, so   *)
(* the entry of the run is removed at once.                                 *)
StreamReplay(r) ==
    /\ Serving
    /\ registry[r] # NoManaged
    /\ managed[registry[r]].reused
    /\ registry' = [registry EXCEPT ![r] = NoManaged]
    /\ UNCHANGED <<status, log, closed, managed, freeSlots, writes, phase, restarts>>

Cancel(r) ==
    LET m == registry[r]
    IN /\ Serving
       /\ m # NoManaged
       /\ status[r] \notin TerminalRunStatuses
       /\ writes' = Update(r, "cancelling") \o <<Event(r, "cancel_requested")>>
       /\ managed' = [managed EXCEPT ![m].signalled = TRUE, ![m].killed = Live(m)]
       /\ UNCHANGED <<status, log, closed, registry, freeSlots, phase, restarts>>

(* approve and reject.  The verdict is stored first.  A task that waits for  *)
(* it is woken; where there is none, or the run was rehydrated, a            *)
(* continuation task is started in a slot of its own, and when no slot is    *)
(* free the caller gets RunConcurrencyLimitError with the verdict stored.    *)
Decide(r, approves, evidence) ==
    LET m == registry[r]
        decided == [managed[m] EXCEPT !.approved = @ \/ approves,
                                      !.rejected = @ \/ ~approves]
        direct == Live(m) /\ ~managed[m].rehydrated
    IN /\ Serving
       /\ m # NoManaged
       /\ status[r] = "waiting_approval"
       /\ writes' = evidence
       /\ \/ /\ direct
             /\ managed' = [managed EXCEPT ![m] = [decided EXCEPT !.signalled = TRUE]]
             /\ UNCHANGED freeSlots
          \/ /\ ~direct
             /\ managed[m].slot \/ freeSlots > 0
             /\ freeSlots' = IF managed[m].slot THEN freeSlots ELSE freeSlots - 1
             /\ managed' = [managed EXCEPT ![m] =
                  IF Live(m) THEN [decided EXCEPT !.slot = TRUE, !.signalled = TRUE]
                             ELSE [decided EXCEPT !.slot = TRUE, !.task = "continue_new"]]
          \/ /\ ~direct
             /\ ~managed[m].slot /\ freeSlots = 0
             /\ managed' = [managed EXCEPT ![m] = decided]
             /\ UNCHANGED freeSlots
       /\ UNCHANGED <<status, log, closed, registry, phase, restarts>>

Approve(r) == Decide(r, TRUE, <<Event(r, "approved")>>)

Reject_NoAudit(r) == Decide(r, FALSE, <<Event(r, "rejected")>>)

\* The blocked calls are those of the object's interrupt_payload, which an
\* object made for a replayed request does not have.
Reject(r) ==
    Decide(r, FALSE, IF managed[registry[r]].reused THEN <<Event(r, "rejected")>>
                     ELSE <<Event(r, "rejected"), Event(r, "side_effect_blocked")>>)

\* end_thread and archive_thread run in the thread pool of the server, at any
\* time, and do not look at the runs of the thread.
CloseThread(t) ==
    /\ phase # "recovering"
    /\ closed' = closed \cup {t}
    /\ UNCHANGED <<status, log, memory, writes, phase, restarts>>

-----------------------------------------------------------------------------
(* The tasks _execute and _continue_after_approval *)

\* The coroutine performs ws and suspends at t, with the graph started with
\* confirm_dangerous = d.
Suspend(m, ws, t, d) ==
    /\ writes' = ws
    /\ managed' = [managed EXCEPT ![m].task = t, ![m].danger = d]
    /\ UNCHANGED freeSlots

ExecuteStart(m) ==
    LET r == managed[m].run
    IN /\ Turn(m, "execute_new")
       /\ \/ /\ CanMove(r, "running")
             /\ Suspend(m, Resume(r), "execute_graph", managed[m].approved)
          \/ /\ ~CanMove(r, "running")
             /\ Fail(m, <<>>, FALSE)
       /\ UNCHANGED <<durable, registry, phase, restarts>>

ContinueStart_IgnoreReject(m) ==
    LET r == managed[m].run
    IN /\ Turn(m, "continue_new")
       /\ \/ /\ CanMove(r, "running")
             /\ Suspend(m, Resume(r), "continue_graph", TRUE)
          \/ /\ ~CanMove(r, "running")
             /\ Fail(m, <<>>, FALSE)
       /\ UNCHANGED <<durable, registry, phase, restarts>>

\* A rejected run keeps its status while the graph is told of the rejection.
ContinueStart(m) ==
    LET r == managed[m].run
    IN /\ Turn(m, "continue_new")
       /\ \/ /\ managed[m].rejected
             /\ Suspend(m, <<>>, "continue_graph", FALSE)
          \/ /\ ~managed[m].rejected
             /\ CanMove(r, "running")
             /\ Suspend(m, Resume(r), "continue_graph", TRUE)
          \/ /\ ~managed[m].rejected
             /\ ~CanMove(r, "running")
             /\ Fail(m, <<>>, FALSE)
       /\ UNCHANGED <<durable, registry, phase, restarts>>

(* approval_event is set: the run was approved or rejected.                 *)
ExecuteWake_IgnoreReject(m) ==
    LET r == managed[m].run
    IN /\ Turn(m, "execute_wait")
       /\ managed[m].signalled
       /\ \/ /\ CanMove(r, "running")
             /\ Suspend(m, Resume(r), "execute_resume", TRUE)
          \/ /\ ~CanMove(r, "running")
             /\ Unhandled(m, <<>>)
       /\ UNCHANGED <<durable, registry, phase, restarts>>

ExecuteWake(m) ==
    LET r == managed[m].run
    IN /\ Turn(m, "execute_wait")
       /\ managed[m].signalled
       /\ \/ /\ managed[m].rejected
             /\ Suspend(m, <<>>, "execute_resume", FALSE)
          \/ /\ ~managed[m].rejected
             /\ CanMove(r, "running")
             /\ Suspend(m, Resume(r), "execute_resume", TRUE)
          \/ /\ ~managed[m].rejected
             /\ ~CanMove(r, "running")
             /\ Unhandled(m, <<>>)
       /\ UNCHANGED <<durable, registry, phase, restarts>>

(* The graph stops at an interrupt.  _execute waits for the verdict, except  *)
(* that approval_event is already set for a confirmed run and the wait then  *)
(* returns without a suspension.  A continuation ends and leaves the run to  *)
(* the next verdict.  After the first wait nothing handles an interrupt.     *)
GraphInterrupt(m) ==
    LET r == managed[m].run
        allowed == CanMove(r, "waiting_approval")
        asked == <<Event(r, "approval_required")>>
    IN /\ \/ /\ Turn(m, "execute_graph")
             /\ allowed /\ ~managed[m].signalled
             /\ Suspend(m, AskForApproval(r), "execute_wait", FALSE)
          \/ /\ Turn(m, "execute_graph")
             /\ allowed /\ managed[m].signalled
             /\ Suspend(m, AskForApproval(r) \o <<StatusWrite(r, "running"), Event(r, "run_started")>>,
                        "execute_resume", TRUE)
          \/ /\ Turn(m, "continue_graph")
             /\ allowed
             /\ Leave(m, AskForApproval(r), "waiting_approval")
          \/ /\ Turn(m, "execute_graph") \/ Turn(m, "continue_graph")
             /\ ~allowed
             /\ Unhandled(m, asked)
          \/ /\ Turn(m, "execute_resume")
             /\ Unhandled(m, asked)
       /\ UNCHANGED <<durable, registry, phase, restarts>>

GraphDone_NoComplete(m) ==
    /\ \E t \in GraphTask : Turn(m, t)
    /\ Unhandled(m, <<Event(managed[m].run, "done")>>)
    /\ UNCHANGED <<durable, registry, phase, restarts>>

(* The graph runs to its end and complete_run is called.                    *)
GraphDone(m) ==
    LET r == managed[m].run
        done == <<Event(r, "done")>>
        allowed == CanMove(r, "completed")
    IN /\ \E t \in GraphTask : Turn(m, t)
       /\ \/ /\ allowed
             /\ Leave(m, done \o Update(r, "completed"), "completed")
          \/ /\ ~allowed
             /\ managed[m].task # "execute_resume"
             /\ Fail(m, done, FALSE)
          \/ /\ ~allowed
             /\ managed[m].task = "execute_resume"
             /\ Unhandled(m, done)
       /\ UNCHANGED <<durable, registry, phase, restarts>>

(* The graph raises, times out, or its checkpoint cannot be synchronised.    *)
(* An exception may have an empty message (blank).                           *)
GraphFail(m) ==
    /\ \/ /\ Turn(m, "execute_graph") \/ Turn(m, "continue_graph")
          /\ \E blank \in BOOLEAN : Fail(m, <<>>, blank)
       \/ /\ Turn(m, "execute_resume")
          /\ Unhandled(m, <<>>)
    /\ UNCHANGED <<durable, registry, phase, restarts>>

(* CancelledError at the suspension point.  A task that had not begun runs   *)
(* none of its code, not even its finally clause.                            *)
Killed(m) ==
    /\ phase # "recovering" /\ writes = <<>>
    /\ managed[m].killed
    /\ \/ /\ managed[m].task \in {"execute_new", "continue_new", "verify", "compact"}
          /\ managed' = [managed EXCEPT ![m].task = "done", ![m].killed = FALSE]
          /\ UNCHANGED <<freeSlots, writes>>
       \/ /\ managed[m].task \in {"execute_graph", "continue_graph"}
          /\ MarkCancelled(m)
       \/ /\ managed[m].task \in {"execute_wait", "execute_resume"}
          /\ Unhandled(m, <<>>)
    /\ UNCHANGED <<durable, registry, phase, restarts>>

(* _finalize_memory, after the checkpoint of a completed run was compared   *)
(* with its events.                                                         *)
VerifyCheckpoint(m) ==
    /\ Turn(m, "verify")
    /\ Suspend(m, <<Event(managed[m].run, "run_consistency_checked")>>, "compact", FALSE)
    /\ UNCHANGED <<durable, registry, phase, restarts>>

(* The checkpoint was compacted: the entry of the run is removed, whatever  *)
(* object it holds by now.                                                  *)
Compact(m) ==
    /\ Turn(m, "compact")
    /\ registry' = [registry EXCEPT ![managed[m].run] = NoManaged]
    /\ managed' = [managed EXCEPT ![m] = Blank]
    /\ UNCHANGED <<durable, freeSlots, writes, phase, restarts>>

-----------------------------------------------------------------------------
(* Process exit, crash and startup recovery *)

\* The server is told to stop: asyncio.run cancels every task that is left.
Shutdown ==
    /\ Serving
    /\ restarts < MaxRestarts
    /\ phase' = "stopping"
    /\ managed' = [m \in Managed |-> [managed[m] EXCEPT !.killed = Live(m)]]
    /\ UNCHANGED <<durable, registry, freeSlots, writes, restarts>>

\* The process is gone, between any two commits, and another one starts.
Crash ==
    /\ restarts < MaxRestarts
    /\ restarts' = restarts + 1
    /\ phase' = "recovering"
    /\ registry' = [r \in Run |-> NoManaged]
    /\ managed' = [m \in Managed |-> Blank]
    /\ freeSlots' = MaxConcurrentRuns
    /\ writes' = <<>>
    /\ UNCHANGED durable

Recovering == phase = "recovering" /\ writes = <<>>

RecoverCancelledRun(r) ==
    /\ Recovering
    /\ status[r] = "cancelling"
    /\ writes' = <<Event(r, "recovered_at"), Event(r, "cancelled"),
                   StatusWrite(r, "cancelled"), Event(r, "run_consistency_checked")>>
    /\ UNCHANGED <<durable, memory, phase, restarts>>

RecoverFailedRun(r) ==
    /\ Recovering
    /\ \A q \in Run : status[q] # "cancelling"
    /\ status[r] \in {"queued", "running"}
    /\ writes' = <<Event(r, "recovered_at"), Event(r, "error"), Event(r, "run_failed_meta"),
                   StatusWrite(r, "failed"), Event(r, "run_consistency_checked")>>
    /\ UNCHANGED <<durable, memory, phase, restarts>>

Rehydrate(r, m) ==
    /\ Recovering
    /\ \A q \in Run : status[q] \notin {"cancelling", "queued", "running"}
    /\ status[r] = "waiting_approval"
    /\ registry[r] = NoManaged
    /\ Unused(m)
    /\ writes' = <<Event(r, "recovered_at")>>
    /\ registry' = [registry EXCEPT ![r] = m]
    /\ managed' = [managed EXCEPT ![m] = [Blank EXCEPT !.run = r, !.rehydrated = TRUE]]
    /\ UNCHANGED <<durable, freeSlots, phase, restarts>>

EndRecovery ==
    /\ Recovering
    /\ \A q \in Run : Active(q) => status[q] = "waiting_approval" /\ registry[q] # NoManaged
    /\ phase' = "up"
    /\ UNCHANGED <<durable, memory, writes, restarts>>

-----------------------------------------------------------------------------

Init ==
    /\ status = [r \in Run |-> "absent"]
    /\ log = [r \in Run |-> {}]
    /\ closed = {}
    /\ registry = [r \in Run |-> NoManaged]
    /\ managed = [m \in Managed |-> Blank]
    /\ freeSlots = MaxConcurrentRuns
    /\ writes = <<>>
    /\ phase = "recovering"
    /\ restarts = 0

Request ==
    \/ \E r \in Run, m \in Managed : CreateRun(r, m) \/ ReplayCreate(r, m)
    \/ \E r \in Run : StreamReplay(r) \/ Cancel(r) \/ Approve(r) \/ Reject(r)
    \/ \E t \in Thread : CloseThread(t)

TaskStep(m) ==
    \/ ExecuteStart(m) \/ ContinueStart(m) \/ ExecuteWake(m)
    \/ GraphInterrupt(m) \/ GraphDone(m) \/ GraphFail(m)
    \/ Killed(m) \/ VerifyCheckpoint(m) \/ Compact(m)

Recovery ==
    \/ \E r \in Run : RecoverCancelledRun(r) \/ RecoverFailedRun(r)
    \/ \E r \in Run, m \in Managed : Rehydrate(r, m)
    \/ EndRecovery

Next ==
    \/ Request
    \/ \E m \in Managed : TaskStep(m)
    \/ Commit
    \/ Recovery
    \/ Shutdown
    \/ Crash

Spec == Init /\ [][Next]_vars

(* Fairness.  SQLite answers, a restarted process finishes its recovery and  *)
(* a process that was told to stop exits.  A task that can step does so: the *)
(* loop serves ready callbacks in the order they became ready, and the       *)
(* timeout bounds every run of the graph.  TaskStep is disabled while        *)
(* another coroutine has commits to make, hence strong fairness.  Nothing is *)
(* assumed of clients, who may never decide, nor of crashes.                 *)
Fairness ==
    /\ WF_vars(Commit)
    /\ WF_vars(Recovery)
    /\ WF_vars(phase = "stopping" /\ Crash)
    /\ \A m \in Managed : SF_vars(TaskStep(m))

FairSpec == Spec /\ Fairness
-----------------------------------------------------------------------------
(* Safety *)

\* A thread never has two runs that are not over, whatever clients, crashes
\* and cancellations do (EventStore.create_run's check for an active run).
OneActiveRunPerThread ==
    \A q, r \in Run :
        /\ ThreadOf[q] = ThreadOf[r]
        /\ status[q] \in NonTerminalRunStatuses
        /\ status[r] \in NonTerminalRunStatuses
        => q = r

\* The semaphore and the slot_acquired flags agree: no slot is given back
\* twice, none is lost by an object that no longer holds it, and the graph
\* never runs outside a slot (max_concurrent_runs).
SlotAccounting ==
    /\ freeSlots + Cardinality({m \in Managed : managed[m].slot}) = MaxConcurrentRuns
    /\ \A m \in Managed :
          managed[m].task \in GraphTask \cup {"execute_wait"} => managed[m].slot

\* A terminal status never precedes its evidence in the store: a crash between
\* the commits cannot leave a cancelled run without its cancelled event, nor
\* a failed run without its error and run_failed_meta events.
TerminalEvidence ==
    \A r \in Run :
        /\ status[r] = "cancelled" => "cancelled" \in log[r]
        /\ status[r] = "failed" => {"error", "run_failed_meta"} \subseteq log[r]
        /\ status[r] = "completed" => "done" \in log[r] \/ "error" \in log[r]

\* The graph runs with confirm_dangerous only for a run that was created
\* with it, or whose approval is in the store: restarts, rehydration and
\* continuations included.
DangerNeedsConsent ==
    \A m \in Managed :
        managed[m].task \in GraphTask /\ managed[m].danger =>
            managed[m].run \in ConfirmedRun \/ "approved" \in log[managed[m].run]

\* A rejection beats an approval that came before it and that no task has
\* acted on, and no later approval of the same pause outdoes it.
RejectionHolds ==
    \A m \in Managed :
        managed[m].task \in GraphTask /\ managed[m].danger => ~managed[m].rejected

\* A run that asked for an approval completes only after an answer was stored,
\* and after a rejection the side effects it blocked are stored too, even if
\* the process died between the two events (reject, _append_blocked_...).
CompletedAfterAnswer ==
    \A r \in Run \ ConfirmedRun :
        status[r] = "completed" /\ "approval_required" \in log[r] =>
            "approved" \in log[r] \/ {"rejected", "side_effect_blocked"} \subseteq log[r]

\* While the engine serves requests, every run that is not over can be
\* reached by cancel, approve and reject: create, finalisation, restart and
\* rehydration leave no such run without an entry in _runs.
ActiveRunIsManaged ==
    phase = "up" =>
        \A r \in Run : status[r] \in NonTerminalRunStatuses => registry[r] # NoManaged

\* At most one task works on a run: a request that replays an idempotency key
\* reuses the run and starts no other.
OneTaskPerRun ==
    \A m, n \in Managed :
        /\ managed[m].run = managed[n].run
        /\ managed[m].task \notin {"none", "done"}
        /\ managed[n].task \notin {"none", "done"}
        => m = n

\* The store holds no failure report of a run that waits for an approval.
FailureIsTerminal ==
    \A r \in Run : status[r] = "waiting_approval" /\ writes = <<>> => "run_failed_meta" \notin log[r]

\* The store holds no failure report of a completed run.
CompletedDidNotFail ==
    \A r \in Run : status[r] = "completed" => "run_failed_meta" \notin log[r]

-----------------------------------------------------------------------------
(* Liveness *)

\* A new run ends, unless it asks for an approval or is cancelled, and the engine
\* forgets each run that is over (the memory table of runs).
RunSettles ==
    \A r \in Run :
        /\ status[r] = "queued" ~>
              \/ status[r] \in TerminalRunStatuses
              \/ "approval_required" \in log[r] \/ "cancel_requested" \in log[r]
        /\ status[r] \in TerminalRunStatuses /\ registry[r] # NoManaged
              ~> registry[r] = NoManaged

\* A cancellation that hits a running graph ends the run.
CancelOfGraphConverges ==
    \A m \in Managed, r \in Run :
        /\ managed[m].task \in {"execute_graph", "continue_graph"} /\ managed[m].killed
        /\ managed[m].run = r /\ status[r] = "cancelling"
        ~> status[r] \in TerminalRunStatuses

\* The cancellation of a run that asked for an approval converges.
CancelOfAskedRunConverges ==
    \A r \in Run :
        status[r] = "cancelling" /\ "approval_required" \in log[r] ~> status[r] \in TerminalRunStatuses

\* The cancellation of a run that did not start converges.
CancelOfNewRunConverges ==
    \A r \in Run :
        status[r] = "cancelling" /\ "run_started" \notin log[r] ~> status[r] \in TerminalRunStatuses

\* A run that was approved and started again leaves the running status.
RunningEnds ==
    \A r \in Run : status[r] = "running" ~> status[r] # "running"

-----------------------------------------------------------------------------
(* Refinement *)

WorksOn(t, r) == ThreadOf[r] = t /\ status[r] \in NonTerminalRunStatuses

\* The thread is busy with its run that is not over, and the terminal status
\* of a run is its outcome.
RL == INSTANCE RunLifecycle WITH
        busy <- [t \in Thread |->
                    IF \E r \in Run : WorksOn(t, r) THEN CHOOSE r \in Run : WorksOn(t, r)
                    ELSE NoRun],
        outcome <- [r \in Run |->
                    IF status[r] \in TerminalRunStatuses THEN status[r] ELSE "none"]

\* The status column alone keeps the promise of RunLifecycle.
ImplementsRunLifecycle == RL!Spec

=============================================================================
