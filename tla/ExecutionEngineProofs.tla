----------------------- MODULE ExecutionEngineProofs -----------------------
(***************************************************************************)
(* Theorems about ExecutionEngine, for every number of threads, runs,      *)
(* objects, slots and restarts.  The inductive invariant EngineInv adds to *)
(* the types what the slot accounting rests on: which objects hold a slot, *)
(* that a task and an entry of _runs know their run, and that a task in    *)
(* _finalize_memory belongs to a run that is over, or is about to be by a  *)
(* commit that is still queued.  Further invariants rest on it: what a     *)
(* terminal status leaves in the store (EvidenceInv), which runs have an   *)
(* entry in _runs (ReachInv), where confirm_dangerous comes from           *)
(* (ConsentInv), what a rejection bars (RejectInv) and what is stored of   *)
(* the answer to a run that asked (AnswerInv).                             *)
(***************************************************************************)
EXTENDS ExecutionEngine, TLAPS, FiniteSetTheorems, SequenceTheorems

HeldSlots == {m \in Managed : managed[m].slot}

SlotSum == freeSlots + Cardinality(HeldSlots) = MaxConcurrentRuns

\* Task states of a task that has not reached its finally clause.
Working == GraphTask \cup {"execute_new", "continue_new", "execute_wait"}

HeldByTask ==
    \A m \in Managed :
        /\ managed[m].task \in Working => managed[m].slot
        /\ managed[m].task \in {"verify", "compact"} => ~managed[m].slot

TaskHasRun == \A m \in Managed : managed[m].task # "none" => managed[m].run \in Run

RegistryRun == \A r \in Run : registry[r] # NoManaged => managed[registry[r]].run = r

\* The commits ws contain one that ends run r.
Ends(ws, r) ==
    \E i \in 1..Len(ws) :
        ws[i].run = r /\ ws[i].kind = "status" /\ ws[i].value \in TerminalRunStatuses

FinalizingIsOver ==
    \A m \in Managed :
        managed[m].task \in {"verify", "compact"} =>
            \/ status[managed[m].run] \in TerminalRunStatuses
            \/ Ends(writes, managed[m].run)

EngineInv ==
    TypeOK /\ SlotSum /\ HeldByTask /\ TaskHasRun /\ RegistryRun /\ FinalizingIsOver
-----------------------------------------------------------------------------
(* The run state machine and the commits *)

\* validate_run_transition lets a run that is over stay as it is, and opens no
\* run that is over or absent again.
LEMMA TerminalStays ==
  ASSUME NEW from \in TerminalRunStatuses, NEW to \in RunStatuses, ValidRunTransition(from, to)
  PROVE  to = from
  BY DEF ValidRunTransition, AllowedRunTransitions, RunStatuses, NonTerminalRunStatuses,
         TerminalRunStatuses

\* A run that is not over after a legal transition existed and was not over before.
LEMMA ActiveWasActive ==
  ASSUME NEW from \in RunStatuses \cup {"absent"}, NEW to \in NonTerminalRunStatuses,
         ValidRunTransition(from, to)
  PROVE  from \in NonTerminalRunStatuses
  BY DEF ValidRunTransition, AllowedRunTransitions, RunStatuses, NonTerminalRunStatuses,
         TerminalRunStatuses

\* An event of a run is a commit.
LEMMA EventIsWrite == ASSUME NEW r \in Run, NEW e \in EventKind PROVE Event(r, e) \in Write
  BY DEF Event, Write

\* A status change of a run is a commit.
LEMMA StatusIsWrite ==
  ASSUME NEW r \in Run, NEW s \in RunStatuses
  PROVE  StatusWrite(r, s) \in Write
  BY DEF StatusWrite, Write

\* update_run_status is at most one commit.
LEMMA UpdateIsWrites ==
  ASSUME NEW r \in Run, NEW s \in RunStatuses
  PROVE  Update(r, s) \in Seq(Write)
  BY StatusIsWrite DEF Update

\* After ws and the change to a terminal status s, run r is over or will be.
LEMMA UpdateEnds ==
  ASSUME NEW r \in Run, NEW s \in TerminalRunStatuses, NEW ws \in Seq(Write)
  PROVE  \/ status[r] \in TerminalRunStatuses
         \/ Ends(ws \o Update(r, s), r)
<1>1. CASE status[r] = s
  BY <1>1
<1>2. CASE status[r] # s
  <2> DEFINE all == ws \o <<StatusWrite(r, s)>>
  <2>1. Update(r, s) = <<StatusWrite(r, s)>>
    BY <1>2 DEF Update
  <2>2. Len(all) = Len(ws) + 1 /\ all[Len(ws) + 1] = StatusWrite(r, s)
    OBVIOUS
  <2>3. Len(ws) + 1 \in 1..Len(all)
    BY <2>2
  <2>4. Ends(all, r)
    BY <2>2, <2>3 DEF Ends, StatusWrite
  <2> QED  BY <2>1, <2>4
<1> QED  BY <1>1, <1>2

-----------------------------------------------------------------------------
(* The semaphore *)

\* Finitely many objects hold a slot, so that they can be counted.
LEMMA HeldFinite ==
  ASSUME EngineAssumption, NEW S \in SUBSET Managed
  PROVE  IsFiniteSet(S) /\ Cardinality(S) \in Nat
  BY FS_Subset, FS_CardinalityType DEF EngineAssumption

\* A step that changes no slot_acquired flag and no semaphore keeps the sum.
LEMMA SameSlots ==
  ASSUME TypeOK, SlotSum, freeSlots' = freeSlots,
         \A n \in Managed : managed'[n].slot = managed[n].slot
  PROVE  SlotSum' /\ freeSlots' \in 0..MaxConcurrentRuns
<1>1. HeldSlots' = HeldSlots
  BY DEF HeldSlots
<1> QED  BY <1>1 DEF SlotSum, TypeOK

\* _acquire_run_slot: an object that held none takes a slot, the sum stays.
LEMMA TakeSlot ==
  ASSUME EngineAssumption, TypeOK, SlotSum, NEW m \in Managed,
         ~managed[m].slot, managed'[m].slot = TRUE,
         \A n \in Managed \ {m} : managed'[n].slot = managed[n].slot,
         freeSlots > 0, freeSlots' = freeSlots - 1
  PROVE  SlotSum' /\ freeSlots' \in 0..MaxConcurrentRuns
<1>1. HeldSlots' = HeldSlots \cup {m} /\ m \notin HeldSlots
  BY DEF HeldSlots
<1>2. IsFiniteSet(HeldSlots) /\ Cardinality(HeldSlots) \in Nat
  BY HeldFinite DEF HeldSlots
<1>3. Cardinality(HeldSlots') = Cardinality(HeldSlots) + 1
  BY <1>1, <1>2, FS_AddElement
<1>4. freeSlots \in 0..MaxConcurrentRuns /\ MaxConcurrentRuns \in Nat
  BY DEF TypeOK, EngineAssumption
<1> QED  BY <1>2, <1>3, <1>4 DEF SlotSum

\* _release_run_slot for an object that held a slot: the sum stays.
LEMMA GiveSlot ==
  ASSUME EngineAssumption, TypeOK, SlotSum, NEW m \in Managed,
         managed[m].slot = TRUE, ~managed'[m].slot,
         \A n \in Managed \ {m} : managed'[n].slot = managed[n].slot,
         freeSlots' = freeSlots + 1
  PROVE  SlotSum' /\ freeSlots' \in 0..MaxConcurrentRuns
<1>1. HeldSlots' = HeldSlots \ {m} /\ m \in HeldSlots
  BY DEF HeldSlots
<1>2. IsFiniteSet(HeldSlots) /\ Cardinality(HeldSlots) \in Nat
  BY HeldFinite DEF HeldSlots
<1>3. Cardinality(HeldSlots') = Cardinality(HeldSlots) - 1
  BY <1>1, <1>2, FS_RemoveElement
<1>4. Cardinality(HeldSlots') \in Nat
  BY <1>1, HeldFinite, HeldSlots' \in SUBSET Managed DEF HeldSlots
<1>5. freeSlots \in 0..MaxConcurrentRuns /\ MaxConcurrentRuns \in Nat
  BY DEF TypeOK, EngineAssumption
<1> QED  BY <1>2, <1>3, <1>4, <1>5 DEF SlotSum

-----------------------------------------------------------------------------
(* How a coroutine gives up the loop *)

\* Commits put behind others keep what these end.
LEMMA EndsConcat ==
  ASSUME NEW r, NEW ws \in Seq(Write), NEW vs \in Seq(Write), Ends(ws, r)
  PROVE  Ends(ws \o vs, r)
<1>1. PICK i \in 1..Len(ws) :
        ws[i].run = r /\ ws[i].kind = "status" /\ ws[i].value \in TerminalRunStatuses
  BY DEF Ends
<1>2. i \in 1..Len(ws \o vs) /\ (ws \o vs)[i] = ws[i]
  BY ConcatProperties
<1> QED  BY <1>1, <1>2 DEF Ends

\* With no commit queued, a task in _finalize_memory has a run that is over.
LEMMA FinalizedRunIsOver ==
  ASSUME FinalizingIsOver, writes = <<>>, NEW n \in Managed,
         managed[n].task \in {"verify", "compact"}
  PROVE  status[managed[n].run] \in TerminalRunStatuses
<1>1. ~Ends(<<>>, managed[n].run)
  BY DEF Ends
<1> QED  BY <1>1 DEF FinalizingIsOver

\* The finally clause keeps the invariant: it returns the slot once, and enters
\* _finalize_memory only behind a status that is, or will be, terminal.
LEMMA LeaveStep ==
  ASSUME EngineAssumption, EngineInv,
         NEW m \in Managed, managed[m].task \in Working, writes = <<>>,
         NEW ws \in Seq(Write), NEW s,
         s \in TerminalRunStatuses =>
             status[managed[m].run] \in TerminalRunStatuses \/ Ends(ws, managed[m].run),
         Leave(m, ws, s), UNCHANGED <<durable, registry, phase, restarts>>
  PROVE  EngineInv'
<1> DEFINE r == managed[m].run
           ended == s \in TerminalRunStatuses
           last == IF ended /\ s # "completed"
                   THEN <<Event(r, "run_consistency_checked")>> ELSE <<>>
<1>1. r \in Run /\ managed[m].slot = TRUE
  BY DEF EngineInv, TaskHasRun, HeldByTask, Working, GraphTask, TypeOK, ManagedRecord
<1>2. last \in Seq(Write)
  BY <1>1, EventIsWrite DEF EventKind
<1>3. writes' = ws \o last /\ writes' \in Seq(Write)
  BY <1>2 DEF Leave
<1>4. freeSlots' = freeSlots + 1
  BY <1>1 DEF Leave
<1>5. /\ managed' \in [Managed -> ManagedRecord]
      /\ managed'[m].slot = FALSE
      /\ managed'[m].run = r
      /\ managed'[m].task \in {"done", "verify", "compact"}
      /\ managed'[m].task # "done" => ended
      /\ \A n \in Managed \ {m} : managed'[n] = managed[n]
  <2> DEFINE t == IF ~ended THEN "done" ELSE IF s = "completed" THEN "verify" ELSE "compact"
             mine == [managed[m] EXCEPT !.slot = FALSE, !.killed = FALSE, !.task = t]
  <2>1. managed \in [Managed -> ManagedRecord]
    BY DEF EngineInv, TypeOK
  <2>2. managed' = [managed EXCEPT ![m] = mine]
    BY <2>1 DEF Leave, ManagedRecord
  <2>3. mine \in ManagedRecord
    BY <2>1 DEF ManagedRecord, TaskState
  <2>4. mine.slot = FALSE /\ mine.run = r /\ mine.task = t
    BY <2>1 DEF ManagedRecord
  <2> QED  BY <2>1, <2>2, <2>3, <2>4
<1>6. SlotSum' /\ freeSlots' \in 0..MaxConcurrentRuns
  BY <1>1, <1>4, <1>5, GiveSlot DEF EngineInv
<1>7. TypeOK'
  BY <1>3, <1>5, <1>6 DEF EngineInv, TypeOK, durable
<1>8. HeldByTask'
  BY <1>5 DEF EngineInv, HeldByTask, Working, GraphTask
<1>9. TaskHasRun'
  BY <1>1, <1>5 DEF EngineInv, TaskHasRun
<1>10. RegistryRun'
  BY <1>5 DEF EngineInv, RegistryRun, TypeOK
<1>11. FinalizingIsOver'
  <2> SUFFICES ASSUME NEW n \in Managed, managed'[n].task \in {"verify", "compact"}
               PROVE  \/ status'[managed'[n].run] \in TerminalRunStatuses
                      \/ Ends(writes', managed'[n].run)
    BY DEF FinalizingIsOver, Ends
  <2>1. CASE n = m
    BY <2>1, <1>2, <1>3, <1>5, EndsConcat DEF durable
  <2>2. CASE n # m
    BY <2>2, <1>5, FinalizedRunIsOver DEF EngineInv, durable
  <2> QED  BY <2>1, <2>2
<1> QED  BY <1>6, <1>7, <1>8, <1>9, <1>10, <1>11 DEF EngineInv

\* An exception no clause catches keeps the invariant.
LEMMA UnhandledStep ==
  ASSUME EngineAssumption, EngineInv,
         NEW m \in Managed, managed[m].task \in Working, writes = <<>>,
         NEW ws \in Seq(Write),
         Unhandled(m, ws), UNCHANGED <<durable, registry, phase, restarts>>
  PROVE  EngineInv'
  BY LeaveStep DEF Unhandled

\* A last status change, made or refused, keeps the invariant.
LEMMA LeaveWithStep ==
  ASSUME EngineAssumption, EngineInv,
         NEW m \in Managed, managed[m].task \in Working, writes = <<>>,
         NEW ws \in Seq(Write), NEW s \in RunStatuses,
         LeaveWith(m, ws, s), UNCHANGED <<durable, registry, phase, restarts>>
  PROVE  EngineInv'
<1> DEFINE r == managed[m].run
<1>1. r \in Run
  BY DEF EngineInv, TaskHasRun, Working, GraphTask
<1>2. CASE CanMove(r, s)
  <2>1. Leave(m, ws \o Update(r, s), s)
    BY <1>2 DEF LeaveWith
  <2>2. ws \o Update(r, s) \in Seq(Write)
    BY <1>1, UpdateIsWrites
  <2>3. s \in TerminalRunStatuses =>
            status[r] \in TerminalRunStatuses \/ Ends(ws \o Update(r, s), r)
    BY <1>1, UpdateEnds
  <2> QED  BY <2>1, <2>2, <2>3, LeaveStep
<1>3. CASE ~CanMove(r, s)
  BY <1>3, UnhandledStep DEF LeaveWith
<1> QED  BY <1>2, <1>3

\* The failure clauses of a task keep the invariant.
LEMMA FailStep ==
  ASSUME EngineAssumption, EngineInv,
         NEW m \in Managed, managed[m].task \in Working, writes = <<>>,
         NEW ws \in Seq(Write), NEW blank,
         Fail(m, ws, blank), UNCHANGED <<durable, registry, phase, restarts>>
  PROVE  EngineInv'
<1> DEFINE r == managed[m].run
           evidence == <<Event(r, "error"), Event(r, "run_failed_meta")>>
           s == IF blank THEN "completed" ELSE "failed"
<1>1. Event(r, "error") \in Write /\ Event(r, "run_failed_meta") \in Write
  BY EventIsWrite DEF EngineInv, TaskHasRun, Working, GraphTask, EventKind
<1>2. ws \o evidence \in Seq(Write)
  BY <1>1
<1>3. s \in RunStatuses
  BY DEF RunStatuses, TerminalRunStatuses
<1>4. LeaveWith(m, ws \o evidence, s)
  BY DEF Fail
<1> QED  BY <1>2, <1>3, <1>4, LeaveWithStep

-----------------------------------------------------------------------------
(* One object changes and keeps its run and its slot *)

\* A step that changes only one object, and neither its run nor its slot, keeps
\* the invariant when the object's new task state may hold the slot it has.
LEMMA ObjectStep ==
  ASSUME EngineInv, writes = <<>>, writes' \in Seq(Write),
         NEW m \in Managed, NEW rec \in ManagedRecord,
         managed' = [managed EXCEPT ![m] = rec],
         rec.run = managed[m].run, rec.slot = managed[m].slot,
         rec.task \in Working => rec.slot,
         rec.task \in {"verify", "compact"} => managed[m].task \in {"verify", "compact"},
         rec.task # "none" => rec.run \in Run,
         UNCHANGED <<durable, registry, freeSlots, phase, restarts>>
  PROVE  EngineInv'
<1>1. /\ managed \in [Managed -> ManagedRecord]
      /\ managed'[m] = rec
      /\ \A n \in Managed \ {m} : managed'[n] = managed[n]
  BY DEF EngineInv, TypeOK
<1>2. SlotSum' /\ freeSlots' \in 0..MaxConcurrentRuns
  BY <1>1, SameSlots DEF EngineInv
<1>3. TypeOK'
  BY <1>1, <1>2 DEF EngineInv, TypeOK, durable
<1>4. HeldByTask'
  BY <1>1 DEF EngineInv, HeldByTask
<1>5. TaskHasRun'
  BY <1>1 DEF EngineInv, TaskHasRun
<1>6. RegistryRun'
  BY <1>1 DEF EngineInv, RegistryRun, TypeOK
<1>7. FinalizingIsOver'
  BY <1>1, FinalizedRunIsOver DEF EngineInv, FinalizingIsOver, durable
<1> QED  BY <1>2, <1>3, <1>4, <1>5, <1>6, <1>7 DEF EngineInv

\* A coroutine that suspends in its graph, or in _finalize_memory, keeps the invariant.
LEMMA SuspendStep ==
  ASSUME EngineInv, NEW m \in Managed, writes = <<>>, NEW ws \in Seq(Write),
         NEW t \in TaskState, NEW d \in BOOLEAN,
         \/ managed[m].task \in Working /\ t \in Working
         \/ managed[m].task = "verify" /\ t = "compact",
         Suspend(m, ws, t, d), UNCHANGED <<durable, registry, phase, restarts>>
  PROVE  EngineInv'
<1> DEFINE rec == [managed[m] EXCEPT !.task = t, !.danger = d]
<1>1. managed \in [Managed -> ManagedRecord] /\ managed[m] \in ManagedRecord
  BY DEF EngineInv, TypeOK
<1>2. rec \in ManagedRecord
  BY <1>1 DEF ManagedRecord
<1>3. rec.run = managed[m].run /\ rec.slot = managed[m].slot /\ rec.task = t
  BY <1>1 DEF ManagedRecord
<1>4. managed' = [managed EXCEPT ![m] = rec]
  BY <1>1 DEF Suspend, ManagedRecord
<1>5. rec.task \in Working => rec.slot
  BY <1>3 DEF EngineInv, HeldByTask, Working, GraphTask
<1>6. rec.run \in Run
  BY <1>3 DEF EngineInv, TaskHasRun, Working, GraphTask
<1>7. rec.task \in {"verify", "compact"} => managed[m].task \in {"verify", "compact"}
  BY <1>3 DEF Working, GraphTask
<1>8. writes' \in Seq(Write) /\ freeSlots' = freeSlots
  BY DEF Suspend
<1> HIDE DEF rec
<1> QED  BY <1>2, <1>3, <1>4, <1>5, <1>6, <1>7, <1>8, ObjectStep DEF durable

-----------------------------------------------------------------------------
(* The steps of a task *)

\* The commits of a (re)started run are commits.
LEMMA ResumeIsWrites == ASSUME NEW r \in Run PROVE Resume(r) \in Seq(Write)
<1>1. Update(r, "running") \in Seq(Write)
  BY UpdateIsWrites DEF RunStatuses, NonTerminalRunStatuses
<1>2. <<Event(r, "run_started")>> \in Seq(Write)
  BY EventIsWrite DEF EventKind
<1> QED  BY <1>1, <1>2 DEF Resume

\* The commits of a request for approval are commits.
LEMMA AskIsWrites == ASSUME NEW r \in Run PROVE AskForApproval(r) \in Seq(Write)
<1>1. Update(r, "waiting_approval") \in Seq(Write)
  BY UpdateIsWrites DEF RunStatuses, NonTerminalRunStatuses
<1>2. /\ <<Event(r, "approval_required")>> \in Seq(Write)
      /\ <<Event(r, "run_checkpoint_meta")>> \in Seq(Write)
  BY EventIsWrite DEF EventKind
<1> QED  BY <1>1, <1>2 DEF AskForApproval

\* A working task goes on to another suspension point.
LEMMA GoOnStep ==
  ASSUME EngineInv, NEW m \in Managed, managed[m].task \in Working, writes = <<>>,
         NEW ws \in Seq(Write), NEW t \in Working, NEW d \in BOOLEAN,
         Suspend(m, ws, t, d), UNCHANGED <<durable, registry, phase, restarts>>
  PROVE  EngineInv'
<1>1. t \in TaskState
  BY DEF Working, GraphTask, TaskState
<1> QED  BY <1>1, SuspendStep

\* No commits are a sequence of commits.
LEMMA NoWrites == <<>> \in Seq(Write)
  OBVIOUS

\* The first stretch of _execute keeps the invariant.
LEMMA ExecuteStartStep ==
  ASSUME EngineAssumption, EngineInv, NEW m \in Managed, ExecuteStart(m)
  PROVE  EngineInv'
<1> DEFINE r == managed[m].run
<1>1. managed[m].task \in Working /\ writes = <<>> /\ r \in Run
  BY DEF ExecuteStart, Turn, EngineInv, TaskHasRun, Working
<1>2. UNCHANGED <<durable, registry, phase, restarts>>
  BY DEF ExecuteStart
<1>3. CASE Suspend(m, Resume(r), "execute_graph", managed[m].approved)
  <2>1. managed[m].approved \in BOOLEAN /\ "execute_graph" \in Working
    BY DEF EngineInv, TypeOK, ManagedRecord, Working, GraphTask
  <2>2. Resume(r) \in Seq(Write)
    BY <1>1, ResumeIsWrites
  <2> QED  BY <1>1, <1>2, <1>3, <2>1, <2>2, GoOnStep
<1>4. CASE Fail(m, <<>>, FALSE)
  BY <1>1, <1>2, <1>4, NoWrites, FailStep
<1> QED  BY <1>3, <1>4 DEF ExecuteStart

\* The first stretch of _continue_after_approval keeps the invariant.
LEMMA ContinueStartStep ==
  ASSUME EngineAssumption, EngineInv, NEW m \in Managed, ContinueStart(m)
  PROVE  EngineInv'
<1> DEFINE r == managed[m].run
<1>1. managed[m].task \in Working /\ writes = <<>> /\ r \in Run
  BY DEF ContinueStart, Turn, EngineInv, TaskHasRun, Working
<1>2. UNCHANGED <<durable, registry, phase, restarts>>
  BY DEF ContinueStart
<1>3. "continue_graph" \in Working
  BY DEF Working, GraphTask
<1>4. CASE Suspend(m, <<>>, "continue_graph", FALSE)
  BY <1>1, <1>2, <1>3, <1>4, NoWrites, GoOnStep
<1>5. CASE Suspend(m, Resume(r), "continue_graph", TRUE)
  <2>1. Resume(r) \in Seq(Write)
    BY <1>1, ResumeIsWrites
  <2> QED  BY <1>1, <1>2, <1>3, <1>5, <2>1, GoOnStep
<1>6. CASE Fail(m, <<>>, FALSE)
  BY <1>1, <1>2, <1>6, NoWrites, FailStep
<1> QED  BY <1>4, <1>5, <1>6 DEF ContinueStart

\* _execute, woken by a verdict, keeps the invariant.
LEMMA ExecuteWakeStep ==
  ASSUME EngineAssumption, EngineInv, NEW m \in Managed, ExecuteWake(m)
  PROVE  EngineInv'
<1> DEFINE r == managed[m].run
<1>1. managed[m].task \in Working /\ writes = <<>> /\ r \in Run
  BY DEF ExecuteWake, Turn, EngineInv, TaskHasRun, Working
<1>2. UNCHANGED <<durable, registry, phase, restarts>>
  BY DEF ExecuteWake
<1>3. "execute_resume" \in Working
  BY DEF Working, GraphTask
<1>4. CASE Suspend(m, <<>>, "execute_resume", FALSE)
  BY <1>1, <1>2, <1>3, <1>4, NoWrites, GoOnStep
<1>5. CASE Suspend(m, Resume(r), "execute_resume", TRUE)
  <2>1. Resume(r) \in Seq(Write)
    BY <1>1, ResumeIsWrites
  <2> QED  BY <1>1, <1>2, <1>3, <1>5, <2>1, GoOnStep
<1>6. CASE Unhandled(m, <<>>)
  BY <1>1, <1>2, <1>6, NoWrites, UnhandledStep
<1> QED  BY <1>4, <1>5, <1>6 DEF ExecuteWake

\* An interrupt of the graph keeps the invariant.
LEMMA GraphInterruptStep ==
  ASSUME EngineAssumption, EngineInv, NEW m \in Managed, GraphInterrupt(m)
  PROVE  EngineInv'
<1> DEFINE r == managed[m].run
           asked == <<Event(r, "approval_required")>>
           again == <<StatusWrite(r, "running"), Event(r, "run_started")>>
<1>1. managed[m].task \in Working /\ writes = <<>> /\ r \in Run
  BY DEF GraphInterrupt, Turn, EngineInv, TaskHasRun, Working, GraphTask
<1>2. UNCHANGED <<durable, registry, phase, restarts>>
  BY DEF GraphInterrupt
<1>3. AskForApproval(r) \in Seq(Write)
  BY <1>1, AskIsWrites
<1>4. asked \in Seq(Write)
  BY <1>1, EventIsWrite DEF EventKind
<1>5. CASE Suspend(m, AskForApproval(r), "execute_wait", FALSE)
  <2>1. "execute_wait" \in Working
    BY DEF Working
  <2> QED  BY <1>1, <1>2, <1>3, <1>5, <2>1, GoOnStep
<1>6. CASE Suspend(m, AskForApproval(r) \o again, "execute_resume", TRUE)
  <2>1. StatusWrite(r, "running") \in Write /\ Event(r, "run_started") \in Write
    BY <1>1, StatusIsWrite, EventIsWrite DEF EventKind, RunStatuses, NonTerminalRunStatuses
  <2>2. AskForApproval(r) \o again \in Seq(Write)
    BY <1>3, <2>1
  <2>3. "execute_resume" \in Working
    BY DEF Working, GraphTask
  <2> QED  BY <1>1, <1>2, <1>6, <2>2, <2>3, GoOnStep
<1>7. CASE Leave(m, AskForApproval(r), "waiting_approval")
  <2>1. "waiting_approval" \notin TerminalRunStatuses
    BY DEF TerminalRunStatuses
  <2> QED  BY <1>1, <1>2, <1>3, <1>7, <2>1, LeaveStep
<1>8. CASE Unhandled(m, asked)
  BY <1>1, <1>2, <1>4, <1>8, UnhandledStep
<1> QED  BY <1>5, <1>6, <1>7, <1>8 DEF GraphInterrupt

\* The end of the graph and complete_run keep the invariant.
LEMMA GraphDoneStep ==
  ASSUME EngineAssumption, EngineInv, NEW m \in Managed, GraphDone(m)
  PROVE  EngineInv'
<1> DEFINE r == managed[m].run
           done == <<Event(r, "done")>>
<1>1. managed[m].task \in Working /\ writes = <<>> /\ r \in Run
  BY DEF GraphDone, Turn, EngineInv, TaskHasRun, Working, GraphTask
<1>2. UNCHANGED <<durable, registry, phase, restarts>>
  BY DEF GraphDone
<1>3. done \in Seq(Write)
  BY <1>1, EventIsWrite DEF EventKind
<1>4. CASE Leave(m, done \o Update(r, "completed"), "completed")
  <2>1. "completed" \in TerminalRunStatuses /\ "completed" \in RunStatuses
    BY DEF TerminalRunStatuses, RunStatuses
  <2>2. done \o Update(r, "completed") \in Seq(Write)
    BY <1>1, <1>3, <2>1, UpdateIsWrites
  <2>3. status[r] \in TerminalRunStatuses \/ Ends(done \o Update(r, "completed"), r)
    BY <1>1, <1>3, <2>1, UpdateEnds
  <2> QED  BY <1>1, <1>2, <1>4, <2>2, <2>3, LeaveStep
<1>5. CASE Fail(m, done, FALSE)
  BY <1>1, <1>2, <1>3, <1>5, FailStep
<1>6. CASE Unhandled(m, done)
  BY <1>1, <1>2, <1>3, <1>6, UnhandledStep
<1> QED  BY <1>4, <1>5, <1>6 DEF GraphDone

\* An exception or a timeout of the graph keeps the invariant.
LEMMA GraphFailStep ==
  ASSUME EngineAssumption, EngineInv, NEW m \in Managed, GraphFail(m)
  PROVE  EngineInv'
<1>1. managed[m].task \in Working /\ writes = <<>>
  BY DEF GraphFail, Turn, Working, GraphTask
<1>2. UNCHANGED <<durable, registry, phase, restarts>>
  BY DEF GraphFail
<1>3. CASE \E blank \in BOOLEAN : Fail(m, <<>>, blank)
  BY <1>1, <1>2, <1>3, NoWrites, FailStep
<1>4. CASE Unhandled(m, <<>>)
  BY <1>1, <1>2, <1>4, NoWrites, UnhandledStep
<1> QED  BY <1>3, <1>4 DEF GraphFail

\* CancelledError keeps the invariant, the task that never began included: it
\* ends with its slot, which the sum still counts.
LEMMA KilledStep ==
  ASSUME EngineAssumption, EngineInv, NEW m \in Managed, Killed(m)
  PROVE  EngineInv'
<1> DEFINE r == managed[m].run
           over == [managed[m] EXCEPT !.task = "done", !.killed = FALSE]
<1>1. writes = <<>> /\ UNCHANGED <<durable, registry, phase, restarts>>
  BY DEF Killed
<1>2. CASE /\ managed[m].task \in {"execute_new", "continue_new", "verify", "compact"}
           /\ managed' = [managed EXCEPT ![m].task = "done", ![m].killed = FALSE]
           /\ UNCHANGED <<freeSlots, writes>>
  <2>1. managed[m] \in ManagedRecord
    BY DEF EngineInv, TypeOK
  <2>2. over \in ManagedRecord
    BY <2>1 DEF ManagedRecord, TaskState
  <2>3. over.run = r /\ over.slot = managed[m].slot /\ over.task = "done"
    BY <2>1 DEF ManagedRecord
  <2>4. managed' = [managed EXCEPT ![m] = over]
    BY <1>2, <2>1 DEF ManagedRecord
  <2>5. r \in Run
    BY <1>2 DEF EngineInv, TaskHasRun
  <2>6. "done" \notin Working
    BY DEF Working, GraphTask
  <2>7. writes' \in Seq(Write) /\ freeSlots' = freeSlots
    BY <1>1, <1>2
  <2> HIDE DEF over
  <2> QED  BY <1>1, <2>2, <2>3, <2>4, <2>5, <2>6, <2>7, ObjectStep DEF durable
<1>3. CASE managed[m].task \in {"execute_graph", "continue_graph"} /\ MarkCancelled(m)
  <2>1. managed[m].task \in Working /\ r \in Run
    BY <1>3 DEF Working, GraphTask, EngineInv, TaskHasRun
  <2>2. <<Event(r, "cancelled")>> \in Seq(Write) /\ "cancelled" \in RunStatuses
    BY <2>1, EventIsWrite DEF EventKind, RunStatuses, TerminalRunStatuses
  <2>3. LeaveWith(m, <<Event(r, "cancelled")>>, "cancelled")
    BY <1>3 DEF MarkCancelled
  <2> QED  BY <1>1, <2>1, <2>2, <2>3, LeaveWithStep
<1>4. CASE managed[m].task \in {"execute_wait", "execute_resume"} /\ Unhandled(m, <<>>)
  <2>1. managed[m].task \in Working
    BY <1>4 DEF Working, GraphTask
  <2> QED  BY <1>1, <1>4, <2>1, NoWrites, UnhandledStep
<1> QED  BY <1>2, <1>3, <1>4 DEF Killed

\* The consistency event of a completed run keeps the invariant.
LEMMA VerifyCheckpointStep ==
  ASSUME EngineInv, NEW m \in Managed, VerifyCheckpoint(m)
  PROVE  EngineInv'
<1> DEFINE ws == <<Event(managed[m].run, "run_consistency_checked")>>
<1>1. managed[m].task = "verify" /\ writes = <<>> /\ managed[m].run \in Run
  BY DEF VerifyCheckpoint, Turn, EngineInv, TaskHasRun
<1>2. ws \in Seq(Write)
  BY <1>1, EventIsWrite DEF EventKind
<1>3. "compact" \in TaskState
  BY DEF TaskState
<1>4. Suspend(m, ws, "compact", FALSE) /\ UNCHANGED <<durable, registry, phase, restarts>>
  BY DEF VerifyCheckpoint
<1> QED  BY <1>1, <1>2, <1>3, <1>4, SuspendStep

\* A new object has every field and neither slot nor task.
LEMMA BlankType == Blank \in ManagedRecord /\ Blank.slot = FALSE /\ Blank.task = "none"
  BY DEF Blank, ManagedRecord, TaskState

\* The end of _finalize_memory keeps the invariant: the object it forgets holds no slot.
LEMMA CompactStep ==
  ASSUME EngineInv, NEW m \in Managed, Compact(m)
  PROVE  EngineInv'
<1> DEFINE r == managed[m].run
<1>1. /\ managed[m].task = "compact" /\ writes = <<>> /\ r \in Run
      /\ managed[m].slot = FALSE
  BY DEF Compact, Turn, EngineInv, TaskHasRun, HeldByTask, TypeOK, ManagedRecord
<1>2. /\ managed \in [Managed -> ManagedRecord]
      /\ managed' = [managed EXCEPT ![m] = Blank]
      /\ registry \in [Run -> Managed \cup {NoManaged}]
      /\ registry' = [registry EXCEPT ![r] = NoManaged]
      /\ UNCHANGED <<status, log, closed, freeSlots, writes, phase, restarts>>
  BY DEF Compact, EngineInv, TypeOK, durable
<1>3. \A n \in Managed : managed'[n].slot = managed[n].slot
  BY <1>1, <1>2, BlankType
<1>4. SlotSum' /\ freeSlots' \in 0..MaxConcurrentRuns
  BY <1>2, <1>3, SameSlots DEF EngineInv
<1>5. TypeOK'
  BY <1>2, <1>4, BlankType DEF EngineInv, TypeOK
<1>6. HeldByTask' /\ TaskHasRun'
  BY <1>2, BlankType DEF EngineInv, HeldByTask, TaskHasRun, Working, GraphTask
<1>7. RegistryRun'
  BY <1>1, <1>2 DEF EngineInv, RegistryRun
<1>8. FinalizingIsOver'
  BY <1>1, <1>2, BlankType, FinalizedRunIsOver DEF EngineInv, FinalizingIsOver
<1> QED  BY <1>4, <1>5, <1>6, <1>7, <1>8 DEF EngineInv

-----------------------------------------------------------------------------
(* The handlers *)

\* An object that was not referred to becomes rec and the entry of rec.run.
LEMMA RegisterStep ==
  ASSUME EngineInv, NEW r \in Run, NEW m \in Managed, Unused(m), NEW rec \in ManagedRecord,
         managed' = [managed EXCEPT ![m] = rec], registry' = [registry EXCEPT ![r] = m],
         rec.run = r, rec.task \in {"none", "execute_new"}, rec.task = "execute_new" => rec.slot
  PROVE  /\ managed' \in [Managed -> ManagedRecord]
         /\ registry' \in [Run -> Managed \cup {NoManaged}]
         /\ managed'[m] = rec
         /\ \A n \in Managed \ {m} : managed'[n] = managed[n]
         /\ HeldByTask' /\ TaskHasRun' /\ RegistryRun'
<1>1. /\ managed' \in [Managed -> ManagedRecord]
      /\ managed'[m] = rec
      /\ \A n \in Managed \ {m} : managed'[n] = managed[n]
  BY DEF EngineInv, TypeOK
<1>2. registry' \in [Run -> Managed \cup {NoManaged}]
  BY DEF EngineInv, TypeOK
<1>3. HeldByTask' /\ TaskHasRun'
  BY <1>1 DEF EngineInv, HeldByTask, TaskHasRun, Working, GraphTask
<1>4. RegistryRun'
  <2> SUFFICES ASSUME NEW q \in Run, registry'[q] # NoManaged
               PROVE  managed'[registry'[q]].run = q
    BY DEF RegistryRun
  <2>1. CASE q = r
    BY <2>1, <1>1 DEF EngineInv, TypeOK
  <2>2. CASE q # r
    <3>1. registry'[q] = registry[q] /\ registry[q] \in Managed \ {m}
      BY <2>2 DEF EngineInv, TypeOK, Unused
    <3> QED  BY <3>1, <1>1 DEF EngineInv, RegistryRun
  <2> QED  BY <2>1, <2>2
<1> QED  BY <1>1, <1>2, <1>3, <1>4

\* create_run of a new run keeps the invariant.
LEMMA CreateRunStep ==
  ASSUME EngineAssumption, EngineInv, NEW r \in Run, NEW m \in Managed, CreateRun(r, m)
  PROVE  EngineInv'
<1> DEFINE confirmed == r \in ConfirmedRun
           rec == [Blank EXCEPT !.run = r, !.task = "execute_new", !.slot = TRUE,
                                !.approved = confirmed, !.signalled = confirmed]
<1>1. /\ writes = <<>> /\ status[r] = "absent" /\ freeSlots > 0 /\ Unused(m)
      /\ status' = [status EXCEPT ![r] = "queued"]
      /\ writes' = <<Event(r, "run_created")>>
      /\ registry' = [registry EXCEPT ![r] = m]
      /\ freeSlots' = freeSlots - 1
      /\ UNCHANGED <<log, closed, phase, restarts>>
  BY DEF CreateRun, Serving
<1>2. managed' = [managed EXCEPT ![m] = rec]
  BY DEF CreateRun
<1>0. confirmed \in BOOLEAN
  OBVIOUS
<1> HIDE DEF confirmed
<1>3. /\ rec \in ManagedRecord /\ rec.run = r /\ rec.task = "execute_new"
      /\ rec.slot = TRUE
  BY <1>0 DEF Blank, ManagedRecord, TaskState
<1> HIDE DEF rec
<1>4. /\ managed' \in [Managed -> ManagedRecord]
      /\ registry' \in [Run -> Managed \cup {NoManaged}]
      /\ managed'[m] = rec
      /\ \A n \in Managed \ {m} : managed'[n] = managed[n]
      /\ HeldByTask' /\ TaskHasRun' /\ RegistryRun'
  BY <1>1, <1>2, <1>3, RegisterStep
<1>5. SlotSum' /\ freeSlots' \in 0..MaxConcurrentRuns
  BY <1>1, <1>3, <1>4, TakeSlot DEF EngineInv, Unused
<1>6. status' \in [Run -> RunStatuses \cup {"absent"}]
  BY <1>1 DEF EngineInv, TypeOK, RunStatuses, NonTerminalRunStatuses
<1>7. writes' \in Seq(Write)
  BY <1>1, EventIsWrite DEF EventKind
<1>8. TypeOK'
  BY <1>1, <1>4, <1>5, <1>6, <1>7 DEF EngineInv, TypeOK
<1>9. FinalizingIsOver'
  <2> SUFFICES ASSUME NEW n \in Managed, managed'[n].task \in {"verify", "compact"}
               PROVE  status'[managed'[n].run] \in TerminalRunStatuses
    BY DEF FinalizingIsOver
  <2>1. n # m /\ managed'[n] = managed[n]
    BY <1>3, <1>4
  <2>2. status[managed[n].run] \in TerminalRunStatuses
    BY <1>1, <2>1, FinalizedRunIsOver DEF EngineInv
  <2>3. managed[n].run # r
    BY <1>1, <2>2 DEF TerminalRunStatuses
  <2>4. managed[n].run \in Run
    BY <2>1 DEF EngineInv, TaskHasRun
  <2> QED  BY <1>1, <2>1, <2>2, <2>3, <2>4 DEF EngineInv, TypeOK
<1> QED  BY <1>4, <1>5, <1>8, <1>9 DEF EngineInv

\* ReplayCreate and Rehydrate: an object without a task is registered.
LEMMA RegisterIdleStep ==
  ASSUME EngineAssumption, EngineInv, NEW r \in Run, NEW m \in Managed, Unused(m), writes = <<>>,
         NEW rec \in ManagedRecord,
         managed' = [managed EXCEPT ![m] = rec], registry' = [registry EXCEPT ![r] = m],
         rec.run = r, rec.task = "none", rec.slot = FALSE,
         writes' \in Seq(Write), UNCHANGED <<durable, freeSlots, phase, restarts>>
  PROVE  EngineInv'
<1>1. /\ managed' \in [Managed -> ManagedRecord]
      /\ registry' \in [Run -> Managed \cup {NoManaged}]
      /\ managed'[m] = rec
      /\ \A n \in Managed \ {m} : managed'[n] = managed[n]
      /\ HeldByTask' /\ TaskHasRun' /\ RegistryRun'
  BY RegisterStep
<1>2. managed[m].slot = FALSE
  BY DEF Unused, EngineInv, TypeOK, ManagedRecord
<1>3. \A n \in Managed : managed'[n].slot = managed[n].slot
  BY <1>1, <1>2
<1>4. SlotSum' /\ freeSlots' \in 0..MaxConcurrentRuns
  BY <1>3, SameSlots DEF EngineInv
<1>5. TypeOK'
  BY <1>1, <1>4 DEF EngineInv, TypeOK, durable
<1>6. FinalizingIsOver'
  BY <1>1, FinalizedRunIsOver DEF EngineInv, FinalizingIsOver, durable
<1> QED  BY <1>1, <1>4, <1>5, <1>6 DEF EngineInv

\* create_run of a replayed key keeps the invariant: its slot is only borrowed.
LEMMA ReplayCreateStep ==
  ASSUME EngineAssumption, EngineInv, NEW r \in Run, NEW m \in Managed, ReplayCreate(r, m)
  PROVE  EngineInv'
<1> DEFINE rec == [Blank EXCEPT !.run = r, !.reused = TRUE]
<1>1. /\ Unused(m) /\ writes = <<>> /\ writes' \in Seq(Write)
      /\ managed' = [managed EXCEPT ![m] = rec]
      /\ registry' = [registry EXCEPT ![r] = m]
      /\ UNCHANGED <<durable, freeSlots, phase, restarts>>
  BY DEF ReplayCreate, Serving, durable
<1>2. rec \in ManagedRecord /\ rec.run = r /\ rec.task = "none" /\ rec.slot = FALSE
  BY DEF Blank, ManagedRecord, TaskState
<1> HIDE DEF rec
<1> QED  BY <1>1, <1>2, RegisterIdleStep

\* The rehydration of a waiting run keeps the invariant.
LEMMA RehydrateStep ==
  ASSUME EngineAssumption, EngineInv, NEW r \in Run, NEW m \in Managed, Rehydrate(r, m)
  PROVE  EngineInv'
<1> DEFINE rec == [Blank EXCEPT !.run = r, !.rehydrated = TRUE]
<1>1. /\ Unused(m) /\ writes = <<>> /\ writes' = <<Event(r, "recovered_at")>>
      /\ managed' = [managed EXCEPT ![m] = rec]
      /\ registry' = [registry EXCEPT ![r] = m]
      /\ UNCHANGED <<durable, freeSlots, phase, restarts>>
  BY DEF Rehydrate, Recovering
<1>2. writes' \in Seq(Write)
  BY <1>1, EventIsWrite DEF EventKind
<1>3. rec \in ManagedRecord /\ rec.run = r /\ rec.task = "none" /\ rec.slot = FALSE
  BY DEF Blank, ManagedRecord, TaskState
<1> HIDE DEF rec
<1> QED  BY <1>1, <1>2, <1>3, RegisterIdleStep

\* stream() of a replayed request keeps the invariant.
LEMMA StreamReplayStep ==
  ASSUME EngineInv, NEW r \in Run, StreamReplay(r)
  PROVE  EngineInv'
<1>1. /\ registry \in [Run -> Managed \cup {NoManaged}]
      /\ registry' = [registry EXCEPT ![r] = NoManaged]
      /\ writes = <<>>
      /\ UNCHANGED <<status, log, closed, managed, freeSlots, writes, phase, restarts>>
  BY DEF StreamReplay, Serving, EngineInv, TypeOK
<1>2. TypeOK'
  BY <1>1 DEF EngineInv, TypeOK
<1>3. RegistryRun'
  BY <1>1 DEF EngineInv, RegistryRun
<1>4. SlotSum' /\ HeldByTask' /\ TaskHasRun' /\ FinalizingIsOver'
  BY <1>1 DEF EngineInv, SlotSum, HeldSlots, HeldByTask, TaskHasRun, FinalizingIsOver, Ends
<1> QED  BY <1>2, <1>3, <1>4 DEF EngineInv

\* cancel keeps the invariant.
LEMMA CancelStep ==
  ASSUME EngineInv, NEW r \in Run, Cancel(r)
  PROVE  EngineInv'
<1> DEFINE m == registry[r]
           killed == Live(m)
           rec == [managed[m] EXCEPT !.signalled = TRUE, !.killed = killed]
<1>1. /\ writes = <<>> /\ m \in Managed
      /\ writes' = Update(r, "cancelling") \o <<Event(r, "cancel_requested")>>
      /\ UNCHANGED <<durable, registry, freeSlots, phase, restarts>>
  BY DEF Cancel, Serving, EngineInv, TypeOK, durable
<1>2. managed[m] \in ManagedRecord /\ managed \in [Managed -> ManagedRecord]
  BY <1>1 DEF EngineInv, TypeOK
<1>3. killed \in BOOLEAN
  BY DEF Live
<1>4. managed' = [managed EXCEPT ![m].signalled = TRUE, ![m].killed = killed]
  BY DEF Cancel
<1> HIDE DEF killed
<1>5. managed' = [managed EXCEPT ![m] = rec]
  BY <1>2, <1>4 DEF ManagedRecord
<1>6. /\ rec \in ManagedRecord
      /\ rec.run = managed[m].run /\ rec.slot = managed[m].slot /\ rec.task = managed[m].task
  BY <1>2, <1>3 DEF ManagedRecord
<1>7. Update(r, "cancelling") \in Seq(Write)
  BY UpdateIsWrites DEF RunStatuses, NonTerminalRunStatuses
<1>8. <<Event(r, "cancel_requested")>> \in Seq(Write)
  BY EventIsWrite DEF EventKind
<1>9. writes' \in Seq(Write)
  BY <1>1, <1>7, <1>8
<1>10. /\ rec.task \in Working => rec.slot
       /\ rec.task # "none" => rec.run \in Run
  BY <1>1, <1>6 DEF EngineInv, HeldByTask, TaskHasRun
<1> HIDE DEF rec, m
<1> QED  BY <1>1, <1>5, <1>6, <1>9, <1>10, ObjectStep

\* approve and reject keep the invariant, whether they wake a task, start a
\* continuation in a slot of its own or find no free slot.
LEMMA DecideStep ==
  ASSUME EngineAssumption, EngineInv, NEW r \in Run, NEW approves \in BOOLEAN,
         NEW evidence \in Seq(Write), Decide(r, approves, evidence)
  PROVE  EngineInv'
<1> DEFINE m == registry[r]
           yes == managed[m].approved \/ approves
           no == managed[m].rejected \/ ~approves
           decided == [managed[m] EXCEPT !.approved = yes, !.rejected = no]
           direct == Live(m) /\ ~managed[m].rehydrated
<1>1. /\ writes = <<>> /\ m \in Managed /\ managed[m].run = r
      /\ status[r] = "waiting_approval"
      /\ writes' \in Seq(Write)
      /\ UNCHANGED <<status, log, closed, registry, phase, restarts>>
  BY DEF Decide, Serving, EngineInv, TypeOK, RegistryRun
<1>2. managed[m] \in ManagedRecord /\ managed \in [Managed -> ManagedRecord]
  BY <1>1 DEF EngineInv, TypeOK
<1>3. yes \in BOOLEAN /\ no \in BOOLEAN
  BY <1>2 DEF ManagedRecord
<1>4. \/ managed' = [managed EXCEPT ![m] = [decided EXCEPT !.signalled = TRUE]]
         /\ freeSlots' = freeSlots
      \/ /\ ~direct /\ (managed[m].slot \/ freeSlots > 0)
         /\ freeSlots' = IF managed[m].slot THEN freeSlots ELSE freeSlots - 1
         /\ managed' = [managed EXCEPT ![m] =
               IF Live(m) THEN [decided EXCEPT !.slot = TRUE, !.signalled = TRUE]
                          ELSE [decided EXCEPT !.slot = TRUE, !.task = "continue_new"]]
      \/ managed' = [managed EXCEPT ![m] = decided] /\ freeSlots' = freeSlots
  BY DEF Decide
<1> HIDE DEF yes, no
<1>5. /\ decided \in ManagedRecord /\ decided.run = r
      /\ decided.slot = managed[m].slot /\ decided.task = managed[m].task
  BY <1>1, <1>2, <1>3 DEF ManagedRecord
<1> HIDE DEF decided
\* The task of a run that waits is not in _finalize_memory.
<1>6. managed[m].task \notin {"verify", "compact"}
  BY <1>1, FinalizedRunIsOver DEF EngineInv, TerminalRunStatuses
<1>7. Live(m) => managed[m].slot
  BY <1>1, <1>2, <1>6 DEF Live, EngineInv, HeldByTask, Working, GraphTask, ManagedRecord, TaskState
<1>8. managed[m].task \in Working => managed[m].slot
  BY <1>1 DEF EngineInv, HeldByTask
<1>9. CASE \E rec \in ManagedRecord :
              /\ rec.run = r /\ rec.slot = managed[m].slot
              /\ rec.task \in Working => rec.slot
              /\ rec.task \notin {"verify", "compact"}
              /\ managed' = [managed EXCEPT ![m] = rec] /\ freeSlots' = freeSlots
  BY <1>1, <1>9, ObjectStep DEF durable
<1>10. CASE /\ ~Live(m) /\ managed[m].slot = FALSE /\ freeSlots > 0 /\ freeSlots' = freeSlots - 1
            /\ managed' = [managed EXCEPT ![m] =
                  [decided EXCEPT !.slot = TRUE, !.task = "continue_new"]]
  <2> DEFINE rec == [decided EXCEPT !.slot = TRUE, !.task = "continue_new"]
  <2>1. rec \in ManagedRecord /\ rec.run = r /\ rec.slot = TRUE /\ rec.task = "continue_new"
    BY <1>5 DEF ManagedRecord, TaskState
  <2> HIDE DEF rec
  <2>2. /\ managed' \in [Managed -> ManagedRecord]
        /\ managed'[m] = rec
        /\ \A n \in Managed \ {m} : managed'[n] = managed[n]
    BY <1>1, <1>2, <1>10, <2>1 DEF rec
  <2>3. SlotSum' /\ freeSlots' \in 0..MaxConcurrentRuns
    BY <1>1, <1>10, <2>1, <2>2, TakeSlot DEF EngineInv
  <2>4. TypeOK'
    BY <1>1, <2>2, <2>3 DEF EngineInv, TypeOK
  <2>5. HeldByTask' /\ TaskHasRun'
    <3> SUFFICES ASSUME NEW n \in Managed
                 PROVE  /\ managed'[n].task \in Working => managed'[n].slot
                        /\ managed'[n].task \in {"verify", "compact"} => ~managed'[n].slot
                        /\ managed'[n].task # "none" => managed'[n].run \in Run
      BY DEF HeldByTask, TaskHasRun
    <3>1. CASE n = m
      BY <3>1, <2>1, <2>2
    <3>2. CASE n # m
      <4>1. managed'[n] = managed[n]
        BY <3>2, <2>2
      <4> QED  BY <4>1 DEF EngineInv, HeldByTask, TaskHasRun
    <3> QED  BY <3>1, <3>2
  <2>6. RegistryRun'
    <3> SUFFICES ASSUME NEW q \in Run, registry[q] # NoManaged
                 PROVE  managed'[registry[q]].run = q
      BY <1>1 DEF RegistryRun
    <3>1. registry[q] \in Managed /\ managed[registry[q]].run = q
      BY DEF EngineInv, TypeOK, RegistryRun
    <3>2. CASE registry[q] = m
      BY <3>1, <3>2, <1>1, <2>1, <2>2
    <3>3. CASE registry[q] # m
      BY <3>1, <3>3, <2>2
    <3> QED  BY <3>2, <3>3
  <2>7. FinalizingIsOver'
    BY <1>1, <2>1, <2>2, FinalizedRunIsOver DEF EngineInv, FinalizingIsOver
  <2> QED  BY <2>3, <2>4, <2>5, <2>6, <2>7 DEF EngineInv
<1>11. CASE managed' = [managed EXCEPT ![m] = [decided EXCEPT !.signalled = TRUE]]
            /\ freeSlots' = freeSlots
  <2> DEFINE rec == [decided EXCEPT !.signalled = TRUE]
  <2>1. /\ rec \in ManagedRecord /\ rec.run = r
        /\ rec.slot = managed[m].slot /\ rec.task = managed[m].task
    BY <1>5 DEF ManagedRecord
  <2> QED  BY <1>6, <1>8, <1>9, <1>11, <2>1
<1>12. CASE managed' = [managed EXCEPT ![m] = decided] /\ freeSlots' = freeSlots
  BY <1>5, <1>6, <1>8, <1>9, <1>12
<1>13. CASE Live(m) /\ freeSlots' = freeSlots
            /\ managed' = [managed EXCEPT ![m] = [decided EXCEPT !.slot = TRUE, !.signalled = TRUE]]
  <2> DEFINE rec == [decided EXCEPT !.slot = TRUE, !.signalled = TRUE]
  <2>1. /\ rec \in ManagedRecord /\ rec.run = r
        /\ rec.slot = managed[m].slot /\ rec.task = managed[m].task
    BY <1>2, <1>5, <1>7, <1>13 DEF ManagedRecord
  <2> QED  BY <1>6, <1>8, <1>9, <1>13, <2>1
<1>14. CASE ~Live(m) /\ managed[m].slot = TRUE /\ freeSlots' = freeSlots
            /\ managed' = [managed EXCEPT ![m] =
                  [decided EXCEPT !.slot = TRUE, !.task = "continue_new"]]
  <2> DEFINE rec == [decided EXCEPT !.slot = TRUE, !.task = "continue_new"]
  <2>1. /\ rec \in ManagedRecord /\ rec.run = r
        /\ rec.slot = managed[m].slot /\ rec.task = "continue_new"
    BY <1>5, <1>14 DEF ManagedRecord, TaskState
  <2>2. rec.task \in Working => rec.slot
    BY <1>14, <2>1
  <2> QED  BY <1>9, <1>14, <2>1, <2>2
<1>15. managed[m].slot \in BOOLEAN
  BY <1>2 DEF ManagedRecord
<1> QED  BY <1>4, <1>7, <1>10, <1>11, <1>12, <1>13, <1>14, <1>15

\* approve keeps the invariant.
LEMMA ApproveStep ==
  ASSUME EngineAssumption, EngineInv, NEW r \in Run, Approve(r)
  PROVE  EngineInv'
<1>1. <<Event(r, "approved")>> \in Seq(Write)
  BY EventIsWrite DEF EventKind
<1> QED  BY <1>1, DecideStep DEF Approve

\* reject keeps the invariant.
LEMMA RejectStep ==
  ASSUME EngineAssumption, EngineInv, NEW r \in Run, Reject(r)
  PROVE  EngineInv'
<1>1. Event(r, "rejected") \in Write /\ Event(r, "side_effect_blocked") \in Write
  BY EventIsWrite DEF EventKind
<1>2. <<Event(r, "rejected"), Event(r, "side_effect_blocked")>> \in Seq(Write)
  BY <1>1
<1>3. <<Event(r, "rejected")>> \in Seq(Write)
  BY <1>1
<1> QED  BY <1>2, <1>3, DecideStep DEF Reject

-----------------------------------------------------------------------------
(* Commits, process exit and recovery *)

\* Only the store and the queue of commits change, or the phase.
LEMMA MemoryKept ==
  ASSUME EngineInv, UNCHANGED memory
  PROVE  SlotSum' /\ HeldByTask' /\ TaskHasRun' /\ RegistryRun'
  BY DEF EngineInv, memory, SlotSum, HeldSlots, HeldByTask, TaskHasRun, RegistryRun

\* A queue of commits replaces an empty one and the store is not touched.
LEMMA QueueStep ==
  ASSUME EngineInv, UNCHANGED <<durable, memory, restarts>>,
         phase' \in {"recovering", "up", "stopping"},
         \/ writes = <<>> /\ writes' \in Seq(Write)
         \/ UNCHANGED writes
  PROVE  EngineInv'
<1>1. TypeOK'
  BY DEF EngineInv, TypeOK, durable, memory
<1>2. FinalizingIsOver'
  <2>1. CASE writes = <<>>
    BY <2>1, FinalizedRunIsOver DEF EngineInv, FinalizingIsOver, durable, memory
  <2>2. CASE UNCHANGED writes
    BY <2>2 DEF EngineInv, FinalizingIsOver, Ends, durable, memory
  <2> QED  BY <2>1, <2>2
<1> QED  BY <1>1, <1>2, MemoryKept DEF EngineInv

\* A commit keeps the invariant: the status it queues behind a finalizing task
\* arrives, and a terminal status stays.
LEMMA CommitStep ==
  ASSUME EngineInv, Commit
  PROVE  EngineInv'
<1> DEFINE w == Head(writes)
<1>1. /\ writes \in Seq(Write) /\ writes # <<>> /\ writes' = Tail(writes)
      /\ UNCHANGED <<closed, memory, phase, restarts>>
  BY DEF Commit, EngineInv, TypeOK
<1>2. w \in Write /\ w = writes[1] /\ writes' \in Seq(Write)
  BY <1>1
<1>3. \/ /\ w.kind = "event" /\ log' = [log EXCEPT ![w.run] = @ \cup {w.value}]
         /\ status' = status
      \/ /\ w.kind = "status" /\ ValidRunTransition(status[w.run], w.value)
         /\ status' = [status EXCEPT ![w.run] = w.value] /\ log' = log
  BY DEF Commit, CanMove
<1>4. /\ w.run \in Run
      /\ w.kind = "event" => w.value \in EventKind
      /\ w.kind = "status" => w.value \in RunStatuses
  BY <1>2 DEF Write
<1>5. TypeOK'
  BY <1>1, <1>2, <1>3, <1>4 DEF EngineInv, TypeOK, memory
<1>6. \A r \in Run : status[r] \in TerminalRunStatuses => status'[r] \in TerminalRunStatuses
  BY <1>3, <1>4, TerminalStays DEF EngineInv, TypeOK
<1>7. FinalizingIsOver'
  <2> SUFFICES ASSUME NEW n \in Managed, managed[n].task \in {"verify", "compact"}
               PROVE  \/ status'[managed[n].run] \in TerminalRunStatuses
                      \/ Ends(writes', managed[n].run)
    BY <1>1 DEF FinalizingIsOver, Ends, memory
  <2> DEFINE r == managed[n].run
  <2>1. r \in Run
    BY DEF EngineInv, TaskHasRun
  <2>2. CASE status[r] \in TerminalRunStatuses
    BY <2>1, <2>2, <1>6
  <2>3. CASE Ends(writes, r)
    <3>1. PICK i \in 1..Len(writes) : /\ writes[i].run = r /\ writes[i].kind = "status"
                                      /\ writes[i].value \in TerminalRunStatuses
      BY <2>3 DEF Ends
    <3>2. CASE i = 1
      BY <3>1, <3>2, <1>2, <1>3, <1>4, <2>1 DEF EngineInv, TypeOK
    <3>3. CASE i # 1
      <4>1. i - 1 \in 1..Len(writes') /\ writes'[i - 1] = writes[i]
        BY <3>3, <1>1
      <4> QED  BY <3>1, <4>1 DEF Ends
    <3> QED  BY <3>2, <3>3
  <2> QED  BY <2>2, <2>3 DEF EngineInv, FinalizingIsOver
<1>8. UNCHANGED memory
  BY <1>1
<1> QED  BY <1>5, <1>7, <1>8, MemoryKept DEF EngineInv

\* end_thread and archive_thread keep the invariant.
LEMMA CloseThreadStep ==
  ASSUME EngineInv, NEW t \in Thread, CloseThread(t)
  PROVE  EngineInv'
<1>1. UNCHANGED <<status, log, memory, writes, phase, restarts>> /\ closed' \subseteq Thread
  BY DEF CloseThread, EngineInv, TypeOK
<1>2. TypeOK'
  BY <1>1 DEF EngineInv, TypeOK, memory
<1>3. FinalizingIsOver'
  BY <1>1 DEF EngineInv, FinalizingIsOver, Ends, memory
<1> QED  BY <1>1, <1>2, <1>3, MemoryKept DEF EngineInv

\* The cancellation of every task at shutdown keeps the invariant.
LEMMA ShutdownStep ==
  ASSUME EngineInv, Shutdown
  PROVE  EngineInv'
<1>1. /\ writes = <<>> /\ UNCHANGED <<durable, registry, freeSlots, writes, restarts>>
      /\ phase' = "stopping"
      /\ managed' = [m \in Managed |-> [managed[m] EXCEPT !.killed = Live(m)]]
  BY DEF Shutdown, Serving
<1>2. \A n \in Managed :
        /\ managed'[n] \in ManagedRecord
        /\ managed'[n].run = managed[n].run
        /\ managed'[n].task = managed[n].task
        /\ managed'[n].slot = managed[n].slot
  <2> SUFFICES ASSUME NEW n \in Managed
               PROVE  /\ managed'[n] \in ManagedRecord
                      /\ managed'[n].run = managed[n].run
                      /\ managed'[n].task = managed[n].task
                      /\ managed'[n].slot = managed[n].slot
    OBVIOUS
  <2> DEFINE killed == Live(n)
  <2>1. killed \in BOOLEAN
    BY DEF Live
  <2>2. managed'[n] = [managed[n] EXCEPT !.killed = killed]
    BY <1>1
  <2> HIDE DEF killed
  <2>3. managed[n] \in ManagedRecord
    BY DEF EngineInv, TypeOK
  <2> QED  BY <2>1, <2>2, <2>3 DEF ManagedRecord
<1>3. managed' \in [Managed -> ManagedRecord]
  <2> DEFINE f[m \in Managed] == [managed[m] EXCEPT !.killed = Live(m)]
  <2>1. managed' = f
    BY <1>1
  <2> QED  BY <1>2, <2>1
<1>4. SlotSum' /\ freeSlots' \in 0..MaxConcurrentRuns
  BY <1>1, <1>2, SameSlots DEF EngineInv
<1>5. TypeOK'
  BY <1>1, <1>3, <1>4 DEF EngineInv, TypeOK, durable
<1>6. HeldByTask' /\ TaskHasRun'
  BY <1>2 DEF EngineInv, HeldByTask, TaskHasRun
<1>7. RegistryRun'
  BY <1>1, <1>2 DEF EngineInv, RegistryRun, TypeOK
<1>8. FinalizingIsOver'
  BY <1>1, <1>2, FinalizedRunIsOver DEF EngineInv, FinalizingIsOver, durable
<1> QED  BY <1>4, <1>5, <1>6, <1>7, <1>8 DEF EngineInv

\* No object is in use and every slot is free.
LEMMA FreshMemory ==
  ASSUME EngineAssumption
  PROVE  /\ [m \in Managed |-> Blank] \in [Managed -> ManagedRecord]
         /\ [r \in Run |-> NoManaged] \in [Run -> Managed \cup {NoManaged}]
         /\ MaxConcurrentRuns \in 0..MaxConcurrentRuns
         /\ MaxConcurrentRuns + Cardinality({}) = MaxConcurrentRuns
  BY BlankType, FS_EmptySet DEF EngineAssumption

\* A crash empties the memory and so restores the invariant.
LEMMA CrashStep ==
  ASSUME EngineAssumption, EngineInv, Crash
  PROVE  EngineInv'
<1>1. /\ managed' = [m \in Managed |-> Blank]
      /\ registry' = [r \in Run |-> NoManaged]
      /\ freeSlots' = MaxConcurrentRuns /\ writes' = <<>>
      /\ phase' = "recovering" /\ UNCHANGED durable
      /\ restarts < MaxRestarts /\ restarts' = restarts + 1
  BY DEF Crash
<1>2. HeldSlots' = {}
  BY <1>1, BlankType DEF HeldSlots
<1>3. SlotSum'
  BY <1>1, <1>2, FreshMemory DEF SlotSum
<1>4. restarts' \in 0..MaxRestarts
  BY <1>1 DEF EngineAssumption, EngineInv, TypeOK
<1>5. TypeOK'
  BY <1>1, <1>4, FreshMemory, NoWrites DEF EngineInv, TypeOK, durable
<1>6. HeldByTask' /\ TaskHasRun' /\ RegistryRun' /\ FinalizingIsOver'
  BY <1>1, BlankType DEF HeldByTask, TaskHasRun, RegistryRun, FinalizingIsOver, Working, GraphTask
<1> QED  BY <1>3, <1>5, <1>6 DEF EngineInv

\* _recover_cancelled_run keeps the invariant.
LEMMA RecoverCancelledRunStep ==
  ASSUME EngineInv, NEW r \in Run, RecoverCancelledRun(r)
  PROVE  EngineInv'
<1>1. /\ Event(r, "recovered_at") \in Write /\ Event(r, "cancelled") \in Write
      /\ StatusWrite(r, "cancelled") \in Write
      /\ Event(r, "run_consistency_checked") \in Write
  BY EventIsWrite, StatusIsWrite DEF EventKind, RunStatuses, TerminalRunStatuses
<1>2. writes = <<>> /\ writes' \in Seq(Write)
  BY <1>1 DEF RecoverCancelledRun, Recovering
<1>3. UNCHANGED <<durable, memory, restarts>> /\ phase' = "recovering"
  BY DEF RecoverCancelledRun, Recovering
<1> QED  BY <1>2, <1>3, QueueStep

\* _recover_failed_run keeps the invariant.
LEMMA RecoverFailedRunStep ==
  ASSUME EngineInv, NEW r \in Run, RecoverFailedRun(r)
  PROVE  EngineInv'
<1>1. /\ Event(r, "recovered_at") \in Write /\ Event(r, "error") \in Write
      /\ Event(r, "run_failed_meta") \in Write /\ StatusWrite(r, "failed") \in Write
      /\ Event(r, "run_consistency_checked") \in Write
  BY EventIsWrite, StatusIsWrite DEF EventKind, RunStatuses, TerminalRunStatuses
<1>2. writes = <<>> /\ writes' \in Seq(Write)
  BY <1>1 DEF RecoverFailedRun, Recovering
<1>3. UNCHANGED <<durable, memory, restarts>> /\ phase' = "recovering"
  BY DEF RecoverFailedRun, Recovering
<1> QED  BY <1>2, <1>3, QueueStep

\* The end of _cleanup_orphan_runs keeps the invariant.
LEMMA EndRecoveryStep ==
  ASSUME EngineInv, EndRecovery
  PROVE  EngineInv'
<1>1. UNCHANGED <<durable, memory, restarts>> /\ UNCHANGED writes /\ phase' = "up"
  BY DEF EndRecovery
<1> QED  BY <1>1, QueueStep

-----------------------------------------------------------------------------
(* The invariant *)

\* A first process starts in the invariant.
LEMMA InitInv == ASSUME EngineAssumption, Init PROVE EngineInv
<1>1. /\ managed = [m \in Managed |-> Blank]
      /\ registry = [r \in Run |-> NoManaged]
      /\ freeSlots = MaxConcurrentRuns /\ writes = <<>> /\ phase = "recovering"
      /\ status = [r \in Run |-> "absent"] /\ log = [r \in Run |-> {}]
      /\ closed = {} /\ restarts = 0
  BY DEF Init
<1>2. HeldSlots = {}
  BY <1>1, BlankType DEF HeldSlots
<1>3. SlotSum
  BY <1>1, <1>2, FreshMemory DEF SlotSum
<1>4. TypeOK
  BY <1>1, FreshMemory, NoWrites DEF TypeOK, EngineAssumption
<1>5. HeldByTask /\ TaskHasRun /\ RegistryRun /\ FinalizingIsOver
  BY <1>1, BlankType DEF HeldByTask, TaskHasRun, RegistryRun, FinalizingIsOver, Working, GraphTask
<1> QED  BY <1>3, <1>4, <1>5 DEF EngineInv

\* A step that changes nothing keeps the invariant.
LEMMA StutterInv == ASSUME EngineInv, UNCHANGED vars PROVE EngineInv'
<1>1. UNCHANGED <<durable, memory, restarts>> /\ UNCHANGED writes /\ UNCHANGED phase
  BY DEF vars, durable, memory
<1>2. phase' \in {"recovering", "up", "stopping"}
  BY <1>1 DEF EngineInv, TypeOK
<1> QED  BY <1>1, <1>2, QueueStep

\* Every step keeps the invariant: the step lemmas together.
LEMMA NextInv == ASSUME EngineAssumption, EngineInv, [Next]_vars PROVE EngineInv'
<1>1. CASE Request
  <2>1. ASSUME NEW r \in Run, NEW m \in Managed, CreateRun(r, m) PROVE EngineInv'
    BY <2>1, CreateRunStep
  <2>2. ASSUME NEW r \in Run, NEW m \in Managed, ReplayCreate(r, m) PROVE EngineInv'
    BY <2>2, ReplayCreateStep
  <2>3. ASSUME NEW r \in Run, StreamReplay(r) PROVE EngineInv'
    BY <2>3, StreamReplayStep
  <2>4. ASSUME NEW r \in Run, Cancel(r) PROVE EngineInv'
    BY <2>4, CancelStep
  <2>5. ASSUME NEW r \in Run, Approve(r) PROVE EngineInv'
    BY <2>5, ApproveStep
  <2>6. ASSUME NEW r \in Run, Reject(r) PROVE EngineInv'
    BY <2>6, RejectStep
  <2>7. ASSUME NEW t \in Thread, CloseThread(t) PROVE EngineInv'
    BY <2>7, CloseThreadStep
  <2> QED  BY <1>1, <2>1, <2>2, <2>3, <2>4, <2>5, <2>6, <2>7 DEF Request
<1>2. CASE \E m \in Managed : TaskStep(m)
  <2> PICK m \in Managed : TaskStep(m)
    BY <1>2
  <2> QED  BY ExecuteStartStep, ContinueStartStep, ExecuteWakeStep, GraphInterruptStep,
              GraphDoneStep, GraphFailStep, KilledStep, VerifyCheckpointStep, CompactStep
           DEF TaskStep
<1>3. CASE Commit
  BY <1>3, CommitStep
<1>4. CASE Recovery
  BY <1>4, RecoverCancelledRunStep, RecoverFailedRunStep, RehydrateStep, EndRecoveryStep
  DEF Recovery
<1>5. CASE Shutdown
  BY <1>5, ShutdownStep
<1>6. CASE Crash
  BY <1>6, CrashStep
<1>7. CASE UNCHANGED vars
  BY <1>7, StutterInv
<1> QED  BY <1>1, <1>2, <1>3, <1>4, <1>5, <1>6, <1>7 DEF Next

\* The inductive invariant holds in every state the engine can reach, through
\* any number of runs, cancellations, crashes and restarts.
THEOREM EngineInvariant == Spec => []EngineInv
<1>1. Init => EngineInv
  BY EngineAssumption, InitInv
<1>2. EngineInv /\ [Next]_vars => EngineInv'
  BY EngineAssumption, NextInv
<1> QED  BY <1>1, <1>2, PTL DEF Spec

\* Type correctness: among others, the semaphore never goes below zero nor
\* above max_concurrent_runs.
THEOREM TypeCorrectness == Spec => []TypeOK
<1>1. EngineInv => TypeOK
  BY DEF EngineInv
<1> QED  BY <1>1, EngineInvariant, PTL

\* The semaphore and the slot_acquired flags agree, and the graph runs only
\* inside a slot.
THEOREM SlotsAreAccountedFor == Spec => []SlotAccounting
<1>1. EngineInv => SlotAccounting
  BY DEF EngineInv, SlotSum, HeldSlots, HeldByTask, SlotAccounting, Working
<1> QED  BY <1>1, EngineInvariant, PTL

-----------------------------------------------------------------------------
(* One active run per thread *)

\* Only the creation of a run and a commit touch the status column.
LEMMA StatusSteps ==
  ASSUME [Next]_vars, ~Commit, \A r \in Run, m \in Managed : ~CreateRun(r, m)
  PROVE  UNCHANGED status
  BY DEF Next, Request, Recovery, TaskStep, vars, durable, memory,
       ReplayCreate, StreamReplay, Cancel, Approve, Reject, Decide, CloseThread,
       ExecuteStart, ContinueStart, ExecuteWake, GraphInterrupt, GraphDone, GraphFail,
       Killed, VerifyCheckpoint, Compact, Shutdown, Crash, RecoverCancelledRun,
       RecoverFailedRun, Rehydrate, EndRecovery

\* Every step keeps at most one run of a thread that is not over.
LEMMA OneActiveNext ==
  ASSUME EngineInv, OneActiveRunPerThread, [Next]_vars
  PROVE  OneActiveRunPerThread'
<1>1. CASE UNCHANGED status
  BY <1>1 DEF OneActiveRunPerThread
<1>2. ASSUME NEW r \in Run, NEW m \in Managed, CreateRun(r, m)
      PROVE  OneActiveRunPerThread'
  <2>1. \A q \in Run : ThreadOf[q] = ThreadOf[r] => status[q] \notin NonTerminalRunStatuses
    BY <1>2 DEF CreateRun, Active
  <2>2. status' = [status EXCEPT ![r] = "queued"] /\ status \in [Run -> RunStatuses \cup {"absent"}]
    BY <1>2 DEF CreateRun, EngineInv, TypeOK
  <2> QED  BY <2>1, <2>2 DEF OneActiveRunPerThread
<1>3. CASE Commit
  <2> DEFINE w == Head(writes)
  <2>1. w \in Write
    BY <1>3 DEF Commit, EngineInv, TypeOK
  <2>2. \/ status' = status
        \/ /\ w.kind = "status" /\ ValidRunTransition(status[w.run], w.value)
           /\ status' = [status EXCEPT ![w.run] = w.value]
    BY <1>3 DEF Commit, CanMove
  <2>3. status \in [Run -> RunStatuses \cup {"absent"}]
    BY DEF EngineInv, TypeOK
  <2>4. \A r \in Run : status'[r] \in NonTerminalRunStatuses => status[r] \in NonTerminalRunStatuses
    BY <2>1, <2>2, <2>3, ActiveWasActive DEF Write
  <2> QED  BY <2>4 DEF OneActiveRunPerThread
<1> QED  BY <1>1, <1>2, <1>3, StatusSteps

\* A thread never has two runs that are not over.
THEOREM OneActiveRun == Spec => []OneActiveRunPerThread
<1>1. Init => OneActiveRunPerThread
  BY DEF Init, OneActiveRunPerThread, NonTerminalRunStatuses
<1>2. EngineInv /\ OneActiveRunPerThread /\ [Next]_vars => OneActiveRunPerThread'
  BY OneActiveNext
<1> QED  BY <1>1, <1>2, EngineInvariant, PTL DEF Spec

-----------------------------------------------------------------------------
(* ExecutionEngine implements RunLifecycle *)

\* The abstract variables, as RL substitutes them.
Busy == [t \in Thread |-> IF \E r \in Run : WorksOn(t, r) THEN CHOOSE r \in Run : WorksOn(t, r)
                          ELSE NoRun]

Ended == [r \in Run |-> IF status[r] \in TerminalRunStatuses THEN status[r] ELSE "none"]

\* A thread with a run that is not over is busy with that run.
LEMMA BusyWith ==
  ASSUME OneActiveRunPerThread, NEW t \in Thread, NEW r \in Run, WorksOn(t, r)
  PROVE  Busy[t] = r
<1>1. \A q \in Run : WorksOn(t, q) => q = r
  BY DEF WorksOn, OneActiveRunPerThread
<1> QED  BY <1>1 DEF Busy

\* A thread without such a run is busy with none.
LEMMA IdleThread ==
  ASSUME NEW t \in Thread, \A r \in Run : ~WorksOn(t, r)
  PROVE  Busy[t] = NoRun
  BY DEF Busy

\* The same runs are active and the same runs are over: nothing happened.
LEMMA SameView ==
  ASSUME NEW S, status \in [Run -> S], status' \in [Run -> S],
         \A r \in Run : /\ (status[r] \in NonTerminalRunStatuses) = (status'[r] \in NonTerminalRunStatuses)
                        /\ status[r] \notin NonTerminalRunStatuses => status'[r] = status[r]
  PROVE  Busy' = Busy /\ Ended' = Ended
<1>1. \A t \in Thread, r \in Run : WorksOn(t, r)' = WorksOn(t, r)
  BY DEF WorksOn
<1>2. Busy' = Busy
  <2>1. \A t \in Thread : (\E r \in Run : WorksOn(t, r)') = (\E r \in Run : WorksOn(t, r))
    BY <1>1
  <2>2. \A t \in Thread : (CHOOSE r \in Run : WorksOn(t, r)') = (CHOOSE r \in Run : WorksOn(t, r))
    BY <1>1
  <2> QED  BY <2>1, <2>2, Zenon DEF Busy
<1>3. Ended' = Ended
  BY DEF Ended, NonTerminalRunStatuses, TerminalRunStatuses
<1> QED  BY <1>2, <1>3

\* CreateRun begins the run.
LEMMA CreateRunBegins ==
  ASSUME EngineAssumption, EngineInv, OneActiveRunPerThread, OneActiveRunPerThread',
         NEW r \in Run, NEW m \in Managed, CreateRun(r, m)
  PROVE  /\ Busy[ThreadOf[r]] = NoRun /\ Ended[r] = "none"
         /\ Busy' = [Busy EXCEPT ![ThreadOf[r]] = r]
         /\ Ended' = Ended
<1>1. /\ status[r] = "absent" /\ status' = [status EXCEPT ![r] = "queued"]
      /\ \A q \in Run : ThreadOf[q] = ThreadOf[r] => status[q] \notin NonTerminalRunStatuses
      /\ status \in [Run -> RunStatuses \cup {"absent"}]
      /\ ThreadOf \in [Run -> Thread]
  BY DEF CreateRun, Active, EngineInv, TypeOK, EngineAssumption
<1>2. Busy[ThreadOf[r]] = NoRun
  BY <1>1, IdleThread DEF WorksOn
<1>3. Ended' = Ended /\ Ended[r] = "none"
  BY <1>1 DEF Ended, TerminalRunStatuses
<1>4. ASSUME NEW t \in Thread PROVE Busy'[t] = [Busy EXCEPT ![ThreadOf[r]] = r][t]
  <2>1. CASE t = ThreadOf[r]
    <3>1. WorksOn(t, r)'
      BY <1>1, <2>1 DEF WorksOn, NonTerminalRunStatuses
    <3>2. \A q \in Run : WorksOn(t, q)' => q = r
      BY <3>1 DEF WorksOn, OneActiveRunPerThread
    <3>3. Busy'[t] = r
      BY <3>1, <3>2 DEF Busy
    <3> QED  BY <3>3, <2>1 DEF Busy
  <2>2. CASE t # ThreadOf[r]
    <3>1. \A q \in Run : WorksOn(t, q)' = WorksOn(t, q)
      BY <1>1, <2>2 DEF WorksOn
    <3>2. Busy'[t] = Busy[t]
      BY <3>1 DEF Busy
    <3> QED  BY <3>2, <2>2 DEF Busy
  <2> QED  BY <2>1, <2>2
<1>5. Busy' = [Busy EXCEPT ![ThreadOf[r]] = r]
  BY <1>4 DEF Busy
<1> QED  BY <1>2, <1>3, <1>5

\* A commit that ends an active run ends it in the abstract specification.
LEMMA CommitEnds ==
  ASSUME EngineAssumption, EngineInv, OneActiveRunPerThread, OneActiveRunPerThread',
         NEW r \in Run, NEW s \in TerminalRunStatuses,
         status[r] \in NonTerminalRunStatuses, status' = [status EXCEPT ![r] = s]
  PROVE  /\ Busy[ThreadOf[r]] = r
         /\ Busy' = [Busy EXCEPT ![ThreadOf[r]] = NoRun]
         /\ Ended' = [Ended EXCEPT ![r] = s]
<1>1. /\ status \in [Run -> RunStatuses \cup {"absent"}]
      /\ ThreadOf \in [Run -> Thread] /\ s \notin NonTerminalRunStatuses
  BY DEF EngineInv, TypeOK, EngineAssumption, TerminalRunStatuses, NonTerminalRunStatuses
<1>2. Busy[ThreadOf[r]] = r
  BY <1>1, BusyWith DEF WorksOn
<1>3. Ended' = [Ended EXCEPT ![r] = s]
  BY <1>1 DEF Ended
<1>4. ASSUME NEW t \in Thread PROVE Busy'[t] = [Busy EXCEPT ![ThreadOf[r]] = NoRun][t]
  <2>1. CASE t = ThreadOf[r]
    <3>1. \A q \in Run : ~WorksOn(t, q)'
      BY <1>1, <2>1 DEF WorksOn, OneActiveRunPerThread
    <3>2. Busy'[t] = NoRun
      BY <3>1 DEF Busy
    <3> QED  BY <3>2, <2>1 DEF Busy
  <2>2. CASE t # ThreadOf[r]
    <3>1. \A q \in Run : WorksOn(t, q)' = WorksOn(t, q)
      BY <1>1, <2>2 DEF WorksOn
    <3>2. Busy'[t] = Busy[t]
      BY <3>1 DEF Busy
    <3> QED  BY <3>2, <2>2 DEF Busy
  <2> QED  BY <2>1, <2>2
<1>5. Busy' = [Busy EXCEPT ![ThreadOf[r]] = NoRun]
  BY <1>4 DEF Busy
<1> QED  BY <1>2, <1>3, <1>5

\* Every step of the engine is a step of RunLifecycle or changes nothing it sees.
LEMMA ViewStep ==
  ASSUME EngineAssumption, EngineInv, EngineInv', OneActiveRunPerThread, OneActiveRunPerThread',
         [Next]_vars
  PROVE  \/ Busy' = Busy /\ Ended' = Ended
         \/ \E r \in Run :
              /\ Busy[ThreadOf[r]] = NoRun /\ Ended[r] = "none"
              /\ Busy' = [Busy EXCEPT ![ThreadOf[r]] = r] /\ Ended' = Ended
         \/ \E r \in Run, s \in TerminalRunStatuses :
              /\ Busy[ThreadOf[r]] = r
              /\ Busy' = [Busy EXCEPT ![ThreadOf[r]] = NoRun]
              /\ Ended' = [Ended EXCEPT ![r] = s]
<1>1. CASE UNCHANGED status
  BY <1>1 DEF Busy, Ended, WorksOn
<1>2. CASE \E r \in Run, m \in Managed : CreateRun(r, m)
  BY <1>2, CreateRunBegins
<1>3. CASE Commit
  <2> DEFINE w == Head(writes)
             r == w.run
  <2>1. w \in Write
    BY <1>3 DEF Commit, EngineInv, TypeOK
  <2>2. CASE w.kind = "event"
    BY <1>1, <1>3, <2>2 DEF Commit
  <2>3. CASE w.kind = "status"
    <3>1. r \in Run /\ w.value \in RunStatuses /\ ValidRunTransition(status[r], w.value)
          /\ status' = [status EXCEPT ![r] = w.value]
      BY <1>3, <2>1, <2>3 DEF Commit, CanMove, Write
    <3>2. status \in [Run -> RunStatuses \cup {"absent"}] /\ status' \in [Run -> RunStatuses \cup {"absent"}]
      BY DEF EngineInv, TypeOK
    <3>3. CASE w.value \in NonTerminalRunStatuses
      <4>1. status[r] \in NonTerminalRunStatuses
        BY <3>1, <3>2, <3>3, ActiveWasActive
      <4> QED  BY <3>1, <3>2, <3>3, <4>1, SameView
    <3>4. CASE w.value \in TerminalRunStatuses /\ status[r] \in NonTerminalRunStatuses
      BY <3>1, <3>4, CommitEnds
    <3>5. CASE w.value \in TerminalRunStatuses /\ status[r] \in TerminalRunStatuses
      <4>1. w.value = status[r]
        BY <3>1, <3>5, TerminalStays
      <4> QED  BY <1>1, <3>1, <3>2, <4>1
    <3>6. CASE w.value \in TerminalRunStatuses /\ status[r] = "absent"
      BY <3>1, <3>6 DEF ValidRunTransition, AllowedRunTransitions, TerminalRunStatuses
    <3> QED  BY <3>1, <3>2, <3>3, <3>4, <3>5, <3>6 DEF RunStatuses
  <2> QED  BY <2>1, <2>2, <2>3 DEF Write
<1> QED  BY <1>1, <1>2, <1>3, StatusSteps

\* The status column keeps the promise of RunLifecycle: a thread works on one
\* run at a time, and a run begins at most once and ends at most once.
THEOREM Implementation == Spec => ImplementsRunLifecycle
<1>1. Init => RL!Init
  <2> SUFFICES ASSUME Init PROVE RL!Init
    OBVIOUS
  <2>1. \A r \in Run : status[r] = "absent"
    BY DEF Init
  <2> QED  BY <2>1 DEF RL!Init, WorksOn, NonTerminalRunStatuses, TerminalRunStatuses
<1>2. EngineInv /\ EngineInv' /\ OneActiveRunPerThread /\ OneActiveRunPerThread' /\ [Next]_vars
        => [RL!Next]_RL!lifecycleVars
  BY EngineAssumption, ViewStep
  DEF RL!Next, RL!Begin, RL!End, RL!lifecycleVars, RL!Outcome, Busy, Ended, TerminalRunStatuses
<1> QED  BY <1>1, <1>2, EngineInvariant, OneActiveRun, PTL
         DEF Spec, RL!Spec, ImplementsRunLifecycle

-----------------------------------------------------------------------------
(* A terminal status never precedes its evidence.  The property says nothing *)
(* of the commits that are still queued, and a commit of a status makes it   *)
(* false unless its evidence is stored by then.  Proven is the missing part. *)

\* Event e of the run of commit i is stored, or queued before that commit.
Told(ws, i, e) ==
    \/ e \in log[ws[i].run]
    \/ \E j \in 1..(i - 1) : ws[j] = Event(ws[i].run, e)

\* The commits ws change no status to a terminal one before its evidence.
Proven(ws) ==
    \A i \in 1..Len(ws) :
        ws[i].kind = "status" =>
            /\ ws[i].value = "cancelled" => Told(ws, i, "cancelled")
            /\ ws[i].value = "failed" => Told(ws, i, "error") /\ Told(ws, i, "run_failed_meta")
            /\ ws[i].value = "completed" => Told(ws, i, "done") \/ Told(ws, i, "error")

EvidenceInv == TerminalEvidence /\ Proven(writes)

\* The commits ws end no run.
EndsNothing(ws) ==
    \A i \in 1..Len(ws) : ws[i].kind = "status" => ws[i].value \notin TerminalRunStatuses

\* Commits that end no run need no evidence.
LEMMA EndsNothingIsProven == ASSUME NEW ws, EndsNothing(ws) PROVE Proven(ws)
  BY DEF EndsNothing, Proven, TerminalRunStatuses

\* Commits that end no run may follow others.
LEMMA ProvenConcat ==
  ASSUME NEW ws \in Seq(Write), NEW vs \in Seq(Write), Proven(ws), EndsNothing(vs)
  PROVE  Proven(ws \o vs)
<1> DEFINE all == ws \o vs
<1>1. /\ Len(all) = Len(ws) + Len(vs) /\ Len(ws) \in Nat /\ Len(vs) \in Nat
      /\ \A i \in 1..Len(ws) : all[i] = ws[i]
      /\ \A i \in (Len(ws) + 1)..Len(all) : all[i] = vs[i - Len(ws)]
  BY ConcatProperties, LenProperties
<1> SUFFICES ASSUME NEW i \in 1..Len(all), all[i].kind = "status"
             PROVE  /\ all[i].value = "cancelled" => Told(all, i, "cancelled")
                    /\ all[i].value = "failed" => Told(all, i, "error") /\ Told(all, i, "run_failed_meta")
                    /\ all[i].value = "completed" => Told(all, i, "done") \/ Told(all, i, "error")
  BY DEF Proven
<1> HIDE DEF all
<1>2. CASE i \in 1..Len(ws)
  <2>1. all[i] = ws[i] /\ \A j \in 1..(i - 1) : j \in 1..Len(ws) /\ all[j] = ws[j]
    BY <1>1, <1>2
  <2>2. \A e : Told(ws, i, e) => Told(all, i, e)
    BY <2>1 DEF Told
  <2> QED  BY <1>2, <2>1, <2>2 DEF Proven
<1>3. CASE i \notin 1..Len(ws)
  <2>1. i \in (Len(ws) + 1)..Len(all) /\ i - Len(ws) \in 1..Len(vs)
    BY <1>1, <1>3
  <2>2. all[i].value \notin TerminalRunStatuses
    BY <1>1, <2>1 DEF EndsNothing
  <2> QED  BY <2>2 DEF TerminalRunStatuses
<1> QED  BY <1>2, <1>3

\* Concatenated commits that end no run end none.
LEMMA EndsNothingConcat ==
  ASSUME NEW ws \in Seq(Write), NEW vs \in Seq(Write), EndsNothing(ws), EndsNothing(vs)
  PROVE  EndsNothing(ws \o vs)
<1>1. /\ Len(ws \o vs) = Len(ws) + Len(vs) /\ Len(ws) \in Nat /\ Len(vs) \in Nat
      /\ \A i \in 1..Len(ws) : (ws \o vs)[i] = ws[i]
      /\ \A i \in (Len(ws) + 1)..Len(ws \o vs) : (ws \o vs)[i] = vs[i - Len(ws)]
  BY ConcatProperties, LenProperties
<1> SUFFICES ASSUME NEW i \in 1..Len(ws \o vs), (ws \o vs)[i].kind = "status"
             PROVE  (ws \o vs)[i].value \notin TerminalRunStatuses
  BY DEF EndsNothing
<1>2. CASE i \in 1..Len(ws)
  BY <1>1, <1>2 DEF EndsNothing
<1>3. CASE i \notin 1..Len(ws)
  <2>1. i \in (Len(ws) + 1)..Len(ws \o vs) /\ i - Len(ws) \in 1..Len(vs)
    BY <1>1, <1>3
  <2> QED  BY <1>1, <2>1 DEF EndsNothing
<1> QED  BY <1>2, <1>3

\* Events end no run.
LEMMA EventsEndNothing ==
  ASSUME NEW r, NEW e, NEW f
  PROVE  /\ EndsNothing(<<>>)
         /\ EndsNothing(<<Event(r, e)>>)
         /\ EndsNothing(<<Event(r, e), Event(r, f)>>)
  BY DEF EndsNothing, Event

\* One event is a sequence of commits that ends no run.
LEMMA OneEvent ==
  ASSUME NEW r \in Run, NEW e \in EventKind
  PROVE  <<Event(r, e)>> \in Seq(Write) /\ EndsNothing(<<Event(r, e)>>)
<1>1. <<Event(r, e)>> \in Seq(Write)
  BY EventIsWrite
<1>2. EndsNothing(<<Event(r, e)>>)
  BY EventsEndNothing
<1> QED  BY <1>1, <1>2

\* A change to a status that is not terminal ends no run.
LEMMA UpdateEndsNothing ==
  ASSUME NEW r, NEW s, s \notin TerminalRunStatuses
  PROVE  EndsNothing(Update(r, s)) /\ EndsNothing(<<StatusWrite(r, s)>>)
  BY DEF EndsNothing, Update, StatusWrite

\* The evidence of status s is among the commits ws.
Shows(ws, r, s) ==
    /\ s = "cancelled" => \E j \in 1..Len(ws) : ws[j] = Event(r, "cancelled")
    /\ s = "failed" => /\ \E j \in 1..Len(ws) : ws[j] = Event(r, "error")
                       /\ \E j \in 1..Len(ws) : ws[j] = Event(r, "run_failed_meta")
    /\ s = "completed" => \E j \in 1..Len(ws) : ws[j] \in {Event(r, "done"), Event(r, "error")}

\* A status may follow its evidence.
LEMMA ProvenUpdate ==
  ASSUME NEW r \in Run, NEW s \in RunStatuses, NEW ws \in Seq(Write),
         EndsNothing(ws), Shows(ws, r, s)
  PROVE  Proven(ws \o Update(r, s))
<1> DEFINE n == Len(ws) + 1
           w == StatusWrite(r, s)
           all == ws \o <<w>>
<1>1. CASE status[r] = s
  <2>1. ws \o Update(r, s) = ws
    BY <1>1 DEF Update
  <2> QED  BY <2>1, EndsNothingIsProven
<1>2. CASE status[r] # s
  <2>1. Update(r, s) = <<w>>
    BY <1>2 DEF Update
  <2>2. /\ w.run = r /\ w.kind = "status" /\ w.value = s
    BY DEF StatusWrite
  <2> HIDE DEF w
  <2>3. /\ Len(all) = n /\ Len(ws) \in Nat
        /\ all[n] = w
        /\ \A i \in 1..Len(ws) : all[i] = ws[i]
    OBVIOUS
  <2> HIDE DEF all
  <2>4. ASSUME NEW i \in 1..Len(ws), all[i].kind = "status"
        PROVE  all[i].value \notin TerminalRunStatuses
    BY <2>3, <2>4 DEF EndsNothing
  <2>5. \A e : (\E j \in 1..Len(ws) : ws[j] = Event(r, e)) => Told(all, n, e)
    BY <2>2, <2>3 DEF Told
  <2>6. /\ s = "cancelled" => Told(all, n, "cancelled")
        /\ s = "failed" => Told(all, n, "error") /\ Told(all, n, "run_failed_meta")
        /\ s = "completed" => Told(all, n, "done") \/ Told(all, n, "error")
    BY <2>5 DEF Shows
  <2>7. \A i \in 1..Len(all) : i = n \/ i \in 1..Len(ws)
    BY <2>3
  <2>8. Proven(all)
    BY <2>2, <2>3, <2>4, <2>6, <2>7 DEF Proven, TerminalRunStatuses
  <2> QED  BY <2>1, <2>8 DEF all
<1> QED  BY <1>1, <1>2

\* The finally clause adds an event at most.
LEMMA LeaveProves ==
  ASSUME NEW m \in Managed, managed[m].run \in Run, NEW ws \in Seq(Write), Proven(ws),
         NEW s, Leave(m, ws, s)
  PROVE  Proven(writes')
<1> DEFINE last == IF s \in TerminalRunStatuses /\ s # "completed"
                   THEN <<Event(managed[m].run, "run_consistency_checked")>> ELSE <<>>
<1>1. writes' = ws \o last
  BY DEF Leave
<1>2. last \in Seq(Write)
  BY EventIsWrite DEF EventKind
<1>3. EndsNothing(last)
  BY EventsEndNothing
<1> QED  BY <1>1, <1>2, <1>3, ProvenConcat

\* So does a last status change that its evidence precedes, made or refused.
LEMMA LeaveWithProves ==
  ASSUME NEW m \in Managed, managed[m].run \in Run, NEW ws \in Seq(Write), EndsNothing(ws),
         NEW s \in RunStatuses, Shows(ws, managed[m].run, s), LeaveWith(m, ws, s)
  PROVE  Proven(writes')
<1> DEFINE r == managed[m].run
<1>1. CASE CanMove(r, s)
  <2>1. Leave(m, ws \o Update(r, s), s)
    BY <1>1 DEF LeaveWith
  <2>2. Proven(ws \o Update(r, s))
    BY ProvenUpdate
  <2>3. ws \o Update(r, s) \in Seq(Write)
    BY UpdateIsWrites
  <2> QED  BY <2>1, <2>2, <2>3, LeaveProves
<1>2. CASE ~CanMove(r, s)
  <2>1. Leave(m, ws, status[r])
    BY <1>2 DEF LeaveWith, Unhandled
  <2> QED  BY <2>1, EndsNothingIsProven, LeaveProves
<1> QED  BY <1>1, <1>2

\* An exception that no clause catches stores nothing of a terminal kind.
LEMMA UnhandledProves ==
  ASSUME NEW m \in Managed, managed[m].run \in Run, NEW ws \in Seq(Write), EndsNothing(ws),
         Unhandled(m, ws)
  PROVE  Proven(writes')
  BY EndsNothingIsProven, LeaveProves DEF Unhandled

\* The failure clauses store the error and run_failed_meta events first, and an
\* exception with an empty message still leaves its error event.
LEMMA FailProves ==
  ASSUME NEW m \in Managed, managed[m].run \in Run, NEW ws \in Seq(Write), EndsNothing(ws),
         NEW blank, Fail(m, ws, blank)
  PROVE  Proven(writes')
<1> DEFINE r == managed[m].run
           error == Event(r, "error")
           meta == Event(r, "run_failed_meta")
           evidence == <<error, meta>>
           all == ws \o evidence
           s == IF blank THEN "completed" ELSE "failed"
<1>1. error \in Write /\ meta \in Write
  BY EventIsWrite DEF EventKind
<1>2. evidence \in Seq(Write) /\ EndsNothing(evidence)
  <2>1. evidence \in Seq(Write)
    BY <1>1
  <2>2. EndsNothing(evidence)
    BY EventsEndNothing
  <2> QED  BY <2>1, <2>2
<1>3. LeaveWith(m, all, s) /\ s \in RunStatuses
  BY DEF Fail, RunStatuses, TerminalRunStatuses
<1> HIDE DEF error, meta
<1>4. Len(all) = Len(ws) + 2 /\ all[Len(ws) + 1] = error /\ all[Len(ws) + 2] = meta
  BY <1>1
<1> HIDE DEF evidence
<1>5. all \in Seq(Write) /\ EndsNothing(all)
  BY <1>2, EndsNothingConcat
<1>6. Len(ws) + 1 \in 1..Len(all) /\ Len(ws) + 2 \in 1..Len(all)
  BY <1>4
<1> HIDE DEF all
<1>7. Shows(all, r, s)
  BY <1>4, <1>6 DEF Shows, error, meta
<1> HIDE DEF s
<1> QED  BY <1>3, <1>5, <1>7, LeaveWithProves

\* What a (re)started run and a request for approval store ends no run.
LEMMA ResumeEndsNothing ==
  ASSUME NEW r \in Run
  PROVE  EndsNothing(Resume(r)) /\ EndsNothing(AskForApproval(r))
<1> DEFINE begin == Update(r, "running")
           wait == Update(r, "waiting_approval")
           started == <<Event(r, "run_started")>>
           asked == <<Event(r, "approval_required")>>
           meta == <<Event(r, "run_checkpoint_meta")>>
<1>1. begin \in Seq(Write) /\ wait \in Seq(Write)
  BY UpdateIsWrites DEF RunStatuses, NonTerminalRunStatuses
<1>2. EndsNothing(begin) /\ EndsNothing(wait)
  BY UpdateEndsNothing DEF TerminalRunStatuses
<1>3. started \in Seq(Write) /\ asked \in Seq(Write) /\ meta \in Seq(Write)
  BY EventIsWrite DEF EventKind
<1>4. EndsNothing(started) /\ EndsNothing(asked) /\ EndsNothing(meta)
  BY EventsEndNothing
<1>5. Resume(r) = begin \o started /\ AskForApproval(r) = asked \o wait \o meta
  BY DEF Resume, AskForApproval
<1> HIDE DEF begin, wait, started, asked, meta
<1>6. EndsNothing(begin \o started)
  BY <1>1, <1>2, <1>3, <1>4, EndsNothingConcat
<1>7. asked \o wait \in Seq(Write) /\ EndsNothing(asked \o wait)
  BY <1>1, <1>2, <1>3, <1>4, EndsNothingConcat
<1>8. EndsNothing(asked \o wait \o meta)
  BY <1>3, <1>4, <1>7, EndsNothingConcat
<1> QED  BY <1>5, <1>6, <1>8

\* What the steps of a task queue is proven: each way out of the graph in turn.
LEMMA TaskStepProves ==
  ASSUME EngineInv, NEW m \in Managed, TaskStep(m)
  PROVE  Proven(writes') \/ writes' = writes
<1> DEFINE r == managed[m].run
           done == <<Event(r, "done")>>
           asked == <<Event(r, "approval_required")>>
           again == <<StatusWrite(r, "running"), Event(r, "run_started")>>
<1>1. managed[m].task # "none" => r \in Run
  BY DEF EngineInv, TaskHasRun
<1>2. Proven(<<>>) /\ EndsNothing(<<>>)
  BY EventsEndNothing, EndsNothingIsProven
<1>3. ASSUME r \in Run
      PROVE  /\ Proven(Resume(r)) /\ Proven(AskForApproval(r))
             /\ AskForApproval(r) \in Seq(Write) /\ Proven(AskForApproval(r) \o again)
  <2>1. EndsNothing(again)
    BY DEF EndsNothing, StatusWrite, Event, TerminalRunStatuses
  <2>2. again \in Seq(Write)
    BY <1>3, StatusIsWrite, EventIsWrite DEF EventKind, RunStatuses, NonTerminalRunStatuses
  <2> HIDE DEF again
  <2>3. AskForApproval(r) \in Seq(Write) /\ EndsNothing(AskForApproval(r))
    BY <1>3, AskIsWrites, ResumeEndsNothing
  <2>4. EndsNothing(AskForApproval(r) \o again)
    BY <2>1, <2>2, <2>3, EndsNothingConcat
  <2> QED  BY <1>3, <2>3, <2>4, ResumeEndsNothing, EndsNothingIsProven
<1>4. CASE ExecuteStart(m)
  BY <1>1, <1>2, <1>3, <1>4, NoWrites, FailProves DEF ExecuteStart, Turn, Suspend
<1>5. CASE ContinueStart(m)
  BY <1>1, <1>2, <1>3, <1>5, NoWrites, FailProves DEF ContinueStart, Turn, Suspend
<1>6. CASE ExecuteWake(m)
  BY <1>1, <1>2, <1>3, <1>6, NoWrites, UnhandledProves DEF ExecuteWake, Turn, Suspend
<1>7. CASE GraphInterrupt(m)
  <2>1. r \in Run
    BY <1>1, <1>7 DEF GraphInterrupt, Turn
  <2>2. asked \in Seq(Write) /\ EndsNothing(asked)
    BY <2>1, OneEvent DEF EventKind
  <2>3. CASE Suspend(m, AskForApproval(r), "execute_wait", FALSE)
    BY <1>3, <2>1, <2>3 DEF Suspend
  <2>4. CASE Suspend(m, AskForApproval(r) \o again, "execute_resume", TRUE)
    BY <1>3, <2>1, <2>4 DEF Suspend
  <2>5. CASE Leave(m, AskForApproval(r), "waiting_approval")
    BY <1>3, <2>1, <2>5, LeaveProves
  <2>6. CASE Unhandled(m, asked)
    BY <2>1, <2>2, <2>6, UnhandledProves
  <2> QED  BY <1>7, <2>3, <2>4, <2>5, <2>6 DEF GraphInterrupt
<1>8. CASE GraphDone(m)
  <2>1. r \in Run
    BY <1>1, <1>8 DEF GraphDone, Turn, GraphTask
  <2>2. done \in Seq(Write) /\ EndsNothing(done)
    BY <2>1, OneEvent DEF EventKind
  <2>3. "completed" \in RunStatuses /\ Shows(done, r, "completed")
    BY DEF RunStatuses, TerminalRunStatuses, Shows
  <2>4. CASE Leave(m, done \o Update(r, "completed"), "completed")
    <3>1. done \o Update(r, "completed") \in Seq(Write)
      BY <2>1, <2>2, <2>3, UpdateIsWrites
    <3>2. Proven(done \o Update(r, "completed"))
      BY <2>1, <2>2, <2>3, ProvenUpdate
    <3> QED  BY <2>1, <2>4, <3>1, <3>2, LeaveProves
  <2>5. CASE Fail(m, done, FALSE)
    BY <2>1, <2>2, <2>5, FailProves
  <2>6. CASE Unhandled(m, done)
    BY <2>1, <2>2, <2>6, UnhandledProves
  <2> QED  BY <1>8, <2>4, <2>5, <2>6 DEF GraphDone
<1>9. CASE GraphFail(m)
  BY <1>1, <1>2, <1>9, NoWrites, FailProves, UnhandledProves DEF GraphFail, Turn
<1>10. CASE Killed(m)
  <2>1. CASE UNCHANGED writes
    BY <2>1
  <2>2. CASE managed[m].task \in {"execute_graph", "continue_graph"} /\ MarkCancelled(m)
    <3> DEFINE ws == <<Event(r, "cancelled")>>
    <3>1. r \in Run
      BY <1>1, <2>2
    <3>2. ws \in Seq(Write) /\ EndsNothing(ws)
      BY <3>1, OneEvent DEF EventKind
    <3>3. "cancelled" \in RunStatuses /\ Shows(ws, r, "cancelled")
      BY DEF RunStatuses, TerminalRunStatuses, Shows
    <3>4. LeaveWith(m, ws, "cancelled")
      BY <2>2 DEF MarkCancelled
    <3> QED  BY <3>1, <3>2, <3>3, <3>4, LeaveWithProves
  <2>3. CASE managed[m].task \in {"execute_wait", "execute_resume"} /\ Unhandled(m, <<>>)
    BY <1>1, <1>2, <2>3, NoWrites, UnhandledProves
  <2> QED  BY <1>10, <2>1, <2>2, <2>3 DEF Killed
<1>11. CASE VerifyCheckpoint(m)
  BY <1>11, EventsEndNothing, EndsNothingIsProven DEF VerifyCheckpoint, Suspend
<1>12. CASE Compact(m)
  BY <1>12 DEF Compact
<1> QED  BY <1>4, <1>5, <1>6, <1>7, <1>8, <1>9, <1>10, <1>11, <1>12 DEF TaskStep

\* Only a commit stores something; every other step leaves the queue as it is,
\* empties it, or fills it with commits that are proven.
LEMMA QueueIsProven ==
  ASSUME EngineInv, Proven(writes), [Next]_vars, ~Commit
  PROVE  UNCHANGED log /\ (writes' = writes \/ Proven(writes'))
<1>1. EndsNothing(<<>>) /\ Proven(<<>>)
  BY EventsEndNothing, EndsNothingIsProven
<1>2. CASE Request
  <2>1. ASSUME NEW r \in Run, NEW m \in Managed, CreateRun(r, m)
        PROVE  UNCHANGED log /\ Proven(writes')
    BY <2>1, EventsEndNothing, EndsNothingIsProven DEF CreateRun
  <2>2. ASSUME NEW r \in Run, NEW m \in Managed, ReplayCreate(r, m)
        PROVE  UNCHANGED log /\ writes' = writes
    BY <2>2 DEF ReplayCreate
  <2>3. ASSUME NEW r \in Run, StreamReplay(r) PROVE UNCHANGED log /\ writes' = writes
    BY <2>3 DEF StreamReplay
  <2>4. ASSUME NEW r \in Run, Cancel(r) PROVE UNCHANGED log /\ Proven(writes')
    <3> DEFINE begin == Update(r, "cancelling")
               told == <<Event(r, "cancel_requested")>>
    <3>1. UNCHANGED log /\ writes' = begin \o told
      BY <2>4 DEF Cancel
    <3>2. told \in Seq(Write) /\ EndsNothing(told)
      BY OneEvent DEF EventKind
    <3>3. begin \in Seq(Write) /\ EndsNothing(begin)
      BY UpdateIsWrites, UpdateEndsNothing
      DEF RunStatuses, NonTerminalRunStatuses, TerminalRunStatuses
    <3> HIDE DEF begin, told
    <3> QED  BY <3>1, <3>2, <3>3, EndsNothingConcat, EndsNothingIsProven
  <2>5. ASSUME NEW r \in Run, Approve(r) \/ Reject(r) PROVE UNCHANGED log /\ Proven(writes')
    <3>1. /\ UNCHANGED log
          /\ \/ writes' = <<Event(r, "approved")>>
             \/ writes' = <<Event(r, "rejected")>>
             \/ writes' = <<Event(r, "rejected"), Event(r, "side_effect_blocked")>>
      BY <2>5 DEF Approve, Reject, Decide
    <3> QED  BY <3>1, EventsEndNothing, EndsNothingIsProven
  <2>6. ASSUME NEW t \in Thread, CloseThread(t) PROVE UNCHANGED log /\ writes' = writes
    BY <2>6 DEF CloseThread
  <2> QED  BY <1>2, <2>1, <2>2, <2>3, <2>4, <2>5, <2>6 DEF Request
<1>3. CASE \E m \in Managed : TaskStep(m)
  <2>1. UNCHANGED log
    BY <1>3 DEF TaskStep, ExecuteStart, ContinueStart, ExecuteWake, GraphInterrupt, GraphDone,
                GraphFail, Killed, VerifyCheckpoint, Compact, durable
  <2> QED  BY <1>3, <2>1, TaskStepProves
<1>4. CASE Recovery
  <2>1. ASSUME NEW r \in Run, RecoverCancelledRun(r) PROVE UNCHANGED log /\ Proven(writes')
    <3> DEFINE ws == <<Event(r, "recovered_at"), Event(r, "cancelled"),
                       StatusWrite(r, "cancelled"), Event(r, "run_consistency_checked")>>
    <3>1. /\ Len(ws) = 4 /\ ws[2] = Event(r, "cancelled") /\ ws[3] = StatusWrite(r, "cancelled")
          /\ \A i \in 1..4 : i # 3 => ws[i].kind = "event"
      BY DEF Event
    <3> HIDE DEF ws
    <3>2. Told(ws, 3, "cancelled")
      BY <3>1 DEF Told, StatusWrite
    <3>3. Proven(ws)
      BY <3>1, <3>2 DEF Proven, StatusWrite
    <3> QED  BY <2>1, <3>3 DEF RecoverCancelledRun, durable, ws
  <2>2. ASSUME NEW r \in Run, RecoverFailedRun(r) PROVE UNCHANGED log /\ Proven(writes')
    <3> DEFINE ws == <<Event(r, "recovered_at"), Event(r, "error"), Event(r, "run_failed_meta"),
                       StatusWrite(r, "failed"), Event(r, "run_consistency_checked")>>
    <3>1. /\ Len(ws) = 5 /\ ws[2] = Event(r, "error") /\ ws[3] = Event(r, "run_failed_meta")
          /\ ws[4] = StatusWrite(r, "failed")
          /\ \A i \in 1..5 : i # 4 => ws[i].kind = "event"
      BY DEF Event
    <3> HIDE DEF ws
    <3>2. Told(ws, 4, "error") /\ Told(ws, 4, "run_failed_meta")
      BY <3>1 DEF Told, StatusWrite
    <3>3. Proven(ws)
      BY <3>1, <3>2 DEF Proven, StatusWrite
    <3> QED  BY <2>2, <3>3 DEF RecoverFailedRun, durable, ws
  <2>3. ASSUME NEW r \in Run, NEW m \in Managed, Rehydrate(r, m)
        PROVE  UNCHANGED log /\ Proven(writes')
    BY <2>3, EventsEndNothing, EndsNothingIsProven DEF Rehydrate, durable
  <2>4. CASE EndRecovery
    BY <2>4 DEF EndRecovery, durable
  <2> QED  BY <1>4, <2>1, <2>2, <2>3, <2>4 DEF Recovery
<1>5. CASE Shutdown
  BY <1>5 DEF Shutdown, durable
<1>6. CASE Crash
  BY <1>1, <1>6 DEF Crash, durable
<1>7. CASE UNCHANGED vars
  BY <1>7 DEF vars
<1> QED  BY <1>2, <1>3, <1>4, <1>5, <1>6, <1>7 DEF Next

\* The next commit is proven by what is stored, and stores what proves the others.
LEMMA EvidenceCommit ==
  ASSUME EngineInv, EvidenceInv, Commit
  PROVE  EvidenceInv'
<1> DEFINE w == Head(writes)
           n == Len(writes)
<1>1. /\ writes \in Seq(Write) /\ writes # <<>> /\ w \in Write /\ w = writes[1]
      /\ n \in Nat /\ n > 0
      /\ writes' \in Seq(Write) /\ Len(writes') = n - 1
      /\ \A i \in 1..(n - 1) : writes'[i] = writes[i + 1]
  BY DEF Commit, EngineInv, TypeOK
<1>2. /\ log \in [Run -> SUBSET EventKind] /\ status \in [Run -> RunStatuses \cup {"absent"}]
      /\ w.run \in Run
  BY <1>1 DEF EngineInv, TypeOK, Write
<1>3. \A r \in Run : log[r] \subseteq log'[r]
  BY <1>2 DEF Commit
<1>4. TerminalEvidence'
  <2>1. CASE w.kind = "event"
    <3>1. status' = status
      BY <1>1, <2>1 DEF Commit
    <3> QED  BY <1>3, <3>1 DEF EvidenceInv, TerminalEvidence
  <2>2. CASE w.kind = "status"
    <3>1. status' = [status EXCEPT ![w.run] = w.value] /\ log' = log
      BY <1>1, <2>2 DEF Commit
    <3>2. \A e : Told(writes, 1, e) => e \in log[w.run]
      BY <1>1 DEF Told
    <3>3. /\ w.value = "cancelled" => "cancelled" \in log[w.run]
          /\ w.value = "failed" => {"error", "run_failed_meta"} \subseteq log[w.run]
          /\ w.value = "completed" => "done" \in log[w.run] \/ "error" \in log[w.run]
      BY <1>1, <2>2, <3>2 DEF EvidenceInv, Proven
    <3> QED  BY <1>2, <3>1, <3>3 DEF EvidenceInv, TerminalEvidence
  <2> QED  BY <1>1, <2>1, <2>2 DEF Write
<1>5. ASSUME NEW i \in 1..(n - 1), NEW e, Told(writes, i + 1, e)
      PROVE  \/ e \in log'[writes'[i].run]
             \/ \E j \in 1..(i - 1) : writes'[j] = Event(writes'[i].run, e)
  <2> DEFINE r == writes[i + 1].run
  <2>1. writes'[i].run = r /\ r \in Run
    BY <1>1 DEF Write
  <2>2. CASE e \in log[r]
    BY <1>3, <2>1, <2>2
  <2>3. CASE \E j \in 1..i : writes[j] = Event(r, e)
    <3>1. PICK j \in 1..i : writes[j] = Event(r, e)
      BY <2>3
    <3>2. CASE j = 1
      <4>1. w.kind = "event" /\ w.run = r /\ w.value = e
        BY <1>1, <3>1, <3>2 DEF Event
      <4>2. log' = [log EXCEPT ![w.run] = @ \cup {w.value}]
        BY <4>1 DEF Commit
      <4> QED  BY <1>2, <2>1, <4>1, <4>2
    <3>3. CASE j # 1
      <4>1. j - 1 \in 1..(i - 1) /\ j - 1 \in 1..(n - 1) /\ (j - 1) + 1 = j
        BY <1>1, <3>3
      <4>2. writes'[j - 1] = Event(r, e)
        BY <1>1, <3>1, <4>1
      <4> QED  BY <2>1, <4>1, <4>2
    <3> QED  BY <3>2, <3>3
  <2>4. (i + 1) - 1 = i
    OBVIOUS
  <2> QED  BY <1>5, <2>2, <2>3, <2>4 DEF Told
<1>6. Proven(writes)'
  <2> SUFFICES ASSUME NEW i \in 1..(n - 1), writes'[i].kind = "status"
               PROVE  /\ writes'[i].value = "cancelled" => Told(writes, i, "cancelled")'
                      /\ writes'[i].value = "failed" =>
                            Told(writes, i, "error")' /\ Told(writes, i, "run_failed_meta")'
                      /\ writes'[i].value = "completed" =>
                            Told(writes, i, "done")' \/ Told(writes, i, "error")'
    BY <1>1 DEF Proven
  <2>1. writes'[i] = writes[i + 1] /\ i + 1 \in 1..n
    BY <1>1
  <2>2. \A e : Told(writes, i + 1, e) => Told(writes, i, e)'
    BY <1>5 DEF Told
  <2> QED  BY <2>1, <2>2 DEF EvidenceInv, Proven
<1> QED  BY <1>4, <1>6 DEF EvidenceInv

\* Every step keeps the evidence of the runs that are over, or will be.
LEMMA EvidenceNext ==
  ASSUME EngineInv, EvidenceInv, [Next]_vars
  PROVE  EvidenceInv'
<1>1. CASE Commit
  BY <1>1, EvidenceCommit
<1>2. CASE ~Commit
  <2>1. log' = log
    BY <1>2, QueueIsProven DEF EvidenceInv
  <2>2. writes' = writes \/ Proven(writes')
    BY <1>2, QueueIsProven DEF EvidenceInv
  <2>3. Proven(writes)'
    BY <2>1, <2>2 DEF EvidenceInv, Proven, Told
  <2>4. ASSUME NEW r \in Run, NEW m \in Managed, CreateRun(r, m) PROVE TerminalEvidence'
    <3>1. status' = [status EXCEPT ![r] = "queued"] /\ status \in [Run -> RunStatuses \cup {"absent"}]
      BY <2>4 DEF CreateRun, EngineInv, TypeOK
    <3> QED  BY <2>1, <3>1 DEF EvidenceInv, TerminalEvidence
  <2>5. CASE UNCHANGED status
    BY <2>1, <2>3, <2>5 DEF EvidenceInv, TerminalEvidence
  <2> QED  BY <1>2, <2>3, <2>4, <2>5, StatusSteps DEF EvidenceInv
<1> QED  BY <1>1, <1>2

\* A run is never seen as cancelled, failed or completed without the events that
\* tell how it ended, wherever between two commits the process dies.
THEOREM EvidenceComesFirst == Spec => []TerminalEvidence
<1>1. Init => EvidenceInv
  BY DEF Init, EvidenceInv, TerminalEvidence, Proven
<1>2. EngineInv /\ EvidenceInv /\ [Next]_vars => EvidenceInv'
  BY EvidenceNext
<1>3. EvidenceInv => TerminalEvidence
  BY DEF EvidenceInv
<1> QED  BY <1>1, <1>2, <1>3, EngineInvariant, PTL DEF Spec

-----------------------------------------------------------------------------
(* Runs without keys can always be reached.  The proof needs that no object  *)
(* was made for a replayed request, for removing the entry of such an object *)
(* is what hides a live run.                                                 *)

NoneReused == \A m \in Managed : managed[m].reused = FALSE

ReachInv == NoneReused /\ ActiveRunIsManaged

\* The record of an object keeps reused in every step that changes one of them.
LEMMA ReusedKept ==
  ASSUME EngineInv, NoneReused, NEW m \in Managed, NEW rec, rec.reused = FALSE,
         managed' = [managed EXCEPT ![m] = rec]
  PROVE  NoneReused'
  BY DEF NoneReused, EngineInv, TypeOK

\* A verdict changes one object: it gets its flag, and a task if it had none.
LEMMA DecideShape ==
  ASSUME EngineInv, NEW r \in Run, NEW b \in BOOLEAN, NEW ws, Decide(r, b, ws)
  PROVE  LET old == managed[registry[r]]
         IN  /\ registry[r] \in Managed /\ old.run = r
             /\ status[r] = "waiting_approval" /\ writes = <<>>
             /\ \E rec \in ManagedRecord :
                  /\ managed' = [managed EXCEPT ![registry[r]] = rec]
                  /\ rec.approved = (old.approved \/ b) /\ rec.rejected = (old.rejected \/ ~b)
                  /\ \/ rec.task = old.task
                     \/ rec.task = "continue_new" /\ old.task \in {"none", "done"}
                  /\ rec.run = r /\ rec.killed = old.killed /\ rec.reused = old.reused
                  /\ rec.danger = old.danger
<1> DEFINE m == registry[r]
           old == managed[m]
           decided == [old EXCEPT !.approved = @ \/ b, !.rejected = @ \/ ~b]
           woken == [decided EXCEPT !.signalled = TRUE]
           again == [decided EXCEPT !.slot = TRUE, !.signalled = TRUE]
           begun == [decided EXCEPT !.slot = TRUE, !.task = "continue_new"]
           fits(rec) == /\ rec \in ManagedRecord
                        /\ rec.approved = (old.approved \/ b) /\ rec.rejected = (old.rejected \/ ~b)
                        /\ \/ rec.task = old.task
                           \/ rec.task = "continue_new" /\ old.task \in {"none", "done"}
                        /\ rec.run = old.run /\ rec.killed = old.killed
                        /\ rec.reused = old.reused /\ rec.danger = old.danger
<1>1. m \in Managed /\ old \in ManagedRecord /\ old.run = r
  BY DEF Decide, EngineInv, TypeOK, RegistryRun
<1>2. status[r] = "waiting_approval" /\ writes = <<>>
  BY DEF Decide, Serving
<1>3. fits(decided) /\ fits(woken) /\ fits(again)
  BY <1>1 DEF ManagedRecord
<1>4. ~Live(m) => fits(begun)
  BY <1>1 DEF ManagedRecord, TaskState, Live
<1>5. \/ managed' = [managed EXCEPT ![m] = woken]
      \/ managed' = [managed EXCEPT ![m] = again]
      \/ managed' = [managed EXCEPT ![m] = begun] /\ ~Live(m)
      \/ managed' = [managed EXCEPT ![m] = decided]
  BY DEF Decide
<1> HIDE DEF decided, woken, again, begun
<1> QED  BY <1>1, <1>2, <1>3, <1>4, <1>5

\* Without keys no object is made for a replayed request.
LEMMA NoneReusedNext ==
  ASSUME KeyedRun = {}, EngineInv, NoneReused, [Next]_vars
  PROVE  NoneReused'
<1>1. managed \in [Managed -> ManagedRecord]
  BY DEF EngineInv, TypeOK
<1>2. ASSUME NEW r \in Run, NEW m \in Managed, CreateRun(r, m) \/ Rehydrate(r, m)
      PROVE  NoneReused'
  BY <1>1, <1>2 DEF NoneReused, CreateRun, Rehydrate, Blank
<1>3. ASSUME NEW r \in Run, Cancel(r) PROVE NoneReused'
  BY <1>1, <1>3 DEF NoneReused, Cancel, ManagedRecord
<1>4. ASSUME NEW r \in Run, Approve(r) \/ Reject(r) PROVE NoneReused'
  <2> DEFINE m == registry[r]
  <2>1. m \in Managed
    BY <1>4 DEF Approve, Reject, Decide, EngineInv, TypeOK
  <2>2. PICK b \in BOOLEAN : \E ws : Decide(r, b, ws)
    BY <1>4 DEF Approve, Reject
  <2>3. PICK rec \in ManagedRecord :
          managed' = [managed EXCEPT ![m] = rec] /\ rec.reused = managed[m].reused
    BY <2>2, DecideShape
  <2>4. rec.reused = FALSE
    BY <2>1, <2>3 DEF NoneReused
  <2> QED  BY <2>1, <2>3, <2>4, ReusedKept
<1>5. ASSUME NEW m \in Managed, TaskStep(m) PROVE NoneReused'
  <2>1. ASSUME NEW ws, NEW s, Leave(m, ws, s) PROVE NoneReused'
    BY <1>1, <2>1 DEF NoneReused, Leave, ManagedRecord
  <2>2. ASSUME NEW ws, NEW t, NEW d, Suspend(m, ws, t, d) PROVE NoneReused'
    BY <1>1, <2>2 DEF NoneReused, Suspend, ManagedRecord
  <2>3. ASSUME NEW ws, Unhandled(m, ws) PROVE NoneReused'
    BY <2>1, <2>3 DEF Unhandled
  <2>4. ASSUME NEW ws, NEW s, LeaveWith(m, ws, s) PROVE NoneReused'
    BY <2>1, <2>3, <2>4 DEF LeaveWith
  <2>5. ASSUME NEW ws, NEW blank, Fail(m, ws, blank) PROVE NoneReused'
    BY <2>4, <2>5 DEF Fail
  <2>6. CASE ExecuteStart(m) \/ ContinueStart(m) \/ ExecuteWake(m) \/ VerifyCheckpoint(m)
    BY <2>2, <2>3, <2>5, <2>6 DEF ExecuteStart, ContinueStart, ExecuteWake, VerifyCheckpoint
  <2>7. CASE GraphInterrupt(m) \/ GraphDone(m) \/ GraphFail(m)
    BY <2>1, <2>2, <2>3, <2>5, <2>7 DEF GraphInterrupt, GraphDone, GraphFail
  <2>8. CASE Killed(m)
    <3>1. CASE managed' = [managed EXCEPT ![m].task = "done", ![m].killed = FALSE]
      BY <1>1, <3>1 DEF NoneReused, ManagedRecord
    <3> QED  BY <2>3, <2>4, <2>8, <3>1 DEF Killed, MarkCancelled
  <2>9. CASE Compact(m)
    BY <1>1, <2>9 DEF Compact, NoneReused, Blank
  <2> QED  BY <1>5, <2>6, <2>7, <2>8, <2>9 DEF TaskStep
<1>6. CASE Shutdown \/ Crash
  BY <1>1, <1>6 DEF Shutdown, Crash, NoneReused, Blank, ManagedRecord
<1>7. CASE UNCHANGED managed
  BY <1>7 DEF NoneReused
<1> QED  BY <1>2, <1>3, <1>4, <1>5, <1>6, <1>7
         DEF Next, Request, Recovery, ReplayCreate, StreamReplay, CloseThread, Commit,
             RecoverCancelledRun, RecoverFailedRun, EndRecovery, vars, memory

\* Every step keeps the entries of the runs that are not over.
LEMMA ReachNext ==
  ASSUME KeyedRun = {}, EngineInv, ReachInv, [Next]_vars
  PROVE  ReachInv'
<1>1. NoneReused'
  BY NoneReusedNext DEF ReachInv
<1>2. /\ status \in [Run -> RunStatuses \cup {"absent"}]
      /\ registry \in [Run -> Managed \cup {NoManaged}]
  BY DEF EngineInv, TypeOK
<1> DEFINE Kept == /\ phase' = "up" => phase = "up"
                   /\ \A r \in Run : status'[r] \in NonTerminalRunStatuses =>
                        /\ status[r] \in NonTerminalRunStatuses
                        /\ registry'[r] = NoManaged => registry[r] = NoManaged
<1>3. Kept => ActiveRunIsManaged'
  BY DEF ReachInv, ActiveRunIsManaged
<1>4. CASE Commit
  <2> DEFINE w == Head(writes)
  <2>1. w \in Write
    BY <1>4 DEF Commit, EngineInv, TypeOK
  <2>2. \/ status' = status
        \/ /\ w.kind = "status" /\ ValidRunTransition(status[w.run], w.value)
           /\ status' = [status EXCEPT ![w.run] = w.value]
    BY <1>4 DEF Commit, CanMove
  <2>3. \A r \in Run : status'[r] \in NonTerminalRunStatuses => status[r] \in NonTerminalRunStatuses
    BY <1>2, <2>1, <2>2, ActiveWasActive DEF Write
  <2>4. UNCHANGED <<registry, phase>>
    BY <1>4 DEF Commit, memory
  <2> QED  BY <1>1, <1>3, <2>3, <2>4 DEF ReachInv
<1>5. ASSUME NEW r \in Run, NEW m \in Managed, CreateRun(r, m) PROVE ActiveRunIsManaged'
  <2>1. /\ registry' = [registry EXCEPT ![r] = m] /\ m # NoManaged
        /\ status' = [status EXCEPT ![r] = "queued"] /\ phase' = phase
    BY <1>5, EngineAssumption DEF CreateRun, EngineAssumption
  <2> QED  BY <1>2, <2>1 DEF ReachInv, ActiveRunIsManaged
<1>6. ASSUME NEW m \in Managed, Compact(m) PROVE ActiveRunIsManaged'
  <2> DEFINE r == managed[m].run
  <2>1. managed[m].task = "compact" /\ writes = <<>> /\ r \in Run
    BY <1>6 DEF Compact, Turn, EngineInv, TaskHasRun
  <2>2. status[r] \in TerminalRunStatuses
    BY <2>1, FinalizedRunIsOver DEF EngineInv
  <2>3. /\ status' = status /\ phase' = phase
        /\ registry' = [registry EXCEPT ![r] = NoManaged]
    BY <1>6 DEF Compact, durable
  <2>4. status[r] \notin NonTerminalRunStatuses
    BY <2>2 DEF TerminalRunStatuses, NonTerminalRunStatuses
  <2> QED  BY <1>2, <2>1, <2>3, <2>4 DEF ReachInv, ActiveRunIsManaged
<1>7. ASSUME NEW r \in Run, NEW m \in Managed, Rehydrate(r, m) PROVE ActiveRunIsManaged'
  BY <1>7 DEF Rehydrate, Recovering, ActiveRunIsManaged
<1>8. CASE EndRecovery
  <2>1. \A q \in Run : status[q] \in NonTerminalRunStatuses => registry[q] # NoManaged
    BY <1>8 DEF EndRecovery, Active
  <2>2. UNCHANGED <<status, registry>>
    BY <1>8 DEF EndRecovery, durable, memory
  <2> QED  BY <1>1, <2>1, <2>2 DEF ReachInv, ActiveRunIsManaged
<1>9. CASE Shutdown \/ Crash
  BY <1>1, <1>9 DEF Shutdown, Crash, ReachInv, ActiveRunIsManaged
<1>10. CASE UNCHANGED <<status, registry, phase>>
  BY <1>1, <1>3, <1>10 DEF ReachInv
<1>11. \A r \in Run, m \in Managed : ~ReplayCreate(r, m)
  BY DEF ReplayCreate
<1>12. \A r \in Run : ~StreamReplay(r)
  BY <1>2 DEF StreamReplay, ReachInv, NoneReused
<1> QED  BY <1>1, <1>4, <1>5, <1>6, <1>7, <1>8, <1>9, <1>10, <1>11, <1>12
         DEF ReachInv, Next, Request, Recovery, TaskStep, Cancel, Approve, Reject, Decide,
             CloseThread, ExecuteStart, ContinueStart, ExecuteWake, GraphInterrupt, GraphDone,
             GraphFail, Killed, VerifyCheckpoint, RecoverCancelledRun, RecoverFailedRun,
             vars, durable, memory

\* Without idempotency keys a run that is not over can always be cancelled,
\* approved and rejected while the engine serves.
THEOREM ActiveRunsAreManaged == KeyedRun = {} => (Spec => []ActiveRunIsManaged)
<1> SUFFICES ASSUME KeyedRun = {} PROVE Spec => []ActiveRunIsManaged
  OBVIOUS
<1>1. Init => ReachInv
  BY DEF Init, ReachInv, NoneReused, Blank, ActiveRunIsManaged
<1>2. EngineInv /\ ReachInv /\ [Next]_vars => ReachInv'
  BY ReachNext
<1>3. ReachInv => ActiveRunIsManaged
  BY DEF ReachInv
<1> QED  BY <1>1, <1>2, <1>3, EngineInvariant, PTL DEF Spec

-----------------------------------------------------------------------------
(* What a step of a task may queue, and what it makes of its object.  Lacks  *)
(* says that a commit is not among others.                                   *)

Lacks(ws, w) == \A i \in 1..Len(ws) : ws[i] # w

\* A commit that two sequences lack is lacking in both together.
LEMMA LacksConcat ==
  ASSUME NEW ws \in Seq(Write), NEW vs \in Seq(Write), NEW w, Lacks(ws, w), Lacks(vs, w)
  PROVE  Lacks(ws \o vs, w)
<1>1. /\ Len(ws \o vs) = Len(ws) + Len(vs) /\ Len(ws) \in Nat /\ Len(vs) \in Nat
      /\ \A i \in 1..Len(ws) : (ws \o vs)[i] = ws[i]
      /\ \A i \in (Len(ws) + 1)..Len(ws \o vs) : (ws \o vs)[i] = vs[i - Len(ws)]
  BY ConcatProperties, LenProperties
<1> SUFFICES ASSUME NEW i \in 1..Len(ws \o vs) PROVE (ws \o vs)[i] # w
  BY DEF Lacks
<1>2. CASE i \in 1..Len(ws)
  BY <1>1, <1>2 DEF Lacks
<1>3. CASE i \notin 1..Len(ws)
  <2>1. i \in (Len(ws) + 1)..Len(ws \o vs) /\ i - Len(ws) \in 1..Len(vs)
    BY <1>1, <1>3
  <2> QED  BY <1>1, <2>1 DEF Lacks
<1> QED  BY <1>2, <1>3

\* No commit is among none, and a commit is not among one or two others.
LEMMA LacksFew ==
  ASSUME NEW w, NEW u, NEW v
  PROVE  /\ Lacks(<<>>, w)
         /\ w # u => Lacks(<<u>>, w)
         /\ w # u /\ w # v => Lacks(<<u, v>>, w)
  BY DEF Lacks

\* update_run_status queues no other commit than the one it is asked for.
LEMMA LacksUpdate ==
  ASSUME NEW r, NEW s, NEW w, w # StatusWrite(r, s)
  PROVE  Lacks(Update(r, s), w)
  BY DEF Lacks, Update

\* Commits differ if their runs, kinds or values do.
LEMMA Differ ==
  ASSUME NEW q, NEW r, NEW v, NEW u
  PROVE  /\ Event(q, v) # StatusWrite(r, u)
         /\ q # r \/ v # u => Event(q, v) # Event(r, u) /\ StatusWrite(q, v) # StatusWrite(r, u)
  BY DEF Event, StatusWrite

\* The finally clause queues no other event than the one about consistency.
LEMMA LeaveLacks ==
  ASSUME NEW m \in Managed, managed[m].run \in Run, NEW ws \in Seq(Write), NEW s,
         Leave(m, ws, s),
         NEW w, Lacks(ws, w), w # Event(managed[m].run, "run_consistency_checked")
  PROVE  Lacks(writes', w)
<1> DEFINE last == IF s \in TerminalRunStatuses /\ s # "completed"
                   THEN <<Event(managed[m].run, "run_consistency_checked")>> ELSE <<>>
<1>1. writes' = ws \o last
  BY DEF Leave
<1>2. last \in Seq(Write)
  BY EventIsWrite DEF EventKind
<1>3. Lacks(last, w)
  BY LacksFew
<1> HIDE DEF last
<1> QED  BY <1>1, <1>2, <1>3, LacksConcat

\* A last status change queues no other status.
LEMMA LeaveWithLacks ==
  ASSUME NEW m \in Managed, managed[m].run \in Run, NEW ws \in Seq(Write),
         NEW s \in RunStatuses, LeaveWith(m, ws, s),
         NEW w, Lacks(ws, w), w # Event(managed[m].run, "run_consistency_checked"),
         w # StatusWrite(managed[m].run, s)
  PROVE  Lacks(writes', w)
<1> DEFINE r == managed[m].run
           move == Update(r, s)
<1>1. move \in Seq(Write) /\ Lacks(move, w)
  BY UpdateIsWrites, LacksUpdate
<1>2. Leave(m, ws \o move, s) \/ Leave(m, ws, status[r])
  BY DEF LeaveWith, Unhandled
<1> HIDE DEF move
<1>3. ws \o move \in Seq(Write) /\ Lacks(ws \o move, w)
  BY <1>1, LacksConcat
<1> QED  BY <1>2, <1>3, LeaveLacks

\* A failure queues its report and one status.
LEMMA FailLacks ==
  ASSUME NEW m \in Managed, managed[m].run \in Run, NEW ws \in Seq(Write), NEW blank,
         Fail(m, ws, blank),
         NEW w, Lacks(ws, w),
         w \notin {Event(managed[m].run, e) :
                     e \in {"error", "run_failed_meta", "run_consistency_checked"}},
         w # StatusWrite(managed[m].run, IF blank THEN "completed" ELSE "failed")
  PROVE  Lacks(writes', w)
<1> DEFINE r == managed[m].run
           report == <<Event(r, "error"), Event(r, "run_failed_meta")>>
           s == IF blank THEN "completed" ELSE "failed"
<1>1. report \in Seq(Write)
  BY EventIsWrite DEF EventKind
<1>2. Lacks(report, w)
  BY LacksFew
<1>3. LeaveWith(m, ws \o report, s) /\ s \in RunStatuses
  BY DEF Fail, RunStatuses, TerminalRunStatuses
<1> HIDE DEF report, s
<1>4. ws \o report \in Seq(Write) /\ Lacks(ws \o report, w)
  BY <1>1, <1>2, LacksConcat
<1>5. w # StatusWrite(r, s)
  BY DEF s
<1> QED  BY <1>3, <1>4, <1>5, LeaveWithLacks

\* A (re)started run queues its new status and the event.
LEMMA ResumeLacks ==
  ASSUME NEW r \in Run, NEW w, w # StatusWrite(r, "running"), w # Event(r, "run_started")
  PROVE  Lacks(Resume(r), w)
<1> DEFINE begin == Update(r, "running")
           started == <<Event(r, "run_started")>>
<1>1. begin \in Seq(Write) /\ Lacks(begin, w)
  BY UpdateIsWrites, LacksUpdate DEF RunStatuses, NonTerminalRunStatuses
<1>2. started \in Seq(Write) /\ Lacks(started, w)
  BY OneEvent, LacksFew DEF EventKind
<1>3. Resume(r) = begin \o started
  BY DEF Resume
<1> HIDE DEF begin, started
<1> QED  BY <1>1, <1>2, <1>3, LacksConcat

\* A request for approval queues its two events and the status.
LEMMA AskLacks ==
  ASSUME NEW r \in Run, NEW w, w # StatusWrite(r, "waiting_approval"),
         w # Event(r, "approval_required"), w # Event(r, "run_checkpoint_meta")
  PROVE  Lacks(AskForApproval(r), w)
<1> DEFINE wait == Update(r, "waiting_approval")
           asked == <<Event(r, "approval_required")>>
           meta == <<Event(r, "run_checkpoint_meta")>>
<1>1. wait \in Seq(Write) /\ Lacks(wait, w)
  BY UpdateIsWrites, LacksUpdate DEF RunStatuses, NonTerminalRunStatuses
<1>2. /\ asked \in Seq(Write) /\ meta \in Seq(Write)
      /\ Lacks(asked, w) /\ Lacks(meta, w)
  BY OneEvent, LacksFew DEF EventKind
<1>3. AskForApproval(r) = asked \o wait \o meta
  BY DEF AskForApproval
<1> HIDE DEF wait, asked, meta
<1>4. asked \o wait \in Seq(Write) /\ Lacks(asked \o wait, w)
  BY <1>1, <1>2, LacksConcat
<1> QED  BY <1>2, <1>3, <1>4, LacksConcat

\* The tasks of a run that has not asked for an approval in this process.
First == {"execute_new", "execute_graph"}

\* What the flags of an object say of its task: a task that goes on after a pause
\* has a verdict, one before the first pause is awake only if it was confirmed.
VerdictOf(x) ==
    /\ x.task \in {"continue_new", "continue_graph", "execute_resume"} => x.approved \/ x.rejected
    /\ x.task = "execute_wait" /\ x.signalled /\ ~x.killed => x.approved \/ x.rejected
    /\ x.task \in First => ~x.rejected /\ (x.signalled /\ ~x.killed => x.approved)

\* With status st and the commits ws, run r will not wait for an approval.
WillNotWait(st, ws, r) ==
    \/ st # "waiting_approval" /\ Lacks(ws, StatusWrite(r, "waiting_approval"))
    \/ \E j \in 1..Len(ws) :
          /\ ws[j] = StatusWrite(r, "running")
          /\ \A i \in (j + 1)..Len(ws) : ws[i] # StatusWrite(r, "waiting_approval")

\* What a step of a task that queues ws, at status st, makes of its object.
GoesTo(old, rec, st, ws) ==
    LET r == old.run
    IN /\ \/ rec = Blank
          \/ rec.run = r /\ rec.approved = old.approved /\ rec.rejected = old.rejected
       /\ VerdictOf(rec)
       /\ rec.task \in First =>
             /\ old.task \in First
             /\ Lacks(ws, StatusWrite(r, "waiting_approval"))
             /\ Lacks(ws, StatusWrite(r, "completed"))
             /\ Lacks(ws, Event(r, "approval_required"))
       /\ rec.task \in GraphTask /\ rec.danger =>
             old.approved /\ ~old.rejected /\ WillNotWait(st, ws, r)

\* The object of a task that leaves is at rest.
LEMMA LeaveObject ==
  ASSUME EngineInv, NEW m \in Managed, NEW ws, NEW s, Leave(m, ws, s), NEW st, NEW vs
  PROVE  \E rec \in ManagedRecord :
            managed' = [managed EXCEPT ![m] = rec] /\ GoesTo(managed[m], rec, st, vs)
<1> DEFINE t == IF s \notin TerminalRunStatuses THEN "done"
                ELSE IF s = "completed" THEN "verify" ELSE "compact"
           rec == [managed[m] EXCEPT !.slot = FALSE, !.killed = FALSE, !.task = t]
<1>1. managed \in [Managed -> ManagedRecord]
  BY DEF EngineInv, TypeOK
<1>2. managed' = [managed EXCEPT ![m] = rec]
  BY <1>1 DEF Leave, ManagedRecord
<1>3. rec \in ManagedRecord
  BY <1>1 DEF ManagedRecord, TaskState
<1>4. /\ rec.run = managed[m].run /\ rec.approved = managed[m].approved
      /\ rec.rejected = managed[m].rejected /\ rec.task \in {"done", "verify", "compact"}
  BY <1>1 DEF ManagedRecord
<1> HIDE DEF rec
<1>5. GoesTo(managed[m], rec, st, vs)
  BY <1>4 DEF GoesTo, VerdictOf, First, GraphTask
<1> QED  BY <1>2, <1>3, <1>5

\* The object of a task that suspends has its new place and danger.
LEMMA SuspendObject ==
  ASSUME EngineInv, NEW m \in Managed, NEW ws, NEW t \in TaskState, NEW d \in BOOLEAN,
         Suspend(m, ws, t, d)
  PROVE  \E rec \in ManagedRecord :
            /\ managed' = [managed EXCEPT ![m] = rec]
            /\ rec.run = managed[m].run /\ rec.approved = managed[m].approved
            /\ rec.rejected = managed[m].rejected /\ rec.signalled = managed[m].signalled
            /\ rec.killed = managed[m].killed /\ rec.task = t /\ rec.danger = d
<1> DEFINE rec == [managed[m] EXCEPT !.task = t, !.danger = d]
<1>1. managed \in [Managed -> ManagedRecord]
  BY DEF EngineInv, TypeOK
<1>2. managed' = [managed EXCEPT ![m] = rec]
  BY <1>1 DEF Suspend, ManagedRecord
<1>3. /\ rec.run = managed[m].run /\ rec.approved = managed[m].approved
      /\ rec.rejected = managed[m].rejected /\ rec.signalled = managed[m].signalled
      /\ rec.killed = managed[m].killed /\ rec.task = t /\ rec.danger = d
      /\ rec \in ManagedRecord
  BY <1>1 DEF ManagedRecord
<1> HIDE DEF rec
<1> QED  BY <1>2, <1>3

\* A run that starts, or goes on behind a pause, is running when its commits are made.
LEMMA ResumeWillNotWait ==
  ASSUME NEW r \in Run, NEW ws \in Seq(Write)
  PROVE  /\ WillNotWait(status[r], Resume(r), r)
         /\ WillNotWait(status[r], ws \o <<StatusWrite(r, "running"), Event(r, "run_started")>>, r)
<1> DEFINE w == StatusWrite(r, "running")
           e == Event(r, "run_started")
           all == ws \o <<w, e>>
<1>1. w # StatusWrite(r, "waiting_approval") /\ e # StatusWrite(r, "waiting_approval")
  BY Differ
<1>2. WillNotWait(status[r], all, r)
  <2> HIDE DEF w, e
  <2>1. /\ Len(all) = Len(ws) + 2 /\ Len(ws) \in Nat
        /\ all[Len(ws) + 1] = w /\ all[Len(ws) + 2] = e
    OBVIOUS
  <2> HIDE DEF all
  <2>2. Len(ws) + 1 \in 1..Len(all)
    BY <2>1
  <2>3. \A i \in (Len(ws) + 2)..Len(all) : all[i] = e
    BY <2>1
  <2> QED  BY <1>1, <2>1, <2>2, <2>3 DEF WillNotWait, w
<1>3. WillNotWait(status[r], Resume(r), r)
  <2>1. CASE status[r] = "running"
    BY <1>1, <2>1, ResumeLacks DEF WillNotWait
  <2>2. CASE status[r] # "running"
    <3>1. Resume(r) = <<w>> \o <<e>>
      BY <2>2 DEF Resume, Update
    <3> HIDE DEF w, e
    <3>2. /\ Len(Resume(r)) = 2 /\ Resume(r)[1] = w /\ Resume(r)[2] = e
      BY <3>1
    <3> QED  BY <1>1, <3>2 DEF WillNotWait, w
  <2> QED  BY <2>1, <2>2
<1> QED  BY <1>2, <1>3

\* What a step of a task queues is about its run; it queues the status completed,
\* or a request for approval, only out of the graph, and never both.
LEMMA TaskQueue ==
  ASSUME EngineInv, NEW m \in Managed, TaskStep(m)
  PROVE  LET r == managed[m].run
         IN  /\ r \in Run /\ writes = <<>>
             /\ UNCHANGED <<status, log, closed, phase>>
             /\ registry' = registry \/ registry' = [registry EXCEPT ![r] = NoManaged]
             /\ \A w \in Write : w.run # r => Lacks(writes', w)
             /\ managed[m].task \notin GraphTask =>
                   /\ Lacks(writes', StatusWrite(r, "completed"))
                   /\ Lacks(writes', Event(r, "approval_required"))
             /\ \/ Lacks(writes', StatusWrite(r, "completed"))
                \/ Lacks(writes', Event(r, "approval_required"))
<1> DEFINE r == managed[m].run
           end == StatusWrite(r, "completed")
           ask == Event(r, "approval_required")
           done == <<Event(r, "done")>>
           asked == <<Event(r, "approval_required")>>
           again == <<StatusWrite(r, "running"), Event(r, "run_started")>>
           Goal == /\ \A w \in Write : w.run # r => Lacks(writes', w)
                   /\ managed[m].task \notin GraphTask => Lacks(writes', end) /\ Lacks(writes', ask)
                   /\ Lacks(writes', end) \/ Lacks(writes', ask)
           Far(w) == \/ w \in Write /\ w.run # r
                     \/ w = end
                     \/ w = ask
<1>1. writes = <<>> /\ managed[m].task # "none"
  BY DEF TaskStep, ExecuteStart, ContinueStart, ExecuteWake, GraphInterrupt, GraphDone, GraphFail,
         Killed, VerifyCheckpoint, Compact, Turn, GraphTask
<1>2. r \in Run
  BY <1>1 DEF EngineInv, TaskHasRun
<1>3. /\ UNCHANGED <<status, log, closed, phase>>
      /\ registry' = registry \/ registry' = [registry EXCEPT ![r] = NoManaged]
  BY DEF TaskStep, ExecuteStart, ContinueStart, ExecuteWake, GraphInterrupt, GraphDone, GraphFail,
         Killed, VerifyCheckpoint, Compact, durable
<1> SUFFICES Goal
  BY <1>1, <1>2, <1>3
<1>4. ASSUME NEW w, Far(w)
      PROVE  /\ \A e : e # "approval_required" => w # Event(r, e)
             /\ \A s : s # "completed" => w # StatusWrite(r, s)
             /\ w # ask => \A e : w # Event(r, e)
             /\ w # end => \A s : w # StatusWrite(r, s)
  BY <1>4 DEF Event, StatusWrite
<1>5. end # ask
  BY Differ
<1> HIDE DEF Far
<1>6. /\ \A w : w \in Write /\ w.run # r => Far(w) /\ w # ask /\ w # end
      /\ Far(end) /\ Far(ask)
  BY DEF Far, Event, StatusWrite
<1> HIDE DEF end, ask
<1>7. ASSUME NEW ws \in Seq(Write), Unhandled(m, ws), NEW w, Far(w), Lacks(ws, w)
      PROVE  Lacks(writes', w)
  BY <1>2, <1>4, <1>7, LeaveLacks DEF Unhandled
<1>8. ASSUME NEW ws \in Seq(Write), NEW b, Fail(m, ws, b), NEW w, Far(w), Lacks(ws, w), w # end \/ ~b
      PROVE  Lacks(writes', w)
  <2>1. w # StatusWrite(r, IF b THEN "completed" ELSE "failed")
    BY <1>4, <1>8
  <2>2. w \notin {Event(r, e) : e \in {"error", "run_failed_meta", "run_consistency_checked"}}
    BY <1>4, <1>8
  <2> QED  BY <1>2, <1>8, <2>1, <2>2, FailLacks
<1>9. \A w : Far(w) => Lacks(Resume(r), w)
  BY <1>2, <1>4, ResumeLacks
<1>10. \A w : Far(w) /\ w # ask => Lacks(AskForApproval(r), w)
  BY <1>2, <1>4, AskLacks DEF ask
<1>11. /\ \A w : Lacks(<<>>, w) /\ (Far(w) => Lacks(done, w))
       /\ \A w : Far(w) /\ w # ask => Lacks(asked, w)
       /\ \A w : Far(w) => Lacks(again, w)
  BY <1>4, LacksFew
<1>12. /\ <<>> \in Seq(Write) /\ done \in Seq(Write) /\ asked \in Seq(Write)
       /\ AskForApproval(r) \in Seq(Write)
  BY <1>2, NoWrites, OneEvent, AskIsWrites DEF EventKind
<1>13. again \in Seq(Write)
  BY <1>2, StatusIsWrite, EventIsWrite DEF EventKind, RunStatuses, NonTerminalRunStatuses
<1> HIDE DEF done, asked, again
<1>14. (\A w : Far(w) => Lacks(writes', w)) => Goal
  BY <1>6
<1>15. (\A w : Far(w) /\ w # ask => Lacks(writes', w)) /\ managed[m].task \in GraphTask => Goal
  BY <1>5, <1>6
<1>16. (\A w : Far(w) /\ w # end => Lacks(writes', w)) /\ managed[m].task \in GraphTask => Goal
  BY <1>5, <1>6
<1> HIDE DEF Goal
<1>17. CASE ExecuteStart(m) \/ ContinueStart(m) \/ ExecuteWake(m)
  BY <1>7, <1>8, <1>9, <1>11, <1>12, <1>14, <1>17
  DEF ExecuteStart, ContinueStart, ExecuteWake, Suspend
<1>18. CASE GraphInterrupt(m)
  <2>1. CASE Suspend(m, AskForApproval(r), "execute_wait", FALSE) /\ Turn(m, "execute_graph")
    BY <1>10, <1>15, <2>1 DEF Suspend, Turn, GraphTask
  <2>2. CASE /\ Suspend(m, AskForApproval(r) \o again, "execute_resume", TRUE)
             /\ Turn(m, "execute_graph")
    <3>1. \A w : Far(w) /\ w # ask => Lacks(AskForApproval(r) \o again, w)
      BY <1>10, <1>11, <1>12, <1>13, LacksConcat
    <3> QED  BY <1>15, <2>2, <3>1 DEF Suspend, Turn, GraphTask
  <2>3. CASE Leave(m, AskForApproval(r), "waiting_approval") /\ Turn(m, "continue_graph")
    <3>1. \A w : Far(w) /\ w # ask => Lacks(writes', w)
      BY <1>2, <1>4, <1>10, <1>12, <2>3, LeaveLacks
    <3> QED  BY <1>15, <2>3, <3>1 DEF Turn, GraphTask
  <2>4. CASE Unhandled(m, asked) /\ managed[m].task \in GraphTask
    BY <1>7, <1>11, <1>12, <1>15, <2>4
  <2> QED  BY <1>18, <2>1, <2>2, <2>3, <2>4 DEF GraphInterrupt, Turn, GraphTask, asked, again
<1>19. CASE GraphDone(m)
  <2>1. managed[m].task \in GraphTask
    BY <1>19 DEF GraphDone, Turn
  <2>2. CASE Leave(m, done \o Update(r, "completed"), "completed")
    <3>1. "completed" \in RunStatuses
      BY DEF RunStatuses, TerminalRunStatuses
    <3>2. done \o Update(r, "completed") \in Seq(Write) /\ Update(r, "completed") \in Seq(Write)
      BY <1>2, <1>12, <3>1, UpdateIsWrites
    <3>3. \A w : Far(w) /\ w # end => Lacks(Update(r, "completed"), w)
      BY LacksUpdate DEF end
    <3>4. \A w : Far(w) /\ w # end => Lacks(done \o Update(r, "completed"), w)
      BY <1>11, <1>12, <3>2, <3>3, LacksConcat
    <3>5. \A w : Far(w) /\ w # end => Lacks(writes', w)
      BY <1>2, <1>4, <2>2, <3>2, <3>4, LeaveLacks
    <3> QED  BY <1>16, <2>1, <3>5
  <2>3. CASE Fail(m, done, FALSE)
    BY <1>8, <1>11, <1>12, <1>14, <2>3
  <2>4. CASE Unhandled(m, done)
    BY <1>7, <1>11, <1>12, <1>14, <2>4
  <2> QED  BY <1>19, <2>2, <2>3, <2>4 DEF GraphDone, done
<1>20. CASE GraphFail(m)
  <2>1. managed[m].task \in GraphTask
    BY <1>20 DEF GraphFail, Turn, GraphTask
  <2>2. CASE Unhandled(m, <<>>)
    BY <1>7, <1>11, <1>12, <1>14, <2>2
  <2>3. CASE \E b \in BOOLEAN : Fail(m, <<>>, b)
    <3>1. \A w : Far(w) /\ w # end => Lacks(writes', w)
      BY <1>8, <1>11, <1>12, <2>3
    <3> QED  BY <1>16, <2>1, <3>1
  <2> QED  BY <1>20, <2>2, <2>3 DEF GraphFail
<1>21. CASE Killed(m)
  <2>1. CASE UNCHANGED writes
    BY <1>1, <1>11, <1>14, <2>1
  <2>2. CASE MarkCancelled(m)
    <3> DEFINE ws == <<Event(r, "cancelled")>>
    <3>1. "cancelled" \in RunStatuses /\ ws \in Seq(Write)
      BY <1>2, OneEvent DEF EventKind, RunStatuses, TerminalRunStatuses
    <3>2. \A w : Far(w) => Lacks(ws, w)
      BY <1>4, LacksFew
    <3>3. LeaveWith(m, ws, "cancelled")
      BY <2>2 DEF MarkCancelled
    <3> HIDE DEF ws
    <3>4. \A w : Far(w) => Lacks(writes', w)
      BY <1>2, <1>4, <3>1, <3>2, <3>3, LeaveWithLacks
    <3> QED  BY <1>14, <3>4
  <2>3. CASE Unhandled(m, <<>>)
    BY <1>7, <1>11, <1>12, <1>14, <2>3
  <2> QED  BY <1>21, <2>1, <2>2, <2>3 DEF Killed
<1>22. CASE VerifyCheckpoint(m)
  <2>1. writes' = <<Event(r, "run_consistency_checked")>>
    BY <1>22 DEF VerifyCheckpoint, Suspend
  <2> QED  BY <1>4, <1>14, <2>1, LacksFew
<1>23. CASE Compact(m)
  BY <1>1, <1>11, <1>14, <1>23 DEF Compact
<1> QED  BY <1>17, <1>18, <1>19, <1>20, <1>21, <1>22, <1>23 DEF TaskStep

\* What becomes of the object.
LEMMA TaskObject ==
  ASSUME EngineInv, NEW m \in Managed, VerdictOf(managed[m]), TaskStep(m)
  PROVE  \E rec \in ManagedRecord :
            /\ managed' = [managed EXCEPT ![m] = rec]
            /\ GoesTo(managed[m], rec, status[managed[m].run], writes')
<1> DEFINE old == managed[m]
           r == old.run
           Goal == \E rec \in ManagedRecord :
                      /\ managed' = [managed EXCEPT ![m] = rec]
                      /\ GoesTo(old, rec, status[r], writes')
<1>1. r \in Run
  BY TaskQueue
<1>2. /\ \A ws, s : Leave(m, ws, s) => Goal
      /\ \A ws : Unhandled(m, ws) => Goal
      /\ \A ws, s : LeaveWith(m, ws, s) => Goal
      /\ \A ws, b : Fail(m, ws, b) => Goal
  BY LeaveObject DEF Unhandled, LeaveWith, Fail
<1>3. /\ old \in ManagedRecord /\ TRUE \in BOOLEAN /\ FALSE \in BOOLEAN
      /\ {"execute_wait", "execute_resume", "continue_graph", "compact"} \subseteq TaskState
  BY DEF EngineInv, TypeOK, TaskState
<1>4. ASSUME NEW t \in {"execute_wait", "execute_resume", "continue_graph", "compact"},
             NEW d \in BOOLEAN, NEW ws, Suspend(m, ws, t, d),
             t \in {"execute_resume", "continue_graph"} => old.approved \/ old.rejected,
             t = "execute_wait" => ~old.signalled,
             d => old.approved /\ ~old.rejected /\ WillNotWait(status[r], ws, r)
      PROVE  Goal
  <2>1. PICK rec \in ManagedRecord :
          /\ managed' = [managed EXCEPT ![m] = rec]
          /\ rec.run = r /\ rec.approved = old.approved /\ rec.rejected = old.rejected
          /\ rec.signalled = old.signalled /\ rec.task = t /\ rec.danger = d
    BY <1>3, <1>4, SuspendObject
  <2>2. writes' = ws
    BY <1>4 DEF Suspend
  <2> QED  BY <1>4, <2>1, <2>2 DEF GoesTo, VerdictOf, First
<1>5. CASE ExecuteStart(m)
  <2>1. CASE Suspend(m, Resume(r), "execute_graph", old.approved)
    <3>1. old.task = "execute_new" /\ ~old.killed /\ ~old.rejected
      BY <1>5 DEF ExecuteStart, Turn, VerdictOf, First
    <3>2. /\ Lacks(Resume(r), StatusWrite(r, "waiting_approval"))
          /\ Lacks(Resume(r), StatusWrite(r, "completed"))
          /\ Lacks(Resume(r), Event(r, "approval_required"))
      BY <1>1, ResumeLacks, Differ
    <3>3. WillNotWait(status[r], Resume(r), r) /\ writes' = Resume(r)
      BY <1>1, <2>1, NoWrites, ResumeWillNotWait DEF Suspend
    <3>4. PICK rec \in ManagedRecord :
            /\ managed' = [managed EXCEPT ![m] = rec]
            /\ rec.run = r /\ rec.approved = old.approved /\ rec.rejected = old.rejected
            /\ rec.signalled = old.signalled /\ rec.killed = old.killed
            /\ rec.task = "execute_graph" /\ rec.danger = old.approved
      BY <1>3, <2>1, SuspendObject DEF TaskState, ManagedRecord
    <3> QED  BY <3>1, <3>2, <3>3, <3>4 DEF GoesTo, VerdictOf, First
  <2> QED  BY <1>2, <1>5, <2>1 DEF ExecuteStart
<1>6. CASE ContinueStart(m) \/ ExecuteWake(m)
  <2>1. old.approved \/ old.rejected
    BY <1>6 DEF ContinueStart, ExecuteWake, Turn, VerdictOf
  <2>2. WillNotWait(status[r], Resume(r), r)
    BY <1>1, NoWrites, ResumeWillNotWait
  <2>3. CASE \E t \in {"continue_graph", "execute_resume"} : Suspend(m, <<>>, t, FALSE)
    BY <1>4, <2>1, <2>3
  <2>4. CASE /\ ~old.rejected
             /\ \E t \in {"continue_graph", "execute_resume"} : Suspend(m, Resume(r), t, TRUE)
    BY <1>4, <2>1, <2>2, <2>4
  <2> QED  BY <1>2, <1>6, <2>3, <2>4 DEF ContinueStart, ExecuteWake
<1>7. CASE GraphInterrupt(m)
  <2> DEFINE again == <<StatusWrite(r, "running"), Event(r, "run_started")>>
  <2>1. CASE Turn(m, "execute_graph") /\ ~old.signalled
             /\ Suspend(m, AskForApproval(r), "execute_wait", FALSE)
    BY <1>4, <2>1
  <2>2. CASE Turn(m, "execute_graph") /\ old.signalled
             /\ Suspend(m, AskForApproval(r) \o again, "execute_resume", TRUE)
    <3>1. old.approved /\ ~old.rejected
      BY <2>2 DEF Turn, VerdictOf, First
    <3>2. WillNotWait(status[r], AskForApproval(r) \o again, r)
      BY <1>1, AskIsWrites, ResumeWillNotWait
    <3> QED  BY <1>4, <2>2, <3>1, <3>2
  <2> QED  BY <1>2, <1>7, <2>1, <2>2 DEF GraphInterrupt
<1>8. CASE GraphDone(m) \/ GraphFail(m)
  BY <1>2, <1>8 DEF GraphDone, GraphFail
<1>9. CASE Killed(m)
  <2> DEFINE over == [old EXCEPT !.task = "done", !.killed = FALSE]
  <2>1. CASE managed' = [managed EXCEPT ![m].task = "done", ![m].killed = FALSE]
    <3>1. managed' = [managed EXCEPT ![m] = over]
      BY <2>1, <1>3 DEF EngineInv, TypeOK, ManagedRecord
    <3>2. /\ over \in ManagedRecord /\ over.run = r /\ over.task = "done"
          /\ over.approved = old.approved /\ over.rejected = old.rejected
      BY <1>3 DEF ManagedRecord, TaskState
    <3> HIDE DEF over
    <3>3. GoesTo(old, over, status[r], writes')
      BY <3>2 DEF GoesTo, VerdictOf, First, GraphTask
    <3> QED  BY <3>1, <3>2, <3>3
  <2> QED  BY <1>2, <1>9, <2>1 DEF Killed, MarkCancelled
<1>10. CASE VerifyCheckpoint(m)
  BY <1>4, <1>10 DEF VerifyCheckpoint
<1>11. CASE Compact(m)
  <2>1. Blank \in ManagedRecord /\ GoesTo(old, Blank, status[r], writes')
    BY BlankType DEF GoesTo, VerdictOf, First, GraphTask
  <2> QED  BY <1>11, <2>1 DEF Compact
<1> QED  BY <1>5, <1>6, <1>7, <1>8, <1>9, <1>10, <1>11 DEF TaskStep

-----------------------------------------------------------------------------
(* Consent.  That confirm_dangerous reaches the graph only with a consent    *)
(* rests on the flags: approved is set only with the event queued or stored. *)
(* The flags in turn rest on who may be woken: a rejection must not wake a   *)
(* task before its first pause, which would go on as if it was confirmed. It *)
(* cannot, for the entry of _runs whose task is there belongs to a run with  *)
(* no other object, and that run does not wait for a verdict.                *)

HasConsent(r) == r \in ConfirmedRun \/ "approved" \in log[r]

Verdicts == \A m \in Managed : VerdictOf(managed[m])

ConsentIsStored ==
    \A m \in Managed :
        managed[m].approved /\ managed[m].run \in Run =>
            HasConsent(managed[m].run) \/ ~Lacks(writes, Event(managed[m].run, "approved"))

KnownRuns == \A m \in Managed : managed[m].run \in Run => status[managed[m].run] # "absent"

\* The entry of r has a task before the first pause of r.
AtFirst(r) == registry[r] # NoManaged /\ managed[registry[r]].task \in First

FirstIsAlone == \A r \in Run : AtFirst(r) => \A n \in Managed \ {registry[r]} : managed[n].run # r

FirstDoesNotWait ==
    \A r \in Run : AtFirst(r) =>
        status[r] # "waiting_approval" /\ Lacks(writes, StatusWrite(r, "waiting_approval"))

ConsentInv ==
    /\ Verdicts /\ ConsentIsStored /\ DangerNeedsConsent
    /\ KnownRuns /\ FirstIsAlone /\ FirstDoesNotWait

\* What is queued when nothing is.
LEMMA NothingQueued == ASSUME writes = <<>>, NEW w PROVE Lacks(writes, w)
  BY DEF Lacks

\* A commit moves an event from the queue to the store and queues nothing.
LEMMA CommitMoves ==
  ASSUME EngineInv, Commit
  PROVE  /\ \A w : Lacks(writes, w) => Lacks(writes', w)
         /\ \A r \in Run : log[r] \subseteq log'[r]
         /\ \A r \in Run : \A e : ~Lacks(writes, Event(r, e)) =>
                e \in log'[r] \/ ~Lacks(writes', Event(r, e))
         /\ \A r \in Run :
                \/ status'[r] = status[r]
                \/ /\ status'[r] \in RunStatuses /\ ValidRunTransition(status[r], status'[r])
                   /\ ~Lacks(writes, StatusWrite(r, status'[r]))
         /\ UNCHANGED <<registry, managed, phase>>
<1> DEFINE w == Head(writes)
           n == Len(writes)
<1>1. /\ writes \in Seq(Write) /\ writes # <<>> /\ w \in Write /\ w = writes[1]
      /\ n \in Nat /\ n > 0
      /\ writes' \in Seq(Write) /\ Len(writes') = n - 1
      /\ \A i \in 1..(n - 1) : writes'[i] = writes[i + 1]
  BY DEF Commit, EngineInv, TypeOK
<1>2. /\ log \in [Run -> SUBSET EventKind] /\ status \in [Run -> RunStatuses \cup {"absent"}]
      /\ w.run \in Run
  BY <1>1 DEF EngineInv, TypeOK, Write
<1>3. \A u : Lacks(writes, u) => Lacks(writes', u)
  BY <1>1 DEF Lacks
<1>4. \A r \in Run : log[r] \subseteq log'[r]
  BY <1>2 DEF Commit
<1>5. ASSUME NEW r \in Run, NEW e, ~Lacks(writes, Event(r, e))
      PROVE  e \in log'[r] \/ ~Lacks(writes', Event(r, e))
  <2>1. PICK j \in 1..n : writes[j] = Event(r, e)
    BY <1>5 DEF Lacks
  <2>2. CASE j = 1
    <3>1. w.kind = "event" /\ w.run = r /\ w.value = e
      BY <1>1, <2>1, <2>2 DEF Event
    <3> QED  BY <1>2, <3>1 DEF Commit
  <2>3. CASE j # 1
    <3>1. j - 1 \in 1..(n - 1) /\ (j - 1) + 1 = j
      BY <1>1, <2>3
    <3> QED  BY <1>1, <2>1, <3>1 DEF Lacks
  <2> QED  BY <2>2, <2>3
<1>6. ASSUME NEW r \in Run, status'[r] # status[r]
      PROVE  /\ status'[r] \in RunStatuses /\ ValidRunTransition(status[r], status'[r])
             /\ ~Lacks(writes, StatusWrite(r, status'[r]))
  <2>1. /\ w.kind = "status" /\ CanMove(w.run, w.value)
        /\ status' = [status EXCEPT ![w.run] = w.value]
    BY <1>6 DEF Commit
  <2>2. r = w.run /\ status'[r] = w.value /\ w.value \in RunStatuses
    BY <1>1, <1>2, <1>6, <2>1 DEF Write, Event
  <2>3. w = StatusWrite(r, status'[r])
    BY <1>1, <2>1, <2>2 DEF Write, StatusWrite
  <2> QED  BY <1>1, <2>1, <2>2, <2>3 DEF Lacks, CanMove
<1> QED  BY <1>3, <1>4, <1>5, <1>6 DEF Commit, memory

\* A step that changes one object keeps ConsentInv if the object keeps its run,
\* is approved only with the event, and dangerous only with a consent.
LEMMA ConsentObject ==
  ASSUME EngineInv, ConsentInv, writes = <<>>, UNCHANGED <<status, log>>,
         NEW m \in Managed, NEW rec \in ManagedRecord, managed' = [managed EXCEPT ![m] = rec],
         rec = Blank \/ rec.run = managed[m].run,
         VerdictOf(rec),
         rec.approved => managed[m].approved \/ ~Lacks(writes', Event(managed[m].run, "approved")),
         rec.task \in GraphTask /\ rec.danger => HasConsent(managed[m].run),
         rec.task \in First => managed[m].task \in First,
         \A r \in Run : registry'[r] \in {registry[r], NoManaged},
         \A r \in Run : AtFirst(r) /\ (m = registry[r] => rec.task \in First) =>
                           Lacks(writes', StatusWrite(r, "waiting_approval"))
  PROVE  ConsentInv'
<1>1. /\ managed \in [Managed -> ManagedRecord] /\ managed'[m] = rec
      /\ \A n \in Managed \ {m} : managed'[n] = managed[n]
      /\ registry \in [Run -> Managed \cup {NoManaged}]
  BY DEF EngineInv, TypeOK
<1>2. Verdicts'
  BY <1>1 DEF ConsentInv, Verdicts
<1>3. \A r : HasConsent(r)' = HasConsent(r)
  BY DEF HasConsent
<1>4. ConsentIsStored'
  <2> SUFFICES ASSUME NEW n \in Managed, managed'[n].approved, managed'[n].run \in Run
               PROVE  \/ HasConsent(managed'[n].run)
                      \/ ~Lacks(writes', Event(managed'[n].run, "approved"))
    BY <1>3 DEF ConsentIsStored, HasConsent, Lacks, Event
  <2>1. CASE n = m
    <3>1. rec.run = managed[m].run
      BY <1>1, <2>1 DEF Blank
    <3>2. managed[m].approved => HasConsent(managed[m].run)
      BY <1>1, <2>1, <3>1, NothingQueued DEF ConsentInv, ConsentIsStored
    <3> QED  BY <1>1, <2>1, <3>1, <3>2
  <2>2. CASE n # m
    BY <1>1, <2>2, NothingQueued DEF ConsentInv, ConsentIsStored
  <2> QED  BY <2>1, <2>2
<1>5. DangerNeedsConsent'
  <2>1. Blank.task = "none" /\ "none" \notin GraphTask
    BY DEF Blank, GraphTask
  <2> QED  BY <1>1, <2>1 DEF ConsentInv, DangerNeedsConsent, HasConsent
<1>6. KnownRuns'
  <2>1. Blank.run \notin Run
    BY EngineAssumption DEF EngineAssumption, Blank
  <2> QED  BY <1>1, <2>1 DEF ConsentInv, KnownRuns
<1>7. \A r \in Run : AtFirst(r)' => /\ AtFirst(r) /\ registry'[r] = registry[r]
                                   /\ (m = registry[r] => rec.task \in First)
  BY <1>1 DEF AtFirst
<1>8. FirstIsAlone'
  <2> SUFFICES ASSUME NEW r \in Run, AtFirst(r)', NEW n \in Managed \ {registry'[r]}
               PROVE  managed'[n].run # r
    BY DEF FirstIsAlone
  <2>1. Blank.run \notin Run
    BY EngineAssumption DEF EngineAssumption, Blank
  <2>2. AtFirst(r) /\ registry'[r] = registry[r]
    BY <1>7 DEF AtFirst
  <2>3. managed[n].run # r
    BY <2>2 DEF ConsentInv, FirstIsAlone
  <2> QED  BY <1>1, <2>1, <2>3
<1>9. FirstDoesNotWait'
  <2> SUFFICES ASSUME NEW r \in Run, AtFirst(r)'
               PROVE  /\ status'[r] # "waiting_approval"
                      /\ Lacks(writes', StatusWrite(r, "waiting_approval"))
    BY DEF FirstDoesNotWait, Lacks, StatusWrite
  <2>1. AtFirst(r) /\ (m = registry[r] => rec.task \in First)
    BY <1>7 DEF AtFirst
  <2> QED  BY <2>1 DEF ConsentInv, FirstDoesNotWait
<1> QED  BY <1>2, <1>4, <1>5, <1>6, <1>8, <1>9 DEF ConsentInv

\* A step of a task keeps ConsentInv.
LEMMA ConsentTask ==
  ASSUME EngineInv, ConsentInv, NEW m \in Managed, TaskStep(m)
  PROVE  ConsentInv'
<1> DEFINE r == managed[m].run
<1>1. /\ r \in Run /\ writes = <<>> /\ UNCHANGED <<status, log>>
      /\ registry' = registry \/ registry' = [registry EXCEPT ![r] = NoManaged]
      /\ \A w \in Write : w.run # r => Lacks(writes', w)
  BY TaskQueue
<1>2. PICK rec \in ManagedRecord :
        /\ managed' = [managed EXCEPT ![m] = rec]
        /\ GoesTo(managed[m], rec, status[r], writes')
  BY TaskObject DEF ConsentInv, Verdicts
<1>3. managed[m].approved => HasConsent(r)
  BY <1>1, NothingQueued DEF ConsentInv, ConsentIsStored
<1>4. \A q \in Run : registry'[q] \in {registry[q], NoManaged}
  BY <1>1 DEF EngineInv, TypeOK
<1>5. ASSUME NEW q \in Run, AtFirst(q), m = registry[q] => rec.task \in First
      PROVE  Lacks(writes', StatusWrite(q, "waiting_approval"))
  <2>1. CASE m = registry[q]
    <3>1. r = q
      BY <2>1, <1>5 DEF EngineInv, RegistryRun, AtFirst
    <3> QED  BY <1>2, <1>5, <2>1, <3>1 DEF GoesTo
  <2>2. CASE m # registry[q]
    <3>1. r # q
      BY <1>5, <2>2 DEF ConsentInv, FirstIsAlone
    <3>2. StatusWrite(q, "waiting_approval") \in Write /\ StatusWrite(q, "waiting_approval").run = q
      BY StatusIsWrite DEF StatusWrite, RunStatuses, NonTerminalRunStatuses
    <3> QED  BY <1>1, <3>1, <3>2
  <2> QED  BY <2>1, <2>2
<1>6. /\ rec = Blank \/ rec.run = r
      /\ VerdictOf(rec)
      /\ rec.approved => managed[m].approved
      /\ rec.task \in GraphTask /\ rec.danger => HasConsent(r)
      /\ rec.task \in First => managed[m].task \in First
  BY <1>2, <1>3 DEF GoesTo, Blank
<1> QED  BY <1>1, <1>2, <1>4, <1>5, <1>6, ConsentObject

\* A request, or the recovery, that registers an object for a run keeps ConsentInv:
\* a run gets its first object when it is created, and others have no task yet.
LEMMA ConsentRegister ==
  ASSUME EngineInv, ConsentInv, NEW r \in Run, NEW m \in Managed,
         CreateRun(r, m) \/ ReplayCreate(r, m) \/ Rehydrate(r, m)
  PROVE  ConsentInv'
<1> DEFINE rec == managed'[m]
<1>1. /\ managed \in [Managed -> ManagedRecord] /\ registry \in [Run -> Managed \cup {NoManaged}]
      /\ status \in [Run -> RunStatuses \cup {"absent"}] /\ NoManaged \notin Managed
  BY EngineAssumption DEF EngineInv, TypeOK, EngineAssumption
<1>2. /\ writes = <<>> /\ log' = log /\ Unused(m) /\ registry' = [registry EXCEPT ![r] = m]
      /\ \A n \in Managed \ {m} : managed'[n] = managed[n]
  BY <1>1 DEF CreateRun, ReplayCreate, Rehydrate, Serving, Recovering, durable
<1>3. /\ rec.run = r /\ rec.rejected = FALSE /\ rec.danger = FALSE
      /\ \/ /\ CreateRun(r, m) /\ rec.task = "execute_new"
            /\ rec.approved = (r \in ConfirmedRun) /\ rec.signalled = (r \in ConfirmedRun)
         \/ ~CreateRun(r, m) /\ rec.task = "none" /\ rec.approved = FALSE
  <2>1. CASE CreateRun(r, m)
    BY <1>1, <2>1 DEF CreateRun, Blank
  <2>2. CASE ReplayCreate(r, m) /\ ~CreateRun(r, m)
    BY <1>1, <2>2 DEF ReplayCreate, Blank
  <2>3. CASE Rehydrate(r, m) /\ ~CreateRun(r, m)
    BY <1>1, <2>3 DEF Rehydrate, Blank
  <2> QED  BY <2>1, <2>2, <2>3
<1>4. /\ \A q \in Run : status'[q] = status[q] \/ (status'[q] = "queued" /\ q = r)
      /\ status'[r] # "absent"
  <2>1. CASE CreateRun(r, m)
    <3>1. status' = [status EXCEPT ![r] = "queued"]
      BY <2>1 DEF CreateRun
    <3> QED  BY <1>1, <3>1
  <2>2. CASE ReplayCreate(r, m)
    <3>1. status' = status /\ status[r] # "absent"
      BY <2>2 DEF ReplayCreate
    <3> QED  BY <3>1
  <2>3. CASE Rehydrate(r, m)
    <3>1. status' = status /\ status[r] # "absent"
      BY <2>3 DEF Rehydrate, durable
    <3> QED  BY <3>1
  <2> QED  BY <2>1, <2>2, <2>3
<1>5. \A q \in Run : Lacks(writes', StatusWrite(q, "waiting_approval"))
  <2>1. \/ writes' = <<>>
        \/ \E e : writes' = <<Event(r, e)>>
    BY <1>2 DEF CreateRun, ReplayCreate, Rehydrate
  <2> QED  BY <2>1, LacksFew, Differ
<1> HIDE DEF rec
<1>6. Verdicts'
  BY <1>2, <1>3 DEF ConsentInv, Verdicts, VerdictOf, First, rec
<1>7. ConsentIsStored'
  <2> SUFFICES ASSUME NEW n \in Managed, managed'[n].approved, managed'[n].run \in Run
               PROVE  HasConsent(managed[n].run)'
    BY DEF ConsentIsStored, HasConsent
  <2>1. CASE n = m
    BY <1>3, <2>1 DEF HasConsent, rec
  <2>2. CASE n # m
    <3>1. HasConsent(managed[n].run) /\ managed'[n].run = managed[n].run
      BY <1>2, <2>2, NothingQueued DEF ConsentInv, ConsentIsStored
    <3> QED  BY <1>2, <3>1 DEF HasConsent
  <2> QED  BY <2>1, <2>2
<1>8. DangerNeedsConsent'
  BY <1>2, <1>3 DEF ConsentInv, DangerNeedsConsent, rec
<1>9. KnownRuns'
  BY <1>2, <1>3, <1>4 DEF ConsentInv, KnownRuns, rec
<1>10. ASSUME NEW q \in Run, AtFirst(q)'
       PROVE  \/ AtFirst(q) /\ q # r /\ registry'[q] = registry[q]
              \/ q = r /\ CreateRun(r, m) /\ registry'[q] = m
  <2>1. CASE q = r
    <3>1. registry'[q] = m
      BY <1>1, <1>2, <2>1
    <3> QED  BY <1>3, <1>10, <2>1, <3>1 DEF AtFirst, First, rec
  <2>2. CASE q # r
    <3>1. registry'[q] = registry[q] /\ registry[q] # m
      BY <1>1, <1>2, <2>2 DEF Unused
    <3> QED  BY <1>1, <1>2, <1>10, <2>2, <3>1 DEF AtFirst
  <2> QED  BY <2>1, <2>2
<1>11. FirstIsAlone'
  <2> SUFFICES ASSUME NEW q \in Run, AtFirst(q)', NEW n \in Managed \ {registry'[q]}
               PROVE  managed'[n].run # q
    BY DEF FirstIsAlone
  <2>1. CASE AtFirst(q) /\ q # r /\ registry'[q] = registry[q]
    <3>1. managed[n].run # q
      BY <2>1 DEF ConsentInv, FirstIsAlone
    <3> QED  BY <1>2, <1>3, <2>1, <3>1 DEF rec
  <2>2. CASE q = r /\ CreateRun(r, m) /\ registry'[q] = m
    <3>1. status[r] = "absent"
      BY <2>2 DEF CreateRun
    <3> QED  BY <1>2, <2>2, <3>1 DEF ConsentInv, KnownRuns
  <2> QED  BY <1>10, <2>1, <2>2
<1>12. FirstDoesNotWait'
  <2> SUFFICES ASSUME NEW q \in Run, AtFirst(q)' PROVE status'[q] # "waiting_approval"
    BY <1>5 DEF FirstDoesNotWait, Lacks, StatusWrite
  <2>1. CASE AtFirst(q)
    BY <1>4, <2>1 DEF ConsentInv, FirstDoesNotWait
  <2>2. CASE q = r /\ CreateRun(r, m)
    BY <1>1, <2>2 DEF CreateRun
  <2> QED  BY <1>10, <2>1, <2>2
<1> QED  BY <1>6, <1>7, <1>8, <1>9, <1>11, <1>12 DEF ConsentInv

\* A verdict keeps ConsentInv: it is queued with the flag, and the object it changes
\* belongs to a run that waits, so that its task is not before the first pause.
LEMMA ConsentDecide ==
  ASSUME EngineInv, ConsentInv, NEW r \in Run, Approve(r) \/ Reject(r)
  PROVE  ConsentInv'
<1> DEFINE m == registry[r]
<1> DEFINE Answers(b, ws) ==
             /\ Decide(r, b, ws)
             /\ b => ws = <<Event(r, "approved")>>
             /\ ~b => \/ ws = <<Event(r, "rejected")>>
                      \/ ws = <<Event(r, "rejected"), Event(r, "side_effect_blocked")>>
<1>0. PICK b \in BOOLEAN : \E ws : Answers(b, ws)
  BY DEF Approve, Reject
<1>1. PICK ws : Answers(b, ws)
  BY <1>0
<1>2. /\ m \in Managed /\ managed[m].run = r /\ managed[m] \in ManagedRecord
      /\ status[r] = "waiting_approval" /\ writes = <<>>
  BY <1>1, DecideShape DEF EngineInv, TypeOK
<1>3. PICK rec \in ManagedRecord :
        /\ managed' = [managed EXCEPT ![m] = rec]
        /\ rec.approved = (managed[m].approved \/ b) /\ rec.rejected = (managed[m].rejected \/ ~b)
        /\ \/ rec.task = managed[m].task
           \/ rec.task = "continue_new" /\ managed[m].task \in {"none", "done"}
        /\ rec.run = r /\ rec.danger = managed[m].danger
  BY <1>1, DecideShape
<1>4. UNCHANGED <<status, log, registry>> /\ writes' = ws
  BY <1>1 DEF Decide
<1>5. managed[m].task \notin First
  BY <1>2, EngineAssumption DEF ConsentInv, FirstDoesNotWait, AtFirst, EngineAssumption
<1>6. rec.task \notin First /\ VerdictOf(rec)
  BY <1>3, <1>5 DEF VerdictOf, First
<1>7. rec.approved => managed[m].approved \/ ~Lacks(writes', Event(r, "approved"))
  <2>1. b => ~Lacks(writes', Event(r, "approved"))
    BY <1>1, <1>4 DEF Lacks
  <2> QED  BY <1>3, <2>1
<1>8. rec.task \in GraphTask /\ rec.danger => HasConsent(r)
  BY <1>2, <1>3 DEF ConsentInv, DangerNeedsConsent, HasConsent, GraphTask
<1>9. \A q \in Run : Lacks(writes', StatusWrite(q, "waiting_approval"))
  BY <1>1, <1>4, LacksFew, Differ
<1> QED  BY <1>2, <1>3, <1>4, <1>6, <1>7, <1>8, <1>9, ConsentObject

\* A cancellation keeps ConsentInv: a task it wakes is a task it kills.
LEMMA ConsentCancel ==
  ASSUME EngineInv, ConsentInv, NEW r \in Run, Cancel(r)
  PROVE  ConsentInv'
<1> DEFINE m == registry[r]
           rec == [managed[m] EXCEPT !.signalled = TRUE, !.killed = Live(m)]
           move == Update(r, "cancelling")
           told == <<Event(r, "cancel_requested")>>
<1>1. /\ m \in Managed /\ managed \in [Managed -> ManagedRecord] /\ managed[m] \in ManagedRecord
      /\ writes = <<>> /\ UNCHANGED <<status, log, registry>>
  BY DEF Cancel, Serving, EngineInv, TypeOK
<1>2. managed' = [managed EXCEPT ![m] = rec]
  BY <1>1 DEF Cancel, ManagedRecord
<1>3. rec \in ManagedRecord
  BY <1>1 DEF ManagedRecord, Live
<1>4. /\ rec.run = managed[m].run /\ rec.task = managed[m].task
      /\ rec.approved = managed[m].approved /\ rec.rejected = managed[m].rejected
      /\ rec.danger = managed[m].danger
      /\ rec.killed = Live(m)
  BY <1>1 DEF ManagedRecord
<1>5. writes' = move \o told
  BY DEF Cancel
<1>6. \A q \in Run : Lacks(writes', StatusWrite(q, "waiting_approval"))
  <2> TAKE q \in Run
  <2> DEFINE w == StatusWrite(q, "waiting_approval")
  <2>1. Lacks(told, w) /\ told \in Seq(Write)
    BY LacksFew, Differ, OneEvent DEF EventKind
  <2>2. Lacks(move, w) /\ move \in Seq(Write)
    BY LacksUpdate, Differ, UpdateIsWrites DEF RunStatuses, NonTerminalRunStatuses
  <2> HIDE DEF move, told, w
  <2>3. Lacks(writes', w)
    BY <1>5, <2>1, <2>2, LacksConcat
  <2> QED  BY <2>3 DEF w
<1> HIDE DEF rec
<1>7. VerdictOf(rec)
  BY <1>1, <1>4 DEF ConsentInv, Verdicts, VerdictOf, Live, First
<1>8. rec.task \in GraphTask /\ rec.danger => HasConsent(managed[m].run)
  BY <1>1, <1>4 DEF ConsentInv, DangerNeedsConsent, HasConsent
<1> QED  BY <1>1, <1>2, <1>3, <1>4, <1>6, <1>7, <1>8, ConsentObject

\* A commit keeps ConsentInv.
LEMMA ConsentCommit ==
  ASSUME EngineInv, ConsentInv, Commit
  PROVE  ConsentInv'
<1>1. /\ UNCHANGED <<registry, managed>>
      /\ \A r \in Run : log[r] \subseteq log'[r]
  BY CommitMoves
<1>2. Verdicts' /\ FirstIsAlone'
  BY <1>1 DEF ConsentInv, Verdicts, FirstIsAlone, AtFirst
<1>3. \A r \in Run : HasConsent(r) => HasConsent(r)'
  BY <1>1 DEF HasConsent
<1>4. ConsentIsStored'
  <2> SUFFICES ASSUME NEW n \in Managed, managed[n].approved, managed[n].run \in Run
               PROVE  \/ HasConsent(managed[n].run)'
                      \/ ~Lacks(writes', Event(managed[n].run, "approved"))
    BY <1>1 DEF ConsentIsStored, HasConsent, Lacks, Event
  <2> DEFINE r == managed[n].run
  <2>1. HasConsent(r) \/ ~Lacks(writes, Event(r, "approved"))
    BY DEF ConsentInv, ConsentIsStored
  <2>2. ~Lacks(writes, Event(r, "approved")) =>
            "approved" \in log'[r] \/ ~Lacks(writes', Event(r, "approved"))
    BY CommitMoves
  <2> QED  BY <1>1, <2>1, <2>2 DEF HasConsent
<1>5. DangerNeedsConsent'
  <2> SUFFICES ASSUME NEW n \in Managed, managed[n].task \in GraphTask, managed[n].danger
               PROVE  managed[n].run \in ConfirmedRun \/ "approved" \in log'[managed[n].run]
    BY <1>1 DEF DangerNeedsConsent
  <2>1. managed[n].run \in Run
    BY DEF EngineInv, TaskHasRun, GraphTask
  <2> QED  BY <1>1, <2>1 DEF ConsentInv, DangerNeedsConsent
<1>6. KnownRuns'
  <2>1. "absent" \notin RunStatuses
    BY DEF RunStatuses, TerminalRunStatuses, NonTerminalRunStatuses
  <2>2. \A r \in Run : status'[r] = status[r] \/ status'[r] \in RunStatuses
    BY CommitMoves
  <2> QED  BY <1>1, <2>1, <2>2 DEF ConsentInv, KnownRuns
<1>7. FirstDoesNotWait'
  <2> SUFFICES ASSUME NEW r \in Run, AtFirst(r)
               PROVE  /\ status'[r] # "waiting_approval"
                      /\ Lacks(writes', StatusWrite(r, "waiting_approval"))
    BY <1>1 DEF FirstDoesNotWait, AtFirst, Lacks, StatusWrite
  <2>1. status[r] # "waiting_approval" /\ Lacks(writes, StatusWrite(r, "waiting_approval"))
    BY DEF ConsentInv, FirstDoesNotWait
  <2> QED  BY <2>1, CommitMoves
<1> QED  BY <1>2, <1>4, <1>5, <1>6, <1>7 DEF ConsentInv

\* A step that changes neither the objects nor the statuses keeps ConsentInv.
LEMMA ConsentElsewhere ==
  ASSUME EngineInv, ConsentInv, writes = <<>>, UNCHANGED <<managed, status, log>>,
         \A r \in Run : registry'[r] \in {registry[r], NoManaged},
         \A r \in Run : Lacks(writes', StatusWrite(r, "waiting_approval"))
  PROVE  ConsentInv'
<1>1. Verdicts' /\ DangerNeedsConsent' /\ KnownRuns'
  BY DEF ConsentInv, Verdicts, DangerNeedsConsent, KnownRuns
<1>2. ConsentIsStored'
  <2> SUFFICES ASSUME NEW n \in Managed, managed[n].approved, managed[n].run \in Run
               PROVE  HasConsent(managed[n].run)'
    BY DEF ConsentIsStored, HasConsent
  <2>1. HasConsent(managed[n].run)
    BY NothingQueued DEF ConsentInv, ConsentIsStored
  <2> QED  BY <2>1 DEF HasConsent
<1>3. \A r \in Run : AtFirst(r)' => AtFirst(r) /\ registry'[r] = registry[r]
  BY DEF AtFirst
<1>4. FirstIsAlone'
  <2> SUFFICES ASSUME NEW r \in Run, AtFirst(r)', NEW n \in Managed \ {registry'[r]}
               PROVE  managed[n].run # r
    BY DEF FirstIsAlone
  <2> QED  BY <1>3 DEF ConsentInv, FirstIsAlone
<1>5. FirstDoesNotWait'
  <2> SUFFICES ASSUME NEW r \in Run, AtFirst(r)' PROVE status[r] # "waiting_approval"
    BY DEF FirstDoesNotWait, Lacks, StatusWrite
  <2> QED  BY <1>3 DEF ConsentInv, FirstDoesNotWait
<1> QED  BY <1>1, <1>2, <1>4, <1>5 DEF ConsentInv

\* The recovery of a run queues no wait for an approval.
LEMMA ConsentRecover ==
  ASSUME EngineInv, ConsentInv, NEW r \in Run, RecoverCancelledRun(r) \/ RecoverFailedRun(r)
  PROVE  ConsentInv'
<1>1. \A q \in Run : Lacks(writes', StatusWrite(q, "waiting_approval"))
  BY DEF RecoverCancelledRun, RecoverFailedRun, Lacks, Event, StatusWrite
<1>2. writes = <<>> /\ UNCHANGED <<managed, status, log, registry>>
  BY DEF RecoverCancelledRun, RecoverFailedRun, Recovering, durable, memory
<1> QED  BY <1>1, <1>2, ConsentElsewhere

\* What is not queued for a stretch of code stays as it is when the queue does.
LEMMA ConsentStays ==
  ASSUME ConsentInv, UNCHANGED <<managed, status, log, registry, writes>>
  PROVE  ConsentInv'
<1>1. Verdicts' /\ DangerNeedsConsent' /\ KnownRuns'
  BY DEF ConsentInv, Verdicts, DangerNeedsConsent, KnownRuns
<1>2. ConsentIsStored'
  BY DEF ConsentInv, ConsentIsStored, HasConsent, Lacks, Event
<1>3. FirstIsAlone' /\ FirstDoesNotWait'
  BY DEF ConsentInv, FirstIsAlone, FirstDoesNotWait, AtFirst, Lacks, StatusWrite
<1> QED  BY <1>1, <1>2, <1>3 DEF ConsentInv

\* A process that stops kills its tasks and leaves the flags.
LEMMA ConsentShutdown == ASSUME EngineInv, ConsentInv, Shutdown PROVE ConsentInv'
<1>1. /\ \A m \in Managed :
           /\ managed'[m].run = managed[m].run /\ managed'[m].task = managed[m].task
           /\ managed'[m].approved = managed[m].approved
           /\ managed'[m].rejected = managed[m].rejected
           /\ managed'[m].signalled = managed[m].signalled
           /\ managed'[m].danger = managed[m].danger
           /\ managed'[m].killed = Live(m)
      /\ UNCHANGED <<status, log, registry, writes>>
  BY DEF Shutdown, EngineInv, TypeOK, ManagedRecord, durable
<1>2. Verdicts'
  BY <1>1 DEF ConsentInv, Verdicts, VerdictOf, Live, First
<1>3. DangerNeedsConsent' /\ KnownRuns'
  BY <1>1 DEF ConsentInv, DangerNeedsConsent, KnownRuns
<1>4. ConsentIsStored'
  BY <1>1 DEF ConsentInv, ConsentIsStored, HasConsent, Lacks, Event
<1>5. \A r \in Run : AtFirst(r)' => AtFirst(r)
  BY <1>1 DEF AtFirst, EngineInv, TypeOK
<1>6. FirstIsAlone'
  <2> SUFFICES ASSUME NEW r \in Run, AtFirst(r)', NEW n \in Managed \ {registry'[r]}
               PROVE  managed'[n].run # r
    BY DEF FirstIsAlone
  <2> QED  BY <1>1, <1>5 DEF ConsentInv, FirstIsAlone
<1>7. FirstDoesNotWait'
  <2> SUFFICES ASSUME NEW r \in Run, AtFirst(r)'
               PROVE  /\ status[r] # "waiting_approval"
                      /\ Lacks(writes, StatusWrite(r, "waiting_approval"))
    BY <1>1 DEF FirstDoesNotWait, Lacks, StatusWrite
  <2> QED  BY <1>5 DEF ConsentInv, FirstDoesNotWait
<1> QED  BY <1>2, <1>3, <1>4, <1>6, <1>7 DEF ConsentInv

\* A new process holds no object.
Empty == managed = [m \in Managed |-> Blank] /\ registry = [r \in Run |-> NoManaged]

LEMMA ConsentEmpty == Empty => ConsentInv
<1> SUFFICES ASSUME Empty PROVE ConsentInv
  OBVIOUS
<1>0. managed = [m \in Managed |-> Blank] /\ registry = [r \in Run |-> NoManaged]
  BY DEF Empty
<1>1. Blank.run \notin Run /\ Blank.task = "none" /\ Blank.approved = FALSE
      /\ Blank.rejected = FALSE /\ Blank.signalled = FALSE
  BY EngineAssumption DEF EngineAssumption, Blank
<1>2. \A r \in Run : ~AtFirst(r)
  BY <1>0 DEF AtFirst
<1>3. Verdicts
  BY <1>0, <1>1 DEF Verdicts, VerdictOf, First
<1>4. DangerNeedsConsent
  BY <1>0, <1>1 DEF DangerNeedsConsent, GraphTask
<1> QED  BY <1>0, <1>1, <1>2, <1>3, <1>4
         DEF ConsentInv, ConsentIsStored, KnownRuns, FirstIsAlone, FirstDoesNotWait

LEMMA ConsentNext ==
  ASSUME EngineInv, ConsentInv, [Next]_vars
  PROVE  ConsentInv'
<1>1. ASSUME NEW r \in Run, NEW m \in Managed, CreateRun(r, m) \/ ReplayCreate(r, m)
      PROVE  ConsentInv'
  BY <1>1, ConsentRegister
<1>2. ASSUME NEW r \in Run, StreamReplay(r) PROVE ConsentInv'
  <2>1. writes = <<>> /\ writes' = <<>> /\ UNCHANGED <<managed, status, log>>
        /\ registry' = [registry EXCEPT ![r] = NoManaged]
    BY <1>2 DEF StreamReplay, Serving
  <2>2. \A q \in Run : registry'[q] \in {registry[q], NoManaged}
    BY <2>1 DEF EngineInv, TypeOK
  <2>3. \A q \in Run : Lacks(writes', StatusWrite(q, "waiting_approval"))
    BY <2>1, LacksFew
  <2> QED  BY <2>1, <2>2, <2>3, ConsentElsewhere
<1>3. ASSUME NEW r \in Run, Cancel(r) PROVE ConsentInv'
  BY <1>3, ConsentCancel
<1>4. ASSUME NEW r \in Run, Approve(r) \/ Reject(r) PROVE ConsentInv'
  BY <1>4, ConsentDecide
<1>5. ASSUME NEW m \in Managed, TaskStep(m) PROVE ConsentInv'
  BY <1>5, ConsentTask
<1>6. CASE Commit
  BY <1>6, ConsentCommit
<1>7. ASSUME NEW r \in Run, RecoverCancelledRun(r) \/ RecoverFailedRun(r) PROVE ConsentInv'
  BY <1>7, ConsentRecover
<1>8. ASSUME NEW r \in Run, NEW m \in Managed, Rehydrate(r, m) PROVE ConsentInv'
  BY <1>8, ConsentRegister
<1>9. CASE Shutdown
  BY <1>9, ConsentShutdown
<1>10. CASE Crash
  <2>1. Empty'
    BY <1>10 DEF Crash, Empty
  <2> QED  BY <2>1, ConsentEmpty, PTL
<1>11. ASSUME UNCHANGED <<managed, status, log, registry, writes>> PROVE ConsentInv'
  BY <1>11, ConsentStays
<1> QED
  BY <1>1, <1>2, <1>3, <1>4, <1>5, <1>6, <1>7, <1>8, <1>9, <1>10, <1>11
     DEF Next, Request, Recovery, CloseThread, EndRecovery, vars, durable, memory

\* The graph never runs with confirm_dangerous unless the request had it or the
\* approval is stored: no order of verdicts, cancellations, interrupts, restarts
\* and replayed requests lets a rejected or an undecided run through.
THEOREM DangerIsConsented == Spec => []DangerNeedsConsent
<1>1. Init => ConsentInv
  BY ConsentEmpty DEF Init, Empty
<1>2. EngineInv /\ ConsentInv /\ [Next]_vars => ConsentInv'
  BY ConsentNext
<1>3. ConsentInv => DangerNeedsConsent
  BY DEF ConsentInv
<1> QED  BY <1>1, <1>2, <1>3, EngineInvariant, PTL DEF Spec

-----------------------------------------------------------------------------
(* A rejection holds.  It needs that a run has one object: with keys a       *)
(* request that is replayed makes a second one, and a rejection marks that   *)
(* one only.  A run that runs dangerously does not wait for a verdict, and   *)
(* no commit that is queued makes it wait, so that no rejection is accepted. *)

OneObjectPerRun ==
    \A m, n \in Managed : managed[m].run \in Run /\ managed[n].run = managed[m].run => m = n

RecoveredIsRegistered ==
    phase = "recovering" =>
        \A m \in Managed : managed[m].run \in Run => registry[managed[m].run] = m

DangerDoesNotWait ==
    \A m \in Managed :
        managed[m].task \in GraphTask /\ managed[m].danger =>
            WillNotWait(status[managed[m].run], writes, managed[m].run)

RejectInv == OneObjectPerRun /\ RecoveredIsRegistered /\ DangerDoesNotWait /\ RejectionHolds

LEMMA BlankRests ==
  /\ Blank.run \notin Run /\ Blank.task \notin GraphTask /\ Blank.danger = FALSE
  BY EngineAssumption DEF EngineAssumption, Blank, GraphTask

\* When nothing is queued, a run that does not wait goes on so if no wait is queued.
LEMMA StillWillNotWait ==
  ASSUME NEW r, NEW st, writes = <<>>, WillNotWait(st, writes, r),
         Lacks(writes', StatusWrite(r, "waiting_approval"))
  PROVE  WillNotWait(st, writes', r)
  BY DEF WillNotWait

\* A commit keeps the promise not to wait.
LEMMA CommitWillNotWait ==
  ASSUME EngineInv, Commit, NEW r \in Run, WillNotWait(status[r], writes, r)
  PROVE  WillNotWait(status'[r], writes', r)
<1> DEFINE w == StatusWrite(r, "waiting_approval")
           n == Len(writes)
<1>1. /\ writes \in Seq(Write) /\ writes # <<>> /\ n \in Nat /\ n > 0
      /\ Len(writes') = n - 1
      /\ \A i \in 1..(n - 1) : writes'[i] = writes[i + 1]
  BY DEF Commit, EngineInv, TypeOK
<1>2. CASE status[r] # "waiting_approval" /\ Lacks(writes, w)
  <2>1. Lacks(writes', w)
    BY <1>2, CommitMoves
  <2>2. status'[r] # "waiting_approval"
    BY <1>2, CommitMoves
  <2> QED  BY <2>1, <2>2 DEF WillNotWait
<1>3. CASE \E j \in 1..n : /\ writes[j] = StatusWrite(r, "running")
                           /\ \A i \in (j + 1)..n : writes[i] # w
  <2>1. PICK j \in 1..n : /\ writes[j] = StatusWrite(r, "running")
                          /\ \A i \in (j + 1)..n : writes[i] # w
    BY <1>3
  <2>2. CASE j = 1
    <3>1. Lacks(writes', w)
      <4> SUFFICES ASSUME NEW i \in 1..(n - 1) PROVE writes'[i] # w
        BY <1>1 DEF Lacks
      <4>1. i + 1 \in (j + 1)..n
        BY <1>1, <2>2
      <4> QED  BY <1>1, <2>1, <4>1
    <3>2. Head(writes) = StatusWrite(r, "running")
      BY <1>1, <2>1, <2>2
    <3>3. status' = [status EXCEPT ![r] = "running"]
      BY <3>2 DEF Commit, StatusWrite
    <3>4. status'[r] = "running"
      BY <3>3 DEF EngineInv, TypeOK
    <3> QED  BY <3>1, <3>4 DEF WillNotWait
  <2>3. CASE j # 1
    <3>1. j - 1 \in 1..(n - 1) /\ writes'[j - 1] = StatusWrite(r, "running")
      <4>1. j - 1 \in 1..(n - 1) /\ (j - 1) + 1 = j
        BY <1>1, <2>3
      <4> QED  BY <1>1, <2>1, <4>1
    <3>2. \A i \in ((j - 1) + 1)..(n - 1) : writes'[i] # w
      <4> TAKE i \in ((j - 1) + 1)..(n - 1)
      <4>1. i \in 1..(n - 1) /\ i + 1 \in (j + 1)..n
        BY <1>1, <2>3
      <4> QED  BY <1>1, <2>1, <4>1
    <3> QED  BY <1>1, <3>1, <3>2 DEF WillNotWait
  <2> QED  BY <2>2, <2>3
<1> QED  BY <1>2, <1>3 DEF WillNotWait

\* A step that changes one object, and keeps its run or gives the object up.
LEMMA RejectObject ==
  ASSUME EngineInv, RejectInv, writes = <<>>, status' = status,
         phase' # "recovering",
         NEW m \in Managed, NEW rec \in ManagedRecord, managed' = [managed EXCEPT ![m] = rec],
         rec = Blank \/ rec.run = managed[m].run,
         rec.task \in GraphTask /\ rec.danger =>
             /\ ~rec.rejected
             /\ WillNotWait(status[managed[m].run], writes', managed[m].run),
         \A n \in Managed \ {m} : managed[n].run \in Run =>
             Lacks(writes', StatusWrite(managed[n].run, "waiting_approval"))
  PROVE  RejectInv'
<1>1. /\ managed'[m] = rec
      /\ \A n \in Managed \ {m} : managed'[n] = managed[n]
  BY DEF EngineInv, TypeOK
<1>2. OneObjectPerRun'
  BY <1>1, BlankRests DEF RejectInv, OneObjectPerRun
<1>3. RecoveredIsRegistered'
  BY DEF RecoveredIsRegistered
<1>4. RejectionHolds'
  BY <1>1 DEF RejectInv, RejectionHolds
<1>5. DangerDoesNotWait'
  <2> SUFFICES ASSUME NEW n \in Managed, managed'[n].task \in GraphTask, managed'[n].danger
               PROVE  WillNotWait(status[managed'[n].run], writes', managed'[n].run)
    BY DEF DangerDoesNotWait, WillNotWait, Lacks, StatusWrite
  <2>1. CASE n = m
    <3>1. rec.run = managed[m].run
      BY <1>1, <2>1, BlankRests
    <3> QED  BY <1>1, <2>1, <3>1
  <2>2. CASE n # m
    <3>1. WillNotWait(status[managed[n].run], writes, managed[n].run)
      BY <1>1, <2>2 DEF RejectInv, DangerDoesNotWait
    <3>2. managed[n].run \in Run
      BY <1>1, <2>2 DEF EngineInv, TaskHasRun, GraphTask
    <3> QED  BY <1>1, <2>2, <3>1, <3>2, StillWillNotWait
  <2> QED  BY <2>1, <2>2
<1> QED  BY <1>2, <1>3, <1>4, <1>5 DEF RejectInv

\* A step that leaves the objects alone and queues no wait.
LEMMA RejectElsewhere ==
  ASSUME EngineInv, RejectInv, UNCHANGED <<managed, status>>,
         writes' = writes \/ writes = <<>>,
         \A r \in Run : Lacks(writes', StatusWrite(r, "waiting_approval")) \/ writes' = writes,
         phase' = "recovering" => phase = "recovering" /\ registry' = registry
  PROVE  RejectInv'
<1>1. OneObjectPerRun' /\ RejectionHolds' /\ RecoveredIsRegistered'
  BY DEF RejectInv, OneObjectPerRun, RejectionHolds, RecoveredIsRegistered
<1>2. DangerDoesNotWait'
  <2> SUFFICES ASSUME NEW n \in Managed, managed[n].task \in GraphTask, managed[n].danger
               PROVE  WillNotWait(status[managed[n].run], writes', managed[n].run)
    BY DEF DangerDoesNotWait, WillNotWait, Lacks, StatusWrite
  <2>1. WillNotWait(status[managed[n].run], writes, managed[n].run)
    BY DEF RejectInv, DangerDoesNotWait
  <2>2. managed[n].run \in Run
    BY DEF EngineInv, TaskHasRun, GraphTask
  <2>3. CASE writes' = writes
    BY <2>1, <2>3 DEF WillNotWait, Lacks
  <2>4. CASE writes' # writes
    BY <2>1, <2>2, <2>4, StillWillNotWait
  <2> QED  BY <2>3, <2>4
<1> QED  BY <1>1, <1>2 DEF RejectInv

\* A step of a task: what it makes of its object is GoesTo, and its commits are
\* those of its own run, which no other object has.
LEMMA RejectTask ==
  ASSUME EngineInv, ConsentInv, RejectInv, NEW m \in Managed, TaskStep(m)
  PROVE  RejectInv'
<1> DEFINE r == managed[m].run
<1>1. /\ r \in Run /\ writes = <<>> /\ UNCHANGED <<status, phase>>
      /\ \A w \in Write : w.run # r => Lacks(writes', w)
  BY TaskQueue
<1>2. PICK rec \in ManagedRecord :
        /\ managed' = [managed EXCEPT ![m] = rec]
        /\ GoesTo(managed[m], rec, status[r], writes')
  BY TaskObject DEF ConsentInv, Verdicts
<1>3. phase # "recovering"
  BY DEF TaskStep, ExecuteStart, ContinueStart, ExecuteWake, GraphInterrupt, GraphDone,
         GraphFail, Killed, VerifyCheckpoint, Compact, Turn
<1>4. \A n \in Managed \ {m} : managed[n].run \in Run =>
          Lacks(writes', StatusWrite(managed[n].run, "waiting_approval"))
  <2> SUFFICES ASSUME NEW n \in Managed \ {m}, managed[n].run \in Run
               PROVE  Lacks(writes', StatusWrite(managed[n].run, "waiting_approval"))
    OBVIOUS
  <2>1. managed[n].run # r
    BY DEF RejectInv, OneObjectPerRun
  <2>2. /\ StatusWrite(managed[n].run, "waiting_approval") \in Write
        /\ StatusWrite(managed[n].run, "waiting_approval").run = managed[n].run
    BY StatusIsWrite DEF StatusWrite, RunStatuses, NonTerminalRunStatuses
  <2> QED  BY <1>1, <2>1, <2>2
<1>5. /\ rec = Blank \/ rec.run = r
      /\ rec.task \in GraphTask /\ rec.danger =>
            ~rec.rejected /\ WillNotWait(status[r], writes', r)
  <2>1. rec = Blank \/ (rec.run = r /\ rec.rejected = managed[m].rejected)
    BY <1>2 DEF GoesTo
  <2>2. rec.task \in GraphTask /\ rec.danger =>
            ~managed[m].rejected /\ WillNotWait(status[r], writes', r)
    BY <1>2 DEF GoesTo
  <2> QED  BY <2>1, <2>2, BlankRests
<1> QED  BY <1>1, <1>2, <1>3, <1>4, <1>5, RejectObject

\* A run gets its first object when it is created, or when it is recovered by a
\* process that held none of it.
LEMMA RejectRegister ==
  ASSUME EngineInv, ConsentInv, RejectInv, NEW r \in Run, NEW m \in Managed,
         CreateRun(r, m) \/ Rehydrate(r, m)
  PROVE  RejectInv'
<1> DEFINE rec == managed'[m]
<1>1. /\ managed \in [Managed -> ManagedRecord] /\ registry \in [Run -> Managed \cup {NoManaged}]
      /\ status \in [Run -> RunStatuses \cup {"absent"}] /\ NoManaged \notin Managed
  BY EngineAssumption DEF EngineInv, TypeOK, EngineAssumption
<1>2. /\ writes = <<>> /\ Unused(m) /\ registry' = [registry EXCEPT ![r] = m]
      /\ \A n \in Managed \ {m} : managed'[n] = managed[n]
      /\ phase' = phase
      /\ \E e : writes' = <<Event(r, e)>>
  BY <1>1 DEF CreateRun, Rehydrate, Serving, Recovering, durable
<1>3. rec.run = r /\ rec.danger = FALSE
  <2>1. CASE CreateRun(r, m)
    BY <1>1, <2>1 DEF CreateRun, Blank
  <2>2. CASE Rehydrate(r, m)
    BY <1>1, <2>2 DEF Rehydrate, Blank
  <2> QED  BY <2>1, <2>2
<1>4. \A n \in Managed \ {m} : managed[n].run # r
  <2>1. CASE CreateRun(r, m)
    BY <2>1 DEF CreateRun, ConsentInv, KnownRuns
  <2>2. CASE Rehydrate(r, m)
    BY <2>2, EngineAssumption
       DEF Rehydrate, Recovering, RejectInv, RecoveredIsRegistered, EngineAssumption
  <2> QED  BY <2>1, <2>2
<1>5. \A q \in Run \ {r} : status'[q] = status[q]
  BY <1>1 DEF CreateRun, Rehydrate, durable
<1>6. \A q \in Run : Lacks(writes', StatusWrite(q, "waiting_approval"))
  BY <1>2, LacksFew, Differ
<1> HIDE DEF rec
<1>7. OneObjectPerRun'
  BY <1>2, <1>3, <1>4 DEF RejectInv, OneObjectPerRun, rec
<1>8. RecoveredIsRegistered'
  BY <1>1, <1>2, <1>3, <1>4 DEF RejectInv, RecoveredIsRegistered, rec
<1>9. RejectionHolds'
  BY <1>2, <1>3 DEF RejectInv, RejectionHolds, rec
<1>10. DangerDoesNotWait'
  <2> SUFFICES ASSUME NEW n \in Managed, managed'[n].task \in GraphTask, managed'[n].danger
               PROVE  WillNotWait(status'[managed'[n].run], writes', managed'[n].run)
    BY DEF DangerDoesNotWait, WillNotWait, Lacks, StatusWrite
  <2>1. n # m /\ managed'[n] = managed[n]
    BY <1>2, <1>3 DEF rec
  <2>2. managed[n].run \in Run \ {r}
    BY <1>4, <2>1 DEF EngineInv, TaskHasRun, GraphTask
  <2>3. WillNotWait(status[managed[n].run], writes, managed[n].run)
    BY <2>1 DEF RejectInv, DangerDoesNotWait
  <2> QED  BY <1>2, <1>5, <1>6, <2>1, <2>2, <2>3, StillWillNotWait
<1> QED  BY <1>7, <1>8, <1>9, <1>10 DEF RejectInv

\* A verdict is accepted only while the run waits, and then nothing runs dangerously.
LEMMA RejectDecide ==
  ASSUME EngineInv, RejectInv, NEW r \in Run, Approve(r) \/ Reject(r)
  PROVE  RejectInv'
<1> DEFINE m == registry[r]
<1> DEFINE Answers(b, ws) ==
             /\ Decide(r, b, ws)
             /\ \E e, f : ws \in {<<Event(r, e)>>, <<Event(r, e), Event(r, f)>>}
<1>0. PICK b \in BOOLEAN : \E ws : Answers(b, ws)
  BY DEF Approve, Reject
<1>1. PICK ws : Answers(b, ws)
  BY <1>0
<1>2. /\ m \in Managed /\ managed[m].run = r
      /\ status[r] = "waiting_approval" /\ writes = <<>>
  BY <1>1, DecideShape
<1>3. PICK rec \in ManagedRecord :
        /\ managed' = [managed EXCEPT ![m] = rec]
        /\ \/ rec.task = managed[m].task
           \/ rec.task = "continue_new" /\ managed[m].task \in {"none", "done"}
        /\ rec.run = r /\ rec.danger = managed[m].danger
  BY <1>1, DecideShape
<1>4. status' = status /\ phase' = "up" /\ writes' = ws
  BY <1>1 DEF Decide, Serving
<1>5. ~(rec.task \in GraphTask /\ rec.danger)
  <2>1. ~WillNotWait(status[r], writes, r)
    BY <1>2 DEF WillNotWait
  <2>2. ~(managed[m].task \in GraphTask /\ managed[m].danger)
    BY <1>2, <2>1 DEF RejectInv, DangerDoesNotWait
  <2> QED  BY <1>3, <2>2 DEF GraphTask
<1>6. \A q \in Run : Lacks(writes', StatusWrite(q, "waiting_approval"))
  BY <1>1, <1>4, LacksFew, Differ
<1> QED  BY <1>2, <1>3, <1>4, <1>5, <1>6, RejectObject

LEMMA RejectCancel ==
  ASSUME EngineInv, RejectInv, NEW r \in Run, Cancel(r)
  PROVE  RejectInv'
<1> DEFINE m == registry[r]
           rec == [managed[m] EXCEPT !.signalled = TRUE, !.killed = Live(m)]
           move == Update(r, "cancelling")
           told == <<Event(r, "cancel_requested")>>
<1>1. /\ m \in Managed /\ managed[m] \in ManagedRecord
      /\ writes = <<>> /\ status' = status /\ phase' = "up"
      /\ managed' = [managed EXCEPT ![m] = rec]
  BY DEF Cancel, Serving, EngineInv, TypeOK, ManagedRecord
<1>2. /\ rec \in ManagedRecord
      /\ rec.run = managed[m].run /\ rec.task = managed[m].task
      /\ rec.rejected = managed[m].rejected /\ rec.danger = managed[m].danger
  BY <1>1 DEF ManagedRecord, Live
<1>3. \A q \in Run : Lacks(writes', StatusWrite(q, "waiting_approval"))
  <2> TAKE q \in Run
  <2> DEFINE w == StatusWrite(q, "waiting_approval")
  <2>1. writes' = move \o told
    BY DEF Cancel
  <2>2. Lacks(told, w) /\ told \in Seq(Write)
    BY LacksFew, Differ, OneEvent DEF EventKind
  <2>3. Lacks(move, w) /\ move \in Seq(Write)
    BY LacksUpdate, Differ, UpdateIsWrites DEF RunStatuses, NonTerminalRunStatuses
  <2> HIDE DEF move, told, w
  <2>4. Lacks(writes', w)
    BY <2>1, <2>2, <2>3, LacksConcat
  <2> QED  BY <2>4 DEF w
<1> HIDE DEF rec
<1>4. ASSUME rec.task \in GraphTask /\ rec.danger
      PROVE  /\ ~rec.rejected
             /\ WillNotWait(status[managed[m].run], writes', managed[m].run)
  <2>1. managed[m].run \in Run
    BY <1>1, <1>2, <1>4 DEF EngineInv, TaskHasRun, GraphTask
  <2>2. ~managed[m].rejected /\ WillNotWait(status[managed[m].run], writes, managed[m].run)
    BY <1>1, <1>2, <1>4 DEF RejectInv, RejectionHolds, DangerDoesNotWait
  <2> QED  BY <1>1, <1>2, <1>3, <2>1, <2>2, StillWillNotWait
<1> QED  BY <1>1, <1>2, <1>3, <1>4, RejectObject

LEMMA RejectCommit ==
  ASSUME EngineInv, RejectInv, Commit
  PROVE  RejectInv'
<1>1. UNCHANGED <<registry, managed, phase>>
  BY CommitMoves
<1>2. OneObjectPerRun' /\ RecoveredIsRegistered' /\ RejectionHolds'
  BY <1>1 DEF RejectInv, OneObjectPerRun, RecoveredIsRegistered, RejectionHolds
<1>3. DangerDoesNotWait'
  <2> SUFFICES ASSUME NEW n \in Managed, managed[n].task \in GraphTask, managed[n].danger
               PROVE  WillNotWait(status'[managed[n].run], writes', managed[n].run)
    BY <1>1 DEF DangerDoesNotWait, WillNotWait, Lacks, StatusWrite
  <2>1. managed[n].run \in Run
    BY DEF EngineInv, TaskHasRun, GraphTask
  <2> QED  BY <2>1, CommitWillNotWait DEF RejectInv, DangerDoesNotWait
<1> QED  BY <1>2, <1>3 DEF RejectInv

LEMMA RejectShutdown == ASSUME EngineInv, RejectInv, Shutdown PROVE RejectInv'
<1>1. /\ \A m \in Managed :
           /\ managed'[m].run = managed[m].run /\ managed'[m].task = managed[m].task
           /\ managed'[m].rejected = managed[m].rejected
           /\ managed'[m].danger = managed[m].danger
      /\ UNCHANGED <<status, writes>> /\ phase' = "stopping"
  BY DEF Shutdown, EngineInv, TypeOK, ManagedRecord, durable
<1>2. OneObjectPerRun' /\ RecoveredIsRegistered' /\ RejectionHolds'
  BY <1>1 DEF RejectInv, OneObjectPerRun, RecoveredIsRegistered, RejectionHolds
<1>3. DangerDoesNotWait'
  <2> SUFFICES ASSUME NEW n \in Managed, managed'[n].task \in GraphTask, managed'[n].danger
               PROVE  WillNotWait(status'[managed'[n].run], writes', managed'[n].run)
    BY DEF DangerDoesNotWait, WillNotWait, Lacks, StatusWrite
  <2>1. WillNotWait(status[managed[n].run], writes, managed[n].run)
    BY <1>1 DEF RejectInv, DangerDoesNotWait
  <2> QED  BY <1>1, <2>1
<1> QED  BY <1>2, <1>3 DEF RejectInv

LEMMA RejectEmpty == Empty => RejectInv
  BY BlankRests
  DEF Empty, RejectInv, OneObjectPerRun, RecoveredIsRegistered, DangerDoesNotWait, RejectionHolds

LEMMA RejectNext ==
  ASSUME KeyedRun = {}, EngineInv, ConsentInv, RejectInv, [Next]_vars
  PROVE  RejectInv'
<1>1. ASSUME NEW r \in Run, NEW m \in Managed, CreateRun(r, m) \/ Rehydrate(r, m)
      PROVE  RejectInv'
  BY <1>1, RejectRegister
<1>2. ASSUME NEW r \in Run, NEW m \in Managed, ReplayCreate(r, m) PROVE RejectInv'
  BY <1>2 DEF ReplayCreate
<1>3. ASSUME NEW r \in Run, StreamReplay(r) PROVE RejectInv'
  <2>1. UNCHANGED <<managed, status, writes>> /\ phase' = "up"
    BY <1>3 DEF StreamReplay, Serving
  <2> QED  BY <2>1, RejectElsewhere
<1>4. ASSUME NEW r \in Run, Cancel(r) PROVE RejectInv'
  BY <1>4, RejectCancel
<1>5. ASSUME NEW r \in Run, Approve(r) \/ Reject(r) PROVE RejectInv'
  BY <1>5, RejectDecide
<1>6. ASSUME NEW m \in Managed, TaskStep(m) PROVE RejectInv'
  BY <1>6, RejectTask
<1>7. CASE Commit
  BY <1>7, RejectCommit
<1>8. ASSUME NEW r \in Run, RecoverCancelledRun(r) \/ RecoverFailedRun(r) PROVE RejectInv'
  <2>1. \A q \in Run : Lacks(writes', StatusWrite(q, "waiting_approval"))
    BY <1>8 DEF RecoverCancelledRun, RecoverFailedRun, Lacks, Event, StatusWrite
  <2>2. writes = <<>> /\ UNCHANGED <<managed, status, registry, phase>>
    BY <1>8 DEF RecoverCancelledRun, RecoverFailedRun, Recovering, durable, memory
  <2> QED  BY <2>1, <2>2, RejectElsewhere
<1>9. CASE EndRecovery
  <2>1. UNCHANGED <<managed, status, writes>> /\ phase' = "up"
    BY <1>9 DEF EndRecovery, durable, memory
  <2> QED  BY <2>1, RejectElsewhere
<1>10. CASE Shutdown
  BY <1>10, RejectShutdown
<1>11. CASE Crash
  <2>1. Empty'
    BY <1>11 DEF Crash, Empty
  <2> QED  BY <2>1, RejectEmpty, PTL
<1>12. ASSUME UNCHANGED <<managed, status, registry, writes, phase>> PROVE RejectInv'
  BY <1>12, RejectElsewhere
<1> QED
  BY <1>1, <1>2, <1>3, <1>4, <1>5, <1>6, <1>7, <1>8, <1>9, <1>10, <1>11, <1>12
     DEF Next, Request, Recovery, CloseThread, vars, durable, memory

\* Without idempotency keys a rejection holds: once an object was rejected its graph
\* never runs with confirm_dangerous, whatever approvals came before or after.
THEOREM RejectionIsFinal == KeyedRun = {} => (Spec => []RejectionHolds)
<1> SUFFICES ASSUME KeyedRun = {} PROVE Spec => []RejectionHolds
  OBVIOUS
<1>1. Init => ConsentInv /\ RejectInv
  BY ConsentEmpty, RejectEmpty DEF Init, Empty
<1>2. EngineInv /\ ConsentInv /\ RejectInv /\ [Next]_vars => ConsentInv' /\ RejectInv'
  BY ConsentNext, RejectNext
<1>3. RejectInv => RejectionHolds
  BY DEF RejectInv
<1> QED  BY <1>1, <1>2, <1>3, EngineInvariant, PTL DEF Spec

-----------------------------------------------------------------------------
(* A run that asked completes only after an answer.  The store is asked what *)
(* the flags of an object say: a task past its first pause has a verdict,    *)
(* and a rejection is stored with the side effects it blocked.  Without keys *)
(* no object lacks the payload from which these are read.                    *)

\* Event e of r is stored or queued.
Stored(r, e) == e \in log[r] \/ ~Lacks(writes, Event(r, e))

\* Run r is completed, or will be by a commit that is queued.
Completes(r) == status[r] = "completed" \/ ~Lacks(writes, StatusWrite(r, "completed"))

Answered(r) == "approved" \in log[r] \/ {"rejected", "side_effect_blocked"} \subseteq log[r]

AbsentDidNotAsk == \A r \in Run : status[r] = "absent" => ~Stored(r, "approval_required")

FirstDidNotAsk ==
    \A m \in Managed :
        managed[m].task \in First =>
            ~Stored(managed[m].run, "approval_required") /\ ~Completes(managed[m].run)

RejectionIsStored ==
    \A m \in Managed :
        managed[m].rejected /\ managed[m].run \in Run =>
            /\ Stored(managed[m].run, "rejected")
            /\ Stored(managed[m].run, "side_effect_blocked")

AskedIsAnswered ==
    \A r \in Run \ ConfirmedRun : Completes(r) /\ Stored(r, "approval_required") => Answered(r)

AnswerInv == AbsentDidNotAsk /\ FirstDidNotAsk /\ RejectionIsStored /\ AskedIsAnswered

\* The commits ws neither complete run r nor store that it asks.
Silent(ws, r) == Lacks(ws, StatusWrite(r, "completed")) /\ Lacks(ws, Event(r, "approval_required"))

\* With nothing queued, the queue tells what is stored.
LEMMA StoredIsLogged ==
  ASSUME writes = <<>>
  PROVE  /\ \A r, e : Stored(r, e) <=> e \in log[r]
         /\ \A r : Completes(r) <=> status[r] = "completed"
  BY NothingQueued DEF Stored, Completes

\* A task past its first pause, and free to step, has its answer in the store.
LEMMA VerdictIsStored ==
  ASSUME EngineInv, ConsentInv, AnswerInv, writes = <<>>, NEW m \in Managed,
         managed[m].task \in {"execute_resume", "continue_graph"},
         managed[m].run \notin ConfirmedRun
  PROVE  Answered(managed[m].run)
<1>1. managed[m].run \in Run
  BY DEF EngineInv, TaskHasRun
<1>2. managed[m].approved \/ managed[m].rejected
  BY DEF ConsentInv, Verdicts, VerdictOf
<1>3. CASE managed[m].approved
  BY <1>1, <1>3, NothingQueued DEF ConsentInv, ConsentIsStored, HasConsent, Answered
<1>4. CASE managed[m].rejected
  BY <1>1, <1>4, StoredIsLogged DEF AnswerInv, RejectionIsStored, Answered
<1> QED  BY <1>2, <1>3, <1>4

\* A step of one object that answers for what it queues.
LEMMA AnswerObject ==
  ASSUME EngineInv, AnswerInv, writes = <<>>, UNCHANGED <<status, log>>,
         NEW m \in Managed, NEW rec \in ManagedRecord, managed' = [managed EXCEPT ![m] = rec],
         rec = Blank \/ rec.run = managed[m].run,
         rec.task \in First =>
             managed[m].task \in First /\ Silent(writes', managed[m].run),
         rec.rejected =>
             \/ managed[m].rejected
             \/ /\ ~Lacks(writes', Event(managed[m].run, "rejected"))
                /\ ~Lacks(writes', Event(managed[m].run, "side_effect_blocked")),
         \A n \in Managed \ {m} : managed[n].run \in Run => Silent(writes', managed[n].run),
         \A r \in Run :
            \/ Silent(writes', r)
            \/ /\ status[r] # "absent"
               /\ \/ r \in ConfirmedRun \/ Answered(r)
                  \/ /\ status[r] # "completed" /\ "approval_required" \notin log[r]
                     /\ \/ Lacks(writes', StatusWrite(r, "completed"))
                        \/ Lacks(writes', Event(r, "approval_required"))
  PROVE  AnswerInv'
<1>1. /\ managed'[m] = rec
      /\ \A n \in Managed \ {m} : managed'[n] = managed[n]
  BY DEF EngineInv, TypeOK
<1>2. Blank.task \notin First /\ Blank.rejected = FALSE
  BY DEF Blank, First
<1>3. /\ \A r, e : Stored(r, e)' <=> e \in log[r] \/ ~Lacks(writes', Event(r, e))
      /\ \A r : Completes(r)' <=> status[r] = "completed" \/ ~Lacks(writes', StatusWrite(r, "completed"))
      /\ \A r : Answered(r)' <=> Answered(r)
  BY DEF Stored, Completes, Answered, Lacks, Event, StatusWrite
<1>4. AbsentDidNotAsk'
  BY <1>3, StoredIsLogged DEF AnswerInv, AbsentDidNotAsk, Silent
<1>5. FirstDidNotAsk'
  <2> SUFFICES ASSUME NEW n \in Managed, managed'[n].task \in First
               PROVE  /\ ~("approval_required" \in log[managed'[n].run]
                            \/ ~Lacks(writes', Event(managed'[n].run, "approval_required")))
                      /\ ~(status[managed'[n].run] = "completed"
                            \/ ~Lacks(writes', StatusWrite(managed'[n].run, "completed")))
    BY DEF FirstDidNotAsk, Stored, Completes, Lacks, Event, StatusWrite
  <2>1. managed'[n].run = managed[n].run /\ managed[n].task \in First
    BY <1>1, <1>2
  <2>2. managed[n].run \in Run
    BY <2>1 DEF EngineInv, TaskHasRun, First
  <2>3. Silent(writes', managed[n].run)
    BY <1>1, <2>2
  <2>4. "approval_required" \notin log[managed[n].run] /\ status[managed[n].run] # "completed"
    BY <2>1, StoredIsLogged DEF AnswerInv, FirstDidNotAsk
  <2> QED  BY <2>1, <2>3, <2>4 DEF Silent
<1>6. RejectionIsStored'
  <2> SUFFICES ASSUME NEW n \in Managed, managed'[n].rejected, managed'[n].run \in Run,
                      NEW e \in {"rejected", "side_effect_blocked"}
               PROVE  e \in log[managed'[n].run] \/ ~Lacks(writes', Event(managed'[n].run, e))
    BY DEF RejectionIsStored, Stored, Lacks, Event
  <2>1. managed'[n].run = managed[n].run
    BY <1>1, <1>2
  <2>2. managed[n].rejected => e \in log[managed[n].run]
    BY <2>1, StoredIsLogged DEF AnswerInv, RejectionIsStored
  <2> QED  BY <1>1, <2>1, <2>2
<1>7. AskedIsAnswered'
  <2> SUFFICES ASSUME NEW r \in Run \ ConfirmedRun,
                      status[r] = "completed" \/ ~Lacks(writes', StatusWrite(r, "completed")),
                      \/ "approval_required" \in log[r]
                      \/ ~Lacks(writes', Event(r, "approval_required"))
               PROVE  Answered(r)
    BY <1>3 DEF AskedIsAnswered
  <2>1. status[r] = "completed" /\ "approval_required" \in log[r] => Answered(r)
    BY StoredIsLogged DEF AnswerInv, AskedIsAnswered
  <2> QED  BY <2>1 DEF Silent
<1> QED  BY <1>4, <1>5, <1>6, <1>7 DEF AnswerInv

\* A step of a task: it completes a run that asked only when it has the answer.
LEMMA AnswerTask ==
  ASSUME EngineInv, ConsentInv, RejectInv, AnswerInv, NEW m \in Managed, TaskStep(m)
  PROVE  AnswerInv'
<1> DEFINE r == managed[m].run
<1>1. /\ r \in Run /\ writes = <<>> /\ UNCHANGED <<status, log>>
      /\ \A w \in Write : w.run # r => Lacks(writes', w)
      /\ managed[m].task \notin GraphTask => Silent(writes', r)
      /\ \/ Lacks(writes', StatusWrite(r, "completed"))
         \/ Lacks(writes', Event(r, "approval_required"))
  BY TaskQueue DEF Silent
<1>2. PICK rec \in ManagedRecord :
        /\ managed' = [managed EXCEPT ![m] = rec]
        /\ GoesTo(managed[m], rec, status[r], writes')
  BY TaskObject DEF ConsentInv, Verdicts
<1>3. /\ rec = Blank \/ rec.run = r
      /\ rec.task \in First => managed[m].task \in First /\ Silent(writes', r)
      /\ rec.rejected => managed[m].rejected
  BY <1>2 DEF GoesTo, Blank, Silent
<1>4. \A q \in Run \ {r} : Silent(writes', q)
  <2> TAKE q \in Run \ {r}
  <2>1. /\ StatusWrite(q, "completed") \in Write /\ StatusWrite(q, "completed").run = q
        /\ Event(q, "approval_required") \in Write /\ Event(q, "approval_required").run = q
    BY StatusIsWrite, EventIsWrite DEF StatusWrite, Event, RunStatuses, TerminalRunStatuses, EventKind
  <2> QED  BY <1>1, <2>1 DEF Silent
<1>5. \A n \in Managed \ {m} : managed[n].run \in Run => Silent(writes', managed[n].run)
  BY <1>1, <1>4 DEF RejectInv, OneObjectPerRun
<1>6. status[r] # "absent"
  BY <1>1 DEF ConsentInv, KnownRuns
<1>7. \/ Silent(writes', r)
      \/ r \in ConfirmedRun \/ Answered(r)
      \/ status[r] # "completed" /\ "approval_required" \notin log[r]
  <2>1. CASE managed[m].task \in First
    BY <1>1, <2>1, StoredIsLogged DEF AnswerInv, FirstDidNotAsk
  <2>2. CASE managed[m].task \in {"execute_resume", "continue_graph"}
    BY <1>1, <2>2, VerdictIsStored
  <2>3. CASE managed[m].task \notin GraphTask
    BY <1>1, <2>3
  <2> QED  BY <2>1, <2>2, <2>3 DEF GraphTask, First
<1> QED  BY <1>1, <1>2, <1>3, <1>4, <1>5, <1>6, <1>7, AnswerObject

\* A step of the loop that changes no object's task, flags or run, and is silent.
LEMMA AnswerElsewhere ==
  ASSUME EngineInv, AnswerInv, UNCHANGED <<status, log>>,
         writes' = writes \/ (writes = <<>> /\ \A r \in Run : Silent(writes', r)),
         \A m \in Managed : /\ managed'[m].run = managed[m].run
                            /\ managed'[m].task = managed[m].task
                            /\ managed'[m].rejected = managed[m].rejected
  PROVE  AnswerInv'
<1>1. /\ \A r, e : Stored(r, e)' <=> e \in log[r] \/ ~Lacks(writes', Event(r, e))
      /\ \A r : Completes(r)' <=> status[r] = "completed" \/ ~Lacks(writes', StatusWrite(r, "completed"))
      /\ \A r : Answered(r)' <=> Answered(r)
  BY DEF Stored, Completes, Answered, Lacks, Event, StatusWrite
<1>2. /\ \A r \in Run : Stored(r, "approval_required")' => Stored(r, "approval_required")
      /\ \A r \in Run : Completes(r)' => Completes(r)
      /\ \A r \in Run, e \in EventKind : Stored(r, e) => Stored(r, e)'
  <2>1. CASE writes' = writes
    BY <1>1, <2>1 DEF Stored, Completes, Lacks
  <2>2. CASE writes = <<>> /\ \A r \in Run : Silent(writes', r)
    BY <1>1, <2>2, StoredIsLogged DEF Silent
  <2> QED  BY <2>1, <2>2
<1>3. AbsentDidNotAsk' /\ AskedIsAnswered'
  <2>1. AbsentDidNotAsk'
    BY <1>2 DEF AnswerInv, AbsentDidNotAsk
  <2>2. AskedIsAnswered'
    BY <1>1, <1>2 DEF AnswerInv, AskedIsAnswered
  <2> QED  BY <2>1, <2>2
<1>4. FirstDidNotAsk'
  <2> SUFFICES ASSUME NEW n \in Managed, managed[n].task \in First
               PROVE  /\ ~("approval_required" \in log[managed[n].run]
                            \/ ~Lacks(writes', Event(managed[n].run, "approval_required")))
                      /\ ~(status[managed[n].run] = "completed"
                            \/ ~Lacks(writes', StatusWrite(managed[n].run, "completed")))
    BY DEF FirstDidNotAsk, Stored, Completes, Lacks, Event, StatusWrite
  <2>1. managed[n].run \in Run
    BY DEF EngineInv, TaskHasRun, First
  <2>2. ~Stored(managed[n].run, "approval_required") /\ ~Completes(managed[n].run)
    BY DEF AnswerInv, FirstDidNotAsk
  <2> QED  BY <1>1, <1>2, <2>1, <2>2
<1>5. RejectionIsStored'
  <2> SUFFICES ASSUME NEW n \in Managed, managed[n].rejected, managed[n].run \in Run,
                      NEW e \in {"rejected", "side_effect_blocked"}
               PROVE  e \in log[managed[n].run] \/ ~Lacks(writes', Event(managed[n].run, e))
    BY DEF RejectionIsStored, Stored, Lacks, Event
  <2>1. Stored(managed[n].run, e) /\ e \in EventKind
    BY DEF AnswerInv, RejectionIsStored, EventKind
  <2> QED  BY <1>1, <1>2, <2>1
<1> QED  BY <1>3, <1>4, <1>5 DEF AnswerInv

LEMMA AnswerRegister ==
  ASSUME EngineInv, ConsentInv, RejectInv, AnswerInv, NEW r \in Run, NEW m \in Managed,
         CreateRun(r, m) \/ Rehydrate(r, m)
  PROVE  AnswerInv'
<1> DEFINE rec == managed'[m]
<1>1. /\ managed \in [Managed -> ManagedRecord]
      /\ status \in [Run -> RunStatuses \cup {"absent"}]
  BY DEF EngineInv, TypeOK
<1>2. /\ writes = <<>> /\ log' = log
      /\ \A n \in Managed \ {m} : managed'[n] = managed[n]
      /\ writes' = <<Event(r, "run_created")>> \/ writes' = <<Event(r, "recovered_at")>>
  BY <1>1 DEF CreateRun, Rehydrate, Serving, Recovering, durable
<1>3. /\ rec.run = r /\ rec.rejected = FALSE
      /\ rec.task \in First => status[r] = "absent"
  <2>1. CASE CreateRun(r, m)
    BY <1>1, <2>1 DEF CreateRun, Blank
  <2>2. CASE Rehydrate(r, m)
    BY <1>1, <2>2 DEF Rehydrate, Blank, First
  <2> QED  BY <2>1, <2>2
<1>4. \A q \in Run : status'[q] = status[q] \/ (status[q] = "absent" /\ status'[q] = "queued")
  BY <1>1 DEF CreateRun, Rehydrate, durable
<1>5. \A q : Silent(writes', q)
  BY <1>2, LacksFew, Differ DEF Silent
<1>6. /\ \A q : Stored(q, "approval_required")' <=> "approval_required" \in log[q]
      /\ \A q : Completes(q)' <=> status'[q] = "completed"
      /\ \A q, e : e \in log[q] => Stored(q, e)'
      /\ \A q : Answered(q)' <=> Answered(q)
  BY <1>2, <1>5 DEF Silent, Stored, Completes, Answered, Lacks, Event, StatusWrite
<1> HIDE DEF rec
<1>7. AbsentDidNotAsk'
  BY <1>4, <1>6, StoredIsLogged, <1>2 DEF AnswerInv, AbsentDidNotAsk
<1>8. FirstDidNotAsk'
  <2> SUFFICES ASSUME NEW n \in Managed, managed'[n].task \in First
               PROVE  /\ ~("approval_required" \in log[managed'[n].run]
                            \/ ~Lacks(writes', Event(managed'[n].run, "approval_required")))
                      /\ ~(status'[managed'[n].run] = "completed"
                            \/ ~Lacks(writes', StatusWrite(managed'[n].run, "completed")))
    BY <1>2 DEF FirstDidNotAsk, Stored, Completes, Lacks, Event, StatusWrite
  <2>1. CASE n = m
    <3>1. managed'[n].run = r /\ status[r] = "absent"
      BY <1>3, <2>1 DEF rec
    <3>2. "approval_required" \notin log[r]
      BY <1>2, <3>1, StoredIsLogged DEF AnswerInv, AbsentDidNotAsk
    <3>3. status'[r] # "completed"
      BY <1>4, <3>1
    <3> QED  BY <1>5, <3>1, <3>2, <3>3 DEF Silent
  <2>2. CASE n # m
    <3>1. managed'[n] = managed[n] /\ managed[n].task \in First
      BY <1>2, <2>2
    <3>2. managed[n].run \in Run
      BY <3>1 DEF EngineInv, TaskHasRun, First
    <3>3. "approval_required" \notin log[managed[n].run] /\ status[managed[n].run] # "completed"
      BY <1>2, <3>1, StoredIsLogged DEF AnswerInv, FirstDidNotAsk
    <3>4. status'[managed[n].run] # "completed"
      BY <1>4, <3>2, <3>3
    <3> QED  BY <1>5, <3>1, <3>3, <3>4 DEF Silent
  <2> QED  BY <2>1, <2>2
<1>9. RejectionIsStored'
  <2> SUFFICES ASSUME NEW n \in Managed, managed'[n].rejected, managed'[n].run \in Run,
                      NEW e \in {"rejected", "side_effect_blocked"}
               PROVE  e \in log[managed'[n].run]
    BY <1>2 DEF RejectionIsStored, Stored, Lacks, Event
  <2>1. managed'[n] = managed[n]
    BY <1>2, <1>3 DEF rec
  <2> QED  BY <1>2, <2>1, StoredIsLogged DEF AnswerInv, RejectionIsStored
<1>10. AskedIsAnswered'
  <2> SUFFICES ASSUME NEW q \in Run \ ConfirmedRun, status'[q] = "completed",
                      "approval_required" \in log[q]
               PROVE  Answered(q)
    BY <1>6 DEF AskedIsAnswered
  <2>1. status[q] = "completed"
    BY <1>4
  <2> QED  BY <1>2, <2>1, StoredIsLogged DEF AnswerInv, AskedIsAnswered
<1> QED  BY <1>7, <1>8, <1>9, <1>10 DEF AnswerInv

\* A verdict: a rejection queues what it stores of itself with its flag.
LEMMA AnswerDecide ==
  ASSUME EngineInv, AnswerInv, NoneReused, NEW r \in Run, Approve(r) \/ Reject(r)
  PROVE  AnswerInv'
<1> DEFINE m == registry[r]
           Answers(b, ws) ==
             /\ Decide(r, b, ws)
             /\ b => ws = <<Event(r, "approved")>>
             /\ ~b => ws = <<Event(r, "rejected"), Event(r, "side_effect_blocked")>>
<1>0. PICK b \in BOOLEAN : \E ws : Answers(b, ws)
  <2>1. m \in Managed
    BY DEF Approve, Reject, Decide, EngineInv, TypeOK
  <2>2. managed[m].reused = FALSE
    BY <2>1 DEF NoneReused
  <2> QED  BY <2>2 DEF Approve, Reject
<1>1. PICK ws : Answers(b, ws)
  BY <1>0
<1>2. m \in Managed /\ managed[m].run = r /\ writes = <<>>
  BY <1>1, DecideShape
<1>3. PICK rec \in ManagedRecord :
        /\ managed' = [managed EXCEPT ![m] = rec]
        /\ rec.rejected = (managed[m].rejected \/ ~b)
        /\ \/ rec.task = managed[m].task
           \/ rec.task = "continue_new"
        /\ rec.run = r
  BY <1>1, DecideShape
<1>4. UNCHANGED <<status, log>> /\ writes' = ws
  BY <1>1 DEF Decide
<1>5. \A q : Silent(writes', q)
  BY <1>1, <1>4, LacksFew, Differ DEF Silent
<1>6. rec.task \in First => managed[m].task \in First
  BY <1>3 DEF First
<1>7. ~b => /\ ~Lacks(writes', Event(r, "rejected"))
            /\ ~Lacks(writes', Event(r, "side_effect_blocked"))
  <2> SUFFICES ASSUME ~b
               PROVE  /\ ~Lacks(writes', Event(r, "rejected"))
                      /\ ~Lacks(writes', Event(r, "side_effect_blocked"))
    OBVIOUS
  <2>1. writes' = <<Event(r, "rejected"), Event(r, "side_effect_blocked")>>
    BY <1>1, <1>4
  <2>2. /\ 1 \in 1..Len(writes') /\ writes'[1] = Event(r, "rejected")
        /\ 2 \in 1..Len(writes') /\ writes'[2] = Event(r, "side_effect_blocked")
    BY <2>1
  <2> QED  BY <2>2 DEF Lacks
<1> QED  BY <1>2, <1>3, <1>4, <1>5, <1>6, <1>7, AnswerObject

LEMMA AnswerCancel ==
  ASSUME EngineInv, AnswerInv, NEW r \in Run, Cancel(r)
  PROVE  AnswerInv'
<1> DEFINE m == registry[r]
           move == Update(r, "cancelling")
           told == <<Event(r, "cancel_requested")>>
<1>1. /\ managed \in [Managed -> ManagedRecord]
      /\ writes = <<>> /\ UNCHANGED <<status, log>> /\ writes' = move \o told
      /\ managed' = [managed EXCEPT ![m].signalled = TRUE, ![m].killed = Live(m)]
  BY DEF Cancel, Serving, EngineInv, TypeOK
<1>2. \A n \in Managed : /\ managed'[n].run = managed[n].run
                         /\ managed'[n].task = managed[n].task
                         /\ managed'[n].rejected = managed[n].rejected
  BY <1>1 DEF ManagedRecord
<1>3. \A q \in Run : Silent(writes', q)
  <2> TAKE q \in Run
  <2> SUFFICES ASSUME NEW w \in {StatusWrite(q, "completed"), Event(q, "approval_required")}
               PROVE  Lacks(writes', w)
    BY DEF Silent
  <2>1. Lacks(told, w) /\ told \in Seq(Write)
    BY LacksFew, Differ, OneEvent DEF EventKind
  <2>2. Lacks(move, w) /\ move \in Seq(Write)
    BY LacksUpdate, Differ, UpdateIsWrites DEF RunStatuses, NonTerminalRunStatuses
  <2> HIDE DEF move, told
  <2> QED  BY <1>1, <2>1, <2>2, LacksConcat
<1> QED  BY <1>1, <1>2, <1>3, AnswerElsewhere

\* What a commit stores was queued.
LEMMA CommitStores ==
  ASSUME EngineInv, Commit, NEW r \in Run
  PROVE  /\ \A e : Stored(r, e)' <=> Stored(r, e)
         /\ Completes(r)' => Completes(r)
         /\ status'[r] = "absent" => status[r] = "absent"
<1> DEFINE w == Head(writes)
           n == Len(writes)
<1>1. /\ writes \in Seq(Write) /\ writes # <<>> /\ w \in Write /\ w = writes[1]
      /\ n \in Nat /\ n > 0
      /\ log \in [Run -> SUBSET EventKind]
  BY DEF Commit, EngineInv, TypeOK
<1>2. ASSUME NEW e PROVE Stored(r, e)' <=> Stored(r, e)
  <2>1. Stored(r, e)' <=> e \in log'[r] \/ ~Lacks(writes', Event(r, e))
    BY DEF Stored, Lacks, Event
  <2>2. Stored(r, e) => e \in log'[r] \/ ~Lacks(writes', Event(r, e))
    BY CommitMoves DEF Stored
  <2>3. ~Lacks(writes', Event(r, e)) => ~Lacks(writes, Event(r, e))
    BY CommitMoves
  <2>4. ASSUME e \in log'[r], e \notin log[r] PROVE ~Lacks(writes, Event(r, e))
    <3>1. /\ w.kind = "event" /\ log' = [log EXCEPT ![w.run] = @ \cup {w.value}]
      BY <2>4 DEF Commit
    <3>2. w.run = r /\ w.value = e
      BY <1>1, <2>4, <3>1
    <3>3. w = Event(r, e)
      BY <1>1, <3>1, <3>2 DEF Write, Event
    <3> QED  BY <1>1, <3>3 DEF Lacks
  <2> QED  BY <2>1, <2>2, <2>3, <2>4 DEF Stored
<1>3. Completes(r)' => Completes(r)
  <2>1. Completes(r)' => status'[r] = "completed" \/ ~Lacks(writes', StatusWrite(r, "completed"))
    BY DEF Completes, Lacks, StatusWrite
  <2>2. status'[r] = "completed" => status[r] = "completed" \/ ~Lacks(writes, StatusWrite(r, "completed"))
    BY CommitMoves
  <2>3. ~Lacks(writes', StatusWrite(r, "completed")) => ~Lacks(writes, StatusWrite(r, "completed"))
    BY CommitMoves
  <2> QED  BY <2>1, <2>2, <2>3 DEF Completes
<1>4. status'[r] = "absent" => status[r] = "absent"
  <2>1. "absent" \notin RunStatuses
    BY DEF RunStatuses, TerminalRunStatuses, NonTerminalRunStatuses
  <2> QED  BY <2>1, CommitMoves
<1> QED  BY <1>2, <1>3, <1>4

LEMMA AnswerCommit ==
  ASSUME EngineInv, AnswerInv, Commit
  PROVE  AnswerInv'
<1>1. managed' = managed /\ \A r \in Run : log[r] \subseteq log'[r]
  BY CommitMoves
<1>2. AbsentDidNotAsk'
  BY CommitStores DEF AnswerInv, AbsentDidNotAsk
<1>3. AskedIsAnswered'
  <2> SUFFICES ASSUME NEW r \in Run \ ConfirmedRun, Completes(r)', Stored(r, "approval_required")'
               PROVE  Answered(r)'
    BY DEF AskedIsAnswered
  <2>1. Answered(r)
    BY CommitStores DEF AnswerInv, AskedIsAnswered
  <2>2. log[r] \subseteq log'[r]
    BY <1>1
  <2> QED  BY <2>1, <2>2 DEF Answered
<1>4. FirstDidNotAsk'
  <2> SUFFICES ASSUME NEW n \in Managed, managed[n].task \in First
               PROVE  /\ ~("approval_required" \in log'[managed[n].run]
                            \/ ~Lacks(writes', Event(managed[n].run, "approval_required")))
                      /\ ~(status'[managed[n].run] = "completed"
                            \/ ~Lacks(writes', StatusWrite(managed[n].run, "completed")))
    BY <1>1 DEF FirstDidNotAsk, Stored, Completes, Lacks, Event, StatusWrite
  <2>1. PICK r \in Run : r = managed[n].run
    BY DEF EngineInv, TaskHasRun, First
  <2>2. ~Stored(r, "approval_required") /\ ~Completes(r)
    BY <2>1 DEF AnswerInv, FirstDidNotAsk
  <2>3. ~Stored(r, "approval_required")' /\ ~Completes(r)'
    BY <2>2, CommitStores
  <2>4. /\ "approval_required" \notin log'[r] /\ Lacks(writes', Event(r, "approval_required"))
        /\ status'[r] # "completed" /\ Lacks(writes', StatusWrite(r, "completed"))
    BY <2>3 DEF Stored, Completes, Lacks, Event, StatusWrite
  <2> QED  BY <2>1, <2>4
<1>5. RejectionIsStored'
  <2> SUFFICES ASSUME NEW n \in Managed, managed[n].rejected, managed[n].run \in Run,
                      NEW e \in {"rejected", "side_effect_blocked"}
               PROVE  e \in log'[managed[n].run] \/ ~Lacks(writes', Event(managed[n].run, e))
    BY <1>1 DEF RejectionIsStored, Stored, Lacks, Event
  <2>1. e \in log[managed[n].run] \/ ~Lacks(writes, Event(managed[n].run, e))
    BY DEF AnswerInv, RejectionIsStored, Stored
  <2> QED  BY <2>1, CommitMoves
<1> QED  BY <1>2, <1>3, <1>4, <1>5 DEF AnswerInv

LEMMA AnswerCrash == ASSUME EngineInv, AnswerInv, Crash PROVE AnswerInv'
<1>1. /\ managed' = [m \in Managed |-> Blank] /\ writes' = <<>> /\ UNCHANGED <<status, log>>
      /\ Blank.task \notin First /\ Blank.rejected = FALSE
  BY DEF Crash, durable, Blank, First
<1>2. \A w : Lacks(writes', w)
  BY <1>1 DEF Lacks
<1>3. /\ \A r, e : Stored(r, e)' => Stored(r, e)
      /\ \A r : Completes(r)' => Completes(r)
      /\ \A r : Answered(r)' <=> Answered(r)
  BY <1>1, <1>2 DEF Stored, Completes, Answered, Lacks, Event, StatusWrite
<1>4. FirstDidNotAsk' /\ RejectionIsStored'
  BY <1>1 DEF FirstDidNotAsk, RejectionIsStored
<1>5. AbsentDidNotAsk' /\ AskedIsAnswered'
  BY <1>1, <1>3 DEF AnswerInv, AbsentDidNotAsk, AskedIsAnswered
<1> QED  BY <1>4, <1>5 DEF AnswerInv

LEMMA AnswerNext ==
  ASSUME KeyedRun = {}, EngineInv, NoneReused, ConsentInv, RejectInv, AnswerInv, [Next]_vars
  PROVE  AnswerInv'
<1> DEFINE Same == \A m \in Managed : /\ managed'[m].run = managed[m].run
                                      /\ managed'[m].task = managed[m].task
                                      /\ managed'[m].rejected = managed[m].rejected
<1>1. ASSUME NEW r \in Run, NEW m \in Managed, CreateRun(r, m) \/ Rehydrate(r, m)
      PROVE  AnswerInv'
  BY <1>1, AnswerRegister
<1>2. ASSUME NEW r \in Run, NEW m \in Managed, ReplayCreate(r, m) PROVE AnswerInv'
  BY <1>2 DEF ReplayCreate
<1>3. ASSUME NEW r \in Run, Cancel(r) PROVE AnswerInv'
  BY <1>3, AnswerCancel
<1>4. ASSUME NEW r \in Run, Approve(r) \/ Reject(r) PROVE AnswerInv'
  BY <1>4, AnswerDecide
<1>5. ASSUME NEW m \in Managed, TaskStep(m) PROVE AnswerInv'
  BY <1>5, AnswerTask
<1>6. CASE Commit
  BY <1>6, AnswerCommit
<1>7. ASSUME NEW r \in Run, RecoverCancelledRun(r) \/ RecoverFailedRun(r) PROVE AnswerInv'
  <2>1. \A q \in Run : Silent(writes', q)
    <3>1. \A q \in Run : Lacks(writes', StatusWrite(q, "completed"))
      BY <1>7 DEF RecoverCancelledRun, RecoverFailedRun, Lacks, Event, StatusWrite
    <3>2. \A q \in Run : Lacks(writes', Event(q, "approval_required"))
      BY <1>7 DEF RecoverCancelledRun, RecoverFailedRun, Lacks, Event, StatusWrite
    <3> QED  BY <3>1, <3>2 DEF Silent
  <2>2. writes = <<>> /\ UNCHANGED <<managed, status, log>>
    BY <1>7 DEF RecoverCancelledRun, RecoverFailedRun, Recovering, durable, memory
  <2> QED  BY <2>1, <2>2, AnswerElsewhere
<1>8. CASE Shutdown
  <2>1. Same /\ UNCHANGED <<status, log, writes>>
    BY <1>8 DEF Shutdown, EngineInv, TypeOK, ManagedRecord, durable
  <2> QED  BY <2>1, AnswerElsewhere
<1>9. CASE Crash
  BY <1>9, AnswerCrash
<1>10. ASSUME UNCHANGED <<managed, status, log, writes>> PROVE AnswerInv'
  BY <1>10, AnswerElsewhere
<1>11. ASSUME NEW r \in Run, StreamReplay(r) PROVE UNCHANGED <<managed, status, log, writes>>
  BY <1>11 DEF StreamReplay
<1>12. CASE EndRecovery
  BY <1>10, <1>12 DEF EndRecovery, durable, memory
<1>13. ASSUME NEW t \in Thread, CloseThread(t) PROVE AnswerInv'
  BY <1>10, <1>13 DEF CloseThread, memory
<1> QED
  BY <1>1, <1>2, <1>3, <1>4, <1>5, <1>6, <1>7, <1>8, <1>9, <1>10, <1>11, <1>12, <1>13
     DEF Next, Request, Recovery, vars

\* Without idempotency keys a run that asked for an approval completes only after an
\* answer is stored, a rejection with the side effects it blocked.
THEOREM CompletionIsAnswered == KeyedRun = {} => (Spec => []CompletedAfterAnswer)
<1> SUFFICES ASSUME KeyedRun = {} PROVE Spec => []CompletedAfterAnswer
  OBVIOUS
<1>1. Init => NoneReused /\ ConsentInv /\ RejectInv /\ AnswerInv
  <2> SUFFICES ASSUME Init PROVE NoneReused /\ ConsentInv /\ RejectInv /\ AnswerInv
    OBVIOUS
  <2>1. NoneReused /\ ConsentInv /\ RejectInv
    BY ConsentEmpty, RejectEmpty DEF Init, Empty, NoneReused, Blank
  <2>2. \A r \in Run : \A e : ~Stored(r, e) /\ ~Completes(r)
    BY StoredIsLogged DEF Init
  <2>3. AnswerInv
    BY <2>2 DEF Init, AnswerInv, AbsentDidNotAsk, FirstDidNotAsk, RejectionIsStored,
                AskedIsAnswered, Blank, First
  <2> QED  BY <2>1, <2>3
<1>2. EngineInv /\ NoneReused /\ ConsentInv /\ RejectInv /\ AnswerInv /\ [Next]_vars
        => NoneReused' /\ ConsentInv' /\ RejectInv' /\ AnswerInv'
  BY NoneReusedNext, ConsentNext, RejectNext, AnswerNext
<1>3. AnswerInv => CompletedAfterAnswer
  BY DEF AnswerInv, AskedIsAnswered, CompletedAfterAnswer, Completes, Stored, Answered
<1> QED  BY <1>1, <1>2, <1>3, EngineInvariant, PTL DEF Spec

=============================================================================
