---------------------------- MODULE ThreadLifecycle ----------------------------
(***************************************************************************)
(* A conversation thread from its creation to its archive, and the graph   *)
(* checkpoint it leaves: runtime/thread_lifecycle.py, thread_checkpoint.py, *)
(* checkpoint_store.py, memory/checkpoint_compactor.py and the thread half *)
(* of runtime/event_store.py.                                              *)
(*                                                                         *)
(* Granularity.  A call of the event store is one transaction under its    *)
(* lock, a purge is one transaction of the checkpoint database, and a      *)
(* compaction is a read and a write with awaits around them.  The cleaner  *)
(* and the chat handler are coroutines: between two awaits they keep the   *)
(* loop (LoopIsFree).  The archive and end handlers run in the thread pool *)
(* and the checkpointer has a thread of its own, so they act at any time.  *)
(*                                                                         *)
(* A run is reduced to what matters to its thread: it puts one turn into   *)
(* the checkpoint, may wait for an approval, and ends.  A checkpoint is the *)
(* set of turns in its messages.                                           *)
(***************************************************************************)
EXTENDS Integers, Sequences, FiniteSets, SequencesExt

CONSTANTS
    Thread,         \* thread ids
    NoThread,       \* no thread
    Cleaner,        \* the task of ThreadLifecycleCleaner
    Handler,        \* archive requests in the thread pool
    IdleTtl,        \* thread_active_idle_ttl_seconds
    ArchiveTtl,     \* thread_ended_archive_ttl_seconds
    BatchSize,      \* batch_size
    KeepTurns,      \* checkpoint_compact_keep_recent_turns
    Threshold,      \* checkpoint_compact_message_threshold, in turns
    MaxTime,        \* bound of the model: the last tick of the clock
    Closing,        \* bound of the model: threads that clients end and archive
    MaxTurns,       \* bound of the model: runs of each thread; then no client asks
    MaxRestarts     \* bound of the model: crashes

ASSUME LifecycleAssumption ==
    /\ IsFiniteSet(Thread)
    /\ NoThread \notin Thread
    /\ Cleaner \notin Handler \cup Thread
    /\ Handler \cap Thread = {}
    /\ {IdleTtl, ArchiveTtl, Threshold, MaxTime, MaxRestarts} \subseteq Nat
    /\ Closing \subseteq Thread
    /\ MaxTurns \in [Thread -> Nat]
    /\ {BatchSize, KeepTurns} \subseteq Nat \ {0}

VARIABLES
    thread,     \* the table threads
    now,        \* the clock
    run,        \* the latest run of each thread
    checkpoint, \* the checkpoint of each thread
    chat,       \* the thread of the chat request between its two commits
    cleaner,    \* where the cleaner is, and the idle threads it has to compact
    compaction, \* compact_if_needed, called by the cleaner or for a thread's run
    purger,     \* purge_thread_checkpoint, called by the cleaner or a handler
    restarts,
    excused     \* history: threads kept from a purge by a crash or by the failure
                \* of one, or written later

vars == <<thread, now, run, checkpoint, chat, cleaner, compaction, purger,
          restarts, excused>>

-----------------------------------------------------------------------------
Never == MaxTime + 1    \* NULL in a column of times

ThreadStatus == {"absent", "active", "ended", "archived"}

\* Nothing reads archived_at.
Row == [status : ThreadStatus, last : 0..MaxTime,
        ended : 0..Never]

\* turn: how many runs there were.  graph: the turns in the memory of the graph.
RunOf == [state : {"none", "working", "waiting", "over"}, turn : Nat,
          graph : SUBSET Nat]

\* rows: the thread has rows.  next: state.next is not empty, since the last
\* run is not over.  summary: there is a message of an earlier compaction.
Checkpoint == [rows : BOOLEAN, turns : SUBSET Nat, next : BOOLEAN,
               summary : BOOLEAN]

NoCheckpoint == [rows |-> FALSE, turns |-> {}, next |-> FALSE, summary |-> FALSE]

Compactor == {Cleaner} \cup Thread
Purger == {Cleaner} \cup Handler

\* prefix: the turns whose messages the update will remove.
Compaction == [at : {"none", "reading", "writing"}, of : Thread \cup {NoThread},
               prefix : SUBSET Nat]

NoCompaction == [at |-> "none", of |-> NoThread, prefix |-> {}]

TypeOK ==
    /\ thread \in [Thread -> Row]
    /\ now \in 0..MaxTime
    /\ run \in [Thread -> RunOf]
    /\ checkpoint \in [Thread -> Checkpoint]
    /\ chat \in Thread \cup {NoThread}
    /\ cleaner \in [at : {"asleep", "compacting", "ending", "archiving", "purging"},
                   idle : Seq(Thread)]
    /\ compaction \in [Compactor -> Compaction]
    /\ purger \in [Purger -> Seq(Thread)]
    /\ restarts \in 0..MaxRestarts
    /\ excused \subseteq Thread

-----------------------------------------------------------------------------
(* The clock, and the requests of clients *)

LoopIsFree == chat = NoThread /\ cleaner.at \in {"asleep", "compacting"}

Tick ==
    /\ now < MaxTime
    /\ now' = now + 1
    /\ UNCHANGED <<thread, run, checkpoint, chat, cleaner, compaction, purger,
                   restarts, excused>>

\* The upsert of ensure_thread: only an active thread is touched.
Touched(row) ==
    CASE row.status = "absent" -> [status |-> "active", last |-> now, ended |-> Never]
      [] row.status = "active" -> [row EXCEPT !.last = now]
      [] OTHER -> row

\* POST /v1/threads: ensure_thread with a new id, in the thread pool.
CreateThread(t) ==
    /\ thread[t].status = "absent"
    /\ thread' = [thread EXCEPT ![t] = Touched(@)]
    /\ UNCHANGED <<now, run, checkpoint, chat, cleaner, compaction, purger,
                   restarts, excused>>

\* chat: the thread is not closed; ensure_thread and touch_thread.
Chat(t) ==
    /\ LoopIsFree
    /\ thread[t].status \in {"absent", "active"}
    /\ run[t].turn < MaxTurns[t]
    /\ thread' = [thread EXCEPT ![t] = Touched(@)]
    /\ chat' = t
    /\ UNCHANGED <<now, run, checkpoint, cleaner, compaction, purger, restarts, excused>>

\* create_run: the thread is active and has no run that is not over.  The graph
\* starts from the messages of the checkpoint.
CreateRun ==
    /\ chat # NoThread
    /\ LET t == chat IN
       /\ thread[t].status = "active"
       /\ run[t].state \in {"none", "over"}
       /\ thread' = [thread EXCEPT ![t] = [@ EXCEPT !.last = now]]
       /\ run' = [run EXCEPT ![t] =
             [state |-> "working", turn |-> @.turn + 1,
              graph |-> checkpoint[t].turns \cup {@.turn + 1}]]
    /\ chat' = NoThread
    /\ UNCHANGED <<now, checkpoint, cleaner, compaction, purger, restarts, excused>>

\* ThreadNotActiveError, ActiveRunExistsError.
RefuseRun ==
    /\ chat # NoThread
    /\ \/ thread[chat].status # "active"
       \/ run[chat].state \notin {"none", "over"}
    /\ chat' = NoThread
    /\ UNCHANGED <<thread, now, run, checkpoint, cleaner, compaction, purger,
                   restarts, excused>>

EndThread_Archived(t) ==
    /\ thread[t].status \in {"active", "archived"}
    /\ thread' = [thread EXCEPT ![t] = [@ EXCEPT !.status = "ended", !.ended = now]]
    /\ UNCHANGED <<now, run, checkpoint, chat, cleaner, compaction, purger,
                   restarts, excused>>

\* end_thread in a thread of the pool.
EndThread(t) ==
    /\ t \in Closing
    /\ thread[t].status = "active"
    /\ thread' = [thread EXCEPT ![t] = [@ EXCEPT !.status = "ended", !.ended = now]]
    /\ UNCHANGED <<now, run, checkpoint, chat, cleaner, compaction, purger,
                   restarts, excused>>

\* archive_thread_and_purge_checkpoint, up to the purge.  A thread that is
\* archived already is purged again.
ArchiveThread(h, t) ==
    /\ t \in Closing
    /\ purger[h] = <<>>
    /\ thread[t].status # "absent"
    /\ thread' = [thread EXCEPT ![t] = [@ EXCEPT !.status = "archived"]]
    /\ purger' = [purger EXCEPT ![h] = <<t>>]
    /\ UNCHANGED <<now, run, checkpoint, chat, cleaner, compaction, restarts, excused>>

-----------------------------------------------------------------------------
(* The graph of a run and its checkpoint *)

\* A superstep is stored, with what the graph holds in memory.
GraphWrite(t) ==
    /\ run[t].state = "working"
    /\ checkpoint' = [checkpoint EXCEPT ![t] =
          [rows |-> TRUE, turns |-> run[t].graph, next |-> TRUE, summary |-> @.summary]]
    /\ excused' = IF thread[t].status = "archived" THEN excused \cup {t} ELSE excused
    /\ UNCHANGED <<thread, now, run, chat, cleaner, compaction, purger, restarts>>

\* The graph interrupts; its last superstep is stored before.
Interrupt(t) ==
    /\ run[t].state = "working"
    /\ checkpoint[t].rows /\ checkpoint[t].next
    /\ run' = [run EXCEPT ![t] = [@ EXCEPT !.state = "waiting", !.graph = {}]]
    /\ UNCHANGED <<thread, now, checkpoint, chat, cleaner, compaction, purger,
                   restarts, excused>>

\* A verdict: the graph resumes from the checkpoint.  Without one it has no
\* input and the run fails.  A verdict does not look at the thread.
Verdict(t) ==
    /\ LoopIsFree
    /\ run[t].state = "waiting"
    /\ run' = [run EXCEPT ![t] =
          IF checkpoint[t].rows
          THEN [@ EXCEPT !.state = "working", !.graph = checkpoint[t].turns]
          ELSE [@ EXCEPT !.state = "over"]]
    /\ UNCHANGED <<thread, now, checkpoint, chat, cleaner, compaction, purger,
                   restarts, excused>>

\* The graph ends, or the run is cancelled or fails between two supersteps.
\* _finalize_memory then compacts.  Bound of the model: not while the
\* finalization of the run before it still does; two compactions of a thread at
\* once are one of a run and one of the cleaner.
EndRun(t, finished) ==
    /\ run[t].state = "working"
    /\ run' = [run EXCEPT ![t] = [@ EXCEPT !.state = "over", !.graph = {}]]
    /\ checkpoint' = [checkpoint EXCEPT ![t] =
          IF finished THEN [rows |-> TRUE, turns |-> run[t].graph, next |-> FALSE,
                            summary |-> @.summary]
                      ELSE @]
    /\ excused' = IF finished /\ thread[t].status = "archived"
                  THEN excused \cup {t} ELSE excused
    /\ compaction' = [compaction EXCEPT ![t] =
          IF @.at = "none" THEN [at |-> "reading", of |-> t, prefix |-> {}] ELSE @]
    /\ UNCHANGED <<thread, now, chat, cleaner, purger, restarts>>

-----------------------------------------------------------------------------
(* compact_if_needed *)

\* _split_messages_for_compaction: all turns but the last KeepTurns.
Prefix(turns) ==
    {n \in turns : Cardinality({m \in turns : m > n}) >= KeepTurns}

NeedsCompaction(c) ==
    /\ ~c.next
    /\ Cardinality(c.turns) > Threshold
    /\ Prefix(c.turns) # {}

\* aget_state
ReadState(p) ==
    /\ compaction[p].at = "reading"
    /\ LET c == checkpoint[compaction[p].of] IN
       compaction' = [compaction EXCEPT ![p] =
          IF NeedsCompaction(c) THEN [@ EXCEPT !.at = "writing", !.prefix = Prefix(c.turns)]
                                ELSE NoCompaction]
    /\ UNCHANGED <<thread, now, run, checkpoint, chat, cleaner, purger, restarts, excused>>

UpdateState_Overwrite(p) ==
    /\ compaction[p].at = "writing"
    /\ LET t == compaction[p].of
           old == compaction[p].prefix
           last == CHOOSE n \in old : \A m \in old : m <= n
       IN checkpoint' = [checkpoint EXCEPT ![t] =
             IF old \subseteq @.turns
             THEN [@ EXCEPT !.turns = (last + 1)..(last + KeepTurns), !.summary = TRUE]
             ELSE @]
    /\ compaction' = [compaction EXCEPT ![p] = NoCompaction]
    /\ UNCHANGED <<thread, now, run, chat, cleaner, purger, restarts, excused>>

\* aupdate_state: the messages of the prefix are removed one by one by their ids
\* and the summary is added; what is not named stays.  A message that is not
\* there any more cannot be removed: ValueError, logged by the caller.
UpdateState(p) ==
    /\ compaction[p].at = "writing"
    /\ LET t == compaction[p].of
           old == compaction[p].prefix
           c == checkpoint[t]
       IN checkpoint' = [checkpoint EXCEPT ![t] =
             IF old \subseteq c.turns
             THEN [c EXCEPT !.turns = c.turns \ old, !.summary = TRUE]
             ELSE c]
    /\ compaction' = [compaction EXCEPT ![p] = NoCompaction]
    /\ UNCHANGED <<thread, now, run, chat, cleaner, purger, restarts, excused>>

-----------------------------------------------------------------------------
(* ThreadLifecycleCleaner *)

IsIdle(t) == thread[t].status = "active" /\ thread[t].last <= now - IdleTtl

IsOldEnded(t) == thread[t].status = "ended" /\ thread[t].ended <= now - ArchiveTtl

\* ORDER BY ... ASC LIMIT batch_size
Batches(ts, time) ==
    {b \in SetToAllKPermutations(ts) :
        /\ Len(b) = IF Cardinality(ts) < BatchSize THEN Cardinality(ts) ELSE BatchSize
        /\ \A i, j \in 1..Len(b) : i < j => time[b[i]] <= time[b[j]]
        /\ \A t \in ts \ Range(b), i \in 1..Len(b) : time[b[i]] <= time[t]}

LastOf == [t \in Thread |-> thread[t].last]
EndedOf == [t \in Thread |-> thread[t].ended]

\* The interval is over.  With an active_idle_ttl_seconds of 0 nothing is
\* compacted.
Wake ==
    /\ LoopIsFree
    /\ cleaner.at = "asleep"
    /\ IF IdleTtl = 0
       THEN cleaner' = [at |-> "ending", idle |-> <<>>]
       ELSE \E b \in Batches({t \in Thread : IsIdle(t)}, LastOf) :
                cleaner' = [at |-> "compacting", idle |-> b]
    /\ UNCHANGED <<thread, now, run, checkpoint, chat, compaction, purger,
                   restarts, excused>>

CompactNext ==
    /\ LoopIsFree
    /\ cleaner.at = "compacting"
    /\ compaction[Cleaner].at = "none"
    /\ IF cleaner.idle = <<>>
       THEN /\ cleaner' = [cleaner EXCEPT !.at = "ending"]
            /\ UNCHANGED compaction
       ELSE /\ cleaner' = [cleaner EXCEPT !.idle = Tail(@)]
            /\ compaction' = [compaction EXCEPT ![Cleaner] =
                  [at |-> "reading", of |-> Head(cleaner.idle), prefix |-> {}]]
    /\ UNCHANGED <<thread, now, run, checkpoint, chat, purger, restarts, excused>>

EndIdle_NotBusy ==
    /\ cleaner.at = "ending"
    /\ \E b \in Batches({t \in Thread : IsIdle(t) /\ run[t].state \in {"none", "over"}},
                        LastOf) :
          thread' = [t \in Thread |->
              IF t \in Range(b) THEN [thread[t] EXCEPT !.status = "ended", !.ended = now]
                                ELSE thread[t]]
    /\ cleaner' = [cleaner EXCEPT !.at = "archiving"]
    /\ UNCHANGED <<now, run, checkpoint, chat, compaction, purger, restarts, excused>>

\* run_once: end_idle_threads_older_than, whether their runs are over or not.
EndIdle ==
    /\ cleaner.at = "ending"
    /\ \E b \in Batches({t \in Thread : IsIdle(t)}, LastOf) :
          thread' = [t \in Thread |->
              IF t \in Range(b) THEN [thread[t] EXCEPT !.status = "ended", !.ended = now]
                                ELSE thread[t]]
    /\ cleaner' = [cleaner EXCEPT !.at = "archiving"]
    /\ UNCHANGED <<now, run, checkpoint, chat, compaction, purger, restarts, excused>>

ArchiveEnded_NoPurge ==
    /\ cleaner.at = "archiving"
    /\ \E b \in Batches({t \in Thread : IsOldEnded(t)}, EndedOf) :
          thread' = [t \in Thread |->
              IF t \in Range(b) THEN [thread[t] EXCEPT !.status = "archived"]
                                ELSE thread[t]]
    /\ cleaner' = [cleaner EXCEPT !.at = "purging"]
    /\ UNCHANGED <<now, run, checkpoint, chat, compaction, purger, restarts, excused>>

ArchiveEnded_AllEnded ==
    /\ cleaner.at = "archiving"
    /\ \E b \in Batches({t \in Thread : IsOldEnded(t)}, EndedOf) :
       /\ thread' = [t \in Thread |->
              IF t \in Range(b) THEN [thread[t] EXCEPT !.status = "archived"]
                                ELSE thread[t]]
       /\ purger' = [purger EXCEPT ![Cleaner] =
              b \o SetToSeq({t \in Thread \ Range(b) : thread[t].status = "ended"})]
    /\ cleaner' = [cleaner EXCEPT !.at = "purging"]
    /\ UNCHANGED <<now, run, checkpoint, chat, compaction, restarts, excused>>

\* archive_ended_threads_older_than
ArchiveEnded ==
    /\ cleaner.at = "archiving"
    /\ \E b \in Batches({t \in Thread : IsOldEnded(t)}, EndedOf) :
       /\ thread' = [t \in Thread |->
              IF t \in Range(b) THEN [thread[t] EXCEPT !.status = "archived"]
                                ELSE thread[t]]
       /\ purger' = [purger EXCEPT ![Cleaner] = b]
    /\ cleaner' = [cleaner EXCEPT !.at = "purging"]
    /\ UNCHANGED <<now, run, checkpoint, chat, compaction, restarts, excused>>

\* CheckpointStore.purge_thread, in one transaction.
Purge(p) ==
    /\ purger[p] # <<>>
    /\ checkpoint' = [checkpoint EXCEPT ![Head(purger[p])] = NoCheckpoint]
    /\ purger' = [purger EXCEPT ![p] = Tail(@)]
    /\ UNCHANGED <<thread, now, run, chat, cleaner, compaction, restarts, excused>>

\* A purge raises: its delete, or the event that tells of the delete.  What the
\* cleaner had to purge after it stays, since the threads are archived already
\* and no later batch lists them.
PurgeFails(p, deleted) ==
    /\ purger[p] # <<>>
    /\ checkpoint' = IF deleted THEN [checkpoint EXCEPT ![Head(purger[p])] = NoCheckpoint]
                                ELSE checkpoint
    /\ purger' = [purger EXCEPT ![p] = <<>>]
    /\ excused' = excused \cup Range(IF deleted THEN Tail(purger[p]) ELSE purger[p])
    /\ UNCHANGED <<thread, now, run, chat, cleaner, compaction, restarts>>

PurgeStep(p) == Purge(p) \/ \E deleted \in BOOLEAN : PurgeFails(p, deleted)

Sleep ==
    /\ cleaner.at = "purging"
    /\ purger[Cleaner] = <<>>
    /\ cleaner' = [cleaner EXCEPT !.at = "asleep"]
    /\ UNCHANGED <<thread, now, run, checkpoint, chat, compaction, purger, restarts, excused>>

-----------------------------------------------------------------------------
\* The process dies and starts again.  A run that worked is over (the engine
\* fails it before it serves); one that waited waits.
Crash ==
    /\ restarts < MaxRestarts
    /\ restarts' = restarts + 1
    /\ run' = [t \in Thread |->
          IF run[t].state = "working" THEN [run[t] EXCEPT !.state = "over", !.graph = {}]
                                    ELSE run[t]]
    /\ chat' = NoThread
    /\ cleaner' = [at |-> "asleep", idle |-> <<>>]
    /\ compaction' = [p \in Compactor |-> NoCompaction]
    /\ purger' = [p \in Purger |-> <<>>]
    /\ excused' = excused \cup UNION {Range(purger[p]) : p \in Purger}
    /\ UNCHANGED <<thread, now, checkpoint>>

Init ==
    /\ thread = [t \in Thread |-> [status |-> "absent", last |-> 0, ended |-> Never]]
    /\ now = 0
    /\ run = [t \in Thread |-> [state |-> "none", turn |-> 0, graph |-> {}]]
    /\ checkpoint = [t \in Thread |-> NoCheckpoint]
    /\ chat = NoThread
    /\ cleaner = [at |-> "asleep", idle |-> <<>>]
    /\ compaction = [p \in Compactor |-> NoCompaction]
    /\ purger = [p \in Purger |-> <<>>]
    /\ restarts = 0
    /\ excused = {}

ClientStep ==
    \/ \E t \in Thread : CreateThread(t) \/ Chat(t) \/ EndThread(t) \/ Verdict(t)
    \/ \E t \in Thread, h \in Handler : ArchiveThread(h, t)

GraphStep(t) ==
    \/ GraphWrite(t) \/ Interrupt(t)
    \/ \E finished \in BOOLEAN : EndRun(t, finished)

CompactorStep(p) == ReadState(p) \/ UpdateState(p)

CleanerStep ==
    \/ Wake \/ CompactNext \/ EndIdle \/ ArchiveEnded \/ PurgeStep(Cleaner) \/ Sleep

Next ==
    \/ Tick \/ ClientStep \/ CreateRun \/ RefuseRun
    \/ \E t \in Thread : GraphStep(t)
    \/ \E p \in Compactor : CompactorStep(p)
    \/ CleanerStep
    \/ \E h \in Handler : PurgeStep(h)
    \/ Crash

Spec == Init /\ [][Next]_vars

(* The loop comes back to the cleaner and to a handler that has begun, and  *)
(* the threads of the pool and of the checkpointer go on.                   *)
Fairness ==
    /\ WF_vars(CreateRun \/ RefuseRun)
    /\ SF_vars(CleanerStep)
    /\ \A h \in Handler : WF_vars(PurgeStep(h))
    /\ \A p \in Compactor : WF_vars(CompactorStep(p))

FairSpec == Spec /\ Fairness

-----------------------------------------------------------------------------
(* Properties *)

Rank(s) == CASE s = "absent" -> 0 [] s = "active" -> 1
             [] s = "ended" -> 2 [] s = "archived" -> 3

\* A thread goes from active to ended to archived and never back, whatever
\* handlers, chat requests and the cleaner do at the same time, and the time
\* at which it ended is written once.
ThreadsMoveForward ==
    [][\A t \in Thread :
         /\ Rank(thread'[t].status) >= Rank(thread[t].status)
         /\ thread[t].ended # Never => thread'[t].ended = thread[t].ended]_vars

\* The rows of a checkpoint disappear only after their thread was archived: the
\* purge follows the commit.
OnlyArchivedIsPurged ==
    [][\A t \in Thread :
         (checkpoint[t].rows /\ ~checkpoint'[t].rows) => thread[t].status = "archived"]_vars

\* An archived thread that nobody is about to purge has a checkpoint only if the
\* process died before the purge, the purge or one before it in the batch failed,
\* or a run that was still going on stored one after it.  A compaction that
\* overlaps with the purge brings nothing back.
LeftoverHasACause ==
    \A t \in Thread :
        (/\ thread[t].status = "archived"
         /\ checkpoint[t].rows
         /\ \A p \in Purger : t \notin Range(purger[p]))
        => t \in excused

\* The same without an excuse: an archived thread keeps no checkpoint.
ArchivedIsPurged ==
    \A t \in Thread :
        (/\ thread[t].status = "archived"
         /\ run[t].state \in {"none", "over"}
         /\ \A p \in Purger : t \notin Range(purger[p]))
        => ~checkpoint[t].rows

\* No compaction, alone, beside another one or beside a run, takes one of the
\* last KeepTurns turns out of the checkpoint of a thread.
RecentTurnsStay ==
    [][\A t \in Thread :
         LET recent == checkpoint[t].turns \ Prefix(checkpoint[t].turns)
         IN checkpoint'[t].rows => recent \subseteq checkpoint'[t].turns]_vars

\* A run that waits for an approval keeps the checkpoint it will resume from.
WaitingKeepsCheckpoint ==
    \A t \in Thread : run[t].state = "waiting" => checkpoint[t].rows

\* A compaction never changes the checkpoint of a run that is not over.
NoCompactionUnderRun ==
    [][\A t \in Thread :
         (\E p \in Compactor : compaction[p].of = t /\ UpdateState(p))
         => ~checkpoint[t].next \/ checkpoint'[t] = checkpoint[t]]_vars

\* No thread stays overdue: one that is idle is ended, unless somebody uses it,
\* and one that has ended is archived.  The cleaner's batches starve none, and
\* neither requests nor compactions nor crashes stop it.
NoThreadStaysOverdue ==
    \A t \in Thread : []<>(~IsIdle(t) /\ ~IsOldEnded(t))

=============================================================================
