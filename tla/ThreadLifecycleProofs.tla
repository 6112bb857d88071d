------------------------- MODULE ThreadLifecycleProofs -------------------------
(***************************************************************************)
(* Proofs about ThreadLifecycle: its types, the order of the states of a   *)
(* thread, what may remove or leave the rows of a checkpoint, and which    *)
(* turns a compaction may not take, for any finite set of threads, any     *)
(* handlers, times to live, batches and bounds.                            *)
(***************************************************************************)
EXTENDS ThreadLifecycle, FiniteSetTheorems, WellFoundedInduction, TLAPS

\* A compaction that is going on has a thread.
CompactionsKnow ==
    \A p \in Compactor : compaction[p].at # "none" => compaction[p].of \in Thread

\* A thread that was not closed has no time of its end.
OpenHasNoEnd ==
    \A t \in Thread : thread[t].status \in {"absent", "active"} => thread[t].ended = Never

\* What is still to be purged was archived before.
PurgedIsArchived ==
    \A p \in Purger : \A t \in Range(purger[p]) : thread[t].status = "archived"

\* The cleaner has nothing left to purge when it starts a pass.
PassesAreDone == cleaner.at # "purging" => purger[Cleaner] = <<>>

Types == TypeOK /\ CompactionsKnow

LifeInv ==
    /\ Types
    /\ OpenHasNoEnd
    /\ PurgedIsArchived
    /\ PassesAreDone
    /\ LeftoverHasACause

USE LifecycleAssumption

-----------------------------------------------------------------------------
(* Facts about functions, rows, sequences and batches *)

\* What the steps make of a row and of a run.
LEMMA RowsStayRows ==
    ASSUME NEW row \in Row, NEW time \in 0..MaxTime
    PROVE  /\ [row EXCEPT !.last = time] \in Row
           /\ [row EXCEPT !.status = "ended", !.ended = time] \in Row
           /\ [row EXCEPT !.status = "archived"] \in Row
<1>1. time \in 0..Never /\ {"ended", "archived"} \subseteq ThreadStatus
  BY DEF Never, ThreadStatus
<1>2. [row EXCEPT !.last = time] \in Row
  BY DEF Row
<1>3. [row EXCEPT !.status = "ended", !.ended = time] \in Row
  BY <1>1 DEF Row
<1>4. [row EXCEPT !.status = "archived"] \in Row
  BY <1>1 DEF Row
<1> QED
  BY <1>2, <1>3, <1>4

LEMMA RunsStayRuns ==
    ASSUME NEW r \in RunOf, NEW ts \in SUBSET Nat
    PROVE  /\ [r EXCEPT !.state = "working", !.graph = ts] \in RunOf
           /\ [r EXCEPT !.state = "waiting", !.graph = {}] \in RunOf
           /\ [r EXCEPT !.state = "over", !.graph = {}] \in RunOf
           /\ [r EXCEPT !.state = "over"] \in RunOf
BY DEF RunOf

LEMMA CompactedStays ==
    ASSUME NEW c \in Checkpoint, NEW ts \in SUBSET Nat
    PROVE  [c EXCEPT !.turns = ts, !.summary = TRUE] \in Checkpoint
BY DEF Checkpoint

LEMMA ReadStays ==
    ASSUME NEW c \in Compaction, NEW ts \in SUBSET Nat
    PROVE  /\ [c EXCEPT !.at = "writing", !.prefix = ts] \in Compaction
           /\ [c EXCEPT !.at = "writing", !.prefix = ts].of = c.of
BY DEF Compaction

LEMMA EmptyRange == Range(<<>>) = {}
BY DEF Range

\* The head and the tail of a sequence have its elements between them.
LEMMA RangeOfTail ==
    ASSUME NEW S, NEW q \in Seq(S), q # <<>>
    PROVE  /\ Head(q) \in S
           /\ Tail(q) \in Seq(S)
           /\ Range(q) = {Head(q)} \cup Range(Tail(q))
<1>1. /\ Head(q) = q[1] /\ Len(q) \in Nat \ {0} /\ DOMAIN q = 1..Len(q)
      /\ Tail(q) \in Seq(S) /\ DOMAIN Tail(q) = 1..(Len(q) - 1)
      /\ \A i \in 1..(Len(q) - 1) : Tail(q)[i] = q[i + 1]
      /\ q[1] \in S
  OBVIOUS
<1> DEFINE r == Tail(q)
<1> HIDE DEF r
<1>2. ASSUME NEW y \in Range(q) PROVE y \in {Head(q)} \cup Range(r)
  <2>1. PICK i \in 1..Len(q) : y = q[i]
    BY <1>1, <1>2 DEF Range
  <2>2. CASE i = 1
    BY <2>1, <2>2, <1>1
  <2>3. CASE i # 1
    <3>1. i - 1 \in 1..(Len(q) - 1) /\ (i - 1) + 1 = i
      BY <2>3, <1>1
    <3>2. r[i - 1] = y /\ i - 1 \in DOMAIN r
      BY <3>1, <1>1, <2>1 DEF r
    <3> QED
      BY <3>2 DEF Range
  <2> QED
    BY <2>2, <2>3
<1>3. ASSUME NEW y \in {Head(q)} \cup Range(r) PROVE y \in Range(q)
  <2>1. CASE y = Head(q)
    <3>1. 1 \in DOMAIN q /\ y = q[1]
      BY <1>1, <2>1
    <3> QED
      BY <3>1 DEF Range
  <2>2. CASE y \in Range(r)
    <3>1. PICK i \in 1..(Len(q) - 1) : y = r[i]
      BY <2>2, <1>1 DEF Range, r
    <3>2. y = q[i + 1] /\ i + 1 \in DOMAIN q
      BY <3>1, <1>1 DEF r
    <3> QED
      BY <3>2 DEF Range
  <2> QED
    BY <1>3, <2>1, <2>2
<1> QED
  BY <1>1, <1>2, <1>3 DEF r

\* A batch is a sequence of threads out of those that were selected.
LEMMA BatchType ==
    ASSUME NEW ts \in SUBSET Thread, NEW time, NEW b \in Batches(ts, time)
    PROVE  b \in Seq(Thread) /\ Range(b) \subseteq ts
<1>1. b \in SetToAllKPermutations(ts)
  BY DEF Batches
<1>2. PICK s \in SUBSET ts : b \in SetToSeqs(s)
  BY <1>1 DEF SetToAllKPermutations
<1>3. b \in [1..Cardinality(s) -> s]
  BY <1>2 DEF SetToSeqs
<1>4. Cardinality(s) \in Nat
  BY FS_Subset, FS_CardinalityType
<1>5. b \in Seq(Thread)
  BY <1>3, <1>4
<1>6. Range(b) \subseteq ts
  BY <1>3 DEF Range
<1> QED
  BY <1>5, <1>6

-----------------------------------------------------------------------------
(* Types *)

LEMMA InitTypes == Init => Types
BY DEF Init, Types, TypeOK, CompactionsKnow, Row, ThreadStatus, RunOf, Checkpoint,
   NoCheckpoint, Compaction, NoCompaction, Never

LEMMA TouchedIsRow ==
    ASSUME TypeOK, NEW t \in Thread
    PROVE  Touched(thread[t]) \in Row
<1> DEFINE row == thread[t]
<1>1. row \in Row /\ now \in 0..MaxTime /\ MaxTime \in Nat
  BY DEF TypeOK
<1> HIDE DEF row
<1>2. CASE row.status = "absent"
  <2>1. Touched(row) = [status |-> "active", last |-> now, ended |-> Never]
    BY <1>2 DEF Touched
  <2> QED
    BY <1>1, <2>1 DEF row, Row, ThreadStatus, Never
<1>3. CASE row.status = "active"
  <2>1. Touched(row) = [row EXCEPT !.last = now]
    BY <1>3 DEF Touched
  <2> QED
    BY <1>1, <2>1 DEF row, Row
<1>4. CASE row.status \notin {"absent", "active"}
  <2>1. Touched(row) = row
    BY <1>4 DEF Touched
  <2> QED
    BY <1>1, <2>1 DEF row
<1> QED
  BY <1>2, <1>3, <1>4

LEMMA ClientTypes ==
    ASSUME Types, ClientStep \/ CreateRun \/ RefuseRun \/ Tick
    PROVE  Types'
<1> USE DEF Types, TypeOK, CompactionsKnow
<1>1. ASSUME NEW t \in Thread, CreateThread(t) \/ Chat(t)
      PROVE  Types'
  <2>1. thread' = [thread EXCEPT ![t] = Touched(thread[t])]
    BY <1>1 DEF CreateThread, Chat
  <2>2. thread' \in [Thread -> Row]
    BY <2>1, TouchedIsRow
  <2>3. CASE CreateThread(t)
    BY <2>2, <2>3 DEF CreateThread
  <2>4. CASE Chat(t)
    BY <2>2, <2>4 DEF Chat
  <2> QED
    BY <1>1, <2>3, <2>4
<1>2. ASSUME NEW t \in Thread, EndThread(t)
      PROVE  Types'
  <2>1. thread' \in [Thread -> Row]
    <3>1. [thread[t] EXCEPT !.status = "ended", !.ended = now] \in Row
      BY RowsStayRows, Zenon
    <3> QED
      BY <1>2, <3>1 DEF EndThread
  <2> QED
    BY <1>2, <2>1 DEF EndThread
<1>3. ASSUME NEW t \in Thread, Verdict(t)
      PROVE  Types'
  <2>1. run' \in [Thread -> RunOf]
    <3>1. run[t] \in RunOf /\ checkpoint[t].turns \in SUBSET Nat
      BY DEF Checkpoint
    <3>2. /\ [run[t] EXCEPT !.state = "working", !.graph = checkpoint[t].turns] \in RunOf
          /\ [run[t] EXCEPT !.state = "over"] \in RunOf
      BY <3>1, RunsStayRuns, Zenon
    <3> QED
      BY <1>3, <3>2 DEF Verdict
  <2> QED
    BY <1>3, <2>1 DEF Verdict
<1>4. ASSUME NEW t \in Thread, NEW h \in Handler, ArchiveThread(h, t)
      PROVE  Types'
  <2>1. thread' \in [Thread -> Row]
    <3>1. [thread[t] EXCEPT !.status = "archived"] \in Row
      BY RowsStayRows, Zenon
    <3> QED
      BY <1>4, <3>1 DEF ArchiveThread
  <2>2. purger' \in [Purger -> Seq(Thread)]
    <3>1. h \in Purger /\ <<t>> \in Seq(Thread)
      BY DEF Purger
    <3> QED
      BY <1>4, <3>1 DEF ArchiveThread
  <2> QED
    BY <1>4, <2>1, <2>2 DEF ArchiveThread
<1>5. CASE CreateRun
  <2>1. chat \in Thread
    BY <1>5 DEF CreateRun
  <2>2. thread' \in [Thread -> Row]
    <3>1. [thread[chat] EXCEPT !.last = now] \in Row
      BY <2>1, RowsStayRows, Zenon
    <3> QED
      BY <1>5, <2>1, <3>1 DEF CreateRun
  <2>3. run' \in [Thread -> RunOf]
    <3>1. checkpoint[chat].turns \in SUBSET Nat /\ run[chat].turn + 1 \in Nat
      BY <2>1 DEF Checkpoint, RunOf
    <3> QED
      BY <1>5, <2>1, <3>1 DEF CreateRun, RunOf
  <2> QED
    BY <1>5, <2>2, <2>3 DEF CreateRun
<1>6. CASE RefuseRun
  BY <1>6 DEF RefuseRun
<1>7. CASE Tick
  BY <1>7 DEF Tick
<1> QED
  BY <1>1, <1>2, <1>3, <1>4, <1>5, <1>6, <1>7 DEF ClientStep

LEMMA GraphTypes ==
    ASSUME Types, NEW t \in Thread, GraphStep(t)
    PROVE  Types'
<1> USE DEF Types, TypeOK, CompactionsKnow
<1>1. CASE GraphWrite(t)
  <2>1. checkpoint' \in [Thread -> Checkpoint]
    BY <1>1 DEF GraphWrite, Checkpoint, RunOf
  <2> QED
    BY <1>1, <2>1 DEF GraphWrite
<1>2. CASE Interrupt(t)
  <2>1. [run[t] EXCEPT !.state = "waiting", !.graph = {}] \in RunOf
    BY RunsStayRuns, Zenon
  <2> QED
    BY <1>2, <2>1 DEF Interrupt
<1>3. ASSUME NEW finished \in BOOLEAN, EndRun(t, finished)
      PROVE  Types'
  <2>1. run' \in [Thread -> RunOf]
    <3>1. [run[t] EXCEPT !.state = "over", !.graph = {}] \in RunOf
      BY RunsStayRuns, Zenon
    <3> QED
      BY <1>3, <3>1 DEF EndRun
  <2>2. checkpoint' \in [Thread -> Checkpoint]
    <3>1. run[t].graph \in SUBSET Nat /\ checkpoint[t] \in Checkpoint
      BY DEF RunOf
    <3>2. [rows |-> TRUE, turns |-> run[t].graph, next |-> FALSE,
           summary |-> checkpoint[t].summary] \in Checkpoint
      BY <3>1 DEF Checkpoint
    <3> QED
      BY <1>3, <3>1, <3>2 DEF EndRun
  <2>3. t \in Compactor
    BY DEF Compactor
  <2>4. compaction' \in [Compactor -> Compaction] /\ CompactionsKnow'
    <3>1. [at |-> "reading", of |-> t, prefix |-> {}] \in Compaction
      BY DEF Compaction
    <3> QED
      BY <1>3, <2>3, <3>1 DEF EndRun
  <2> QED
    BY <1>3, <2>1, <2>2, <2>4 DEF EndRun
<1> QED
  BY <1>1, <1>2, <1>3 DEF GraphStep

LEMMA CompactorTypes ==
    ASSUME Types, NEW p \in Compactor, CompactorStep(p)
    PROVE  Types'
<1> USE DEF Types, TypeOK, CompactionsKnow
<1>1. CASE ReadState(p)
  <2> DEFINE ts == Prefix(checkpoint[compaction[p].of].turns)
  <2>1. ts \in SUBSET Nat
    <3>1. compaction[p].of \in Thread
      BY <1>1 DEF ReadState
    <3>2. checkpoint[compaction[p].of].turns \in SUBSET Nat
      BY <3>1 DEF Checkpoint
    <3> QED
      BY <3>2 DEF Prefix
  <2>2. compaction' \in [Compactor -> Compaction] /\ CompactionsKnow'
    <3>1. /\ [compaction[p] EXCEPT !.at = "writing", !.prefix = ts] \in Compaction
          /\ [compaction[p] EXCEPT !.at = "writing", !.prefix = ts].of = compaction[p].of
      BY <2>1, ReadStays, Zenon
    <3>2. NoCompaction \in Compaction /\ NoCompaction.at = "none"
      BY DEF Compaction, NoCompaction
    <3>3. \E new \in Compaction :
            /\ compaction' = [compaction EXCEPT ![p] = new]
            /\ new.at # "none" => new.of = compaction[p].of
      <4> HIDE DEF ts
      <4>1. CASE NeedsCompaction(checkpoint[compaction[p].of])
        BY <1>1, <3>1, <4>1 DEF ReadState, ts
      <4>2. CASE ~NeedsCompaction(checkpoint[compaction[p].of])
        BY <1>1, <3>2, <4>2 DEF ReadState
      <4> QED
        BY <4>1, <4>2
    <3> QED
      BY <1>1, <3>3 DEF ReadState
  <2> QED
    BY <1>1, <2>2 DEF ReadState
<1>2. CASE UpdateState(p)
  <2>1. checkpoint' \in [Thread -> Checkpoint]
    <3>1. compaction[p].of \in Thread
      BY <1>2 DEF UpdateState
    <3> DEFINE c == checkpoint[compaction[p].of]
               new == [c EXCEPT !.turns = c.turns \ compaction[p].prefix, !.summary = TRUE]
    <3>2. c \in Checkpoint /\ c.turns \ compaction[p].prefix \in SUBSET Nat
      BY <3>1 DEF Checkpoint
    <3>3. new \in Checkpoint
      BY <3>2, CompactedStays, Zenon
    <3>4. checkpoint' = [checkpoint EXCEPT ![compaction[p].of] =
                            IF compaction[p].prefix \subseteq c.turns THEN new ELSE c]
      BY <1>2 DEF UpdateState
    <3> QED
      BY <3>1, <3>2, <3>3, <3>4
  <2>2. compaction' \in [Compactor -> Compaction] /\ CompactionsKnow'
    <3>1. NoCompaction \in Compaction /\ NoCompaction.at = "none"
      BY DEF Compaction, NoCompaction
    <3> QED
      BY <1>2, <3>1 DEF UpdateState
  <2> QED
    BY <1>2, <2>1, <2>2 DEF UpdateState
<1> QED
  BY <1>1, <1>2 DEF CompactorStep

\* The steps of the cleaner but for the reading and writing of checkpoints.
LEMMA CleanerTypes ==
    ASSUME Types, Wake \/ CompactNext \/ EndIdle \/ ArchiveEnded \/ Sleep
    PROVE  Types'
<1> USE DEF Types, TypeOK, CompactionsKnow
<1>1. CASE Wake
  <2>1. CASE IdleTtl = 0
    <3>1. <<>> \in Seq(Thread) /\ cleaner' = [at |-> "ending", idle |-> <<>>]
      BY <1>1, <2>1 DEF Wake
    <3> QED
      BY <1>1, <3>1 DEF Wake
  <2>2. CASE IdleTtl # 0
    <3>1. PICK b \in Batches({t \in Thread : IsIdle(t)}, LastOf) :
              cleaner' = [at |-> "compacting", idle |-> b]
      BY <1>1, <2>2 DEF Wake
    <3>2. b \in Seq(Thread)
      BY BatchType
    <3> QED
      BY <1>1, <3>1, <3>2 DEF Wake
  <2> QED
    BY <2>1, <2>2
<1>2. CASE CompactNext
  <2>1. CASE cleaner.idle = <<>>
    BY <1>2, <2>1 DEF CompactNext
  <2>2. CASE cleaner.idle # <<>>
    <3>1. Head(cleaner.idle) \in Thread /\ Tail(cleaner.idle) \in Seq(Thread)
      BY <2>2, RangeOfTail
    <3>2. compaction' \in [Compactor -> Compaction] /\ CompactionsKnow'
      <4>1. [at |-> "reading", of |-> Head(cleaner.idle), prefix |-> {}] \in Compaction
        BY <3>1 DEF Compaction
      <4>2. compaction' = [compaction EXCEPT ![Cleaner] =
                [at |-> "reading", of |-> Head(cleaner.idle), prefix |-> {}]]
        BY <1>2, <2>2 DEF CompactNext
      <4> QED
        BY <3>1, <4>1, <4>2
    <3> QED
      BY <1>2, <2>2, <3>1, <3>2 DEF CompactNext
  <2> QED
    BY <2>1, <2>2
<1>3. CASE EndIdle
  <2> DEFINE Ended(row) == [row EXCEPT !.status = "ended", !.ended = now]
  <2>1. PICK b \in Batches({u \in Thread : IsIdle(u)}, LastOf) :
          thread' = [u \in Thread |-> IF u \in Range(b) THEN Ended(thread[u]) ELSE thread[u]]
    BY <1>3, Zenon DEF EndIdle
  <2>2. thread' \in [Thread -> Row]
    <3>1. \A u \in Thread : Ended(thread[u]) \in Row
      BY RowsStayRows, Zenon
    <3> HIDE DEF Ended
    <3> QED
      BY <2>1, <3>1
  <2>3. /\ cleaner' = [cleaner EXCEPT !.at = "archiving"]
        /\ UNCHANGED <<now, run, checkpoint, chat, compaction, purger, restarts, excused>>
    BY <1>3, Zenon DEF EndIdle
  <2> QED
    BY <2>2, <2>3
<1>4. CASE ArchiveEnded
  <2>1. PICK b \in Batches({t \in Thread : IsOldEnded(t)}, EndedOf) :
          /\ thread' = [t \in Thread |->
                IF t \in Range(b) THEN [thread[t] EXCEPT !.status = "archived"]
                                  ELSE thread[t]]
          /\ purger' = [purger EXCEPT ![Cleaner] = b]
    BY <1>4 DEF ArchiveEnded
  <2>2. b \in Seq(Thread)
    BY BatchType
  <2>3. thread' \in [Thread -> Row]
    <3>1. \A u \in Thread : [thread[u] EXCEPT !.status = "archived"] \in Row
      BY RowsStayRows, Zenon
    <3> QED
      BY <2>1, <3>1
  <2>4. purger' \in [Purger -> Seq(Thread)]
    BY <2>1, <2>2
  <2> QED
    BY <1>4, <2>3, <2>4 DEF ArchiveEnded
<1>5. CASE Sleep
  BY <1>5 DEF Sleep
<1> QED
  BY <1>1, <1>2, <1>3, <1>4, <1>5

LEMMA PurgeTypes ==
    ASSUME Types, NEW p \in Purger, Purge(p)
    PROVE  Types'
<1> USE DEF Types, TypeOK, CompactionsKnow
<1>1. Head(purger[p]) \in Thread /\ Tail(purger[p]) \in Seq(Thread)
  BY RangeOfTail DEF Purge
<1>2. checkpoint' \in [Thread -> Checkpoint]
  BY <1>1 DEF Purge, Checkpoint, NoCheckpoint
<1>3. purger' \in [Purger -> Seq(Thread)]
  BY <1>1 DEF Purge
<1> QED
  BY <1>2, <1>3 DEF Purge

\* A purge that fails gives up what it had to do, and excuses it.
LEMMA FailureFacts ==
    ASSUME Types, NEW p \in Purger, NEW deleted \in BOOLEAN, PurgeFails(p, deleted)
    PROVE  /\ Head(purger[p]) \in Range(purger[p])
           /\ UNCHANGED <<thread, now, run, chat, cleaner, compaction, restarts>>
           /\ \/ checkpoint' = checkpoint
              \/ checkpoint' = [checkpoint EXCEPT ![Head(purger[p])] = NoCheckpoint]
           /\ purger' = [purger EXCEPT ![p] = <<>>]
           /\ excused \subseteq excused' /\ excused' \subseteq Thread
           /\ \A t \in Range(purger[p]) : t \in excused' \/ ~checkpoint'[t].rows
<1> USE DEF Types, TypeOK
<1> DEFINE batch == purger[p]
           kept == IF deleted THEN Tail(batch) ELSE batch
<1>1. batch \in Seq(Thread) /\ batch # <<>> /\ Range(batch) \subseteq Thread
  BY DEF PurgeFails, Range
<1>2. /\ Range(batch) = {Head(batch)} \cup Range(Tail(batch))
      /\ Head(batch) \in Thread
  BY <1>1, RangeOfTail
<1>3. /\ checkpoint' = IF deleted THEN [checkpoint EXCEPT ![Head(batch)] = NoCheckpoint]
                                   ELSE checkpoint
      /\ purger' = [purger EXCEPT ![p] = <<>>]
      /\ excused' = excused \cup Range(kept)
      /\ UNCHANGED <<thread, now, run, chat, cleaner, compaction, restarts>>
  BY Zenon DEF PurgeFails
<1> HIDE DEF batch
<1>4. Range(kept) \subseteq Range(batch)
  BY <1>2
<1>5. ASSUME NEW t \in Range(batch) PROVE t \in excused' \/ ~checkpoint'[t].rows
  <2>1. CASE deleted /\ t = Head(batch)
    BY <1>2, <1>3, <2>1 DEF NoCheckpoint
  <2>2. CASE ~(deleted /\ t = Head(batch))
    BY <1>2, <1>3, <1>5, <2>2
  <2> QED
    BY <2>1, <2>2
<1> QED
  BY <1>1, <1>2, <1>3, <1>4, <1>5 DEF batch

LEMMA FailureTypes ==
    ASSUME Types, NEW p \in Purger, NEW deleted \in BOOLEAN, PurgeFails(p, deleted)
    PROVE  Types'
<1> USE DEF Types, TypeOK, CompactionsKnow
<1>1. checkpoint' \in [Thread -> Checkpoint]
  <2>1. NoCheckpoint \in Checkpoint
    BY DEF NoCheckpoint, Checkpoint
  <2>2. \/ checkpoint' = checkpoint
        \/ checkpoint' = [checkpoint EXCEPT ![Head(purger[p])] = NoCheckpoint]
    BY FailureFacts
  <2> QED
    BY <2>1, <2>2
<1>2. purger' \in [Purger -> Seq(Thread)]
  <2>1. purger' = [purger EXCEPT ![p] = <<>>]
    BY FailureFacts
  <2> QED
    BY <2>1
<1> QED
  BY <1>1, <1>2, FailureFacts

LEMMA CrashTypes ==
    ASSUME Types, Crash
    PROVE  Types'
<1> USE DEF Types, TypeOK, CompactionsKnow
<1> DEFINE Over(r) == [r EXCEPT !.state = "over", !.graph = {}]
<1>1. run' \in [Thread -> RunOf]
  <2>1. \A u \in Thread : Over(run[u]) \in RunOf
    BY RunsStayRuns, Zenon
  <2>2. run' = [u \in Thread |-> IF run[u].state = "working" THEN Over(run[u]) ELSE run[u]]
    BY Zenon DEF Crash
  <2> HIDE DEF Over
  <2> QED
    BY <2>1, <2>2
<1>2. excused' \subseteq Thread
  <2>1. \A p \in Purger : Range(purger[p]) \subseteq Thread
    BY DEF Range
  <2>2. excused' = excused \cup UNION {Range(purger[p]) : p \in Purger}
    BY Zenon DEF Crash
  <2> QED
    BY <2>1, <2>2
<1>3. compaction' \in [Compactor -> Compaction] /\ CompactionsKnow'
  <2>1. NoCompaction \in Compaction /\ NoCompaction.at = "none"
    BY DEF Compaction, NoCompaction
  <2>2. compaction' = [p \in Compactor |-> NoCompaction]
    BY Zenon DEF Crash
  <2> QED
    BY <2>1, <2>2
<1>4. /\ purger' \in [Purger -> Seq(Thread)]
      /\ cleaner' \in [at : {"asleep", "compacting", "ending", "archiving", "purging"},
                       idle : Seq(Thread)]
  <2>1. purger' = [p \in Purger |-> <<>>] /\ cleaner' = [at |-> "asleep", idle |-> <<>>]
    BY Zenon DEF Crash
  <2>2. <<>> \in Seq(Thread)
    OBVIOUS
  <2> QED
    BY <2>1, <2>2
<1>5. thread' = thread /\ now' = now /\ checkpoint' = checkpoint /\ chat' = NoThread
  BY Zenon DEF Crash
<1>6. restarts' \in 0..MaxRestarts
  <2>1. restarts < MaxRestarts /\ restarts' = restarts + 1
    BY Zenon DEF Crash
  <2> QED
    BY <2>1
<1> QED
  BY <1>1, <1>2, <1>3, <1>4, <1>5, <1>6

LEMMA NextTypes ==
    ASSUME Types, Next
    PROVE  Types'
<1>1. CASE Tick \/ ClientStep \/ CreateRun \/ RefuseRun
  BY <1>1, ClientTypes
<1>2. CASE \E t \in Thread : GraphStep(t)
  BY <1>2, GraphTypes
<1>3. CASE \E p \in Compactor : CompactorStep(p)
  BY <1>3, CompactorTypes
<1>4. CASE CleanerStep
  BY <1>4, CleanerTypes, PurgeTypes, FailureTypes DEF CleanerStep, PurgeStep, Purger
<1>5. CASE \E h \in Handler : PurgeStep(h)
  BY <1>5, PurgeTypes, FailureTypes DEF PurgeStep, Purger
<1>6. CASE Crash
  BY <1>6, CrashTypes
<1> QED
  BY <1>1, <1>2, <1>3, <1>4, <1>5, <1>6 DEF Next

LEMMA StutterTypes ==
    ASSUME Types, UNCHANGED vars
    PROVE  Types'
BY DEF Types, TypeOK, CompactionsKnow, vars

-----------------------------------------------------------------------------
(* What a step does to the row of a thread *)

Opens(t) ==
    /\ thread[t].status \in {"absent", "active"}
    /\ thread'[t].status = "active"
    /\ thread'[t].ended = thread[t].ended

Ends(t) == thread[t].status = "active" /\ thread'[t].status = "ended"

Archives(t) ==
    /\ thread'[t].status = "archived"
    /\ thread'[t].ended = thread[t].ended

Moves(t) == thread'[t] = thread[t] \/ Opens(t) \/ Ends(t) \/ Archives(t)

LEMMA TouchOpens ==
    ASSUME Types, OpenHasNoEnd, NEW t \in Thread, thread[t].status \in {"absent", "active"},
           thread' = [thread EXCEPT ![t] = Touched(@)]
    PROVE  \A u \in Thread : Moves(u)
BY DEF Types, TypeOK, OpenHasNoEnd, Row, Touched, Moves, Opens

\* What a crash and the end of the idle threads do, but for the runs.
LEMMA CrashFacts ==
    ASSUME Crash
    PROVE  /\ thread' = thread /\ checkpoint' = checkpoint
           /\ purger' = [p \in Purger |-> <<>>]
           /\ excused' = excused \cup UNION {Range(purger[p]) : p \in Purger}
BY Zenon DEF Crash

LEMMA EndIdleFacts ==
    ASSUME Types, EndIdle
    PROVE  /\ cleaner.at = "ending" /\ cleaner' = [cleaner EXCEPT !.at = "archiving"]
           /\ checkpoint' = checkpoint /\ purger' = purger /\ excused' = excused
           /\ \A t \in Thread : thread'[t] = thread[t] \/ Ends(t)
<1> DEFINE Ended(row) == [row EXCEPT !.status = "ended", !.ended = now]
<1>1. PICK b \in Batches({u \in Thread : IsIdle(u)}, LastOf) :
        thread' = [u \in Thread |-> IF u \in Range(b) THEN Ended(thread[u]) ELSE thread[u]]
  BY Zenon DEF EndIdle
<1>2. Range(b) \subseteq {u \in Thread : IsIdle(u)}
  BY BatchType
<1>3. ASSUME NEW t \in Thread
      PROVE  thread'[t] = thread[t] \/ Ends(t)
  <2>1. CASE t \in Range(b)
    <3>1. thread[t].status = "active"
      BY <1>2, <2>1 DEF IsIdle
    <3>2. Ended(thread[t]).status = "ended"
      BY DEF Types, TypeOK, Row
    <3>3. thread'[t] = Ended(thread[t])
      <4> HIDE DEF Ended
      <4> QED
        BY <1>1, <2>1
    <3> QED
      BY <3>1, <3>2, <3>3, Zenon DEF Ends
  <2>2. CASE t \notin Range(b)
    <3> HIDE DEF Ended
    <3> QED
      BY <1>1, <2>2
  <2> QED
    BY <2>1, <2>2
<1>4. /\ cleaner.at = "ending" /\ cleaner' = [cleaner EXCEPT !.at = "archiving"]
      /\ checkpoint' = checkpoint /\ purger' = purger /\ excused' = excused
  BY Zenon DEF EndIdle
<1> QED
  BY <1>3, <1>4

LEMMA RowMoves ==
    ASSUME Types, OpenHasNoEnd, Next, NEW t \in Thread
    PROVE  Moves(t)
<1> USE DEF Types, TypeOK, Row, ThreadStatus
<1>1. CASE ClientStep
  <2>1. ASSUME NEW u \in Thread, CreateThread(u) \/ Chat(u)
        PROVE  Moves(t)
    BY <2>1, TouchOpens DEF CreateThread, Chat
  <2>2. ASSUME NEW u \in Thread, EndThread(u)
        PROVE  Moves(t)
    BY <2>2 DEF EndThread, Moves, Ends
  <2>3. ASSUME NEW u \in Thread, Verdict(u)
        PROVE  Moves(t)
    BY <2>3 DEF Verdict, Moves
  <2>4. ASSUME NEW u \in Thread, NEW h \in Handler, ArchiveThread(h, u)
        PROVE  Moves(t)
    BY <2>4 DEF ArchiveThread, Moves, Archives
  <2> QED
    BY <1>1, <2>1, <2>2, <2>3, <2>4 DEF ClientStep
<1>2. CASE CreateRun
  BY <1>2 DEF CreateRun, Moves, Opens
<1>3. CASE EndIdle
  BY <1>3, EndIdleFacts DEF Moves
<1>4. CASE ArchiveEnded
  BY <1>4 DEF ArchiveEnded, Moves, Archives
<1>5. CASE Tick \/ RefuseRun \/ Wake \/ CompactNext \/ Sleep \/ Crash
  BY <1>5, CrashFacts DEF Tick, RefuseRun, Wake, CompactNext, Sleep, Moves
<1>6. CASE \E u \in Thread : GraphStep(u)
  BY <1>6 DEF GraphStep, GraphWrite, Interrupt, EndRun, Moves
<1>7. CASE \E p \in Compactor : CompactorStep(p)
  BY <1>7 DEF CompactorStep, ReadState, UpdateState, Moves
<1>8. CASE \E p \in Purger : Purge(p)
  BY <1>8 DEF Purge, Moves
<1>9. CASE \E p \in Purger, deleted \in BOOLEAN : PurgeFails(p, deleted)
  BY <1>9 DEF PurgeFails, Moves
<1> QED
  BY <1>1, <1>2, <1>3, <1>4, <1>5, <1>6, <1>7, <1>8, <1>9
     DEF Next, CleanerStep, PurgeStep, Purger

\* What follows of it.
LEMMA MovesForward ==
    ASSUME Types, OpenHasNoEnd, NEW t \in Thread, Moves(t)
    PROVE  /\ Rank(thread'[t].status) >= Rank(thread[t].status)
           /\ thread[t].ended # Never => thread'[t].ended = thread[t].ended
           /\ thread'[t].status \in {"absent", "active"} => thread'[t].ended = Never
           /\ thread[t].status = "archived" => thread'[t].status = "archived"
<1>1. thread[t].status \in ThreadStatus
  BY DEF Types, TypeOK, Row
<1> QED
  BY <1>1 DEF OpenHasNoEnd, Moves, Opens, Ends, Archives, Rank, ThreadStatus

-----------------------------------------------------------------------------
(* What is to be purged, and what goes *)

Pending(t) == \E p \in Purger : t \in Range(purger[p])

LEMMA SingleRange ==
    ASSUME NEW t
    PROVE  Range(<<t>>) = {t}
BY DEF Range

LEMMA TailStaysArchived ==
    ASSUME Types, PurgedIsArchived, NEW p \in Purger, Purge(p)
    PROVE  /\ PurgedIsArchived'
           /\ \A t \in Thread \ {Head(purger[p])} : Pending(t) => Pending(t)'
           /\ Head(purger[p]) \in Range(purger[p])
<1>1. /\ Range(purger[p]) = {Head(purger[p])} \cup Range(Tail(purger[p]))
      /\ purger' = [purger EXCEPT ![p] = Tail(@)] /\ thread' = thread
      /\ purger \in [Purger -> Seq(Thread)]
  BY RangeOfTail DEF Types, TypeOK, Purge
<1> QED
  BY <1>1 DEF PurgedIsArchived, Pending

LEMMA PurgedStep ==
    ASSUME LifeInv, Next
    PROVE  PurgedIsArchived' /\ PassesAreDone'
<1> USE DEF LifeInv, PassesAreDone
<1>0. \A t \in Thread : thread[t].status = "archived" => thread'[t].status = "archived"
  BY RowMoves, MovesForward
<1>1. purger \in [Purger -> Seq(Thread)] /\ \A p \in Purger : Range(purger[p]) \subseteq Thread
  BY DEF Types, TypeOK, Range
<1>2. CASE purger' = purger /\ (cleaner'.at # "purging" => purger[Cleaner] = <<>>)
  BY <1>0, <1>1, <1>2 DEF PurgedIsArchived
<1>3. ASSUME NEW u \in Thread, NEW h \in Handler, ArchiveThread(h, u)
      PROVE  PurgedIsArchived' /\ PassesAreDone'
  <2>1. /\ purger' = [purger EXCEPT ![h] = <<u>>] /\ cleaner' = cleaner
        /\ thread'[u].status = "archived"
        /\ h \in Purger /\ h # Cleaner
    BY <1>3 DEF ArchiveThread, Purger, Types, TypeOK, Row
  <2> QED
    BY <1>0, <1>1, <2>1, SingleRange DEF PurgedIsArchived
<1>4. CASE ArchiveEnded
  <2>1. PICK b \in Batches({u \in Thread : IsOldEnded(u)}, EndedOf) :
          /\ thread' = [u \in Thread |->
                IF u \in Range(b) THEN [thread[u] EXCEPT !.status = "archived"]
                                  ELSE thread[u]]
          /\ purger' = [purger EXCEPT ![Cleaner] = b]
          /\ cleaner' = [cleaner EXCEPT !.at = "purging"]
    BY <1>4 DEF ArchiveEnded
  <2>2. Range(b) \subseteq {u \in Thread : IsOldEnded(u)}
    BY BatchType
  <2>3. \A u \in Range(b) : thread'[u].status = "archived"
    BY <2>1, <2>2 DEF Types, TypeOK, Row
  <2>4. cleaner'.at = "purging"
    BY <2>1 DEF Types, TypeOK
  <2> QED
    BY <1>0, <1>1, <2>1, <2>3, <2>4 DEF PurgedIsArchived
<1>5. ASSUME NEW p \in Purger, Purge(p)
      PROVE  PurgedIsArchived' /\ PassesAreDone'
  <2>1. PurgedIsArchived'
    BY <1>5, TailStaysArchived
  <2>2. purger' = [purger EXCEPT ![p] = Tail(@)] /\ cleaner' = cleaner /\ purger[p] # <<>>
    BY <1>5 DEF Purge
  <2> QED
    BY <1>1, <2>1, <2>2
<1>11. ASSUME NEW p \in Purger, NEW deleted \in BOOLEAN, PurgeFails(p, deleted)
       PROVE  PurgedIsArchived' /\ PassesAreDone'
  <2>1. /\ purger' = [purger EXCEPT ![p] = <<>>] /\ cleaner' = cleaner /\ purger[p] # <<>>
        /\ thread' = thread
    BY <1>11 DEF PurgeFails
  <2> QED
    BY <1>1, <2>1, EmptyRange DEF PurgedIsArchived
<1>6. CASE Crash
  <2>1. purger' = [p \in Purger |-> <<>>]
    BY <1>6, CrashFacts
  <2> QED
    BY <2>1, EmptyRange DEF PurgedIsArchived, Purger
<1>7. CASE Tick \/ CreateRun \/ RefuseRun \/ Wake \/ CompactNext \/ EndIdle \/ Sleep
  <2>1. CASE Tick \/ CreateRun \/ RefuseRun
    BY <1>2, <2>1 DEF Tick, CreateRun, RefuseRun
  <2>2. CASE Wake
    BY <1>2, <2>2 DEF Wake
  <2>3. CASE CompactNext
    BY <1>2, <2>3 DEF CompactNext
  <2>4. CASE EndIdle
    BY <1>2, <2>4, EndIdleFacts DEF Types
  <2>5. CASE Sleep
    BY <1>2, <2>5 DEF Sleep
  <2> QED
    BY <1>7, <2>1, <2>2, <2>3, <2>4, <2>5
<1>8. ASSUME NEW u \in Thread, CreateThread(u) \/ Chat(u) \/ EndThread(u) \/ Verdict(u)
      PROVE  PurgedIsArchived' /\ PassesAreDone'
  BY <1>2, <1>8 DEF CreateThread, Chat, EndThread, Verdict
<1>9. CASE \E u \in Thread : GraphStep(u)
  BY <1>2, <1>9 DEF GraphStep, GraphWrite, Interrupt, EndRun
<1>10. CASE \E p \in Compactor : CompactorStep(p)
  BY <1>2, <1>10 DEF CompactorStep, ReadState, UpdateState
<1> QED
  BY <1>3, <1>4, <1>5, <1>6, <1>7, <1>8, <1>9, <1>10, <1>11
     DEF Next, ClientStep, CleanerStep, PurgeStep, Purger

\* A compaction neither brings rows nor takes them.
LEMMA CompactionKeepsRows ==
    ASSUME Types, NEW p \in Compactor, CompactorStep(p), NEW t \in Thread
    PROVE  checkpoint'[t].rows = checkpoint[t].rows
<1>1. CASE ReadState(p)
  BY <1>1 DEF ReadState
<1>2. CASE UpdateState(p)
  <2> DEFINE u == compaction[p].of
             c == checkpoint[u]
             new == [c EXCEPT !.turns = c.turns \ compaction[p].prefix, !.summary = TRUE]
  <2>1. u \in Thread /\ c \in Checkpoint
    BY <1>2 DEF UpdateState, Types, TypeOK, CompactionsKnow
  <2>2. new.rows = c.rows
    BY <2>1 DEF Checkpoint
  <2>3. checkpoint' = [checkpoint EXCEPT ![u] =
                          IF compaction[p].prefix \subseteq c.turns THEN new ELSE c]
    BY <1>2 DEF UpdateState
  <2> HIDE DEF new
  <2> QED
    BY <2>1, <2>2, <2>3 DEF Types, TypeOK
<1> QED
  BY <1>1, <1>2 DEF CompactorStep

\* Rows disappear by a purge only, and only those of its thread.
LEMMA RowsGoByPurge ==
    ASSUME LifeInv, Next, NEW t \in Thread, checkpoint[t].rows, ~checkpoint'[t].rows
    PROVE  thread[t].status = "archived"
<1> USE DEF LifeInv, Types, TypeOK, Checkpoint
<1>1. CASE \E u \in Thread : GraphStep(u)
  <2>1. PICK u \in Thread : GraphStep(u)
    BY <1>1
  <2>2. GraphWrite(u) \/ EndRun(u, TRUE) \/ checkpoint' = checkpoint
    BY <2>1 DEF GraphStep, Interrupt, EndRun
  <2>3. CASE GraphWrite(u)
    <3>1. checkpoint' = [checkpoint EXCEPT ![u] =
            [rows |-> TRUE, turns |-> run[u].graph, next |-> TRUE,
             summary |-> checkpoint[u].summary]]
      BY <2>3 DEF GraphWrite
    <3> QED
      BY <3>1
  <2>4. CASE EndRun(u, TRUE)
    <3>1. checkpoint' = [checkpoint EXCEPT ![u] =
            [rows |-> TRUE, turns |-> run[u].graph, next |-> FALSE,
             summary |-> checkpoint[u].summary]]
      BY <2>4 DEF EndRun
    <3> QED
      BY <3>1
  <2> QED
    BY <2>2, <2>3, <2>4
<1>2. CASE \E p \in Compactor : CompactorStep(p)
  <2>1. PICK p \in Compactor : CompactorStep(p)
    BY <1>2
  <2> QED
    BY <2>1, CompactionKeepsRows
<1>3. CASE \E p \in Purger : Purge(p)
  <2>1. PICK p \in Purger : Purge(p)
    BY <1>3
  <2>2. t = Head(purger[p])
    BY <2>1 DEF Purge
  <2>3. t \in Range(purger[p])
    BY <2>1, <2>2, TailStaysArchived
  <2> QED
    BY <2>3 DEF PurgedIsArchived
<1>7. ASSUME NEW p \in Purger, NEW deleted \in BOOLEAN, PurgeFails(p, deleted)
      PROVE  thread[t].status = "archived"
  <2>1. t = Head(purger[p]) /\ t \in Range(purger[p])
    BY <1>7, FailureFacts
  <2> QED
    BY <2>1 DEF PurgedIsArchived
<1>4. CASE ClientStep
  <2>1. checkpoint' = checkpoint
    BY <1>4, Zenon DEF ClientStep, CreateThread, Chat, EndThread, Verdict, ArchiveThread
  <2> QED
    BY <2>1
<1>5. CASE Tick \/ CreateRun \/ RefuseRun \/ Crash
  <2>1. checkpoint' = checkpoint
    BY <1>5, Zenon DEF Tick, CreateRun, RefuseRun, Crash
  <2> QED
    BY <2>1
<1>6. CASE Wake \/ CompactNext \/ EndIdle \/ ArchiveEnded \/ Sleep
  <2>1. checkpoint' = checkpoint
    BY <1>6, Zenon DEF Wake, CompactNext, EndIdle, ArchiveEnded, Sleep
  <2> QED
    BY <2>1
<1> QED
  BY <1>1, <1>2, <1>3, <1>4, <1>5, <1>6, <1>7
     DEF Next, CleanerStep, PurgeStep, Purger

-----------------------------------------------------------------------------
(* What is left over *)

Left(t) == thread[t].status = "archived" /\ checkpoint[t].rows /\ ~Pending(t)

\* Why a thread whose rows are left was already one of those: nothing that
\* concerns it has changed.
LEMMA LeftBefore ==
    ASSUME LifeInv, NEW t \in Thread, Left(t)',
           thread[t].status = "archived", checkpoint[t].rows, ~Pending(t),
           excused \subseteq excused'
    PROVE  t \in excused'
BY DEF LifeInv, LeftoverHasACause, Pending

LEMMA LeftoverStep ==
    ASSUME LifeInv, Next, NEW t \in Thread, Left(t)'
    PROVE  t \in excused'
<1> USE DEF Left
<1>0. Types
  BY DEF LifeInv
<1>1. ASSUME NEW u \in Thread, NEW h \in Handler, ArchiveThread(h, u)
      PROVE  t \in excused'
  <2>1. h \in Purger /\ purger' = [purger EXCEPT ![h] = <<u>>] /\ purger[h] = <<>>
    BY <1>1 DEF ArchiveThread, Purger
  <2>2. t # u
    BY <2>1, <1>0, SingleRange DEF Pending, Types, TypeOK
  <2>3. ~Pending(t)
    BY <2>1, <1>0, EmptyRange DEF Pending, Types, TypeOK
  <2> QED
    BY <1>0, <1>1, <2>2, <2>3, LeftBefore DEF ArchiveThread, Types, TypeOK
<1>2. CASE ArchiveEnded
  <2>1. PICK b \in Batches({u \in Thread : IsOldEnded(u)}, EndedOf) :
          /\ thread' = [u \in Thread |->
                IF u \in Range(b) THEN [thread[u] EXCEPT !.status = "archived"]
                                  ELSE thread[u]]
          /\ purger' = [purger EXCEPT ![Cleaner] = b]
    BY <1>2 DEF ArchiveEnded
  <2>2. Cleaner \in Purger /\ purger[Cleaner] = <<>>
    BY <1>2 DEF ArchiveEnded, LifeInv, PassesAreDone, Purger
  <2>3. t \notin Range(b)
    BY <2>1, <2>2, <1>0 DEF Pending, Types, TypeOK
  <2>4. ~Pending(t)
    BY <2>1, <2>2, <1>0, EmptyRange DEF Pending, Types, TypeOK
  <2> QED
    BY <1>2, <2>1, <2>3, <2>4, LeftBefore DEF ArchiveEnded
<1>3. ASSUME NEW p \in Purger, Purge(p)
      PROVE  t \in excused'
  <2>1. t # Head(purger[p])
    BY <1>0, <1>3 DEF Purge, NoCheckpoint, Types, TypeOK
  <2>2. ~Pending(t)
    BY <1>0, <1>3, <2>1, TailStaysArchived DEF LifeInv
  <2> QED
    BY <1>0, <1>3, <2>1, <2>2, LeftBefore DEF Purge, Types, TypeOK
<1>8. ASSUME NEW p \in Purger, NEW deleted \in BOOLEAN, PurgeFails(p, deleted)
      PROVE  t \in excused'
  <2>1. CASE t \in Range(purger[p])
    BY <1>0, <1>8, <2>1, FailureFacts
  <2>2. CASE t \notin Range(purger[p])
    <3>0. /\ Head(purger[p]) \in Range(purger[p]) /\ thread' = thread
          /\ \/ checkpoint' = checkpoint
             \/ checkpoint' = [checkpoint EXCEPT ![Head(purger[p])] = NoCheckpoint]
          /\ purger' = [purger EXCEPT ![p] = <<>>] /\ excused \subseteq excused'
      BY <1>0, <1>8, FailureFacts
    <3>1. ~Pending(t)
      BY <1>0, <2>2, <3>0 DEF Pending, Types, TypeOK
    <3>2. checkpoint'[t] = checkpoint[t] /\ thread' = thread /\ excused \subseteq excused'
      BY <1>0, <2>2, <3>0 DEF Types, TypeOK
    <3> QED
      BY <3>1, <3>2, LeftBefore
  <2> QED
    BY <2>1, <2>2
<1>4. CASE Crash
  <2>1. CASE Pending(t)
    BY <1>4, <2>1, CrashFacts DEF Pending
  <2>2. CASE ~Pending(t)
    BY <1>4, <2>2, CrashFacts, LeftBefore
  <2> QED
    BY <2>1, <2>2
<1>5. ASSUME NEW u \in Thread, GraphStep(u)
      PROVE  t \in excused'
  <2>1. ~Pending(t) /\ thread' = thread /\ excused \subseteq excused'
    BY <1>5 DEF GraphStep, GraphWrite, Interrupt, EndRun, Pending
  <2>2. CASE checkpoint'[t] = checkpoint[t]
    BY <2>1, <2>2, LeftBefore
  <2>3. CASE checkpoint'[t] # checkpoint[t]
    <3>1. t = u /\ (GraphWrite(u) \/ EndRun(u, TRUE))
      BY <1>0, <1>5, <2>3 DEF GraphStep, GraphWrite, Interrupt, EndRun, Types, TypeOK
    <3> QED
      BY <2>1, <3>1 DEF GraphWrite, EndRun
  <2> QED
    BY <2>2, <2>3
<1>6. ASSUME NEW p \in Compactor, CompactorStep(p)
      PROVE  t \in excused'
  <2>1. ~Pending(t) /\ thread' = thread /\ excused' = excused
    BY <1>6 DEF CompactorStep, ReadState, UpdateState, Pending
  <2>2. checkpoint[t].rows
    BY <1>0, <1>6, CompactionKeepsRows
  <2> QED
    BY <2>1, <2>2, LeftBefore
<1>7. CASE \/ Tick \/ CreateRun \/ RefuseRun \/ Wake \/ CompactNext \/ EndIdle \/ Sleep
           \/ \E u \in Thread : CreateThread(u) \/ Chat(u) \/ EndThread(u) \/ Verdict(u)
  <2>1. checkpoint' = checkpoint /\ purger' = purger /\ excused' = excused
    BY <1>7, EndIdleFacts, <1>0, Zenon
       DEF Tick, CreateRun, RefuseRun, Wake, CompactNext, Sleep, CreateThread, Chat,
           EndThread, Verdict
  <2>2. thread[t].status = "archived"
    <3>1. CASE Tick \/ RefuseRun \/ Wake \/ CompactNext \/ Sleep \/ \E u \in Thread : Verdict(u)
      <4>1. thread' = thread
        BY <3>1, Zenon DEF Tick, RefuseRun, Wake, CompactNext, Sleep, Verdict
      <4> QED
        BY <4>1
    <3>2. CASE CreateRun
      <4>1. chat \in Thread /\ thread[chat].status = "active"
        BY <1>0, <3>2 DEF CreateRun, Types, TypeOK
      <4>2. [thread[chat] EXCEPT !.last = now].status = "active"
        BY <1>0, <4>1 DEF Types, TypeOK, Row
      <4>3. thread' = [thread EXCEPT ![chat] = [thread[chat] EXCEPT !.last = now]]
        BY <3>2 DEF CreateRun
      <4> QED
        BY <1>0, <4>1, <4>2, <4>3 DEF Types, TypeOK
    <3>3. CASE EndIdle
      BY <1>0, <3>3, EndIdleFacts DEF Ends
    <3>4. ASSUME NEW u \in Thread, CreateThread(u) \/ Chat(u)
          PROVE  thread[t].status = "archived"
      <4>1. /\ thread[u].status \in {"absent", "active"}
            /\ thread' = [thread EXCEPT ![u] = Touched(thread[u])]
        BY <3>4 DEF CreateThread, Chat
      <4>2. Touched(thread[u]).status = "active"
        BY <1>0, <4>1 DEF Touched, Types, TypeOK, Row
      <4> QED
        BY <1>0, <4>1, <4>2 DEF Types, TypeOK
    <3>5. ASSUME NEW u \in Thread, EndThread(u)
          PROVE  thread[t].status = "archived"
      <4>1. thread' = [thread EXCEPT ![u] =
                          [thread[u] EXCEPT !.status = "ended", !.ended = now]]
        BY <3>5 DEF EndThread
      <4>2. [thread[u] EXCEPT !.status = "ended", !.ended = now].status = "ended"
        BY <1>0 DEF Types, TypeOK, Row
      <4> QED
        BY <1>0, <4>1, <4>2 DEF Types, TypeOK
    <3> QED
      BY <1>7, <3>1, <3>2, <3>3, <3>4, <3>5
  <2> QED
    BY <2>1, <2>2, LeftBefore DEF Pending
<1> QED
  BY <1>1, <1>2, <1>3, <1>4, <1>5, <1>6, <1>7, <1>8
     DEF Next, ClientStep, CleanerStep, PurgeStep, Purger

-----------------------------------------------------------------------------
(* Theorems *)

LEMMA InitInv == Init => LifeInv
<1> SUFFICES ASSUME Init PROVE LifeInv
  OBVIOUS
<1>1. Types
  BY InitTypes
<1>2. OpenHasNoEnd /\ LeftoverHasACause
  BY DEF Init, OpenHasNoEnd, LeftoverHasACause, NoCheckpoint
<1>3. PurgedIsArchived /\ PassesAreDone
  BY EmptyRange DEF Init, PurgedIsArchived, PassesAreDone, Purger
<1> QED
  BY <1>1, <1>2, <1>3 DEF LifeInv

LEMMA StepInv == LifeInv /\ [Next]_vars => LifeInv'
<1>1. ASSUME LifeInv, Next
      PROVE  LifeInv'
  <2>1. Types'
    BY <1>1, NextTypes DEF LifeInv
  <2>2. OpenHasNoEnd'
    BY <1>1, RowMoves, MovesForward DEF LifeInv, OpenHasNoEnd
  <2>3. PurgedIsArchived' /\ PassesAreDone'
    BY <1>1, PurgedStep
  <2>4. LeftoverHasACause'
    <3>1. \A t \in Thread : Left(t)' => t \in excused'
      BY <1>1, LeftoverStep
    <3> QED
      BY <3>1 DEF LeftoverHasACause, Left, Pending
  <2> QED
    BY <2>1, <2>2, <2>3, <2>4 DEF LifeInv
<1>2. ASSUME LifeInv, UNCHANGED vars
      PROVE  LifeInv'
  <2>1. Types'
    BY <1>2, StutterTypes DEF LifeInv
  <2> QED
    BY <1>2, <2>1 DEF LifeInv, vars, OpenHasNoEnd, PurgedIsArchived, PassesAreDone,
       LeftoverHasACause
<1> QED
  BY <1>1, <1>2

\* Threads, runs, checkpoints and what the cleaner and the handlers hold have their
\* types, with every batch a sequence of threads.
THEOREM TypeCorrectness == Spec => []TypeOK
<1>1. LifeInv => TypeOK
  BY DEF LifeInv, Types
<1> QED
  BY InitInv, StepInv, <1>1, PTL DEF Spec

\* A thread goes from active to ended to archived and never back, and its end is
\* written once, whatever the chat handler, the end and archive handlers and the
\* cleaner do between one another's commits.
THEOREM ForwardOnly == Spec => ThreadsMoveForward
<1> DEFINE Forward ==
        \A t \in Thread :
            /\ Rank(thread'[t].status) >= Rank(thread[t].status)
            /\ thread[t].ended # Never => thread'[t].ended = thread[t].ended
<1>1. LifeInv /\ [Next]_vars => [Forward]_vars
  BY RowMoves, MovesForward DEF LifeInv
<1>2. Spec => [][Forward]_vars
  BY InitInv, StepInv, <1>1, PTL DEF Spec
<1> QED
  BY <1>2 DEF ThreadsMoveForward

\* A purge by the cleaner or a handler finds its thread archived: the rows of a
\* checkpoint never go before the archive is committed.
THEOREM PurgeAfterArchive == Spec => OnlyArchivedIsPurged
<1> DEFINE Purged ==
        \A t \in Thread :
            (checkpoint[t].rows /\ ~checkpoint'[t].rows) => thread[t].status = "archived"
<1>1. LifeInv /\ [Next]_vars => [Purged]_vars
  BY RowsGoByPurge
<1>2. Spec => [][Purged]_vars
  BY InitInv, StepInv, <1>1, PTL DEF Spec
<1> QED
  BY <1>2 DEF OnlyArchivedIsPurged

\* Rows left under an archived thread come from a crash before the purge, from a
\* purge of the batch that failed, or from a run that still wrote; overlapping
\* purges, compactions and passes leave none.
THEOREM LeftoversAreExcused == Spec => []LeftoverHasACause
<1>1. LifeInv => LeftoverHasACause
  BY DEF LifeInv
<1> QED
  BY InitInv, StepInv, <1>1, PTL DEF Spec

-----------------------------------------------------------------------------
(* The turns a compaction removes *)

\* What a thread has stored, and what a graph at work holds, are turns it had; the
\* graph holds all that is stored.
TurnsKnown ==
    \A t \in Thread :
        /\ checkpoint[t].turns \subseteq 1..run[t].turn
        /\ run[t].graph \subseteq 1..run[t].turn
        /\ run[t].state = "working" => checkpoint[t].turns \subseteq run[t].graph

\* Where the turns of old are all still there, none of them is a recent one.
MayGo(old, turns) == old \subseteq turns => old \subseteq Prefix(turns)

\* What a compaction is about to remove may go from the checkpoint, and from what the
\* graph will store over it.
PrefixesFit ==
    \A p \in Compactor : compaction[p].at = "writing" =>
        LET t == compaction[p].of
        IN /\ compaction[p].prefix \subseteq 1..run[t].turn
           /\ MayGo(compaction[p].prefix, checkpoint[t].turns)
           /\ run[t].state = "working" => MayGo(compaction[p].prefix, run[t].graph)

TurnInv == Types /\ TurnsKnown /\ PrefixesFit

LEMMA PrefixIsPart ==
    ASSUME NEW X
    PROVE  Prefix(X) \subseteq X
BY DEF Prefix

\* Turns that are added come after, or leave as many behind as before.
LEMMA PrefixGrows ==
    ASSUME NEW X, NEW Y, X \subseteq Y, Y \subseteq Nat, IsFiniteSet(Y)
    PROVE  Prefix(X) \subseteq Prefix(Y)
<1> SUFFICES ASSUME NEW n \in Prefix(X) PROVE n \in Prefix(Y)
  OBVIOUS
<1> DEFINE A == {m \in X : m > n}
           B == {m \in Y : m > n}
<1>1. n \in X /\ Cardinality(A) >= KeepTurns
  BY DEF Prefix
<1>2. A \subseteq B /\ B \subseteq Y
  OBVIOUS
<1> HIDE DEF A, B
<1>3. IsFiniteSet(A) /\ IsFiniteSet(B) /\ Cardinality(A) <= Cardinality(B)
  BY <1>2, FS_Subset
<1>4. Cardinality(A) \in Nat /\ Cardinality(B) \in Nat /\ KeepTurns \in Nat
  BY <1>3, FS_CardinalityType
<1>5. Cardinality(B) >= KeepTurns
  BY <1>1, <1>3, <1>4
<1> QED
  BY <1>1, <1>5 DEF Prefix, B

\* A nonempty set of turns has a last one.
LEMMA LastTurn ==
    ASSUME NEW k \in Nat, NEW X, X \subseteq 1..k, X # {}
    PROVE  \E last \in X : \A n \in X : n <= last
<1> DEFINE R == {ss \in Nat \X Nat : ss[1] < ss[2]}
           After == {k - n : n \in X}
<1>1. IsWellFoundedOn(R, Nat)
  <2>1. OpToRel(<, Nat) = R
    BY Zenon DEF OpToRel
  <2> HIDE DEF R
  <2> QED
    BY <2>1, NatLessThanWellFounded, Zenon
<1>2. After \subseteq Nat /\ After # {}
  <2>1. PICK n \in X : TRUE
    OBVIOUS
  <2>2. k - n \in After
    BY <2>1
  <2> QED
    BY <2>2
<1>3. \E c \in After : \A d \in After : <<d, c>> \notin R
  <2> HIDE DEF R, After
  <2> QED
    BY <1>1, <1>2, WFMin
<1>4. PICK last \in X : \A d \in After : <<d, k - last>> \notin R
  BY <1>3
<1>5. ASSUME NEW n \in X PROVE n <= last
  <2>1. n \in 1..k /\ last \in 1..k /\ k - n \in After
    OBVIOUS
  <2>2. ~(k - n < k - last)
    <3>1. <<k - n, k - last>> \notin R
      BY <1>4, <2>1
    <3>2. k - n \in Nat /\ k - last \in Nat
      BY <2>1
    <3> HIDE DEF After
    <3> QED
      BY <3>1, <3>2
  <2> QED
    BY <2>1, <2>2
<1> QED
  BY <1>5

\* When turns of the prefix go, the rest of the prefix stays one: the turns after the
\* last of the prefix are enough, and none of them goes.
LEMMA PrefixShrinks ==
    ASSUME NEW k \in Nat, NEW X, X \subseteq 1..k, NEW old, old \subseteq Prefix(X)
    PROVE  Prefix(X) \ old \subseteq Prefix(X \ old)
<1> SUFFICES ASSUME NEW n \in Prefix(X), n \notin old
             PROVE  n \in Prefix(X \ old)
  OBVIOUS
<1>1. Prefix(X) \subseteq 1..k /\ n \in X
  BY PrefixIsPart
<1>2. PICK last \in Prefix(X) : \A m \in Prefix(X) : m <= last
  BY <1>1, LastTurn
<1> DEFINE A == {m \in X : m > last}
           B == {m \in X \ old : m > n}
<1>3. Cardinality(A) >= KeepTurns
  BY <1>2 DEF Prefix
<1>4. A \subseteq B
  <2>1. ASSUME NEW m \in X, m > last PROVE m \notin old /\ m > n
    <3>1. n \in 1..k /\ m \in 1..k /\ last \in 1..k /\ n <= last
      BY <1>1, <1>2
    <3>2. m \notin Prefix(X)
      BY <1>2, <2>1, <3>1
    <3> QED
      BY <2>1, <3>1, <3>2
  <2> QED
    BY <2>1
<1>5. IsFiniteSet(1..k) /\ B \subseteq 1..k
  <2>1. IsFiniteSet(1..k)
    BY FS_Interval
  <2> QED
    BY <2>1
<1> HIDE DEF A, B
<1>6. IsFiniteSet(B) /\ IsFiniteSet(A) /\ Cardinality(A) <= Cardinality(B)
  BY <1>4, <1>5, FS_Subset
<1>7. Cardinality(A) \in Nat /\ Cardinality(B) \in Nat /\ KeepTurns \in Nat
  BY <1>6, FS_CardinalityType
<1>8. Cardinality(B) >= KeepTurns
  BY <1>3, <1>6, <1>7
<1> QED
  BY <1>1, <1>8 DEF Prefix, B

LEMMA TurnsAreFinite ==
    ASSUME NEW k \in Nat, NEW X, X \subseteq 1..k
    PROVE  IsFiniteSet(X) /\ X \subseteq Nat
<1>1. IsFiniteSet(1..k)
  BY FS_Interval
<1>2. IsFiniteSet(X)
  BY <1>1, FS_Subset
<1> QED
  BY <1>2

\* What may go still may when other old turns have gone, and when a run adds its own.
LEMMA MayGoAfterRemoval ==
    ASSUME NEW k \in Nat, NEW X, X \subseteq 1..k, NEW gone, gone \subseteq Prefix(X),
           NEW old, MayGo(old, X)
    PROVE  MayGo(old, X \ gone)
<1> SUFFICES ASSUME old \subseteq X \ gone PROVE old \subseteq Prefix(X \ gone)
  BY DEF MayGo
<1>1. old \subseteq Prefix(X)
  BY DEF MayGo
<1>2. Prefix(X) \ gone \subseteq Prefix(X \ gone)
  BY PrefixShrinks
<1> QED
  BY <1>1, <1>2

LEMMA MayGoAfterStart ==
    ASSUME NEW k \in Nat, NEW X, X \subseteq 1..k, NEW old, old \subseteq 1..k, MayGo(old, X)
    PROVE  MayGo(old, X \cup {k + 1})
<1> SUFFICES ASSUME old \subseteq X \cup {k + 1} PROVE old \subseteq Prefix(X \cup {k + 1})
  BY DEF MayGo
<1>1. old \subseteq X
  <2>1. k + 1 \notin 1..k
    OBVIOUS
  <2> QED
    BY <2>1
<1>2. old \subseteq Prefix(X)
  BY <1>1 DEF MayGo
<1>3. X \cup {k + 1} \subseteq 1..(k + 1) /\ k + 1 \in Nat
  OBVIOUS
<1>4. IsFiniteSet(X \cup {k + 1}) /\ X \cup {k + 1} \subseteq Nat
  BY <1>3, TurnsAreFinite
<1>5. Prefix(X) \subseteq Prefix(X \cup {k + 1})
  BY <1>4, PrefixGrows
<1> QED
  BY <1>2, <1>5

LEMMA NothingMayGo ==
    ASSUME NEW old
    PROVE  MayGo(old, {})
BY DEF MayGo

-----------------------------------------------------------------------------
(* What a step does to the turns of a thread *)

SameTurns(t) == checkpoint'[t].turns = checkpoint[t].turns

\* The graph goes on as it was, or is gone.
Keeps(t) ==
    /\ SameTurns(t)
    /\ run'[t].turn = run[t].turn
    /\ run'[t].graph \in {run[t].graph, {}}
    /\ run'[t].state = "working" =>
          run[t].state = "working" /\ run'[t].graph = run[t].graph

Starts(t) ==
    /\ SameTurns(t)
    /\ run'[t].turn = run[t].turn + 1
    /\ run'[t].graph = checkpoint[t].turns \cup {run[t].turn + 1}

Resumes(t) ==
    /\ SameTurns(t)
    /\ run'[t].turn = run[t].turn
    /\ run'[t].graph = checkpoint[t].turns

Stores(t) ==
    /\ run[t].state = "working"
    /\ checkpoint'[t].turns = run[t].graph
    /\ run'[t].turn = run[t].turn
    /\ run'[t].graph \in {run[t].graph, {}}
    /\ run'[t].state = "working" => run'[t].graph = run[t].graph

Compacts(t, p) ==
    /\ compaction[p].at = "writing" /\ compaction[p].of = t
    /\ compaction[p].prefix \subseteq checkpoint[t].turns
    /\ checkpoint'[t].turns = checkpoint[t].turns \ compaction[p].prefix
    /\ run'[t] = run[t]

Loses(t) ==
    /\ checkpoint'[t].turns = {} /\ ~checkpoint'[t].rows
    /\ run'[t] = run[t]

TurnsMove(t) ==
    \/ Keeps(t) \/ Starts(t) \/ Resumes(t) \/ Stores(t) \/ Loses(t)
    \/ \E p \in Compactor : Compacts(t, p)

LEMMA UntouchedKeeps ==
    ASSUME NEW t \in Thread, checkpoint'[t] = checkpoint[t], run'[t] = run[t]
    PROVE  TurnsMove(t)
BY DEF TurnsMove, Keeps, SameTurns

LEMMA GraphMoves ==
    ASSUME Types, NEW u \in Thread, GraphStep(u), NEW t \in Thread
    PROVE  TurnsMove(t)
<1> USE DEF Types, TypeOK
<1>1. CASE GraphWrite(u)
  <2>1. checkpoint' = [checkpoint EXCEPT ![u] =
          [rows |-> TRUE, turns |-> run[u].graph, next |-> TRUE,
           summary |-> checkpoint[u].summary]] /\ run' = run /\ run[u].state = "working"
    BY <1>1 DEF GraphWrite
  <2> QED
    BY <2>1, UntouchedKeeps DEF TurnsMove, Stores
<1>2. CASE Interrupt(u)
  <2>1. /\ checkpoint' = checkpoint
        /\ run' = [run EXCEPT ![u] = [run[u] EXCEPT !.state = "waiting", !.graph = {}]]
    BY <1>2 DEF Interrupt
  <2>2. /\ [run[u] EXCEPT !.state = "waiting", !.graph = {}].state = "waiting"
        /\ [run[u] EXCEPT !.state = "waiting", !.graph = {}].turn = run[u].turn
        /\ [run[u] EXCEPT !.state = "waiting", !.graph = {}].graph = {}
    BY DEF RunOf
  <2> QED
    BY <2>1, <2>2, UntouchedKeeps DEF TurnsMove, Keeps, SameTurns
<1>3. ASSUME NEW finished \in BOOLEAN, EndRun(u, finished)
      PROVE  TurnsMove(t)
  <2>1. /\ run[u].state = "working"
        /\ run' = [run EXCEPT ![u] = [run[u] EXCEPT !.state = "over", !.graph = {}]]
    BY <1>3 DEF EndRun
  <2>2. /\ [run[u] EXCEPT !.state = "over", !.graph = {}].state = "over"
        /\ [run[u] EXCEPT !.state = "over", !.graph = {}].turn = run[u].turn
        /\ [run[u] EXCEPT !.state = "over", !.graph = {}].graph = {}
    BY DEF RunOf
  <2>3. CASE finished
    <3>1. checkpoint' = [checkpoint EXCEPT ![u] =
            [rows |-> TRUE, turns |-> run[u].graph, next |-> FALSE,
             summary |-> checkpoint[u].summary]]
      BY <1>3, <2>3 DEF EndRun
    <3> QED
      BY <2>1, <2>2, <3>1, UntouchedKeeps DEF TurnsMove, Stores
  <2>4. CASE ~finished
    <3>1. checkpoint' = checkpoint
      BY <1>3, <2>4 DEF EndRun
    <3> QED
      BY <2>1, <2>2, <3>1, UntouchedKeeps DEF TurnsMove, Keeps, SameTurns
  <2> QED
    BY <2>3, <2>4
<1> QED
  BY <1>1, <1>2, <1>3 DEF GraphStep

LEMMA CompactorMoves ==
    ASSUME Types, NEW p \in Compactor, CompactorStep(p), NEW t \in Thread
    PROVE  TurnsMove(t)
<1> USE DEF Types, TypeOK
<1>1. CASE ReadState(p)
  BY <1>1, UntouchedKeeps DEF ReadState
<1>2. CASE UpdateState(p)
  <2> DEFINE u == compaction[p].of
             c == checkpoint[u]
             new == [c EXCEPT !.turns = c.turns \ compaction[p].prefix, !.summary = TRUE]
  <2>1. u \in Thread /\ c \in Checkpoint /\ compaction[p].at = "writing" /\ run' = run
    BY <1>2 DEF UpdateState, CompactionsKnow
  <2>2. new.turns = c.turns \ compaction[p].prefix
    BY <2>1 DEF Checkpoint
  <2>3. checkpoint' = [checkpoint EXCEPT ![u] =
                          IF compaction[p].prefix \subseteq c.turns THEN new ELSE c]
    BY <1>2 DEF UpdateState
  <2> HIDE DEF new
  <2>4. CASE t # u \/ ~(compaction[p].prefix \subseteq c.turns)
    BY <2>1, <2>3, <2>4, UntouchedKeeps
  <2>5. CASE t = u /\ compaction[p].prefix \subseteq c.turns
    <3>1. checkpoint'[t] = new
      BY <2>1, <2>3, <2>5
    <3> QED
      BY <2>1, <2>2, <2>5, <3>1 DEF TurnsMove, Compacts
  <2> QED
    BY <2>4, <2>5
<1> QED
  BY <1>1, <1>2 DEF CompactorStep

LEMMA RequestsMove ==
    ASSUME Types, NEW t \in Thread,
           CreateRun \/ Crash \/ \E u \in Thread : Verdict(u)
    PROVE  TurnsMove(t)
<1> USE DEF Types, TypeOK
<1>1. CASE CreateRun
  <2>1. /\ chat \in Thread /\ checkpoint' = checkpoint
        /\ run' = [run EXCEPT ![chat] =
              [state |-> "working", turn |-> run[chat].turn + 1,
               graph |-> checkpoint[chat].turns \cup {run[chat].turn + 1}]]
    BY <1>1 DEF CreateRun
  <2> QED
    BY <2>1, UntouchedKeeps DEF TurnsMove, Starts, SameTurns
<1>2. CASE Crash
  <2>1. checkpoint' = checkpoint
    BY <1>2, CrashFacts
  <2>2. run'[t] = IF run[t].state = "working"
                  THEN [run[t] EXCEPT !.state = "over", !.graph = {}] ELSE run[t]
    BY <1>2 DEF Crash
  <2>3. /\ [run[t] EXCEPT !.state = "over", !.graph = {}].state = "over"
        /\ [run[t] EXCEPT !.state = "over", !.graph = {}].turn = run[t].turn
        /\ [run[t] EXCEPT !.state = "over", !.graph = {}].graph = {}
    BY DEF RunOf
  <2> QED
    BY <2>1, <2>2, <2>3 DEF TurnsMove, Keeps, SameTurns
<1>3. ASSUME NEW u \in Thread, Verdict(u)
      PROVE  TurnsMove(t)
  <2>1. /\ checkpoint' = checkpoint
        /\ run' = [run EXCEPT ![u] =
              IF checkpoint[u].rows
              THEN [run[u] EXCEPT !.state = "working", !.graph = checkpoint[u].turns]
              ELSE [run[u] EXCEPT !.state = "over"]]
    BY <1>3 DEF Verdict
  <2>2. /\ [run[u] EXCEPT !.state = "working", !.graph = checkpoint[u].turns].turn = run[u].turn
        /\ [run[u] EXCEPT !.state = "working", !.graph = checkpoint[u].turns].graph
               = checkpoint[u].turns
        /\ [run[u] EXCEPT !.state = "over"].state = "over"
        /\ [run[u] EXCEPT !.state = "over"].turn = run[u].turn
        /\ [run[u] EXCEPT !.state = "over"].graph = run[u].graph
    BY DEF RunOf
  <2>3. CASE t # u
    BY <2>1, <2>3, UntouchedKeeps
  <2>4. CASE t = u /\ checkpoint[u].rows
    BY <2>1, <2>2, <2>4 DEF TurnsMove, Resumes, SameTurns
  <2>5. CASE t = u /\ ~checkpoint[u].rows
    BY <2>1, <2>2, <2>5 DEF TurnsMove, Keeps, SameTurns
  <2> QED
    BY <2>3, <2>4, <2>5
<1> QED
  BY <1>1, <1>2, <1>3

LEMMA StepMovesTurns ==
    ASSUME Types, Next, NEW t \in Thread
    PROVE  TurnsMove(t)
<1>1. CASE \E u \in Thread : GraphStep(u)
  BY <1>1, GraphMoves
<1>2. CASE \E p \in Compactor : CompactorStep(p)
  BY <1>2, CompactorMoves
<1>3. CASE CreateRun \/ Crash \/ \E u \in Thread : Verdict(u)
  BY <1>3, RequestsMove
<1>4. ASSUME NEW p \in Purger, Purge(p)
      PROVE  TurnsMove(t)
  <2>1. checkpoint' = [checkpoint EXCEPT ![Head(purger[p])] = NoCheckpoint] /\ run' = run
    BY <1>4 DEF Purge
  <2> QED
    BY <2>1, UntouchedKeeps DEF TurnsMove, Loses, NoCheckpoint, Types, TypeOK
<1>6. ASSUME NEW p \in Purger, NEW deleted \in BOOLEAN, PurgeFails(p, deleted)
      PROVE  TurnsMove(t)
  <2>1. run' = run
    BY <1>6, FailureFacts
  <2>2. \/ checkpoint' = checkpoint
        \/ checkpoint' = [checkpoint EXCEPT ![Head(purger[p])] = NoCheckpoint]
    BY <1>6, FailureFacts
  <2> QED
    BY <2>1, <2>2, UntouchedKeeps DEF TurnsMove, Loses, NoCheckpoint, Types, TypeOK
<1>5. CASE \/ \E u \in Thread : CreateThread(u) \/ Chat(u) \/ EndThread(u)
           \/ \E u \in Thread, h \in Handler : ArchiveThread(h, u)
           \/ Tick \/ RefuseRun \/ Wake \/ CompactNext \/ EndIdle \/ ArchiveEnded \/ Sleep
  <2>1. checkpoint' = checkpoint /\ run' = run
    BY <1>5, Zenon DEF CreateThread, Chat, EndThread, ArchiveThread, Tick, RefuseRun, Wake,
       CompactNext, EndIdle, ArchiveEnded, Sleep
  <2> QED
    BY <2>1, UntouchedKeeps
<1> QED
  BY <1>1, <1>2, <1>3, <1>4, <1>5, <1>6
     DEF Next, ClientStep, CleanerStep, PurgeStep, Purger

-----------------------------------------------------------------------------
(* Recent turns stay *)

\* Who is about to write was so before, or has just read.
LEMMA WritersRead ==
    ASSUME Types, Next, NEW p \in Compactor, compaction'[p].at = "writing"
    PROVE  compaction'[p] = compaction[p] \/ ReadState(p)
<1> USE DEF Types, TypeOK
<1>0. NoCompaction.at = "none"
  BY DEF NoCompaction
<1>1. ASSUME NEW u \in Thread, NEW finished \in BOOLEAN, EndRun(u, finished)
      PROVE  compaction'[p] = compaction[p]
  <2> DEFINE new == [at |-> "reading", of |-> u, prefix |-> {}]
  <2>1. new.at = "reading"
    OBVIOUS
  <2>2. compaction' = [compaction EXCEPT ![u] =
                          IF compaction[u].at = "none" THEN new ELSE compaction[u]]
    BY <1>1 DEF EndRun
  <2> HIDE DEF new
  <2> QED
    BY <2>1, <2>2
<1>2. ASSUME NEW q \in Compactor, CompactorStep(q)
      PROVE  compaction'[p] = compaction[p] \/ ReadState(p)
  <2>1. CASE p = q
    <3>1. ~UpdateState(q)
      BY <1>0, <2>1 DEF UpdateState
    <3> QED
      BY <1>2, <2>1, <3>1 DEF CompactorStep
  <2>2. CASE p # q
    BY <1>2, <2>2 DEF CompactorStep, ReadState, UpdateState
  <2> QED
    BY <2>1, <2>2
<1>3. CASE CompactNext
  <2> DEFINE new == [at |-> "reading", of |-> Head(cleaner.idle), prefix |-> {}]
  <2>1. new.at = "reading"
    OBVIOUS
  <2>2. compaction' = compaction \/ compaction' = [compaction EXCEPT ![Cleaner] = new]
    BY <1>3 DEF CompactNext
  <2> HIDE DEF new
  <2> QED
    BY <2>1, <2>2
<1>4. CASE Crash
  <2>1. compaction'[p] = NoCompaction
    BY <1>4 DEF Crash
  <2> QED
    BY <1>0, <2>1
<1>5. CASE \/ ClientStep \/ \E u \in Thread : GraphWrite(u) \/ Interrupt(u)
           \/ \E q \in Purger : PurgeStep(q)
           \/ Tick \/ CreateRun \/ RefuseRun \/ Wake \/ EndIdle \/ ArchiveEnded \/ Sleep
  <2>1. compaction' = compaction
    BY <1>5, Zenon DEF ClientStep, CreateThread, Chat, EndThread, Verdict, ArchiveThread,
       GraphWrite, Interrupt, PurgeStep, Purge, PurgeFails, Tick, CreateRun, RefuseRun, Wake, EndIdle,
       ArchiveEnded, Sleep
  <2> QED
    BY <2>1
<1> QED
  BY <1>1, <1>2, <1>3, <1>4, <1>5 DEF Next, GraphStep, CleanerStep, Purger

LEMMA TurnsStayKnown ==
    ASSUME TurnInv, Next
    PROVE  TurnsKnown'
<1> SUFFICES ASSUME NEW t \in Thread
             PROVE  /\ checkpoint'[t].turns \subseteq 1..run'[t].turn
                    /\ run'[t].graph \subseteq 1..run'[t].turn
                    /\ run'[t].state = "working" =>
                          checkpoint'[t].turns \subseteq run'[t].graph
  BY DEF TurnsKnown
<1> DEFINE T == checkpoint[t].turns
           G == run[t].graph
           k == run[t].turn
<1>1. /\ T \subseteq 1..k /\ G \subseteq 1..k /\ k \in Nat
      /\ run[t].state = "working" => T \subseteq G
  BY DEF TurnInv, Types, TypeOK, RunOf, TurnsKnown
<1>2. TurnsMove(t)
  BY StepMovesTurns DEF TurnInv
<1>3. CASE Keeps(t)
  BY <1>1, <1>3 DEF Keeps, SameTurns
<1>4. CASE Starts(t)
  <2>1. T \subseteq 1..(k + 1) /\ T \cup {k + 1} \subseteq 1..(k + 1)
    BY <1>1
  <2> QED
    BY <1>4, <2>1 DEF Starts, SameTurns
<1>5. CASE Resumes(t)
  BY <1>1, <1>5 DEF Resumes, SameTurns
<1>6. CASE Stores(t)
  BY <1>1, <1>6 DEF Stores
<1>7. CASE Loses(t)
  BY <1>1, <1>7 DEF Loses
<1>8. CASE \E p \in Compactor : Compacts(t, p)
  BY <1>1, <1>8 DEF Compacts
<1> QED
  BY <1>2, <1>3, <1>4, <1>5, <1>6, <1>7, <1>8 DEF TurnsMove

\* What one compaction has read stays fit for its removal while the thread runs on and
\* another compaction removes what it read.
LEMMA StaysFit ==
    ASSUME TurnInv, Next, NEW t \in Thread, NEW old,
           old \subseteq 1..run[t].turn,
           MayGo(old, checkpoint[t].turns),
           run[t].state = "working" => MayGo(old, run[t].graph)
    PROVE  /\ old \subseteq 1..run'[t].turn
           /\ MayGo(old, checkpoint'[t].turns)
           /\ run'[t].state = "working" => MayGo(old, run'[t].graph)
<1> DEFINE T == checkpoint[t].turns
           G == run[t].graph
           k == run[t].turn
<1>1. T \subseteq 1..k /\ G \subseteq 1..k /\ k \in Nat
  BY DEF TurnInv, Types, TypeOK, RunOf, TurnsKnown
<1>2. TurnsMove(t)
  BY StepMovesTurns DEF TurnInv
<1>3. CASE Keeps(t)
  BY <1>3 DEF Keeps, SameTurns
<1>4. CASE Starts(t)
  <2>1. MayGo(old, T \cup {k + 1})
    BY <1>1, MayGoAfterStart
  <2>2. old \subseteq 1..(k + 1)
    BY <1>1
  <2> QED
    BY <1>4, <2>1, <2>2 DEF Starts, SameTurns
<1>5. CASE Resumes(t)
  BY <1>5 DEF Resumes, SameTurns
<1>6. CASE Stores(t)
  BY <1>6 DEF Stores
<1>7. CASE Loses(t)
  BY <1>7, NothingMayGo DEF Loses
<1>8. ASSUME NEW p \in Compactor, Compacts(t, p)
      PROVE  /\ checkpoint'[t].turns = T \ compaction[p].prefix /\ run'[t] = run[t]
             /\ MayGo(old, T \ compaction[p].prefix)
  <2>1. compaction[p].prefix \subseteq Prefix(T)
    BY <1>8 DEF Compacts, TurnInv, PrefixesFit, MayGo
  <2> QED
    BY <1>1, <1>8, <2>1, MayGoAfterRemoval DEF Compacts
<1> QED
  BY <1>2, <1>3, <1>4, <1>5, <1>6, <1>7, <1>8 DEF TurnsMove

\* What a compaction reads is fit: the turns the graph holds beside the stored ones leave
\* them where they are or further from the end.
LEMMA ReadIsFit ==
    ASSUME TurnInv, NEW t \in Thread
    PROVE  LET old == Prefix(checkpoint[t].turns)
           IN /\ old \subseteq 1..run[t].turn
              /\ MayGo(old, checkpoint[t].turns)
              /\ run[t].state = "working" => MayGo(old, run[t].graph)
<1> DEFINE T == checkpoint[t].turns
           G == run[t].graph
           k == run[t].turn
<1>1. /\ T \subseteq 1..k /\ G \subseteq 1..k /\ k \in Nat
      /\ run[t].state = "working" => T \subseteq G
  BY DEF TurnInv, Types, TypeOK, RunOf, TurnsKnown
<1>2. Prefix(T) \subseteq T
  BY PrefixIsPart
<1>3. IsFiniteSet(G) /\ G \subseteq Nat
  BY <1>1, TurnsAreFinite
<1>4. run[t].state = "working" => Prefix(T) \subseteq Prefix(G)
  BY <1>1, <1>3, PrefixGrows
<1> HIDE DEF T, G, k
<1>5. Prefix(T) \subseteq 1..k /\ MayGo(Prefix(T), T)
  BY <1>1, <1>2 DEF MayGo
<1>6. run[t].state = "working" => MayGo(Prefix(T), G)
  BY <1>4 DEF MayGo
<1> QED
  BY <1>5, <1>6 DEF T, G, k

LEMMA PrefixesStayFit ==
    ASSUME TurnInv, Next
    PROVE  PrefixesFit'
<1> SUFFICES ASSUME NEW p \in Compactor, compaction'[p].at = "writing"
             PROVE  LET t == compaction'[p].of
                        old == compaction'[p].prefix
                    IN /\ old \subseteq 1..run'[t].turn
                       /\ MayGo(old, checkpoint'[t].turns)
                       /\ run'[t].state = "working" => MayGo(old, run'[t].graph)
  BY DEF PrefixesFit, MayGo
<1>1. compaction'[p] = compaction[p] \/ ReadState(p)
  BY WritersRead DEF TurnInv
<1>2. CASE compaction'[p] = compaction[p]
  <2>1. compaction[p].of \in Thread
    BY <1>2 DEF TurnInv, Types, CompactionsKnow
  <2> QED
    BY <1>2, <2>1, StaysFit DEF TurnInv, PrefixesFit
<1>3. CASE ReadState(p)
  <2> DEFINE t == compaction[p].of
  <2>1. t \in Thread /\ run' = run /\ checkpoint' = checkpoint
    BY <1>3 DEF TurnInv, Types, CompactionsKnow, ReadState
  <2>2. compaction'[p] = [compaction[p] EXCEPT !.at = "writing",
                                               !.prefix = Prefix(checkpoint[t].turns)]
    BY <1>3 DEF ReadState, NoCompaction, TurnInv, Types, TypeOK
  <2>3. compaction'[p].of = t /\ compaction'[p].prefix = Prefix(checkpoint[t].turns)
    <3> DEFINE c == compaction[p]
               old == Prefix(checkpoint[t].turns)
    <3>1. c \in Compaction
      BY DEF TurnInv, Types, TypeOK
    <3>2. c.of = t /\ compaction'[p] = [c EXCEPT !.at = "writing", !.prefix = old]
      BY <2>2
    <3> HIDE DEF t, c, old
    <3>3. compaction'[p].of = t /\ compaction'[p].prefix = old
      BY <3>1, <3>2 DEF Compaction
    <3> QED
      BY <3>3 DEF old
  <2> HIDE DEF t
  <2> QED
    BY <2>1, <2>3, ReadIsFit
<1> QED
  BY <1>1, <1>2, <1>3

\* No step takes a recent turn from rows that stay.
LEMMA RecentStays ==
    ASSUME TurnInv, Next, NEW t \in Thread, checkpoint'[t].rows,
           NEW n \in checkpoint[t].turns \ Prefix(checkpoint[t].turns)
    PROVE  n \in checkpoint'[t].turns
<1>1. TurnsMove(t)
  BY StepMovesTurns DEF TurnInv
<1>2. CASE Keeps(t) \/ Starts(t) \/ Resumes(t)
  BY <1>2 DEF Keeps, Starts, Resumes, SameTurns
<1>3. CASE Stores(t)
  BY <1>3 DEF Stores, TurnInv, TurnsKnown
<1>4. CASE Loses(t)
  BY <1>4 DEF Loses
<1>5. ASSUME NEW p \in Compactor, Compacts(t, p)
      PROVE  n \in checkpoint'[t].turns
  <2>1. compaction[p].prefix \subseteq Prefix(checkpoint[t].turns)
    BY <1>5 DEF Compacts, TurnInv, PrefixesFit, MayGo
  <2> QED
    BY <1>5, <2>1 DEF Compacts
<1> QED
  BY <1>1, <1>2, <1>3, <1>4, <1>5 DEF TurnsMove

LEMMA InitTurns == Init => TurnInv
<1> SUFFICES ASSUME Init PROVE TurnInv
  OBVIOUS
<1>1. Types
  BY InitTypes
<1>2. TurnsKnown
  BY DEF Init, TurnsKnown, NoCheckpoint
<1>3. PrefixesFit
  BY DEF Init, PrefixesFit, NoCompaction
<1> QED
  BY <1>1, <1>2, <1>3 DEF TurnInv

LEMMA StepTurns == TurnInv /\ [Next]_vars => TurnInv'
<1>1. ASSUME TurnInv, Next
      PROVE  TurnInv'
  BY <1>1, NextTypes, TurnsStayKnown, PrefixesStayFit DEF TurnInv
<1>2. ASSUME TurnInv, UNCHANGED vars
      PROVE  TurnInv'
  <2>1. Types'
    BY <1>2, StutterTypes DEF TurnInv
  <2> QED
    BY <1>2, <2>1 DEF TurnInv, vars, TurnsKnown, PrefixesFit, MayGo
<1> QED
  BY <1>1, <1>2

\* Whatever two compactions of a thread and its runs do between one another's reads and
\* writes, an update of the checkpoint takes none of the last KeepTurns turns.
THEOREM RecentTurnsAreKept == Spec => RecentTurnsStay
<1> DEFINE Stay ==
        \A t \in Thread :
            LET recent == checkpoint[t].turns \ Prefix(checkpoint[t].turns)
            IN checkpoint'[t].rows => recent \subseteq checkpoint'[t].turns
<1>1. TurnInv /\ [Next]_vars => [Stay]_vars
  BY RecentStays
<1>2. Spec => [][Stay]_vars
  BY InitTurns, StepTurns, <1>1, PTL DEF Spec
<1> QED
  BY <1>2 DEF RecentTurnsStay

=============================================================================
