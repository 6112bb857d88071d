------------------------------ MODULE ContextPack ------------------------------
(***************************************************************************)
(* What a run puts before the model: ContextManager.assemble with          *)
(* context/assemble.py, checkpoint_pack.py, packing.py and                 *)
(* memory/checkpoint_compactor.py, on the messages of one thread.          *)
(*                                                                         *)
(* A run composes its input from the prompt, the recalled memory, the      *)
(* retrieved snippets and the message of the user, shrinks the checkpoint  *)
(* until both fit the budget, shrinks the input, and starts the graph.     *)
(* After a run, _finalize_memory compacts the checkpoint, beside the next  *)
(* run.  The archive of the thread deletes it, beside any run.             *)
(*                                                                         *)
(* Granularity.  aget_state and aupdate_state are awaits and atomic; what  *)
(* happens between two of them is one action.  A text is its identity and  *)
(* its size; the router and skill messages, which are compared by their    *)
(* text and never trimmed, are like the memory message and left out.       *)
(***************************************************************************)
EXTENDS Integers, Sequences, FiniteSets

CONSTANTS
    Budget,      \* max_context_chars
    KeepTurns,   \* checkpoint_compact_keep_recent_turns
    Threshold,   \* checkpoint_compact_message_threshold
    MemoryFloor, \* the least a memory message is cut to
    RagFloor,    \* the least the snippets are cut to
    Size,        \* the size of a message of each kind
    UserSizes,   \* the sizes of what users say
    Memory,      \* what may be recalled for a run
    Docs,        \* what may be retrieved for a run
    Nothing,     \* nothing is recalled or retrieved
    MaxTurns     \* bound of the model: runs of the thread

Kind == {"prompt", "memory", "rag", "user", "call", "tool", "answer", "summary"}

ASSUME ContextAssumption ==
    /\ {Threshold, MaxTurns} \subseteq Nat
    /\ {Budget, KeepTurns, MemoryFloor, RagFloor} \subseteq Nat \ {0}
    /\ Size \in [Kind -> Nat]
    /\ UserSizes \subseteq Nat \ {0}
    /\ Nothing \notin Memory \cup Docs
    /\ Memory \cap Docs = {}

VARIABLES
    checkpoint, \* the messages of the thread
    run,        \* the run in progress
    compaction, \* compact_if_needed of a run that is over
    turns,      \* how many runs there were
    archived,   \* the thread was archived
    answered,   \* history: turns whose messages were stored after the last purge
    split       \* history: turns whose tool call was dropped

vars == <<checkpoint, run, compaction, turns, archived, answered, split>>

-----------------------------------------------------------------------------
(* Messages *)

Turn == 1..MaxTurns

NoId == 0    \* a message that is not in the checkpoint yet

\* text: the turn for what users, tools and the model say.
Message == [id : Nat, kind : Kind, text : Turn \cup Memory \cup Docs \cup {Nothing},
            size : Nat]

Say(kind, text) == [id |-> NoId, kind |-> kind, text |-> text, size |-> Size[kind]]

\* A character is its place in a message.
Chars(ms) == Cardinality(UNION {{i} \X (1..ms[i].size) : i \in DOMAIN ms})

Ids(ms) == {ms[i].id : i \in DOMAIN ms}

\* A set of numbers in ascending order (SetToSortSeq tries all orders).
Ascending(S) ==
    [k \in 1..Cardinality(S) |-> CHOOSE i \in S : Cardinality({j \in S : j <= i}) = k]

Omit(ms, gone) ==
    LET kept == Ascending(DOMAIN ms \ gone)
    IN [i \in 1..Len(kept) |-> ms[kept[i]]]

Of(ms, kind) == {i \in DOMAIN ms : ms[i].kind = kind}

\* The stages of a run are the awaits of assemble.  loaded: the checkpoint as it
\* was last read.  rest: remaining_budget.  graph: the messages in the memory of
\* the graph.  crossed: history, the compaction wrote or the archive deleted
\* after the last read.
Run == [at : {"idle", "created", "loading", "reading", "compacting", "reloading",
              "summarizing", "summarized", "dropping", "measuring", "ready", "graph"},
        memory : Memory \cup {Nothing}, docs : Docs \cup {Nothing},
        input : Seq(Message), loaded : Seq(Message), rest : Nat,
        graph : Seq(Message), crossed : BOOLEAN]

NoRun == [at |-> "idle", memory |-> Nothing, docs |-> Nothing, input |-> <<>>,
          loaded |-> <<>>, rest |-> 0, graph |-> <<>>, crossed |-> FALSE]

NoCompaction == [at |-> "none", seen |-> <<>>]

TypeOK ==
    /\ checkpoint \in Seq(Message)
    /\ run \in Run
    /\ compaction \in [at : {"none", "reading", "writing"}, seen : Seq(Message)]
    /\ turns \in 0..MaxTurns
    /\ archived \in BOOLEAN
    /\ answered \subseteq Turn
    /\ split \subseteq Turn

\* A new id is one that nobody names: those of what is stored and was read.
New(ms) ==
    LET used == UNION {Ids(checkpoint), Ids(run.loaded), Ids(run.graph), Ids(compaction.seen)}
        n == Cardinality(used) + Len(ms)
        free == Ascending(1..n \ used)
    IN [i \in DOMAIN ms |-> [ms[i] EXCEPT !.id = free[i]]]

-----------------------------------------------------------------------------
(* The checkpoint: splitting, summarizing, updating *)

SplitIndex_ByCount(ms) ==
    IF Len(ms) <= KeepTurns + 1 THEN 1 ELSE Len(ms) - KeepTurns

\* _split_messages_for_compaction: where the last KeepTurns turns begin.
SplitIndex(ms) ==
    LET users == Ascending(Of(ms, "user"))
    IN IF Len(users) <= KeepTurns THEN 1 ELSE users[Len(users) - KeepTurns + 1]

Prefix(ms) == SubSeq(ms, 1, SplitIndex(ms) - 1)
Suffix(ms) == SubSeq(ms, SplitIndex(ms), Len(ms))

\* What a summary still tells is left out: each section holds KeepTurns items,
\* each cut to 240 characters, and all of them 2000.  An earlier summary is one
\* such item, so that it may be lost with the next compaction.
Summary == Say("summary", Nothing)

\* aupdate_state with removals of some messages and new ones (add_messages): a
\* removal of a message that is not there raises a ValueError.
Removable(ms) == Ids(ms) \subseteq Ids(checkpoint)

Updated(removed, added) ==
    LET gone == {i \in DOMAIN checkpoint : checkpoint[i].id \in Ids(removed)}
    IN Omit(checkpoint, gone) \o New(added)

NeedsCompaction(ms) == Len(ms) > Threshold /\ Prefix(ms) # <<>>

-----------------------------------------------------------------------------
(* build_graph_turn_messages *)

\* The texts of the system messages of the checkpoint: _memory_message_seen.
IsThere(m) ==
    \E i \in DOMAIN checkpoint :
        /\ checkpoint[i].kind = m.kind
        /\ checkpoint[i].text = m.text
        /\ checkpoint[i].size = m.size

Inject(kind, text) ==
    IF text = Nothing \/ IsThere(Say(kind, text)) THEN <<>> ELSE <<Say(kind, text)>>

\* Only a thread without a user's message gets the prompt.
Prompt ==
    IF Of(checkpoint, "user") # {} \/ IsThere(Say("prompt", Nothing))
    THEN <<>> ELSE <<Say("prompt", Nothing)>>

\* create_run: the row of the run is there, its task has not begun.
CreateRun ==
    /\ run.at = "idle"
    /\ ~archived
    /\ turns < MaxTurns
    /\ turns' = turns + 1
    /\ run' = [NoRun EXCEPT !.at = "created"]
    /\ UNCHANGED <<checkpoint, compaction, archived, answered, split>>

Assemble(memory, docs, size) ==
    /\ run.at = "created"
    /\ run' = [NoRun EXCEPT !.at = "loading", !.memory = memory, !.docs = docs,
                  !.input = Prompt \o Inject("memory", memory) \o Inject("rag", docs)
                            \o <<[Say("user", turns) EXCEPT !.size = size]>>]
    /\ UNCHANGED <<checkpoint, compaction, turns, archived, answered, split>>

-----------------------------------------------------------------------------
(* pack_checkpoint_for_budget *)

Fits(ms) == Chars(ms) + Chars(run.input) <= Budget

Droppable_Anything(ms) == DOMAIN ms

\* _drop_oldest_trimable spares users and summaries.
Droppable(ms) == DOMAIN ms \ (Of(ms, "user") \cup Of(ms, "summary"))

Oldest(S, n) == {i \in S : Cardinality({j \in S : j <= i}) <= n}

\* Dropped one by one until the rest fits, or one message or nothing that may
\* be dropped is left.
Dropped(ms) ==
    LET may == Droppable(ms)
        Enough(n) == \/ Fits(Omit(ms, Oldest(may, n)))
                     \/ Len(ms) - n <= 1
                     \/ n = Cardinality(may)
        n == CHOOSE n \in 0..Cardinality(may) :
                 Enough(n) /\ \A k \in 0..(n - 1) : ~Enough(k)
    IN Oldest(may, n)

Ready(r, ms) ==
    [r EXCEPT !.at = "ready", !.loaded = <<>>, !.crossed = FALSE,
              !.rest = IF Chars(ms) < Budget THEN Budget - Chars(ms) ELSE 0]

\* What follows a read, up to the next await.
Drop(r, ms) ==
    [r EXCEPT !.loaded = ms, !.crossed = FALSE,
              !.at = IF Dropped(ms) = {} THEN "measuring" ELSE "dropping"]

Shrink(r, ms) ==
    IF Prefix(ms) = <<>> THEN Drop(r, ms)
    ELSE [r EXCEPT !.loaded = ms, !.crossed = FALSE, !.at = "summarizing"]

Load ==
    /\ run.at = "loading"
    /\ run' = IF Fits(checkpoint) THEN Ready(run, checkpoint)
              ELSE IF Len(checkpoint) > Threshold
              THEN [run EXCEPT !.at = "reading", !.loaded = checkpoint, !.crossed = FALSE]
              ELSE Shrink(run, checkpoint)
    /\ UNCHANGED <<checkpoint, compaction, turns, archived, answered, split>>

\* compact_if_needed, called by the run.  If it does nothing the run goes on with
\* what it read before.
ReadState ==
    /\ run.at = "reading"
    /\ run' = IF NeedsCompaction(checkpoint)
              THEN [run EXCEPT !.at = "compacting", !.loaded = checkpoint, !.crossed = FALSE]
              ELSE [Shrink(run, run.loaded) EXCEPT !.crossed = run.crossed]
    /\ UNCHANGED <<checkpoint, compaction, turns, archived, answered, split>>

\* A write of the run, or its failure.
Write(removed, added, next) ==
    IF Removable(run.loaded)
    THEN /\ checkpoint' = Updated(removed, added)
         /\ run' = [run EXCEPT !.at = next]
         /\ UNCHANGED compaction
    ELSE /\ run' = NoRun
         /\ compaction' = IF compaction.at = "none"
                          THEN [NoCompaction EXCEPT !.at = "reading"] ELSE compaction
         /\ UNCHANGED checkpoint

\* The messages of the suffix keep their ids and stay; the summary goes last.
CompactForRun ==
    /\ run.at = "compacting"
    /\ Write(Prefix(run.loaded), <<Summary>>, "reloading")
    /\ UNCHANGED <<turns, archived, answered, split>>

Reload_Forgotten ==
    /\ run.at = "reloading"
    /\ run' = IF Fits(checkpoint) THEN Ready(run, checkpoint) ELSE Shrink(run, run.loaded)
    /\ UNCHANGED <<checkpoint, compaction, turns, archived, answered, split>>

Reload ==
    /\ run.at = "reloading"
    /\ run' = IF Fits(checkpoint) THEN Ready(run, checkpoint) ELSE Shrink(run, checkpoint)
    /\ UNCHANGED <<checkpoint, compaction, turns, archived, answered, split>>

\* The summary goes first, before copies of the suffix with new ids.
Summarize ==
    /\ run.at = "summarizing"
    /\ Write(run.loaded, <<Summary>> \o Suffix(run.loaded), "summarized")
    /\ UNCHANGED <<turns, archived, answered, split>>

LoadSummarized ==
    /\ run.at = "summarized"
    /\ run' = Drop(run, checkpoint)
    /\ UNCHANGED <<checkpoint, compaction, turns, archived, answered, split>>

DropOldest ==
    /\ run.at = "dropping"
    /\ LET gone == Dropped(run.loaded) IN
       /\ Write(run.loaded, Omit(run.loaded, gone), "measuring")
       /\ split' = IF Removable(run.loaded)
                   THEN split \cup {run.loaded[i].text : i \in gone \cap Of(run.loaded, "call")}
                   ELSE split
    /\ UNCHANGED <<turns, archived, answered>>

\* Only the size is read again.
Measure ==
    /\ run.at = "measuring"
    /\ run' = [Ready(run, checkpoint) EXCEPT !.crossed = run.crossed]
    /\ UNCHANGED <<checkpoint, compaction, turns, archived, answered, split>>

-----------------------------------------------------------------------------
(* pack_graph_messages, and the graph *)

\* _kind.  The memory message begins with [MemoryContext], which is not one of
\* the prefixes of the kind memory.
PackKind(m) == IF m.kind = "memory" THEN "system" ELSE m.kind

Larger(a, b) == IF a > b THEN a ELSE b

Trim(ms, kind, target) ==
    [i \in DOMAIN ms |->
        IF PackKind(ms[i]) = kind /\ ms[i].size > target
        THEN [ms[i] EXCEPT !.size = target] ELSE ms[i]]

Without(ms, kind) == Omit(ms, {i \in DOMAIN ms : PackKind(ms[i]) = kind})

Pack_TrimOnly(ms, max) ==
    IF max = 0 \/ Chars(ms) <= max THEN ms
    ELSE Trim(ms, "rag", Larger(RagFloor, max \div 4))

\* Trim memory, trim snippets, drop memory, drop snippets: the first that fits,
\* or the last.
Pack(ms, max) ==
    LET trimmed1 == Trim(ms, "memory", Larger(MemoryFloor, max \div 8))
        trimmed2 == Trim(trimmed1, "rag", Larger(RagFloor, max \div 4))
        dropped1 == Without(trimmed2, "memory")
        steps == <<ms, trimmed1, trimmed2, dropped1, Without(dropped1, "rag")>>
        fitting == {i \in DOMAIN steps : Chars(steps[i]) <= max}
    IN IF max = 0 THEN ms
       ELSE IF fitting = {} THEN steps[Len(steps)]
       ELSE steps[CHOOSE i \in fitting : \A j \in fitting : i <= j]

StartGraph ==
    /\ run.at = "ready"
    /\ run' = [run EXCEPT !.at = "graph",
                  !.graph = checkpoint \o New(Pack(run.input, run.rest))]
    /\ UNCHANGED <<checkpoint, compaction, turns, archived, answered, split>>

\* The graph calls a tool or does not, answers, and stores what it has in memory;
\* a compaction that wrote meanwhile is overwritten.  Cut off graphs are left out.
EndGraph(tool) ==
    /\ run.at = "graph"
    /\ LET said == IF tool THEN <<Say("call", turns), Say("tool", turns), Say("answer", turns)>>
                           ELSE <<Say("answer", turns)>>
       IN checkpoint' = run.graph \o New(said)
    /\ answered' = answered \cup {turns}
    /\ run' = NoRun
    /\ compaction' = IF compaction.at = "none"
                     THEN [NoCompaction EXCEPT !.at = "reading"] ELSE compaction
    /\ UNCHANGED <<turns, archived, split>>

-----------------------------------------------------------------------------
(* compact_if_needed of a run that is over *)

\* A run that is in its graph has a next node: has_interrupt.
CompactionReads ==
    /\ compaction.at = "reading"
    /\ compaction' = IF run.at # "graph" /\ NeedsCompaction(checkpoint)
                     THEN [at |-> "writing", seen |-> checkpoint] ELSE NoCompaction
    /\ UNCHANGED <<checkpoint, run, turns, archived, answered, split>>

\* The caller ignores a ValueError.
CompactionWrites ==
    /\ compaction.at = "writing"
    /\ LET prefix == Prefix(compaction.seen) IN
       IF Removable(compaction.seen)
       THEN /\ checkpoint' = Updated(prefix, <<Summary>>)
            /\ run' = [run EXCEPT !.crossed = TRUE]
       ELSE UNCHANGED <<checkpoint, run>>
    /\ compaction' = NoCompaction
    /\ UNCHANGED <<turns, archived, answered, split>>

-----------------------------------------------------------------------------
(* The archive of the thread *)

\* The handler, of a thread in any status, or the cleaner: neither asks for a
\* run in progress.
Archive ==
    /\ archived' = TRUE
    /\ checkpoint' = <<>>
    /\ run' = [run EXCEPT !.crossed = TRUE]
    /\ answered' = {}
    /\ UNCHANGED <<compaction, turns, split>>

-----------------------------------------------------------------------------
Init ==
    /\ checkpoint = <<>>
    /\ run = NoRun
    /\ compaction = NoCompaction
    /\ turns = 0
    /\ archived = FALSE
    /\ answered = {}
    /\ split = {}

Next ==
    \/ CreateRun
    \/ \E memory \in Memory \cup {Nothing}, docs \in Docs \cup {Nothing},
          size \in UserSizes : Assemble(memory, docs, size)
    \/ Load \/ ReadState \/ CompactForRun \/ Reload
    \/ Summarize \/ LoadSummarized \/ DropOldest \/ Measure
    \/ StartGraph
    \/ \E tool \in BOOLEAN : EndGraph(tool)
    \/ CompactionReads \/ CompactionWrites
    \/ Archive

Spec == Init /\ [][Next]_vars

-----------------------------------------------------------------------------
(* Properties *)

\* A graph starts over its budget only when nothing is left to take away: the
\* checkpoint holds what users said and summaries alone, and no snippets are in
\* the input.  Or the checkpoint fills the budget by itself, and then
\* pack_graph_messages, called with 0, does nothing.  The exception is a run
\* after whose last read a compaction wrote, whose summary may be longer than the
\* messages it stands for, or the thread was archived.
FitsOrBare ==
    [][(run.at = "ready" /\ run'.at = "graph" /\ ~run.crossed) =>
         \/ Chars(run'.graph) <= Budget
         \/ /\ Droppable(checkpoint) = {}
            /\ run.rest = 0 \/ Of(run'.graph, "rag") = {}]_vars

\* The same of every run: violated, since the compaction of the run before may
\* write between the last read and the start of the graph.
StartsFittingOrBare ==
    [][(run.at = "ready" /\ run'.at = "graph") =>
         \/ Chars(run'.graph) <= Budget
         \/ /\ Droppable(checkpoint) = {}
            /\ run.rest = 0 \/ Of(run'.graph, "rag") = {}]_vars

\* What users said in the last KeepTurns turns that were answered is in the
\* checkpoint, whatever shrinks it at the same time: the run, the compaction of
\* the run before it, and a graph that stores what it read before.  An archive
\* deletes all, and the turns stored after it count anew.
LastTurnsAreThere ==
    \A t \in answered :
        Cardinality({u \in answered : u > t}) < KeepTurns =>
            \E i \in Of(checkpoint, "user") : checkpoint[i].text = t

\* The result of a tool without the call it answers is left by nothing but the
\* dropping of single messages: a summary takes whole turns.
OnlyDroppingSplits ==
    \A i \in Of(checkpoint, "tool") :
        \/ \E j \in Of(checkpoint, "call") : j < i /\ checkpoint[j].text = checkpoint[i].text
        \/ checkpoint[i].text \in split

\* A run fails for a message that is gone only if the compaction of another run
\* wrote after its last read or the thread was archived: it reads again after
\* each write of its own.
FailsOnlyWhenCrossed ==
    [][(run.at # "graph" /\ run.at # "idle" /\ run'.at = "idle") => run.crossed]_vars

\* The model is told what the system requires in every run: violated, since the
\* prompt is summarized or dropped with the oldest messages and comes only with
\* the first run.
PromptStays ==
    run.at = "graph" => Of(run.graph, "prompt") # {}

\* The result of a tool follows its call: violated by the dropping.
ToolsHaveCalls ==
    \A i \in Of(run.graph, "tool") :
        \E j \in Of(run.graph, "call") : j < i /\ run.graph[j].text = run.graph[i].text

\* What search_docs leaves out as shown already is there in full: violated, since
\* the cache names what was retrieved and not what was left after the packing.
CachedIsShown ==
    (run.at = "graph" /\ run.docs # Nothing) =>
        \E i \in Of(run.graph, "rag") :
            run.graph[i].text = run.docs /\ run.graph[i].size = Size["rag"]

\* What is recalled for a run reaches its graph: violated, since it is left out
\* of the input when it is in the checkpoint, which then is shrunk.
RecalledIsThere ==
    (run.at = "graph" /\ run.memory # Nothing) =>
        \E i \in Of(run.graph, "memory") : run.graph[i].text = run.memory

\* The snippets are dropped only after the memory message: violated, since the
\* memory message is not recognised and stays.
MemoryGoesFirst ==
    [][(run.at = "ready" /\ run'.at = "graph") =>
         LET packed == Pack(run.input, run.rest)
         IN \/ Of(run.input, "rag") = {} \/ Of(packed, "rag") # {}
            \/ Of(packed, "memory") = {}]_vars

\* No assembly fails: violated, by a compaction that writes or an archive that
\* deletes in between.
AssemblySucceeds ==
    [][(run.at # "graph" /\ run.at # "idle") => run'.at # "idle"]_vars

=============================================================================
