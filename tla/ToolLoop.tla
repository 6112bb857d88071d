------------------------------- MODULE ToolLoop -------------------------------
(***************************************************************************)
(* The tool calls of one run: agent/graph.py, the safety gate of           *)
(* agent/nodes.py with policy/registry.py, http_post of                    *)
(* agent/tool_handlers.py, the stream of agent/stream/event_mapper.py and  *)
(* the ledger of tools/audit.py.                                           *)
(*                                                                         *)
(* The model (LLM) proposes batches of calls.  The gate lets a batch       *)
(* through, blocks it, or interrupts the graph for an approval.  The calls *)
(* of a batch run concurrently (ToolNode), and the mapper, in another      *)
(* coroutine, turns the events of the graph into stored ones: tool_start,  *)
(* tool_end and the record of a side effect.  A call is the place it has   *)
(* in calls; 0 is the empty call id.                                       *)
(*                                                                         *)
(* A call is reduced to its tool, its idempotency key and the rule that    *)
(* the policy, which never changes, has for it.                            *)
(***************************************************************************)
EXTENDS Integers, Sequences, FiniteSets

CONSTANTS
    Library,        \* what the events of LangChain may tell, see Tells
    Call,           \* the calls the LLM may make: [tool, rule, key]
    NoKey,          \* the absence of an idempotency key
    MaxCalls,       \* bound of the model: calls of the run
    MaxRestarts     \* bound of the model: crashes

Rule == {"allow", "ask", "route", "deny"}

\* ids: data.input of an event holds the id of its call.  plain: the output of
\* a tool is its dict, and not a message.  errors: a tool that raises has an
\* event.  Which of these hold depends on the version of LangChain.
Tells == [ids : BOOLEAN, plain : BOOLEAN, errors : BOOLEAN]

ASSUME ToolAssumption ==
    /\ Library \subseteq Tells
    /\ \A c \in Call : DOMAIN c = {"tool", "rule", "key"} /\ c.rule \in Rule
    /\ {MaxCalls, MaxRestarts} \subseteq Nat

VARIABLES
    library,    \* what the events of LangChain tell
    created,    \* the run was created with confirm_dangerous
    calls,      \* all calls so far, with the round of the LLM that made them
    at,         \* where the run is
    confirmed,  \* confirm_dangerous in the configuration of the graph
    asked,      \* the calls named in the stored approval_required
    verdict,    \* the verdict the engine knows
    approved,   \* an approval is stored
    tool,       \* what became of each call
    queue,      \* events of the graph that the mapper has not read
    tracker,    \* _ToolTracker of the stream
    starts,     \* stored tool_start: call ids
    ends,       \* stored tool_end
    ledger,     \* stored tool_side_effect_recorded
    named,      \* history: the call id under which the start of a call was read
    restarts,
    forgotten   \* history: calls of a rejection that a crash made the engine forget

vars == <<library, created, calls, at, confirmed, asked, verdict, approved, tool,
          queue, tracker, starts, ends, ledger, named, restarts, forgotten>>

graphVars == <<calls, confirmed, asked, verdict, approved, restarts, forgotten>>
storeVars == <<starts, ends, ledger>>

-----------------------------------------------------------------------------
Ids == 1..MaxCalls
NotNamed == MaxCalls + 1

\* running: the request is under way.  done, refused: the tool returned a dict
\* with ok, without ok.  broken, mute: it raised, with an error text that tells
\* of the transport, or without; the server may have acted.
Fate == {"proposed", "running", "done", "refused", "broken", "mute", "reused"}
Raised == {"broken", "mute"}
Finished == Fate \ {"proposed", "running"}

\* key: of an end that names http_post, the only tool that looks for ends.  The
\* tools of the server are those of the capability packs.
Key == {c.key : c \in Call}
End == [id : 0..MaxCalls, key : Key \cup {NoKey}, success : BOOLEAN]
Record == [id : 0..MaxCalls, status : {"blocked", "confirmed", "unknown", "none"}]

TypeOK ==
    /\ library \in Library
    /\ created \in BOOLEAN /\ confirmed \in BOOLEAN /\ approved \in BOOLEAN
    /\ calls \in Seq([call : Call, round : Ids])
    /\ Len(calls) <= MaxCalls
    /\ at \in {"assistant", "gate", "waiting", "tools", "ending", "done", "dead"}
    /\ asked \subseteq Ids
    /\ verdict \in {"none", "approved", "rejected"}
    /\ tool \in [Ids -> Fate]
    /\ queue \in Seq([kind : {"start", "end"}, call : Ids])
    /\ tracker.meta \in [Ids -> 0..MaxCalls]
    /\ tracker.ended \subseteq Ids
    /\ starts \in Seq(0..MaxCalls)
    /\ ends \in Seq(End)
    /\ ledger \in Seq(Record)
    /\ named \in [Ids -> 0..NotNamed]
    /\ restarts \in 0..MaxRestarts
    /\ forgotten \subseteq Ids

\* meta: for each open call id the call whose start it holds.
FreshTracker == [meta |-> [i \in Ids |-> 0], ended |-> {}]

CallOf(i) == calls[i].call
IsPost(i) == CallOf(i).tool = "http_post"

LastRound == IF calls = <<>> THEN 0 ELSE calls[Len(calls)].round

\* A set of numbers in ascending order.
Ascending(S) ==
    [k \in 1..Cardinality(S) |-> CHOOSE i \in S : Cardinality({j \in S : j <= i}) = k]

\* The tool calls of the last message, in their order.
Batch == {i \in 1..Len(calls) : calls[i].round = LastRound}

-----------------------------------------------------------------------------
(* The assistant *)

\* The LLM answers over the network, and the mapper has read all events by then.
Propose ==
    /\ at = "assistant"
    /\ queue = <<>>
    /\ \E batch \in Call \X Call \cup {<<c>> : c \in Call} :
       /\ Len(calls) + Len(batch) <= MaxCalls
       /\ calls' = calls \o [k \in 1..Len(batch) |->
                                [call |-> batch[k], round |-> LastRound + 1]]
    /\ at' = "gate"
    /\ UNCHANGED <<library, created, confirmed, asked, verdict, approved, tool, queue,
                   tracker, starts, ends, ledger, named, restarts, forgotten>>

Answer ==
    /\ at = "assistant"
    /\ at' = "ending"
    /\ UNCHANGED <<library, created, graphVars, tool, queue, tracker, storeVars, named>>

-----------------------------------------------------------------------------
(* The safety gate *)

\* evaluate_tool_calls: the first call that is denied, or has to be asked for,
\* decides; the calls behind it are not looked at.
Decision ==
    LET decisive == {i \in Batch : \/ CallOf(i).rule = "deny"
                                   \/ CallOf(i).rule = "ask" /\ ~confirmed}
    IN IF decisive = {} THEN "allow"
       ELSE IF \E i \in decisive : CallOf(i).rule = "deny" /\ \A j \in decisive : i <= j
       THEN "deny" ELSE "ask"

\* _append_blocked_side_effects: one record for each write that has none.
Blocked(is) ==
    LET known == {ledger[k].id : k \in 1..Len(ledger)}
    IN Ascending({i \in is : IsPost(i) /\ i \notin known})

Block(is) ==
    /\ ledger' = ledger \o [k \in 1..Len(Blocked(is)) |->
                               [id |-> Blocked(is)[k], status |-> "blocked"]]
    /\ UNCHANGED <<starts, ends>>

\* tool_allowed goes by the name of the tool.
OffRoute == {i \in Batch : \E j \in Batch : /\ CallOf(j).rule = "route"
                                            /\ CallOf(j).tool = CallOf(i).tool}

GateDenies ==
    /\ at = "gate"
    /\ Decision = "deny"
    /\ Block(Batch)
    /\ at' = "ending"
    /\ UNCHANGED <<library, created, graphVars, tool, queue, tracker, named>>

GateBlocksRoute ==
    /\ at = "gate"
    /\ Decision # "deny"
    /\ OffRoute # {}
    /\ Block(OffRoute)
    /\ at' = "ending"
    /\ UNCHANGED <<library, created, graphVars, tool, queue, tracker, named>>

\* interrupt(): the mapper stores approval_required and the run waits.
GateAsks ==
    /\ at = "gate"
    /\ Decision = "ask" /\ OffRoute = {}
    /\ verdict = "none"
    /\ at' = "waiting"
    /\ asked' = asked \cup Batch
    /\ UNCHANGED <<library, created, calls, confirmed, verdict, approved, tool, queue,
                   tracker, storeVars, named, restarts, forgotten>>

\* The graph is resumed with False: interrupt() returns it.
GateRejected ==
    /\ at = "gate"
    /\ Decision = "ask" /\ OffRoute = {}
    /\ verdict # "none"
    /\ at' = "ending"
    /\ UNCHANGED <<library, created, graphVars, tool, queue, tracker, storeVars, named>>

GateAllows ==
    /\ at = "gate"
    /\ Decision = "allow" /\ OffRoute = {}
    /\ at' = "tools"
    /\ UNCHANGED <<library, created, graphVars, tool, queue, tracker, storeVars, named>>

-----------------------------------------------------------------------------
(* The verdict, in the engine *)

Approve ==
    /\ at = "waiting"
    /\ verdict = "none"
    /\ verdict' = "approved"
    /\ approved' = TRUE
    /\ UNCHANGED <<library, created, calls, at, confirmed, asked, tool, queue, tracker,
                   storeVars, named, restarts, forgotten>>

\* _append_blocked_side_effects_for_rejection
Reject ==
    /\ at = "waiting"
    /\ verdict = "none"
    /\ verdict' = "rejected"
    /\ Block(asked)
    /\ UNCHANGED <<library, created, calls, at, confirmed, asked, approved, tool, queue,
                   tracker, named, restarts, forgotten>>

Resume_Confirmed ==
    /\ at = "waiting"
    /\ verdict # "none"
    /\ confirmed' = TRUE
    /\ at' = "gate"
    /\ tracker' = FreshTracker
    /\ UNCHANGED <<library, created, calls, asked, verdict, approved, tool, queue,
                   storeVars, named, restarts, forgotten>>

Resume_SkipGate ==
    /\ at = "waiting"
    /\ verdict # "none"
    /\ confirmed' = (verdict = "approved")
    /\ at' = IF verdict = "approved" THEN "tools" ELSE "gate"
    /\ tracker' = FreshTracker
    /\ UNCHANGED <<library, created, calls, asked, verdict, approved, tool, queue,
                   storeVars, named, restarts, forgotten>>

\* Command(resume=...): the interrupted node runs again from its beginning, with
\* confirm_dangerous as the verdict says, in a stream with a new mapper.
Resume ==
    /\ at = "waiting"
    /\ verdict # "none"
    /\ confirmed' = (verdict = "approved")
    /\ at' = "gate"
    /\ tracker' = FreshTracker
    /\ UNCHANGED <<library, created, calls, asked, verdict, approved, tool, queue,
                   storeVars, named, restarts, forgotten>>

\* The process dies.  A run that waits is rehydrated, without its verdict and
\* also if that is stored; any other run is failed.
Crash ==
    /\ at \notin {"done", "dead"}
    /\ restarts < MaxRestarts
    /\ restarts' = restarts + 1
    /\ at' = IF at = "waiting" THEN "waiting" ELSE "dead"
    /\ forgotten' = IF at = "waiting" /\ verdict = "rejected" THEN forgotten \cup asked
                                                              ELSE forgotten
    /\ verdict' = "none"
    /\ queue' = <<>>
    /\ UNCHANGED <<library, created, calls, confirmed, asked, approved, tool, tracker,
                   storeVars, named>>

\* The task is cancelled or timed out, in the middle of anything.
Cancel ==
    /\ at \notin {"done", "dead"}
    /\ at' = "dead"
    /\ queue' = <<>>
    /\ UNCHANGED <<library, created, graphVars, tool, tracker, storeVars, named>>

-----------------------------------------------------------------------------
(* The tools *)

\* find_successful_tool_end_by_idempotency
Reusable(key) ==
    key # NoKey /\ \E k \in 1..Len(ends) : ends[k].key = key /\ ends[k].success

\* on_tool_start, and the handler up to its first suspension: the stored result
\* of the key, which no end has (see KeyFields), or the request.
StartTool(i) ==
    /\ at = "tools"
    /\ i \in Batch
    /\ tool[i] = "proposed"
    /\ LET reuse == IsPost(i) /\ Reusable(CallOf(i).key) IN
       /\ tool' = [tool EXCEPT ![i] = IF reuse THEN "reused" ELSE "running"]
       /\ queue' = queue \o <<[kind |-> "start", call |-> i]>>
                         \o (IF reuse THEN <<[kind |-> "end", call |-> i]>> ELSE <<>>)
    /\ UNCHANGED <<library, created, graphVars, at, tracker, storeVars, named>>

\* http_post has no retries.
FinishTool(i, fate) ==
    /\ at = "tools"
    /\ i \in Batch
    /\ tool[i] = "running"
    /\ tool' = [tool EXCEPT ![i] = fate]
    /\ queue' = IF fate \in Raised /\ ~library.errors THEN queue
                ELSE Append(queue, [kind |-> "end", call |-> i])
    /\ UNCHANGED <<library, created, graphVars, at, tracker, storeVars, named>>

\* ToolNode waits for all calls of the batch.
ToolsDone ==
    /\ at = "tools"
    /\ \A i \in Batch : tool[i] \in Finished
    /\ at' = "assistant"
    /\ UNCHANGED <<library, created, graphVars, tool, queue, tracker, storeVars, named>>

-----------------------------------------------------------------------------
(* The mapper *)

\* approval_tool_call_ids: by name of the tool, a later call in the place of an
\* earlier one.
Pending(name) ==
    LET same == {i \in asked : CallOf(i).tool = name}
    IN IF same = {} THEN 0 ELSE CHOOSE i \in same : \A j \in same : j <= i

\* extract_call_id
Extracted(i) == IF library.ids THEN i ELSE 0

IsOpen(id) == id # 0 /\ tracker.meta[id] # 0

MapStart ==
    /\ queue # <<>> /\ Head(queue).kind = "start"
    /\ LET i == Head(queue).call
           p == Pending(CallOf(i).tool)
           id == IF p # 0 THEN p ELSE Extracted(i)
       IN /\ starts' = Append(starts, id)
          /\ named' = [named EXCEPT ![i] = id]
          /\ tracker' = IF id = 0 THEN tracker ELSE [tracker EXCEPT !.meta[id] = i]
    /\ queue' = Tail(queue)
    /\ UNCHANGED <<library, created, graphVars, at, tool, ends, ledger>>

ResolveId_AnyOpen(i) ==
    LET open == {c \in Ids : IsOpen(c)}
    IN IF open # {} THEN CHOOSE c \in open : \A d \in open : c <= d ELSE Extracted(i)

\* _resolve_tool_call_id
ResolveId(i) ==
    LET name == CallOf(i).tool
        same == {c \in Ids : IsOpen(c) /\ CallOf(tracker.meta[c]).tool = name
                                       /\ c \notin tracker.ended}
        open == {c \in Ids : IsOpen(c)}
    IN CASE IsOpen(Extracted(i)) -> Extracted(i)
         [] ~IsOpen(Extracted(i)) /\ IsOpen(Pending(name)) -> Pending(name)
         [] OTHER -> IF same # {} THEN CHOOSE c \in same : TRUE
                     ELSE IF Cardinality(open) = 1 THEN CHOOSE c \in open : TRUE
                     ELSE Extracted(i)

\* build_tool_end_payload: what is not a dict counts as success.
Success(i) == tool[i] \notin Raised /\ (library.plain => tool[i] \in {"done", "reused"})

\* _side_effect_status, to which idempotency_reused does not come: from_http_result
\* keeps only the status code of the metadata.
Status(i) ==
    CASE Success(i) -> "confirmed"
      [] ~Success(i) /\ tool[i] = "broken" -> "unknown"
      [] OTHER -> "none"

\* The tools whose ToolSpec names the argument that holds their key:
\* HttpCapability.register names none, neither for http_post nor for http_get.
KeyFields == {}

\* _idempotency_key_for
KeyFor(i) == IF CallOf(i).tool \in KeyFields THEN CallOf(i).key ELSE NoKey

\* What the metadata of an open start has for its end.
KeyUnder(id) == IF IsOpen(id) THEN KeyFor(tracker.meta[id]) ELSE NoKey

\* build_tool_side_effect_payload: a write, known as such by its start or a key.
IsRecorded(i, id) ==
    IsPost(i) /\ (IF IsOpen(id) THEN IsPost(tracker.meta[id]) \/ KeyUnder(id) # NoKey
                                ELSE FALSE)

\* append_event keeps one tool_end of a call id.
StoredEnd(end) ==
    IF end.id # 0 /\ \E k \in 1..Len(ends) : ends[k].id = end.id
    THEN ends ELSE Append(ends, end)

\* on_tool_end, on_tool_error
MapEnd ==
    /\ queue # <<>> /\ Head(queue).kind = "end"
    /\ LET i == Head(queue).call
           id == ResolveId(i)
       IN IF id # 0 /\ id \in tracker.ended THEN UNCHANGED <<tracker, ends, ledger>>
          ELSE /\ tracker' = IF id = 0 THEN tracker
                             ELSE [meta |-> [tracker.meta EXCEPT ![id] = 0],
                                   ended |-> tracker.ended \cup {id}]
               /\ ends' = StoredEnd([id |-> id, success |-> Success(i),
                                     key |-> IF IsPost(i) THEN KeyUnder(id) ELSE NoKey])
               /\ ledger' = IF IsRecorded(i, id)
                            THEN Append(ledger, [id |-> id, status |-> Status(i)])
                            ELSE ledger
    /\ queue' = Tail(queue)
    /\ UNCHANGED <<library, created, graphVars, at, tool, starts, named>>

\* _missing_tool_end_events, when the stream has ended by itself; nothing if
\* there are as many ends as starts.
Missing ==
    LET ended == {ends[k].id : k \in 1..Len(ends)} \cup tracker.ended \cup {0}
    IN IF Len(ends) >= Len(starts) THEN {}
       ELSE {starts[k] : k \in 1..Len(starts)} \ ended

StreamEnds ==
    /\ at = "ending"
    /\ queue = <<>>
    /\ LET missing == Ascending(Missing)
           writes == Ascending({id \in Missing : IsOpen(id) /\ IsPost(tracker.meta[id])})
       IN /\ ends' = ends \o [k \in 1..Len(missing) |->
                [id |-> missing[k], key |-> KeyUnder(missing[k]), success |-> FALSE]]
          /\ ledger' = ledger \o [k \in 1..Len(writes) |->
                [id |-> writes[k], status |-> "unknown"]]
    /\ at' = "done"
    /\ UNCHANGED <<library, created, graphVars, tool, queue, tracker, starts, named>>

-----------------------------------------------------------------------------
Init ==
    /\ library \in Library
    /\ created \in BOOLEAN
    /\ confirmed = created
    /\ calls = <<>>
    /\ at = "assistant"
    /\ asked = {}
    /\ verdict = "none"
    /\ approved = FALSE
    /\ tool = [i \in Ids |-> "proposed"]
    /\ queue = <<>>
    /\ tracker = FreshTracker
    /\ starts = <<>> /\ ends = <<>> /\ ledger = <<>>
    /\ named = [i \in Ids |-> NotNamed]
    /\ restarts = 0
    /\ forgotten = {}

Gate == GateDenies \/ GateBlocksRoute \/ GateAsks \/ GateRejected \/ GateAllows

Tools ==
    \/ \E i \in Ids : StartTool(i)
    \/ \E i \in Ids, fate \in {"done", "refused", "broken", "mute"} : FinishTool(i, fate)
    \/ ToolsDone

Mapper == MapStart \/ MapEnd \/ StreamEnds

Next ==
    \/ Propose \/ Answer \/ Gate \/ Tools \/ Mapper
    \/ Approve \/ Reject \/ Resume
    \/ Crash \/ Cancel

Spec == Init /\ [][Next]_vars

-----------------------------------------------------------------------------
(* Properties *)

Started == {i \in 1..Len(calls) : tool[i] # "proposed"}

\* A call that the policy denies never runs, nor does any call of its batch,
\* wherever it stands in the batch, although the gate stops at a call before it
\* that needs an approval, and a human approves.
DeniedNeverRuns ==
    \A i \in Started, j \in 1..Len(calls) :
        calls[i].round = calls[j].round => CallOf(j).rule \notin {"deny", "route"}

\* A dangerous call runs only in a run that was created with the confirmation or
\* has an approval in the store, across rejections and crashes.
DangerWasApproved ==
    \A i \in Started : CallOf(i).rule = "ask" => created \/ approved

\* Both, of every call that starts.
GateHolds == DeniedNeverRuns /\ DangerWasApproved

\* What the ledger calls blocked never runs, unless a crash made the engine
\* forget the rejection.
BlockedStaysBlocked ==
    \A k \in 1..Len(ledger) :
        ledger[k].status = "blocked" => ledger[k].id \notin Started \ forgotten

\* The starts of a run are stored under their own ids.
WellNamed == \A i \in 1..Len(calls) : named[i] \in {i, NotNamed}

\* What the record of a write has to say.
Truth(i) ==
    CASE tool[i] = "broken" -> {"unknown"}
      [] tool[i] = "mute" -> {"unknown", "none"}
      [] library.plain /\ tool[i] = "reused" -> {"reused"}
      [] library.plain /\ tool[i] = "refused" -> {"none"}
      [] OTHER -> {"confirmed"}

\* The start of a call that raised without an event is known to the mapper of its
\* own stream only: after a later pause nothing is recorded for it.
LostWithStream(i) ==
    /\ tool[i] \in Raised /\ ~library.errors
    /\ \E j \in asked : calls[j].round > calls[i].round

\* In a run that ended by itself, with its starts under their own ids, each call
\* that was started has one tool_end, and each write one record, which tells what
\* happened, in whatever order the calls of a batch finished.
LedgerTells ==
    (at = "done" /\ WellNamed) =>
        \A i \in Started :
            /\ Cardinality({k \in 1..Len(ends) : ends[k].id = i}) = 1
            /\ IsPost(i) /\ i \notin forgotten /\ ~LostWithStream(i) =>
                \E k \in 1..Len(ledger) :
                    /\ ledger[k].id = i /\ ledger[k].status \in Truth(i)
                    /\ \A l \in 1..Len(ledger) : ledger[l].id = i => l = k

\* Without the excuse: each write that was started has a record.
WritesAreRecorded ==
    (at = "done" /\ WellNamed) =>
        \A i \in Started : IsPost(i) => \E k \in 1..Len(ledger) : ledger[k].id = i

\* Without the premises: every call that starts is stored under its own id.
StartsAreNamed == WellNamed

\* Without the excuse: what the ledger calls blocked never runs.
BlockedIsFinal ==
    \A k \in 1..Len(ledger) : ledger[k].status = "blocked" => ledger[k].id \notin Started

\* A record of no side effect is true: no request was answered by an exception.
NoneMeansNone ==
    WellNamed => \A k \in 1..Len(ledger) :
        ledger[k].status = "none" /\ ledger[k].id # 0 => tool[ledger[k].id] # "mute"

\* Although all events name their calls, tell results and errors: a write with a
\* key that succeeded is answered from the store in a later round, and not sent
\* again.
KeyIsPostedOnce ==
    (library.ids /\ library.plain /\ library.errors) =>
        \A i, j \in Started :
            (/\ calls[i].round < calls[j].round
             /\ IsPost(i) /\ IsPost(j) /\ CallOf(i).key = CallOf(j).key
             /\ tool[i] = "done" /\ tool[j] # "reused")
            => CallOf(i).key = NoKey

=============================================================================
