----------------------------- MODULE MemoryItems -----------------------------
(***************************************************************************)
(* The long-term memory items of one user: memory/item_store.py, the       *)
(* writer of memory/item_writer.py that runs on the event loop when a run  *)
(* is over, and the confirm, reject and delete handlers of server.py with  *)
(* memory/manager.py, which run in the thread pool.                        *)
(*                                                                         *)
(* The lock of the store is held for one statement.  A change of a row is  *)
(* a read, get(), and a later write of all its columns, update(), between  *)
(* which the other threads act.                                            *)
(*                                                                         *)
(* An item is the number of its insertion.  Scores and times, and with     *)
(* them what touch_access changes, are abstracted: where the code sorts by *)
(* them, any order may come out.                                           *)
(***************************************************************************)
EXTENDS Integers, Sequences, FiniteSets

CONSTANTS
    Content,        \* texts of items, each with its type
    Candidate,      \* what a run may want to remember: [content, pending]
    Similar,        \* pairs whose similarity reaches the threshold of duplicates
    Conflicting,    \* pairs whose similarity reaches that of conflicts
    Opposed,        \* pairs that _contradiction_pending_reason tells apart
    Protected,      \* texts whose importance protects them from eviction
    Mortal,         \* texts that come with ttl_days
    Keep,           \* long_term_max_items_per_user
    Tombstone,      \* DELETED_MEMORY_CONTENT
    Absent,         \* no row
    Handler,        \* threads of the pool
    MaxItems,       \* bound of the model: insertions
    MaxRequests,    \* bound of the model: requests of the user
    MaxCrashes      \* bound of the model: crashes

ASSUME MemoryAssumption ==
    /\ Conflicting \subseteq Similar /\ Similar \subseteq Content \X Content
    /\ \A pair \in Similar : pair[1] # pair[2]
    /\ Opposed \subseteq Conflicting
    /\ Candidate \subseteq [content : Content, pending : BOOLEAN]
    /\ Tombstone \notin Content
    /\ Keep \in Nat \ {0}
    /\ {MaxItems, MaxRequests, MaxCrashes} \subseteq Nat

Item == 1..MaxItems
Row == [content : Content \cup {Tombstone}, pending : BOOLEAN, deprecated : BOOLEAN]
Verdict == {"confirm", "reject", "delete"}

VARIABLES
    rows,       \* memory_items
    supersedes, \* column supersedes_id, which no update changes
    inserted,   \* insertions so far
    expired,    \* items whose expires_at has passed
    writer,     \* the writer and what it holds
    handlers,   \* each thread of the pool and what it holds
    proofs,     \* items with a stored delete proof
    requests, crashes,
    out,        \* history: items that were pending or deprecated at some time
    confirmed,  \* history: items of which a confirmation was requested
    contested   \* history: items somebody held while they were deleted

vars == <<rows, supersedes, inserted, expired, writer, handlers, proofs, requests,
          crashes, out, confirmed, contested>>

Idle == [at |-> "idle", todo |-> <<>>, new |-> Absent, old |-> 0, victims |-> {}, copy |-> Absent]
NoRequest == [at |-> "idle", verdict |-> "confirm", item |-> 0, copy |-> Absent]

TypeOK ==
    /\ rows \in [Item -> Row \cup {Absent}]
    /\ supersedes \in [Item -> 0..MaxItems]
    /\ inserted \in 0..MaxItems
    /\ expired \subseteq Item
    /\ writer \in [at : {"idle", "list", "read", "write", "insert", "count", "evict", "evicting"},
                   todo : Seq(Candidate), new : Row \cup {Absent}, old : 0..MaxItems,
                   victims : SUBSET Item, copy : Row \cup {Absent}]
    /\ handlers \in [Handler -> [at : {"idle", "write", "event"}, verdict : Verdict,
                                 item : 0..MaxItems, copy : Row \cup {Absent}]]
    /\ proofs \cup out \cup confirmed \cup contested \subseteq Item
    /\ requests \in 0..MaxRequests
    /\ crashes \in 0..MaxCrashes

Exists(i) == rows[i] # Absent
Live == {i \in Item : Exists(i) /\ ~rows[i].deprecated}

Recalled_WithPending == {i \in Live : i \notin expired}

\* list_active, which is what a run recalls and the writer compares with
Recalled == {i \in Live : ~rows[i].pending /\ i \notin expired}

Deprecated(row) == [row EXCEPT !.deprecated = TRUE]
Confirmed(row) == [row EXCEPT !.deprecated = FALSE, !.pending = FALSE]
Tombstoned_Soft(row) == [row EXCEPT !.pending = FALSE, !.deprecated = TRUE]

Tombstoned(row) == [content |-> Tombstone, pending |-> FALSE, deprecated |-> TRUE]

\* update: the row that was read, as changed, whatever the row is now; nothing
\* if it is gone.
Stored(i, row) == [rows EXCEPT ![i] = IF Exists(i) THEN row ELSE Absent]

-----------------------------------------------------------------------------
(* The writer *)

\* persist_run_memories: delete_expired, and the candidates that pass the gate.
StartPersist ==
    /\ writer.at = "idle"
    /\ \E todo \in {<<c>> : c \in Candidate} \cup (Candidate \X Candidate) :
       /\ inserted + Len(todo) <= MaxItems
       /\ writer' = [Idle EXCEPT !.at = "list", !.todo = todo]
    /\ rows' = [i \in Item |-> IF i \in expired THEN Absent ELSE rows[i]]
    /\ UNCHANGED <<supersedes, inserted, expired, handlers, proofs, requests, crashes,
                   out, confirmed, contested>>

Advance(at) == [Idle EXCEPT !.at = at, !.todo = Tail(writer.todo)]

Next1 == IF Len(writer.todo) = 1 THEN Advance("count") ELSE Advance("list")

Writing(at, new, old) == [writer EXCEPT !.at = at, !.new = new, !.old = old]

\* What upsert_candidate makes of a candidate and an item that is similar, or 0.
Plan(candidate, old) ==
    LET pair == <<rows[old].content, candidate.content>>
        new(pending) == [content |-> candidate.content, pending |-> pending,
                         deprecated |-> FALSE]
    IN IF old = 0 \/ pair \notin Conflicting THEN Writing("insert", new(candidate.pending), 0)
       ELSE IF pair \in Opposed THEN Writing("insert", new(TRUE), old)
       ELSE Writing("read", new(candidate.pending), old)

\* list_active and the decision, on what it returned.
Compare ==
    /\ writer.at = "list"
    /\ LET candidate == Head(writer.todo)
           same == {i \in Recalled : rows[i].content = candidate.content}
           similar == {i \in Recalled : <<rows[i].content, candidate.content>> \in Similar}
       IN IF same # {} THEN writer' = Next1
          ELSE \E old \in IF similar = {} THEN {0} ELSE similar :
               writer' = Plan(candidate, old)
    /\ UNCHANGED <<rows, supersedes, inserted, expired, handlers, proofs, requests,
                   crashes, out, confirmed, contested>>

\* deprecate: get
ReadOld ==
    /\ writer.at = "read"
    /\ writer' = IF Exists(writer.old)
                 THEN [writer EXCEPT !.at = "write", !.copy = rows[writer.old]]
                 ELSE [writer EXCEPT !.at = "insert"]
    /\ UNCHANGED <<rows, supersedes, inserted, expired, handlers, proofs, requests,
                   crashes, out, confirmed, contested>>

\* deprecate: update
WriteOld ==
    /\ writer.at = "write"
    /\ rows' = Stored(writer.old, Deprecated(writer.copy))
    /\ out' = out \cup {writer.old}
    /\ writer' = [writer EXCEPT !.at = "insert", !.copy = Absent]
    /\ UNCHANGED <<supersedes, inserted, expired, handlers, proofs, requests, crashes,
                   confirmed, contested>>

Insert ==
    /\ writer.at = "insert"
    /\ inserted' = inserted + 1
    /\ rows' = [rows EXCEPT ![inserted + 1] = writer.new]
    /\ supersedes' = [supersedes EXCEPT ![inserted + 1] = writer.old]
    /\ out' = IF writer.new.pending THEN out \cup {inserted + 1} ELSE out
    /\ writer' = Next1
    /\ UNCHANGED <<expired, handlers, proofs, requests, crashes, confirmed, contested>>

Victims_KeepOneMore(live) ==
    LET open == {i \in live : rows[i].content \notin Protected}
        excess == Cardinality(live) - Keep - 1
    IN {v \in SUBSET open :
          Cardinality(v) = IF excess <= 0 THEN 0
                           ELSE IF excess < Cardinality(open) THEN excess
                           ELSE Cardinality(open)}

\* The lowest scores; which these are is left open.
Victims(live) ==
    LET open == {i \in live : rows[i].content \notin Protected}
        excess == Cardinality(live) - Keep
    IN {v \in SUBSET open :
          Cardinality(v) = IF excess <= 0 THEN 0
                           ELSE IF excess < Cardinality(open) THEN excess
                           ELSE Cardinality(open)}

\* evict_lowest_score: list_items, items that wait for a confirmation included
CountLive ==
    /\ writer.at = "count"
    /\ \E victims \in Victims(Live) :
       writer' = IF victims = {} THEN Idle ELSE [Idle EXCEPT !.at = "evict", !.victims = victims]
    /\ UNCHANGED <<rows, supersedes, inserted, expired, handlers, proofs, requests,
                   crashes, out, confirmed, contested>>

Evicted(i) ==
    LET left == writer.victims \ {i}
    IN IF left = {} THEN Idle ELSE [Idle EXCEPT !.at = "evict", !.victims = left]

\* deprecate of a victim: get
ReadVictim ==
    /\ writer.at = "evict"
    /\ \E i \in writer.victims :
       writer' = IF Exists(i)
                 THEN [writer EXCEPT !.at = "evicting", !.old = i, !.copy = rows[i]]
                 ELSE Evicted(i)
    /\ UNCHANGED <<rows, supersedes, inserted, expired, handlers, proofs, requests,
                   crashes, out, confirmed, contested>>

\* deprecate of a victim: update
Evict ==
    /\ writer.at = "evicting"
    /\ rows' = Stored(writer.old, Deprecated(writer.copy))
    /\ out' = out \cup {writer.old}
    /\ writer' = Evicted(writer.old)
    /\ UNCHANGED <<supersedes, inserted, expired, handlers, proofs, requests, crashes,
                   confirmed, contested>>

-----------------------------------------------------------------------------
(* The handlers *)

\* The read of an item that belongs to the user; for one that is gone, 404.
Request(h, verdict, i) ==
    /\ handlers[h].at = "idle"
    /\ requests < MaxRequests
    /\ Exists(i)
    /\ requests' = requests + 1
    /\ handlers' = [handlers EXCEPT ![h] =
         [at |-> "write", verdict |-> verdict, item |-> i, copy |-> rows[i]]]
    /\ confirmed' = IF verdict = "confirm" THEN confirmed \cup {i} ELSE confirmed
    /\ UNCHANGED <<rows, supersedes, inserted, expired, writer, proofs, crashes, out, contested>>

\* Who holds a copy of the item that he will write back.
Held(i) == {h \in Handler : handlers[h].at = "write" /\ handlers[h].item = i}
HeldByWriter(i) == writer.at \in {"write", "evicting"} /\ writer.old = i

\* confirm_item, deprecate or delete_with_tombstone: update
WriteVerdict(h) ==
    /\ handlers[h].at = "write"
    /\ LET i == handlers[h].item
           copy == handlers[h].copy
       IN /\ CASE handlers[h].verdict = "confirm" ->
                    rows' = Stored(i, Confirmed(copy)) /\ UNCHANGED <<out, contested>>
               [] handlers[h].verdict = "reject" ->
                    /\ rows' = Stored(i, Deprecated(copy))
                    /\ out' = out \cup {i}
                    /\ UNCHANGED contested
               [] handlers[h].verdict = "delete" ->
                    /\ rows' = Stored(i, Tombstoned(copy))
                    /\ out' = out \cup {i}
                    /\ contested' = IF Held(i) # {h} \/ HeldByWriter(i)
                                    THEN contested \cup {i} ELSE contested
          /\ handlers' = [handlers EXCEPT ![h].at = "event", ![h].copy = Absent]
    /\ UNCHANGED <<supersedes, inserted, expired, writer, proofs, requests, crashes, confirmed>>

\* _record_memory_governance, _record_memory_delete_proof
Record(h) ==
    /\ handlers[h].at = "event"
    /\ proofs' = IF handlers[h].verdict = "delete" THEN proofs \cup {handlers[h].item} ELSE proofs
    /\ handlers' = [handlers EXCEPT ![h] = NoRequest]
    /\ UNCHANGED <<rows, supersedes, inserted, expired, writer, requests, crashes, out,
                   confirmed, contested>>

\* The thread of the item is not active and has no governance run yet: create_run
\* raises, after the row was written, and the request fails.
RecordFails(h) ==
    /\ handlers[h].at = "event"
    /\ handlers' = [handlers EXCEPT ![h] = NoRequest]
    /\ UNCHANGED <<rows, supersedes, inserted, expired, writer, proofs, requests, crashes,
                   out, confirmed, contested>>

-----------------------------------------------------------------------------
(* Time and crashes *)

Expire(i) ==
    /\ Exists(i) /\ i \notin expired
    /\ rows[i].content \in Mortal
    /\ expired' = expired \cup {i}
    /\ UNCHANGED <<rows, supersedes, inserted, writer, handlers, proofs, requests, crashes,
                   out, confirmed, contested>>

\* The rows are in the database; whoever was at work is gone.
Crash ==
    /\ crashes < MaxCrashes
    /\ crashes' = crashes + 1
    /\ writer' = Idle
    /\ handlers' = [h \in Handler |-> NoRequest]
    /\ UNCHANGED <<rows, supersedes, inserted, expired, proofs, requests, out, confirmed,
                   contested>>

-----------------------------------------------------------------------------
Init ==
    /\ rows = [i \in Item |-> Absent]
    /\ supersedes = [i \in Item |-> 0]
    /\ inserted = 0
    /\ expired = {}
    /\ writer = Idle
    /\ handlers = [h \in Handler |-> NoRequest]
    /\ proofs = {} /\ out = {} /\ confirmed = {} /\ contested = {}
    /\ requests = 0 /\ crashes = 0

Writer ==
    \/ StartPersist \/ Compare \/ ReadOld \/ WriteOld \/ Insert
    \/ CountLive \/ ReadVictim \/ Evict

Next ==
    \/ Writer
    \/ \E h \in Handler, verdict \in Verdict, i \in Item : Request(h, verdict, i)
    \/ \E h \in Handler : WriteVerdict(h) \/ Record(h) \/ RecordFails(h)
    \/ \E i \in Item : Expire(i)
    \/ Crash

Spec == Init /\ [][Next]_vars

-----------------------------------------------------------------------------
(* Properties *)

\* An item that had to be confirmed, or was superseded, evicted, rejected or
\* deleted, is recalled only if its confirmation was requested, although every
\* write of a row may be older than the row.
OnlyConfirmActivates == Recalled \cap out \subseteq confirmed

\* A proof that an item was deleted is true: unless somebody held the item while
\* it was deleted, its text is gone for good.
DeletedTextIsGone ==
    \A i \in proofs \ contested : Exists(i) => rows[i].content = Tombstone

\* When the writer is done the user has no more items than allowed, but for
\* protected ones and those a confirmation brought back.
CapacityHolds ==
    (writer.at = "idle" /\ crashes = 0 /\ confirmed = {}) =>
        \/ Cardinality(Live) <= Keep
        \/ \A i \in Live : rows[i].content \in Protected

\* Every deletion that is over has its proof.
DeletionIsProven ==
    crashes = 0 => \A i \in Item :
        (/\ Exists(i) /\ rows[i].content = Tombstone
         /\ \A h \in Handler : handlers[h].item # i)
        => i \in proofs

\* A deleted item stays out of what is recalled.
DeletedStaysOut == proofs \cap Recalled \subseteq contested

\* The proof of a deletion is true whoever held the item.
ProofIsTrue == \A i \in proofs : Exists(i) => rows[i].content = Tombstone

\* Two items that conflict are not recalled together.
NoRivals ==
    \A i, j \in Recalled : <<rows[i].content, rows[j].content>> \notin Conflicting

\* An item that waits for a confirmation has not yet replaced another.
PendingReplacesNothing ==
    (writer.at = "idle" /\ requests = 0) =>
        \A i \in Live :
            rows[i].pending /\ supersedes[i] # 0 /\ Exists(supersedes[i])
            => ~rows[supersedes[i]].deprecated

=============================================================================
