------------------------------ MODULE RagReload ------------------------------
(***************************************************************************)
(* rag/reload.py with the parts of rag/ it drives: the documents on disk,  *)
(* the keyword corpus of the process, the vector collection with its       *)
(* manifest, and the threads that bring the first into the others: the     *)
(* startup, the polling watcher, the API handlers and the vector worker.   *)
(*                                                                         *)
(* A document is its version: 0 when the file is absent, otherwise the     *)
(* number of the write that produced it.  Modification times and sizes are *)
(* taken to tell two writes apart, and a chunk id to determine the text.   *)
(* An action is what a thread does between two points where another thread *)
(* of the process, or an editor of the files, can matter.  A pass over all *)
(* files (fingerprint, load) is one action; the files of a vector sync are *)
(* taken one by one, in any order.                                         *)
(***************************************************************************)
EXTENDS Naturals

CONSTANTS
    File,           \* names of documents
    NoFile,         \* the absence of a name
    Pool,           \* handler threads of the synchronous endpoints
    Requests,       \* the requests clients make: "reload", "upload", "delete"
    Watching,       \* settings.rag_hot_reload_enabled
    UseVector,      \* settings.rag_use_vector
    StartupEdits,   \* whether files may change while the process starts
    MaxEdits,       \* bound of the model: writes and removals of files
    MaxFailures,    \* bound of the model: exceptions considered
    MaxRestarts     \* bound of the model: crashes considered

ASSUME RagAssumption ==
    /\ NoFile \notin File
    /\ Requests \subseteq {"reload", "upload", "delete"}
    /\ Pool \cap {"loop", "watch", "worker", "boot"} = {}
    /\ Watching \in BOOLEAN /\ UseVector \in BOOLEAN /\ StartupEdits \in BOOLEAN
    /\ MaxEdits \in Nat /\ MaxFailures \in Nat /\ MaxRestarts \in Nat

VARIABLES
    disk,           \* disk[f]: version of the document, 0 when there is none
    registered,     \* load_order of docs_manifest.json, empty without one
    edits,          \* writes and removals so far, hence the latest version
    manifest,       \* rag_manifest.json: version stamped and version embedded
    vectors,        \* rows of the collection wm_docs, as <<file, version>>
    chunks,         \* store.chunks: version served for each file, 0 for none
    fingerprint,    \* _fingerprint
    enabled,        \* store.vector_enabled
    vectorStatus,   \* _vector_status
    pending,        \* _pending_vector_reload
    at,             \* at[t]: where thread t is
    local,          \* local[t]: the local variables of thread t
    deleted,        \* history: documents unlinked by a deletion that went on
    failures,       \* exceptions so far
    restarts        \* crashes so far

documents == <<disk, registered, edits>>
index     == <<manifest, vectors>>
store     == <<chunks, fingerprint, enabled, vectorStatus, pending>>
history   == <<deleted, failures, restarts>>
vars == <<disk, registered, edits, manifest, vectors, chunks, fingerprint,
          enabled, vectorStatus, pending, at, local, deleted, failures, restarts>>

-----------------------------------------------------------------------------
(* Types *)

\* The event loop runs the upload handler; a thread of the pool runs the others.
Thread  == Pool \cup {"loop", "watch", "worker", "boot"}
Version == 0 .. MaxEdits

\* A manifest entry without embedded chunks stands for no entry.
Entry   == [stamp : Version, ids : Version]
NoEntry == [stamp |-> 0, ids |-> 0]

Corpus      == [File -> Version]
SourcePrint == [names : SUBSET File, versions : Corpus]
ReloadStep  == {"load", "replace", "publish", "schedule"}
SyncStep    == {"sync", "drop", "pick", "upsert", "stamp"}
DeleteStep  == {"forget", "purge", "save", "unlink"}
Label       == ReloadStep \cup SyncStep \cup DeleteStep \cup
               {"idle", "reload", "test", "exiting", "boot", "print"}

Local == [print    : SourcePrint,             \* new_fp
          chunks   : Corpus,            \* chunks
          blocking : BOOLEAN,           \* sync_vector
          file     : File \cup {NoFile},\* source_file of a deletion
          copy     : [File -> Entry],   \* the manifest in memory
          doomed   : SUBSET (File \X Version),  \* delete_ids
          todo     : SUBSET File,       \* delta.changed, not yet processed
          source   : File \cup {NoFile},\* the file being embedded
          text     : Version]           \* and its file_chunks

\* A thread that embeds or deletes a file knows which.
ThreadsOK ==
    /\ at \in [Thread -> Label]
    /\ local \in [Thread -> Local]
    /\ \A t \in Thread :
          /\ at[t] \in {"upsert", "stamp"} => local[t].source \in File
          /\ at[t] \in DeleteStep => local[t].file \in File

TypeOK ==
    /\ disk \in Corpus /\ registered \in SUBSET File /\ edits \in Version
    /\ manifest \in [File -> Entry]
    /\ vectors \in SUBSET (File \X Version)
    /\ chunks \in Corpus /\ fingerprint \in SourcePrint
    /\ enabled \in BOOLEAN /\ pending \in BOOLEAN
    /\ vectorStatus \in {"disabled", "ready", "rebuilding", "stale", "failed"}
    /\ ThreadsOK
    /\ deleted \in SUBSET File
    /\ failures \in 0 .. MaxFailures /\ restarts \in 0 .. MaxRestarts

-----------------------------------------------------------------------------
(* What the code reads *)

Present == {f \in File : disk[f] # 0}
Empty   == [f \in File |-> 0]

\* The names in the load order and the mtime and size of each file.
Fingerprint_PresenceOnly ==
    [names |-> registered, versions |-> [f \in File |-> IF disk[f] = 0 THEN 0 ELSE 1]]

Fingerprint == [names |-> registered, versions |-> disk]

\* Without a load order every document found in the directory is in it.
LoadOrder == IF registered = {} THEN Present ELSE registered

Listed(m) == {f \in File : m[f].ids # 0}

Ids_VanishedOnly(m, fs) == {<<f, m[f].ids>> : f \in (fs \cap Listed(m)) \ Present}

Ids(m, fs) == {<<f, m[f].ids>> : f \in fs \cap Listed(m)}
Without(m, fs) == [f \in File |-> IF f \in fs THEN NoEntry ELSE m[f]]

\* compute_delta: files to embed again, and entries whose file is gone.
ChangedFiles(m) == {f \in Present : f \notin Listed(m) \/ m[f].stamp # disk[f]}
RemovedFiles(m) == Listed(m) \ Present

Blank == [print |-> [names |-> {}, versions |-> Empty], chunks |-> Empty,
          blocking |-> FALSE, file |-> NoFile,
          copy |-> [f \in File |-> NoEntry], doomed |-> {}, todo |-> {},
          source |-> NoFile, text |-> 0]

Serving == at["boot"] = "idle"

Goto(t, label)  == at' = [at EXCEPT ![t] = label]
Keep(t, values) == local' = [local EXCEPT ![t] = values]

\* The handler or the poll is over.
Return(t) == Goto(t, "idle") /\ Keep(t, Blank)

-----------------------------------------------------------------------------
(* The directory of documents, changed by editors and by uploads *)

Write(f, version) ==
    /\ edits < MaxEdits
    /\ disk[f] # version
    /\ edits' = edits + 1
    /\ disk' = [disk EXCEPT ![f] = version]
    /\ deleted' = deleted \ {f}

EditFile(f) ==
    /\ StartupEdits \/ at["boot"] \in {"boot", "idle"}
    /\ \E version \in {0, edits + 1} : Write(f, version)
    /\ UNCHANGED <<registered, index, store, at, local, failures, restarts>>

\* rag_upload: write the file, register it, then reload.
Upload(f) ==
    /\ "upload" \in Requests /\ Serving /\ at["loop"] = "idle"
    /\ Write(f, edits + 1)
    /\ registered' = (LoadOrder \cup {f})
    /\ Goto("loop", "reload")
    /\ UNCHANGED <<index, store, local, failures, restarts>>

-----------------------------------------------------------------------------
(* RagStoreManager.reload *)

ReloadRequest(p) ==
    /\ "reload" \in Requests /\ Serving /\ at[p] = "idle"
    /\ Goto(p, "reload")
    /\ UNCHANGED <<documents, index, store, local, history>>

\* One poll of check_and_reload_if_changed.
WatchCheck(t) ==
    /\ t = "watch" /\ Watching /\ Serving /\ at[t] = "idle"
    /\ Fingerprint # fingerprint
    /\ Goto(t, "reload")
    /\ UNCHANGED <<documents, index, store, local, history>>

TakeFingerprint(t) ==
    /\ at[t] = "reload"
    /\ Goto(t, "load")
    /\ Keep(t, [local[t] EXCEPT !.print = Fingerprint])
    /\ UNCHANGED <<documents, index, store, history>>

LoadChunks(t) ==
    /\ at[t] = "load"
    /\ Goto(t, "replace")
    /\ Keep(t, [local[t] EXCEPT !.chunks = disk])
    /\ UNCHANGED <<documents, index, store, history>>

ReplaceChunks_Merge(t) ==
    /\ at[t] = "replace"
    /\ Goto(t, "publish")
    /\ chunks' = [f \in File |-> IF local[t].chunks[f] = 0 THEN chunks[f] ELSE local[t].chunks[f]]
    /\ Keep(t, [local[t] EXCEPT !.chunks = Empty])
    /\ UNCHANGED <<documents, index, fingerprint, enabled, vectorStatus, pending, history>>

ReplaceChunks(t) ==
    /\ at[t] = "replace"
    /\ Goto(t, "publish")
    /\ chunks' = local[t].chunks
    /\ Keep(t, [local[t] EXCEPT !.chunks = Empty])
    /\ UNCHANGED <<documents, index, fingerprint, enabled, vectorStatus, pending, history>>

\* How the vectors follow the chunks.
Follow(t) ==
    IF ~UseVector
    THEN vectorStatus' = "disabled" /\ Return(t)
    ELSE /\ vectorStatus' = IF local[t].blocking THEN vectorStatus
                            ELSE IF enabled THEN "rebuilding" ELSE "stale"
         /\ Goto(t, IF local[t].blocking THEN "sync" ELSE "schedule")
         /\ Keep(t, [local[t] EXCEPT !.print = Blank.print])

Publish_NewPrint(t) ==
    /\ at[t] = "publish"
    /\ fingerprint' = Fingerprint
    /\ Follow(t)
    /\ UNCHANGED <<documents, index, chunks, enabled, pending, history>>

Publish(t) ==
    /\ at[t] = "publish"
    /\ fingerprint' = local[t].print
    /\ Follow(t)
    /\ UNCHANGED <<documents, index, chunks, enabled, pending, history>>

\* A worker that has not returned yet is alive, even after its last test.
ScheduleSync(t) ==
    /\ at[t] = "schedule"
    /\ pending' = (at["worker"] # "idle")
    /\ at' = IF at["worker"] # "idle" THEN [at EXCEPT ![t] = "idle"]
             ELSE [at EXCEPT ![t] = "idle", !["worker"] = "sync"]
    /\ Keep(t, Blank)
    /\ UNCHANGED <<documents, index, chunks, fingerprint, enabled, vectorStatus, history>>

-----------------------------------------------------------------------------
(* sync_vector_index, run by the worker, by a deletion and at startup *)

\* Where the caller of the sync goes on.
GoOn(t) ==
    /\ Goto(t, CASE t = "worker" -> "test" [] t = "boot" -> "print" [] OTHER -> "idle")
    /\ Keep(t, Blank)

\* The caller takes the index, if there is one.
Synced_UnknownStatus(t, hasIndex) ==
    /\ enabled' = hasIndex
    /\ vectorStatus' = IF hasIndex THEN "synced" ELSE "stale"
    /\ GoOn(t)

Synced(t, hasIndex) ==
    /\ enabled' = hasIndex
    /\ vectorStatus' = IF t = "boot" THEN vectorStatus
                       ELSE IF hasIndex THEN "ready" ELSE "stale"
    /\ GoOn(t)

SyncStart(t) ==
    LET changed == ChangedFiles(manifest)
        removed == RemovedFiles(manifest)
        upToDate == /\ changed = {} /\ removed = {}
                    /\ vectors # {} /\ Listed(manifest) # {}
    IN  /\ at[t] = "sync"
        /\ IF chunks = Empty \/ upToDate
           THEN Synced(t, chunks # Empty)
           ELSE /\ Goto(t, "drop")
                /\ Keep(t, [local[t] EXCEPT
                       !.copy   = Without(manifest, changed \cup removed),
                       !.doomed = Ids(manifest, changed \cup removed),
                       !.todo   = changed])
                /\ UNCHANGED <<enabled, vectorStatus>>
        /\ UNCHANGED <<documents, index, chunks, fingerprint, pending, history>>

SyncDrop_WholeCollection(t) ==
    /\ at[t] = "drop"
    /\ vectors' = {}
    /\ Goto(t, "pick")
    /\ Keep(t, [local[t] EXCEPT !.doomed = {}])
    /\ UNCHANGED <<documents, manifest, store, history>>

SyncDrop(t) ==
    /\ at[t] = "drop"
    /\ vectors' = vectors \ local[t].doomed
    /\ Goto(t, "pick")
    /\ Keep(t, [local[t] EXCEPT !.doomed = {}])
    /\ UNCHANGED <<documents, manifest, store, history>>

\* A file that has gone meanwhile has no chunks and gets no entry.
SyncPick(t, f) ==
    /\ at[t] = "pick" /\ f \in local[t].todo
    /\ IF disk[f] = 0
       THEN Goto(t, "pick") /\ Keep(t, [local[t] EXCEPT !.todo = @ \ {f}])
       ELSE Goto(t, "upsert") /\ Keep(t, [local[t] EXCEPT !.todo = @ \ {f},
                                                  !.source = f, !.text = disk[f]])
    /\ UNCHANGED <<documents, index, store, history>>

SyncUpsert(t) ==
    /\ at[t] = "upsert"
    /\ vectors' = vectors \cup {<<local[t].source, local[t].text>>}
    /\ Goto(t, "stamp")
    /\ UNCHANGED <<documents, manifest, store, local, history>>

\* update_file_entry takes the fingerprint of the file as it is now.
SyncStamp(t) ==
    /\ at[t] = "stamp"
    /\ Goto(t, "pick")
    /\ LET f == local[t].source
       IN  Keep(t, [local[t] EXCEPT
                !.copy[f] = [stamp |-> disk[f], ids |-> local[t].text],
                !.source = NoFile, !.text = 0])
    /\ UNCHANGED <<documents, index, store, history>>

SyncSave(t) ==
    /\ at[t] = "pick" /\ local[t].todo = {}
    /\ manifest' = local[t].copy
    /\ Synced(t, TRUE)
    /\ UNCHANGED <<documents, vectors, chunks, fingerprint, pending, history>>

\* The end of the loop of _vector_worker, under the lock.
WorkerTest(t) ==
    /\ t = "worker" /\ at[t] = "test"
    /\ Goto(t, IF pending THEN "sync" ELSE "exiting")
    /\ pending' = FALSE
    /\ UNCHANGED <<documents, index, chunks, fingerprint, enabled, vectorStatus, local, history>>

WorkerExit(t) ==
    /\ t = "worker" /\ at[t] = "exiting"
    /\ Goto(t, "idle")
    /\ UNCHANGED <<documents, index, store, local, history>>

-----------------------------------------------------------------------------
(* delete_rag_document *)

DeleteRequest(p, f) ==
    /\ "delete" \in Requests /\ Serving /\ at[p] = "idle"
    /\ f \in LoadOrder
    /\ registered' = LoadOrder \ {f}
    /\ Goto(p, IF UseVector THEN "forget" ELSE "unlink")
    /\ Keep(p, [local[p] EXCEPT !.file = f, !.blocking = TRUE])
    /\ UNCHANGED <<disk, edits, index, store, history>>

\* delete_vector_chunks: read the manifest, delete the rows, write it back.
ForgetEntry(t) ==
    /\ at[t] = "forget"
    /\ Goto(t, "purge")
    /\ Keep(t, [local[t] EXCEPT !.copy   = Without(manifest, {local[t].file}),
                                !.doomed = Ids(manifest, {local[t].file})])
    /\ UNCHANGED <<documents, index, store, history>>

PurgeVectors(t) ==
    /\ at[t] = "purge"
    /\ vectors' = vectors \ local[t].doomed
    /\ Goto(t, "save")
    /\ Keep(t, [local[t] EXCEPT !.doomed = {}])
    /\ UNCHANGED <<documents, manifest, store, history>>

SaveManifest(t) ==
    /\ at[t] = "save"
    /\ manifest' = local[t].copy
    /\ Goto(t, "unlink")
    /\ Keep(t, [local[t] EXCEPT !.copy = Blank.copy])
    /\ UNCHANGED <<documents, vectors, store, history>>

UnlinkFile(t) ==
    /\ at[t] = "unlink"
    /\ disk' = [disk EXCEPT ![local[t].file] = 0]
    /\ deleted' = deleted \cup {local[t].file}
    /\ Goto(t, "reload")
    /\ UNCHANGED <<registered, edits, index, store, local, failures, restarts>>

-----------------------------------------------------------------------------
(* Startup, failures and crashes *)

BootLoad(t) ==
    /\ t = "boot" /\ at[t] = "boot"
    /\ chunks' = disk
    /\ Goto(t, IF UseVector /\ Present # {} THEN "sync" ELSE "print")
    /\ UNCHANGED <<documents, index, fingerprint, enabled, vectorStatus, pending, local, history>>

\* __init__ takes the fingerprint once the store is built.
BootFingerprint(t) ==
    /\ t = "boot" /\ at[t] = "print"
    /\ fingerprint' = Fingerprint
    /\ vectorStatus' = IF ~UseVector THEN "disabled"
                       ELSE IF enabled THEN "ready" ELSE "stale"
    /\ Goto(t, "idle")
    /\ UNCHANGED <<documents, index, chunks, enabled, pending, local, history>>

\* An exception of load_chunks or of unlink ends the request; one of the sync is
\* kept in the status; after one of delete_vector_chunks the deletion goes on.
Fail(t) ==
    /\ failures < MaxFailures /\ t # "boot"
    /\ failures' = failures + 1
    /\ \/ /\ at[t] \in {"load", "unlink"}
          /\ deleted' = deleted \ {local[t].file}
          /\ Return(t)
          /\ UNCHANGED vectorStatus
       \/ /\ at[t] \in SyncStep
          /\ vectorStatus' = "failed"
          /\ GoOn(t)
          /\ UNCHANGED deleted
       \/ /\ at[t] \in {"forget", "purge", "save"}
          /\ Goto(t, "unlink")
          /\ Keep(t, [local[t] EXCEPT !.copy = Blank.copy, !.doomed = {}])
          /\ UNCHANGED <<vectorStatus, deleted>>
    /\ UNCHANGED <<documents, index, chunks, fingerprint, enabled, pending, restarts>>

\* The process dies, for instance of an exception while it starts, and is
\* started again.
Crash ==
    /\ restarts < MaxRestarts
    /\ restarts' = restarts + 1
    /\ chunks' = Empty /\ fingerprint' = Blank.print
    /\ enabled' = FALSE /\ vectorStatus' = "disabled" /\ pending' = FALSE
    /\ at' = [t \in Thread |-> IF t = "boot" THEN "boot" ELSE "idle"]
    /\ local' = [t \in Thread |-> Blank]
    /\ UNCHANGED <<documents, index, deleted, failures>>

-----------------------------------------------------------------------------
Init ==
    /\ disk = Empty /\ registered = {} /\ edits = 0
    /\ manifest = Blank.copy /\ vectors = {}
    /\ chunks = Empty /\ fingerprint = Blank.print
    /\ enabled = FALSE /\ vectorStatus = "disabled" /\ pending = FALSE
    /\ at = [t \in Thread |-> IF t = "boot" THEN "boot" ELSE "idle"]
    /\ local = [t \in Thread |-> Blank]
    /\ deleted = {} /\ failures = 0 /\ restarts = 0

\* What thread t does without being asked.
Step(t) ==
    \/ WatchCheck(t) \/ TakeFingerprint(t) \/ LoadChunks(t) \/ ReplaceChunks(t)
    \/ Publish(t) \/ ScheduleSync(t)
    \/ SyncStart(t) \/ SyncDrop(t) \/ SyncUpsert(t) \/ SyncStamp(t) \/ SyncSave(t)
    \/ \E f \in File : SyncPick(t, f)
    \/ WorkerTest(t) \/ WorkerExit(t)
    \/ ForgetEntry(t) \/ PurgeVectors(t) \/ SaveManifest(t) \/ UnlinkFile(t)
    \/ BootLoad(t) \/ BootFingerprint(t)

Next ==
    \/ \E f \in File : EditFile(f) \/ Upload(f)
    \/ \E p \in Pool : ReloadRequest(p) \/ \E f \in File : DeleteRequest(p, f)
    \/ \E t \in Thread : Step(t) \/ Fail(t)
    \/ Crash

Spec == Init /\ [][Next]_vars

\* Threads are scheduled by the operating system, and the watcher polls on.
FairSpec == Spec /\ \A t \in Thread : WF_vars(Step(t))

-----------------------------------------------------------------------------
(* Properties *)

Reloading == {t \in Thread : at[t] \in ReloadStep \cup {"reload"}}
Syncing   == {t \in Thread : at[t] \in SyncStep \cup DeleteStep}

\* The poll compares fingerprints only, so a fingerprint that describes the
\* directory must not be stored beside chunks that do not: once no reload is
\* under way, every document the fingerprint vouches for is served as it is.
KeywordFresh ==
    (Serving /\ Reloading = {} /\ fingerprint = Fingerprint)
        => \A f \in Present : chunks[f] = disk[f]

\* compute_delta skips a file whose stamp matches: its vectors must be in the
\* collection, whatever sync failed or was cut short by a crash.
Skipped == {f \in Present \cap Listed(manifest) : manifest[f].stamp = disk[f]}
SkippedIsEmbedded ==
    \A f \in Skipped : (\A t \in Thread : local[t].file # f)
                        => <<f, manifest[f].ids>> \in vectors

\* A deletion takes the rows away before it saves the manifest: one that comes
\* alone leaves a stamp without rows only if it fails or is cut short.
LostRowsNeedAFailure == (failures = 0 /\ restarts = 0) => SkippedIsEmbedded

\* The manifest is the only way to find rows again: unless a sync failed or the
\* process died, every row belongs to an entry once no sync is under way.
OrphansNeedAFailure ==
    (failures = 0 /\ restarts = 0 /\ Syncing = {})
        => \A row \in vectors : manifest[row[1]].ids = row[2]

\* A document that a deletion has removed is not served any more, until it is
\* written again: not once every reload is over, apart from a change that the
\* watcher is still going to notice.  A deletion whose reload raised answers
\* with an error and promises nothing.
DeletedIsNotServed ==
    (Reloading = {} /\ (Watching => fingerprint = Fingerprint))
        => \A f \in deleted : chunks[f] = 0

\* Nor does the collection keep rows of it, unless something failed.
DeletedHasNoRows ==
    (failures = 0 /\ restarts = 0 /\ Syncing = {})
        => \A row \in vectors : row[1] \notin deleted

\* A file that is not embedded again is embedded as it is now.
SkippedIsCurrent == \A f \in Skipped : manifest[f].ids = disk[f]

\* Once the files stay as they are, the watcher serves every one of them.
KeywordCatchesUp ==
    Watching => <>[](\A f \in Present : chunks[f] = disk[f])

\* A status "rebuilding" is followed by the result of a sync.
RebuildingEnds == (vectorStatus = "rebuilding") ~> (vectorStatus # "rebuilding")

=============================================================================
