--------------------------- MODULE RagReloadProofs ---------------------------
(***************************************************************************)
(* What RagReload guarantees for every set of files and every bound.       *)
(***************************************************************************)
EXTENDS RagReload, TLAPS

USE RagAssumption

-----------------------------------------------------------------------------
(* Types *)

\* The values that threads and their locals start from are well typed.
LEMMA BlankType == Blank \in Local /\ Blank.print \in SourcePrint
                   /\ Blank.copy \in [File -> Entry] /\ Empty \in Corpus
BY DEF Blank, Local, SourcePrint, Corpus, Entry, NoEntry, Empty, Version

\* Zero stands for the absence of a document.
LEMMA ZeroVersion == 0 \in Version
BY DEF Version

\* Updates of the locals that keep them well typed.
LEMMA LocalType ==
    ASSUME NEW r \in Local
    PROVE  /\ \A x \in SourcePrint : [r EXCEPT !.print = x] \in Local
           /\ \A x \in Corpus : [r EXCEPT !.chunks = x] \in Local
           /\ \A x \in File : [r EXCEPT !.file = x, !.blocking = TRUE] \in Local
           /\ \A x \in [File -> Entry] : [r EXCEPT !.copy = x] \in Local
           /\ \A x \in SUBSET (File \X Version) : [r EXCEPT !.doomed = x] \in Local
           /\ \A x \in [File -> Entry], y \in SUBSET (File \X Version) :
                [r EXCEPT !.copy = x, !.doomed = y] \in Local
           /\ \A x \in [File -> Entry], y \in SUBSET (File \X Version), z \in SUBSET File :
                [r EXCEPT !.copy = x, !.doomed = y, !.todo = z] \in Local
           /\ \A z \in SUBSET File : [r EXCEPT !.todo = z] \in Local
           /\ \A z \in SUBSET File, f \in File, v \in Version :
                [r EXCEPT !.todo = z, !.source = f, !.text = v] \in Local
           /\ \A x \in [File -> Entry] :
                [r EXCEPT !.copy = x, !.source = NoFile, !.text = 0] \in Local
<1>1. \A x \in SourcePrint : [r EXCEPT !.print = x] \in Local
      BY DEF Local
<1>2. \A x \in Corpus : [r EXCEPT !.chunks = x] \in Local
      BY DEF Local
<1>3. \A x \in File : [r EXCEPT !.file = x, !.blocking = TRUE] \in Local
      BY DEF Local
<1>4. \A x \in [File -> Entry] : [r EXCEPT !.copy = x] \in Local
      BY DEF Local
<1>5. \A x \in SUBSET (File \X Version) : [r EXCEPT !.doomed = x] \in Local
      BY DEF Local
<1>6. \A x \in [File -> Entry], y \in SUBSET (File \X Version) :
                [r EXCEPT !.copy = x, !.doomed = y] \in Local
      BY DEF Local
<1>7. \A x \in [File -> Entry], y \in SUBSET (File \X Version), z \in SUBSET File :
                [r EXCEPT !.copy = x, !.doomed = y, !.todo = z] \in Local
      BY DEF Local
<1>8. \A z \in SUBSET File : [r EXCEPT !.todo = z] \in Local
      BY DEF Local
<1>9. \A z \in SUBSET File, f \in File, v \in Version :
                [r EXCEPT !.todo = z, !.source = f, !.text = v] \in Local
      BY DEF Local
<1>10. \A x \in [File -> Entry] :
                [r EXCEPT !.copy = x, !.source = NoFile, !.text = 0] \in Local
      BY ZeroVersion DEF Local
<1> QED BY <1>1, <1>2, <1>3, <1>4, <1>5, <1>6, <1>7, <1>8, <1>9, <1>10

\* A thread that moves to label l with locals v leaves all threads well typed.
LEMMA MoveType ==
    ASSUME ThreadsOK, NEW t \in Thread, NEW l \in Label, NEW v \in Local,
           l \in {"upsert", "stamp"} => v.source \in File,
           l \in DeleteStep => v.file \in File,
           Goto(t, l), Keep(t, v)
    PROVE  ThreadsOK'
BY DEF ThreadsOK, Goto, Keep

\* The same for a thread that keeps its locals.
LEMMA GotoType ==
    ASSUME ThreadsOK, NEW t \in Thread, NEW l \in Label,
           l \in {"upsert", "stamp"} => local[t].source \in File,
           l \in DeleteStep => local[t].file \in File,
           Goto(t, l), UNCHANGED local
    PROVE  ThreadsOK'
BY DEF ThreadsOK, Goto

\* The labels of the program.
LEMMA Labels == /\ \A l \in {"idle", "reload", "test", "exiting", "boot", "print",
                             "load", "replace", "publish", "schedule",
                             "sync", "drop", "pick"} :
                         l \in Label /\ l \notin {"upsert", "stamp"} /\ l \notin DeleteStep
                /\ \A l \in {"upsert", "stamp"} : l \in Label /\ l \notin DeleteStep
                /\ \A l \in DeleteStep : l \in Label /\ l \notin {"upsert", "stamp"}
BY DEF Label, ReloadStep, SyncStep, DeleteStep

\* The helpers on manifests yield manifests and rows.
LEMMA ManifestType ==
    ASSUME NEW m \in [File -> Entry], NEW fs
    PROVE  /\ Without(m, fs) \in [File -> Entry]
           /\ Ids(m, fs) \in SUBSET (File \X Version)
BY DEF Without, Ids, Listed, Entry, NoEntry, Version

\* Init establishes the types.
LEMMA TypeInit == Init => TypeOK
<1> SUFFICES ASSUME Init PROVE TypeOK
    OBVIOUS
<1>1. disk \in Corpus /\ chunks \in Corpus /\ edits \in Version
      BY BlankType DEF Init, Version
<1>2. manifest \in [File -> Entry] /\ fingerprint \in SourcePrint
      BY BlankType DEF Init
<1>3. ThreadsOK
      BY BlankType DEF Init, Label, ThreadsOK, DeleteStep
<1>4. /\ registered \in SUBSET File /\ vectors \in SUBSET (File \X Version)
      /\ deleted \in SUBSET File
      BY DEF Init
<1>5. enabled \in BOOLEAN /\ pending \in BOOLEAN
      BY Zenon DEF Init
<1>6. /\ vectorStatus \in {"disabled", "ready", "rebuilding", "stale", "failed"}
      /\ failures \in 0 .. MaxFailures /\ restarts \in 0 .. MaxRestarts
      BY DEF Init
<1> QED BY <1>1, <1>2, <1>3, <1>4, <1>5, <1>6 DEF TypeOK

\* A write of a document keeps the directory well typed.
LEMMA WriteType ==
    ASSUME TypeOK, NEW f \in File, NEW v \in {0, edits + 1}, Write(f, v)
    PROVE  disk' \in Corpus /\ edits' \in Version /\ deleted' \in SUBSET File
BY DEF TypeOK, Write, Corpus, Version

\* A sync that ends or fails leaves the threads well typed.
LEMMA GoOnType == ASSUME TypeOK, NEW t \in Thread, GoOn(t) PROVE ThreadsOK'
<1> DEFINE l == CASE t = "worker" -> "test" [] t = "boot" -> "print" [] OTHER -> "idle"
<1>1. l \in {"test", "print", "idle"}
      OBVIOUS
<1>2. Goto(t, l) /\ Keep(t, Blank)
      BY DEF GoOn
<1> HIDE DEF l
<1> QED BY <1>1, <1>2, MoveType, Labels, BlankType DEF TypeOK

\* What a sync that ends writes is well typed.
LEMMA SyncedType ==
    ASSUME TypeOK, NEW t \in Thread, NEW b \in BOOLEAN, Synced(t, b)
    PROVE  /\ ThreadsOK' /\ enabled' \in BOOLEAN
           /\ vectorStatus' \in {"disabled", "ready", "rebuilding", "stale", "failed"}
<1>1. ThreadsOK'
      BY GoOnType DEF Synced
<1>2. enabled' \in BOOLEAN
      BY Zenon DEF Synced
<1>3. vectorStatus' \in {"disabled", "ready", "rebuilding", "stale", "failed"}
      <2>1. vectorStatus' = vectorStatus \/ vectorStatus' \in {"ready", "stale"}
            BY Zenon DEF Synced
      <2> QED BY <2>1 DEF TypeOK
<1> QED BY <1>1, <1>2, <1>3

\* The end of a handler or of a poll leaves the threads well typed.
LEMMA ReturnType == ASSUME TypeOK, NEW t \in Thread, Return(t) PROVE ThreadsOK'
BY MoveType, Labels, BlankType DEF Return, TypeOK

\* What a thread does of its own accord keeps the types.
LEMMA TypeStep == ASSUME TypeOK, NEW t \in Thread, Step(t) PROVE TypeOK'
<1> USE DEF documents, index, store, history
<1>typed. local[t] \in Local
      BY DEF TypeOK, ThreadsOK
<1>1. CASE WatchCheck(t)
      <2>1. ThreadsOK'
            BY <1>1, GotoType, Labels DEF WatchCheck, TypeOK
      <2> QED BY <1>1, <2>1 DEF WatchCheck, TypeOK
<1>2. CASE TakeFingerprint(t)
      <2>1. [local[t] EXCEPT !.print = Fingerprint] \in Local
            BY <1>typed, LocalType DEF TypeOK, Fingerprint, SourcePrint
      <2>2. ThreadsOK'
            BY <1>2, <2>1, MoveType, Labels DEF TakeFingerprint, TypeOK
      <2> QED BY <1>2, <2>2 DEF TakeFingerprint, TypeOK
<1>3. CASE LoadChunks(t)
      <2>1. [local[t] EXCEPT !.chunks = disk] \in Local
            BY <1>typed, LocalType DEF TypeOK
      <2>2. ThreadsOK'
            BY <1>3, <2>1, MoveType, Labels DEF LoadChunks, TypeOK
      <2> QED BY <1>3, <2>2 DEF LoadChunks, TypeOK
<1>4. CASE ReplaceChunks(t)
      <2>1. [local[t] EXCEPT !.chunks = Empty] \in Local
            BY <1>typed, LocalType, BlankType
      <2>2. ThreadsOK'
            BY <1>4, <2>1, MoveType, Labels DEF ReplaceChunks, TypeOK
      <2>3. chunks' \in Corpus
            BY <1>4, <1>typed DEF ReplaceChunks, Local
      <2> QED BY <1>4, <2>2, <2>3 DEF ReplaceChunks, TypeOK
<1>5. CASE Publish(t)
      <2>1. fingerprint' \in SourcePrint
            BY <1>5, <1>typed DEF Publish, Local
      <2>2. /\ ThreadsOK'
            /\ vectorStatus' \in {"disabled", "ready", "rebuilding", "stale", "failed"}
            <3>1. CASE ~UseVector
                  BY <1>5, <3>1, ReturnType DEF Publish, Follow
            <3>2. CASE UseVector
                  <4>1. [local[t] EXCEPT !.print = Blank.print] \in Local
                        BY <1>typed, LocalType, BlankType
                  <4>2. Goto(t, "sync") \/ Goto(t, "schedule")
                        BY <1>5, <3>2, Zenon DEF Publish, Follow
                  <4>3. ThreadsOK'
                        BY <1>5, <3>2, <4>1, <4>2, MoveType, Labels DEF Publish, Follow, TypeOK
                  <4>4. vectorStatus' = vectorStatus \/ vectorStatus' \in {"rebuilding", "stale"}
                        BY <1>5, <3>2, Zenon DEF Publish, Follow
                  <4> QED BY <4>3, <4>4 DEF TypeOK
            <3> QED BY <3>1, <3>2
      <2> QED BY <1>5, <2>1, <2>2 DEF Publish, TypeOK
<1>6. CASE ScheduleSync(t)
      <2>1. ThreadsOK'
            BY <1>6, <1>typed, BlankType, Labels DEF ScheduleSync, Keep, TypeOK, ThreadsOK
      <2>2. pending' \in BOOLEAN
            BY <1>6, Zenon DEF ScheduleSync
      <2> QED BY <1>6, <2>1, <2>2 DEF ScheduleSync, TypeOK
<1>7. CASE SyncStart(t)
      <2> DEFINE fs == ChangedFiles(manifest) \cup RemovedFiles(manifest)
                 v  == [local[t] EXCEPT !.copy   = Without(manifest, fs),
                                        !.doomed = Ids(manifest, fs),
                                        !.todo   = ChangedFiles(manifest)]
      <2>1. v \in Local
            <3>1. ChangedFiles(manifest) \in SUBSET File
                  BY DEF ChangedFiles, Present
            <3>2. Without(manifest, fs) \in [File -> Entry] /\ Ids(manifest, fs) \in SUBSET (File \X Version)
                  BY ManifestType DEF TypeOK
            <3> HIDE DEF fs
            <3> QED BY <3>1, <3>2, <1>typed, LocalType
      <2>2. CASE Synced(t, chunks # Empty)
            <3>1. (chunks # Empty) \in BOOLEAN
                  OBVIOUS
            <3> QED BY <1>7, <2>2, <3>1, SyncedType DEF SyncStart, TypeOK, Synced
      <2>3. CASE Goto(t, "drop") /\ Keep(t, v) /\ UNCHANGED <<enabled, vectorStatus>>
            <3> HIDE DEF v
            <3>1. ThreadsOK'
                  BY <2>1, <2>3, MoveType, Labels DEF TypeOK
            <3> QED BY <1>7, <2>3, <3>1 DEF SyncStart, TypeOK
      <2> QED BY <1>7, <2>2, <2>3 DEF SyncStart
<1>8. CASE SyncDrop(t)
      <2>1. [local[t] EXCEPT !.doomed = {}] \in Local
            BY <1>typed, LocalType
      <2>2. ThreadsOK'
            BY <1>8, <2>1, MoveType, Labels DEF SyncDrop, TypeOK
      <2> QED BY <1>8, <2>2 DEF SyncDrop, TypeOK
<1>9. ASSUME NEW f \in File, SyncPick(t, f) PROVE TypeOK'
      <2>1. /\ [local[t] EXCEPT !.todo = local[t].todo \ {f}] \in Local
            /\ [local[t] EXCEPT !.todo = local[t].todo \ {f}, !.source = f, !.text = disk[f]] \in Local
            <3>1. local[t].todo \ {f} \in SUBSET File /\ disk[f] \in Version
                  BY <1>typed DEF Local, TypeOK, Corpus
            <3> QED BY <3>1, <1>typed, LocalType
      <2>2. [local[t] EXCEPT !.todo = local[t].todo \ {f}, !.source = f, !.text = disk[f]].source = f
            BY <1>typed DEF Local
      <2>3. ThreadsOK'
            <3>1. CASE disk[f] = 0
                  BY <1>9, <2>1, <3>1, MoveType, Labels DEF SyncPick, TypeOK
            <3>2. CASE disk[f] # 0
                  BY <1>9, <2>1, <2>2, <3>2, MoveType, Labels DEF SyncPick, TypeOK
            <3> QED BY <3>1, <3>2
      <2> QED BY <1>9, <2>3 DEF SyncPick, TypeOK
<1>10. CASE SyncUpsert(t)
      <2>1. local[t].source \in File /\ local[t].text \in Version
            BY <1>10, <1>typed DEF SyncUpsert, TypeOK, ThreadsOK, Local
      <2>2. ThreadsOK'
            BY <1>10, <2>1, GotoType, Labels DEF SyncUpsert, TypeOK
      <2> QED BY <1>10, <2>1, <2>2 DEF SyncUpsert, TypeOK
<1>11. CASE SyncStamp(t)
      <2> DEFINE f == local[t].source
                 e == [stamp |-> disk[f], ids |-> local[t].text]
                 copy == [local[t].copy EXCEPT ![f] = e]
      <2>1. copy \in [File -> Entry]
            <3>1. f \in File /\ local[t].text \in Version /\ local[t].copy \in [File -> Entry]
                  BY <1>11, <1>typed DEF SyncStamp, TypeOK, ThreadsOK, Local
            <3>2. e \in Entry
                  BY <3>1 DEF TypeOK, Corpus, Entry
            <3> QED BY <3>1, <3>2
      <2>2. Goto(t, "pick") /\ Keep(t, [local[t] EXCEPT !.copy = copy, !.source = NoFile, !.text = 0])
            BY <1>11 DEF SyncStamp
      <2> HIDE DEF copy
      <2>3. [local[t] EXCEPT !.copy = copy, !.source = NoFile, !.text = 0] \in Local
            BY <2>1, <1>typed, LocalType
      <2>4. ThreadsOK'
            BY <2>2, <2>3, MoveType, Labels DEF TypeOK
      <2> QED BY <1>11, <2>4 DEF SyncStamp, TypeOK
<1>12. CASE SyncSave(t)
      <2>1. manifest' \in [File -> Entry]
            BY <1>12, <1>typed DEF SyncSave, Local
      <2>2. Synced(t, TRUE)
            BY <1>12 DEF SyncSave
      <2> QED BY <1>12, <2>1, <2>2, SyncedType DEF SyncSave, TypeOK, Synced
<1>13. CASE WorkerTest(t)
      <2>1. Goto(t, "sync") \/ Goto(t, "exiting")
            BY <1>13, Zenon DEF WorkerTest
      <2>2. ThreadsOK'
            BY <1>13, <2>1, GotoType, Labels DEF WorkerTest, TypeOK
      <2>3. pending' \in BOOLEAN
            BY <1>13, Zenon DEF WorkerTest
      <2> QED BY <1>13, <2>2, <2>3 DEF WorkerTest, TypeOK
<1>14. CASE WorkerExit(t)
      <2>1. ThreadsOK'
            BY <1>14, GotoType, Labels DEF WorkerExit, TypeOK
      <2> QED BY <1>14, <2>1 DEF WorkerExit, TypeOK
<1>15. CASE ForgetEntry(t)
      <2>typed. /\ Without(manifest, {local[t].file}) \in [File -> Entry]
                /\ Ids(manifest, {local[t].file}) \in SUBSET (File \X Version)
            BY ManifestType DEF TypeOK
      <2>1. [local[t] EXCEPT !.copy = Without(manifest, {local[t].file}), !.doomed = Ids(manifest, {local[t].file})] \in Local
            BY <1>typed, LocalType, <2>typed
      <2>2. local[t].file \in File
            BY <1>15 DEF ForgetEntry, TypeOK, ThreadsOK, DeleteStep
      <2>3. [local[t] EXCEPT !.copy = Without(manifest, {local[t].file}), !.doomed = Ids(manifest, {local[t].file})].file = local[t].file
            BY <1>typed DEF Local
      <2>4. "purge" \in DeleteStep
            BY DEF DeleteStep
      <2>5. ThreadsOK'
            BY <1>15, <2>1, <2>2, <2>3, <2>4, MoveType, Labels DEF ForgetEntry, TypeOK
      <2> QED BY <1>15, <2>5 DEF ForgetEntry, TypeOK
<1>16. CASE PurgeVectors(t)
      <2>1. [local[t] EXCEPT !.doomed = {}] \in Local
            BY <1>typed, LocalType
      <2>2. local[t].file \in File
            BY <1>16 DEF PurgeVectors, TypeOK, ThreadsOK, DeleteStep
      <2>3. [local[t] EXCEPT !.doomed = {}].file = local[t].file
            BY <1>typed DEF Local
      <2>4. "save" \in DeleteStep
            BY DEF DeleteStep
      <2>5. ThreadsOK'
            BY <1>16, <2>1, <2>2, <2>3, <2>4, MoveType, Labels DEF PurgeVectors, TypeOK
      <2> QED BY <1>16, <2>5 DEF PurgeVectors, TypeOK
<1>17. CASE SaveManifest(t)
      <2>1. [local[t] EXCEPT !.copy = Blank.copy] \in Local
            BY <1>typed, LocalType, BlankType
      <2>2. local[t].file \in File
            BY <1>17 DEF SaveManifest, TypeOK, ThreadsOK, DeleteStep
      <2>3. [local[t] EXCEPT !.copy = Blank.copy].file = local[t].file
            BY <1>typed DEF Local
      <2>4. "unlink" \in DeleteStep
            BY DEF DeleteStep
      <2>5. ThreadsOK'
            BY <1>17, <2>1, <2>2, <2>3, <2>4, MoveType, Labels DEF SaveManifest, TypeOK
      <2>6. manifest' \in [File -> Entry]
            BY <1>17, <1>typed DEF SaveManifest, Local
      <2> QED BY <1>17, <2>5, <2>6 DEF SaveManifest, TypeOK
<1>18. CASE UnlinkFile(t)
      <2>1. local[t].file \in File
            BY <1>18 DEF UnlinkFile, TypeOK, ThreadsOK, DeleteStep
      <2>2. ThreadsOK'
            BY <1>18, GotoType, Labels DEF UnlinkFile, TypeOK
      <2>3. disk' \in Corpus
            BY <1>18, <2>1, ZeroVersion DEF UnlinkFile, TypeOK, Corpus
      <2> QED BY <1>18, <2>1, <2>2, <2>3 DEF UnlinkFile, TypeOK
<1>19. CASE BootLoad(t)
      <2>1. Goto(t, "sync") \/ Goto(t, "print")
            BY <1>19, Zenon DEF BootLoad
      <2>2. ThreadsOK'
            BY <1>19, <2>1, GotoType, Labels DEF BootLoad, TypeOK
      <2> QED BY <1>19, <2>2 DEF BootLoad, TypeOK
<1>20. CASE BootFingerprint(t)
      <2>1. ThreadsOK'
            BY <1>20, GotoType, Labels DEF BootFingerprint, TypeOK
      <2>2. fingerprint' \in SourcePrint
            BY <1>20 DEF BootFingerprint, Fingerprint, SourcePrint, TypeOK
      <2>3. vectorStatus' \in {"disabled", "ready", "stale"}
            BY <1>20, Zenon DEF BootFingerprint
      <2> QED BY <1>20, <2>1, <2>2, <2>3 DEF BootFingerprint, TypeOK
<1> QED BY <1>1, <1>2, <1>3, <1>4, <1>5, <1>6, <1>7, <1>8, <1>9, <1>10, <1>11, <1>12, <1>13, <1>14, <1>15, <1>16, <1>17, <1>18, <1>19, <1>20 DEF Step

\* Every step keeps the types: one step per action.
LEMMA TypeNext == TypeOK /\ [Next]_vars => TypeOK'
<1> SUFFICES ASSUME TypeOK, [Next]_vars PROVE TypeOK'
    OBVIOUS
<1> USE DEF documents, index, store, history
<1>threads. Pool \subseteq Thread /\ "loop" \in Thread
      BY DEF Thread
<1>1. CASE UNCHANGED vars
      BY <1>1 DEF vars, TypeOK, ThreadsOK
<1>2. ASSUME NEW f \in File, EditFile(f) PROVE TypeOK'
      BY <1>2, WriteType DEF EditFile, TypeOK, ThreadsOK
<1>3. ASSUME NEW f \in File, Upload(f) PROVE TypeOK'
      <2>1. ThreadsOK'
            BY <1>3, <1>threads, GotoType, Labels DEF Upload, TypeOK
      <2>2. registered' \in SUBSET File
            BY <1>3 DEF Upload, TypeOK, LoadOrder, Present
      <2> QED BY <1>3, <2>1, <2>2, WriteType DEF Upload, TypeOK
<1>4. ASSUME NEW p \in Pool, ReloadRequest(p) PROVE TypeOK'
      <2>1. ThreadsOK'
            BY <1>4, <1>threads, GotoType, Labels DEF ReloadRequest, TypeOK
      <2> QED BY <1>4, <2>1 DEF ReloadRequest, TypeOK
<1>5. ASSUME NEW p \in Pool, NEW f \in File, DeleteRequest(p, f) PROVE TypeOK'
      <2> DEFINE v == [local[p] EXCEPT !.file = f, !.blocking = TRUE]
      <2>1. local[p] \in Local
            BY <1>threads DEF TypeOK, ThreadsOK
      <2>2. v \in Local /\ v.file = f
            <3>1. v \in Local
                  BY <2>1, LocalType
            <3>2. v.file = f
                  BY <2>1 DEF Local
            <3> QED BY <3>1, <3>2
      <2>3. Goto(p, "forget") \/ Goto(p, "unlink")
            BY <1>5, Zenon DEF DeleteRequest
      <2>4. Keep(p, v)
            BY <1>5 DEF DeleteRequest
      <2>5. {"forget", "unlink"} \subseteq DeleteStep
            BY DEF DeleteStep
      <2>6. ThreadsOK'
            <3> HIDE DEF v
            <3> QED BY <2>2, <2>3, <2>4, <2>5, <1>threads, MoveType, Labels DEF TypeOK
      <2>7. registered' \in SUBSET File
            BY <1>5 DEF DeleteRequest, TypeOK, LoadOrder, Present
      <2> QED BY <1>5, <2>6, <2>7 DEF DeleteRequest, TypeOK
<1>6. ASSUME NEW t \in Thread, Step(t) PROVE TypeOK'
      BY <1>6, TypeStep
<1>7. ASSUME NEW t \in Thread, Fail(t) PROVE TypeOK'
      <2>1. failures' \in 0 .. MaxFailures
            BY <1>7 DEF Fail, TypeOK
      <2>2. /\ ThreadsOK' /\ deleted' \in SUBSET File
            /\ vectorStatus' \in {"disabled", "ready", "rebuilding", "stale", "failed"}
            <3>1. CASE Return(t) /\ UNCHANGED vectorStatus /\ deleted' = deleted \ {local[t].file}
                  BY <3>1, ReturnType DEF TypeOK
            <3>2. CASE vectorStatus' = "failed" /\ GoOn(t) /\ UNCHANGED deleted
                  BY <3>2, GoOnType DEF TypeOK
            <3>3. CASE /\ at[t] \in {"forget", "purge", "save"}
                       /\ Goto(t, "unlink") /\ UNCHANGED <<vectorStatus, deleted>>
                       /\ Keep(t, [local[t] EXCEPT !.copy = Blank.copy, !.doomed = {}])
                  <4> DEFINE v == [local[t] EXCEPT !.copy = Blank.copy, !.doomed = {}]
                  <4>1. local[t] \in Local /\ local[t].file \in File
                        BY <3>3 DEF TypeOK, ThreadsOK, DeleteStep
                  <4>2. v \in Local /\ v.file = local[t].file
                        <5>1. v \in Local
                              BY <4>1, LocalType, BlankType
                        <5>2. v.file = local[t].file
                              BY <4>1 DEF Local
                        <5> QED BY <5>1, <5>2
                  <4>3. "unlink" \in DeleteStep
                        BY DEF DeleteStep
                  <4> HIDE DEF v
                  <4>4. ThreadsOK'
                        BY <3>3, <4>1, <4>2, <4>3, MoveType, Labels DEF TypeOK, v
                  <4> QED BY <3>3, <4>4 DEF TypeOK
            <3> QED BY <1>7, <3>1, <3>2, <3>3 DEF Fail
      <2> QED BY <1>7, <2>1, <2>2 DEF Fail, TypeOK
<1>8. CASE Crash
      <2>1. restarts' \in 0 .. MaxRestarts
            BY <1>8 DEF Crash, TypeOK
      <2>2. ThreadsOK'
            BY <1>8, BlankType, Labels DEF Crash, ThreadsOK
      <2>3. enabled' \in BOOLEAN /\ pending' \in BOOLEAN
            BY <1>8, Zenon DEF Crash
      <2> QED BY <1>8, <2>1, <2>2, <2>3, BlankType DEF Crash, TypeOK
<1> QED BY <1>1, <1>2, <1>3, <1>4, <1>5, <1>6, <1>7, <1>8 DEF Next

\* Every reachable state is well typed: no document is newer than the last
\* write, and a thread that embeds or deletes a file knows which.
THEOREM TypeCorrectness == Spec => []TypeOK
<1> QED BY TypeInit, TypeNext, PTL DEF Spec

-----------------------------------------------------------------------------
(* The keyword corpus under the watcher alone *)

\* No request of a client, and no edit while the process starts.
WatcherOnly == Pool = {} /\ "upload" \notin Requests /\ ~StartupEdits

\* Chunks c hold every present document as print p describes it.
Consistent(p, c) ==
    \A f \in File : (disk[f] # 0 /\ p.versions[f] = disk[f]) => c[f] = disk[f]

\* Where each thread can be.
Phases ==
    /\ at["loop"] = "idle"
    /\ at["watch"] \in {"idle", "reload"} \cup ReloadStep
    /\ ~local["watch"].blocking
    /\ at["worker"] \in {"idle", "test", "exiting"} \cup SyncStep
    /\ at["boot"] \in {"boot", "print", "idle"} \cup SyncStep
    /\ ~Serving => (at["watch"] = "idle" /\ at["worker"] = "idle")

\* No fingerprint is ahead of the writes, so the next write differs from all.
NoPrintAhead ==
    \A f \in File : /\ disk[f] <= edits
                    /\ fingerprint.versions[f] <= edits
                    /\ local["watch"].print.versions[f] <= edits

\* Every fingerprint is stored, or about to be, beside chunks it describes.
Vouched ==
    /\ at["boot"] \in {"print"} \cup SyncStep => chunks = disk
    /\ Serving => Consistent(fingerprint, chunks)
    /\ at["watch"] = "replace" =>
          /\ Consistent(local["watch"].print, local["watch"].chunks)
          /\ Consistent(fingerprint, local["watch"].chunks)
    /\ at["watch"] = "publish" => Consistent(local["watch"].print, chunks)

KeywordInv == TypeOK /\ Phases /\ NoPrintAhead /\ Vouched

\* The watcher's view of a thread: its phase and locals stay.
SameWatch == at'["watch"] = at["watch"] /\ local'["watch"] = local["watch"]

\* Vouched and NoPrintAhead read nothing but these.
SameView == /\ UNCHANGED <<disk, edits, chunks, fingerprint>>
            /\ SameWatch
            /\ at'["boot"] \in {"print"} \cup SyncStep => at["boot"] \in {"print"} \cup SyncStep
            /\ Serving' => Serving

\* The initial state has the invariant.
LEMMA KeywordInit == Init => KeywordInv
<1> SUFFICES ASSUME Init PROVE KeywordInv
    OBVIOUS
<1>1. TypeOK
      BY TypeInit
<1>2. Phases
      BY DEF Init, Phases, Thread, Blank, Serving
<1>3. NoPrintAhead
      <2>1. Blank.print.versions = Empty
            BY DEF Blank
      <2>2. local["watch"] = Blank
            BY DEF Init, Thread
      <2>3. disk = Empty /\ edits = 0 /\ fingerprint = Blank.print
            BY DEF Init
      <2>4. \A f \in File : Empty[f] <= 0
            BY DEF Empty
      <2> QED BY <2>1, <2>2, <2>3, <2>4 DEF NoPrintAhead
<1>4. Vouched
      BY DEF Init, Vouched, Thread, Serving, SyncStep
<1> QED BY <1>1, <1>2, <1>3, <1>4 DEF KeywordInv

\* A step that leaves the view alone keeps what is said of it.
LEMMA ViewStep ==
    ASSUME NoPrintAhead, Vouched, SameView
    PROVE  NoPrintAhead' /\ Vouched'
BY DEF NoPrintAhead, Vouched, SameView, SameWatch, Consistent, Serving

\* A write is newer than every fingerprint, so that none vouches for it.
LEMMA WriteConsistent ==
    ASSUME TypeOK, NEW p \in SourcePrint, NEW c, NEW f \in File,
           \A g \in File : p.versions[g] <= edits,
           NEW v \in {0, edits + 1}, Write(f, v), Consistent(p, c)
    PROVE  \A g \in File : (disk'[g] # 0 /\ p.versions[g] = disk'[g]) => c[g] = disk'[g]
<1> SUFFICES ASSUME NEW g \in File, disk'[g] # 0, p.versions[g] = disk'[g]
             PROVE  c[g] = disk'[g]
    OBVIOUS
<1>1. p.versions[g] <= edits /\ edits \in Nat
      BY DEF TypeOK, Version
<1>2. g # f
      BY <1>1 DEF Write, TypeOK, Corpus
<1>3. disk'[g] = disk[g]
      BY <1>2 DEF Write, TypeOK, Corpus
<1> QED BY <1>3 DEF Consistent

\* A write of an editor keeps the invariant.
LEMMA EditKeyword ==
    ASSUME KeywordInv, WatcherOnly, NEW f \in File, EditFile(f)
    PROVE  Phases' /\ NoPrintAhead' /\ Vouched'
<1> USE DEF KeywordInv
<1>1. PICK v \in {0, edits + 1} : Write(f, v)
      BY DEF EditFile
<1>2. UNCHANGED <<at, local, chunks, fingerprint>>
      BY DEF EditFile, store
<1>3. at["boot"] \in {"boot", "idle"}
      BY DEF EditFile, WatcherOnly
<1>4. "watch" \in Thread /\ local["watch"].print \in SourcePrint /\ fingerprint \in SourcePrint
      BY DEF TypeOK, ThreadsOK, Thread, Local
<1>5. Phases'
      BY <1>2 DEF Phases, Serving
<1>6. NoPrintAhead'
      <2>1. edits' = edits + 1 /\ edits \in Nat
            BY <1>1 DEF Write, TypeOK, Version
      <2>2. \A g \in File : disk'[g] \in {disk[g], v}
            BY <1>1 DEF Write, TypeOK, Corpus
      <2>3. \A g \in File : /\ disk[g] \in Nat /\ fingerprint.versions[g] \in Nat
                            /\ local["watch"].print.versions[g] \in Nat
            BY <1>4 DEF TypeOK, Corpus, Version, SourcePrint
      <2> QED BY <1>2, <2>1, <2>2, <2>3 DEF NoPrintAhead
<1>7. Vouched'
      <2>1. at["boot"] \notin {"print"} \cup SyncStep
            BY <1>3 DEF SyncStep
      <2>2. /\ \A g \in File : fingerprint.versions[g] <= edits
            /\ \A g \in File : local["watch"].print.versions[g] <= edits
            BY DEF NoPrintAhead
      <2>3. \A p \in SourcePrint, c \in {chunks, local["watch"].chunks} :
               (Consistent(p, c) /\ \A g \in File : p.versions[g] <= edits)
                 => \A g \in File : (disk'[g] # 0 /\ p.versions[g] = disk'[g]) => c[g] = disk'[g]
            BY <1>1, WriteConsistent
      <2> QED BY <1>2, <1>4, <2>1, <2>2, <2>3 DEF Vouched, Consistent, Serving
<1> QED BY <1>5, <1>6, <1>7

\* Which threads run what when there are no requests.
LEMMA WhoRuns ==
    ASSUME KeywordInv, WatcherOnly, NEW t \in Thread
    PROVE  /\ at[t] \in ReloadStep \cup {"reload"} => t = "watch"
           /\ at[t] \in SyncStep => t \in {"worker", "boot"}
           /\ at[t] \notin DeleteStep
           /\ at["watch"] \notin SyncStep
BY DEF KeywordInv, WatcherOnly, Thread, Phases, ReloadStep, SyncStep, DeleteStep

\* A step of a sync, of the worker or of the startup, is out of view.
LEMMA SyncMove ==
    ASSUME KeywordInv, NEW t \in {"worker", "boot"}, at[t] \in SyncStep, NEW l,
           t = "worker" => l \in {"test"} \cup SyncStep,
           t = "boot" => l \in {"print"} \cup SyncStep,
           Goto(t, l), local'["watch"] = local["watch"],
           UNCHANGED <<disk, edits, chunks, fingerprint>>
    PROVE  Phases' /\ SameView
<1>1. /\ at' = [at EXCEPT ![t] = l]
      /\ at \in [Thread -> Label] /\ {"loop", "watch", "worker", "boot"} \subseteq Thread
      BY DEF KeywordInv, TypeOK, ThreadsOK, Thread, Goto
<1>2. CASE t = "worker"
      <2>1. at["boot"] = "idle" /\ at'["boot"] = at["boot"] /\ at'["worker"] = l
            BY <1>1, <1>2 DEF KeywordInv, Phases, SyncStep, Serving
      <2>2. at'["watch"] = at["watch"] /\ at'["loop"] = at["loop"]
            BY <1>1, <1>2
      <2> QED BY <1>2, <2>1, <2>2 DEF KeywordInv, Phases, SameView, SameWatch, Serving
<1>3. CASE t = "boot"
      <2>1. at["boot"] # "idle" /\ l # "idle"
            BY <1>3 DEF SyncStep
      <2> QED BY <1>1, <1>3, <2>1 DEF KeywordInv, Phases, SameView, SameWatch, Serving
<1> QED BY <1>2, <1>3

\* So is the end of a sync.
LEMMA GoOnMove ==
    ASSUME KeywordInv, NEW t \in {"worker", "boot"}, at[t] \in SyncStep, GoOn(t),
           UNCHANGED <<disk, edits, chunks, fingerprint>>
    PROVE  Phases' /\ SameView
<1>1. CASE t = "worker"
      <2>1. Goto(t, "test") /\ local'["watch"] = local["watch"]
            BY <1>1 DEF GoOn, Keep, KeywordInv, TypeOK, ThreadsOK, Thread
      <2> QED BY <1>1, <2>1, SyncMove
<1>2. CASE t = "boot"
      <2>1. Goto(t, "print") /\ local'["watch"] = local["watch"]
            BY <1>2 DEF GoOn, Keep, KeywordInv, TypeOK, ThreadsOK, Thread
      <2> QED BY <1>2, <2>1, SyncMove
<1> QED BY <1>1, <1>2

\* The locals of the watcher are not those of another thread.
LEMMA OtherKeep ==
    ASSUME KeywordInv, NEW t \in {"worker", "boot"}, NEW v, Keep(t, v)
    PROVE  local'["watch"] = local["watch"]
BY DEF Keep, KeywordInv, TypeOK, ThreadsOK, Thread

\* The steps of a sync keep the invariant.
LEMMA SyncKeyword ==
    ASSUME KeywordInv, WatcherOnly, NEW t \in Thread,
           \/ SyncStart(t) \/ SyncDrop(t) \/ SyncUpsert(t) \/ SyncStamp(t) \/ SyncSave(t)
           \/ \E f \in File : SyncPick(t, f)
    PROVE  Phases' /\ NoPrintAhead' /\ Vouched'
<1> USE DEF documents, index, store, history
<1>1. at[t] \in SyncStep
      BY DEF SyncStart, SyncDrop, SyncUpsert, SyncStamp, SyncSave, SyncPick, SyncStep
<1>2. t \in {"worker", "boot"}
      BY <1>1, WhoRuns
<1>3. UNCHANGED <<disk, edits, chunks, fingerprint>>
      BY DEF SyncStart, SyncDrop, SyncUpsert, SyncStamp, SyncSave, SyncPick
<1>4. \/ GoOn(t)
      \/ /\ Goto(t, "drop") \/ Goto(t, "pick") \/ Goto(t, "upsert") \/ Goto(t, "stamp")
         /\ UNCHANGED local \/ \E v : Keep(t, v)
      BY DEF SyncStart, SyncDrop, SyncUpsert, SyncStamp, SyncSave, SyncPick, Synced
<1>5. Phases' /\ SameView
      <2>1. CASE GoOn(t)
            BY <1>1, <1>2, <1>3, <2>1, GoOnMove
      <2>2. ASSUME NEW l \in SyncStep, Goto(t, l), UNCHANGED local \/ \E v : Keep(t, v)
            PROVE  Phases' /\ SameView
            <3>1. local'["watch"] = local["watch"]
                  BY <1>2, <2>2, OtherKeep
            <3> QED BY <1>1, <1>2, <1>3, <2>2, <3>1, SyncMove
      <2> QED BY <1>4, <2>1, <2>2 DEF SyncStep
<1> QED BY <1>5, ViewStep DEF KeywordInv

\* The steps of a reload, which only the watcher takes, keep the invariant.
LEMMA ReloadKeyword ==
    ASSUME KeywordInv, WatcherOnly, NEW t \in Thread,
           WatchCheck(t) \/ TakeFingerprint(t) \/ LoadChunks(t) \/ ReplaceChunks(t) \/ Publish(t)
           \/ ScheduleSync(t)
    PROVE  Phases' /\ NoPrintAhead' /\ Vouched'
<1> USE DEF documents, index, store, history
<1>watch. t = "watch"
      BY WhoRuns DEF WatchCheck, TakeFingerprint, LoadChunks, ReplaceChunks, Publish, ScheduleSync,
                     ReloadStep
<1>busy. at["boot"] = "idle"
      <2>1. at["watch"] # "idle" \/ Serving
            BY <1>watch DEF WatchCheck, TakeFingerprint, LoadChunks, ReplaceChunks, Publish, ScheduleSync
      <2> QED BY <2>1 DEF KeywordInv, Phases, Serving
<1>types. /\ at \in [Thread -> Label] /\ local \in [Thread -> Local]
          /\ {"loop", "watch", "worker", "boot"} \subseteq Thread
          /\ local["watch"] \in Local /\ edits \in Nat
          /\ disk \in Corpus /\ fingerprint \in SourcePrint /\ chunks \in Corpus
      BY DEF KeywordInv, TypeOK, ThreadsOK, Thread, Version
<1>blank. Blank.print.versions = Empty /\ Blank.blocking = FALSE /\ \A f \in File : Empty[f] = 0
      BY DEF Blank, Empty
<1>quiet. ~(at["boot"] \in {"print"} \cup SyncStep)
      BY <1>busy DEF SyncStep
<1>ahead. \A f \in File : /\ disk[f] <= edits /\ fingerprint.versions[f] <= edits
                          /\ local["watch"].print.versions[f] <= edits
      BY DEF KeywordInv, NoPrintAhead
<1>stay. ASSUME NEW l \in {"idle", "reload"} \cup ReloadStep, Goto("watch", l)
         PROVE  /\ at' = [at EXCEPT !["watch"] = l] /\ at'["watch"] = l
                /\ at'["boot"] = "idle" /\ at'["worker"] = at["worker"] /\ at'["loop"] = at["loop"]
      BY <1>stay, <1>types, <1>busy DEF Goto
<1>move. ASSUME NEW l \in {"idle", "reload"} \cup ReloadStep, Goto("watch", l),
                ~local'["watch"].blocking
         PROVE  Phases'
      <2>1. /\ at'["watch"] = l /\ at'["boot"] = "idle" /\ at'["worker"] = at["worker"]
            /\ at'["loop"] = at["loop"]
            BY <1>move, <1>stay
      <2> QED BY <1>move, <2>1 DEF KeywordInv, Phases, Serving
<1>1. CASE WatchCheck(t)
      <2>1. Goto("watch", "reload") /\ UNCHANGED <<disk, edits, chunks, fingerprint, local>>
            BY <1>1, <1>watch DEF WatchCheck
      <2>2. at'["watch"] = "reload" /\ at'["boot"] = "idle"
            BY <2>1, <1>stay
      <2>3. Phases'
            BY <2>1, <1>move DEF KeywordInv, Phases
      <2> QED BY <2>1, <2>2, <2>3, <1>busy, <1>quiet
              DEF KeywordInv, NoPrintAhead, Vouched, Consistent, Serving
<1>2. CASE TakeFingerprint(t)
      <2>1. /\ Goto("watch", "load") /\ UNCHANGED <<disk, edits, chunks, fingerprint>>
            /\ local'["watch"] = [local["watch"] EXCEPT !.print = Fingerprint]
            BY <1>2, <1>watch, <1>types DEF TakeFingerprint, Keep
      <2>2. local'["watch"].print = Fingerprint /\ local'["watch"].blocking = local["watch"].blocking
            BY <2>1, <1>types DEF Local
      <2>3. at'["watch"] = "load" /\ at'["boot"] = "idle"
            BY <2>1, <1>stay DEF ReloadStep
      <2>4. Phases'
            BY <2>1, <2>2, <1>move DEF KeywordInv, Phases, ReloadStep
      <2>5. NoPrintAhead'
            BY <2>1, <2>2, <1>ahead DEF NoPrintAhead, Fingerprint
      <2>6. Vouched'
            BY <2>1, <2>3, <1>busy, <1>quiet DEF KeywordInv, Vouched, Consistent, Serving
      <2> QED BY <2>4, <2>5, <2>6
<1>3. CASE LoadChunks(t)
      <2>1. /\ Goto("watch", "replace") /\ UNCHANGED <<disk, edits, chunks, fingerprint>>
            /\ local'["watch"] = [local["watch"] EXCEPT !.chunks = disk]
            BY <1>3, <1>watch, <1>types DEF LoadChunks, Keep
      <2>2. /\ local'["watch"].print = local["watch"].print
            /\ local'["watch"].chunks = disk
            /\ local'["watch"].blocking = local["watch"].blocking
            BY <2>1, <1>types DEF Local
      <2>3. at'["watch"] = "replace" /\ at'["boot"] = "idle"
            BY <2>1, <1>stay DEF ReloadStep
      <2>4. Phases'
            BY <2>1, <2>2, <1>move DEF KeywordInv, Phases, ReloadStep
      <2>5. NoPrintAhead'
            BY <2>1, <2>2, <1>ahead DEF NoPrintAhead
      <2>6. Vouched'
            BY <2>1, <2>2, <2>3, <1>busy, <1>quiet DEF KeywordInv, Vouched, Consistent, Serving
      <2> QED BY <2>4, <2>5, <2>6
<1>4. CASE ReplaceChunks(t)
      <2>1. /\ Goto("watch", "publish") /\ UNCHANGED <<disk, edits, fingerprint>>
            /\ chunks' = local["watch"].chunks /\ at["watch"] = "replace"
            /\ local'["watch"] = [local["watch"] EXCEPT !.chunks = Empty]
            BY <1>4, <1>watch, <1>types DEF ReplaceChunks, Keep
      <2>2. /\ local'["watch"].print = local["watch"].print
            /\ local'["watch"].blocking = local["watch"].blocking
            BY <2>1, <1>types DEF Local
      <2>3. at'["watch"] = "publish" /\ at'["boot"] = "idle"
            BY <2>1, <1>stay DEF ReloadStep
      <2>4. Phases'
            BY <2>1, <2>2, <1>move DEF KeywordInv, Phases, ReloadStep
      <2>5. NoPrintAhead'
            BY <2>1, <2>2, <1>ahead DEF NoPrintAhead
      <2>6. Vouched'
            <3>1. ~(at'["boot"] \in {"print"} \cup SyncStep)
                  BY <2>3 DEF SyncStep
            <3> QED BY <2>1, <2>2, <2>3, <3>1 DEF KeywordInv, Vouched, Consistent
      <2> QED BY <2>4, <2>5, <2>6
<1>5. CASE Publish(t)
      <2>1. /\ at["watch"] = "publish" /\ UNCHANGED <<disk, edits, chunks>>
            /\ fingerprint' = local["watch"].print /\ Follow("watch")
            BY <1>5, <1>watch DEF Publish
      <2>2. ~local["watch"].blocking
            BY DEF KeywordInv, Phases
      <2>3. PICK l \in {"idle", "schedule"} : Goto("watch", l)
            BY <2>1, <2>2, Zenon DEF Follow, Return
      <2>4. local'["watch"].print = Blank.print /\ ~local'["watch"].blocking
            <3>1. CASE Keep("watch", Blank)
                  BY <3>1, <1>types, <1>blank DEF Keep
            <3>2. CASE Keep("watch", [local["watch"] EXCEPT !.print = Blank.print])
                  <4>1. local'["watch"] = [local["watch"] EXCEPT !.print = Blank.print]
                        BY <3>2, <1>types DEF Keep
                  <4> QED BY <4>1, <2>2, <1>types DEF Local
            <3> QED BY <2>1, <3>1, <3>2, Zenon DEF Follow, Return
      <2>5. at'["watch"] = l /\ at'["boot"] = "idle"
            BY <2>3, <1>stay DEF ReloadStep
      <2>6. Phases'
            BY <2>3, <2>4, <1>move DEF ReloadStep
      <2>7. NoPrintAhead'
            BY <2>1, <2>4, <1>ahead, <1>blank, <1>types DEF NoPrintAhead
      <2>8. Vouched'
            <3>1. ~(at'["boot"] \in {"print"} \cup SyncStep)
                  BY <2>5 DEF SyncStep
            <3> QED BY <2>1, <2>3, <2>5, <3>1 DEF KeywordInv, Vouched, Consistent
      <2> QED BY <2>6, <2>7, <2>8
<1>6. CASE ScheduleSync(t)
      <2>1. UNCHANGED <<disk, edits, chunks, fingerprint>> /\ local'["watch"] = Blank
            BY <1>6, <1>watch, <1>types DEF ScheduleSync, Keep
      <2>2. /\ at'["watch"] = "idle" /\ at'["boot"] = "idle" /\ at'["loop"] = at["loop"]
            /\ at'["worker"] \in {at["worker"], "sync"}
            BY <1>6, <1>watch, <1>types, <1>busy DEF ScheduleSync
      <2>3. Phases'
            BY <2>1, <2>2, <1>blank DEF KeywordInv, Phases, SyncStep, Serving
      <2>4. NoPrintAhead'
            BY <2>1, <1>ahead, <1>blank, <1>types DEF NoPrintAhead
      <2>5. Vouched'
            BY <2>1, <2>2, <1>busy, <1>quiet DEF KeywordInv, Vouched, Consistent, Serving
      <2> QED BY <2>3, <2>4, <2>5
<1> QED BY <1>1, <1>2, <1>3, <1>4, <1>5, <1>6

\* The worker stops, or goes on, out of view.
LEMMA WorkerKeyword ==
    ASSUME KeywordInv, NEW t \in Thread, WorkerTest(t) \/ WorkerExit(t)
    PROVE  Phases' /\ NoPrintAhead' /\ Vouched'
<1> USE DEF documents, index, store, history
<1>1. PICK l \in {"sync", "exiting", "idle"} : at' = [at EXCEPT !["worker"] = l]
      BY Zenon DEF WorkerTest, WorkerExit, Goto
<1>2. /\ at["worker"] \in {"test", "exiting"}
      /\ UNCHANGED <<disk, edits, chunks, fingerprint, local>>
      BY DEF WorkerTest, WorkerExit
<1>3. at["boot"] = "idle"
      BY <1>2 DEF KeywordInv, Phases, Serving
<1>4. /\ at'["worker"] = l /\ at'["watch"] = at["watch"]
      /\ at'["boot"] = at["boot"] /\ at'["loop"] = at["loop"]
      BY <1>1 DEF KeywordInv, TypeOK, ThreadsOK, Thread
<1>5. Phases'
      BY <1>2, <1>3, <1>4 DEF KeywordInv, Phases, SyncStep, Serving
<1>6. SameView
      BY <1>2, <1>4 DEF SameView, SameWatch, Serving
<1> QED BY <1>5, <1>6, ViewStep DEF KeywordInv

\* The startup loads the files, which nobody edits, and then describes them.
LEMMA BootKeyword ==
    ASSUME KeywordInv, NEW t \in Thread, BootLoad(t) \/ BootFingerprint(t)
    PROVE  Phases' /\ NoPrintAhead' /\ Vouched'
<1> USE DEF documents, index, store, history
<1>types. /\ at \in [Thread -> Label] /\ {"loop", "watch", "worker", "boot"} \subseteq Thread
          /\ \A f \in File : disk[f] <= edits /\ fingerprint.versions[f] <= edits
                             /\ local["watch"].print.versions[f] <= edits
      BY DEF KeywordInv, TypeOK, ThreadsOK, Thread, NoPrintAhead
<1>1. at["boot"] \in {"boot", "print"} /\ UNCHANGED <<disk, edits, local>>
      BY DEF BootLoad, BootFingerprint
<1>2. at["watch"] = "idle" /\ at["worker"] = "idle"
      BY <1>1 DEF KeywordInv, Phases, Serving
<1>3. CASE BootLoad(t)
      <2>1. PICK l \in {"sync", "print"} : at' = [at EXCEPT !["boot"] = l]
            BY <1>3, Zenon DEF BootLoad, Goto
      <2>2. /\ at'["boot"] = l /\ at'["watch"] = "idle" /\ at'["worker"] = "idle"
            /\ at'["loop"] = at["loop"]
            BY <2>1, <1>2, <1>types
      <2>3. chunks' = disk /\ UNCHANGED fingerprint
            BY <1>3 DEF BootLoad
      <2>4. Phases'
            BY <1>1, <2>2 DEF KeywordInv, Phases, SyncStep, Serving
      <2>5. NoPrintAhead'
            BY <1>1, <1>types, <2>3 DEF NoPrintAhead
      <2>6. Vouched'
            BY <1>1, <2>2, <2>3 DEF Vouched, Serving
      <2> QED BY <2>4, <2>5, <2>6
<1>4. CASE BootFingerprint(t)
      <2>1. at["boot"] = "print" /\ fingerprint' = Fingerprint /\ UNCHANGED chunks
            BY <1>4 DEF BootFingerprint
      <2>2. at' = [at EXCEPT !["boot"] = "idle"]
            BY <1>4 DEF BootFingerprint, Goto
      <2>3. /\ at'["boot"] = "idle" /\ at'["watch"] = "idle" /\ at'["worker"] = "idle"
            /\ at'["loop"] = at["loop"]
            BY <2>2, <1>2, <1>types
      <2>4. chunks = disk
            BY <2>1 DEF KeywordInv, Vouched
      <2>5. Phases'
            BY <1>1, <2>3 DEF KeywordInv, Phases, Serving
      <2>6. NoPrintAhead'
            BY <1>1, <1>types, <2>1 DEF NoPrintAhead, Fingerprint
      <2>7. Vouched'
            <3>1. ~(at'["boot"] \in {"print"} \cup SyncStep)
                  BY <2>3 DEF SyncStep
            <3> QED BY <1>1, <2>1, <2>3, <2>4, <3>1 DEF Vouched, Consistent
      <2> QED BY <2>5, <2>6, <2>7
<1> QED BY <1>3, <1>4

\* An exception ends a load of the watcher or a sync of the worker.
LEMMA FailKeyword ==
    ASSUME KeywordInv, WatcherOnly, NEW t \in Thread, Fail(t)
    PROVE  Phases' /\ NoPrintAhead' /\ Vouched'
<1> USE DEF documents, index, store, history
<1>1. UNCHANGED <<disk, edits, chunks, fingerprint>> /\ t # "boot"
      BY DEF Fail
<1>types. /\ at \in [Thread -> Label] /\ local \in [Thread -> Local] /\ edits \in Nat
          /\ {"loop", "watch", "worker", "boot"} \subseteq Thread
      BY DEF KeywordInv, TypeOK, ThreadsOK, Thread, Version
<1>2. CASE at[t] \in SyncStep /\ GoOn(t)
      <2>1. t \in {"worker", "boot"}
            BY <1>2, WhoRuns
      <2> QED BY <1>1, <1>2, <2>1, GoOnMove, ViewStep DEF KeywordInv
<1>3. CASE at[t] \in {"load", "unlink"} /\ Return(t)
      <2>1. t = "watch" /\ at["watch"] = "load"
            BY <1>3, WhoRuns DEF ReloadStep, DeleteStep
      <2>2. local' = [local EXCEPT !["watch"] = Blank] /\ at' = [at EXCEPT !["watch"] = "idle"]
            BY <1>3, <2>1 DEF Return, Goto, Keep
      <2>3. /\ local'["watch"] = Blank
            /\ at'["watch"] = "idle" /\ at'["boot"] = at["boot"]
            /\ at'["worker"] = at["worker"] /\ at'["loop"] = at["loop"]
            BY <2>2, <1>types
      <2>4. Blank.print.versions = Empty /\ ~Blank.blocking /\ \A f \in File : Empty[f] = 0
            BY DEF Blank, Empty
      <2>5. Phases'
            BY <2>1, <2>3, <2>4 DEF KeywordInv, Phases, Serving
      <2>6. NoPrintAhead'
            BY <1>1, <1>types, <2>3, <2>4 DEF KeywordInv, NoPrintAhead
      <2>7. Vouched'
            BY <1>1, <2>3 DEF KeywordInv, Vouched, Consistent, Serving
      <2> QED BY <2>5, <2>6, <2>7
<1>4. at[t] \notin {"forget", "purge", "save"}
      BY WhoRuns DEF DeleteStep
<1> QED BY <1>2, <1>3, <1>4 DEF Fail

\* A crash forgets what was served and every fingerprint of it.
LEMMA CrashKeyword ==
    ASSUME KeywordInv, Crash
    PROVE  Phases' /\ NoPrintAhead' /\ Vouched'
<1> USE DEF documents, index, store, history
<1>1. /\ at' = [t \in Thread |-> IF t = "boot" THEN "boot" ELSE "idle"]
      /\ local' = [t \in Thread |-> Blank]
      /\ UNCHANGED <<disk, edits>> /\ fingerprint' = Blank.print
      BY DEF Crash
<1>2. {"loop", "watch", "worker", "boot"} \subseteq Thread
      BY DEF Thread
<1>3. /\ at'["boot"] = "boot" /\ at'["watch"] = "idle" /\ at'["worker"] = "idle"
      /\ at'["loop"] = "idle" /\ local'["watch"] = Blank
      BY <1>1, <1>2
<1>4. Blank.print.versions = Empty /\ ~Blank.blocking /\ \A f \in File : Empty[f] = 0
      BY DEF Blank, Empty
<1>5. edits \in Nat
      BY DEF KeywordInv, TypeOK, Version
<1>6. Phases'
      BY <1>3, <1>4 DEF Phases, Serving
<1>7. NoPrintAhead'
      BY <1>1, <1>3, <1>4, <1>5 DEF KeywordInv, NoPrintAhead
<1>8. Vouched'
      <2>1. ~(at'["boot"] \in {"print"} \cup SyncStep) /\ ~Serving'
            BY <1>3 DEF SyncStep, Serving
      <2> QED BY <1>3, <2>1 DEF Vouched
<1> QED BY <1>6, <1>7, <1>8

\* Every step keeps the invariant.
LEMMA KeywordNext == WatcherOnly /\ KeywordInv /\ [Next]_vars => KeywordInv'
<1> SUFFICES ASSUME WatcherOnly, KeywordInv, [Next]_vars PROVE KeywordInv'
    OBVIOUS
<1>1. TypeOK'
      BY TypeNext DEF KeywordInv
<1>2. Phases' /\ NoPrintAhead' /\ Vouched'
      <2>1. CASE UNCHANGED vars
            <3>1. SameView /\ Phases'
                  BY <2>1 DEF vars, SameView, SameWatch, Serving, KeywordInv, Phases
            <3> QED BY <3>1, ViewStep DEF KeywordInv
      <2>2. ASSUME NEW f \in File, EditFile(f) PROVE Phases' /\ NoPrintAhead' /\ Vouched'
            BY <2>2, EditKeyword
      <2>3. ASSUME NEW f \in File, Upload(f) PROVE FALSE
            BY <2>3 DEF Upload, WatcherOnly
      <2>4. ASSUME NEW t \in Thread, Step(t) PROVE Phases' /\ NoPrintAhead' /\ Vouched'
            <3>1. ~ForgetEntry(t) /\ ~PurgeVectors(t) /\ ~SaveManifest(t) /\ ~UnlinkFile(t)
                  BY WhoRuns DEF ForgetEntry, PurgeVectors, SaveManifest, UnlinkFile, DeleteStep
            <3> QED BY <2>4, <3>1, ReloadKeyword, SyncKeyword, WorkerKeyword, BootKeyword DEF Step
      <2>5. ASSUME NEW t \in Thread, Fail(t) PROVE Phases' /\ NoPrintAhead' /\ Vouched'
            BY <2>5, FailKeyword
      <2>6. CASE Crash
            BY <2>6, CrashKeyword
      <2> QED BY <2>1, <2>2, <2>3, <2>4, <2>5, <2>6 DEF Next, WatcherOnly
<1> QED BY <1>1, <1>2 DEF KeywordInv

\* Without requests of clients and without edits during the startup, a stored
\* fingerprint that matches the directory means that every document is served
\* as it is, whatever fails, is edited meanwhile or is restarted: the order in
\* which reload takes the fingerprint, loads, replaces and stores is sound.
THEOREM KeywordFreshness == ASSUME WatcherOnly PROVE Spec => []KeywordFresh
<1>1. KeywordInv => KeywordFresh
      <2> SUFFICES ASSUME KeywordInv, Serving, fingerprint = Fingerprint,
                          NEW f \in File, disk[f] # 0
                   PROVE  chunks[f] = disk[f]
            BY Zenon DEF KeywordFresh, Present
      <2>1. fingerprint.versions[f] = disk[f]
            BY DEF Fingerprint
      <2> QED BY <2>1 DEF KeywordInv, Vouched, Consistent
<1>2. KeywordInv /\ [Next]_vars => KeywordInv'
      BY KeywordNext
<1> QED BY KeywordInit, <1>1, <1>2, PTL DEF Spec

-----------------------------------------------------------------------------
(* The vector index without deletions: reloads, uploads, edits, failures and   *)
(* crashes, with one sync at a time.                                           *)

\* Clients delete nothing.
NoDeletion == "delete" \notin Requests

\* The steps of a sync between its reading the manifest and its writing it.
Midway == {"drop", "pick", "upsert", "stamp"}

\* The worker syncs, and the startup before anybody else does anything.
OneSyncs ==
    /\ \A t \in Thread :
          /\ at[t] \in SyncStep => t \in {"worker", "boot"}
          /\ at[t] \notin DeleteStep
          /\ local[t].blocking = FALSE
    /\ ~Serving => \A t \in Thread \ {"boot"} : at[t] = "idle"

\* A version that is written is newer than all that were.
NoneIsNewer ==
    \A f \in File :
        /\ disk[f] <= edits /\ manifest[f].stamp <= edits
        /\ \A t \in Thread : local[t].copy[f].stamp <= edits

\* The next sync will embed f again, if there is such a file.
Outdated(f) == disk[f] = 0 \/ manifest[f].stamp # disk[f]

\* The rows of every entry of manifest m are in the collection.
Embedded(m) == \A f \in Listed(m) : <<f, m[f].ids>> \in vectors

\* Manifest m has the entry that names the row.
Owns(m, row) == m[row[1]].ids = row[2]

\* No exception and no crash so far.
NothingFailed == failures = 0 /\ restarts = 0

\* What a sync has in hand: the entries it will save have their rows, those it
\* deletes belong to files it embeds again or that are gone, and every row is
\* one of an entry, about to be deleted, or about to get its entry.
SyncHolds(t) ==
    /\ Embedded(local[t].copy)
    /\ at[t] = "drop" => \A row \in local[t].doomed :
           Outdated(row[1]) /\ row[1] \notin Listed(local[t].copy)
    /\ \A f \in local[t].todo : f \notin Listed(local[t].copy)
    /\ at[t] \in {"upsert", "stamp"} =>
           /\ local[t].text # 0
           /\ local[t].source \notin local[t].todo
           /\ local[t].source \notin Listed(local[t].copy)
    /\ at[t] = "stamp" => <<local[t].source, local[t].text>> \in vectors
    /\ NothingFailed => \A row \in vectors :
           \/ Owns(local[t].copy, row)
           \/ at[t] = "drop" /\ row \in local[t].doomed
           \/ at[t] = "stamp" /\ row = <<local[t].source, local[t].text>>

RowsHold ==
    /\ \A f \in Listed(manifest) : Outdated(f) \/ <<f, manifest[f].ids>> \in vectors
    /\ \A row \in vectors : row[2] # 0
    /\ NothingFailed /\ (\A t \in Thread : at[t] \notin Midway)
           => \A row \in vectors : Owns(manifest, row)
    /\ \A t \in Thread : at[t] \in Midway => SyncHolds(t)

IndexInv == TypeOK /\ OneSyncs /\ NoneIsNewer /\ RowsHold

LEMMA SyncIsAlone ==
    ASSUME TypeOK, OneSyncs, NEW t \in Thread, at[t] \in SyncStep
    PROVE  \A u \in Thread : u # t => at[u] \notin SyncStep
BY DEF OneSyncs, Serving, SyncStep, Thread

\* A step that leaves the index alone: a sync under way is where it was, unless
\* it failed.
LEMMA IndexIsLeft ==
    ASSUME IndexInv, UNCHANGED <<disk, edits, manifest, vectors>>,
           NothingFailed' => NothingFailed,
           \A t \in Thread : /\ at'[t] \in Midway => at'[t] = at[t] /\ local'[t] = local[t]
                             /\ at[t] \in Midway => at'[t] \in Midway \/ ~NothingFailed'
                             /\ local'[t].copy \in {local[t].copy, Blank.copy}
    PROVE  NoneIsNewer' /\ RowsHold'
<1>1. NoneIsNewer'
  <2>1. \A f \in File : Blank.copy[f].stamp = 0
    BY DEF Blank, NoEntry
  <2>2. edits \in Nat
    BY DEF IndexInv, TypeOK, Version
  <2> SUFFICES ASSUME NEW f \in File
               PROVE  /\ disk[f] <= edits /\ manifest[f].stamp <= edits
                      /\ \A t \in Thread : local'[t].copy[f].stamp <= edits
    BY DEF NoneIsNewer
  <2>3. /\ disk[f] <= edits /\ manifest[f].stamp <= edits
        /\ \A t \in Thread : local[t].copy[f].stamp <= edits
    BY DEF IndexInv, NoneIsNewer
  <2> QED BY <2>1, <2>2, <2>3
<1>2. \A t \in Thread : at'[t] \in Midway => SyncHolds(t)'
  <2> SUFFICES ASSUME NEW t \in Thread, at'[t] \in Midway PROVE SyncHolds(t)'
    OBVIOUS
  <2>1. at'[t] = at[t] /\ local'[t] = local[t] /\ SyncHolds(t)
    BY DEF IndexInv, RowsHold
  <2> QED BY <2>1 DEF SyncHolds, Embedded, Listed, Owns, Outdated
<1>3. /\ \A f \in Listed(manifest)' : Outdated(f)' \/ <<f, manifest'[f].ids>> \in vectors'
      /\ \A row \in vectors' : row[2] # 0
  BY DEF IndexInv, RowsHold, Listed, Outdated
<1>4. NothingFailed' /\ (\A t \in Thread : at'[t] \notin Midway)
          => \A row \in vectors' : Owns(manifest, row)'
  BY DEF IndexInv, RowsHold, Owns
<1> QED BY <1>1, <1>2, <1>3, <1>4 DEF RowsHold

\* A write of a document is newer than every stamp.
LEMMA DocumentIsWritten ==
    ASSUME IndexInv, NEW f \in File, NEW v \in {0, edits + 1}, Write(f, v),
           UNCHANGED <<manifest, vectors, local, failures, restarts>>,
           \A t \in Thread : /\ at'[t] \in Midway => at'[t] = at[t]
                             /\ at[t] \in Midway => at'[t] \in Midway
    PROVE  NoneIsNewer' /\ RowsHold'
<1>1. /\ edits \in Nat /\ edits' = edits + 1 /\ disk' = [disk EXCEPT ![f] = v]
      /\ disk \in [File -> Version] /\ manifest \in [File -> Entry]
  BY DEF Write, IndexInv, TypeOK, Version, Corpus
<1>2. \A g \in File : disk'[g] = disk[g] \/ disk'[g] = 0 \/ disk'[g] = edits + 1
  BY <1>1
<1>3. NoneIsNewer'
  <2> SUFFICES ASSUME NEW g \in File
               PROVE  /\ disk'[g] <= edits' /\ manifest[g].stamp <= edits'
                      /\ \A t \in Thread : local[t].copy[g].stamp <= edits'
    BY DEF NoneIsNewer
  <2>1. /\ disk[g] <= edits /\ manifest[g].stamp <= edits
        /\ \A t \in Thread : local[t].copy[g].stamp <= edits
    BY DEF IndexInv, NoneIsNewer
  <2>2. disk[g] \in Nat /\ manifest[g].stamp \in Nat
    BY <1>1 DEF Version, Entry
  <2>3. \A t \in Thread : local[t].copy[g].stamp \in Nat
    BY DEF IndexInv, TypeOK, ThreadsOK, Local, Entry, Version
  <2> QED BY <1>1, <1>2, <2>1, <2>2, <2>3
<1>4. \A g \in File : Outdated(g) => Outdated(g)'
  <2> SUFFICES ASSUME NEW g \in File, Outdated(g) PROVE Outdated(g)'
    OBVIOUS
  <2>1. manifest[g].stamp <= edits /\ manifest[g].stamp \in Nat
    BY <1>1 DEF IndexInv, NoneIsNewer, Entry, Version
  <2>2. CASE disk'[g] = disk[g]
    BY <2>2 DEF Outdated
  <2>3. CASE disk'[g] = 0
    BY <2>3 DEF Outdated
  <2>4. CASE disk'[g] = edits + 1
    <3>1. manifest[g].stamp # edits + 1
      BY <1>1, <2>1
    <3> QED BY <2>4, <3>1 DEF Outdated
  <2> QED BY <1>2, <2>2, <2>3, <2>4
<1>5. \A t \in Thread : at'[t] \in Midway => SyncHolds(t)'
  <2> SUFFICES ASSUME NEW t \in Thread, at'[t] \in Midway PROVE SyncHolds(t)'
    OBVIOUS
  <2>1. at'[t] = at[t] /\ SyncHolds(t)
    BY DEF IndexInv, RowsHold
  <2>2. \A row \in local[t].doomed : row[1] \in File
    BY DEF IndexInv, TypeOK, ThreadsOK, Local
  <2> QED BY <1>4, <2>1, <2>2 DEF SyncHolds, Embedded, Listed, Owns, NothingFailed
<1>6. \A g \in Listed(manifest)' : Outdated(g)' \/ <<g, manifest'[g].ids>> \in vectors'
  BY <1>4 DEF IndexInv, RowsHold, Listed
<1>7. /\ \A row \in vectors' : row[2] # 0
      /\ NothingFailed' /\ (\A t \in Thread : at'[t] \notin Midway)
          => \A row \in vectors' : Owns(manifest, row)'
  BY DEF IndexInv, RowsHold, Owns, NothingFailed
<1> QED BY <1>3, <1>5, <1>6, <1>7 DEF RowsHold

\* A thread that moves while the process serves, or the startup before, leaves
\* syncs to the worker and the startup.
LEMMA SyncsMove ==
    ASSUME TypeOK, OneSyncs, NEW t \in Thread, NEW l \in Label, NEW v,
           Goto(t, l), Keep(t, v), v.blocking = FALSE, l \notin DeleteStep,
           l \in SyncStep => t \in {"worker", "boot"},
           t = "boot" <=> ~Serving
    PROVE  OneSyncs'
<1>1. /\ at' = [at EXCEPT ![t] = l] /\ at \in [Thread -> Label] /\ "boot" \in Thread
      /\ local' = [local EXCEPT ![t] = v] /\ local \in [Thread -> Local]
  BY DEF Goto, Keep, TypeOK, ThreadsOK, Thread
<1>2. /\ at'[t] = l /\ local'[t] = v
      /\ \A u \in Thread : u # t => at'[u] = at[u] /\ local'[u] = local[u]
  BY <1>1
<1>3. \A u \in Thread :
          /\ at'[u] \in SyncStep => u \in {"worker", "boot"}
          /\ at'[u] \notin DeleteStep
          /\ local'[u].blocking = FALSE
  BY <1>2 DEF OneSyncs
<1>4. ~Serving' => \A u \in Thread \ {"boot"} : at'[u] = "idle"
  BY <1>1, <1>2 DEF OneSyncs, Serving
<1> QED BY <1>3, <1>4 DEF OneSyncs

\* A thread that is busy is the startup, or moves while the process serves.
LEMMA BusyServes ==
    ASSUME OneSyncs, NEW t \in Thread, at[t] # "idle"
    PROVE  t = "boot" <=> ~Serving
BY DEF OneSyncs, Serving

\* A move that neither begins nor completes a sync of the index, failed ones
\* apart.
LEMMA QuietMove ==
    ASSUME IndexInv, NEW t \in Thread, NEW l \in Label, NEW v,
           Goto(t, l), Keep(t, v), v.blocking = FALSE,
           v.copy \in {local[t].copy, Blank.copy},
           l \notin DeleteStep, l \notin Midway,
           l = "sync" => t \in {"worker", "boot"},
           t = "boot" <=> ~Serving,
           at[t] \in Midway => ~NothingFailed',
           UNCHANGED <<disk, edits, manifest, vectors>>,
           NothingFailed' => NothingFailed
    PROVE  OneSyncs' /\ NoneIsNewer' /\ RowsHold'
<1>1. OneSyncs'
  <2>1. l \in SyncStep => t \in {"worker", "boot"}
    BY DEF SyncStep, Midway
  <2> QED BY <2>1, SyncsMove DEF IndexInv
<1>2. /\ at' = [at EXCEPT ![t] = l] /\ at \in [Thread -> Label]
      /\ local' = [local EXCEPT ![t] = v] /\ local \in [Thread -> Local]
  BY DEF Goto, Keep, IndexInv, TypeOK, ThreadsOK
<1>3. \A u \in Thread : /\ at'[u] \in Midway => at'[u] = at[u] /\ local'[u] = local[u]
                        /\ at[u] \in Midway => at'[u] \in Midway \/ ~NothingFailed'
                        /\ local'[u].copy \in {local[u].copy, Blank.copy}
  <2> SUFFICES ASSUME NEW u \in Thread
               PROVE  /\ at'[u] \in Midway => at'[u] = at[u] /\ local'[u] = local[u]
                      /\ at[u] \in Midway => at'[u] \in Midway \/ ~NothingFailed'
                      /\ local'[u].copy \in {local[u].copy, Blank.copy}
    OBVIOUS
  <2>1. CASE u = t
    <3>1. at'[t] = l /\ local'[t] = v
      BY <1>2
    <3> QED BY <2>1, <3>1
  <2>2. CASE u # t
    <3>1. at'[u] = at[u] /\ local'[u] = local[u]
      BY <1>2, <2>2
    <3> QED BY <2>2, <3>1
  <2> QED BY <2>1, <2>2
<1>4. NoneIsNewer' /\ RowsHold'
  BY <1>3, IndexIsLeft
<1> QED BY <1>1, <1>4

\* A move within a sync: what it holds next, and what the manifest still vouches
\* for.
LEMMA IndexMove ==
    ASSUME IndexInv, NEW t \in Thread, NEW l \in Midway, NEW v, at[t] \in SyncStep,
           Goto(t, l), Keep(t, v), v.blocking = FALSE,
           \A f \in File : v.copy[f].stamp <= edits,
           UNCHANGED <<disk, edits, manifest>>,
           SyncHolds(t)',
           \A f \in Listed(manifest) : Outdated(f) \/ <<f, manifest[f].ids>> \in vectors',
           \A row \in vectors' : row[2] # 0
    PROVE  OneSyncs' /\ NoneIsNewer' /\ RowsHold'
<1>1. l \in Label /\ l \in SyncStep /\ l \notin DeleteStep
  BY DEF Midway, Label, SyncStep, DeleteStep
<1>2. at[t] # "idle"
  BY DEF SyncStep
<1>3. OneSyncs'
  <2>1. t = "boot" <=> ~Serving
    BY <1>2, BusyServes DEF IndexInv
  <2>2. t \in {"worker", "boot"}
    BY DEF IndexInv, OneSyncs
  <2> QED BY <1>1, <2>1, <2>2, SyncsMove DEF IndexInv
<1>4. /\ at'[t] = l /\ local'[t] = v
      /\ \A u \in Thread : u # t => at'[u] = at[u] /\ local'[u] = local[u]
  BY DEF Goto, Keep, IndexInv, TypeOK, ThreadsOK
<1>5. NoneIsNewer'
  <2> SUFFICES ASSUME NEW f \in File
               PROVE  /\ disk[f] <= edits /\ manifest[f].stamp <= edits
                      /\ \A u \in Thread : local'[u].copy[f].stamp <= edits
    BY DEF NoneIsNewer
  <2>1. /\ disk[f] <= edits /\ manifest[f].stamp <= edits
        /\ \A u \in Thread : local[u].copy[f].stamp <= edits
    BY DEF IndexInv, NoneIsNewer
  <2> QED BY <1>4, <2>1
<1>6. \A u \in Thread : u # t => at[u] \notin Midway
  <2>1. \A u \in Thread : u # t => at[u] \notin SyncStep
    BY SyncIsAlone DEF IndexInv
  <2> QED BY <2>1 DEF Midway, SyncStep
<1>7. \A u \in Thread : at'[u] \in Midway => SyncHolds(u)'
  <2> SUFFICES ASSUME NEW u \in Thread, at'[u] \in Midway PROVE SyncHolds(u)'
    OBVIOUS
  <2>1. u = t
    BY <1>4, <1>6
  <2> QED BY <2>1
<1>8. \A f \in Listed(manifest)' : Outdated(f)' \/ <<f, manifest'[f].ids>> \in vectors'
  BY DEF Listed, Outdated
<1>9. ~(\A u \in Thread : at'[u] \notin Midway)
  BY <1>4
<1>10. RowsHold'
  <2>1. (NothingFailed /\ (\A u \in Thread : at[u] \notin Midway)
            => \A row \in vectors : Owns(manifest, row))'
    BY <1>9
  <2>2. \A row \in vectors' : row[2] # 0
    OBVIOUS
  <2> QED BY <1>7, <1>8, <2>1, <2>2, Zenon DEF RowsHold
<1> QED BY <1>3, <1>5, <1>10

\* What the threads and the index range over.
LEMMA IndexTypes ==
    ASSUME TypeOK, NEW t \in Thread
    PROVE  /\ manifest \in [File -> Entry] /\ disk \in [File -> Version]
           /\ vectors \subseteq File \X Version
           /\ local[t] \in Local /\ local[t].copy \in [File -> Entry]
           /\ local[t].doomed \subseteq File \X Version
           /\ local[t].todo \subseteq File /\ local[t].text \in Version
           /\ at[t] \in {"upsert", "stamp"} => local[t].source \in File
BY DEF TypeOK, ThreadsOK, Corpus, Local

\* A sync that ends with nothing to save.
LEMMA SyncedIsQuiet ==
    ASSUME IndexInv, NEW t \in Thread, at[t] = "sync", NEW hasIndex, Synced(t, hasIndex),
           UNCHANGED <<documents, index, history>>
    PROVE  OneSyncs' /\ NoneIsNewer' /\ RowsHold'
<1> DEFINE l == CASE t = "worker" -> "test" [] t = "boot" -> "print" [] OTHER -> "idle"
<1>1. Goto(t, l) /\ Keep(t, Blank)
  BY DEF Synced, GoOn
<1>2. l \in {"test", "print", "idle"}
  OBVIOUS
<1> HIDE DEF l
<1>3. /\ l \in Label /\ l \notin DeleteStep /\ l \notin Midway /\ l # "sync"
      /\ at[t] \notin Midway
  BY <1>2 DEF Label, DeleteStep, Midway
<1>4. t = "boot" <=> ~Serving
  BY BusyServes DEF IndexInv
<1>5. Blank.blocking = FALSE /\ Blank.copy \in {local[t].copy, Blank.copy}
  BY DEF Blank
<1>6. /\ UNCHANGED <<disk, edits, manifest, vectors>>
      /\ NothingFailed' => NothingFailed
  BY DEF documents, index, history, NothingFailed
<1> QED BY <1>1, <1>3, <1>4, <1>5, <1>6, QuietMove

\* compute_delta keeps an entry whose stamp matches, hence one that is embedded,
\* and takes every row of another one away.
LEMMA SyncStartKeepsIndex ==
    ASSUME IndexInv, NEW t \in Thread, SyncStart(t)
    PROVE  OneSyncs' /\ NoneIsNewer' /\ RowsHold'
<1> DEFINE changed == ChangedFiles(manifest)
           redone  == changed \cup RemovedFiles(manifest)
           v == [local[t] EXCEPT !.copy = Without(manifest, redone),
                                 !.doomed = Ids(manifest, redone), !.todo = changed]
<1>1. /\ at[t] = "sync" /\ UNCHANGED <<documents, index, history>>
  BY DEF SyncStart
<1>2. CASE Synced(t, chunks # Empty)
  BY <1>1, <1>2, SyncedIsQuiet
<1>3. CASE Goto(t, "drop") /\ Keep(t, v)
  <2>types. /\ manifest \in [File -> Entry] /\ local[t] \in Local
            /\ vectors \subseteq File \X Version
    BY IndexTypes DEF IndexInv
  <2>1. /\ v.copy = Without(manifest, redone) /\ v.doomed = Ids(manifest, redone)
        /\ v.todo = changed /\ v.blocking = local[t].blocking
    BY <2>types DEF Local
  <2>2. /\ at'[t] = "drop" /\ local'[t] = v
    BY <1>3 DEF Goto, Keep, IndexInv, TypeOK, ThreadsOK
  <2> HIDE DEF v
  <2>3. \A f \in Listed(v.copy) : /\ f \in File /\ f \notin redone /\ f \in Listed(manifest)
                                  /\ v.copy[f] = manifest[f]
    <3>1. NoEntry.ids = 0
      BY DEF NoEntry
    <3> HIDE DEF redone
    <3>2. \A f \in File : v.copy[f] = IF f \in redone THEN NoEntry ELSE manifest[f]
      BY <2>1 DEF Without
    <3> QED BY <3>1, <3>2 DEF Listed
  <2>4. \A f \in Listed(manifest) : f \notin redone => ~Outdated(f)
    BY DEF Outdated, ChangedFiles, RemovedFiles, Present, Listed
  <2>5. Embedded(v.copy)
    BY <2>3, <2>4 DEF Embedded, IndexInv, RowsHold
  <2>6. \A row \in v.doomed : Outdated(row[1]) /\ row[1] \notin Listed(v.copy)
    <3>1. \A f \in redone \cap Listed(manifest) : Outdated(f)
      BY DEF Outdated, ChangedFiles, RemovedFiles, Present, Listed
    <3>2. \A f \in redone : f \notin Listed(v.copy)
      BY <2>3
    <3> HIDE DEF redone
    <3>3. \A row \in Ids(manifest, redone) : row[1] \in redone \cap Listed(manifest)
      BY DEF Ids
    <3> QED BY <2>1, <3>1, <3>2, <3>3
  <2>7. \A f \in v.todo : f \notin Listed(v.copy)
    BY <2>1, <2>3
  <2>8. \A u \in Thread : at[u] \notin Midway
    <3>1. \A u \in Thread : u # t => at[u] \notin SyncStep
      BY <1>1, SyncIsAlone DEF IndexInv, SyncStep
    <3> QED BY <1>1, <3>1 DEF Midway, SyncStep
  <2>9. NothingFailed => \A row \in vectors : Owns(v.copy, row) \/ row \in v.doomed
    <3> SUFFICES ASSUME NothingFailed, NEW row \in vectors
                 PROVE  Owns(v.copy, row) \/ row \in v.doomed
      OBVIOUS
    <3>1. row = <<row[1], row[2]>> /\ row[1] \in File
      BY <2>types
    <3>2. manifest[row[1]].ids = row[2] /\ row[2] # 0
      BY <2>8 DEF IndexInv, RowsHold, Owns
    <3>3. row[1] \in Listed(manifest)
      BY <3>1, <3>2 DEF Listed
    <3>4. CASE row[1] \in redone
      BY <2>1, <3>1, <3>2, <3>3, <3>4 DEF Ids
    <3>5. CASE row[1] \notin redone
      <4>1. v.copy[row[1]] = manifest[row[1]]
        BY <2>1, <3>1, <3>5 DEF Without
      <4> QED BY <3>2, <4>1 DEF Owns
    <3> QED BY <3>4, <3>5
  <2>10. UNCHANGED <<disk, edits, manifest, vectors, failures, restarts>>
    BY <1>1 DEF documents, index, history
  <2>11. SyncHolds(t)'
    BY <2>2, <2>5, <2>6, <2>7, <2>9, <2>10
       DEF SyncHolds, Embedded, Listed, Outdated, Owns, NothingFailed
  <2>12. \A f \in File : v.copy[f].stamp <= edits
    <3>1. \A f \in File : v.copy[f] = manifest[f] \/ v.copy[f] = NoEntry
      BY <2>1 DEF Without
    <3>2. \A f \in File : manifest[f].stamp <= edits
      BY DEF IndexInv, NoneIsNewer
    <3>3. NoEntry.stamp = 0 /\ edits \in Nat
      BY DEF NoEntry, IndexInv, TypeOK, Version
    <3> SUFFICES ASSUME NEW f \in File PROVE v.copy[f].stamp <= edits
      OBVIOUS
    <3>4. CASE v.copy[f] = manifest[f]
      BY <3>2, <3>4
    <3>5. CASE v.copy[f] = NoEntry
      BY <3>3, <3>5
    <3> QED BY <3>1, <3>4, <3>5
  <2>13. v.blocking = FALSE
    BY <2>1 DEF IndexInv, OneSyncs
  <2>14. /\ \A f \in Listed(manifest) : Outdated(f) \/ <<f, manifest[f].ids>> \in vectors'
         /\ \A row \in vectors' : row[2] # 0
    BY <2>10 DEF IndexInv, RowsHold
  <2>15. "drop" \in Midway /\ at[t] \in SyncStep
    BY <1>1 DEF Midway, SyncStep
  <2> QED BY <1>3, <2>10, <2>11, <2>12, <2>13, <2>14, <2>15, IndexMove
<1>4. Synced(t, chunks # Empty) \/ (Goto(t, "drop") /\ Keep(t, v))
  BY Zenon DEF SyncStart
<1> QED BY <1>2, <1>3, <1>4

\* The rows that go belong to files that are embedded again or are gone.
LEMMA SyncDropKeepsIndex ==
    ASSUME IndexInv, NEW t \in Thread, SyncDrop(t)
    PROVE  OneSyncs' /\ NoneIsNewer' /\ RowsHold'
<1> DEFINE v == [local[t] EXCEPT !.doomed = {}]
<1>1. /\ at[t] = "drop" /\ Goto(t, "pick") /\ Keep(t, v)
      /\ vectors' = vectors \ local[t].doomed
      /\ UNCHANGED <<disk, edits, manifest, failures, restarts>>
  BY DEF SyncDrop, documents, history
<1>2. at[t] \in Midway /\ at[t] \in SyncStep /\ "pick" \in Midway
  BY <1>1 DEF Midway, SyncStep
<1>3. SyncHolds(t)
  BY <1>2 DEF IndexInv, RowsHold
<1>4. /\ v.copy = local[t].copy /\ v.todo = local[t].todo
      /\ v.blocking = local[t].blocking
  BY IndexTypes DEF IndexInv, Local
<1>5. /\ at'[t] = "pick" /\ local'[t] = v
  BY <1>1 DEF Goto, Keep, IndexInv, TypeOK, ThreadsOK
<1> HIDE DEF v
<1>6. \A f \in Listed(v.copy) : <<f, v.copy[f].ids>> \in vectors'
  <2> SUFFICES ASSUME NEW f \in Listed(v.copy) PROVE <<f, v.copy[f].ids>> \in vectors'
    OBVIOUS
  <2>1. <<f, v.copy[f].ids>> \in vectors
    BY <1>3, <1>4 DEF SyncHolds, Embedded
  <2>2. \A row \in local[t].doomed : row[1] \notin Listed(v.copy)
    BY <1>1, <1>3, <1>4 DEF SyncHolds
  <2>3. <<f, v.copy[f].ids>>[1] = f
    OBVIOUS
  <2>4. <<f, v.copy[f].ids>> \notin local[t].doomed
    BY <2>2, <2>3
  <2> QED BY <1>1, <2>1, <2>4
<1>7. NothingFailed => \A row \in vectors' : Owns(v.copy, row)
  BY <1>1, <1>3, <1>4 DEF SyncHolds
<1>8. SyncHolds(t)'
  BY <1>1, <1>3, <1>4, <1>5, <1>6, <1>7 DEF SyncHolds, Embedded, Listed, Owns, NothingFailed
<1>9. \A f \in Listed(manifest) : Outdated(f) \/ <<f, manifest[f].ids>> \in vectors'
  <2> SUFFICES ASSUME NEW f \in Listed(manifest), <<f, manifest[f].ids>> \notin vectors'
               PROVE  Outdated(f)
    OBVIOUS
  <2>1. CASE <<f, manifest[f].ids>> \in vectors
    <3>1. <<f, manifest[f].ids>> \in local[t].doomed
      BY <1>1, <2>1
    <3>2. \A row \in local[t].doomed : Outdated(row[1])
      BY <1>1, <1>3 DEF SyncHolds
    <3>3. <<f, manifest[f].ids>>[1] = f
      OBVIOUS
    <3> QED BY <3>1, <3>2, <3>3
  <2>2. CASE <<f, manifest[f].ids>> \notin vectors
    BY <2>2 DEF IndexInv, RowsHold
  <2> QED BY <2>1, <2>2
<1>10. \A row \in vectors' : row[2] # 0
  BY <1>1 DEF IndexInv, RowsHold
<1>11. \A f \in File : v.copy[f].stamp <= edits
  BY <1>4 DEF IndexInv, NoneIsNewer
<1>12. v.blocking = FALSE
  BY <1>4 DEF IndexInv, OneSyncs
<1> QED BY <1>1, <1>2, <1>8, <1>9, <1>10, <1>11, <1>12, IndexMove

\* The text of a file that is picked has no entry yet.
LEMMA SyncPickKeepsIndex ==
    ASSUME IndexInv, NEW t \in Thread, NEW f \in File, SyncPick(t, f)
    PROVE  OneSyncs' /\ NoneIsNewer' /\ RowsHold'
<1>1. /\ at[t] = "pick" /\ f \in local[t].todo
      /\ UNCHANGED <<disk, edits, manifest, vectors, failures, restarts>>
  BY DEF SyncPick, documents, index, history
<1>2. /\ at[t] \in Midway /\ at[t] \in SyncStep
      /\ "pick" \in Midway /\ "upsert" \in Midway
  BY <1>1 DEF Midway, SyncStep
<1>3. SyncHolds(t)
  BY <1>2 DEF IndexInv, RowsHold
<1>4. /\ \A g \in Listed(manifest) : Outdated(g) \/ <<g, manifest[g].ids>> \in vectors'
      /\ \A row \in vectors' : row[2] # 0
  BY <1>1 DEF IndexInv, RowsHold
<1>5. local[t] \in Local /\ local[t].blocking = FALSE
      /\ \A g \in File : local[t].copy[g].stamp <= edits
  BY IndexTypes DEF IndexInv, OneSyncs, NoneIsNewer
<1>6. CASE disk[f] = 0
  <2> DEFINE v == [local[t] EXCEPT !.todo = local[t].todo \ {f}]
  <2>1. Goto(t, "pick") /\ Keep(t, v)
    BY <1>6 DEF SyncPick
  <2>2. /\ v.copy = local[t].copy /\ v.todo = local[t].todo \ {f}
        /\ v.blocking = FALSE
    BY <1>5 DEF Local
  <2>3. /\ at'[t] = "pick" /\ local'[t] = v
    BY <2>1 DEF Goto, Keep, IndexInv, TypeOK, ThreadsOK
  <2> HIDE DEF v
  <2>4. SyncHolds(t)'
    BY <1>1, <1>3, <2>2, <2>3 DEF SyncHolds, Embedded, Listed, Owns, NothingFailed
  <2> QED BY <1>1, <1>2, <1>4, <1>5, <2>1, <2>2, <2>4, IndexMove
<1>7. CASE disk[f] # 0
  <2> DEFINE v == [local[t] EXCEPT !.todo = local[t].todo \ {f}, !.source = f, !.text = disk[f]]
  <2>1. Goto(t, "upsert") /\ Keep(t, v)
    BY <1>7 DEF SyncPick
  <2>2. /\ v.copy = local[t].copy /\ v.todo = local[t].todo \ {f}
        /\ v.source = f /\ v.text = disk[f] /\ v.blocking = FALSE
    BY <1>5 DEF Local
  <2>3. /\ at'[t] = "upsert" /\ local'[t] = v
    BY <2>1 DEF Goto, Keep, IndexInv, TypeOK, ThreadsOK
  <2> HIDE DEF v
  <2>4. f \notin Listed(local[t].copy)
    BY <1>1, <1>3 DEF SyncHolds
  <2>5. SyncHolds(t)'
    BY <1>1, <1>3, <1>7, <2>2, <2>3, <2>4 DEF SyncHolds, Embedded, Listed, Owns, NothingFailed
  <2> QED BY <1>1, <1>2, <1>4, <1>5, <2>1, <2>2, <2>5, IndexMove
<1> QED BY <1>6, <1>7

\* Rows come before their entry.
LEMMA SyncUpsertKeepsIndex ==
    ASSUME IndexInv, NEW t \in Thread, SyncUpsert(t)
    PROVE  OneSyncs' /\ NoneIsNewer' /\ RowsHold'
<1>1. /\ at[t] = "upsert" /\ Goto(t, "stamp") /\ UNCHANGED local
      /\ vectors' = vectors \cup {<<local[t].source, local[t].text>>}
      /\ UNCHANGED <<disk, edits, manifest, failures, restarts>>
  BY DEF SyncUpsert, documents, history
<1>2. at[t] \in Midway /\ at[t] \in SyncStep /\ "stamp" \in Midway
  BY <1>1 DEF Midway, SyncStep
<1>3. SyncHolds(t)
  BY <1>2 DEF IndexInv, RowsHold
<1>4. Keep(t, local[t]) /\ at'[t] = "stamp" /\ local'[t] = local[t]
  BY <1>1 DEF Goto, Keep, IndexInv, TypeOK, ThreadsOK
<1>5. SyncHolds(t)'
  BY <1>1, <1>3, <1>4 DEF SyncHolds, Embedded, Listed, Owns, NothingFailed
<1>6. \A f \in Listed(manifest) : Outdated(f) \/ <<f, manifest[f].ids>> \in vectors'
  BY <1>1 DEF IndexInv, RowsHold
<1>7. \A row \in vectors' : row[2] # 0
  <2>1. local[t].text # 0
    BY <1>1, <1>3 DEF SyncHolds
  <2> QED BY <1>1, <2>1 DEF IndexInv, RowsHold
<1>8. local[t].blocking = FALSE /\ \A f \in File : local[t].copy[f].stamp <= edits
  BY DEF IndexInv, OneSyncs, NoneIsNewer
<1> QED BY <1>1, <1>2, <1>4, <1>5, <1>6, <1>7, <1>8, IndexMove

\* An entry comes after its rows.
LEMMA SyncStampKeepsIndex ==
    ASSUME IndexInv, NEW t \in Thread, SyncStamp(t)
    PROVE  OneSyncs' /\ NoneIsNewer' /\ RowsHold'
<1> DEFINE f == local[t].source
           e == [stamp |-> disk[f], ids |-> local[t].text]
           m == [local[t].copy EXCEPT ![f] = e]
           v == [local[t] EXCEPT !.copy = m, !.source = NoFile, !.text = 0]
<1>1. /\ at[t] = "stamp" /\ Goto(t, "pick") /\ Keep(t, v)
      /\ UNCHANGED <<disk, edits, manifest, vectors, failures, restarts>>
  BY DEF SyncStamp, documents, index, history
<1>2. at[t] \in Midway /\ at[t] \in SyncStep /\ "pick" \in Midway
  BY <1>1 DEF Midway, SyncStep
<1>3. SyncHolds(t)
  BY <1>2 DEF IndexInv, RowsHold
<1>types. /\ f \in File /\ local[t].copy \in [File -> Entry] /\ local[t] \in Local
          /\ vectors \subseteq File \X Version
  BY <1>1, IndexTypes DEF IndexInv
<1>4. /\ m[f] = e /\ \A g \in File : g # f => m[g] = local[t].copy[g]
  BY <1>types
<1> HIDE DEF m
<1>5. v.copy = m /\ v.todo = local[t].todo /\ v.blocking = FALSE
  BY <1>types DEF Local, IndexInv, OneSyncs
<1>6. at'[t] = "pick" /\ local'[t] = v
  BY <1>1 DEF Goto, Keep, IndexInv, TypeOK, ThreadsOK
<1> HIDE DEF v
<1>7. /\ f \notin local[t].todo /\ local[t].text # 0 /\ local[t].copy[f].ids = 0
      /\ <<f, local[t].text>> \in vectors
  BY <1>1, <1>3, <1>types DEF SyncHolds, Listed
<1>8. Embedded(m)
  <2> SUFFICES ASSUME NEW g \in Listed(m) PROVE <<g, m[g].ids>> \in vectors
    BY DEF Embedded
  <2>1. CASE g = f
    BY <1>4, <1>7, <2>1
  <2>2. CASE g # f
    BY <1>3, <1>4, <2>2 DEF SyncHolds, Embedded, Listed
  <2> QED BY <2>1, <2>2
<1>9. \A g \in local[t].todo : g \notin Listed(m)
  BY <1>3, <1>4, <1>7 DEF SyncHolds, Listed
<1>10. NothingFailed => \A row \in vectors : Owns(m, row)
  <2> SUFFICES ASSUME NothingFailed, NEW row \in vectors PROVE m[row[1]].ids = row[2]
    BY DEF Owns
  <2>1. CASE row = <<f, local[t].text>>
    BY <1>4, <2>1
  <2>2. CASE row # <<f, local[t].text>>
    <3>1. local[t].copy[row[1]].ids = row[2]
      BY <1>1, <1>3, <2>2 DEF SyncHolds, Owns
    <3>2. row[2] # 0 /\ row[1] \in File
      BY <1>types DEF IndexInv, RowsHold
    <3> QED BY <1>4, <1>7, <3>1, <3>2
  <2> QED BY <2>1, <2>2
<1>11. SyncHolds(t)'
  BY <1>1, <1>5, <1>6, <1>8, <1>9, <1>10 DEF SyncHolds, Embedded, Listed, Owns, NothingFailed
<1>12. \A g \in File : v.copy[g].stamp <= edits
  <2>1. /\ \A g \in File : local[t].copy[g].stamp <= edits
        /\ disk[f] <= edits
    BY <1>types DEF IndexInv, NoneIsNewer
  <2> SUFFICES ASSUME NEW g \in File PROVE m[g].stamp <= edits
    BY <1>5
  <2>2. CASE g = f
    BY <1>4, <2>1, <2>2
  <2>3. CASE g # f
    BY <1>4, <2>1, <2>3
  <2> QED BY <2>2, <2>3
<1>13. /\ \A g \in Listed(manifest) : Outdated(g) \/ <<g, manifest[g].ids>> \in vectors'
       /\ \A row \in vectors' : row[2] # 0
  BY <1>1 DEF IndexInv, RowsHold
<1> QED BY <1>1, <1>2, <1>5, <1>11, <1>12, <1>13, IndexMove

\* The manifest that is saved describes the rows.
LEMMA SyncSaveKeepsIndex ==
    ASSUME IndexInv, NEW t \in Thread, SyncSave(t)
    PROVE  OneSyncs' /\ NoneIsNewer' /\ RowsHold'
<1> DEFINE l == CASE t = "worker" -> "test" [] t = "boot" -> "print" [] OTHER -> "idle"
<1>1. /\ at[t] = "pick" /\ Goto(t, l) /\ Keep(t, Blank) /\ manifest' = local[t].copy
      /\ UNCHANGED <<disk, edits, vectors, failures, restarts>>
  BY DEF SyncSave, Synced, GoOn, documents, history
<1>2. l \in {"test", "print", "idle"}
  OBVIOUS
<1> HIDE DEF l
<1>3. l \in Label /\ l \notin DeleteStep /\ l \notin Midway /\ l \notin SyncStep
  BY <1>2 DEF Label, DeleteStep, Midway, SyncStep
<1>4. at[t] \in Midway /\ at[t] \in SyncStep /\ at[t] # "idle"
  BY <1>1 DEF Midway, SyncStep
<1>5. SyncHolds(t)
  BY <1>4 DEF IndexInv, RowsHold
<1>6. OneSyncs'
  <2>1. t = "boot" <=> ~Serving
    BY <1>4, BusyServes DEF IndexInv
  <2>2. Blank.blocking = FALSE
    BY DEF Blank
  <2> QED BY <1>1, <1>3, <2>1, <2>2, SyncsMove DEF IndexInv
<1>7. /\ at'[t] = l /\ local'[t] = Blank
      /\ \A u \in Thread : u # t => at'[u] = at[u] /\ local'[u] = local[u]
  BY <1>1 DEF Goto, Keep, IndexInv, TypeOK, ThreadsOK
<1>8. NoneIsNewer'
  <2>1. \A f \in File : Blank.copy[f].stamp = 0
    BY DEF Blank, NoEntry
  <2>2. edits \in Nat
    BY DEF IndexInv, TypeOK, Version
  <2> SUFFICES ASSUME NEW f \in File
               PROVE  /\ disk[f] <= edits /\ local[t].copy[f].stamp <= edits
                      /\ \A u \in Thread : local'[u].copy[f].stamp <= edits
    BY <1>1 DEF NoneIsNewer
  <2>3. /\ disk[f] <= edits
        /\ \A u \in Thread : local[u].copy[f].stamp <= edits
    BY DEF IndexInv, NoneIsNewer
  <2>4. local'[t].copy[f].stamp <= edits
    BY <1>7, <2>1, <2>2
  <2> QED BY <1>7, <2>3, <2>4
<1>9. \A u \in Thread : at'[u] \notin Midway
  <2>1. \A u \in Thread : u # t => at[u] \notin SyncStep
    BY <1>4, SyncIsAlone DEF IndexInv
  <2> QED BY <1>3, <1>7, <2>1 DEF Midway, SyncStep
<1>10. (\A f \in Listed(manifest) : <<f, manifest[f].ids>> \in vectors)'
  BY <1>1, <1>5 DEF SyncHolds, Embedded, Listed
<1>11. \A row \in vectors' : row[2] # 0
  BY <1>1 DEF IndexInv, RowsHold
<1>12. (NothingFailed => \A row \in vectors : Owns(manifest, row))'
  BY <1>1, <1>5 DEF SyncHolds, Owns, NothingFailed
<1>13. (\A u \in Thread : at[u] \notin Midway)'
  BY <1>9 DEF Midway
<1>14. RowsHold'
  BY <1>10, <1>11, <1>12, <1>13 DEF RowsHold
<1> QED BY <1>6, <1>8, <1>14

\* The index starts empty.
LEMMA IndexInit == Init => IndexInv
<1> SUFFICES ASSUME Init PROVE IndexInv
  OBVIOUS
<1>1. /\ \A t \in Thread : local[t] = Blank /\ at[t] \in {"boot", "idle"}
      /\ \A t \in Thread \ {"boot"} : at[t] = "idle"
      /\ vectors = {} /\ manifest = Blank.copy /\ edits = 0 /\ \A f \in File : disk[f] = 0
  BY DEF Init, Empty
<1>2. Blank.blocking = FALSE /\ \A f \in File : Blank.copy[f].stamp = 0 /\ Blank.copy[f].ids = 0
  BY DEF Blank, NoEntry
<1>3. OneSyncs
  BY <1>1, <1>2 DEF OneSyncs, SyncStep, DeleteStep
<1>4. NoneIsNewer
  <2> SUFFICES ASSUME NEW f \in File
               PROVE  /\ disk[f] <= edits /\ manifest[f].stamp <= edits
                      /\ \A t \in Thread : local[t].copy[f].stamp <= edits
    BY DEF NoneIsNewer
  <2>1. disk[f] = 0 /\ edits = 0 /\ manifest[f].stamp = 0
    BY <1>1, <1>2
  <2>2. \A t \in Thread : local[t].copy[f].stamp = 0
    BY <1>1, <1>2
  <2> QED BY <2>1, <2>2
<1>5. \A t \in Thread : at[t] \notin Midway
  BY <1>1 DEF Midway
<1>6. Listed(manifest) = {}
  BY <1>1, <1>2 DEF Listed
<1>7. RowsHold
  BY <1>1, <1>5, <1>6 DEF RowsHold
<1> QED BY <1>3, <1>4, <1>7, TypeInit DEF IndexInv

\* A thread that moves on with locals v, away from the index.
LEMMA AwayMove ==
    ASSUME IndexInv, NEW t \in Thread, NEW l \in Label, NEW v,
           Goto(t, l), Keep(t, v), v.blocking = FALSE,
           v.copy \in {local[t].copy, Blank.copy},
           l \notin DeleteStep, l \notin Midway, at[t] \notin Midway,
           l = "sync" => t \in {"worker", "boot"},
           at[t] # "idle" \/ (Serving /\ t # "boot"),
           UNCHANGED <<documents, index, history>>
    PROVE  OneSyncs' /\ NoneIsNewer' /\ RowsHold'
<1>1. t = "boot" <=> ~Serving
  BY BusyServes DEF IndexInv
<1>2. /\ UNCHANGED <<disk, edits, manifest, vectors>>
      /\ NothingFailed' => NothingFailed
  BY DEF documents, index, history, NothingFailed
<1> QED BY <1>1, <1>2, QuietMove

\* Locals that are left alone, or that lose or gain what is not of the index.
LEMMA IndexLocals ==
    ASSUME IndexInv, NEW t \in Thread
    PROVE  /\ Keep(t, local[t]) <=> UNCHANGED local
           /\ local[t].blocking = FALSE
           /\ \A x : [local[t] EXCEPT !.print = x].blocking = FALSE
                     /\ [local[t] EXCEPT !.print = x].copy = local[t].copy
           /\ \A x : [local[t] EXCEPT !.chunks = x].blocking = FALSE
                     /\ [local[t] EXCEPT !.chunks = x].copy = local[t].copy
           /\ Blank.blocking = FALSE
<1>1. local \in [Thread -> Local] /\ local[t] \in Local /\ local[t].blocking = FALSE
  BY DEF IndexInv, TypeOK, ThreadsOK, OneSyncs
<1>2. [local EXCEPT ![t] = local[t]] = local
  BY <1>1
<1>3. Keep(t, local[t]) <=> UNCHANGED local
  BY <1>2 DEF Keep
<1>4. \A x : [local[t] EXCEPT !.print = x].blocking = FALSE
             /\ [local[t] EXCEPT !.print = x].copy = local[t].copy
  BY <1>1 DEF Local
<1>5. \A x : [local[t] EXCEPT !.chunks = x].blocking = FALSE
             /\ [local[t] EXCEPT !.chunks = x].copy = local[t].copy
  BY <1>1 DEF Local
<1>6. Blank.blocking = FALSE
  BY DEF Blank
<1> QED BY <1>1, <1>3, <1>4, <1>5, <1>6

\* The labels away from the index.
LEMMA AwayLabels ==
    \A l \in {"idle", "reload", "load", "replace", "publish", "schedule", "test",
              "exiting", "boot", "print"} :
        l \in Label /\ l \notin Midway /\ l \notin DeleteStep /\ l # "sync"
BY DEF Label, ReloadStep, SyncStep, DeleteStep, Midway

\* A reload of the keyword corpus leaves the index to the worker.
LEMMA ReloadKeepsIndex ==
    ASSUME IndexInv, NEW t \in Thread,
           \/ WatchCheck(t) \/ TakeFingerprint(t) \/ LoadChunks(t) \/ ReplaceChunks(t)
           \/ Publish(t)
    PROVE  OneSyncs' /\ NoneIsNewer' /\ RowsHold'
<1>1. CASE WatchCheck(t)
  <2>1. /\ at[t] = "idle" /\ Serving /\ t # "boot" /\ Goto(t, "reload")
        /\ UNCHANGED local /\ UNCHANGED <<documents, index, history>>
    BY <1>1 DEF WatchCheck
  <2>2. Keep(t, local[t]) /\ local[t].blocking = FALSE /\ local[t].copy \in {local[t].copy, Blank.copy}
    BY <2>1, IndexLocals
  <2>3. at[t] \notin Midway
    BY <2>1, AwayLabels
  <2> QED BY <2>1, <2>2, <2>3, AwayMove, AwayLabels
<1>2. CASE TakeFingerprint(t)
  <2>1. /\ at[t] = "reload" /\ Goto(t, "load") /\ UNCHANGED <<documents, index, history>>
        /\ Keep(t, [local[t] EXCEPT !.print = Fingerprint])
    BY <1>2 DEF TakeFingerprint
  <2>2. at[t] \notin Midway
    BY <2>1, AwayLabels
  <2> QED BY <2>1, <2>2, IndexLocals, AwayMove, AwayLabels
<1>3. CASE LoadChunks(t)
  <2>1. /\ at[t] = "load" /\ Goto(t, "replace") /\ UNCHANGED <<documents, index, history>>
        /\ Keep(t, [local[t] EXCEPT !.chunks = disk])
    BY <1>3 DEF LoadChunks
  <2>2. at[t] \notin Midway
    BY <2>1, AwayLabels
  <2> QED BY <2>1, <2>2, IndexLocals, AwayMove, AwayLabels
<1>4. CASE ReplaceChunks(t)
  <2>1. /\ at[t] = "replace" /\ Goto(t, "publish") /\ UNCHANGED <<documents, index, history>>
        /\ Keep(t, [local[t] EXCEPT !.chunks = Empty])
    BY <1>4 DEF ReplaceChunks
  <2>2. at[t] \notin Midway
    BY <2>1, AwayLabels
  <2> QED BY <2>1, <2>2, IndexLocals, AwayMove, AwayLabels
<1>5. CASE Publish(t)
  <2>1. /\ at[t] = "publish" /\ Follow(t) /\ UNCHANGED <<documents, index, history>>
    BY <1>5 DEF Publish
  <2>2. local[t].blocking = FALSE
    BY IndexLocals
  <2>3. at[t] \notin Midway
    BY <2>1, AwayLabels
  <2>4. CASE ~UseVector
    <3>1. Goto(t, "idle") /\ Keep(t, Blank)
      BY <2>1, <2>4, Zenon DEF Follow, Return
    <3> QED BY <2>1, <2>3, <3>1, IndexLocals, AwayMove, AwayLabels
  <2>5. CASE UseVector
    <3>1. Goto(t, "schedule") /\ Keep(t, [local[t] EXCEPT !.print = Blank.print])
      BY <2>1, <2>2, <2>5, Zenon DEF Follow
    <3> QED BY <2>1, <2>3, <3>1, IndexLocals, AwayMove, AwayLabels
  <2> QED BY <2>4, <2>5
<1> QED BY <1>1, <1>2, <1>3, <1>4, <1>5

\* The worker is started while it is idle and the process serves.
LEMMA ScheduleKeepsIndex ==
    ASSUME IndexInv, NEW t \in Thread, ScheduleSync(t)
    PROVE  OneSyncs' /\ NoneIsNewer' /\ RowsHold'
<1> DEFINE started == at["worker"] = "idle"
<1>1. /\ at[t] = "schedule" /\ UNCHANGED <<disk, edits, manifest, vectors, failures, restarts>>
      /\ at' = IF started THEN [at EXCEPT ![t] = "idle", !["worker"] = "sync"]
               ELSE [at EXCEPT ![t] = "idle"]
      /\ local' = [local EXCEPT ![t] = Blank]
  BY DEF ScheduleSync, Keep, documents, index, history
<1>2. /\ at \in [Thread -> Label] /\ local \in [Thread -> Local]
      /\ "worker" \in Thread /\ "boot" \in Thread
  BY DEF IndexInv, TypeOK, ThreadsOK, Thread
<1>3. /\ local'[t] = Blank /\ Blank.blocking = FALSE
      /\ \A u \in Thread : u # t => local'[u] = local[u]
  BY <1>1, <1>2 DEF Blank
<1>4. /\ at'[t] = "idle"
      /\ \A u \in Thread : u # t => \/ at'[u] = at[u]
                                    \/ u = "worker" /\ at[u] = "idle" /\ at'[u] = "sync"
  BY <1>1, <1>2
<1>5. at[t] \notin Midway /\ "sync" \notin Midway /\ "idle" \notin Midway
  BY <1>1 DEF Midway
<1>6. OneSyncs'
  <2>1. \A u \in Thread :
            /\ at'[u] \in SyncStep => u \in {"worker", "boot"}
            /\ at'[u] \notin DeleteStep
            /\ local'[u].blocking = FALSE
    BY <1>3, <1>4 DEF IndexInv, OneSyncs, SyncStep, DeleteStep
  <2>2. Serving'
    BY <1>1, <1>2, <1>4 DEF IndexInv, OneSyncs, Serving
  <2> QED BY <2>1, <2>2 DEF OneSyncs
<1>7. \A u \in Thread : /\ at'[u] \in Midway => at'[u] = at[u] /\ local'[u] = local[u]
                        /\ at[u] \in Midway => at'[u] \in Midway \/ ~NothingFailed'
                        /\ local'[u].copy \in {local[u].copy, Blank.copy}
  <2> SUFFICES ASSUME NEW u \in Thread
               PROVE  /\ at'[u] \in Midway => at'[u] = at[u] /\ local'[u] = local[u]
                      /\ at[u] \in Midway => at'[u] \in Midway \/ ~NothingFailed'
                      /\ local'[u].copy \in {local[u].copy, Blank.copy}
    OBVIOUS
  <2>1. CASE u = t
    BY <1>3, <1>4, <1>5, <2>1
  <2>2. CASE u # t
    <3>1. local'[u] = local[u]
      BY <1>3, <2>2
    <3>2. at'[u] = at[u] \/ (at[u] = "idle" /\ at'[u] = "sync")
      BY <1>4, <2>2
    <3> QED BY <1>5, <3>1, <3>2
  <2> QED BY <2>1, <2>2
<1>8. NothingFailed' => NothingFailed
  BY <1>1 DEF NothingFailed
<1>9. NoneIsNewer' /\ RowsHold'
  BY <1>1, <1>7, <1>8, IndexIsLeft
<1> QED BY <1>6, <1>9

\* The worker goes on or stops, and the startup loads and describes the files.
LEMMA WorkerKeepsIndex ==
    ASSUME IndexInv, NEW t \in Thread,
           WorkerTest(t) \/ WorkerExit(t) \/ BootLoad(t) \/ BootFingerprint(t)
    PROVE  OneSyncs' /\ NoneIsNewer' /\ RowsHold'
<1>1. /\ UNCHANGED local /\ UNCHANGED <<documents, index, history>>
      /\ t \in {"worker", "boot"} /\ at[t] \in {"test", "exiting", "boot", "print"}
  BY DEF WorkerTest, WorkerExit, BootLoad, BootFingerprint
<1>2. PICK l \in {"sync", "exiting", "idle", "print"} : Goto(t, l)
  BY Zenon DEF WorkerTest, WorkerExit, BootLoad, BootFingerprint
<1>3. /\ l \in Label /\ l \notin Midway /\ l \notin DeleteStep
      /\ at[t] \notin Midway /\ at[t] # "idle"
  BY <1>1, <1>2 DEF Label, SyncStep, Midway, DeleteStep
<1>4. Keep(t, local[t]) /\ local[t].blocking = FALSE /\ local[t].copy \in {local[t].copy, Blank.copy}
  BY <1>1, IndexLocals
<1> QED BY <1>1, <1>2, <1>3, <1>4, AwayMove

\* An exception of a load or of a sync, which is over then, is a failure.
LEMMA FailKeepsIndex ==
    ASSUME IndexInv, NEW t \in Thread, Fail(t)
    PROVE  OneSyncs' /\ NoneIsNewer' /\ RowsHold'
<1>1. /\ UNCHANGED <<disk, edits, manifest, vectors>> /\ failures' = failures + 1
      /\ failures \in Nat
  BY DEF Fail, documents, index, IndexInv, TypeOK
<1>2. ~NothingFailed'
  BY <1>1 DEF NothingFailed
<1>3. /\ at[t] \notin DeleteStep /\ {"unlink", "forget", "purge", "save"} \subseteq DeleteStep
  BY DEF IndexInv, OneSyncs, DeleteStep
<1>4. at[t] \in SyncStep \cup {"load"}
  BY <1>3 DEF Fail
<1>5. PICK l \in {"idle", "test", "print"} : Goto(t, l) /\ Keep(t, Blank)
  BY <1>3, Zenon DEF Fail, Return, GoOn
<1>6. at[t] # "idle"
  BY <1>4 DEF SyncStep
<1>7. t = "boot" <=> ~Serving
  BY <1>6, BusyServes DEF IndexInv
<1> QED BY <1>1, <1>2, <1>5, <1>7, IndexLocals, AwayLabels, QuietMove

\* A crash ends every sync.
LEMMA CrashKeepsIndex ==
    ASSUME IndexInv, Crash
    PROVE  OneSyncs' /\ NoneIsNewer' /\ RowsHold'
<1>1. /\ UNCHANGED <<disk, edits, manifest, vectors>> /\ restarts' = restarts + 1
      /\ restarts \in Nat
      /\ \A t \in Thread : local'[t] = Blank /\ at'[t] \in {"boot", "idle"}
      /\ \A t \in Thread \ {"boot"} : at'[t] = "idle"
  BY DEF Crash, documents, index, IndexInv, TypeOK
<1>2. ~NothingFailed'
  BY <1>1 DEF NothingFailed
<1>3. Blank.blocking = FALSE
  BY DEF Blank
<1>4. OneSyncs'
  BY <1>1, <1>3 DEF OneSyncs, SyncStep, DeleteStep
<1>5. \A t \in Thread : at'[t] \notin Midway
  BY <1>1 DEF Midway
<1>6. NoneIsNewer' /\ RowsHold'
  BY <1>1, <1>2, <1>5, IndexIsLeft
<1> QED BY <1>4, <1>6

\* What editors and clients do is not a sync.
LEMMA ClientKeepsIndex ==
    ASSUME IndexInv,
           \/ \E f \in File : EditFile(f) \/ Upload(f)
           \/ \E p \in Pool : ReloadRequest(p)
    PROVE  OneSyncs' /\ NoneIsNewer' /\ RowsHold'
<1>1. ASSUME NEW f \in File, EditFile(f) PROVE OneSyncs' /\ NoneIsNewer' /\ RowsHold'
  <2>1. PICK v \in {0, edits + 1} : Write(f, v)
    BY <1>1 DEF EditFile
  <2>2. UNCHANGED <<manifest, vectors, at, local, failures, restarts>>
    BY <1>1 DEF EditFile, index
  <2>3. NoneIsNewer' /\ RowsHold'
    BY <2>1, <2>2, DocumentIsWritten
  <2>4. OneSyncs'
    BY <2>2 DEF IndexInv, OneSyncs, Serving
  <2> QED BY <2>3, <2>4
<1>2. ASSUME NEW f \in File, Upload(f) PROVE OneSyncs' /\ NoneIsNewer' /\ RowsHold'
  <2>1. /\ Write(f, edits + 1) /\ UNCHANGED <<manifest, vectors, local, failures, restarts>>
        /\ Serving /\ at["loop"] = "idle" /\ Goto("loop", "reload")
    BY <1>2 DEF Upload, index
  <2>2. "loop" \in Thread /\ "loop" # "boot"
    BY DEF Thread
  <2>3. /\ at'["loop"] = "reload" /\ \A t \in Thread : t # "loop" => at'[t] = at[t]
    BY <2>1, <2>2 DEF Goto, IndexInv, TypeOK, ThreadsOK
  <2>4. \A t \in Thread : /\ at'[t] \in Midway => at'[t] = at[t]
                          /\ at[t] \in Midway => at'[t] \in Midway
    BY <2>1, <2>3 DEF Midway
  <2>5. edits + 1 \in {0, edits + 1}
    OBVIOUS
  <2>6. NoneIsNewer' /\ RowsHold'
    BY <2>1, <2>4, <2>5, DocumentIsWritten
  <2>7. Keep("loop", local["loop"]) /\ local["loop"].blocking = FALSE
    BY <2>1, <2>2, IndexLocals
  <2>8. "reload" \in Label /\ "reload" \notin DeleteStep /\ "reload" \notin SyncStep
    BY DEF Label, DeleteStep, SyncStep
  <2>9. OneSyncs'
    BY <2>1, <2>2, <2>7, <2>8, SyncsMove DEF IndexInv
  <2> QED BY <2>6, <2>9
<1>3. ASSUME NEW p \in Pool, ReloadRequest(p) PROVE OneSyncs' /\ NoneIsNewer' /\ RowsHold'
  <2>1. /\ p \in Thread /\ p # "boot" /\ at[p] = "idle" /\ Serving /\ Goto(p, "reload")
        /\ UNCHANGED local /\ UNCHANGED <<documents, index, history>>
    BY <1>3, RagAssumption DEF ReloadRequest, Thread
  <2>2. Keep(p, local[p]) /\ local[p].blocking = FALSE /\ local[p].copy \in {local[p].copy, Blank.copy}
    BY <2>1, IndexLocals
  <2>3. at[p] \notin Midway
    BY <2>1, AwayLabels
  <2> QED BY <2>1, <2>2, <2>3, AwayMove, AwayLabels
<1> QED BY <1>1, <1>2, <1>3

\* Every step keeps the index, as long as nothing is deleted.
LEMMA IndexNext == NoDeletion /\ IndexInv /\ [Next]_vars => IndexInv'
<1> SUFFICES ASSUME NoDeletion, IndexInv, [Next]_vars PROVE IndexInv'
  OBVIOUS
<1>1. TypeOK'
  BY TypeNext DEF IndexInv
<1>2. OneSyncs' /\ NoneIsNewer' /\ RowsHold'
  <2>1. CASE UNCHANGED vars
    <3>1. UNCHANGED <<disk, edits, manifest, vectors, at, local, failures, restarts>>
      BY <2>1 DEF vars
    <3>2. OneSyncs'
      BY <3>1 DEF IndexInv, OneSyncs, Serving
    <3>3. NothingFailed' => NothingFailed
      BY <3>1 DEF NothingFailed
    <3>4. NoneIsNewer' /\ RowsHold'
      BY <3>1, <3>3, IndexIsLeft
    <3> QED BY <3>2, <3>4
  <2>2. CASE \/ \E f \in File : EditFile(f) \/ Upload(f)
             \/ \E p \in Pool : ReloadRequest(p)
    BY <2>2, ClientKeepsIndex
  <2>3. ASSUME NEW p \in Pool, NEW f \in File, DeleteRequest(p, f) PROVE FALSE
    BY <2>3 DEF DeleteRequest, NoDeletion
  <2>4. ASSUME NEW t \in Thread, Step(t) PROVE OneSyncs' /\ NoneIsNewer' /\ RowsHold'
    <3>1. ~ForgetEntry(t) /\ ~PurgeVectors(t) /\ ~SaveManifest(t) /\ ~UnlinkFile(t)
      <4>1. at[t] \notin DeleteStep
        BY DEF IndexInv, OneSyncs
      <4> QED BY <4>1 DEF ForgetEntry, PurgeVectors, SaveManifest, UnlinkFile, DeleteStep
    <3>2. ASSUME NEW f \in File, SyncPick(t, f) PROVE OneSyncs' /\ NoneIsNewer' /\ RowsHold'
      BY <3>2, SyncPickKeepsIndex
    <3> QED BY <2>4, <3>1, <3>2, ReloadKeepsIndex, ScheduleKeepsIndex, SyncStartKeepsIndex,
               SyncDropKeepsIndex, SyncUpsertKeepsIndex, SyncStampKeepsIndex,
               SyncSaveKeepsIndex, WorkerKeepsIndex DEF Step
  <2>5. ASSUME NEW t \in Thread, Fail(t) PROVE OneSyncs' /\ NoneIsNewer' /\ RowsHold'
    BY <2>5, FailKeepsIndex
  <2>6. CASE Crash
    BY <2>6, CrashKeepsIndex
  <2> QED BY <2>1, <2>2, <2>3, <2>4, <2>5, <2>6 DEF Next
<1> QED BY <1>1, <1>2 DEF IndexInv

\* As long as nothing is deleted, a file that compute_delta skips has its rows in
\* the collection, whatever sync failed, was cut short by a crash or met an edit:
\* sync_vector_index upserts the rows of a file before it stamps its entry, deletes
\* rows of files it embeds again only, and saves the manifest at the end.
THEOREM SkippedFilesAreEmbedded == ASSUME NoDeletion PROVE Spec => []SkippedIsEmbedded
<1>1. IndexInv => SkippedIsEmbedded
  BY DEF IndexInv, RowsHold, SkippedIsEmbedded, Skipped, Present, Outdated
<1>2. IndexInv /\ [Next]_vars => IndexInv'
  BY IndexNext
<1> QED BY IndexInit, <1>1, <1>2, PTL DEF Spec

\* As long as nothing is deleted, fails or crashes, the manifest names every row
\* of the collection between two syncs, whatever is edited or uploaded during one:
\* a sync takes away the rows of every entry that it drops.
THEOREM EveryRowHasItsEntry == ASSUME NoDeletion PROVE Spec => []OrphansNeedAFailure
<1>1. IndexInv => OrphansNeedAFailure
  <2>1. Midway \subseteq SyncStep
    BY DEF Midway, SyncStep
  <2> QED BY <2>1 DEF IndexInv, RowsHold, OrphansNeedAFailure, Syncing, NothingFailed, Owns
<1>2. IndexInv /\ [Next]_vars => IndexInv'
  BY IndexNext
<1> QED BY IndexInit, <1>1, <1>2, PTL DEF Spec

-----------------------------------------------------------------------------
(* Deletions one at a time, beside editors and without the watcher.            *)

\* Clients delete, one after another, and nobody else reloads while the process
\* serves.
OneDeletion ==
    /\ Requests \subseteq {"delete"} /\ ~Watching
    /\ \A p, q \in Pool : p = q

\* Where a deletion goes, and what it does only with vectors.
HandlerStep == {"reload", "load", "replace", "publish"} \cup SyncStep \cup DeleteStep
VectorStep  == SyncStep \cup {"forget", "purge", "save"}

\* One thread acts: the startup, or then the handler that deletes.
OneActs ==
    /\ \A t \in Thread : at[t] # "idle" => t \in Pool \cup {"boot"}
    /\ ~Serving => \A t \in Pool : at[t] = "idle"
    /\ at["boot"] \in {"idle", "boot", "print"} \cup SyncStep
    /\ \A t \in Pool : at[t] # "idle" => at[t] \in HandlerStep /\ local[t].blocking = TRUE
    /\ \A t \in Thread : at[t] \in VectorStep => UseVector

\* Who serves a document that is gone is about to replace it, by chunks that
\* were loaded, or will be, without it.
NotServed ==
    /\ \A f \in deleted : disk[f] = 0
    /\ \A t \in Thread : at[t] = "replace" => \A f \in deleted : local[t].chunks[f] = 0
    /\ \A f \in deleted :
          chunks[f] # 0 => \E t \in Thread : /\ at[t] \in {"reload", "load", "replace"}
                                             /\ local[t].file = f

ServedInv == TypeOK /\ OneActs /\ NotServed

\* The actor is alone before and after its step.
LEMMA OnlyOne ==
    ASSUME OneDeletion, TypeOK, OneActs, NEW t \in Thread, NEW l, NEW v,
           Goto(t, l), Keep(t, v), at[t] # "idle" \/ (t \in Pool /\ Serving)
    PROVE  /\ at'[t] = l /\ local'[t] = v
           /\ \A u \in Thread : u # t => at[u] = "idle" /\ at'[u] = "idle"
<1>1. /\ at' = [at EXCEPT ![t] = l] /\ at \in [Thread -> Label] /\ "boot" \in Thread
      /\ local' = [local EXCEPT ![t] = v] /\ local \in [Thread -> Local]
  BY DEF Goto, Keep, TypeOK, ThreadsOK, Thread
<1>2. /\ at'[t] = l /\ local'[t] = v
      /\ \A u \in Thread : u # t => at'[u] = at[u]
  BY <1>1
<1>3. \A u \in Thread : u # t => at[u] = "idle"
  <2> SUFFICES ASSUME NEW u \in Thread, u # t, at[u] # "idle" PROVE FALSE
    OBVIOUS
  <2>1. u \in Pool \cup {"boot"} /\ t \in Pool \cup {"boot"}
    BY DEF OneActs
  <2>2. CASE u \in Pool /\ t \in Pool
    BY <2>2 DEF OneDeletion
  <2>3. CASE u = "boot" \/ t = "boot"
    <3>1. u = "boot" => ~Serving
      BY DEF Serving
    <3>2. t = "boot" /\ at[t] # "idle" => ~Serving
      BY DEF Serving
    <3>3. "boot" \notin Pool
      BY RagAssumption
    <3> QED BY <2>1, <2>3, <3>1, <3>2, <3>3 DEF OneActs
  <2> QED BY <2>1, <2>2, <2>3
<1> QED BY <1>2, <1>3

\* The actor moves where it may.
LEMMA ActsMove ==
    ASSUME OneDeletion, TypeOK, OneActs, NEW t \in Thread, NEW l, NEW v,
           Goto(t, l), Keep(t, v), at[t] # "idle" \/ (t \in Pool /\ Serving),
           t = "boot" => l \in {"idle", "boot", "print"} \cup SyncStep,
           t \in Pool /\ l # "idle" => l \in HandlerStep /\ v.blocking = TRUE,
           l \in VectorStep => UseVector
    PROVE  OneActs'
<1>1. /\ at'[t] = l /\ local'[t] = v
      /\ \A u \in Thread : u # t => at[u] = "idle" /\ at'[u] = "idle"
  BY OnlyOne
<1>2. t \in Pool \cup {"boot"} /\ "boot" \in Thread /\ "boot" \notin Pool /\ Pool \subseteq Thread
  BY RagAssumption DEF OneActs, Thread
<1>3. "idle" \notin VectorStep
  BY DEF VectorStep, SyncStep
<1>4. \A u \in Thread : at'[u] # "idle" => u = t
  BY <1>1
<1>5. /\ \A u \in Thread : at'[u] # "idle" => u \in Pool \cup {"boot"}
      /\ ~Serving' => \A u \in Pool : at'[u] = "idle"
  BY <1>2, <1>4 DEF Serving
<1>6. at'["boot"] \in {"idle", "boot", "print"} \cup SyncStep
  BY <1>1, <1>2
<1>7. \A u \in Pool : at'[u] # "idle" => at'[u] \in HandlerStep /\ local'[u].blocking = TRUE
  BY <1>1, <1>2, <1>4
<1>8. \A u \in Thread : at'[u] \in VectorStep => UseVector
  BY <1>1, <1>3, <1>4
<1> QED BY <1>5, <1>6, <1>7, <1>8 DEF OneActs, HandlerStep, VectorStep, SyncStep, DeleteStep

\* What a thread may serve until its reload is over: before its step...
LEMMA ServedBefore ==
    ASSUME ServedInv, NEW t \in Thread, \A u \in Thread : u # t => at[u] = "idle"
    PROVE  /\ \A f \in deleted : disk[f] = 0
           /\ at[t] = "replace" => \A f \in deleted : local[t].chunks[f] = 0
           /\ \A f \in deleted : chunks[f] # 0 =>
                  at[t] \in {"reload", "load", "replace"} /\ local[t].file = f
BY DEF ServedInv, NotServed

\* ... and after it.
LEMMA ServedAfter ==
    ASSUME NEW t \in Thread, \A u \in Thread : u # t => at'[u] = "idle",
           \A f \in deleted' : disk'[f] = 0,
           at'[t] = "replace" => \A f \in deleted' : local'[t].chunks[f] = 0,
           \A f \in deleted' : chunks'[f] # 0 =>
               at'[t] \in {"reload", "load", "replace"} /\ local'[t].file = f
    PROVE  NotServed'
<1>1. \A u \in Thread : at'[u] = "replace" => \A f \in deleted' : local'[u].chunks[f] = 0
  <2> SUFFICES ASSUME NEW u \in Thread, at'[u] = "replace"
               PROVE  \A f \in deleted' : local'[u].chunks[f] = 0
    OBVIOUS
  <2>1. u = t
    OBVIOUS
  <2> QED BY <2>1
<1> QED BY <1>1 DEF NotServed

\* A step that serves what it served, and does not begin or end a reload.
LEMMA ServedStays ==
    ASSUME OneDeletion, ServedInv, NEW t \in Thread, NEW l, NEW v, Goto(t, l), Keep(t, v),
           at[t] # "idle" \/ (t \in Pool /\ Serving),
           UNCHANGED <<disk, chunks, deleted>>,
           at[t] \notin {"reload", "load", "replace"}, l # "replace"
    PROVE  NotServed'
<1>1. /\ at'[t] = l
      /\ \A u \in Thread : u # t => at[u] = "idle" /\ at'[u] = "idle"
  BY OnlyOne DEF ServedInv
<1>2. /\ \A f \in deleted : disk[f] = 0
      /\ \A f \in deleted : chunks[f] = 0
  BY <1>1, ServedBefore
<1> QED BY <1>1, <1>2, ServedAfter

\* Handlers keep the file and the mode of their deletion in their locals.
LEMMA LocalsStay ==
    ASSUME TypeOK, NEW t \in Thread
    PROVE  /\ \A x : /\ [local[t] EXCEPT !.print = x].file = local[t].file
                     /\ [local[t] EXCEPT !.print = x].blocking = local[t].blocking
           /\ \A x : /\ [local[t] EXCEPT !.chunks = x].file = local[t].file
                     /\ [local[t] EXCEPT !.chunks = x].blocking = local[t].blocking
                     /\ [local[t] EXCEPT !.chunks = x].chunks = x
           /\ \A x : /\ [local[t] EXCEPT !.doomed = x].file = local[t].file
                     /\ [local[t] EXCEPT !.doomed = x].blocking = local[t].blocking
           /\ \A x : /\ [local[t] EXCEPT !.copy = x].file = local[t].file
                     /\ [local[t] EXCEPT !.copy = x].blocking = local[t].blocking
           /\ \A x, y : /\ [local[t] EXCEPT !.copy = x, !.doomed = y].file = local[t].file
                        /\ [local[t] EXCEPT !.copy = x, !.doomed = y].blocking = local[t].blocking
           /\ Keep(t, local[t]) <=> UNCHANGED local
<1>1. local \in [Thread -> Local] /\ local[t] \in Local
  BY DEF TypeOK, ThreadsOK
<1>2. Keep(t, local[t]) <=> UNCHANGED local
  <2>1. [local EXCEPT ![t] = local[t]] = local
    BY <1>1
  <2> QED BY <2>1 DEF Keep
<1> QED BY <1>1, <1>2 DEF Local

\* Who is busy with a reload or a deletion is the handler, in blocking mode.
LEMMA HandlerIsBusy ==
    ASSUME OneActs, NEW t \in Thread,
           at[t] \in {"reload", "load", "replace", "publish", "schedule"} \cup DeleteStep
    PROVE  /\ t \in Pool /\ t # "boot" /\ local[t].blocking = TRUE /\ at[t] \in HandlerStep
           /\ at[t] # "idle" /\ at[t] # "schedule"
<1>1. at[t] # "idle" /\ at[t] \notin {"boot", "print"} \cup SyncStep
  BY DEF DeleteStep, SyncStep
<1>2. t \in Pool
  BY <1>1 DEF OneActs
<1>3. t # "boot"
  BY <1>2, RagAssumption
<1> QED BY <1>1, <1>2, <1>3 DEF OneActs, HandlerStep, SyncStep, DeleteStep

\* Who syncs is the handler, in blocking mode, or the startup.
LEMMA SyncIsBusy ==
    ASSUME OneActs, NEW t \in Thread, at[t] \in SyncStep
    PROVE  /\ t \in Pool \cup {"boot"} /\ at[t] # "idle" /\ UseVector
           /\ t \in Pool => local[t].blocking = TRUE
<1>1. at[t] # "idle" /\ at[t] \in VectorStep
  BY DEF SyncStep, VectorStep
<1> QED BY <1>1 DEF OneActs

\* The reload of a deletion serves what is on disk after the removal.
LEMMA ReloadServed ==
    ASSUME OneDeletion, ServedInv, NEW t \in Thread,
           \/ TakeFingerprint(t) \/ LoadChunks(t) \/ ReplaceChunks(t) \/ Publish(t)
           \/ ScheduleSync(t)
    PROVE  OneActs' /\ NotServed'
<1>busy. /\ t \in Pool /\ t # "boot" /\ local[t].blocking = TRUE
         /\ at[t] \in {"reload", "load", "replace", "publish"}
  <2>1. at[t] \in {"reload", "load", "replace", "publish", "schedule"}
    BY DEF TakeFingerprint, LoadChunks, ReplaceChunks, Publish, ScheduleSync
  <2> QED BY <2>1, HandlerIsBusy DEF ServedInv
<1>types. TypeOK /\ OneActs
  BY DEF ServedInv
<1>labels. /\ {"reload", "load", "replace", "publish", "sync"} \subseteq HandlerStep
           /\ VectorStep \cap {"idle", "load", "replace", "publish"} = {}
  BY DEF HandlerStep, VectorStep, SyncStep
<1>1. CASE TakeFingerprint(t)
  <2> DEFINE v == [local[t] EXCEPT !.print = Fingerprint]
  <2>1. /\ at[t] = "reload" /\ Goto(t, "load") /\ Keep(t, v)
        /\ UNCHANGED <<disk, chunks, deleted>>
    BY <1>1 DEF TakeFingerprint, documents, index, store, history
  <2>2. v.file = local[t].file /\ v.blocking = TRUE
    BY <1>types, <1>busy, LocalsStay
  <2> HIDE DEF v
  <2>3. OneActs'
    BY <1>types, <1>busy, <1>labels, <2>1, <2>2, ActsMove
  <2>4. /\ at'[t] = "load" /\ local'[t] = v
        /\ \A u \in Thread : u # t => at[u] = "idle" /\ at'[u] = "idle"
    BY <1>types, <1>busy, <2>1, OnlyOne
  <2>5. /\ \A f \in deleted : disk[f] = 0
        /\ \A f \in deleted : chunks[f] # 0 => local[t].file = f
    BY <2>4, ServedBefore
  <2>6. NotServed'
    BY <2>1, <2>2, <2>4, <2>5, ServedAfter
  <2> QED BY <2>3, <2>6
<1>2. CASE LoadChunks(t)
  <2> DEFINE v == [local[t] EXCEPT !.chunks = disk]
  <2>1. /\ at[t] = "load" /\ Goto(t, "replace") /\ Keep(t, v)
        /\ UNCHANGED <<disk, chunks, deleted>>
    BY <1>2 DEF LoadChunks, documents, index, store, history
  <2>2. v.file = local[t].file /\ v.blocking = TRUE /\ v.chunks = disk
    BY <1>types, <1>busy, LocalsStay
  <2> HIDE DEF v
  <2>3. OneActs'
    BY <1>types, <1>busy, <1>labels, <2>1, <2>2, ActsMove
  <2>4. /\ at'[t] = "replace" /\ local'[t] = v
        /\ \A u \in Thread : u # t => at[u] = "idle" /\ at'[u] = "idle"
    BY <1>types, <1>busy, <2>1, OnlyOne
  <2>5. /\ \A f \in deleted : disk[f] = 0
        /\ \A f \in deleted : chunks[f] # 0 => local[t].file = f
    BY <2>4, ServedBefore
  <2>6. NotServed'
    BY <2>1, <2>2, <2>4, <2>5, ServedAfter
  <2> QED BY <2>3, <2>6
<1>3. CASE ReplaceChunks(t)
  <2> DEFINE v == [local[t] EXCEPT !.chunks = Empty]
  <2>1. /\ at[t] = "replace" /\ Goto(t, "publish") /\ Keep(t, v)
        /\ UNCHANGED <<disk, deleted>> /\ chunks' = local[t].chunks
    BY <1>3 DEF ReplaceChunks, documents, index, history
  <2>2. v.file = local[t].file /\ v.blocking = TRUE
    BY <1>types, <1>busy, LocalsStay
  <2> HIDE DEF v
  <2>3. OneActs'
    BY <1>types, <1>busy, <1>labels, <2>1, <2>2, ActsMove
  <2>4. /\ at'[t] = "publish" /\ local'[t] = v
        /\ \A u \in Thread : u # t => at[u] = "idle" /\ at'[u] = "idle"
    BY <1>types, <1>busy, <2>1, OnlyOne
  <2>5. \A f \in deleted : disk[f] = 0 /\ local[t].chunks[f] = 0
    BY <2>1, <2>4, ServedBefore
  <2>6. NotServed'
    BY <2>1, <2>4, <2>5, ServedAfter
  <2> QED BY <2>3, <2>6
<1>4. CASE Publish(t)
  <2>1. /\ at[t] = "publish" /\ Follow(t) /\ UNCHANGED <<disk, chunks, deleted>>
    BY <1>4 DEF Publish, documents, index, history
  <2>2. CASE ~UseVector
    <3>1. Goto(t, "idle") /\ Keep(t, Blank)
      BY <2>1, <2>2, Zenon DEF Follow, Return
    <3>2. OneActs'
      BY <1>types, <1>busy, <1>labels, <3>1, ActsMove
    <3>3. NotServed'
      BY <1>busy, <2>1, <3>1, ServedStays
    <3> QED BY <3>2, <3>3
  <2>3. CASE UseVector
    <3> DEFINE v == [local[t] EXCEPT !.print = Blank.print]
    <3>1. Goto(t, "sync") /\ Keep(t, v)
      BY <1>busy, <2>1, <2>3, Zenon DEF Follow
    <3>2. v.blocking = TRUE
      BY <1>types, <1>busy, LocalsStay
    <3> HIDE DEF v
    <3>3. OneActs'
      BY <1>types, <1>busy, <1>labels, <2>3, <3>1, <3>2, ActsMove
    <3>4. NotServed'
      BY <1>busy, <2>1, <3>1, ServedStays
    <3> QED BY <3>3, <3>4
  <2> QED BY <2>2, <2>3
<1>5. CASE ScheduleSync(t)
  BY <1>5, <1>busy DEF ScheduleSync
<1> QED BY <1>1, <1>2, <1>3, <1>4, <1>5

\* A sync, of the handler or of the startup, is out of view.
LEMMA SyncServed ==
    ASSUME OneDeletion, ServedInv, NEW t \in Thread,
           \/ SyncStart(t) \/ SyncDrop(t) \/ SyncUpsert(t) \/ SyncStamp(t) \/ SyncSave(t)
           \/ \E f \in File : SyncPick(t, f)
    PROVE  OneActs' /\ NotServed'
<1>1. /\ at[t] \in SyncStep /\ UNCHANGED <<disk, chunks, deleted>>
  BY DEF SyncStart, SyncDrop, SyncUpsert, SyncStamp, SyncSave, SyncPick,
         SyncStep, documents, index, store, history
<1>types. TypeOK /\ OneActs /\ local[t] \in Local /\ local \in [Thread -> Local]
  BY DEF ServedInv, TypeOK, ThreadsOK
<1>2. /\ t \in Pool \cup {"boot"} /\ at[t] # "idle" /\ UseVector
      /\ t \in Pool => local[t].blocking = TRUE
  BY <1>1, <1>types, SyncIsBusy
<1>3. /\ \/ \E l \in SyncStep : Goto(t, l)
         \/ GoOn(t)
      /\ \/ GoOn(t)
         \/ \E v : Keep(t, v) /\ v.blocking = local[t].blocking
  <2>1. CASE SyncStart(t)
    <3> DEFINE redone == ChangedFiles(manifest) \cup RemovedFiles(manifest)
               v == [local[t] EXCEPT !.copy = Without(manifest, redone),
                        !.doomed = Ids(manifest, redone), !.todo = ChangedFiles(manifest)]
    <3>1. GoOn(t) \/ (Goto(t, "drop") /\ Keep(t, v))
      BY <2>1, Zenon DEF SyncStart, Synced
    <3>2. v.blocking = local[t].blocking
      BY <1>types DEF Local
    <3>3. "drop" \in SyncStep
      BY DEF SyncStep
    <3> HIDE DEF v
    <3> QED BY <3>1, <3>2, <3>3
  <2>2. CASE SyncDrop(t)
    <3> DEFINE v == [local[t] EXCEPT !.doomed = {}]
    <3>1. Goto(t, "pick") /\ Keep(t, v)
      BY <2>2 DEF SyncDrop
    <3>2. v.blocking = local[t].blocking /\ "pick" \in SyncStep
      BY <1>types DEF Local, SyncStep
    <3> HIDE DEF v
    <3> QED BY <3>1, <3>2
  <2>3. CASE SyncUpsert(t)
    <3>1. Goto(t, "stamp") /\ Keep(t, local[t])
      BY <2>3, <1>types, LocalsStay DEF SyncUpsert
    <3>2. "stamp" \in SyncStep
      BY DEF SyncStep
    <3> QED BY <3>1, <3>2
  <2>4. CASE SyncStamp(t)
    <3> DEFINE f == local[t].source
               m == [local[t].copy EXCEPT ![f] = [stamp |-> disk[f], ids |-> local[t].text]]
               v == [local[t] EXCEPT !.copy = m, !.source = NoFile, !.text = 0]
    <3>1. Goto(t, "pick") /\ Keep(t, v)
      BY <2>4 DEF SyncStamp
    <3> HIDE DEF m
    <3>2. v.blocking = local[t].blocking /\ "pick" \in SyncStep
      BY <1>types DEF Local, SyncStep
    <3> HIDE DEF v
    <3> QED BY <3>1, <3>2
  <2>5. CASE SyncSave(t)
    BY <2>5 DEF SyncSave, Synced
  <2>6. ASSUME NEW f \in File, SyncPick(t, f)
        PROVE  /\ \E l \in SyncStep : Goto(t, l)
               /\ \E v : Keep(t, v) /\ v.blocking = local[t].blocking
    <3> DEFINE v == [local[t] EXCEPT !.todo = local[t].todo \ {f}]
               w == [local[t] EXCEPT !.todo = local[t].todo \ {f}, !.source = f, !.text = disk[f]]
    <3>1. \/ Goto(t, "pick") /\ Keep(t, v)
          \/ Goto(t, "upsert") /\ Keep(t, w)
      BY <2>6 DEF SyncPick
    <3>2. /\ v.blocking = local[t].blocking /\ w.blocking = local[t].blocking
          /\ {"pick", "upsert"} \subseteq SyncStep
      BY <1>types DEF Local, SyncStep
    <3> HIDE DEF v, w
    <3> QED BY <3>1, <3>2
  <2> QED BY <2>1, <2>2, <2>3, <2>4, <2>5, <2>6
<1>4. CASE GoOn(t)
  <2> DEFINE l == CASE t = "worker" -> "test" [] t = "boot" -> "print" [] OTHER -> "idle"
  <2>1. Goto(t, l) /\ Keep(t, Blank)
    BY <1>4 DEF GoOn
  <2>2. /\ t = "boot" => l = "print"
        /\ t \in Pool => l = "idle"
        /\ l \in {"print", "idle"}
    BY <1>2, RagAssumption
  <2> HIDE DEF l
  <2>3. l \notin VectorStep /\ l # "replace" /\ at[t] \notin {"reload", "load", "replace"}
    BY <1>1, <2>2 DEF VectorStep, SyncStep
  <2>4. OneActs'
    BY <1>types, <1>2, <2>1, <2>2, <2>3, ActsMove
  <2>5. NotServed'
    BY <1>1, <1>2, <2>1, <2>3, ServedStays
  <2> QED BY <2>4, <2>5
<1>5. ASSUME NEW l \in SyncStep, NEW v, Goto(t, l), Keep(t, v), v.blocking = local[t].blocking
      PROVE  OneActs' /\ NotServed'
  <2>1. l # "replace" /\ l \in HandlerStep /\ at[t] \notin {"reload", "load", "replace"}
    BY <1>1 DEF SyncStep, HandlerStep
  <2>2. OneActs'
    BY <1>types, <1>2, <1>5, <2>1, ActsMove
  <2>3. NotServed'
    BY <1>1, <1>2, <1>5, <2>1, ServedStays
  <2> QED BY <2>2, <2>3
<1> QED BY <1>3, <1>4, <1>5

\* A deletion serves the document until its reload, and nothing else that is gone.
LEMMA DeletionServed ==
    ASSUME OneDeletion, ServedInv, NEW t \in Thread,
           \/ ForgetEntry(t) \/ PurgeVectors(t) \/ SaveManifest(t) \/ UnlinkFile(t)
    PROVE  OneActs' /\ NotServed'
<1>busy. /\ t \in Pool /\ t # "boot" /\ local[t].blocking = TRUE
         /\ at[t] \in DeleteStep /\ at[t] # "idle"
  <2>1. at[t] \in DeleteStep
    BY DEF ForgetEntry, PurgeVectors, SaveManifest, UnlinkFile, DeleteStep
  <2> QED BY <2>1, HandlerIsBusy DEF ServedInv
<1>types. TypeOK /\ OneActs
  BY DEF ServedInv
<1>labels. /\ {"purge", "save", "unlink", "reload"} \subseteq HandlerStep
           /\ VectorStep \cap {"unlink", "reload"} = {}
           /\ at[t] \notin {"reload", "load", "replace"}
           /\ at[t] \in {"forget", "purge", "save"} => UseVector
  <2>1. at[t] \in {"forget", "purge", "save"} => at[t] \in VectorStep
    BY DEF VectorStep
  <2> QED BY <1>busy, <1>types, <2>1 DEF OneActs, HandlerStep, VectorStep, SyncStep, DeleteStep
<1>1. CASE ForgetEntry(t)
  <2> DEFINE v == [local[t] EXCEPT !.copy   = Without(manifest, {local[t].file}),
                                   !.doomed = Ids(manifest, {local[t].file})]
  <2>1. /\ at[t] = "forget" /\ Goto(t, "purge") /\ Keep(t, v)
        /\ UNCHANGED <<disk, chunks, deleted>>
    BY <1>1 DEF ForgetEntry, documents, index, store, history
  <2>2. v.blocking = TRUE
    BY <1>types, <1>busy, LocalsStay
  <2> HIDE DEF v
  <2>3. OneActs'
    BY <1>types, <1>busy, <1>labels, <2>1, <2>2, ActsMove
  <2>4. NotServed'
    BY <1>busy, <1>labels, <2>1, ServedStays
  <2> QED BY <2>3, <2>4
<1>2. CASE PurgeVectors(t)
  <2> DEFINE v == [local[t] EXCEPT !.doomed = {}]
  <2>1. /\ at[t] = "purge" /\ Goto(t, "save") /\ Keep(t, v)
        /\ UNCHANGED <<disk, chunks, deleted>>
    BY <1>2 DEF PurgeVectors, documents, index, store, history
  <2>2. v.blocking = TRUE
    BY <1>types, <1>busy, LocalsStay
  <2> HIDE DEF v
  <2>3. OneActs'
    BY <1>types, <1>busy, <1>labels, <2>1, <2>2, ActsMove
  <2>4. NotServed'
    BY <1>busy, <1>labels, <2>1, ServedStays
  <2> QED BY <2>3, <2>4
<1>3. CASE SaveManifest(t)
  <2> DEFINE v == [local[t] EXCEPT !.copy = Blank.copy]
  <2>1. /\ at[t] = "save" /\ Goto(t, "unlink") /\ Keep(t, v)
        /\ UNCHANGED <<disk, chunks, deleted>>
    BY <1>3 DEF SaveManifest, documents, index, store, history
  <2>2. v.blocking = TRUE
    BY <1>types, <1>busy, LocalsStay
  <2> HIDE DEF v
  <2>3. OneActs'
    BY <1>types, <1>busy, <1>labels, <2>1, <2>2, ActsMove
  <2>4. NotServed'
    BY <1>busy, <1>labels, <2>1, ServedStays
  <2> QED BY <2>3, <2>4
<1>4. CASE UnlinkFile(t)
  <2> DEFINE f == local[t].file
  <2>1. /\ at[t] = "unlink" /\ Goto(t, "reload") /\ Keep(t, local[t])
        /\ disk' = [disk EXCEPT ![f] = 0] /\ deleted' = deleted \cup {f}
        /\ UNCHANGED chunks
    BY <1>4, <1>types, LocalsStay DEF UnlinkFile, store
  <2>2. OneActs'
    BY <1>types, <1>busy, <1>labels, <2>1, ActsMove
  <2>3. /\ at'[t] = "reload" /\ local'[t] = local[t]
        /\ \A u \in Thread : u # t => at[u] = "idle" /\ at'[u] = "idle"
    BY <1>types, <1>busy, <2>1, OnlyOne
  <2>4. \A g \in deleted : disk[g] = 0 /\ chunks[g] = 0
    BY <1>labels, <2>3, ServedBefore
  <2>5. \A g \in deleted' : disk'[g] = 0
    <3>1. disk \in [File -> Version] /\ f \in File /\ deleted \subseteq File
      BY <1>types, <1>busy DEF TypeOK, ThreadsOK, Corpus
    <3> QED BY <2>1, <2>4, <3>1
  <2>6. NotServed'
    BY <2>1, <2>3, <2>4, <2>5, ServedAfter
  <2> QED BY <2>2, <2>6
<1> QED BY <1>1, <1>2, <1>3, <1>4

\* The startup serves what is on disk.
LEMMA BootServed ==
    ASSUME OneDeletion, ServedInv, NEW t \in Thread,
           \/ BootLoad(t) \/ BootFingerprint(t) \/ WorkerTest(t) \/ WorkerExit(t)
    PROVE  OneActs' /\ NotServed'
<1>types. TypeOK /\ OneActs
  BY DEF ServedInv
<1>1. CASE BootLoad(t)
  <2>1. /\ t = "boot" /\ at[t] = "boot" /\ chunks' = disk /\ Keep(t, local[t])
        /\ UNCHANGED <<disk, deleted>>
    BY <1>1, <1>types, LocalsStay DEF BootLoad, documents, index, history
  <2>2. PICK l \in {"sync", "print"} : Goto(t, l) /\ (l = "sync" => UseVector)
    BY <1>1, Zenon DEF BootLoad
  <2>3. /\ l \in {"print"} \cup SyncStep /\ t \notin Pool /\ l # "replace"
        /\ l \in VectorStep => UseVector
    BY <2>1, <2>2, RagAssumption DEF VectorStep, SyncStep
  <2>4. OneActs'
    BY <1>types, <2>1, <2>2, <2>3, ActsMove
  <2>5. /\ at'[t] = l
        /\ \A u \in Thread : u # t => at[u] = "idle" /\ at'[u] = "idle"
    BY <1>types, <2>1, <2>2, OnlyOne
  <2>6. \A f \in deleted : disk[f] = 0
    BY <2>5, ServedBefore
  <2>7. NotServed'
    BY <2>1, <2>3, <2>5, <2>6, ServedAfter
  <2> QED BY <2>4, <2>7
<1>2. CASE BootFingerprint(t)
  <2>1. /\ t = "boot" /\ at[t] = "print" /\ Goto(t, "idle") /\ Keep(t, local[t])
        /\ UNCHANGED <<disk, chunks, deleted>>
    BY <1>2, <1>types, LocalsStay DEF BootFingerprint, documents, index, history
  <2>2. t \notin Pool /\ "idle" \notin VectorStep
    BY <2>1, RagAssumption DEF VectorStep, SyncStep
  <2>3. OneActs'
    BY <1>types, <2>1, <2>2, ActsMove
  <2>4. NotServed'
    BY <2>1, ServedStays
  <2> QED BY <2>3, <2>4
<1>3. at["worker"] = "idle" /\ "worker" # "boot"
  <2>1. "worker" \in Thread /\ "worker" \notin Pool
    BY RagAssumption DEF Thread
  <2> QED BY <1>types, <2>1 DEF OneActs
<1> QED BY <1>1, <1>2, <1>3 DEF WorkerTest, WorkerExit

\* A reload that fails before it replaced the chunks answers with an error, and
\* the deletion promised nothing; a deletion that fails goes on or gives up.
LEMMA FailServed ==
    ASSUME OneDeletion, ServedInv, NEW t \in Thread, Fail(t)
    PROVE  OneActs' /\ NotServed'
<1>types. TypeOK /\ OneActs
  BY DEF ServedInv
<1>1. UNCHANGED <<disk, chunks>> /\ t # "boot"
  BY DEF Fail, documents
<1>idle. "idle" \notin VectorStep /\ "unlink" \notin VectorStep /\ "unlink" \in HandlerStep
  BY DEF VectorStep, SyncStep, HandlerStep, DeleteStep
<1>2. CASE at[t] \in {"load", "unlink"} /\ deleted' = deleted \ {local[t].file} /\ Return(t)
  <2>1. Goto(t, "idle") /\ Keep(t, Blank) /\ at[t] # "idle"
    BY <1>2 DEF Return
  <2>2. OneActs'
    BY <1>types, <1>1, <1>idle, <2>1, ActsMove
  <2>3. /\ at'[t] = "idle"
        /\ \A u \in Thread : u # t => at[u] = "idle" /\ at'[u] = "idle"
    BY <1>types, <2>1, OnlyOne
  <2>4. /\ \A f \in deleted : disk[f] = 0
        /\ \A f \in deleted : chunks[f] # 0 => local[t].file = f
    BY <2>3, ServedBefore
  <2>5. NotServed'
    BY <1>1, <1>2, <2>3, <2>4, ServedAfter
  <2> QED BY <2>2, <2>5
<1>3. CASE at[t] \in SyncStep /\ GoOn(t) /\ UNCHANGED deleted
  <2>1. t \in Pool /\ at[t] # "idle" /\ at[t] \notin {"reload", "load", "replace"}
    BY <1>1, <1>3, <1>types, SyncIsBusy DEF SyncStep
  <2>2. Goto(t, "idle") /\ Keep(t, Blank)
    BY <1>1, <1>3, <2>1, RagAssumption, Zenon DEF GoOn
  <2>3. OneActs'
    BY <1>types, <1>1, <1>idle, <2>1, <2>2, ActsMove
  <2>4. NotServed'
    BY <1>1, <1>3, <2>1, <2>2, ServedStays
  <2> QED BY <2>3, <2>4
<1>4. CASE /\ at[t] \in {"forget", "purge", "save"} /\ UNCHANGED deleted
           /\ Goto(t, "unlink")
           /\ Keep(t, [local[t] EXCEPT !.copy = Blank.copy, !.doomed = {}])
  <2> DEFINE v == [local[t] EXCEPT !.copy = Blank.copy, !.doomed = {}]
  <2>1. /\ at[t] # "idle" /\ at[t] \notin {"reload", "load", "replace"}
        /\ t \in Pool /\ local[t].blocking = TRUE
    BY <1>4, <1>types, HandlerIsBusy DEF DeleteStep
  <2>2. v.blocking = TRUE
    BY <1>types, <2>1, LocalsStay
  <2>3. Goto(t, "unlink") /\ Keep(t, v)
    BY <1>4
  <2> HIDE DEF v
  <2>4. OneActs'
    BY <1>types, <1>1, <1>idle, <2>1, <2>2, <2>3, ActsMove
  <2>5. NotServed'
    BY <1>1, <1>4, <2>1, <2>3, ServedStays
  <2> QED BY <2>4, <2>5
<1> QED BY <1>2, <1>3, <1>4 DEF Fail

\* A crash forgets what was served.
LEMMA CrashServed ==
    ASSUME ServedInv, Crash
    PROVE  OneActs' /\ NotServed'
<1>1. /\ at' = [t \in Thread |-> IF t = "boot" THEN "boot" ELSE "idle"]
      /\ chunks' = Empty /\ UNCHANGED <<disk, deleted>>
  BY DEF Crash, documents
<1>2. /\ "boot" \in Thread /\ "boot" \notin Pool /\ Pool \subseteq Thread
  BY RagAssumption DEF Thread
<1>3. /\ at'["boot"] = "boot"
      /\ \A t \in Thread : t # "boot" => at'[t] = "idle"
  BY <1>1, <1>2
<1>4. OneActs'
  <2>1. \A t \in Thread : at'[t] \notin VectorStep
    BY <1>3 DEF VectorStep, SyncStep
  <2> QED BY <1>2, <1>3, <2>1 DEF OneActs, VectorStep, SyncStep
<1>5. NotServed'
  <2>1. \A f \in deleted' : chunks'[f] = 0 /\ disk'[f] = 0
    BY <1>1 DEF ServedInv, TypeOK, NotServed, Empty
  <2> QED BY <1>2, <1>3, <2>1, ServedAfter
<1> QED BY <1>4, <1>5

\* A document that is written is not one that was deleted; a deletion begins
\* while no reload is under way.
LEMMA ClientServed ==
    ASSUME OneDeletion, ServedInv,
           \/ \E f \in File : EditFile(f) \/ Upload(f)
           \/ \E p \in Pool : ReloadRequest(p) \/ \E f \in File : DeleteRequest(p, f)
    PROVE  OneActs' /\ NotServed'
<1>types. TypeOK /\ OneActs
  BY DEF ServedInv
<1>1. ASSUME NEW f \in File, EditFile(f) PROVE OneActs' /\ NotServed'
  <2>1. PICK v : disk' = [disk EXCEPT ![f] = v] /\ deleted' = deleted \ {f}
    BY <1>1 DEF EditFile, Write
  <2>2. UNCHANGED <<at, local, chunks>>
    BY <1>1 DEF EditFile, store
  <2>3. OneActs'
    BY <1>types, <2>2 DEF OneActs, Serving, SyncStep, HandlerStep, VectorStep, DeleteStep
  <2>4. \A g \in deleted' : disk'[g] = 0
    <3>1. \A g \in deleted : disk[g] = 0 /\ g \in File
      BY DEF ServedInv, TypeOK, NotServed
    <3>2. disk \in [File -> Version]
      BY <1>types DEF TypeOK, Corpus
    <3> QED BY <2>1, <3>1, <3>2
  <2>5. NotServed'
    BY <2>1, <2>2, <2>4 DEF ServedInv, NotServed
  <2> QED BY <2>3, <2>5
<1>2. ASSUME NEW f \in File, Upload(f) PROVE FALSE
  BY <1>2 DEF Upload, OneDeletion
<1>3. ASSUME NEW p \in Pool, ReloadRequest(p) PROVE FALSE
  BY <1>3 DEF ReloadRequest, OneDeletion
<1>4. ASSUME NEW p \in Pool, NEW f \in File, DeleteRequest(p, f) PROVE OneActs' /\ NotServed'
  <2> DEFINE v == [local[p] EXCEPT !.file = f, !.blocking = TRUE]
             l == IF UseVector THEN "forget" ELSE "unlink"
  <2>1. /\ at[p] = "idle" /\ Serving /\ Goto(p, l) /\ Keep(p, v)
        /\ UNCHANGED <<disk, chunks, deleted>>
    BY <1>4 DEF DeleteRequest, store, history
  <2>2. p \in Thread /\ p # "boot" /\ local[p] \in Local
    BY <1>types, RagAssumption DEF Thread, TypeOK, ThreadsOK
  <2>3. v.blocking = TRUE
    BY <2>2 DEF Local
  <2>4. /\ l \in HandlerStep /\ (l \in VectorStep => UseVector) /\ l # "replace"
    BY DEF HandlerStep, VectorStep, SyncStep, DeleteStep
  <2> HIDE DEF v, l
  <2>5. OneActs'
    BY <1>types, <2>1, <2>2, <2>3, <2>4, ActsMove
  <2>6. NotServed'
    BY <2>1, <2>2, <2>4, ServedStays
  <2> QED BY <2>5, <2>6
<1> QED BY <1>1, <1>2, <1>3, <1>4

\* Every step keeps the invariant.
LEMMA ServedNext == OneDeletion /\ ServedInv /\ [Next]_vars => ServedInv'
<1> SUFFICES ASSUME OneDeletion, ServedInv, [Next]_vars PROVE ServedInv'
  OBVIOUS
<1>1. TypeOK'
  BY TypeNext DEF ServedInv
<1>2. OneActs' /\ NotServed'
  <2>1. CASE UNCHANGED vars
    BY <2>1 DEF vars, ServedInv, OneActs, NotServed, Serving, SyncStep, HandlerStep,
                VectorStep, DeleteStep
  <2>2. CASE \/ \E f \in File : EditFile(f) \/ Upload(f)
             \/ \E p \in Pool : ReloadRequest(p) \/ \E f \in File : DeleteRequest(p, f)
    BY <2>2, ClientServed
  <2>3. ASSUME NEW t \in Thread, Step(t) PROVE OneActs' /\ NotServed'
    <3>1. ~WatchCheck(t)
      BY DEF WatchCheck, OneDeletion
    <3> QED BY <2>3, <3>1, ReloadServed, SyncServed, DeletionServed, BootServed DEF Step
  <2>4. ASSUME NEW t \in Thread, Fail(t) PROVE OneActs' /\ NotServed'
    BY <2>4, FailServed
  <2>5. CASE Crash
    BY <2>5, CrashServed
  <2> QED BY <2>1, <2>2, <2>3, <2>4, <2>5 DEF Next
<1> QED BY <1>1, <1>2 DEF ServedInv

\* Nothing was deleted yet.
LEMMA ServedInit == Init => ServedInv
<1> SUFFICES ASSUME Init PROVE ServedInv
  OBVIOUS
<1>1. /\ deleted = {} /\ "boot" \in Thread /\ "boot" \notin Pool /\ Pool \subseteq Thread
      /\ at["boot"] = "boot" /\ \A t \in Thread : t # "boot" => at[t] = "idle"
  BY RagAssumption DEF Init, Thread
<1>2. \A t \in Thread : at[t] \notin VectorStep
  BY <1>1 DEF VectorStep, SyncStep
<1>3. OneActs
  BY <1>1, <1>2 DEF OneActs
<1>4. NotServed
  BY <1>1 DEF NotServed
<1> QED BY <1>3, <1>4, TypeInit DEF ServedInv

\* While deletions come one after another and nobody else reloads, a document
\* that delete_rag_document removed is not served once its reload is over, whatever
\* is edited meanwhile, fails or is restarted: the file is unlinked before the
\* reload loads the chunks.
THEOREM DeletedStopsBeingServed == ASSUME OneDeletion PROVE Spec => []DeletedIsNotServed
<1>1. ServedInv => DeletedIsNotServed
  <2> SUFFICES ASSUME ServedInv, Reloading = {}, NEW f \in deleted, chunks[f] # 0
               PROVE  FALSE
    BY DEF DeletedIsNotServed
  <2>1. PICK t \in Thread : at[t] \in {"reload", "load", "replace"}
    BY DEF ServedInv, NotServed
  <2>2. t \in Reloading
    BY <2>1 DEF Reloading, ReloadStep
  <2> QED BY <2>2
<1>2. ServedInv /\ [Next]_vars => ServedInv'
  BY ServedNext
<1> QED BY ServedInit, <1>1, <1>2, PTL DEF Spec

\* What a sync or a deletion has in hand while nothing failed: every row is one of
\* an entry of the copy it will save, or is about to go, or to get its entry; a
\* file being embedded is there; and the rows of the file to delete are gone before
\* the manifest that names them.
DeletionHolds(t) ==
    /\ at[t] \in Midway => \A f \in local[t].todo : f \notin Listed(local[t].copy)
    /\ at[t] \in {"upsert", "stamp"} =>
           /\ local[t].text # 0
           /\ local[t].source \notin deleted
           /\ local[t].source \notin local[t].todo
           /\ local[t].source \notin Listed(local[t].copy)
    /\ at[t] \in Midway => \A row \in vectors :
           \/ Owns(local[t].copy, row)
           \/ at[t] = "drop" /\ row \in local[t].doomed
           \/ at[t] = "stamp" /\ row = <<local[t].source, local[t].text>>
    /\ at[t] = "purge" =>
           /\ local[t].copy = Without(manifest, {local[t].file})
           /\ \A row \in vectors : /\ Owns(manifest, row)
                                   /\ row[1] = local[t].file => row \in local[t].doomed
    /\ at[t] = "save" => \A row \in vectors :
           Owns(local[t].copy, row) /\ row[1] # local[t].file
    /\ at[t] = "unlink" => \A row \in vectors : row[1] # local[t].file

\* The steps at which the manifest on disk may name other rows than there are.
Apart == Midway \cup {"purge", "save"}

\* No row of a document that was deleted is left, and between syncs and
\* deletions the manifest names every row.
NoRowsLeft ==
    /\ \A row \in vectors : row[2] # 0 /\ row[1] \notin deleted
    /\ (\A t \in Thread : at[t] \notin Apart) => \A row \in vectors : Owns(manifest, row)
    /\ \A t \in Thread : DeletionHolds(t)
    /\ ~UseVector => vectors = {}

DeletionInv == ServedInv /\ (NothingFailed => NoRowsLeft)

\* What the actor knows before its step...
LEMMA RowsBefore ==
    ASSUME NoRowsLeft, NEW t \in Thread, \A u \in Thread : u # t => at[u] = "idle",
           at[t] \notin Apart
    PROVE  \A row \in vectors : Owns(manifest, row)
<1>1. \A u \in Thread : at[u] \notin Apart
  BY DEF Apart, Midway
<1> QED BY <1>1 DEF NoRowsLeft

\* ... and has to show after it.
LEMMA RowsAfter ==
    ASSUME NEW t \in Thread, \A u \in Thread : u # t => at'[u] = "idle",
           \A row \in vectors' : row[2] # 0 /\ row[1] \notin deleted',
           at'[t] \notin Apart => \A row \in vectors' : Owns(manifest, row)',
           DeletionHolds(t)',
           ~UseVector => vectors' = {}
    PROVE  NoRowsLeft'
<1>1. \A u \in Thread : at'[u] = "idle" => DeletionHolds(u)'
  BY DEF DeletionHolds, Midway
<1>2. \A u \in Thread : DeletionHolds(u)'
  <2> SUFFICES ASSUME NEW u \in Thread PROVE DeletionHolds(u)'
    OBVIOUS
  <2>1. CASE u = t
    BY <2>1
  <2>2. CASE u # t
    BY <1>1, <2>2
  <2> QED BY <2>1, <2>2
<1>3. ((\A u \in Thread : at[u] \notin Apart) => \A row \in vectors : Owns(manifest, row))'
  <2> SUFFICES ASSUME (\A u \in Thread : at[u] \notin Apart)'
               PROVE  (\A row \in vectors : Owns(manifest, row))'
    OBVIOUS
  <2>1. at'[t] \notin Apart
    BY DEF Apart, Midway
  <2> QED BY <2>1 DEF Owns
<1> QED BY <1>2, <1>3 DEF NoRowsLeft

\* A step that leaves the index and the deleted documents alone, outside a sync.
LEMMA RowsStay ==
    ASSUME OneDeletion, ServedInv, NoRowsLeft, NEW t \in Thread, NEW l, NEW v,
           Goto(t, l), Keep(t, v), at[t] # "idle" \/ (t \in Pool /\ Serving),
           UNCHANGED <<manifest, vectors, deleted>>,
           at[t] \notin Apart, l \notin Apart, l = "unlink" => ~UseVector
    PROVE  NoRowsLeft'
<1>1. /\ at'[t] = l
      /\ \A u \in Thread : u # t => at[u] = "idle" /\ at'[u] = "idle"
  BY OnlyOne DEF ServedInv
<1>2. \A row \in vectors : row[2] # 0 /\ row[1] \notin deleted
  BY DEF NoRowsLeft
<1>3. \A row \in vectors' : Owns(manifest, row)'
  BY <1>1, RowsBefore DEF Owns
<1>4. ~UseVector => vectors' = {}
  BY DEF NoRowsLeft
<1>5. DeletionHolds(t)'
  <2>1. l \notin Midway /\ l \notin {"upsert", "stamp", "purge", "save"}
    BY DEF Apart, Midway
  <2> QED BY <1>1, <1>4, <2>1 DEF DeletionHolds, Midway
<1> QED BY <1>1, <1>2, <1>3, <1>4, <1>5, RowsAfter

\* Labels, with respect to the index.
LEMMA ApartLabels ==
    /\ \A l \in {"idle", "reload", "load", "replace", "publish", "schedule", "sync",
                 "test", "exiting", "boot", "print", "forget", "unlink"} : l \notin Apart
    /\ \A l \in {"drop", "pick", "upsert", "stamp"} :
           l \in Apart /\ l \in Midway /\ l \in SyncStep
    /\ {"purge", "save"} \cap Midway = {} /\ {"purge", "save"} \subseteq Apart
BY DEF Apart, Midway, SyncStep

\* A reload, and the startup before and after its sync, leave the index alone.
LEMMA ReloadLeavesRows ==
    ASSUME OneDeletion, ServedInv, NoRowsLeft, NEW t \in Thread,
           \/ TakeFingerprint(t) \/ LoadChunks(t) \/ ReplaceChunks(t) \/ Publish(t)
           \/ BootLoad(t) \/ BootFingerprint(t)
    PROVE  NoRowsLeft'
<1>1. /\ at[t] \in {"reload", "load", "replace", "publish", "boot", "print"}
      /\ UNCHANGED <<manifest, vectors, deleted>>
  BY DEF TakeFingerprint, LoadChunks, ReplaceChunks, Publish, BootLoad, BootFingerprint,
         documents, index, history
<1>2. \E v : Keep(t, v)
  <2>1. UNCHANGED local \/ \E v : Keep(t, v)
    BY Zenon DEF TakeFingerprint, LoadChunks, ReplaceChunks, Publish, Follow, Return,
                 BootLoad, BootFingerprint
  <2>2. UNCHANGED local => Keep(t, local[t])
    BY LocalsStay DEF ServedInv
  <2> QED BY <2>1, <2>2
<1>3. \E l \in {"idle", "load", "replace", "publish", "schedule", "sync", "print"} : Goto(t, l)
  BY Zenon DEF TakeFingerprint, LoadChunks, ReplaceChunks, Publish, Follow, Return,
               BootLoad, BootFingerprint
<1>4. at[t] \notin Apart /\ at[t] # "idle"
  BY <1>1, ApartLabels
<1> QED BY <1>1, <1>2, <1>3, <1>4, ApartLabels, RowsStay

\* A sync that begins drops the rows of the entries it drops; one with nothing to
\* do leaves the index alone.
LEMMA SyncStartLeavesRows ==
    ASSUME OneDeletion, ServedInv, NoRowsLeft, NEW t \in Thread, SyncStart(t)
    PROVE  NoRowsLeft'
<1> DEFINE changed == ChangedFiles(manifest)
           redone  == changed \cup RemovedFiles(manifest)
           v == [local[t] EXCEPT !.copy = Without(manifest, redone),
                                 !.doomed = Ids(manifest, redone), !.todo = changed]
<1>1. /\ at[t] = "sync" /\ UNCHANGED <<manifest, vectors, deleted>>
  BY DEF SyncStart, index, history
<1>2. at[t] \notin Apart /\ at[t] # "idle"
  BY <1>1, ApartLabels
<1>3. CASE GoOn(t)
  <2>1. PICK l \in {"test", "print", "idle"} : Goto(t, l) /\ Keep(t, Blank)
    BY <1>3, Zenon DEF GoOn
  <2> QED BY <1>1, <1>2, <2>1, ApartLabels, RowsStay
<1>4. CASE Goto(t, "drop") /\ Keep(t, v)
  <2>types. /\ manifest \in [File -> Entry] /\ local[t] \in Local
            /\ vectors \subseteq File \X Version
    BY IndexTypes DEF ServedInv
  <2>1. /\ v.copy = Without(manifest, redone) /\ v.doomed = Ids(manifest, redone)
        /\ v.todo = changed
    BY <2>types DEF Local
  <2>2. /\ at'[t] = "drop" /\ local'[t] = v
        /\ \A u \in Thread : u # t => at[u] = "idle" /\ at'[u] = "idle"
    BY <1>2, <1>4, OnlyOne DEF ServedInv
  <2> HIDE DEF v
  <2>3. /\ \A row \in vectors : row[2] # 0 /\ row[1] \notin deleted
        /\ ~UseVector => vectors = {}
    BY DEF NoRowsLeft
  <2>4. \A row \in vectors : Owns(manifest, row)
    BY <1>2, <2>2, RowsBefore
  <2>5. \A row \in vectors : Owns(v.copy, row) \/ row \in v.doomed
    <3> SUFFICES ASSUME NEW row \in vectors PROVE Owns(v.copy, row) \/ row \in v.doomed
      OBVIOUS
    <3>1. row = <<row[1], row[2]>> /\ row[1] \in File
      BY <2>types
    <3>2. manifest[row[1]].ids = row[2] /\ row[2] # 0
      BY <2>3, <2>4 DEF Owns
    <3>3. row[1] \in Listed(manifest)
      BY <3>1, <3>2 DEF Listed
    <3> HIDE DEF redone
    <3>4. CASE row[1] \in redone
      BY <2>1, <3>1, <3>2, <3>3, <3>4 DEF Ids
    <3>5. CASE row[1] \notin redone
      <4>1. v.copy[row[1]] = manifest[row[1]]
        BY <2>1, <3>1, <3>5 DEF Without
      <4> QED BY <3>2, <4>1 DEF Owns
    <3> QED BY <3>4, <3>5
  <2>6. \A f \in v.todo : f \notin Listed(v.copy)
    <3>1. NoEntry.ids = 0
      BY DEF NoEntry
    <3>2. v.todo \subseteq redone
      BY <2>1
    <3> HIDE DEF redone
    <3> QED BY <2>1, <3>1, <3>2 DEF Listed, Without
  <2>7. DeletionHolds(t)'
    BY <1>1, <2>2, <2>5, <2>6 DEF DeletionHolds, Listed, Owns
  <2>8. at'[t] \in Apart
    BY <2>2, ApartLabels
  <2> QED BY <1>1, <2>2, <2>3, <2>7, <2>8, RowsAfter
<1>5. GoOn(t) \/ (Goto(t, "drop") /\ Keep(t, v))
  BY Zenon DEF SyncStart, Synced
<1> QED BY <1>3, <1>4, <1>5

\* The rows that go had no entry in the copy.
LEMMA SyncDropLeavesRows ==
    ASSUME OneDeletion, ServedInv, NoRowsLeft, NEW t \in Thread, SyncDrop(t)
    PROVE  NoRowsLeft'
<1> DEFINE v == [local[t] EXCEPT !.doomed = {}]
<1>1. /\ at[t] = "drop" /\ Goto(t, "pick") /\ Keep(t, v)
      /\ vectors' = vectors \ local[t].doomed /\ UNCHANGED <<manifest, deleted>>
  BY DEF SyncDrop, history
<1>2. at[t] \in Midway /\ "pick" \in Apart
  BY <1>1, ApartLabels
<1>3. /\ v.copy = local[t].copy /\ v.todo = local[t].todo
  BY IndexTypes DEF ServedInv, Local
<1> HIDE DEF v
<1>4. /\ at'[t] = "pick" /\ local'[t] = v
      /\ \A u \in Thread : u # t => at'[u] = "idle"
  BY <1>1, OnlyOne DEF ServedInv
<1>5. DeletionHolds(t)
  BY DEF NoRowsLeft
<1>6. DeletionHolds(t)'
  BY <1>1, <1>2, <1>3, <1>4, <1>5 DEF DeletionHolds, Listed, Owns
<1>7. /\ \A row \in vectors' : row[2] # 0 /\ row[1] \notin deleted
      /\ ~UseVector => vectors' = {}
  BY <1>1 DEF NoRowsLeft
<1> QED BY <1>1, <1>2, <1>4, <1>6, <1>7, RowsAfter

\* A file that is picked is there, hence not one that was deleted.
LEMMA SyncPickLeavesRows ==
    ASSUME OneDeletion, ServedInv, NoRowsLeft, NEW t \in Thread, NEW f \in File, SyncPick(t, f)
    PROVE  NoRowsLeft'
<1>1. /\ at[t] = "pick" /\ f \in local[t].todo
      /\ UNCHANGED <<disk, manifest, vectors, deleted>>
  BY DEF SyncPick, documents, index, history
<1>2. /\ at[t] \in Midway /\ "pick" \in Apart /\ "upsert" \in Apart
  BY <1>1, ApartLabels
<1>3. DeletionHolds(t) /\ local[t] \in Local
  BY IndexTypes DEF NoRowsLeft, ServedInv
<1>4. /\ \A row \in vectors' : row[2] # 0 /\ row[1] \notin deleted'
      /\ ~UseVector => vectors' = {}
  BY <1>1 DEF NoRowsLeft
<1>5. CASE disk[f] = 0
  <2> DEFINE v == [local[t] EXCEPT !.todo = local[t].todo \ {f}]
  <2>1. Goto(t, "pick") /\ Keep(t, v)
    BY <1>5 DEF SyncPick
  <2>2. /\ v.copy = local[t].copy /\ v.todo = local[t].todo \ {f}
    BY <1>3 DEF Local
  <2> HIDE DEF v
  <2>3. /\ at'[t] = "pick" /\ local'[t] = v
        /\ \A u \in Thread : u # t => at'[u] = "idle"
    BY <1>1, <2>1, OnlyOne DEF ServedInv
  <2>4. DeletionHolds(t)'
    BY <1>1, <1>2, <1>3, <2>2, <2>3 DEF DeletionHolds, Listed, Owns
  <2> QED BY <1>2, <1>4, <2>3, <2>4, RowsAfter
<1>6. CASE disk[f] # 0
  <2> DEFINE v == [local[t] EXCEPT !.todo = local[t].todo \ {f}, !.source = f, !.text = disk[f]]
  <2>1. Goto(t, "upsert") /\ Keep(t, v)
    BY <1>6 DEF SyncPick
  <2>2. /\ v.copy = local[t].copy /\ v.todo = local[t].todo \ {f}
        /\ v.source = f /\ v.text = disk[f]
    BY <1>3 DEF Local
  <2> HIDE DEF v
  <2>3. /\ at'[t] = "upsert" /\ local'[t] = v
        /\ \A u \in Thread : u # t => at'[u] = "idle"
    BY <1>1, <2>1, OnlyOne DEF ServedInv
  <2>4. f \notin Listed(local[t].copy) /\ f \notin deleted
    BY <1>1, <1>2, <1>3, <1>6 DEF DeletionHolds, ServedInv, NotServed
  <2>5. DeletionHolds(t)'
    BY <1>1, <1>2, <1>3, <1>6, <2>2, <2>3, <2>4 DEF DeletionHolds, Listed, Owns
  <2> QED BY <1>2, <1>4, <2>3, <2>5, RowsAfter
<1> QED BY <1>5, <1>6

\* The rows of a file that is there are about to get their entry.
LEMMA SyncUpsertLeavesRows ==
    ASSUME OneDeletion, ServedInv, NoRowsLeft, NEW t \in Thread, SyncUpsert(t)
    PROVE  NoRowsLeft'
<1>1. /\ at[t] = "upsert" /\ Goto(t, "stamp") /\ UNCHANGED local
      /\ vectors' = vectors \cup {<<local[t].source, local[t].text>>}
      /\ UNCHANGED <<manifest, deleted>>
  BY DEF SyncUpsert, history
<1>2. at[t] \in Midway /\ "stamp" \in Apart /\ at[t] \in SyncStep
  BY <1>1, ApartLabels
<1>3. UseVector /\ Keep(t, local[t])
  BY <1>1, <1>2, SyncIsBusy, LocalsStay DEF ServedInv
<1>4. /\ at'[t] = "stamp" /\ local'[t] = local[t]
      /\ \A u \in Thread : u # t => at'[u] = "idle"
  BY <1>1, <1>3, OnlyOne DEF ServedInv
<1>5. DeletionHolds(t)
  BY DEF NoRowsLeft
<1>6. DeletionHolds(t)'
  BY <1>1, <1>2, <1>4, <1>5 DEF DeletionHolds, Listed, Owns
<1>7. \A row \in vectors' : row[2] # 0 /\ row[1] \notin deleted'
  <2>1. local[t].text # 0 /\ local[t].source \notin deleted
    BY <1>1, <1>5 DEF DeletionHolds
  <2> QED BY <1>1, <2>1 DEF NoRowsLeft
<1> QED BY <1>2, <1>3, <1>4, <1>6, <1>7, RowsAfter

\* The entry takes in the rows of its file.
LEMMA SyncStampLeavesRows ==
    ASSUME OneDeletion, ServedInv, NoRowsLeft, NEW t \in Thread, SyncStamp(t)
    PROVE  NoRowsLeft'
<1> DEFINE f == local[t].source
           e == [stamp |-> disk[f], ids |-> local[t].text]
           m == [local[t].copy EXCEPT ![f] = e]
           v == [local[t] EXCEPT !.copy = m, !.source = NoFile, !.text = 0]
<1>1. /\ at[t] = "stamp" /\ Goto(t, "pick") /\ Keep(t, v)
      /\ UNCHANGED <<manifest, vectors, deleted>>
  BY DEF SyncStamp, index, history
<1>2. at[t] \in Midway /\ "pick" \in Apart
  BY <1>1, ApartLabels
<1>types. /\ f \in File /\ local[t].copy \in [File -> Entry] /\ local[t] \in Local
          /\ vectors \subseteq File \X Version
  BY <1>1, IndexTypes DEF ServedInv
<1>3. /\ m[f] = e /\ \A g \in File : g # f => m[g] = local[t].copy[g]
  BY <1>types
<1> HIDE DEF m
<1>4. v.copy = m /\ v.todo = local[t].todo
  BY <1>types DEF Local
<1> HIDE DEF v
<1>5. /\ at'[t] = "pick" /\ local'[t] = v
      /\ \A u \in Thread : u # t => at'[u] = "idle"
  BY <1>1, OnlyOne DEF ServedInv
<1>6. DeletionHolds(t)
  BY DEF NoRowsLeft
<1>7. /\ f \notin local[t].todo /\ local[t].text # 0 /\ local[t].copy[f].ids = 0
  BY <1>1, <1>6, <1>types DEF DeletionHolds, Listed
<1>8. \A g \in local[t].todo : g \notin Listed(m)
  BY <1>1, <1>2, <1>3, <1>6, <1>7 DEF DeletionHolds, Listed
<1>9. \A row \in vectors : Owns(m, row)
  <2> SUFFICES ASSUME NEW row \in vectors PROVE m[row[1]].ids = row[2]
    BY DEF Owns
  <2>1. CASE row = <<f, local[t].text>>
    BY <1>3, <2>1
  <2>2. CASE row # <<f, local[t].text>>
    <3>1. local[t].copy[row[1]].ids = row[2]
      BY <1>1, <1>2, <1>6, <2>2 DEF DeletionHolds, Owns
    <3>2. row[2] # 0 /\ row[1] \in File
      BY <1>types DEF NoRowsLeft
    <3> QED BY <1>3, <1>7, <3>1, <3>2
  <2> QED BY <2>1, <2>2
<1>10. DeletionHolds(t)'
  BY <1>1, <1>4, <1>5, <1>8, <1>9 DEF DeletionHolds, Listed, Owns
<1>11. /\ \A row \in vectors' : row[2] # 0 /\ row[1] \notin deleted'
       /\ ~UseVector => vectors' = {}
  BY <1>1 DEF NoRowsLeft
<1> QED BY <1>2, <1>5, <1>10, <1>11, RowsAfter

\* The manifest that is saved names every row.
LEMMA SyncSaveLeavesRows ==
    ASSUME OneDeletion, ServedInv, NoRowsLeft, NEW t \in Thread, SyncSave(t)
    PROVE  NoRowsLeft'
<1>1. /\ at[t] = "pick" /\ GoOn(t) /\ manifest' = local[t].copy
      /\ UNCHANGED <<vectors, deleted>>
  BY DEF SyncSave, Synced, history
<1>2. PICK l \in {"test", "print", "idle"} : Goto(t, l) /\ Keep(t, Blank)
  BY <1>1, Zenon DEF GoOn
<1>3. /\ at'[t] = l
      /\ \A u \in Thread : u # t => at'[u] = "idle"
  BY <1>1, <1>2, OnlyOne DEF ServedInv
<1>4. at[t] \in Midway /\ l \notin Apart
  BY <1>1, ApartLabels
<1>5. \A row \in vectors' : Owns(manifest, row)'
  <2>1. DeletionHolds(t)
    BY DEF NoRowsLeft
  <2> QED BY <1>1, <1>4, <2>1 DEF DeletionHolds, Owns
<1>6. DeletionHolds(t)'
  BY <1>3 DEF DeletionHolds, Midway
<1>7. /\ \A row \in vectors' : row[2] # 0 /\ row[1] \notin deleted'
      /\ ~UseVector => vectors' = {}
  BY <1>1 DEF NoRowsLeft
<1> QED BY <1>3, <1>5, <1>6, <1>7, RowsAfter

\* delete_vector_chunks deletes the rows of the file before its entry, and both
\* before the file goes.
LEMMA DeletionLeavesRows ==
    ASSUME OneDeletion, ServedInv, NoRowsLeft, NEW t \in Thread,
           \/ ForgetEntry(t) \/ PurgeVectors(t) \/ SaveManifest(t) \/ UnlinkFile(t)
    PROVE  NoRowsLeft'
<1>types. /\ manifest \in [File -> Entry] /\ local[t] \in Local
          /\ vectors \subseteq File \X Version /\ TypeOK /\ OneActs
  BY IndexTypes DEF ServedInv
<1>rows. /\ \A row \in vectors : row[2] # 0 /\ row[1] \notin deleted
         /\ ~UseVector => vectors = {}
         /\ DeletionHolds(t)
  BY DEF NoRowsLeft
<1>1. CASE ForgetEntry(t)
  <2> DEFINE f == local[t].file
             v == [local[t] EXCEPT !.copy = Without(manifest, {f}), !.doomed = Ids(manifest, {f})]
  <2>1. /\ at[t] = "forget" /\ Goto(t, "purge") /\ Keep(t, v)
        /\ UNCHANGED <<manifest, vectors, deleted>>
    BY <1>1 DEF ForgetEntry, index, history
  <2>2. v.copy = Without(manifest, {f}) /\ v.doomed = Ids(manifest, {f}) /\ v.file = f
    BY <1>types DEF Local
  <2> HIDE DEF v
  <2>3. /\ at'[t] = "purge" /\ local'[t] = v
        /\ \A u \in Thread : u # t => at[u] = "idle" /\ at'[u] = "idle"
    BY <1>types, <2>1, OnlyOne
  <2>4. \A row \in vectors : Owns(manifest, row)
    BY <2>1, <2>3, ApartLabels, RowsBefore
  <2>5. \A row \in vectors : row[1] = f => row \in v.doomed
    <3> SUFFICES ASSUME NEW row \in vectors, row[1] = f PROVE row \in v.doomed
      OBVIOUS
    <3>1. row = <<row[1], row[2]>> /\ row[1] \in File
      BY <1>types
    <3>2. manifest[row[1]].ids = row[2] /\ row[2] # 0
      BY <1>rows, <2>4 DEF Owns
    <3>3. row[1] \in Listed(manifest)
      BY <3>1, <3>2 DEF Listed
    <3> QED BY <2>2, <3>1, <3>2, <3>3 DEF Ids
  <2>6. DeletionHolds(t)'
    BY <2>1, <2>2, <2>3, <2>4, <2>5 DEF DeletionHolds, Midway, Owns, Without, Listed
  <2>7. at'[t] \in Apart
    BY <2>3, ApartLabels
  <2> QED BY <1>rows, <2>1, <2>3, <2>6, <2>7, RowsAfter
<1>2. CASE PurgeVectors(t)
  <2> DEFINE f == local[t].file
             v == [local[t] EXCEPT !.doomed = {}]
  <2>1. /\ at[t] = "purge" /\ Goto(t, "save") /\ Keep(t, v)
        /\ vectors' = vectors \ local[t].doomed /\ UNCHANGED <<manifest, deleted>>
    BY <1>2 DEF PurgeVectors, history
  <2>2. v.copy = local[t].copy /\ v.file = f
    BY <1>types DEF Local
  <2> HIDE DEF v
  <2>3. /\ at'[t] = "save" /\ local'[t] = v
        /\ \A u \in Thread : u # t => at'[u] = "idle"
    BY <1>types, <2>1, OnlyOne
  <2>4. \A row \in vectors' : row[1] # f /\ Owns(local[t].copy, row)
    <3> SUFFICES ASSUME NEW row \in vectors' PROVE row[1] # f /\ Owns(local[t].copy, row)
      OBVIOUS
    <3>1. /\ Owns(manifest, row) /\ row[1] # f /\ row[1] \in File
          /\ local[t].copy = Without(manifest, {f})
      BY <1>types, <1>rows, <2>1 DEF DeletionHolds
    <3> QED BY <3>1 DEF Owns, Without
  <2>5. DeletionHolds(t)'
    BY <2>2, <2>3, <2>4 DEF DeletionHolds, Midway, Owns
  <2>6. at'[t] \in Apart
    BY <2>3, ApartLabels
  <2>7. /\ \A row \in vectors' : row[2] # 0 /\ row[1] \notin deleted'
        /\ ~UseVector => vectors' = {}
    BY <1>rows, <2>1
  <2> QED BY <2>3, <2>5, <2>6, <2>7, RowsAfter
<1>3. CASE SaveManifest(t)
  <2> DEFINE f == local[t].file
             v == [local[t] EXCEPT !.copy = Blank.copy]
  <2>1. /\ at[t] = "save" /\ Goto(t, "unlink") /\ Keep(t, v)
        /\ manifest' = local[t].copy /\ UNCHANGED <<vectors, deleted>>
    BY <1>3 DEF SaveManifest, history
  <2>2. v.file = f
    BY <1>types DEF Local
  <2> HIDE DEF v
  <2>3. /\ at'[t] = "unlink" /\ local'[t] = v
        /\ \A u \in Thread : u # t => at'[u] = "idle"
    BY <1>types, <2>1, OnlyOne
  <2>4. \A row \in vectors' : Owns(manifest, row)' /\ row[1] # f
    BY <1>rows, <2>1 DEF DeletionHolds, Owns
  <2>5. DeletionHolds(t)'
    BY <2>2, <2>3, <2>4 DEF DeletionHolds, Midway
  <2> QED BY <1>rows, <2>1, <2>3, <2>4, <2>5, RowsAfter
<1>4. CASE UnlinkFile(t)
  <2> DEFINE f == local[t].file
  <2>1. /\ at[t] = "unlink" /\ Goto(t, "reload") /\ Keep(t, local[t])
        /\ deleted' = deleted \cup {f} /\ UNCHANGED <<manifest, vectors>>
    BY <1>4, <1>types, LocalsStay DEF UnlinkFile, index
  <2>2. /\ at'[t] = "reload"
        /\ \A u \in Thread : u # t => at[u] = "idle" /\ at'[u] = "idle"
    BY <1>types, <2>1, OnlyOne
  <2>3. \A row \in vectors : row[1] # f
    BY <1>rows, <2>1 DEF DeletionHolds
  <2>4. \A row \in vectors : Owns(manifest, row)
    BY <2>1, <2>2, ApartLabels, RowsBefore
  <2>5. DeletionHolds(t)'
    BY <2>2 DEF DeletionHolds, Midway
  <2>6. /\ \A row \in vectors' : row[2] # 0 /\ row[1] \notin deleted'
        /\ \A row \in vectors' : Owns(manifest, row)'
        /\ ~UseVector => vectors' = {}
    BY <1>rows, <2>1, <2>3, <2>4 DEF Owns
  <2> QED BY <2>2, <2>5, <2>6, RowsAfter
<1> QED BY <1>1, <1>2, <1>3, <1>4

\* Edits change no row, and a deletion begins while the index is at rest.
LEMMA ClientLeavesRows ==
    ASSUME OneDeletion, ServedInv, NoRowsLeft,
           \/ \E f \in File : EditFile(f)
           \/ \E p \in Pool, f \in File : DeleteRequest(p, f)
    PROVE  NoRowsLeft'
<1>1. ASSUME NEW f \in File, EditFile(f) PROVE NoRowsLeft'
  <2>1. /\ deleted' \subseteq deleted /\ UNCHANGED <<manifest, vectors, at, local>>
    BY <1>1 DEF EditFile, Write, index
  <2>2. \A t \in Thread : DeletionHolds(t)'
    <3> SUFFICES ASSUME NEW t \in Thread PROVE DeletionHolds(t)'
      OBVIOUS
    <3>1. DeletionHolds(t)
      BY DEF NoRowsLeft
    <3> QED BY <2>1, <3>1 DEF DeletionHolds, Listed, Owns, Without, NoEntry, Midway
  <2>3. /\ \A row \in vectors' : row[2] # 0 /\ row[1] \notin deleted'
        /\ ~UseVector => vectors' = {}
    BY <2>1 DEF NoRowsLeft
  <2>4. ((\A t \in Thread : at[t] \notin Apart) => \A row \in vectors : Owns(manifest, row))'
    BY <2>1 DEF NoRowsLeft, Owns, Apart, Midway
  <2> QED BY <2>2, <2>3, <2>4 DEF NoRowsLeft
<1>2. ASSUME NEW p \in Pool, NEW f \in File, DeleteRequest(p, f) PROVE NoRowsLeft'
  <2> DEFINE v == [local[p] EXCEPT !.file = f, !.blocking = TRUE]
             l == IF UseVector THEN "forget" ELSE "unlink"
  <2>1. /\ at[p] = "idle" /\ Serving /\ Goto(p, l) /\ Keep(p, v)
        /\ UNCHANGED <<manifest, vectors, deleted>> /\ p \in Thread
    BY <1>2 DEF DeleteRequest, index, history, Thread
  <2>2. l \in {"forget", "unlink"} /\ (l = "unlink" => ~UseVector)
    OBVIOUS
  <2> HIDE DEF l, v
  <2> QED BY <2>1, <2>2, ApartLabels, RowsStay
<1> QED BY <1>1, <1>2

\* Every step keeps the invariant; nothing is claimed after a failure.
LEMMA DeletionNext == OneDeletion /\ DeletionInv /\ [Next]_vars => DeletionInv'
<1> SUFFICES ASSUME OneDeletion, DeletionInv, [Next]_vars PROVE DeletionInv'
  OBVIOUS
<1>1. ServedInv /\ ServedInv'
  BY ServedNext DEF DeletionInv
<1>2. ASSUME NothingFailed' PROVE NoRowsLeft'
  <2>types. failures \in Nat /\ restarts \in Nat
    BY <1>1 DEF ServedInv, TypeOK
  <2>1. ~Crash
    BY <1>2, <2>types DEF Crash, NothingFailed
  <2>2. \A t \in Thread : ~Fail(t)
    BY <1>2, <2>types DEF Fail, NothingFailed
  <2>3. CASE UNCHANGED vars
    <3>1. UNCHANGED <<manifest, vectors, at, local, deleted, failures, restarts>>
      BY <2>3 DEF vars
    <3>2. NoRowsLeft
      BY <1>2, <3>1 DEF DeletionInv, NothingFailed
    <3> QED BY <3>1, <3>2 DEF NoRowsLeft, DeletionHolds, Listed, Owns, Without, NoEntry,
                              Midway, Apart
  <2>4. ASSUME NEW f \in File, EditFile(f) PROVE NoRowsLeft'
    <3>1. NoRowsLeft
      BY <1>2, <2>4 DEF EditFile, DeletionInv, NothingFailed
    <3> QED BY <1>1, <2>4, <3>1, ClientLeavesRows
  <2>5. ASSUME NEW p \in Pool, NEW f \in File, DeleteRequest(p, f) PROVE NoRowsLeft'
    <3>1. NoRowsLeft
      BY <1>2, <2>5 DEF DeleteRequest, history, DeletionInv, NothingFailed
    <3> QED BY <1>1, <2>5, <3>1, ClientLeavesRows
  <2>6. ASSUME NEW f \in File, Upload(f) PROVE FALSE
    BY <2>6 DEF Upload, OneDeletion
  <2>7. ASSUME NEW p \in Pool, ReloadRequest(p) PROVE FALSE
    BY <2>7 DEF ReloadRequest, OneDeletion
  <2>8. ASSUME NEW t \in Thread, Step(t) PROVE NoRowsLeft'
    <3>1. ~WatchCheck(t)
      BY DEF WatchCheck, OneDeletion
    <3>2. ~ScheduleSync(t)
      <4>1. at[t] # "schedule"
        BY <1>1, HandlerIsBusy DEF ServedInv
      <4> QED BY <4>1 DEF ScheduleSync
    <3>3. ~WorkerTest(t) /\ ~WorkerExit(t)
      <4>1. "worker" \in Thread /\ "worker" \notin Pool \cup {"boot"}
        BY RagAssumption DEF Thread
      <4>2. at["worker"] = "idle"
        BY <1>1, <4>1 DEF ServedInv, OneActs
      <4> QED BY <4>2 DEF WorkerTest, WorkerExit
    <3>4. UNCHANGED <<failures, restarts>>
      BY <2>8, <3>1, <3>2, <3>3
         DEF Step, TakeFingerprint, LoadChunks, ReplaceChunks, Publish, SyncStart, SyncDrop,
             SyncUpsert, SyncStamp, SyncSave, SyncPick, ForgetEntry, PurgeVectors,
             SaveManifest, UnlinkFile, BootLoad, BootFingerprint, history
    <3>5. NoRowsLeft
      BY <1>2, <3>4 DEF DeletionInv, NothingFailed
    <3> QED BY <1>1, <2>8, <3>1, <3>2, <3>3, <3>5, ReloadLeavesRows, SyncStartLeavesRows,
               SyncDropLeavesRows, SyncPickLeavesRows, SyncUpsertLeavesRows,
               SyncStampLeavesRows, SyncSaveLeavesRows, DeletionLeavesRows DEF Step
  <2> QED BY <2>1, <2>2, <2>3, <2>4, <2>5, <2>6, <2>7, <2>8 DEF Next
<1> QED BY <1>1, <1>2 DEF DeletionInv

\* The collection starts empty.
LEMMA DeletionInit == Init => DeletionInv
<1> SUFFICES ASSUME Init PROVE DeletionInv
  OBVIOUS
<1>1. /\ vectors = {} /\ \A t \in Thread : at[t] \in {"boot", "idle"}
  BY DEF Init
<1>2. NoRowsLeft
  BY <1>1 DEF NoRowsLeft, DeletionHolds, Midway
<1> QED BY <1>2, ServedInit DEF DeletionInv

\* While deletions come one after another, nobody else reloads, and nothing fails
\* or crashes, the collection has no row of a document that delete_rag_document
\* removed: delete_vector_chunks deletes the rows by the manifest before it takes
\* the entry out, and the sync that follows embeds only files that are there.
THEOREM DeletedRowsAreGone == ASSUME OneDeletion PROVE Spec => []DeletedHasNoRows
<1>1. DeletionInv => DeletedHasNoRows
  BY DEF DeletionInv, DeletedHasNoRows, NothingFailed, NoRowsLeft
<1>2. DeletionInv /\ [Next]_vars => DeletionInv'
  BY DeletionNext
<1> QED BY DeletionInit, <1>1, <1>2, PTL DEF Spec


-----------------------------------------------------------------------------
(* A stamp keeps its rows through deletions, one after another.  Between the    *)
(* rows and the manifest a deletion is the only thread that knows better.       *)

\* What a sync or a deletion has in hand while nothing failed: the entries of the
\* copy have their rows, and the rows that will go are of files whose stamp does
\* not match, or of the file to delete.
StampHolds(t) ==
    /\ at[t] \in Midway => Embedded(local[t].copy)
    /\ at[t] = "drop" => \A row \in local[t].doomed :
           Outdated(row[1]) /\ row[1] \notin Listed(local[t].copy)
    /\ at[t] = "stamp" => <<local[t].source, local[t].text>> \in vectors
    /\ at[t] = "purge" => \A row \in local[t].doomed : row[1] = local[t].file
    /\ at[t] \in {"purge", "save"} => local[t].copy = Without(manifest, {local[t].file})

\* An entry that matches its file has its rows, unless a deletion of the file took
\* them and is going to save the manifest.
StampsHold ==
    /\ NoneIsNewer
    /\ \A f \in Listed(manifest) :
           \/ Outdated(f) \/ <<f, manifest[f].ids>> \in vectors
           \/ \E t \in Thread : at[t] = "save" /\ local[t].file = f
    /\ \A t \in Thread : StampHolds(t)

StampInv == DeletionInv /\ (NothingFailed => StampsHold)

LEMMA StampsBefore ==
    ASSUME StampsHold, NEW t \in Thread, \A u \in Thread : u # t => at[u] = "idle"
    PROVE  /\ \A f \in Listed(manifest) :
                  \/ Outdated(f) \/ <<f, manifest[f].ids>> \in vectors
                  \/ at[t] = "save" /\ local[t].file = f
           /\ StampHolds(t) /\ NoneIsNewer
<1>1. \A u \in Thread : at[u] = "save" => u = t
  OBVIOUS
<1> QED BY <1>1 DEF StampsHold

LEMMA StampsAfter ==
    ASSUME NEW t \in Thread, \A u \in Thread : u # t => at'[u] = "idle",
           NoneIsNewer',
           \A f \in Listed(manifest)' :
               \/ Outdated(f)' \/ <<f, manifest'[f].ids>> \in vectors'
               \/ at'[t] = "save" /\ local'[t].file = f,
           StampHolds(t)'
    PROVE  StampsHold'
<1>1. \A u \in Thread : u # t => StampHolds(u)'
  BY DEF StampHolds, Midway
<1> QED BY <1>1 DEF StampsHold

LEMMA NewerMove ==
    ASSUME TypeOK, NoneIsNewer, NEW t \in Thread, NEW v, Keep(t, v),
           \A f \in File : v.copy[f].stamp <= edits,
           \A f \in File : manifest'[f].stamp <= edits,
           \A f \in File : disk'[f] \in {0, disk[f]}, edits' = edits
    PROVE  NoneIsNewer'
<1>1. edits \in Nat
  BY RagAssumption DEF TypeOK, Version
<1>2. \A u \in Thread : local'[u] = IF u = t THEN v ELSE local[u]
  BY DEF Keep, TypeOK, ThreadsOK
<1>3. \A f \in File : disk'[f] <= edits
  BY <1>1 DEF NoneIsNewer
<1>4. \A u \in Thread : \A f \in File : local'[u].copy[f].stamp <= edits
  BY <1>2 DEF NoneIsNewer
<1> QED BY <1>3, <1>4 DEF NoneIsNewer

\* A step that leaves the documents and the index alone, outside a sync.
LEMMA StampsStay ==
    ASSUME OneDeletion, ServedInv, StampsHold, NEW t \in Thread, NEW l, NEW v,
           Goto(t, l), Keep(t, v), at[t] # "idle" \/ (t \in Pool /\ Serving),
           UNCHANGED <<disk, edits, manifest, vectors>>,
           v.copy \in {local[t].copy, Blank.copy},
           at[t] \notin Apart, l \notin Apart
    PROVE  StampsHold'
<1>1. /\ at'[t] = l /\ local'[t] = v
      /\ \A u \in Thread : u # t => at[u] = "idle" /\ at'[u] = "idle"
  BY OnlyOne DEF ServedInv
<1>2. /\ \A f \in Listed(manifest) : Outdated(f) \/ <<f, manifest[f].ids>> \in vectors
      /\ NoneIsNewer
  BY <1>1, StampsBefore DEF Apart
<1>3. \A f \in File : Blank.copy[f].stamp <= edits
  BY RagAssumption DEF Blank, NoEntry, ServedInv, TypeOK, Version
<1>4. NoneIsNewer'
  BY <1>2, <1>3, NewerMove DEF ServedInv, NoneIsNewer
<1>5. StampHolds(t)'
  BY <1>1 DEF StampHolds, Apart, Midway
<1> QED BY <1>1, <1>2, <1>4, <1>5, StampsAfter DEF Listed, Outdated

\* Every copy that a step leaves alone is the old one.
LEMMA CopiesStay ==
    ASSUME TypeOK, NEW t \in Thread
    PROVE  /\ \A x : /\ [local[t] EXCEPT !.print = x].copy = local[t].copy
                     /\ [local[t] EXCEPT !.chunks = x].copy = local[t].copy
                     /\ [local[t] EXCEPT !.doomed = x].copy = local[t].copy
                     /\ [local[t] EXCEPT !.file = x, !.blocking = TRUE].copy = local[t].copy
           /\ Keep(t, local[t]) <=> UNCHANGED local
<1>1. local[t] \in Local
  BY DEF TypeOK, ThreadsOK
<1> QED BY <1>1, LocalsStay DEF Local

LEMMA ReloadLeavesStamps ==
    ASSUME OneDeletion, ServedInv, StampsHold, NEW t \in Thread,
           \/ TakeFingerprint(t) \/ LoadChunks(t) \/ ReplaceChunks(t) \/ Publish(t)
           \/ BootLoad(t) \/ BootFingerprint(t)
    PROVE  StampsHold'
<1>1. /\ at[t] \in {"reload", "load", "replace", "publish", "boot", "print"}
      /\ UNCHANGED <<disk, edits, manifest, vectors>>
  BY DEF TakeFingerprint, LoadChunks, ReplaceChunks, Publish, BootLoad, BootFingerprint,
         documents, index, history
<1>2. \E v : Keep(t, v) /\ v.copy \in {local[t].copy, Blank.copy}
  <2>1. TypeOK
    BY DEF ServedInv
  <2>2. \/ UNCHANGED local \/ Keep(t, Blank)
        \/ Keep(t, [local[t] EXCEPT !.print = Fingerprint])
        \/ Keep(t, [local[t] EXCEPT !.print = Blank.print])
        \/ Keep(t, [local[t] EXCEPT !.chunks = disk]) \/ Keep(t, [local[t] EXCEPT !.chunks = Empty])
    BY Zenon DEF TakeFingerprint, LoadChunks, ReplaceChunks, Publish, Follow, Return,
                 BootLoad, BootFingerprint
  <2> QED BY <2>1, <2>2, CopiesStay
<1>3. \E l \in {"idle", "load", "replace", "publish", "schedule", "sync", "print"} : Goto(t, l)
  BY Zenon DEF TakeFingerprint, LoadChunks, ReplaceChunks, Publish, Follow, Return,
               BootLoad, BootFingerprint
<1>4. at[t] \notin Apart /\ at[t] # "idle"
  BY <1>1, ApartLabels
<1> QED BY <1>1, <1>2, <1>3, <1>4, ApartLabels, StampsStay

\* A sync that begins keeps, in its copy, the entries that match their files, and
\* drops rows of the others.
LEMMA SyncStartLeavesStamps ==
    ASSUME OneDeletion, ServedInv, StampsHold, NEW t \in Thread, SyncStart(t)
    PROVE  StampsHold'
<1> DEFINE changed == ChangedFiles(manifest)
           redone  == changed \cup RemovedFiles(manifest)
           v == [local[t] EXCEPT !.copy = Without(manifest, redone),
                                 !.doomed = Ids(manifest, redone), !.todo = changed]
<1>1. /\ at[t] = "sync" /\ UNCHANGED <<disk, edits, manifest, vectors>>
  BY DEF SyncStart, documents, index
<1>2. at[t] \notin Apart /\ at[t] # "idle"
  BY <1>1, ApartLabels
<1>3. CASE GoOn(t)
  <2>1. PICK l \in {"test", "print", "idle"} : Goto(t, l) /\ Keep(t, Blank)
    BY <1>3, Zenon DEF GoOn
  <2> QED BY <1>1, <1>2, <2>1, ApartLabels, StampsStay
<1>4. CASE Goto(t, "drop") /\ Keep(t, v)
  <2>types. /\ manifest \in [File -> Entry] /\ local[t] \in Local
            /\ TypeOK /\ disk \in [File -> Version]
    BY IndexTypes DEF ServedInv
  <2>1. v.copy = Without(manifest, redone) /\ v.doomed = Ids(manifest, redone)
    BY <2>types DEF Local
  <2>2. /\ at'[t] = "drop" /\ local'[t] = v
        /\ \A u \in Thread : u # t => at[u] = "idle" /\ at'[u] = "idle"
    BY <1>2, <1>4, OnlyOne DEF ServedInv
  <2> HIDE DEF v
  <2>3. /\ \A f \in Listed(manifest) : Outdated(f) \/ <<f, manifest[f].ids>> \in vectors
        /\ NoneIsNewer
    BY <1>1, <2>2, StampsBefore
  <2>4. \A f \in Listed(manifest) : f \in redone <=> Outdated(f)
    BY DEF ChangedFiles, RemovedFiles, Present, Outdated, Listed
  <2> HIDE DEF redone
  <2>5. /\ \A f \in File : f \in redone => v.copy[f] = NoEntry
        /\ \A f \in File : f \notin redone => v.copy[f] = manifest[f]
        /\ NoEntry.ids = 0 /\ NoEntry.stamp = 0
    BY <2>1 DEF Without, NoEntry
  <2>6. Embedded(v.copy)
    BY <2>3, <2>4, <2>5 DEF Embedded, Listed
  <2>7. \A row \in v.doomed : Outdated(row[1]) /\ row[1] \notin Listed(v.copy)
    BY <2>1, <2>4, <2>5 DEF Ids, Listed
  <2>8. NoneIsNewer'
    <3>1. edits \in Nat
      BY <2>types, RagAssumption DEF TypeOK, Version
    <3>2. /\ \A f \in File : manifest'[f].stamp <= edits
          /\ \A f \in File : v.copy[f].stamp <= edits
      BY <1>1, <2>3, <2>5, <3>1 DEF NoneIsNewer
    <3> QED BY <1>1, <1>4, <2>types, <2>3, <3>2, NewerMove DEF v
  <2>9. StampHolds(t)'
    BY <1>1, <2>2, <2>6, <2>7 DEF StampHolds, Embedded, Listed, Outdated
  <2> QED BY <1>1, <2>2, <2>3, <2>8, <2>9, StampsAfter DEF Listed, Outdated
<1>5. GoOn(t) \/ (Goto(t, "drop") /\ Keep(t, v))
  BY Zenon DEF SyncStart, Synced
<1> QED BY <1>3, <1>4, <1>5

\* The rows that go are of entries that do not match their files.
LEMMA SyncDropLeavesStamps ==
    ASSUME OneDeletion, ServedInv, StampsHold, NEW t \in Thread, SyncDrop(t)
    PROVE  StampsHold'
<1> DEFINE v == [local[t] EXCEPT !.doomed = {}]
<1>1. /\ at[t] = "drop" /\ Goto(t, "pick") /\ Keep(t, v)
      /\ vectors' = vectors \ local[t].doomed /\ UNCHANGED <<disk, edits, manifest>>
  BY DEF SyncDrop, documents
<1>2. TypeOK /\ v.copy = local[t].copy
  BY CopiesStay DEF ServedInv
<1> HIDE DEF v
<1>3. /\ at'[t] = "pick" /\ local'[t] = v
      /\ \A u \in Thread : u # t => at[u] = "idle" /\ at'[u] = "idle"
  BY <1>1, OnlyOne DEF ServedInv
<1>4. /\ \A f \in Listed(manifest) : Outdated(f) \/ <<f, manifest[f].ids>> \in vectors
      /\ StampHolds(t) /\ NoneIsNewer
  BY <1>1, <1>3, StampsBefore
<1>5. /\ Embedded(local[t].copy)
      /\ \A row \in local[t].doomed : Outdated(row[1]) /\ row[1] \notin Listed(local[t].copy)
  BY <1>1, <1>4, ApartLabels DEF StampHolds
<1>6. \A f \in Listed(manifest) : Outdated(f) \/ <<f, manifest[f].ids>> \in vectors'
  BY <1>1, <1>4, <1>5
<1>7. \A f \in Listed(local[t].copy) : <<f, local[t].copy[f].ids>> \in vectors'
  BY <1>1, <1>5 DEF Embedded
<1>8. StampHolds(t)'
  BY <1>2, <1>3, <1>7 DEF StampHolds, Embedded, Listed
<1>9. NoneIsNewer'
  BY <1>1, <1>2, <1>4, NewerMove DEF NoneIsNewer
<1> QED BY <1>1, <1>3, <1>6, <1>8, <1>9, StampsAfter DEF Listed, Outdated

LEMMA SyncPickLeavesStamps ==
    ASSUME OneDeletion, ServedInv, StampsHold, NEW t \in Thread, NEW f \in File, SyncPick(t, f)
    PROVE  StampsHold'
<1>1. at[t] = "pick" /\ UNCHANGED <<disk, edits, manifest, vectors>>
  BY DEF SyncPick, documents, index
<1>2. local[t] \in Local /\ TypeOK
  BY IndexTypes DEF ServedInv
<1>3. PICK v : /\ Keep(t, v) /\ v.copy = local[t].copy
               /\ \E l \in {"pick", "upsert"} : Goto(t, l)
  <2> DEFINE w == [local[t] EXCEPT !.todo = local[t].todo \ {f}]
             x == [local[t] EXCEPT !.todo = local[t].todo \ {f}, !.source = f, !.text = disk[f]]
  <2>1. w.copy = local[t].copy /\ x.copy = local[t].copy
    BY <1>2 DEF Local
  <2>2. (Goto(t, "pick") /\ Keep(t, w)) \/ (Goto(t, "upsert") /\ Keep(t, x))
    BY Zenon DEF SyncPick
  <2> HIDE DEF w, x
  <2> QED BY <2>1, <2>2
<1>4. PICK l \in {"pick", "upsert"} : Goto(t, l)
  BY <1>3
<1>5. /\ at'[t] = l /\ local'[t] = v
      /\ \A u \in Thread : u # t => at[u] = "idle" /\ at'[u] = "idle"
  BY <1>1, <1>3, <1>4, OnlyOne DEF ServedInv
<1>6. /\ \A g \in Listed(manifest) : Outdated(g) \/ <<g, manifest[g].ids>> \in vectors
      /\ StampHolds(t) /\ NoneIsNewer
  BY <1>1, <1>5, StampsBefore
<1>7. Embedded(local[t].copy)
  BY <1>1, <1>6, ApartLabels DEF StampHolds
<1>8. StampHolds(t)'
  BY <1>1, <1>3, <1>5, <1>7 DEF StampHolds, Embedded, Listed
<1>9. NoneIsNewer'
  BY <1>1, <1>2, <1>3, <1>6, NewerMove DEF NoneIsNewer
<1> QED BY <1>1, <1>5, <1>6, <1>8, <1>9, StampsAfter DEF Listed, Outdated

LEMMA SyncUpsertLeavesStamps ==
    ASSUME OneDeletion, ServedInv, StampsHold, NEW t \in Thread, SyncUpsert(t)
    PROVE  StampsHold'
<1>1. /\ at[t] = "upsert" /\ Goto(t, "stamp") /\ UNCHANGED local
      /\ vectors' = vectors \cup {<<local[t].source, local[t].text>>}
      /\ UNCHANGED <<disk, edits, manifest>>
  BY DEF SyncUpsert, documents
<1>2. TypeOK /\ Keep(t, local[t])
  BY <1>1, CopiesStay DEF ServedInv
<1>3. /\ at'[t] = "stamp" /\ local'[t] = local[t]
      /\ \A u \in Thread : u # t => at[u] = "idle" /\ at'[u] = "idle"
  BY <1>1, <1>2, OnlyOne DEF ServedInv
<1>4. /\ \A f \in Listed(manifest) : Outdated(f) \/ <<f, manifest[f].ids>> \in vectors'
      /\ StampHolds(t) /\ NoneIsNewer
  BY <1>1, <1>3, StampsBefore
<1>5. Embedded(local[t].copy)
  BY <1>1, <1>4, ApartLabels DEF StampHolds
<1>6. StampHolds(t)'
  BY <1>1, <1>3, <1>5 DEF StampHolds, Embedded, Listed
<1>7. NoneIsNewer'
  BY <1>1, <1>4 DEF NoneIsNewer
<1> QED BY <1>1, <1>3, <1>4, <1>6, <1>7, StampsAfter DEF Listed, Outdated

\* The new entry has its rows.
LEMMA SyncStampLeavesStamps ==
    ASSUME OneDeletion, ServedInv, StampsHold, NEW t \in Thread, SyncStamp(t)
    PROVE  StampsHold'
<1> DEFINE f == local[t].source
           e == [stamp |-> disk[f], ids |-> local[t].text]
           m == [local[t].copy EXCEPT ![f] = e]
           v == [local[t] EXCEPT !.copy = m, !.source = NoFile, !.text = 0]
<1>1. /\ at[t] = "stamp" /\ Goto(t, "pick") /\ Keep(t, v)
      /\ UNCHANGED <<disk, edits, manifest, vectors>>
  BY DEF SyncStamp, documents, index
<1>types. /\ f \in File /\ local[t].copy \in [File -> Entry] /\ local[t] \in Local /\ TypeOK
  BY <1>1, IndexTypes DEF ServedInv
<1>2. /\ m[f] = e /\ \A g \in File : g # f => m[g] = local[t].copy[g]
  BY <1>types
<1> HIDE DEF m
<1>3. v.copy = m
  BY <1>types DEF Local
<1> HIDE DEF v
<1>4. /\ at'[t] = "pick" /\ local'[t] = v
      /\ \A u \in Thread : u # t => at[u] = "idle" /\ at'[u] = "idle"
  BY <1>1, OnlyOne DEF ServedInv
<1>5. /\ \A g \in Listed(manifest) : Outdated(g) \/ <<g, manifest[g].ids>> \in vectors
      /\ StampHolds(t) /\ NoneIsNewer
  BY <1>1, <1>4, StampsBefore
<1>6. Embedded(local[t].copy) /\ <<f, local[t].text>> \in vectors
  BY <1>1, <1>5, ApartLabels DEF StampHolds
<1>7. Embedded(m)
  <2> SUFFICES ASSUME NEW g \in File, m[g].ids # 0 PROVE <<g, m[g].ids>> \in vectors
    BY DEF Embedded, Listed
  <2>1. CASE g = f
    BY <1>2, <1>6, <2>1
  <2>2. CASE g # f
    <3>1. m[g] = local[t].copy[g]
      BY <1>2, <2>2
    <3> QED BY <1>6, <3>1 DEF Embedded, Listed
  <2> QED BY <2>1, <2>2
<1>8. StampHolds(t)'
  BY <1>1, <1>3, <1>4, <1>7 DEF StampHolds, Embedded, Listed
<1>9. NoneIsNewer'
  <2>1. /\ \A g \in File : v.copy[g].stamp <= edits
        /\ \A g \in File : manifest'[g].stamp <= edits
    BY <1>1, <1>2, <1>3, <1>5 DEF NoneIsNewer
  <2> QED BY <1>1, <1>types, <1>5, <2>1, NewerMove
<1> QED BY <1>1, <1>4, <1>5, <1>8, <1>9, StampsAfter DEF Listed, Outdated

\* What a sync saves has its rows.
LEMMA SyncSaveLeavesStamps ==
    ASSUME OneDeletion, ServedInv, StampsHold, NEW t \in Thread, SyncSave(t)
    PROVE  StampsHold'
<1>1. /\ at[t] = "pick" /\ GoOn(t) /\ manifest' = local[t].copy
      /\ UNCHANGED <<disk, edits, vectors>>
  BY DEF SyncSave, Synced, documents
<1>2. PICK l \in {"test", "print", "idle"} : Goto(t, l) /\ Keep(t, Blank)
  BY <1>1, Zenon DEF GoOn
<1>3. /\ at'[t] = l
      /\ \A u \in Thread : u # t => at[u] = "idle" /\ at'[u] = "idle"
  BY <1>1, <1>2, OnlyOne DEF ServedInv
<1>4. StampHolds(t) /\ NoneIsNewer
  BY <1>1, <1>3, StampsBefore
<1>5. \A f \in Listed(manifest)' : <<f, manifest'[f].ids>> \in vectors'
  BY <1>1, <1>4, ApartLabels DEF StampHolds, Embedded, Listed
<1>6. StampHolds(t)'
  BY <1>3 DEF StampHolds, Midway
<1>7. NoneIsNewer'
  <2>1. \A f \in File : Blank.copy[f].stamp <= edits
    BY RagAssumption DEF Blank, NoEntry, ServedInv, TypeOK, Version
  <2>2. \A f \in File : manifest'[f].stamp <= edits
    BY <1>1, <1>4 DEF NoneIsNewer
  <2> QED BY <1>1, <1>2, <1>4, <2>1, <2>2, NewerMove DEF ServedInv, NoneIsNewer
<1> QED BY <1>3, <1>5, <1>6, <1>7, StampsAfter

\* A deletion takes the rows of its file away between reading the manifest and
\* saving it without the entry of the file; the file goes after both.
LEMMA DeletionLeavesStamps ==
    ASSUME OneDeletion, ServedInv, StampsHold, NEW t \in Thread,
           \/ ForgetEntry(t) \/ PurgeVectors(t) \/ SaveManifest(t) \/ UnlinkFile(t)
    PROVE  StampsHold'
<1>types. /\ manifest \in [File -> Entry] /\ local[t] \in Local /\ TypeOK
          /\ vectors \subseteq File \X Version /\ edits \in Nat
          /\ disk \in [File -> Version]
  BY IndexTypes, RagAssumption DEF ServedInv, TypeOK, Version
<1>none. /\ NoEntry.ids = 0 /\ NoEntry.stamp = 0
         /\ \A f \in File : Blank.copy[f].stamp <= edits
  BY <1>types DEF NoEntry, Blank
<1>1. CASE ForgetEntry(t)
  <2> DEFINE f == local[t].file
             v == [local[t] EXCEPT !.copy = Without(manifest, {f}), !.doomed = Ids(manifest, {f})]
  <2>1. /\ at[t] = "forget" /\ Goto(t, "purge") /\ Keep(t, v)
        /\ UNCHANGED <<disk, edits, manifest, vectors>>
    BY <1>1 DEF ForgetEntry, documents, index
  <2>2. v.copy = Without(manifest, {f}) /\ v.doomed = Ids(manifest, {f}) /\ v.file = f
    BY <1>types DEF Local
  <2> HIDE DEF v
  <2>3. /\ at'[t] = "purge" /\ local'[t] = v
        /\ \A u \in Thread : u # t => at[u] = "idle" /\ at'[u] = "idle"
    BY <2>1, OnlyOne DEF ServedInv
  <2>4. /\ \A g \in Listed(manifest) : Outdated(g) \/ <<g, manifest[g].ids>> \in vectors
        /\ NoneIsNewer
    BY <2>1, <2>3, StampsBefore
  <2>5. StampHolds(t)'
    BY <2>1, <2>2, <2>3 DEF StampHolds, Midway, Ids, Without
  <2>6. NoneIsNewer'
    <3>1. /\ \A g \in File : manifest'[g].stamp <= edits
          /\ \A g \in File : v.copy[g].stamp <= edits
      BY <1>types, <1>none, <2>1, <2>2, <2>4 DEF NoneIsNewer, Without
    <3> QED BY <1>types, <2>1, <2>4, <3>1, NewerMove
  <2> QED BY <2>1, <2>3, <2>4, <2>5, <2>6, StampsAfter DEF Listed, Outdated
<1>2. CASE PurgeVectors(t)
  <2> DEFINE f == local[t].file
             v == [local[t] EXCEPT !.doomed = {}]
  <2>1. /\ at[t] = "purge" /\ Goto(t, "save") /\ Keep(t, v)
        /\ vectors' = vectors \ local[t].doomed /\ UNCHANGED <<disk, edits, manifest>>
    BY <1>2 DEF PurgeVectors, documents
  <2>2. v.copy = local[t].copy /\ v.file = f
    BY <1>types DEF Local
  <2> HIDE DEF v
  <2>3. /\ at'[t] = "save" /\ local'[t] = v
        /\ \A u \in Thread : u # t => at[u] = "idle" /\ at'[u] = "idle"
    BY <2>1, OnlyOne DEF ServedInv
  <2>4. /\ \A g \in Listed(manifest) : Outdated(g) \/ <<g, manifest[g].ids>> \in vectors
        /\ StampHolds(t) /\ NoneIsNewer
    BY <2>1, <2>3, StampsBefore
  <2>5. \A g \in Listed(manifest) :
            \/ Outdated(g) \/ <<g, manifest[g].ids>> \in vectors' \/ local'[t].file = g
    BY <2>1, <2>2, <2>3, <2>4 DEF StampHolds
  <2>6. StampHolds(t)'
    BY <2>1, <2>2, <2>3, <2>4 DEF StampHolds, Midway, Without
  <2>7. NoneIsNewer'
    BY <1>types, <2>1, <2>2, <2>4, NewerMove DEF NoneIsNewer
  <2> QED BY <2>1, <2>3, <2>5, <2>6, <2>7, StampsAfter DEF Listed, Outdated
<1>3. CASE SaveManifest(t)
  <2> DEFINE f == local[t].file
             v == [local[t] EXCEPT !.copy = Blank.copy]
  <2>1. /\ at[t] = "save" /\ Goto(t, "unlink") /\ Keep(t, v)
        /\ manifest' = local[t].copy /\ UNCHANGED <<disk, edits, vectors>>
    BY <1>3 DEF SaveManifest, documents
  <2>2. v.copy = Blank.copy
    BY <1>types DEF Local
  <2> HIDE DEF v
  <2>3. /\ at'[t] = "unlink" /\ local'[t] = v
        /\ \A u \in Thread : u # t => at[u] = "idle" /\ at'[u] = "idle"
    BY <2>1, OnlyOne DEF ServedInv
  <2>4. /\ \A g \in Listed(manifest) :
               \/ Outdated(g) \/ <<g, manifest[g].ids>> \in vectors \/ g = f
        /\ StampHolds(t) /\ NoneIsNewer
    BY <2>1, <2>3, StampsBefore
  <2>5. /\ manifest'[f].ids = 0 \/ f \notin File
        /\ \A g \in File : g # f => manifest'[g] = manifest[g]
        /\ \A g \in File : manifest'[g].stamp <= edits
    <3>1. manifest' = Without(manifest, {f})
      BY <2>1, <2>4 DEF StampHolds
    <3>2. /\ f \in File => manifest'[f] = NoEntry
          /\ \A g \in File : g # f => manifest'[g] = manifest[g]
      BY <3>1 DEF Without
    <3> QED BY <1>types, <1>none, <2>4, <3>2 DEF NoneIsNewer
  <2>6. \A g \in Listed(manifest)' : Outdated(g)' \/ <<g, manifest'[g].ids>> \in vectors'
    BY <2>1, <2>4, <2>5 DEF Listed, Outdated
  <2>7. StampHolds(t)'
    BY <2>3 DEF StampHolds, Midway
  <2>8. NoneIsNewer'
    BY <1>types, <1>none, <2>1, <2>2, <2>4, <2>5, NewerMove DEF NoneIsNewer
  <2> QED BY <2>3, <2>6, <2>7, <2>8, StampsAfter
<1>4. CASE UnlinkFile(t)
  <2> DEFINE f == local[t].file
  <2>1. /\ at[t] = "unlink" /\ Goto(t, "reload") /\ Keep(t, local[t])
        /\ disk' = [disk EXCEPT ![f] = 0] /\ UNCHANGED <<edits, manifest, vectors>>
    BY <1>4, <1>types, LocalsStay DEF UnlinkFile, index
  <2>2. /\ at'[t] = "reload"
        /\ \A u \in Thread : u # t => at[u] = "idle" /\ at'[u] = "idle"
    BY <1>types, <2>1, OnlyOne DEF ServedInv
  <2>3. /\ \A g \in Listed(manifest) : Outdated(g) \/ <<g, manifest[g].ids>> \in vectors
        /\ NoneIsNewer
    BY <2>1, <2>2, StampsBefore
  <2>4. \A g \in File : disk'[g] \in {0, disk[g]}
    BY <1>types, <2>1
  <2>5. \A g \in Listed(manifest)' : Outdated(g)' \/ <<g, manifest'[g].ids>> \in vectors'
    BY <2>1, <2>3, <2>4 DEF Listed, Outdated
  <2>6. StampHolds(t)'
    BY <2>2 DEF StampHolds, Midway
  <2>7. NoneIsNewer'
    BY <1>types, <2>1, <2>3, <2>4, NewerMove DEF NoneIsNewer
  <2> QED BY <2>2, <2>5, <2>6, <2>7, StampsAfter
<1> QED BY <1>1, <1>2, <1>3, <1>4

\* An edit makes outdated what it touches, for no stamp is as new.
LEMMA ClientLeavesStamps ==
    ASSUME OneDeletion, ServedInv, StampsHold,
           \/ \E f \in File : EditFile(f)
           \/ \E p \in Pool, f \in File : DeleteRequest(p, f)
    PROVE  StampsHold'
<1>types. TypeOK /\ edits \in Nat /\ disk \in [File -> Version]
  BY RagAssumption DEF ServedInv, TypeOK, Version, Corpus
<1>1. ASSUME NEW f \in File, EditFile(f) PROVE StampsHold'
  <2>1. /\ UNCHANGED <<manifest, vectors, at, local>> /\ edits' = edits + 1
        /\ \A g \in File : disk'[g] \in {0, disk[g], edits + 1}
    BY <1>types, <1>1 DEF EditFile, Write, index
  <2>2. NoneIsNewer /\ NoneIsNewer'
    <3>1. NoneIsNewer /\ edits <= edits + 1 /\ 0 <= edits + 1
      BY <1>types DEF StampsHold
    <3>2. \A g \in File : disk'[g] <= edits'
      <4> SUFFICES ASSUME NEW g \in File PROVE disk'[g] <= edits'
        OBVIOUS
      <4>1. disk[g] <= edits /\ disk[g] \in Nat
        BY <1>types, <3>1, RagAssumption DEF NoneIsNewer, Version
      <4> QED BY <1>types, <2>1, <3>1, <4>1
    <3>3. \A g \in File : manifest'[g].stamp <= edits'
      <4> SUFFICES ASSUME NEW g \in File PROVE manifest[g].stamp <= edits + 1
        BY <2>1
      <4>1. manifest[g].stamp <= edits /\ manifest[g].stamp \in Nat
        BY <1>types, <3>1, RagAssumption DEF NoneIsNewer, TypeOK, Entry, Version
      <4> QED BY <1>types, <4>1
    <3>4. \A t \in Thread : \A g \in File : local'[t].copy[g].stamp <= edits'
      <4> SUFFICES ASSUME NEW t \in Thread, NEW g \in File
                   PROVE  local[t].copy[g].stamp <= edits + 1
        BY <2>1
      <4>1. local[t].copy \in [File -> Entry]
        BY <1>types, IndexTypes
      <4>2. local[t].copy[g].stamp <= edits /\ local[t].copy[g].stamp \in Nat
        BY <3>1, <4>1, RagAssumption DEF NoneIsNewer, Entry, Version
      <4> QED BY <1>types, <4>2
    <3> QED BY <3>1, <3>2, <3>3, <3>4 DEF NoneIsNewer
  <2>3. \A g \in File : Outdated(g) => Outdated(g)'
    <3> SUFFICES ASSUME NEW g \in File, Outdated(g), disk'[g] # 0
                 PROVE  manifest[g].stamp # disk'[g]
      BY <2>1 DEF Outdated
    <3>1. manifest[g].stamp <= edits /\ manifest[g].stamp \in Nat
      BY <2>2, RagAssumption, <1>types DEF NoneIsNewer, TypeOK, Entry, Version
    <3>2. CASE disk'[g] = edits + 1
      BY <1>types, <3>1, <3>2
    <3>3. CASE disk'[g] = disk[g]
      BY <3>3 DEF Outdated
    <3> QED BY <2>1, <3>2, <3>3
  <2>4. \A t \in Thread : StampHolds(t)'
    <3> SUFFICES ASSUME NEW t \in Thread PROVE StampHolds(t)'
      OBVIOUS
    <3>1. StampHolds(t) /\ \A row \in local[t].doomed : row[1] \in File
      BY <1>types, IndexTypes DEF StampsHold
    <3>2. /\ at'[t] = at[t] /\ local'[t] = local[t]
      BY <2>1
    <3> QED BY <2>1, <2>3, <3>1, <3>2 DEF StampHolds, Embedded, Listed, Without, NoEntry, Midway
  <2>5. \A g \in Listed(manifest)' :
            \/ Outdated(g)' \/ <<g, manifest'[g].ids>> \in vectors'
            \/ \E t \in Thread : at'[t] = "save" /\ local'[t].file = g
    BY <2>1, <2>3 DEF StampsHold, Listed
  <2> QED BY <2>2, <2>4, <2>5 DEF StampsHold
<1>2. ASSUME NEW p \in Pool, NEW f \in File, DeleteRequest(p, f) PROVE StampsHold'
  <2> DEFINE v == [local[p] EXCEPT !.file = f, !.blocking = TRUE]
             l == IF UseVector THEN "forget" ELSE "unlink"
  <2>1. /\ at[p] = "idle" /\ Serving /\ Goto(p, l) /\ Keep(p, v)
        /\ UNCHANGED <<disk, edits, manifest, vectors>> /\ p \in Thread
    BY <1>2 DEF DeleteRequest, index, Thread
  <2>2. l \in {"forget", "unlink"} /\ v.copy = local[p].copy
    BY <1>types, <2>1, CopiesStay
  <2> HIDE DEF l, v
  <2> QED BY <2>1, <2>2, ApartLabels, StampsStay
<1> QED BY <1>1, <1>2

\* Every step keeps the invariant; nothing is claimed after a failure.
LEMMA StampNext == OneDeletion /\ StampInv /\ [Next]_vars => StampInv'
<1> SUFFICES ASSUME OneDeletion, StampInv, [Next]_vars PROVE StampInv'
  OBVIOUS
<1>1. ServedInv /\ DeletionInv'
  BY DeletionNext DEF StampInv, DeletionInv
<1>2. ASSUME NothingFailed' PROVE StampsHold'
  <2>types. failures \in Nat /\ restarts \in Nat
    BY <1>1 DEF ServedInv, TypeOK
  <2>1. ~Crash
    BY <1>2, <2>types DEF Crash, NothingFailed
  <2>2. \A t \in Thread : ~Fail(t)
    BY <1>2, <2>types DEF Fail, NothingFailed
  <2>3. CASE UNCHANGED vars
    <3>1. UNCHANGED <<disk, edits, manifest, vectors, at, local, failures, restarts>>
      BY <2>3 DEF vars
    <3>2. StampsHold
      BY <1>2, <3>1 DEF StampInv, NothingFailed
    <3> QED BY <3>1, <3>2 DEF StampsHold, StampHolds, NoneIsNewer, Outdated, Embedded,
                              Listed, Without, NoEntry, Midway
  <2>4. ASSUME NEW f \in File, EditFile(f) PROVE StampsHold'
    <3>1. StampsHold
      BY <1>2, <2>4 DEF EditFile, StampInv, NothingFailed
    <3> QED BY <1>1, <2>4, <3>1, ClientLeavesStamps
  <2>5. ASSUME NEW p \in Pool, NEW f \in File, DeleteRequest(p, f) PROVE StampsHold'
    <3>1. StampsHold
      BY <1>2, <2>5 DEF DeleteRequest, history, StampInv, NothingFailed
    <3> QED BY <1>1, <2>5, <3>1, ClientLeavesStamps
  <2>6. ASSUME NEW f \in File, Upload(f) PROVE FALSE
    BY <2>6 DEF Upload, OneDeletion
  <2>7. ASSUME NEW p \in Pool, ReloadRequest(p) PROVE FALSE
    BY <2>7 DEF ReloadRequest, OneDeletion
  <2>8. ASSUME NEW t \in Thread, Step(t) PROVE StampsHold'
    <3>1. ~WatchCheck(t)
      BY DEF WatchCheck, OneDeletion
    <3>2. ~ScheduleSync(t)
      <4>1. at[t] # "schedule"
        BY <1>1, HandlerIsBusy DEF ServedInv
      <4> QED BY <4>1 DEF ScheduleSync
    <3>3. ~WorkerTest(t) /\ ~WorkerExit(t)
      <4>1. "worker" \in Thread /\ "worker" \notin Pool \cup {"boot"}
        BY RagAssumption DEF Thread
      <4>2. at["worker"] = "idle"
        BY <1>1, <4>1 DEF ServedInv, OneActs
      <4> QED BY <4>2 DEF WorkerTest, WorkerExit
    <3>4. UNCHANGED <<failures, restarts>>
      BY <2>8, <3>1, <3>2, <3>3
         DEF Step, TakeFingerprint, LoadChunks, ReplaceChunks, Publish, SyncStart, SyncDrop,
             SyncUpsert, SyncStamp, SyncSave, SyncPick, ForgetEntry, PurgeVectors,
             SaveManifest, UnlinkFile, BootLoad, BootFingerprint, history
    <3>5. StampsHold
      BY <1>2, <3>4 DEF StampInv, NothingFailed
    <3> QED BY <1>1, <2>8, <3>1, <3>2, <3>3, <3>5, ReloadLeavesStamps, SyncStartLeavesStamps,
               SyncDropLeavesStamps, SyncPickLeavesStamps, SyncUpsertLeavesStamps,
               SyncStampLeavesStamps, SyncSaveLeavesStamps, DeletionLeavesStamps DEF Step
  <2> QED BY <2>1, <2>2, <2>3, <2>4, <2>5, <2>6, <2>7, <2>8 DEF Next
<1> QED BY <1>1, <1>2 DEF StampInv

\* The manifest and the collection start empty.
LEMMA StampInit == Init => StampInv
<1> SUFFICES ASSUME Init PROVE StampInv
  OBVIOUS
<1>1. /\ Listed(manifest) = {} /\ \A t \in Thread : at[t] \in {"boot", "idle"}
  BY DEF Init, Listed, Blank, NoEntry
<1>2. NoneIsNewer
  <2>1. /\ disk = Empty /\ edits = 0 /\ manifest = Blank.copy
        /\ \A t \in Thread : local[t] = Blank
    BY DEF Init
  <2>2. \A f \in File : Empty[f] = 0 /\ Blank.copy[f].stamp = 0
    BY DEF Blank, NoEntry, Empty
  <2> SUFFICES ASSUME NEW f \in File
               PROVE  /\ disk[f] <= edits /\ manifest[f].stamp <= edits
                      /\ \A t \in Thread : local[t].copy[f].stamp <= edits
    BY DEF NoneIsNewer
  <2>3. disk[f] = 0 /\ edits = 0 /\ manifest[f].stamp = 0
    BY <2>1, <2>2
  <2>4. \A t \in Thread : local[t].copy[f].stamp = 0
    BY <2>1, <2>2
  <2> QED BY <2>3, <2>4
<1>3. \A t \in Thread : StampHolds(t)
  BY <1>1 DEF StampHolds, Midway
<1> QED BY <1>1, <1>2, <1>3, DeletionInit DEF StampInv, StampsHold

\* While deletions come one after another, nobody else reloads, and nothing fails
\* or crashes, compute_delta skips no file whose rows are gone, although
\* delete_vector_chunks deletes rows while the manifest still names them: until it
\* saves the manifest no sync reads it, and what a sync saves has its rows.
THEOREM StampsSurviveDeletions == ASSUME OneDeletion PROVE Spec => []LostRowsNeedAFailure
<1>1. StampInv => LostRowsNeedAFailure
  <2> SUFFICES ASSUME StampInv, NothingFailed,
                      NEW f \in Skipped, \A t \in Thread : local[t].file # f
               PROVE  <<f, manifest[f].ids>> \in vectors
    BY DEF LostRowsNeedAFailure, SkippedIsEmbedded, NothingFailed
  <2>1. f \in Listed(manifest) /\ ~Outdated(f)
    BY DEF Skipped, Present, Outdated
  <2> QED BY <2>1 DEF StampInv, StampsHold
<1>2. StampInv /\ [Next]_vars => StampInv'
  BY StampNext
<1> QED BY StampInit, <1>1, <1>2, PTL DEF Spec

=============================================================================
