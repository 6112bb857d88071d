--------------------------- MODULE ContextPackProofs ---------------------------
(***************************************************************************)
(* Proofs about ContextPack, for all budgets, sizes and numbers of turns.  *)
(* That a run fails only when a compaction wrote in between, or the        *)
(* archive deleted, needs only what the run knows of the checkpoint        *)
(* between its read and its write.  That a stored turn leaves something    *)
(* behind, its message or a summary, needs the types of messages, and that *)
(* a number names one message wherever it is held.  That a graph fits, or  *)
(* has nothing left to take away, needs both, and what a run knows when it *)
(* measures.                                                               *)
(***************************************************************************)
EXTENDS ContextPack, SequenceTheorems, FiniteSetTheorems, WellFoundedInduction, TLAPS

\* The stages in which the run holds messages that it will remove.
Holding == {"reading", "compacting", "summarizing", "dropping"}

\* The inductive invariant: the messages a run holds are in the checkpoint
\* unless a compaction wrote, or the archive deleted, after they were read.
HeldIsThere ==
    run.at \in Holding => (run.crossed = TRUE \/ Removable(run.loaded))

\* A run is a record with the fields that the argument is about.
IsRun(r) == {"at", "loaded", "crossed"} \subseteq DOMAIN r

RunShape == IsRun(run)

HInv == RunShape /\ HeldIsThere

\* What follows a read holds what was read and nothing else.
LEMMA ReadyShape ==
    ASSUME NEW r, NEW ms, IsRun(r)
    PROVE  IsRun(Ready(r, ms)) /\ Ready(r, ms).at = "ready"
BY DEF Ready, IsRun

LEMMA DropShape ==
    ASSUME NEW r, NEW ms, IsRun(r)
    PROVE  /\ IsRun(Drop(r, ms))
           /\ Drop(r, ms).loaded = ms
           /\ Drop(r, ms).at # "idle"
BY DEF Drop, IsRun

LEMMA ShrinkShape ==
    ASSUME NEW r, NEW ms, IsRun(r)
    PROVE  /\ IsRun(Shrink(r, ms))
           /\ Shrink(r, ms).loaded = ms
           /\ Shrink(r, ms).at # "idle"
BY DropShape DEF Shrink, IsRun

Fails == run.at # "graph" /\ run.at # "idle" /\ run'.at = "idle"

\* A read of the checkpoint that leaves it alone.
LEMMA ReadStep ==
    ASSUME HInv, checkpoint' = checkpoint,
           \/ run' = Ready(run, checkpoint)
           \/ run' = [Ready(run, checkpoint) EXCEPT !.crossed = run.crossed]
           \/ run' = Drop(run, checkpoint)
           \/ run' = Shrink(run, checkpoint)
    PROVE  HInv' /\ run'.at # "idle"
<1>1. CASE \/ run' = Ready(run, checkpoint)
           \/ run' = [Ready(run, checkpoint) EXCEPT !.crossed = run.crossed]
  BY <1>1, ReadyShape DEF HInv, RunShape, IsRun, HeldIsThere, Holding
<1>2. CASE run' = Drop(run, checkpoint)
  BY <1>2, DropShape DEF HInv, RunShape, HeldIsThere, Holding, Removable
<1>3. CASE run' = Shrink(run, checkpoint)
  BY <1>3, ShrinkShape DEF HInv, RunShape, HeldIsThere, Holding, Removable
<1> QED
  BY <1>1, <1>2, <1>3

\* A write succeeds, after which the run holds nothing, or fails since what the
\* run holds is not there.
LEMMA WriteStep ==
    ASSUME HInv, run.at \in Holding,
           NEW removed, NEW added, NEW next \in {"reloading", "summarized", "measuring"},
           Write(removed, added, next)
    PROVE  HInv' /\ (Fails => run.crossed)
<1>1. CASE Removable(run.loaded)
  <2>1. run' = [run EXCEPT !.at = next]
    BY <1>1 DEF Write
  <2> QED
    BY <2>1 DEF HInv, RunShape, IsRun, HeldIsThere, Holding, Fails
<1>2. CASE ~Removable(run.loaded)
  <2>1. run' = NoRun
    BY <1>2 DEF Write
  <2>2. HInv'
    BY <2>1 DEF HInv, RunShape, IsRun, HeldIsThere, Holding, NoRun
  <2>3. run.crossed
    BY <1>2 DEF HInv, HeldIsThere
  <2> QED
    BY <2>2, <2>3
<1> QED
  BY <1>1, <1>2

LEMMA NextStep ==
    ASSUME HInv, Next
    PROVE  HInv' /\ (Fails => run.crossed)
<1>1. ASSUME NEW memory \in Memory \cup {Nothing}, NEW docs \in Docs \cup {Nothing},
             NEW size \in UserSizes, Assemble(memory, docs, size)
      PROVE  HInv' /\ (Fails => run.crossed)
  BY <1>1 DEF Assemble, NoRun, HInv, RunShape, IsRun, HeldIsThere, Holding, Fails
<1>15. CASE CreateRun
  BY <1>15 DEF CreateRun, NoRun, HInv, RunShape, IsRun, HeldIsThere, Holding, Fails
<1>16. CASE Archive
  BY <1>16 DEF Archive, HInv, RunShape, IsRun, HeldIsThere, Holding, Fails
<1>2. CASE Load
  <2>1. CASE Fits(checkpoint)
    BY <1>2, <2>1, ReadStep DEF Load, Fails
  <2>2. CASE ~Fits(checkpoint) /\ Len(checkpoint) > Threshold
    BY <1>2, <2>2
       DEF Load, HInv, RunShape, IsRun, HeldIsThere, Holding, Removable, Fails
  <2>3. CASE ~Fits(checkpoint) /\ ~(Len(checkpoint) > Threshold)
    BY <1>2, <2>3, ReadStep DEF Load, Fails
  <2> QED
    BY <2>1, <2>2, <2>3
<1>3. CASE ReadState
  <2>1. CASE NeedsCompaction(checkpoint)
    BY <1>3, <2>1
       DEF ReadState, HInv, RunShape, IsRun, HeldIsThere, Holding, Removable, Fails
  <2>2. CASE ~NeedsCompaction(checkpoint)
    <3> DEFINE r == Shrink(run, run.loaded)
    <3>1. IsRun(r) /\ r.loaded = run.loaded /\ r.at # "idle"
      BY ShrinkShape DEF HInv, RunShape
    <3>2. /\ run' = [r EXCEPT !.crossed = run.crossed]
          /\ run.at = "reading" /\ checkpoint' = checkpoint
      BY <1>3, <2>2 DEF ReadState
    <3> QED
      BY <3>1, <3>2 DEF HInv, RunShape, IsRun, HeldIsThere, Holding, Removable, Fails
  <2> QED
    BY <2>1, <2>2
<1>4. CASE CompactForRun
  BY <1>4, WriteStep DEF CompactForRun, Holding
<1>5. CASE Reload
  BY <1>5, ReadStep DEF Reload, Fails
<1>6. CASE Summarize
  BY <1>6, WriteStep DEF Summarize, Holding
<1>7. CASE LoadSummarized
  BY <1>7, ReadStep DEF LoadSummarized, Fails
<1>8. CASE DropOldest
  BY <1>8, WriteStep DEF DropOldest, Holding
<1>9. CASE Measure
  BY <1>9, ReadStep DEF Measure, Fails
<1>10. CASE StartGraph
  BY <1>10 DEF StartGraph, HInv, RunShape, IsRun, HeldIsThere, Holding, Fails
<1>11. ASSUME NEW tool \in BOOLEAN, EndGraph(tool)
       PROVE  HInv' /\ (Fails => run.crossed)
  BY <1>11 DEF EndGraph, NoRun, HInv, RunShape, IsRun, HeldIsThere, Holding, Fails
<1>12. CASE CompactionReads
  BY <1>12 DEF CompactionReads, HInv, RunShape, HeldIsThere, Removable, Fails
<1>13. CASE CompactionWrites
  <2>1. CASE Removable(compaction.seen)
    BY <1>13, <2>1
       DEF CompactionWrites, HInv, RunShape, IsRun, HeldIsThere, Holding, Fails
  <2>2. CASE ~Removable(compaction.seen)
    BY <1>13, <2>2
       DEF CompactionWrites, HInv, RunShape, HeldIsThere, Removable, Fails
  <2> QED
    BY <2>1, <2>2
<1> QED
  BY <1>1, <1>2, <1>3, <1>4, <1>5, <1>6, <1>7, <1>8, <1>9, <1>10, <1>11, <1>12, <1>13,
     <1>15, <1>16 DEF Next

\* A run of pack_checkpoint_for_budget or of its compactor raises a ValueError
\* only if a compaction of an earlier run wrote the checkpoint after the run
\* read it, or the archive of the thread deleted it: for all budgets, sizes and
\* numbers of turns, its own writes never make it fail.
THEOREM AssemblyFailsOnlyWhenCrossed == Spec => FailsOnlyWhenCrossed
<1>1. Init => HInv
  BY DEF Init, NoRun, HInv, RunShape, IsRun, HeldIsThere, Holding
<1>2. HInv /\ [Next]_vars => HInv'
  <2>1. ASSUME HInv, UNCHANGED vars
        PROVE  HInv'
    BY <2>1 DEF vars, HInv, RunShape, HeldIsThere, Removable
  <2> QED
    BY <2>1, NextStep
<1>3. HInv /\ [Next]_vars => [Fails => run.crossed]_vars
  BY NextStep
<1>4. [Fails => run.crossed]_vars
         => [(run.at # "graph" /\ run.at # "idle" /\ run'.at = "idle") => run.crossed]_vars
  BY DEF Fails
<1> QED
  BY <1>1, <1>2, <1>3, <1>4, PTL DEF Spec, FailsOnlyWhenCrossed

-----------------------------------------------------------------------------
(* Sequences of messages: what the helpers of the model keep, drop and number. *)

\* A finite set of numbers in ascending order: all of it, each number once.
LEMMA AscendingOrders ==
    ASSUME NEW S, S \subseteq Int, IsFiniteSet(S)
    PROVE  /\ Cardinality(S) \in Nat
           /\ Ascending(S) \in [1..Cardinality(S) -> S]
           /\ \A i \in S : \E k \in 1..Cardinality(S) : Ascending(S)[k] = i
           /\ \A k, l \in 1..Cardinality(S) : k < l => Ascending(S)[k] < Ascending(S)[l]
<1> DEFINE n == Cardinality(S)
           UpTo(i) == {j \in S : j <= i}
           rank == [i \in S |-> Cardinality(UpTo(i))]
           s == Ascending(S)
<1>0. \A i \in S : i \in Int
  OBVIOUS
<1>1. n \in Nat
  BY FS_CardinalityType
<1>2. ASSUME NEW i \in S
      PROVE  /\ IsFiniteSet(UpTo(i))
             /\ rank[i] = Cardinality(UpTo(i))
             /\ rank[i] \in 1..n
  <2>1. UpTo(i) \subseteq S /\ i \in UpTo(i)
    OBVIOUS
  <2>2. IsFiniteSet(UpTo(i)) /\ Cardinality(UpTo(i)) <= n
    BY <2>1, FS_Subset
  <2>3. Cardinality(UpTo(i)) \in Nat /\ Cardinality(UpTo(i)) # 0
    BY <2>1, <2>2, FS_CardinalityType, FS_EmptySet
  <2> HIDE DEF UpTo
  <2> QED BY <1>1, <2>2, <2>3
<1>3. ASSUME NEW i \in S, NEW j \in S, i < j
      PROVE  rank[i] < rank[j]
  <2>1. UpTo(i) \subseteq UpTo(j) /\ j \in UpTo(j) /\ j \notin UpTo(i)
    <3>1. i \in Int /\ j \in Int /\ ~(j <= i) /\ j <= j
      BY <1>0, <1>3
    <3>2. \A h \in S : h <= i => h <= j
      BY <1>0, <1>3
    <3> QED BY <3>1, <3>2
  <2> HIDE DEF UpTo
  <2>2. Cardinality(UpTo(i)) <= Cardinality(UpTo(j))
        /\ Cardinality(UpTo(i)) # Cardinality(UpTo(j))
    BY <1>2, <2>1, FS_Subset
  <2>3. rank[i] \in Nat /\ rank[j] \in Nat
    BY <1>2
  <2> QED BY <1>2, <2>2, <2>3
<1> HIDE DEF UpTo
<1>4. rank \in [S -> 1..n]
  BY <1>2
<1>5. \A i, j \in S : rank[i] = rank[j] => i = j
  <2> SUFFICES ASSUME NEW i \in S, NEW j \in S, rank[i] = rank[j], i # j
               PROVE  FALSE
    OBVIOUS
  <2>1. i < j \/ j < i
    OBVIOUS
  <2>2. rank[i] \in 1..n /\ rank[j] \in 1..n
    BY <1>2
  <2> HIDE DEF rank
  <2> QED BY <1>3, <2>1, <2>2
<1>6. \A k \in 1..n : \E i \in S : rank[i] = k
  <2> HIDE DEF rank
  <2>1. rank \in Injection(S, 1..n)
    BY <1>4, <1>5 DEF Injection, IsInjective
  <2>2. IsFiniteSet(1..n) /\ Cardinality(1..n) = n
    BY <1>1, FS_Interval
  <2>3. rank \in Surjection(S, 1..n)
    BY <2>1, <2>2, FS_Injection
  <2> QED BY <2>3 DEF Surjection
<1>7. ASSUME NEW k \in 1..n
      PROVE  s[k] \in S /\ rank[s[k]] = k
  <2>1. s[k] = CHOOSE i \in S : Cardinality(UpTo(i)) = k
    BY DEF Ascending, UpTo
  <2>2. \E i \in S : Cardinality(UpTo(i)) = k
    BY <1>6
  <2> QED BY <2>1, <2>2
<1>8. s = [k \in 1..n |-> s[k]]
  <2>1. s = [k \in 1..n |-> CHOOSE i \in S : Cardinality(UpTo(i)) = k]
    BY DEF Ascending, UpTo
  <2> QED BY <2>1
<1> HIDE DEF rank, s
<1>9. ASSUME NEW k \in 1..n, NEW l \in 1..n, k < l
      PROVE  s[k] < s[l]
  <2>1. s[k] \in S /\ s[l] \in S /\ rank[s[k]] = k /\ rank[s[l]] = l
    BY <1>7
  <2>2. ~(s[l] < s[k])
    <3> SUFFICES ASSUME s[l] < s[k] PROVE FALSE
      OBVIOUS
    <3>1. rank[s[l]] < rank[s[k]]
      BY <1>3, <2>1
    <3> QED BY <1>9, <2>1, <3>1
  <2>3. s[k] \in Int /\ s[l] \in Int
    BY <1>0, <2>1
  <2>4. k # l
    BY <1>1, <1>9
  <2>5. s[k] # s[l]
    BY <2>1, <2>4
  <2> QED BY <2>2, <2>3, <2>5
<1>10. \A i \in S : \E k \in 1..n : s[k] = i
  BY <1>4, <1>5, <1>7
<1>11. s \in [1..n -> S]
  BY <1>7, <1>8
<1> QED BY <1>1, <1>9, <1>10, <1>11 DEF s

\* The values of a function on the places of a sequence are finitely many.
LEMMA FinitelyMany ==
    ASSUME NEW n \in Nat, NEW f, NEW S, S = {f[i] : i \in 1..n}
    PROVE  IsFiniteSet(S) /\ Cardinality(S) \in Nat
<1> DEFINE g == [i \in 1..n |-> f[i]]
<1>1. g \in Surjection(1..n, S)
  <2>1. g \in [1..n -> S] /\ \A i \in 1..n : g[i] = f[i]
    OBVIOUS
  <2>2. \A t \in S : \E i \in 1..n : g[i] = t
    OBVIOUS
  <2> HIDE DEF g
  <2> QED BY <2>1, <2>2 DEF Surjection
<1>2. IsFiniteSet(1..n)
  BY FS_Interval
<1>3. IsFiniteSet(S)
  BY <1>1, <1>2, FS_Surjection
<1> QED BY <1>3, FS_CardinalityType

\* Some places of a sequence in their order.
LEMMA PlacesInOrder ==
    ASSUME NEW n \in Nat, NEW P, P \subseteq 1..n
    PROVE  /\ Ascending(P) \in Seq(P) /\ Ascending(P) \in Seq(1..n)
           /\ Len(Ascending(P)) = Cardinality(P) /\ Cardinality(P) \in Nat
           /\ \A i \in P : \E k \in 1..Len(Ascending(P)) : Ascending(P)[k] = i
           /\ \A k \in 1..Len(Ascending(P)) : Ascending(P)[k] \in P
           /\ \A k, l \in 1..Len(Ascending(P)) : k < l => Ascending(P)[k] < Ascending(P)[l]
<1>1. P \subseteq Int /\ IsFiniteSet(P)
  <2>1. IsFiniteSet(1..n)
    BY FS_Interval
  <2>2. IsFiniteSet(P)
    BY <2>1, FS_Subset
  <2> QED BY <2>2
<1> DEFINE s == Ascending(P)
<1> HIDE DEF s
<1>2. /\ Cardinality(P) \in Nat
      /\ s \in [1..Cardinality(P) -> P]
      /\ \A i \in P : \E k \in 1..Cardinality(P) : s[k] = i
      /\ \A k, l \in 1..Cardinality(P) : k < l => s[k] < s[l]
  BY <1>1, AscendingOrders DEF s
<1>3. s \in Seq(P) /\ Len(s) = Cardinality(P)
  BY <1>2
<1>4. \A k \in 1..Len(s) : s[k] \in P
  BY <1>2, <1>3
<1>5. s \in [1..Cardinality(P) -> 1..n]
  BY <1>2
<1>6. s \in Seq(1..n)
  BY <1>2, <1>5
<1> QED BY <1>2, <1>3, <1>4, <1>6, Zenon DEF s

\* What Omit leaves, in its order, and nothing else.
LEMMA OmitLeaves ==
    ASSUME NEW S, NEW ms \in Seq(S), NEW gone
    PROVE  /\ Omit(ms, gone) \in Seq(S)
           /\ Len(Omit(ms, gone)) = Len(Ascending(1..Len(ms) \ gone))
           /\ \A k \in 1..Len(Omit(ms, gone)) :
                 /\ Ascending(1..Len(ms) \ gone)[k] \in 1..Len(ms) \ gone
                 /\ Omit(ms, gone)[k] = ms[Ascending(1..Len(ms) \ gone)[k]]
           /\ \A i \in 1..Len(ms) \ gone : \E k \in 1..Len(Omit(ms, gone)) :
                 Ascending(1..Len(ms) \ gone)[k] = i /\ Omit(ms, gone)[k] = ms[i]
<1> DEFINE P == 1..Len(ms) \ gone
           kept == Ascending(P)
           m == Omit(ms, gone)
<1>1. Len(ms) \in Nat /\ DOMAIN ms = 1..Len(ms) /\ \A i \in 1..Len(ms) : ms[i] \in S
  OBVIOUS
<1>2. m = [i \in 1..Len(kept) |-> ms[kept[i]]]
  <2>1. DOMAIN ms \ gone = P
    BY <1>1
  <2> QED BY <2>1, Zenon DEF Omit
<1>3. /\ kept \in Seq(P)
      /\ \A i \in P : \E k \in 1..Len(kept) : kept[k] = i
      /\ \A k \in 1..Len(kept) : kept[k] \in P
  <2> HIDE DEF P
  <2>1. P \subseteq 1..Len(ms)
    BY DEF P
  <2> QED BY <1>1, <2>1, PlacesInOrder
<1> HIDE DEF kept, m
<1>4. Len(kept) \in Nat
  BY <1>3
<1>5. \A k \in 1..Len(kept) : ms[kept[k]] \in S
  BY <1>1, <1>3
<1>6. m \in Seq(S) /\ Len(m) = Len(kept)
  BY <1>2, <1>4, <1>5
<1>7. \A k \in 1..Len(m) : m[k] = ms[kept[k]]
  BY <1>2, <1>6
<1>8. \A i \in P : \E k \in 1..Len(m) : kept[k] = i /\ m[k] = ms[i]
  BY <1>3, <1>6, <1>7
<1>9. \A k \in 1..Len(m) : kept[k] \in P
  BY <1>3, <1>6
<1> QED BY <1>6, <1>7, <1>8, <1>9, Zenon DEF m, kept, P

-----------------------------------------------------------------------------
(* The types.  Messages that speak of a turn name one.                          *)

Sound ==
    {m \in Message : m.kind \in {"user", "call", "tool", "answer"} => m.text \in Turn}

TypeInv ==
    /\ checkpoint \in Seq(Sound)
    /\ run \in Run
    /\ run.input \in Seq(Sound) /\ run.loaded \in Seq(Sound) /\ run.graph \in Seq(Sound)
    /\ compaction \in [at : {"none", "reading", "writing"}, seen : Seq(Sound)]
    /\ turns \in 0..MaxTurns
    /\ run.at # "idle" => turns \in Turn
    /\ archived \in BOOLEAN
    /\ answered \subseteq Turn
    /\ split \subseteq Turn

LEMMA SoundIsMessage ==
    /\ Sound \subseteq Message
    /\ \A ms \in Seq(Sound) : ms \in Seq(Message)
<1>1. Sound \subseteq Message
  BY DEF Sound
<1> QED BY <1>1, SeqDef

Places(ms) == UNION {{i} \X (1..ms[i].size) : i \in DOMAIN ms}

\* Any text has a number of characters.
LEMMA CharsAreCounted ==
    ASSUME NEW ms \in Seq(Sound)
    PROVE  /\ IsFiniteSet(Places(ms))
           /\ Chars(ms) = Cardinality(Places(ms)) /\ Chars(ms) \in Nat
<1> DEFINE at == [i \in 1..Len(ms) |-> {i} \X (1..ms[i].size)]
           all == {at[i] : i \in 1..Len(ms)}
<1>1. Len(ms) \in Nat /\ DOMAIN ms = 1..Len(ms) /\ \A i \in 1..Len(ms) : ms[i] \in Sound
  <2> HIDE DEF Sound
  <2> QED OBVIOUS
<1>2. \A i \in 1..Len(ms) : ms[i].size \in Nat
  <2> TAKE i \in 1..Len(ms)
  <2>1. ms[i] \in Message
    BY <1>1, SoundIsMessage
  <2> QED BY <2>1 DEF Message
<1>3. \A T \in all : IsFiniteSet(T)
  <2> TAKE T \in all
  <2>1. PICK i \in 1..Len(ms) : T = {i} \X (1..ms[i].size)
    BY DEF at, all
  <2>2. IsFiniteSet({i})
    BY FS_Singleton
  <2>3. IsFiniteSet(1..ms[i].size)
    <3> DEFINE size == ms[i].size
    <3>1. size \in Int
      BY <1>2
    <3> HIDE DEF size
    <3>2. IsFiniteSet(1..size)
      BY <3>1, FS_Interval
    <3> QED BY <3>2 DEF size
  <2> QED BY <2>1, <2>2, <2>3, FS_Product
<1>4. IsFiniteSet(all)
  BY <1>1, FinitelyMany DEF all
<1>5. IsFiniteSet(UNION all)
  BY <1>3, <1>4, FS_UNION
<1>6. UNION all = Places(ms)
  <2>1. all = {{i} \X (1..ms[i].size) : i \in DOMAIN ms}
    BY <1>1 DEF at, all
  <2> QED BY <2>1 DEF Places
<1>7. Chars(ms) = Cardinality(Places(ms))
  BY Zenon DEF Chars, Places
<1> QED BY <1>5, <1>6, <1>7, FS_CardinalityType

\* What Say says is sound when what speaks of a turn names one.
LEMMA SaidIsSound ==
    ASSUME NEW kind \in Kind, NEW text,
           \/ text \in Turn
           \/ kind \notin {"user", "call", "tool", "answer"} /\ text \in Memory \cup Docs \cup {Nothing}
    PROVE  Say(kind, text) \in Sound
<1>1. Size[kind] \in Nat
  BY ContextAssumption
<1>2. Say(kind, text) = [id |-> 0, kind |-> kind, text |-> text, size |-> Size[kind]]
  BY DEF Say, NoId
<1>3. Say(kind, text) \in Message
  BY <1>1, <1>2 DEF Message
<1> QED BY <1>2, <1>3 DEF Sound

\* The place where the messages are split, and the two parts.
LEMMA SplitInTwo ==
    ASSUME NEW S, NEW ms \in Seq(S)
    PROVE  /\ SplitIndex(ms) \in 1..Len(ms) + 1
           /\ SplitIndex(ms) = 1 \/ SplitIndex(ms) \in Of(ms, "user")
           /\ Prefix(ms) \in Seq(S) /\ Len(Prefix(ms)) = SplitIndex(ms) - 1
           /\ \A i \in 1..SplitIndex(ms) - 1 : Prefix(ms)[i] = ms[i]
           /\ Suffix(ms) \in Seq(S) /\ Len(Suffix(ms)) = Len(ms) - SplitIndex(ms) + 1
           /\ \A i \in 1..Len(ms) - SplitIndex(ms) + 1 :
                 Suffix(ms)[i] = ms[SplitIndex(ms) + i - 1]
<1> DEFINE U == Of(ms, "user")
           users == Ascending(U)
           n == SplitIndex(ms)
<1>1. Len(ms) \in Nat /\ U \subseteq 1..Len(ms)
  BY DEF Of
<1>2. Len(users) \in Nat /\ \A k \in 1..Len(users) : users[k] \in U
  <2> HIDE DEF U
  <2>1. /\ Ascending(U) \in Seq(U)
        /\ \A k \in 1..Len(Ascending(U)) : Ascending(U)[k] \in U
    BY <1>1, PlacesInOrder
  <2> QED BY <2>1
<1>3. n = IF Len(users) <= KeepTurns THEN 1 ELSE users[Len(users) - KeepTurns + 1]
  BY DEF SplitIndex
<1> HIDE DEF U, users, n
<1>4. KeepTurns \in Nat /\ KeepTurns # 0
  BY ContextAssumption
<1>5. n = 1 \/ n \in U
  <2>1. CASE Len(users) <= KeepTurns
    BY <1>3, <2>1
  <2>2. CASE ~(Len(users) <= KeepTurns)
    <3>1. Len(users) - KeepTurns + 1 \in 1..Len(users)
      BY <1>2, <1>4, <2>2
    <3> QED BY <1>2, <1>3, <2>2, <3>1
  <2> QED BY <2>1, <2>2
<1>6. n \in 1..Len(ms) + 1
  <2>1. n = 1 \/ n \in 1..Len(ms)
    BY <1>1, <1>5
  <2>2. Len(ms) \in Nat
    BY <1>1
  <2> QED BY <2>1, <2>2
<1>7. \A i \in 1..Len(ms) : ms[i] \in S
  OBVIOUS
<1>8. /\ SubSeq(ms, 1, n - 1) \in Seq(S)
      /\ Len(SubSeq(ms, 1, n - 1)) = n - 1
      /\ \A i \in 1..n - 1 : SubSeq(ms, 1, n - 1)[i] = ms[i]
  <2>1. \A i \in 1..n - 1 : ms[i] \in S
    BY <1>1, <1>6, <1>7
  <2>2. n - 1 \in Int /\ n - 1 >= 0
    BY <1>1, <1>6
  <2>3. /\ SubSeq(ms, 1, n - 1) \in Seq(S)
        /\ Len(SubSeq(ms, 1, n - 1)) = IF 1 <= n - 1 THEN (n - 1) - 1 + 1 ELSE 0
        /\ \A i \in 1..(n - 1) - 1 + 1 : SubSeq(ms, 1, n - 1)[i] = ms[1 + i - 1]
    BY <2>1, <2>2, SubSeqProperties
  <2> QED BY <2>2, <2>3
<1>9. /\ SubSeq(ms, n, Len(ms)) \in Seq(S)
      /\ Len(SubSeq(ms, n, Len(ms))) = Len(ms) - n + 1
      /\ \A i \in 1..Len(ms) - n + 1 : SubSeq(ms, n, Len(ms))[i] = ms[n + i - 1]
  <2>1. \A i \in n..Len(ms) : ms[i] \in S
    BY <1>1, <1>6, <1>7
  <2>2. n \in Int /\ n <= Len(ms) + 1
    BY <1>1, <1>6
  <2>3. /\ SubSeq(ms, n, Len(ms)) \in Seq(S)
        /\ Len(SubSeq(ms, n, Len(ms))) = IF n <= Len(ms) THEN Len(ms) - n + 1 ELSE 0
        /\ \A i \in 1..Len(ms) - n + 1 : SubSeq(ms, n, Len(ms))[i] = ms[n + i - 1]
    BY <1>1, <2>1, <2>2, SubSeqProperties
  <2> QED BY <1>1, <2>2, <2>3
<1>10. Prefix(ms) = SubSeq(ms, 1, n - 1) /\ Suffix(ms) = SubSeq(ms, n, Len(ms))
  BY Zenon DEF Prefix, Suffix, n
<1> QED BY <1>5, <1>6, <1>8, <1>9, <1>10, Zenon DEF n, U

\* A message tells of a turn if a user says it there; what a summary tells of is
\* not known, and it may be any turn.
Tells(m, t) == (m.kind = "user" /\ m.text = t) \/ m.kind = "summary"

\* The turns that messages tell of.
Told(ms) == {t \in Turn : \E i \in DOMAIN ms : Tells(ms[i], t)}

\* A summary is sound, and tells of all turns.
LEMMA SummaryTells ==
    Summary \in Sound /\ Summary.kind = "summary" /\ \A t : Tells(Summary, t)
<1>1. Say("summary", Nothing) \in Sound
  BY SaidIsSound DEF Kind
<1>2. Say("summary", Nothing).kind = "summary"
  BY DEF Say
<1> QED BY <1>1, <1>2 DEF Summary, Tells

-----------------------------------------------------------------------------
(* Numbers of messages. *)

Used == UNION {Ids(checkpoint), Ids(run.loaded), Ids(run.graph), Ids(compaction.seen)}

LEMMA UsedIsFinite ==
    ASSUME TypeInv
    PROVE  IsFiniteSet(Used) /\ Cardinality(Used) \in Nat
<1>1. ASSUME NEW ms \in Seq(Sound)
      PROVE  IsFiniteSet(Ids(ms))
  <2> DEFINE f == [i \in 1..Len(ms) |-> ms[i].id]
  <2>1. Len(ms) \in Nat /\ DOMAIN ms = 1..Len(ms)
    <3> HIDE DEF Sound
    <3> QED OBVIOUS
  <2>2. Ids(ms) = {f[i] : i \in 1..Len(ms)}
    BY <2>1 DEF Ids
  <2> HIDE DEF f
  <2> QED BY <2>1, <2>2, FinitelyMany
<1> DEFINE A == Ids(checkpoint)
           B == Ids(run.loaded)
           C == Ids(run.graph)
           D == Ids(compaction.seen)
<1>2. IsFiniteSet(A) /\ IsFiniteSet(B) /\ IsFiniteSet(C) /\ IsFiniteSet(D)
  <2>1. /\ checkpoint \in Seq(Sound) /\ run.loaded \in Seq(Sound)
        /\ run.graph \in Seq(Sound) /\ compaction.seen \in Seq(Sound)
    <3> HIDE DEF Sound
    <3> QED BY DEF TypeInv
  <2> HIDE DEF Sound
  <2> QED BY <1>1, <2>1
<1>3. Used = (A \cup B) \cup (C \cup D)
  BY DEF Used
<1> HIDE DEF A, B, C, D
<1>4. IsFiniteSet(A \cup B) /\ IsFiniteSet(C \cup D)
  BY <1>2, FS_Union
<1>5. IsFiniteSet(Used)
  BY <1>3, <1>4, FS_Union
<1> QED BY <1>5, FS_CardinalityType

\* New gives each message a number of its own that nobody uses, and nothing else.
LEMMA NewNames ==
    ASSUME TypeInv, NEW ms \in Seq(Sound)
    PROVE  /\ New(ms) \in Seq(Sound) /\ Len(New(ms)) = Len(ms)
           /\ \A i \in 1..Len(ms) :
                 /\ New(ms)[i].kind = ms[i].kind /\ New(ms)[i].text = ms[i].text
                 /\ New(ms)[i].size = ms[i].size
                 /\ New(ms)[i].id \notin Used
           /\ \A i, j \in 1..Len(ms) : New(ms)[i].id = New(ms)[j].id => i = j
<1> DEFINE n == Cardinality(Used) + Len(ms)
           F == 1..n \ Used
           free == Ascending(F)
<1>1. Len(ms) \in Nat /\ DOMAIN ms = 1..Len(ms) /\ \A i \in 1..Len(ms) : ms[i] \in Sound
  <2> HIDE DEF Sound
  <2> QED OBVIOUS
<1>2. New(ms) = [i \in 1..Len(ms) |-> [ms[i] EXCEPT !.id = free[i]]]
  <2>1. New(ms) = [i \in DOMAIN ms |-> [ms[i] EXCEPT !.id = free[i]]]
    BY Zenon DEF New, Used
  <2> QED BY <1>1, <2>1
<1>3. n \in Nat /\ F \subseteq 1..n
  BY <1>1, UsedIsFinite
<1>4. Cardinality(F) \in Nat /\ Cardinality(F) >= Len(ms)
  <2> HIDE DEF n
  <2>1. IsFiniteSet(1..n) /\ Cardinality(1..n) = n
    BY <1>3, FS_Interval
  <2>2. /\ IsFiniteSet(F)
        /\ Cardinality(F) = Cardinality(1..n) - Cardinality((1..n) \cap Used)
    BY <2>1, FS_Difference DEF F
  <2>3. /\ IsFiniteSet((1..n) \cap Used)
        /\ Cardinality((1..n) \cap Used) <= Cardinality(Used)
    BY UsedIsFinite, FS_Subset
  <2>4. Cardinality((1..n) \cap Used) \in Nat /\ Cardinality(F) \in Nat
    BY <2>2, <2>3, FS_CardinalityType
  <2>5. n = Cardinality(Used) + Len(ms) /\ Cardinality(Used) \in Nat
    BY UsedIsFinite DEF n
  <2> QED BY <1>1, <2>1, <2>2, <2>3, <2>4, <2>5
<1> HIDE DEF n
<1>5. /\ Len(free) = Cardinality(F)
      /\ \A k \in 1..Len(free) : free[k] \in F
      /\ \A k, l \in 1..Len(free) : k < l => free[k] < free[l]
  <2> HIDE DEF F
  <2> QED BY <1>3, PlacesInOrder
<1> HIDE DEF free
<1>10. \A i \in 1..Len(ms) : i \in 1..Len(free) /\ i \in Int
  <2> HIDE DEF F
  <2> QED BY <1>1, <1>4, <1>5
<1>6. \A i \in 1..Len(ms) : free[i] \in Nat /\ free[i] \notin Used
  <2> TAKE i \in 1..Len(ms)
  <2>1. free[i] \in F
    BY <1>5, <1>10
  <2>2. free[i] \in 1..n /\ free[i] \notin Used
    BY <2>1
  <2> QED BY <1>3, <2>2
<1>7. \A i, j \in 1..Len(ms) : free[i] = free[j] => i = j
  <2> SUFFICES ASSUME NEW i \in 1..Len(ms), NEW j \in 1..Len(ms), i # j
               PROVE  free[i] # free[j]
    OBVIOUS
  <2>1. i < j \/ j < i
    BY <1>1
  <2>2. free[i] < free[j] \/ free[j] < free[i]
    BY <1>5, <1>10, <2>1
  <2>3. free[i] \in Nat /\ free[j] \in Nat
    BY <1>6
  <2> QED BY <2>2, <2>3
<1>8. \A i \in 1..Len(ms) :
         /\ New(ms)[i] \in Sound /\ New(ms)[i].id = free[i]
         /\ New(ms)[i].kind = ms[i].kind /\ New(ms)[i].text = ms[i].text
         /\ New(ms)[i].size = ms[i].size
  <2> TAKE i \in 1..Len(ms)
  <2> DEFINE m == ms[i]
  <2>1. New(ms)[i] = [m EXCEPT !.id = free[i]]
    BY <1>2
  <2>2. m \in Sound /\ free[i] \in Nat
    BY <1>1, <1>6
  <2> HIDE DEF m
  <2>3. [m EXCEPT !.id = free[i]] \in Sound
    BY <2>2 DEF Sound, Message
  <2>4. /\ [m EXCEPT !.id = free[i]].id = free[i]
        /\ [m EXCEPT !.id = free[i]].kind = m.kind
        /\ [m EXCEPT !.id = free[i]].text = m.text
        /\ [m EXCEPT !.id = free[i]].size = m.size
    BY <2>2 DEF Sound, Message
  <2> QED BY <2>1, <2>3, <2>4 DEF m
<1>9. New(ms) \in Seq(Sound) /\ Len(New(ms)) = Len(ms)
  <2> HIDE DEF Sound
  <2>1. New(ms) \in [1..Len(ms) -> Sound]
    BY <1>2, <1>8
  <2> QED BY <1>1, <2>1
<1> QED BY <1>6, <1>7, <1>8, <1>9

RangeOf(ms) == {ms[i] : i \in DOMAIN ms}

\* The messages that somebody holds, and has a number of.
Held ==
    UNION {RangeOf(checkpoint), RangeOf(run.loaded), RangeOf(run.graph),
           RangeOf(compaction.seen)}

\* A number names one message, wherever it is held.
SameIds == \A m \in Held, n \in Held : m.id = n.id => m = n

\* It still does when new messages are added.
LEMMA NewHaveOwnIds ==
    ASSUME TypeInv, SameIds, NEW ms \in Seq(Sound), Held' \subseteq Held \cup RangeOf(New(ms))
    PROVE  SameIds'
<1>1. \A m \in Held : m.id \in Used
  BY DEF Held, RangeOf, Used, Ids
<1>2. /\ DOMAIN New(ms) = 1..Len(ms)
      /\ \A i \in 1..Len(ms) : New(ms)[i].id \notin Used
      /\ \A i, j \in 1..Len(ms) : New(ms)[i].id = New(ms)[j].id => i = j
  <2>1. New(ms) \in Seq(Sound) /\ Len(New(ms)) = Len(ms)
    BY NewNames
  <2>2. DOMAIN New(ms) = 1..Len(ms)
    <3> HIDE DEF Sound
    <3> QED BY <2>1
  <2> QED BY <2>2, NewNames
<1>3. \A m \in RangeOf(New(ms)) :
         /\ m.id \notin Used
         /\ \A k \in RangeOf(New(ms)) : m.id = k.id => m = k
  BY <1>2 DEF RangeOf
<1>4. \A m, k \in Held \cup RangeOf(New(ms)) : m.id = k.id => m = k
  BY <1>1, <1>3 DEF SameIds
<1> QED BY <1>4 DEF SameIds

-----------------------------------------------------------------------------
(* What messages tell. *)

LEMMA ToldByMessages ==
    ASSUME NEW ms, NEW t
    PROVE  t \in Told(ms) <=> t \in Turn /\ \E m \in RangeOf(ms) : Tells(m, t)
BY DEF Told, RangeOf

LEMMA RangeOfConcat ==
    ASSUME NEW S, NEW a \in Seq(S), NEW b \in Seq(S)
    PROVE  /\ a \o b \in Seq(S)
           /\ RangeOf(a \o b) = RangeOf(a) \cup RangeOf(b)
<1>1. /\ Len(a) \in Nat /\ DOMAIN a = 1..Len(a)
      /\ Len(b) \in Nat /\ DOMAIN b = 1..Len(b)
  OBVIOUS
<1>2. /\ a \o b \in Seq(S) /\ Len(a \o b) = Len(a) + Len(b)
      /\ DOMAIN (a \o b) = 1..Len(a) + Len(b)
      /\ \A i \in 1..Len(a) + Len(b) :
            (a \o b)[i] = IF i <= Len(a) THEN a[i] ELSE b[i - Len(a)]
  BY ConcatProperties
<1> DEFINE c == a \o b
<1> HIDE DEF c
<1>3. RangeOf(c) \subseteq RangeOf(a) \cup RangeOf(b)
  <2> SUFFICES ASSUME NEW i \in 1..Len(a) + Len(b)
               PROVE  c[i] \in RangeOf(a) \cup RangeOf(b)
    BY <1>2 DEF RangeOf, c
  <2>1. CASE i <= Len(a)
    <3>1. c[i] = a[i] /\ i \in DOMAIN a
      BY <1>1, <1>2, <2>1 DEF c
    <3> QED BY <3>1 DEF RangeOf
  <2>2. CASE ~(i <= Len(a))
    <3>1. c[i] = b[i - Len(a)] /\ i - Len(a) \in DOMAIN b
      BY <1>1, <1>2, <2>2 DEF c
    <3> QED BY <3>1 DEF RangeOf
  <2> QED BY <2>1, <2>2
<1>4. RangeOf(a) \subseteq RangeOf(c)
  <2> SUFFICES ASSUME NEW i \in 1..Len(a)
               PROVE  a[i] \in RangeOf(c)
    BY <1>1 DEF RangeOf
  <2>1. i \in DOMAIN c /\ c[i] = a[i]
    BY <1>1, <1>2 DEF c
  <2> QED BY <2>1 DEF RangeOf
<1>5. RangeOf(b) \subseteq RangeOf(c)
  <2> SUFFICES ASSUME NEW i \in 1..Len(b)
               PROVE  b[i] \in RangeOf(c)
    BY <1>1 DEF RangeOf
  <2>1. Len(a) + i \in DOMAIN c /\ c[Len(a) + i] = b[i]
    BY <1>1, <1>2 DEF c
  <2> QED BY <2>1 DEF RangeOf
<1> QED BY <1>2, <1>3, <1>4, <1>5 DEF c

LEMMA ToldConcat ==
    ASSUME NEW S, NEW a \in Seq(S), NEW b \in Seq(S)
    PROVE  Told(a \o b) = Told(a) \cup Told(b)
<1>1. RangeOf(a \o b) = RangeOf(a) \cup RangeOf(b)
  BY RangeOfConcat
<1>2. ASSUME NEW t
      PROVE  t \in Told(a \o b) <=> t \in Told(a) \cup Told(b)
  <2>1. t \in Told(a \o b) <=> t \in Turn /\ \E m \in RangeOf(a) \cup RangeOf(b) : Tells(m, t)
    BY <1>1, ToldByMessages
  <2> QED BY <2>1, ToldByMessages
<1> QED BY <1>2

\* What was given numbers tells the same.
LEMMA ToldByNew ==
    ASSUME TypeInv, NEW ms \in Seq(Sound)
    PROVE  Told(New(ms)) = Told(ms)
<1>1. Len(ms) \in Nat /\ DOMAIN ms = 1..Len(ms)
  <2> HIDE DEF Sound
  <2> QED OBVIOUS
<1>2. DOMAIN New(ms) = 1..Len(ms)
  <2>1. New(ms) \in Seq(Sound) /\ Len(New(ms)) = Len(ms)
    BY NewNames
  <2> HIDE DEF Sound
  <2> QED BY <2>1
<1>3. \A i \in 1..Len(ms) :
         New(ms)[i].kind = ms[i].kind /\ New(ms)[i].text = ms[i].text
  BY NewNames
<1> QED BY <1>1, <1>2, <1>3, Zenon DEF Told, Tells

LEMMA OmitRange ==
    ASSUME NEW S, NEW ms \in Seq(S), NEW gone
    PROVE  /\ Omit(ms, gone) \in Seq(S)
           /\ RangeOf(Omit(ms, gone)) = {ms[i] : i \in DOMAIN ms \ gone}
<1> DEFINE m == Omit(ms, gone)
           s == Ascending(1..Len(ms) \ gone)
<1>1. /\ m \in Seq(S)
      /\ \A k \in 1..Len(m) : s[k] \in 1..Len(ms) \ gone /\ m[k] = ms[s[k]]
      /\ \A i \in 1..Len(ms) \ gone : \E k \in 1..Len(m) : s[k] = i /\ m[k] = ms[i]
  BY OmitLeaves
<1> HIDE DEF m, s
<1>2. DOMAIN m = 1..Len(m) /\ DOMAIN ms = 1..Len(ms)
  BY <1>1
<1>3. RangeOf(m) \subseteq {ms[i] : i \in DOMAIN ms \ gone}
  BY <1>1, <1>2 DEF RangeOf
<1>4. {ms[i] : i \in DOMAIN ms \ gone} \subseteq RangeOf(m)
  BY <1>1, <1>2 DEF RangeOf
<1> QED BY <1>1, <1>3, <1>4 DEF m

\* An update of the checkpoint forgets nothing if what it adds tells what it
\* removes did.
LEMMA UpdateTells ==
    ASSUME TypeInv, SameIds, NEW removed \in Seq(Sound), NEW added \in Seq(Sound),
           RangeOf(removed) \subseteq Held, Told(removed) \subseteq Told(added)
    PROVE  /\ Updated(removed, added) \in Seq(Sound)
           /\ RangeOf(Updated(removed, added)) \subseteq Held \cup RangeOf(New(added))
           /\ Told(checkpoint) \subseteq Told(Updated(removed, added))
<1> DEFINE gone == {i \in DOMAIN checkpoint : checkpoint[i].id \in Ids(removed)}
           rest == Omit(checkpoint, gone)
<1>1. checkpoint \in Seq(Sound)
  <2> HIDE DEF Sound
  <2> QED BY DEF TypeInv
<1>2. Len(checkpoint) \in Nat /\ DOMAIN checkpoint = 1..Len(checkpoint)
  <2> HIDE DEF Sound
  <2> QED BY <1>1
<1>3. Updated(removed, added) = rest \o New(added)
  BY Zenon DEF Updated
<1>4. New(added) \in Seq(Sound)
  BY NewNames
<1> HIDE DEF gone
<1>5. /\ rest \in Seq(Sound)
      /\ RangeOf(rest) \subseteq RangeOf(checkpoint)
      /\ \A i \in DOMAIN checkpoint : i \notin gone => checkpoint[i] \in RangeOf(rest)
  <2>1. rest \in Seq(Sound) /\ RangeOf(rest) = {checkpoint[i] : i \in DOMAIN checkpoint \ gone}
    <3> HIDE DEF Sound
    <3> QED BY <1>1, OmitRange
  <2> HIDE DEF rest
  <2> QED BY <2>1 DEF RangeOf
<1> HIDE DEF rest
<1>6. /\ Updated(removed, added) \in Seq(Sound)
      /\ RangeOf(Updated(removed, added)) = RangeOf(rest) \cup RangeOf(New(added))
  <2> HIDE DEF Sound
  <2> QED BY <1>3, <1>4, <1>5, RangeOfConcat
<1>7. Told(Updated(removed, added)) = Told(rest) \cup Told(added)
  <2>1. Told(New(added)) = Told(added)
    BY ToldByNew
  <2> HIDE DEF Sound
  <2> QED BY <1>3, <1>4, <1>5, <2>1, ToldConcat
<1>8. ASSUME NEW t \in Told(checkpoint)
      PROVE  t \in Told(rest) \cup Told(added)
  <2>1. PICK m \in RangeOf(checkpoint) : Tells(m, t)
    BY ToldByMessages
  <2>2. PICK i \in DOMAIN checkpoint : m = checkpoint[i]
    BY DEF RangeOf
  <2>3. CASE i \notin gone
    BY <1>5, <2>1, <2>2, <2>3, ToldByMessages
  <2>4. CASE i \in gone
    <3>1. m.id \in Ids(removed)
      BY <2>2, <2>4 DEF gone
    <3>2. PICK r \in RangeOf(removed) : r.id = m.id
      BY <3>1 DEF Ids, RangeOf
    <3>3. m \in Held /\ r \in Held
      BY DEF Held
    <3>4. r = m
      BY <3>2, <3>3 DEF SameIds
    <3>5. t \in Told(removed)
      BY <2>1, <3>4, ToldByMessages
    <3> QED BY <3>5
  <2> QED BY <2>3, <2>4
<1>9. RangeOf(checkpoint) \subseteq Held
  BY DEF Held
<1> QED BY <1>5, <1>6, <1>7, <1>8, <1>9

-----------------------------------------------------------------------------
(* Something is left.  A run carries the turn it answers in its input, then in  *)
(* its graph; of a stored turn the user's message or some summary is there.     *)

\* A run that holds sound messages.
RunS == {r \in Run : r.input \in Seq(Sound) /\ r.loaded \in Seq(Sound) /\ r.graph \in Seq(Sound)}

\* The turns whose user speaks in ms.
Asked(ms) == {ms[i].text : i \in Of(ms, "user")}

\* Of an answered turn the message or some summary is there, and the run carries
\* its own.
Kept ==
    /\ answered \subseteq Told(checkpoint)
    /\ run.at = "graph" => answered \cup {turns} \subseteq Told(run.graph)
    /\ run.at \notin {"idle", "created", "graph"} => turns \in Asked(run.input)

MemInv == TypeInv /\ SameIds /\ Kept

LEMMA TypeInvIsTyped == TypeInv => TypeOK
<1> SUFFICES ASSUME TypeInv PROVE TypeOK
  OBVIOUS
<1>1. checkpoint \in Seq(Message)
  <2>1. checkpoint \in Seq(Sound)
    <3> HIDE DEF Sound
    <3> QED BY DEF TypeInv
  <2> QED BY <2>1, SoundIsMessage
<1>2. compaction \in [at : {"none", "reading", "writing"}, seen : Seq(Message)]
  <2> DEFINE S == Seq(Sound)
             M == Seq(Message)
  <2>1. \A ms \in S : ms \in M
    BY SoundIsMessage
  <2>2. compaction \in [at : {"none", "reading", "writing"}, seen : S]
    BY DEF TypeInv
  <2> HIDE DEF S, M
  <2>3. compaction \in [at : {"none", "reading", "writing"}, seen : M]
    BY <2>1, <2>2
  <2> QED BY <2>3 DEF M
<1> QED BY <1>1, <1>2 DEF TypeInv, TypeOK

LEMMA TypedRun ==
    /\ TypeInv => run \in RunS /\ checkpoint \in Seq(Sound)
    /\ NoRun \in RunS
<1> DEFINE S == Seq(Sound)
           M == Seq(Message)
<1>1. <<>> \in S /\ <<>> \in M
  OBVIOUS
<1> HIDE DEF S, M
<1>2. NoRun \in Run
  BY <1>1 DEF Run, NoRun, M
<1>3. NoRun.input \in S /\ NoRun.loaded \in S /\ NoRun.graph \in S
  BY <1>1 DEF NoRun
<1>4. TypeInv => run \in RunS /\ checkpoint \in S
  BY DEF TypeInv, RunS, S
<1> QED BY <1>2, <1>3, <1>4 DEF RunS, S

\* What a read of the checkpoint makes of the run.
ReadsOnly(r) ==
    /\ r \in RunS
    /\ r.input = run.input /\ r.graph = run.graph
    /\ r.loaded \in {<<>>, checkpoint, run.loaded}
    /\ r.at \notin {"idle", "created", "graph"}

LEMMA EveryReadReadsOnly ==
    ASSUME TypeInv
    PROVE  /\ ReadsOnly(Ready(run, checkpoint))
           /\ ReadsOnly([Ready(run, checkpoint) EXCEPT !.crossed = run.crossed])
           /\ \A ms \in {checkpoint, run.loaded} :
                 /\ ReadsOnly(Drop(run, ms)) /\ ReadsOnly(Shrink(run, ms))
                 /\ \A b \in BOOLEAN : ReadsOnly([Shrink(run, ms) EXCEPT !.crossed = b])
           /\ \A at \in {"reading", "compacting"} :
                 ReadsOnly([run EXCEPT !.at = at, !.loaded = checkpoint, !.crossed = FALSE])
<1> DEFINE S == Seq(Sound)
           M == Seq(Message)
<1>1. \A ms \in S : ms \in M
  BY SoundIsMessage
<1>2. run \in RunS /\ checkpoint \in S
  BY TypedRun
<1>3. <<>> \in S
  OBVIOUS
<1>4. Chars(checkpoint) \in Nat /\ Budget \in Nat
  BY <1>2, CharsAreCounted, ContextAssumption
<1> HIDE DEF S, M
<1>5. run.loaded \in S /\ run.input \in S /\ run.graph \in S
  BY <1>2 DEF RunS, S
<1>6. Run = [at : {"idle", "created", "loading", "reading", "compacting", "reloading",
              "summarizing", "summarized", "dropping", "measuring", "ready", "graph"},
        memory : Memory \cup {Nothing}, docs : Docs \cup {Nothing},
        input : M, loaded : M, rest : Nat, graph : M, crossed : BOOLEAN]
  BY DEF Run, M
<1>7. RunS = {r \in Run : r.input \in S /\ r.loaded \in S /\ r.graph \in S}
  BY DEF RunS, S
<1>8. /\ ReadsOnly(Ready(run, checkpoint))
      /\ ReadsOnly([Ready(run, checkpoint) EXCEPT !.crossed = run.crossed])
  <2> DEFINE rest == IF Chars(checkpoint) < Budget THEN Budget - Chars(checkpoint) ELSE 0
  <2>1. rest \in Nat
    BY <1>4
  <2> HIDE DEF rest
  <2> DEFINE As(b) == [run EXCEPT !.at = "ready", !.loaded = <<>>, !.crossed = b, !.rest = rest]
  <2>2. Ready(run, checkpoint) = As(FALSE)
    BY DEF Ready, rest
  <2>3. [Ready(run, checkpoint) EXCEPT !.crossed = run.crossed] = As(run.crossed)
    BY <1>2, <1>7, <1>6, <2>2
  <2>4. ASSUME NEW b \in BOOLEAN PROVE ReadsOnly(As(b))
    BY <1>1, <1>2, <1>3, <1>5, <1>6, <1>7, <2>1 DEF ReadsOnly
  <2>5. run.crossed \in BOOLEAN
    BY <1>2, <1>6, <1>7
  <2> HIDE DEF As
  <2> QED BY <2>2, <2>3, <2>4, <2>5
<1>9. ASSUME NEW ms \in {checkpoint, run.loaded}, NEW b \in BOOLEAN,
             NEW at \in {"reading", "compacting", "measuring", "dropping", "summarizing"}
      PROVE  ReadsOnly([run EXCEPT !.at = at, !.loaded = ms, !.crossed = b])
  BY <1>1, <1>2, <1>5, <1>6, <1>7 DEF ReadsOnly
<1>10. ASSUME NEW ms \in {checkpoint, run.loaded}
       PROVE  ReadsOnly(Drop(run, ms)) /\ \A b \in BOOLEAN : ReadsOnly([Drop(run, ms) EXCEPT !.crossed = b])
  <2> DEFINE at == IF Dropped(ms) = {} THEN "measuring" ELSE "dropping"
  <2>1. at \in {"measuring", "dropping"}
    OBVIOUS
  <2> HIDE DEF at
  <2>2. Drop(run, ms) = [run EXCEPT !.at = at, !.loaded = ms, !.crossed = FALSE]
    BY <1>2 DEF Drop, at, RunS, Run
  <2>3. \A b \in BOOLEAN : [Drop(run, ms) EXCEPT !.crossed = b]
                              = [run EXCEPT !.at = at, !.loaded = ms, !.crossed = b]
    BY <1>2, <2>2 DEF RunS, Run
  <2> QED BY <1>9, <2>1, <2>2, <2>3
<1>11. ASSUME NEW ms \in {checkpoint, run.loaded}
       PROVE  ReadsOnly(Shrink(run, ms)) /\ \A b \in BOOLEAN : ReadsOnly([Shrink(run, ms) EXCEPT !.crossed = b])
  <2>1. CASE Prefix(ms) = <<>>
    BY <1>10, <2>1 DEF Shrink
  <2>2. CASE Prefix(ms) # <<>>
    <3>1. Shrink(run, ms) = [run EXCEPT !.at = "summarizing", !.loaded = ms, !.crossed = FALSE]
      BY <1>2, <2>2 DEF Shrink, RunS, Run
    <3>2. \A b \in BOOLEAN : [Shrink(run, ms) EXCEPT !.crossed = b]
                              = [run EXCEPT !.at = "summarizing", !.loaded = ms, !.crossed = b]
      BY <1>2, <3>1 DEF RunS, Run
    <3> QED BY <1>9, <3>1, <3>2
  <2> QED BY <2>1, <2>2
<1> QED BY <1>8, <1>9, <1>10, <1>11

\* A read leaves the invariant alone.
LEMMA ReadKeeps ==
    ASSUME MemInv, run.at \notin {"idle", "created", "graph"}, ReadsOnly(run'),
           UNCHANGED <<checkpoint, compaction, turns, archived, answered, split>>
    PROVE  MemInv'
<1> DEFINE S == Seq(Sound)
<1> HIDE DEF S
<1>1. TypeInv'
  <2>1. run' \in Run /\ run'.input \in S /\ run'.loaded \in S /\ run'.graph \in S
    BY DEF ReadsOnly, RunS, S
  <2>2. run.at # "idle" /\ run'.at # "idle"
    BY DEF ReadsOnly
  <2> QED BY <2>1, <2>2 DEF MemInv, TypeInv, S
<1>2. SameIds'
  <2>1. RangeOf(<<>>) = {}
    BY DEF RangeOf
  <2>2. Held' \subseteq Held
    BY <2>1 DEF Held, ReadsOnly
  <2> QED BY <2>2 DEF MemInv, SameIds
<1>3. Kept'
  BY DEF MemInv, Kept, ReadsOnly
<1> QED BY <1>1, <1>2, <1>3 DEF MemInv

\* The two parts of messages tell what the messages tell, and a summary of the
\* first part tells as much.
LEMMA PartsTell ==
    ASSUME NEW ms \in Seq(Sound)
    PROVE  /\ Prefix(ms) \in Seq(Sound) /\ Suffix(ms) \in Seq(Sound)
           /\ RangeOf(Prefix(ms)) \subseteq RangeOf(ms)
           /\ RangeOf(Suffix(ms)) \subseteq RangeOf(ms)
           /\ Told(ms) \subseteq Told(Prefix(ms)) \cup Told(Suffix(ms))
           /\ <<Summary>> \in Seq(Sound)
           /\ Told(Prefix(ms)) \subseteq Told(<<Summary>>)
<1> DEFINE n == SplitIndex(ms)
           a == Prefix(ms)
           b == Suffix(ms)
<1>1. Len(ms) \in Nat /\ DOMAIN ms = 1..Len(ms)
  <2> HIDE DEF Sound
  <2> QED OBVIOUS
<1>2. /\ n \in 1..Len(ms) + 1
      /\ a \in Seq(Sound) /\ Len(a) = n - 1 /\ \A i \in 1..n - 1 : a[i] = ms[i]
      /\ b \in Seq(Sound) /\ Len(b) = Len(ms) - n + 1
      /\ \A i \in 1..Len(ms) - n + 1 : b[i] = ms[n + i - 1]
  <2> HIDE DEF Sound
  <2> QED BY SplitInTwo
<1> HIDE DEF n, a, b
<1>3. DOMAIN a = 1..n - 1 /\ DOMAIN b = 1..Len(ms) - n + 1
  <2> HIDE DEF Sound
  <2> QED BY <1>2
<1>4. RangeOf(a) \subseteq RangeOf(ms)
  <2> SUFFICES ASSUME NEW i \in 1..n - 1 PROVE a[i] \in RangeOf(ms)
    BY <1>3 DEF RangeOf
  <2>1. i \in DOMAIN ms /\ a[i] = ms[i]
    BY <1>1, <1>2
  <2> QED BY <2>1 DEF RangeOf
<1>5. RangeOf(b) \subseteq RangeOf(ms)
  <2> SUFFICES ASSUME NEW i \in 1..Len(ms) - n + 1 PROVE b[i] \in RangeOf(ms)
    BY <1>3 DEF RangeOf
  <2>1. n + i - 1 \in DOMAIN ms /\ b[i] = ms[n + i - 1]
    BY <1>1, <1>2
  <2> QED BY <2>1 DEF RangeOf
<1>6. RangeOf(ms) \subseteq RangeOf(a) \cup RangeOf(b)
  <2> SUFFICES ASSUME NEW i \in 1..Len(ms) PROVE ms[i] \in RangeOf(a) \cup RangeOf(b)
    BY <1>1 DEF RangeOf
  <2>1. CASE i < n
    <3>1. i \in DOMAIN a /\ a[i] = ms[i]
      BY <1>1, <1>2, <1>3, <2>1
    <3> QED BY <3>1 DEF RangeOf
  <2>2. CASE ~(i < n)
    <3>1. i - n + 1 \in DOMAIN b /\ b[i - n + 1] = ms[i]
      BY <1>1, <1>2, <1>3, <2>2
    <3> QED BY <3>1 DEF RangeOf
  <2> QED BY <2>1, <2>2
<1>7. Told(ms) \subseteq Told(a) \cup Told(b)
  BY <1>6, ToldByMessages
<1>8. <<Summary>> \in Seq(Sound) /\ Told(a) \subseteq Told(<<Summary>>)
  <2>1. Summary \in Sound
    BY SummaryTells
  <2>2. <<Summary>> \in Seq(Sound)
    <3> HIDE DEF Sound
    <3> QED BY <2>1
  <2>3. 1 \in DOMAIN <<Summary>> /\ <<Summary>>[1] = Summary
    OBVIOUS
  <2>4. \A t \in Turn : t \in Told(<<Summary>>)
    BY <2>3, SummaryTells, Zenon DEF Told
  <2>5. Told(a) \subseteq Turn
    BY DEF Told
  <2> QED BY <2>2, <2>4, <2>5
<1> QED BY <1>2, <1>4, <1>5, <1>7, <1>8 DEF a, b

\* A write that adds what it removes.
LEMMA UpdateKeeps ==
    ASSUME MemInv, NEW removed \in Seq(Sound), NEW added \in Seq(Sound),
           RangeOf(removed) \subseteq Held, Told(removed) \subseteq Told(added),
           checkpoint' = Updated(removed, added),
           RangeOf(run.loaded)' \subseteq RangeOf(run.loaded),
           RangeOf(run.graph)' \subseteq RangeOf(run.graph),
           RangeOf(compaction.seen)' \subseteq RangeOf(compaction.seen)
    PROVE  checkpoint' \in Seq(Sound) /\ SameIds' /\ Told(checkpoint) \subseteq Told(checkpoint)'
<1>1. TypeInv /\ SameIds
  BY DEF MemInv
<1>2. /\ Updated(removed, added) \in Seq(Sound)
      /\ RangeOf(Updated(removed, added)) \subseteq Held \cup RangeOf(New(added))
      /\ Told(checkpoint) \subseteq Told(Updated(removed, added))
  <2> HIDE DEF Sound
  <2> QED BY <1>1, UpdateTells
<1>3. Held' \subseteq Held \cup RangeOf(New(added))
  BY <1>2 DEF Held
<1>4. SameIds'
  BY <1>1, <1>3, NewHaveOwnIds
<1>5. Told(checkpoint)' = Told(Updated(removed, added))
  BY DEF Told, Of
<1> QED BY <1>2, <1>4, <1>5

\* A write of the run, or its failure.
LEMMA WriteKeeps ==
    ASSUME MemInv, run.at \notin {"idle", "created", "graph"},
           NEW removed \in Seq(Sound), NEW added \in Seq(Sound),
           RangeOf(removed) \subseteq Held, Told(removed) \subseteq Told(added),
           NEW next \in {"reloading", "summarized", "measuring"},
           Write(removed, added, next), UNCHANGED <<turns, archived, answered>>, split' \subseteq Turn
    PROVE  MemInv'
<1> DEFINE S == Seq(Sound)
<1>1. run \in RunS /\ NoRun \in RunS /\ checkpoint \in S
  BY TypedRun DEF MemInv
<1>2. CASE Removable(run.loaded)
  <2>1. /\ checkpoint' = Updated(removed, added)
        /\ run' = [run EXCEPT !.at = next] /\ compaction' = compaction
    BY <1>2 DEF Write
  <2>2. run' \in RunS /\ run'.at = next /\ run'.input = run.input
        /\ run'.loaded = run.loaded /\ run'.graph = run.graph
    <3> HIDE DEF S
    <3> QED BY <1>1, <2>1 DEF RunS, Run
  <2>3. checkpoint' \in S /\ SameIds' /\ Told(checkpoint) \subseteq Told(checkpoint)'
    BY <2>1, <2>2, UpdateKeeps DEF RangeOf
  <2> HIDE DEF S
  <2>4. TypeInv'
    BY <2>1, <2>2, <2>3 DEF MemInv, TypeInv, RunS, S
  <2>5. Kept'
    BY <2>2, <2>3 DEF MemInv, Kept
  <2> QED BY <2>3, <2>4, <2>5 DEF MemInv
<1>3. CASE ~Removable(run.loaded)
  <2>1. /\ checkpoint' = checkpoint /\ run' = NoRun
        /\ \/ compaction' = compaction
           \/ compaction' = [NoCompaction EXCEPT !.at = "reading"]
    BY <1>3 DEF Write
  <2>2. <<>> \in S
    OBVIOUS
  <2> HIDE DEF S
  <2>3. compaction' \in [at : {"none", "reading", "writing"}, seen : S]
    BY <2>1, <2>2 DEF MemInv, TypeInv, NoCompaction, S
  <2>4. TypeInv'
    BY <1>1, <2>1, <2>3 DEF MemInv, TypeInv, RunS, S, NoRun
  <2>5. Held' \subseteq Held
    <3>1. RangeOf(<<>>) = {}
      BY DEF RangeOf
    <3>2. compaction'.seen \in {compaction.seen, <<>>} /\ run'.loaded = <<>> /\ run'.graph = <<>>
      BY <2>1 DEF NoCompaction, NoRun
    <3> QED BY <2>1, <3>1, <3>2 DEF Held
  <2>6. SameIds'
    BY <2>5 DEF MemInv, SameIds
  <2>7. Kept'
    BY <2>1 DEF MemInv, Kept, NoRun
  <2> QED BY <2>4, <2>6, <2>7 DEF MemInv
<1> QED BY <1>2, <1>3

LEMMA CompactForRunKeeps == MemInv /\ CompactForRun => MemInv'
<1> SUFFICES ASSUME MemInv, CompactForRun PROVE MemInv'
  OBVIOUS
<1> DEFINE ms == run.loaded
<1>1. ms \in Seq(Sound) /\ RangeOf(ms) \subseteq Held
  <2>1. ms \in Seq(Sound)
    BY TypedRun DEF MemInv, RunS
  <2> QED BY <2>1 DEF Held
<1>2. run.at = "compacting" /\ split' = split /\ UNCHANGED <<turns, archived, answered>>
  BY DEF CompactForRun
<1>3. Write(Prefix(ms), <<Summary>>, "reloading")
  BY DEF CompactForRun
<1>4. split' \subseteq Turn
  BY <1>2 DEF MemInv, TypeInv
<1> HIDE DEF ms
<1>5. /\ Prefix(ms) \in Seq(Sound) /\ <<Summary>> \in Seq(Sound)
      /\ RangeOf(Prefix(ms)) \subseteq RangeOf(ms)
      /\ Told(Prefix(ms)) \subseteq Told(<<Summary>>)
  <2> HIDE DEF Sound
  <2> QED BY <1>1, PartsTell
<1> HIDE DEF Sound
<1> QED BY <1>1, <1>2, <1>3, <1>4, <1>5, WriteKeeps

LEMMA SummarizeKeeps == MemInv /\ Summarize => MemInv'
<1> SUFFICES ASSUME MemInv, Summarize PROVE MemInv'
  OBVIOUS
<1> DEFINE ms == run.loaded
           added == <<Summary>> \o Suffix(ms)
<1>1. ms \in Seq(Sound) /\ RangeOf(ms) \subseteq Held
  <2>1. ms \in Seq(Sound)
    BY TypedRun DEF MemInv, RunS
  <2> QED BY <2>1 DEF Held
<1>2. run.at = "summarizing" /\ split' = split /\ UNCHANGED <<turns, archived, answered>>
  BY DEF Summarize
<1>3. Write(ms, added, "summarized")
  BY DEF Summarize
<1>4. split' \subseteq Turn
  BY <1>2 DEF MemInv, TypeInv
<1> HIDE DEF ms
<1> HIDE DEF Sound
<1>5. /\ Prefix(ms) \in Seq(Sound) /\ <<Summary>> \in Seq(Sound)
      /\ Suffix(ms) \in Seq(Sound)
      /\ Told(ms) \subseteq Told(Prefix(ms)) \cup Told(Suffix(ms))
      /\ Told(Prefix(ms)) \subseteq Told(<<Summary>>)
  BY <1>1, PartsTell
<1>6. added \in Seq(Sound) /\ Told(added) = Told(<<Summary>>) \cup Told(Suffix(ms))
  <2> DEFINE S == Sound
             first == <<Summary>>
             rest == Suffix(ms)
  <2>1. first \in Seq(S) /\ rest \in Seq(S)
    BY <1>5
  <2> HIDE DEF S, first, rest
  <2>2. first \o rest \in Seq(S)
    BY <2>1, RangeOfConcat
  <2>3. Told(first \o rest) = Told(first) \cup Told(rest)
    BY <2>1, ToldConcat
  <2> QED BY <2>2, <2>3 DEF S, first, rest
<1> HIDE DEF added
<1>7. Told(ms) \subseteq Told(added)
  BY <1>5, <1>6
<1> QED BY <1>1, <1>2, <1>3, <1>4, <1>6, <1>7, WriteKeeps

\* What may be dropped tells nothing.
LEMMA DropOldestKeeps == MemInv /\ DropOldest => MemInv'
<1> SUFFICES ASSUME MemInv, DropOldest PROVE MemInv'
  OBVIOUS
<1> DEFINE ms == run.loaded
           gone == Dropped(ms)
           added == Omit(ms, gone)
<1>1. ms \in Seq(Sound) /\ RangeOf(ms) \subseteq Held
  <2>1. ms \in Seq(Sound)
    BY TypedRun DEF MemInv, RunS
  <2> QED BY <2>1 DEF Held
<1>2. run.at = "dropping" /\ UNCHANGED <<turns, archived, answered>>
  BY DEF DropOldest
<1>3. Write(ms, added, "measuring")
  BY Zenon DEF DropOldest
<1>4. DOMAIN ms = 1..Len(ms) /\ \A i \in DOMAIN ms : ms[i] \in Sound
  <2> HIDE DEF Sound, ms
  <2> QED BY <1>1
<1>5. split' \subseteq Turn
  <2>1. split' = split \/ split' = split \cup {ms[i].text : i \in gone \cap Of(ms, "call")}
    BY Zenon DEF DropOldest
  <2>2. \A i \in Of(ms, "call") : ms[i].text \in Turn
    BY <1>4 DEF Of, Sound
  <2>3. split \subseteq Turn
    BY DEF MemInv, TypeInv
  <2> HIDE DEF ms, gone
  <2> QED BY <2>1, <2>2, <2>3
<1>6. gone \subseteq Droppable(ms)
  <2>1. \A S, n : Oldest(S, n) \subseteq S
    BY DEF Oldest
  <2> QED BY <2>1, Zenon DEF Dropped
<1> HIDE DEF ms, gone
<1>7. \A i \in gone : \A t : ~Tells(ms[i], t)
  <2> SUFFICES ASSUME NEW i \in gone, NEW t PROVE ~Tells(ms[i], t)
    OBVIOUS
  <2>1. i \in DOMAIN ms /\ ms[i].kind # "user" /\ ms[i].kind # "summary"
    BY <1>6 DEF Droppable, Of
  <2>2. ms[i] \in Sound
    BY <1>4, <2>1
  <2> QED BY <2>1, <2>2 DEF Tells, Sound
<1> HIDE DEF Sound
<1>8. added \in Seq(Sound) /\ RangeOf(added) = {ms[i] : i \in DOMAIN ms \ gone}
  BY <1>1, OmitRange
<1> HIDE DEF added
<1>9. Told(ms) \subseteq Told(added)
  <2> SUFFICES ASSUME NEW t \in Told(ms) PROVE t \in Told(added)
    OBVIOUS
  <2>1. PICK m \in RangeOf(ms) : Tells(m, t)
    BY ToldByMessages
  <2>2. PICK i \in DOMAIN ms : m = ms[i]
    BY DEF RangeOf
  <2>3. i \notin gone
    BY <1>7, <2>1, <2>2
  <2>4. m \in RangeOf(added)
    BY <1>8, <2>2, <2>3
  <2> QED BY <2>1, <2>4, ToldByMessages
<1> QED BY <1>1, <1>2, <1>3, <1>5, <1>8, <1>9, WriteKeeps

-----------------------------------------------------------------------------
(* Packing leaves what the user says alone. *)

LEMMA TrimKeeps ==
    ASSUME NEW ms \in Seq(Sound), NEW kind, NEW target \in Nat
    PROVE  /\ Trim(ms, kind, target) \in Seq(Sound)
           /\ Asked(ms) \subseteq Asked(Trim(ms, kind, target))
<1> DEFINE r == Trim(ms, kind, target)
<1>1. Len(ms) \in Nat /\ DOMAIN ms = 1..Len(ms) /\ \A i \in 1..Len(ms) : ms[i] \in Sound
  <2> HIDE DEF Sound
  <2> QED OBVIOUS
<1>2. r = [i \in 1..Len(ms) |->
             IF PackKind(ms[i]) = kind /\ ms[i].size > target
             THEN [ms[i] EXCEPT !.size = target] ELSE ms[i]]
  BY <1>1 DEF Trim
<1> HIDE DEF r
<1>3. \A i \in 1..Len(ms) : r[i] \in Sound /\ r[i].kind = ms[i].kind /\ r[i].text = ms[i].text
  <2> TAKE i \in 1..Len(ms)
  <2> DEFINE m == ms[i]
  <2>1. m \in Sound /\ (r[i] = m \/ r[i] = [m EXCEPT !.size = target])
    BY <1>1, <1>2
  <2> HIDE DEF m
  <2>2. /\ [m EXCEPT !.size = target] \in Sound
        /\ [m EXCEPT !.size = target].kind = m.kind
        /\ [m EXCEPT !.size = target].text = m.text
    BY <2>1 DEF Sound, Message
  <2> QED BY <2>1, <2>2 DEF m
<1>4. r \in Seq(Sound) /\ DOMAIN r = 1..Len(ms)
  <2> HIDE DEF Sound
  <2>1. r \in [1..Len(ms) -> Sound]
    BY <1>2, <1>3
  <2> QED BY <1>1, <2>1
<1>5. Asked(ms) \subseteq Asked(r)
  <2> SUFFICES ASSUME NEW i \in Of(ms, "user") PROVE ms[i].text \in Asked(r)
    BY DEF Asked
  <2>1. i \in 1..Len(ms) /\ ms[i].kind = "user"
    BY <1>1 DEF Of
  <2>2. i \in Of(r, "user") /\ r[i].text = ms[i].text
    BY <1>3, <1>4, <2>1 DEF Of
  <2> QED BY <2>2 DEF Asked
<1> QED BY <1>4, <1>5 DEF r

LEMMA WithoutKeeps ==
    ASSUME NEW ms \in Seq(Sound), NEW kind, kind # "user"
    PROVE  /\ Without(ms, kind) \in Seq(Sound)
           /\ Asked(ms) \subseteq Asked(Without(ms, kind))
<1> DEFINE gone == {i \in DOMAIN ms : PackKind(ms[i]) = kind}
           r == Without(ms, kind)
<1>1. r = Omit(ms, gone)
  BY Zenon DEF Without
<1>2. \A i \in Of(ms, "user") : i \in DOMAIN ms \ gone
  BY DEF Of, PackKind
<1> HIDE DEF gone, r
<1>3. r \in Seq(Sound) /\ RangeOf(r) = {ms[i] : i \in DOMAIN ms \ gone}
  <2> HIDE DEF Sound
  <2> QED BY <1>1, OmitRange
<1>4. ASSUME NEW i \in Of(ms, "user") PROVE ms[i].text \in Asked(r)
  <2>1. ms[i] \in RangeOf(r)
    BY <1>2, <1>3
  <2>2. PICK k \in DOMAIN r : r[k] = ms[i]
    BY <2>1 DEF RangeOf
  <2>3. k \in Of(r, "user")
    BY <2>2 DEF Of
  <2> QED BY <2>2, <2>3 DEF Asked
<1> QED BY <1>3, <1>4 DEF Asked, r

\* The least that the memory message and the snippets are cut to.
LEMMA PackBounds ==
    ASSUME NEW max \in Nat
    PROVE  Larger(MemoryFloor, max \div 8) \in Nat /\ Larger(RagFloor, max \div 4) \in Nat
<1>1. max \div 8 \in Nat /\ max \div 4 \in Nat
  OBVIOUS
<1>2. MemoryFloor \in Nat /\ RagFloor \in Nat
  BY ContextAssumption
<1> QED BY <1>1, <1>2 DEF Larger

\* Packing is one of the steps of pack_graph_messages, or nothing.
LEMMA PackIsAStep ==
    ASSUME NEW ms, NEW max
    PROVE  LET trimmed1 == Trim(ms, "memory", Larger(MemoryFloor, max \div 8))
               trimmed2 == Trim(trimmed1, "rag", Larger(RagFloor, max \div 4))
               dropped1 == Without(trimmed2, "memory")
           IN Pack(ms, max) \in {ms, trimmed1, trimmed2, dropped1, Without(dropped1, "rag")}
<1> DEFINE trimmed1 == Trim(ms, "memory", Larger(MemoryFloor, max \div 8))
           trimmed2 == Trim(trimmed1, "rag", Larger(RagFloor, max \div 4))
           dropped1 == Without(trimmed2, "memory")
           dropped2 == Without(dropped1, "rag")
           steps == <<ms, trimmed1, trimmed2, dropped1, dropped2>>
           fitting == {i \in DOMAIN steps : Chars(steps[i]) <= max}
<1>1. Pack(ms, max) = IF max = 0 THEN ms
                      ELSE IF fitting = {} THEN steps[Len(steps)]
                      ELSE steps[CHOOSE i \in fitting : \A j \in fitting : i <= j]
  BY Zenon DEF Pack
<1> HIDE DEF trimmed1, trimmed2, dropped1, dropped2
<1>2. Len(steps) = 5 /\ DOMAIN steps = 1..5
  OBVIOUS
<1>3. \A i \in 1..5 : steps[i] \in {ms, trimmed1, trimmed2, dropped1, dropped2}
  <2>1. steps[1] = ms /\ steps[2] = trimmed1 /\ steps[3] = trimmed2
        /\ steps[4] = dropped1 /\ steps[5] = dropped2
    OBVIOUS
  <2> HIDE DEF steps
  <2> QED BY <2>1
<1>4. fitting \subseteq 1..5
  BY <1>2
<1> HIDE DEF steps, fitting
<1>5. fitting # {} => (CHOOSE i \in fitting : \A j \in fitting : i <= j) \in 1..5
  <2> SUFFICES ASSUME fitting # {}
               PROVE  \E i \in fitting : \A j \in fitting : i <= j
    BY <1>4
  <2> DEFINE F == fitting
  <2>1. F \subseteq {1, 2, 3, 4, 5} /\ F # {}
    BY <1>4
  <2> HIDE DEF F
  <2>2. CASE 1 \in F
    BY <2>1, <2>2 DEF F
  <2>3. CASE 1 \notin F /\ 2 \in F
    BY <2>1, <2>3 DEF F
  <2>4. CASE 1 \notin F /\ 2 \notin F /\ 3 \in F
    BY <2>1, <2>4 DEF F
  <2>5. CASE 1 \notin F /\ 2 \notin F /\ 3 \notin F /\ 4 \in F
    BY <2>1, <2>5 DEF F
  <2>6. CASE 1 \notin F /\ 2 \notin F /\ 3 \notin F /\ 4 \notin F
    <3>1. PICK i \in F : TRUE
      BY <2>1
    <3>2. \A j \in F : j = 5
      BY <2>1, <2>6
    <3>3. \A j \in F : 5 <= j
      BY <3>2
    <3> QED BY <3>1, <3>2, <3>3 DEF F
  <2> QED BY <2>2, <2>3, <2>4, <2>5, <2>6
<1>6. Pack(ms, max) \in {ms, trimmed1, trimmed2, dropped1, dropped2}
  <2>1. CASE max = 0
    BY <1>1, <2>1
  <2>2. CASE max # 0 /\ fitting = {}
    BY <1>1, <1>2, <1>3, <2>2
  <2>3. CASE max # 0 /\ fitting # {}
    BY <1>1, <1>3, <1>5, <2>3
  <2> QED BY <2>1, <2>2, <2>3
<1> QED BY <1>6 DEF trimmed1, trimmed2, dropped1, dropped2

LEMMA PackKeeps ==
    ASSUME NEW ms \in Seq(Sound), NEW max \in Nat
    PROVE  Pack(ms, max) \in Seq(Sound) /\ Asked(ms) \subseteq Asked(Pack(ms, max))
<1> DEFINE Keeps(r) == r \in Seq(Sound) /\ Asked(ms) \subseteq Asked(r)
           trimmed1 == Trim(ms, "memory", Larger(MemoryFloor, max \div 8))
           trimmed2 == Trim(trimmed1, "rag", Larger(RagFloor, max \div 4))
           dropped1 == Without(trimmed2, "memory")
<1>1. Larger(MemoryFloor, max \div 8) \in Nat /\ Larger(RagFloor, max \div 4) \in Nat
  BY PackBounds
<1> HIDE DEF Sound
<1>2. Keeps(trimmed1)
  BY <1>1, TrimKeeps
<1> HIDE DEF trimmed1
<1>3. Keeps(trimmed2)
  BY <1>1, <1>2, TrimKeeps
<1> HIDE DEF trimmed2
<1>4. Keeps(dropped1)
  BY <1>3, WithoutKeeps
<1> HIDE DEF dropped1
<1>5. Keeps(Without(dropped1, "rag"))
  BY <1>4, WithoutKeeps
<1>6. Pack(ms, max) \in {ms, trimmed1, trimmed2, dropped1, Without(dropped1, "rag")}
  BY PackIsAStep DEF trimmed1, trimmed2, dropped1
<1> QED BY <1>2, <1>3, <1>4, <1>5, <1>6

LEMMA AskedIsTold ==
    ASSUME NEW ms \in Seq(Sound)
    PROVE  Asked(ms) \subseteq Told(ms)
<1>1. \A i \in DOMAIN ms : ms[i] \in Sound
  <2> HIDE DEF Sound
  <2> QED OBVIOUS
<1>2. \A i \in Of(ms, "user") : i \in DOMAIN ms /\ ms[i].kind = "user" /\ ms[i].text \in Turn
  BY <1>1 DEF Of, Sound
<1> QED BY <1>2 DEF Asked, Told, Tells

\* One message.
LEMMA JustOne ==
    ASSUME NEW m \in Sound
    PROVE  <<m>> \in Seq(Sound) /\ (m.kind = "user" => m.text \in Asked(<<m>>))
<1>1. <<m>> \in Seq(Sound)
  <2> HIDE DEF Sound
  <2> QED OBVIOUS
<1>2. DOMAIN <<m>> = {1} /\ <<m>>[1] = m
  OBVIOUS
<1>3. m.kind = "user" => 1 \in Of(<<m>>, "user")
  BY <1>2 DEF Of
<1> QED BY <1>1, <1>2, <1>3 DEF Asked

-----------------------------------------------------------------------------
(* The other steps. *)

LEMMA CreateRunKeeps == MemInv /\ CreateRun => MemInv'
<1> SUFFICES ASSUME MemInv, CreateRun PROVE MemInv'
  OBVIOUS
<1> DEFINE S == Seq(Sound)
<1>1. /\ turns' = turns + 1 /\ turns < MaxTurns
      /\ run' = [NoRun EXCEPT !.at = "created"]
      /\ UNCHANGED <<checkpoint, compaction, archived, answered, split>>
  BY DEF CreateRun
<1>2. turns' \in 0..MaxTurns /\ turns' \in Turn
  BY <1>1, ContextAssumption DEF MemInv, TypeInv, Turn
<1>3. /\ run' \in RunS /\ run'.at = "created"
      /\ run'.loaded = <<>> /\ run'.graph = <<>>
  <2>1. NoRun \in RunS
    BY TypedRun
  <2> HIDE DEF Sound
  <2> QED BY <1>1, <2>1 DEF RunS, Run, NoRun
<1> HIDE DEF S
<1>4. TypeInv'
  BY <1>1, <1>2, <1>3 DEF MemInv, TypeInv, RunS
<1>5. SameIds'
  <2>1. RangeOf(<<>>) = {}
    BY DEF RangeOf
  <2>2. Held' \subseteq Held
    BY <1>1, <1>3, <2>1 DEF Held
  <2> QED BY <2>2 DEF MemInv, SameIds
<1>6. Kept'
  BY <1>1, <1>3 DEF MemInv, Kept, Told
<1> QED BY <1>4, <1>5, <1>6 DEF MemInv

\* After an archive there is no answered turn to tell of.
LEMMA ArchiveKeeps == MemInv /\ Archive => MemInv'
<1> SUFFICES ASSUME MemInv, Archive PROVE MemInv'
  OBVIOUS
<1> DEFINE S == Seq(Sound)
<1>1. /\ archived' = TRUE /\ checkpoint' = <<>> /\ answered' = {}
      /\ run' = [run EXCEPT !.crossed = TRUE]
      /\ UNCHANGED <<compaction, turns, split>>
  BY DEF Archive
<1>2. /\ run' \in RunS /\ run'.at = run.at /\ run'.input = run.input
      /\ run'.loaded = run.loaded /\ run'.graph = run.graph
  <2>1. run \in RunS
    BY TypedRun DEF MemInv
  <2> HIDE DEF Sound
  <2> QED BY <1>1, <2>1 DEF RunS, Run
<1>3. <<>> \in S /\ RangeOf(<<>>) = {}
  BY DEF RangeOf
<1> HIDE DEF S
<1>4. TypeInv'
  BY <1>1, <1>2, <1>3 DEF MemInv, TypeInv, RunS, S
<1>5. SameIds'
  <2>1. Held' \subseteq Held
    BY <1>1, <1>2, <1>3 DEF Held
  <2> QED BY <2>1 DEF MemInv, SameIds
<1>6. Kept'
  BY <1>1, <1>2 DEF MemInv, Kept, Told, Asked, Of
<1> QED BY <1>4, <1>5, <1>6 DEF MemInv

LEMMA AssembleKeeps ==
    ASSUME MemInv, NEW memory \in Memory \cup {Nothing}, NEW docs \in Docs \cup {Nothing},
           NEW size \in UserSizes, Assemble(memory, docs, size)
    PROVE  MemInv'
<1> DEFINE S == Seq(Sound)
           M == Seq(Message)
           last == <<[Say("user", turns) EXCEPT !.size = size]>>
           input == Prompt \o Inject("memory", memory) \o Inject("rag", docs) \o last
<1>1. turns \in Turn /\ turns' = turns
  BY DEF Assemble, MemInv, TypeInv
<1>2. last \in S /\ turns \in Asked(last)
  <2> DEFINE u == [Say("user", turns) EXCEPT !.size = size]
  <2>1. Say("user", turns) \in Sound
    BY <1>1, SaidIsSound DEF Kind
  <2>2. Say("user", turns).kind = "user" /\ Say("user", turns).text = turns
    BY DEF Say
  <2>3. size \in Nat
    BY ContextAssumption
  <2>4. u \in Sound /\ u.kind = "user" /\ u.text = turns
    BY <2>1, <2>2, <2>3 DEF Sound, Message
  <2> HIDE DEF u
  <2>5. <<u>> \in S /\ turns \in Asked(<<u>>)
    BY <2>4, JustOne
  <2> QED BY <2>5 DEF u
<1> HIDE DEF last
<1>3. <<>> \in S
  OBVIOUS
<1>4. Prompt \in S
  <2>1. Say("prompt", Nothing) \in Sound
    BY SaidIsSound DEF Kind
  <2>2. <<Say("prompt", Nothing)>> \in S
    BY <2>1, JustOne
  <2> HIDE DEF S
  <2> QED BY <1>3, <2>2 DEF Prompt
<1>5. Inject("memory", memory) \in S
  <2>1. Say("memory", memory) \in Sound
    BY SaidIsSound DEF Kind
  <2>2. <<Say("memory", memory)>> \in S
    BY <2>1, JustOne
  <2> HIDE DEF S
  <2> QED BY <1>3, <2>2 DEF Inject
<1>6. Inject("rag", docs) \in S
  <2>1. Say("rag", docs) \in Sound
    BY SaidIsSound DEF Kind
  <2>2. <<Say("rag", docs)>> \in S
    BY <2>1, JustOne
  <2> HIDE DEF S
  <2> QED BY <1>3, <2>2 DEF Inject
<1>7. input \in S /\ turns \in Asked(input)
  <2> DEFINE first == Prompt \o Inject("memory", memory) \o Inject("rag", docs)
  <2>1. first \in S
    <3> HIDE DEF Sound
    <3> QED BY <1>4, <1>5, <1>6
  <2> HIDE DEF first
  <2>2. first \o last \in S /\ RangeOf(first \o last) = RangeOf(first) \cup RangeOf(last)
    <3> HIDE DEF Sound
    <3> QED BY <1>2, <2>1, RangeOfConcat
  <2>3. PICK i \in Of(last, "user") : last[i].text = turns
    BY <1>2 DEF Asked
  <2>4. last[i] \in RangeOf(last) /\ last[i].kind = "user"
    BY <2>3 DEF Of, RangeOf
  <2>5. PICK k \in DOMAIN (first \o last) : (first \o last)[k] = last[i]
    BY <2>2, <2>4 DEF RangeOf
  <2>6. k \in Of(first \o last, "user")
    BY <2>4, <2>5 DEF Of
  <2>7. turns \in Asked(first \o last)
    BY <2>3, <2>5, <2>6 DEF Asked
  <2> QED BY <2>2, <2>7 DEF first
<1>8. /\ run.at = "created" /\ UNCHANGED <<checkpoint, compaction, turns, archived, answered, split>>
      /\ run' = [NoRun EXCEPT !.at = "loading", !.memory = memory, !.docs = docs, !.input = input]
  BY DEF Assemble, last
<1> HIDE DEF input
<1>9. run' \in RunS
  <2>1. NoRun \in RunS
    BY TypedRun
  <2>2. \A ms \in S : ms \in M
    BY SoundIsMessage
  <2> HIDE DEF S, M
  <2>3. input \in S /\ input \in M
    BY <1>7, <2>2
  <2> QED BY <1>8, <2>1, <2>3 DEF RunS, Run, S, M
<1>10. /\ run'.at = "loading" /\ run'.input = input
       /\ run'.loaded = <<>> /\ run'.graph = <<>>
  BY <1>8 DEF NoRun
<1> HIDE DEF S, M
<1>11. TypeInv'
  <2> QED BY <1>1, <1>8, <1>9 DEF MemInv, TypeInv, RunS, S
<1>12. SameIds'
  <2>1. RangeOf(<<>>) = {}
    BY DEF RangeOf
  <2>2. Held' \subseteq Held
    BY <1>8, <1>10, <2>1 DEF Held
  <2> QED BY <2>2 DEF MemInv, SameIds
<1>13. Kept'
  BY <1>1, <1>7, <1>8, <1>10 DEF MemInv, Kept, Asked, Of, Told
<1> QED BY <1>11, <1>12, <1>13 DEF MemInv

LEMMA StartGraphKeeps == MemInv /\ StartGraph => MemInv'
<1> SUFFICES ASSUME MemInv, StartGraph PROVE MemInv'
  OBVIOUS
<1> DEFINE S == Seq(Sound)
           packed == Pack(run.input, run.rest)
           graph == checkpoint \o New(packed)
<1>1. run \in RunS /\ checkpoint \in S /\ run.input \in S /\ run.rest \in Nat
  BY TypedRun DEF MemInv, RunS, Run
<1>2. packed \in S /\ Asked(run.input) \subseteq Asked(packed)
  BY <1>1, PackKeeps
<1> HIDE DEF packed
<1>3. New(packed) \in S /\ Told(New(packed)) = Told(packed)
  BY <1>2, NewNames, ToldByNew DEF MemInv
<1>4. /\ graph \in S /\ RangeOf(graph) = RangeOf(checkpoint) \cup RangeOf(New(packed))
      /\ Told(graph) = Told(checkpoint) \cup Told(packed)
  <2> HIDE DEF Sound
  <2> QED BY <1>1, <1>3, RangeOfConcat, ToldConcat
<1>5. /\ run.at = "ready" /\ run' = [run EXCEPT !.at = "graph", !.graph = graph]
      /\ UNCHANGED <<checkpoint, compaction, turns, archived, answered, split>>
  BY DEF StartGraph, packed
<1> HIDE DEF graph
<1>6. run' \in RunS /\ run'.at = "graph" /\ run'.graph = graph /\ run'.loaded = run.loaded
  <2> DEFINE M == Seq(Message)
  <2>1. \A ms \in S : ms \in M
    BY SoundIsMessage
  <2> HIDE DEF S, M
  <2>2. graph \in S /\ graph \in M
    BY <1>4, <2>1
  <2> QED BY <1>1, <1>5, <2>2 DEF RunS, Run, S, M
<1>7. TypeInv'
  <2> HIDE DEF S
  <2> QED BY <1>5, <1>6 DEF MemInv, TypeInv, RunS, S
<1>8. SameIds'
  <2>1. Held' \subseteq Held \cup RangeOf(New(packed))
    BY <1>4, <1>5, <1>6 DEF Held
  <2> HIDE DEF Sound
  <2> QED BY <1>2, <2>1, NewHaveOwnIds DEF MemInv
<1>9. Kept'
  <2>1. turns \in Asked(run.input) /\ answered \subseteq Told(checkpoint)
    BY <1>5 DEF MemInv, Kept
  <2>2. answered \cup {turns} \subseteq Told(graph)
    BY <1>2, <1>4, <2>1, AskedIsTold
  <2>3. Told(checkpoint)' = Told(checkpoint) /\ Told(run.graph)' = Told(graph)
    BY <1>5, <1>6 DEF Told, Of
  <2> QED BY <1>5, <1>6, <2>1, <2>2, <2>3 DEF Kept
<1> QED BY <1>7, <1>8, <1>9 DEF MemInv

LEMMA EndGraphKeeps ==
    ASSUME MemInv, NEW called \in BOOLEAN, EndGraph(called)
    PROVE  MemInv'
<1> DEFINE S == Seq(Sound)
           said == IF called
                   THEN <<Say("call", turns), Say("tool", turns), Say("answer", turns)>>
                   ELSE <<Say("answer", turns)>>
           stored == run.graph \o New(said)
<1>1. run.at = "graph" /\ turns \in Turn /\ NoRun \in RunS /\ run.graph \in S
  BY TypedRun DEF EndGraph, MemInv, TypeInv
<1>2. said \in S
  <2>1. Say("call", turns) \in Sound /\ Say("tool", turns) \in Sound /\ Say("answer", turns) \in Sound
    BY <1>1, SaidIsSound DEF Kind
  <2> HIDE DEF Sound
  <2> QED BY <2>1
<1>3. /\ checkpoint' = stored /\ run' = NoRun
      /\ answered' = answered \cup {turns} /\ turns' = turns /\ split' = split
      /\ \/ compaction' = compaction
         \/ compaction' = [NoCompaction EXCEPT !.at = "reading"]
  BY DEF EndGraph
<1> HIDE DEF said
<1>4. New(said) \in S
  BY <1>2, NewNames DEF MemInv
<1>5. /\ stored \in S /\ RangeOf(stored) = RangeOf(run.graph) \cup RangeOf(New(said))
      /\ Told(stored) = Told(run.graph) \cup Told(New(said))
  <2> HIDE DEF Sound
  <2> QED BY <1>1, <1>4, RangeOfConcat, ToldConcat
<1> HIDE DEF stored
<1>6. TypeInv'
  <2>1. <<>> \in S
    OBVIOUS
  <2> HIDE DEF S
  <2>2. compaction' \in [at : {"none", "reading", "writing"}, seen : S]
    BY <1>3, <2>1 DEF MemInv, TypeInv, NoCompaction, S
  <2>3. answered' \subseteq Turn
    BY <1>1, <1>3 DEF MemInv, TypeInv
  <2>4. run' \in RunS /\ run'.at = "idle" /\ checkpoint' \in S
    BY <1>1, <1>3, <1>5 DEF NoRun
  <2>5. /\ turns' \in 0..MaxTurns /\ archived' \in BOOLEAN /\ split' \subseteq Turn
    BY <1>3 DEF MemInv, TypeInv, EndGraph
  <2> QED BY <2>2, <2>3, <2>4, <2>5 DEF TypeInv, RunS, S
<1>7. SameIds'
  <2>1. RangeOf(<<>>) = {}
    BY DEF RangeOf
  <2>2. compaction'.seen \in {compaction.seen, <<>>} /\ run'.loaded = <<>> /\ run'.graph = <<>>
    BY <1>3 DEF NoCompaction, NoRun
  <2>3. Held' \subseteq Held \cup RangeOf(New(said))
    BY <1>3, <1>5, <2>1, <2>2 DEF Held
  <2> HIDE DEF Sound
  <2> QED BY <1>2, <2>3, NewHaveOwnIds DEF MemInv
<1>8. Kept'
  <2>1. answered \cup {turns} \subseteq Told(run.graph)
    BY <1>1 DEF MemInv, Kept
  <2>2. Told(checkpoint)' = Told(stored)
    BY <1>3 DEF Told, Of
  <2> QED BY <1>3, <1>5, <2>1, <2>2 DEF Kept, NoRun
<1> QED BY <1>6, <1>7, <1>8 DEF MemInv

LEMMA CompactionReadsKeeps == MemInv /\ CompactionReads => MemInv'
<1> SUFFICES ASSUME MemInv, CompactionReads PROVE MemInv'
  OBVIOUS
<1> DEFINE S == Seq(Sound)
<1>1. /\ UNCHANGED <<checkpoint, run, turns, archived, answered, split>>
      /\ \/ compaction' = [at |-> "writing", seen |-> checkpoint]
         \/ compaction' = NoCompaction
  BY DEF CompactionReads
<1>2. <<>> \in S /\ checkpoint \in S
  BY TypedRun DEF MemInv
<1> HIDE DEF S
<1>3. compaction' \in [at : {"none", "reading", "writing"}, seen : S]
  BY <1>1, <1>2 DEF NoCompaction
<1>4. TypeInv'
  BY <1>1, <1>3 DEF MemInv, TypeInv, S
<1>5. Held' \subseteq Held
  <2>1. RangeOf(<<>>) = {}
    BY DEF RangeOf
  <2>2. compaction'.seen \in {checkpoint, <<>>}
    BY <1>1 DEF NoCompaction
  <2> QED BY <1>1, <2>1, <2>2 DEF Held
<1> QED BY <1>1, <1>4, <1>5 DEF MemInv, SameIds, Kept, Told, Asked, Of

LEMMA CompactionWritesKeeps == MemInv /\ CompactionWrites => MemInv'
<1> SUFFICES ASSUME MemInv, CompactionWrites PROVE MemInv'
  OBVIOUS
<1> DEFINE S == Seq(Sound)
           ms == compaction.seen
<1>1. /\ compaction.at = "writing" /\ compaction' = NoCompaction
      /\ UNCHANGED <<turns, archived, answered, split>>
  BY DEF CompactionWrites
<1>2. ms \in S /\ RangeOf(ms) \subseteq Held
  <2>1. ms \in S
    <3> HIDE DEF S
    <3> QED BY DEF MemInv, TypeInv, S
  <2> QED BY <2>1 DEF Held
<1>3. <<>> \in S /\ RangeOf(<<>>) = {}
  BY DEF RangeOf
<1>4. /\ Prefix(ms) \in S /\ <<Summary>> \in S
      /\ RangeOf(Prefix(ms)) \subseteq RangeOf(ms)
      /\ Told(Prefix(ms)) \subseteq Told(<<Summary>>)
  <2> HIDE DEF Sound, ms
  <2> QED BY <1>2, PartsTell
<1>5. compaction' \in [at : {"none", "reading", "writing"}, seen : S] /\ compaction'.seen = <<>>
  <2> HIDE DEF S
  <2> QED BY <1>1, <1>3 DEF NoCompaction
<1>6. CASE Removable(ms)
  <2>1. /\ checkpoint' = Updated(Prefix(ms), <<Summary>>)
        /\ run' = [run EXCEPT !.crossed = TRUE]
    BY <1>6, Zenon DEF CompactionWrites
  <2>2. /\ run' \in RunS /\ run'.at = run.at /\ run'.input = run.input
        /\ run'.loaded = run.loaded /\ run'.graph = run.graph
    <3>1. run \in RunS
      BY TypedRun DEF MemInv
    <3> HIDE DEF S
    <3> QED BY <2>1, <3>1 DEF RunS, Run
  <2>3. checkpoint' \in S /\ SameIds' /\ Told(checkpoint) \subseteq Told(checkpoint)'
    <3>1. /\ RangeOf(run.loaded)' \subseteq RangeOf(run.loaded)
          /\ RangeOf(run.graph)' \subseteq RangeOf(run.graph)
          /\ RangeOf(compaction.seen)' \subseteq RangeOf(compaction.seen)
      BY <1>3, <1>5, <2>2 DEF RangeOf
    <3> HIDE DEF ms, Sound
    <3> QED BY <1>2, <1>4, <2>1, <3>1, UpdateKeeps
  <2> HIDE DEF S
  <2>4. TypeInv'
    BY <1>1, <1>5, <2>2, <2>3 DEF MemInv, TypeInv, RunS, S
  <2>5. Kept'
    BY <1>1, <2>2, <2>3 DEF MemInv, Kept
  <2> QED BY <2>3, <2>4, <2>5 DEF MemInv
<1>7. CASE ~Removable(ms)
  <2>1. UNCHANGED <<checkpoint, run>>
    BY <1>7, Zenon DEF CompactionWrites
  <2> HIDE DEF S
  <2>2. TypeInv'
    BY <1>1, <1>5, <2>1 DEF MemInv, TypeInv, S
  <2>3. Held' \subseteq Held
    BY <1>3, <1>5, <2>1 DEF Held
  <2> QED BY <1>1, <2>1, <2>2, <2>3 DEF MemInv, SameIds, Kept, Told, Asked, Of
<1> QED BY <1>6, <1>7

LEMMA MemInit == Init => MemInv
<1> SUFFICES ASSUME Init PROVE MemInv
  OBVIOUS
<1> DEFINE S == Seq(Sound)
<1>1. <<>> \in S /\ RangeOf(<<>>) = {}
  BY DEF RangeOf
<1>2. NoRun \in RunS
  BY TypedRun
<1> HIDE DEF S
<1>3. TypeInv
  <2>1. 0 \in 0..MaxTurns
    BY ContextAssumption
  <2> QED BY <1>1, <1>2, <2>1 DEF Init, TypeInv, RunS, S, NoRun, NoCompaction
<1>4. Held = {}
  BY <1>1 DEF Init, Held, NoRun, NoCompaction
<1> QED BY <1>3, <1>4 DEF Init, MemInv, SameIds, Kept, NoRun

LEMMA MemStep == MemInv /\ [Next]_vars => MemInv'
<1> SUFFICES ASSUME MemInv, [Next]_vars PROVE MemInv'
  OBVIOUS
<1>1. CASE Load
  <2>1. ReadsOnly(run')
    BY <1>1, EveryReadReadsOnly DEF Load, MemInv
  <2> QED BY <1>1, <2>1, ReadKeeps DEF Load
<1>2. CASE ReadState
  <2>1. run.crossed \in BOOLEAN
    BY TypedRun DEF MemInv, RunS, Run
  <2>2. ReadsOnly(run')
    BY <1>2, <2>1, EveryReadReadsOnly DEF ReadState, MemInv
  <2> QED BY <1>2, <2>2, ReadKeeps DEF ReadState
<1>3. CASE Reload
  <2>1. ReadsOnly(run')
    BY <1>3, EveryReadReadsOnly DEF Reload, MemInv
  <2> QED BY <1>3, <2>1, ReadKeeps DEF Reload
<1>4. CASE LoadSummarized
  <2>1. ReadsOnly(run')
    BY <1>4, EveryReadReadsOnly DEF LoadSummarized, MemInv
  <2> QED BY <1>4, <2>1, ReadKeeps DEF LoadSummarized
<1>5. CASE Measure
  <2>1. ReadsOnly(run')
    BY <1>5, EveryReadReadsOnly DEF Measure, MemInv
  <2> QED BY <1>5, <2>1, ReadKeeps DEF Measure
<1>6. CASE vars' = vars
  <2>1. TypeInv'
    <3> HIDE DEF Sound
    <3> QED BY <1>6 DEF vars, MemInv, TypeInv
  <2>2. SameIds'
    BY <1>6 DEF vars, MemInv, SameIds, Held, RangeOf
  <2>3. Kept'
    BY <1>6 DEF vars, MemInv, Kept, Told, Asked, Of
  <2> QED BY <2>1, <2>2, <2>3 DEF MemInv
<1>7. CASE \E memory \in Memory \cup {Nothing}, docs \in Docs \cup {Nothing},
              size \in UserSizes : Assemble(memory, docs, size)
  BY <1>7, AssembleKeeps
<1>8. CASE \E called \in BOOLEAN : EndGraph(called)
  BY <1>8, EndGraphKeeps
<1> QED
  BY <1>1, <1>2, <1>3, <1>4, <1>5, <1>6, <1>7, <1>8, CompactForRunKeeps, SummarizeKeeps,
     DropOldestKeeps, StartGraphKeeps, CompactionReadsKeeps, CompactionWritesKeeps,
     CreateRunKeeps, ArchiveKeeps DEF Next

\* Whatever the run and the compaction write in whatever order, the checkpoint
\* is a sequence of messages, a run has the fields of its stage, and remaining_budget
\* is never negative.
THEOREM TypeCorrectness == Spec => []TypeOK
<1>1. MemInv => TypeOK
  BY TypeInvIsTyped DEF MemInv
<1> QED BY MemInit, MemStep, <1>1, PTL DEF Spec

-----------------------------------------------------------------------------
(* A result keeps its call.  Between a call and its result nobody speaks, so a  *)
(* split at what a user said takes both or none; and what is written back is    *)
(* what was read, as it still is, or the write fails.                           *)

\* The call that the message at i answers: no user speaks between the two.
Answers(ms, j, i) ==
    /\ j \in Of(ms, "call") /\ j < i /\ ms[j].text = ms[i].text
    /\ \A k \in Of(ms, "user") : ~(j < k /\ k < i)

Paired(ms, dropped) ==
    \A i \in Of(ms, "tool") : (\E j \in Of(ms, "call") : Answers(ms, j, i)) \/ ms[i].text \in dropped

Distinct(ms) == \A i, j \in DOMAIN ms : ms[i].id = ms[j].id => i = j

Begins(a, ms) == Len(a) <= Len(ms) /\ \A i \in 1..Len(a) : ms[i] = a[i]

\* What was read begins what is there, or cannot be removed any more.
StillBegins(a, ms) == Begins(a, ms) \/ ~(Ids(a) \subseteq Ids(ms))

NoResults(ms) == Of(ms, "tool") = {}

PairsAreKept ==
    /\ Paired(checkpoint, split) /\ Distinct(checkpoint)
    /\ run.at = "graph" => Paired(run.graph, split) /\ Distinct(run.graph)
    /\ run.at \notin {"idle", "graph"} => NoResults(run.input)

\* What the run and the compaction hold, and that their writes remove something:
\* the other's write fails then.
ReadIsThere ==
    /\ run.at \in Holding => (run.loaded = checkpoint \/ ~Removable(run.loaded))
    /\ run.at \in {"compacting", "summarizing"} => Prefix(run.loaded) # <<>>
    /\ run.at = "dropping" => run.loaded # <<>>
    /\ compaction.at = "writing" =>
          /\ Prefix(compaction.seen) # <<>>
          /\ StillBegins(compaction.seen, checkpoint)
          /\ run.at = "graph" => StillBegins(compaction.seen, run.graph)

PairInv == PairsAreKept /\ ReadIsThere

\* Messages that appear in another sequence in their order are paired there, if
\* nothing they answer is left out that is not known as dropped.
LEMMA PairedImage ==
    ASSUME NEW ms, NEW r, NEW f, NEW T, NEW U, T \subseteq U, Paired(ms, T),
           DOMAIN r \subseteq Int, DOMAIN ms \subseteq Int,
           \A k \in DOMAIN r : /\ f[k] \in DOMAIN ms
                               /\ r[k].kind = ms[f[k]].kind /\ r[k].text = ms[f[k]].text,
           \A k, l \in DOMAIN r : k < l => f[k] < f[l],
           \A k \in Of(r, "tool") : \A j \in Of(ms, "call") :
              Answers(ms, j, f[k]) => (\E l \in DOMAIN r : f[l] = j) \/ r[k].text \in U
    PROVE  Paired(r, U)
<1> SUFFICES ASSUME NEW k \in Of(r, "tool"), r[k].text \notin U
             PROVE  \E l \in Of(r, "call") : Answers(r, l, k)
  BY DEF Paired
<1>1. k \in DOMAIN r /\ f[k] \in Of(ms, "tool") /\ r[k].text = ms[f[k]].text
  BY DEF Of
<1>2. PICK j \in Of(ms, "call") : Answers(ms, j, f[k])
  BY <1>1 DEF Paired
<1>3. PICK l \in DOMAIN r : f[l] = j
  BY <1>2
<1>4. l \in Of(r, "call") /\ r[l].text = r[k].text
  BY <1>1, <1>2, <1>3 DEF Of, Answers
<1>5. j < f[k] /\ j \in Int /\ f[k] \in Int
  BY <1>1, <1>2 DEF Answers, Of
<1>6. l < k
  <2>1. l \in Int /\ k \in Int
    BY <1>1
  <2>2. l # k /\ ~(k < l)
    BY <1>1, <1>3, <1>5
  <2> QED BY <2>1, <2>2
<1>7. ASSUME NEW u \in Of(r, "user"), l < u, u < k
      PROVE  FALSE
  <2>1. u \in DOMAIN r /\ f[u] \in Of(ms, "user")
    BY DEF Of
  <2>2. j < f[u] /\ f[u] < f[k]
    BY <1>1, <1>3, <1>7, <2>1
  <2> QED BY <1>2, <2>1, <2>2 DEF Answers
<1> QED BY <1>4, <1>6, <1>7 DEF Answers

LEMMA PairedMore ==
    ASSUME NEW ms, NEW T, NEW U, T \subseteq U, Paired(ms, T)
    PROVE  Paired(ms, U)
BY DEF Paired

LEMMA PairedConcat ==
    ASSUME NEW S, NEW a \in Seq(S), NEW b \in Seq(S), NEW T, Paired(a, T), Paired(b, T)
    PROVE  Paired(a \o b, T)
<1> DEFINE c == a \o b
<1>1. Len(a) \in Nat /\ Len(b) \in Nat /\ DOMAIN a = 1..Len(a) /\ DOMAIN b = 1..Len(b)
  OBVIOUS
<1>2. /\ DOMAIN c = 1..Len(a) + Len(b)
      /\ \A i \in 1..Len(a) : c[i] = a[i]
      /\ \A i \in 1..Len(b) : c[Len(a) + i] = b[i]
      /\ \A i \in 1..Len(a) + Len(b) : i <= Len(a) \/ i - Len(a) \in 1..Len(b)
  BY <1>1, ConcatProperties
<1> HIDE DEF c
<1> SUFFICES ASSUME NEW i \in Of(c, "tool"), c[i].text \notin T
             PROVE  \E j \in Of(c, "call") : Answers(c, j, i)
  BY DEF Paired, c
<1>3. i \in 1..Len(a) + Len(b) /\ c[i].kind = "tool"
  BY <1>2 DEF Of
<1>4. CASE i <= Len(a)
  <2>1. i \in 1..Len(a) /\ c[i] = a[i]
    BY <1>1, <1>2, <1>3, <1>4
  <2>2. i \in Of(a, "tool")
    BY <1>1, <1>3, <2>1 DEF Of
  <2>3. PICK j \in Of(a, "call") : Answers(a, j, i)
    BY <2>1, <2>2 DEF Paired
  <2>4. j \in 1..Len(a) /\ j \in DOMAIN c /\ c[j] = a[j] /\ a[j].kind = "call"
    BY <1>1, <1>2, <2>3 DEF Of
  <2>5. ASSUME NEW u \in Of(c, "user"), j < u, u < i PROVE FALSE
    <3>1. u \in 1..Len(a) + Len(b) /\ c[u].kind = "user"
      BY <1>2 DEF Of
    <3>2. u \in 1..Len(a)
      BY <1>1, <1>4, <2>1, <2>5, <3>1
    <3>3. u \in Of(a, "user")
      BY <1>1, <1>2, <3>1, <3>2 DEF Of
    <3> QED BY <2>3, <2>5, <3>3 DEF Answers
  <2>6. j \in Of(c, "call")
    BY <2>4 DEF Of
  <2> QED BY <2>1, <2>3, <2>4, <2>5, <2>6 DEF Answers
<1>5. CASE ~(i <= Len(a))
  <2> DEFINE n == Len(a)
             h == i - n
  <2>1. n \in Nat /\ h \in 1..Len(b) /\ i = n + h /\ c[i] = b[h]
    <3>1. h \in 1..Len(b) /\ i = n + h
      BY <1>1, <1>2, <1>3, <1>5
    <3> QED BY <1>1, <1>2, <3>1
  <2> HIDE DEF h
  <2>2. h \in Of(b, "tool")
    BY <1>1, <1>3, <2>1 DEF Of
  <2>3. PICK j \in Of(b, "call") : Answers(b, j, h)
    BY <2>1, <2>2 DEF Paired
  <2>4. /\ j \in 1..Len(b) /\ n + j \in DOMAIN c /\ c[n + j] = b[j] /\ b[j].kind = "call"
        /\ j < h
    <3>1. j \in 1..Len(b) /\ b[j].kind = "call" /\ j < h
      BY <1>1, <2>3 DEF Of, Answers
    <3> QED BY <1>1, <1>2, <3>1
  <2>5. ASSUME NEW u \in Of(c, "user"), n + j < u, u < i PROVE FALSE
    <3>1. u \in 1..n + Len(b) /\ c[u].kind = "user"
      BY <1>2 DEF Of
    <3>2. u - n \in 1..Len(b) /\ n + (u - n) = u /\ j < u - n /\ u - n < h
      BY <1>1, <2>1, <2>4, <2>5, <3>1
    <3>3. c[u] = b[u - n]
      BY <1>2, <3>2
    <3>4. u - n \in Of(b, "user")
      BY <1>1, <3>1, <3>2, <3>3 DEF Of
    <3> QED BY <2>3, <3>2, <3>4 DEF Answers
  <2>6. n + j \in Of(c, "call") /\ n + j < i
    BY <1>1, <2>1, <2>4 DEF Of
  <2>7. c[n + j].text = c[i].text
    BY <2>1, <2>3, <2>4 DEF Answers
  <2> HIDE DEF n
  <2> QED BY <2>5, <2>6, <2>7 DEF Answers
<1> QED BY <1>4, <1>5

\* Messages without results are paired.
LEMMA NothingToPair ==
    ASSUME NEW ms, NEW T, NoResults(ms)
    PROVE  Paired(ms, T)
BY DEF Paired, NoResults

\* What is left out of messages may be what nobody answers, or is known.
LEMMA PairedOmit ==
    ASSUME NEW S, NEW ms \in Seq(S), NEW gone, NEW T, NEW U, T \subseteq U, Paired(ms, T),
           \A i \in Of(ms, "tool") \ gone : \A j \in Of(ms, "call") \cap gone :
              Answers(ms, j, i) => ms[i].text \in U
    PROVE  Paired(Omit(ms, gone), U)
<1> DEFINE P == 1..Len(ms) \ gone
           f == Ascending(P)
           r == Omit(ms, gone)
<1>1. Len(ms) \in Nat /\ DOMAIN ms = 1..Len(ms)
  OBVIOUS
<1>2. /\ r \in Seq(S) /\ Len(r) = Len(f)
      /\ \A k \in 1..Len(r) : f[k] \in P /\ r[k] = ms[f[k]]
      /\ \A i \in P : \E k \in 1..Len(r) : f[k] = i
  BY OmitLeaves
<1>3. \A k, l \in 1..Len(f) : k < l => f[k] < f[l]
  <2> HIDE DEF P
  <2>1. P \subseteq 1..Len(ms)
    BY DEF P
  <2> QED BY <1>1, <2>1, PlacesInOrder
<1> HIDE DEF r, f
<1>4. DOMAIN r = 1..Len(r) /\ Len(r) \in Nat
  BY <1>2
<1>5. ASSUME NEW k \in Of(r, "tool"), NEW j \in Of(ms, "call"), Answers(ms, j, f[k])
      PROVE  (\E l \in DOMAIN r : f[l] = j) \/ r[k].text \in U
  <2>1. k \in 1..Len(r) /\ f[k] \in P /\ r[k] = ms[f[k]] /\ r[k].kind = "tool"
    BY <1>2, <1>4 DEF Of
  <2>2. f[k] \in Of(ms, "tool") \ gone
    BY <1>1, <2>1 DEF Of
  <2>3. CASE j \in gone
    BY <1>5, <2>1, <2>2, <2>3
  <2>4. CASE j \notin gone
    <3>1. j \in P
      BY <1>1, <2>4 DEF Of
    <3> QED BY <1>2, <1>4, <3>1
  <2> QED BY <2>3, <2>4
<1>6. \A k \in DOMAIN r : /\ f[k] \in DOMAIN ms
                          /\ r[k].kind = ms[f[k]].kind /\ r[k].text = ms[f[k]].text
  BY <1>1, <1>2, <1>4
<1>7. \A k, l \in DOMAIN r : k < l => f[k] < f[l]
  BY <1>2, <1>3, <1>4
<1>8. DOMAIN r \subseteq Int /\ DOMAIN ms \subseteq Int
  BY <1>1, <1>4
<1> HIDE DEF P
<1>9. Paired(r, U)
  BY <1>5, <1>6, <1>7, <1>8, PairedImage
<1> QED BY <1>9 DEF r

\* The suffix begins where a user speaks.
LEMMA PairedSuffix ==
    ASSUME NEW S, NEW ms \in Seq(S), NEW T, Paired(ms, T)
    PROVE  Paired(Suffix(ms), T)
<1> DEFINE n == SplitIndex(ms)
           b == Suffix(ms)
           f == [k \in DOMAIN b |-> n + k - 1]
<1>1. Len(ms) \in Nat /\ DOMAIN ms = 1..Len(ms)
  OBVIOUS
<1>2. /\ n \in 1..Len(ms) + 1
      /\ n = 1 \/ n \in Of(ms, "user")
      /\ b \in Seq(S) /\ Len(b) = Len(ms) - n + 1
      /\ \A i \in 1..Len(ms) - n + 1 : b[i] = ms[n + i - 1]
  BY SplitInTwo
<1> HIDE DEF n, b
<1>3. DOMAIN b = 1..Len(ms) - n + 1
  BY <1>2
<1>4. \A k \in DOMAIN b : f[k] = n + k - 1 /\ f[k] \in 1..Len(ms) /\ f[k] >= n /\ b[k] = ms[f[k]]
  BY <1>1, <1>2, <1>3
<1>5. \A k, l \in DOMAIN b : k < l => f[k] < f[l]
  BY <1>1, <1>2, <1>3
<1>6. \A i \in n..Len(ms) : i - n + 1 \in DOMAIN b /\ f[i - n + 1] = i
  <2> TAKE i \in n..Len(ms)
  <2>1. i - n + 1 \in DOMAIN b /\ n + (i - n + 1) - 1 = i
    BY <1>1, <1>2, <1>3
  <2> QED BY <1>4, <2>1
<1> HIDE DEF f
<1>7. ASSUME NEW k \in Of(b, "tool"), NEW j \in Of(ms, "call"), Answers(ms, j, f[k])
      PROVE  \E l \in DOMAIN b : f[l] = j
  <2>1. k \in DOMAIN b /\ b[k].kind = "tool"
    BY DEF Of
  <2>2. j \in 1..Len(ms) /\ f[k] \in 1..Len(ms) /\ f[k] >= n /\ ms[f[k]].kind = "tool"
    BY <1>1, <1>4, <2>1 DEF Of
  <2>3. j >= n
    <3>1. CASE n = 1
      BY <2>2, <3>1
    <3>2. CASE n \in Of(ms, "user")
      <4>1. ms[n].kind = "user"
        BY <3>2 DEF Of
      <4>2. f[k] # n /\ n < f[k]
        BY <1>2, <2>2, <4>1
      <4>3. ~(j < n)
        BY <1>7, <3>2, <4>2 DEF Answers
      <4> QED BY <1>2, <2>2, <4>3
    <3> QED BY <1>2, <3>1, <3>2
  <2>4. j \in n..Len(ms)
    BY <1>1, <1>2, <2>2, <2>3
  <2> QED BY <1>6, <2>4
<1>8. DOMAIN b \subseteq Int /\ DOMAIN ms \subseteq Int
  BY <1>1, <1>3
<1>9. \A k \in DOMAIN b : /\ f[k] \in DOMAIN ms
                          /\ b[k].kind = ms[f[k]].kind /\ b[k].text = ms[f[k]].text
  BY <1>1, <1>4
<1>10. Paired(b, T)
  BY <1>5, <1>7, <1>8, <1>9, PairedImage
<1> QED BY <1>10 DEF b

\* New numbers change neither what is paired nor that numbers are distinct.
LEMMA NewArePaired ==
    ASSUME TypeInv, NEW ms \in Seq(Sound), NEW T, Paired(ms, T)
    PROVE  Paired(New(ms), T)
<1> DEFINE r == New(ms)
           f == [k \in DOMAIN r |-> k]
<1>1. Len(ms) \in Nat /\ DOMAIN ms = 1..Len(ms)
  <2> HIDE DEF Sound
  <2> QED OBVIOUS
<1>2. /\ r \in Seq(Sound) /\ Len(r) = Len(ms)
      /\ \A i \in 1..Len(ms) : r[i].kind = ms[i].kind /\ r[i].text = ms[i].text
  BY NewNames
<1>3. DOMAIN r = 1..Len(ms)
  <2> HIDE DEF Sound, r
  <2> QED BY <1>2
<1> HIDE DEF r
<1>4. \A k \in DOMAIN r : f[k] = k
  OBVIOUS
<1> HIDE DEF f
<1>5. DOMAIN r \subseteq Int /\ DOMAIN ms \subseteq Int
  BY <1>1, <1>3
<1>6. \A k \in DOMAIN r : /\ f[k] \in DOMAIN ms
                          /\ r[k].kind = ms[f[k]].kind /\ r[k].text = ms[f[k]].text
  BY <1>1, <1>2, <1>3, <1>4
<1>7. \A k, l \in DOMAIN r : k < l => f[k] < f[l]
  BY <1>4
<1>8. \A j \in Of(ms, "call") : j \in DOMAIN r /\ f[j] = j
  BY <1>1, <1>3, <1>4 DEF Of
<1>9. Paired(r, T)
  BY <1>5, <1>6, <1>7, <1>8, PairedImage
<1> QED BY <1>9 DEF r

LEMMA NewAreDistinct ==
    ASSUME TypeInv, NEW a \in Seq(Sound), Distinct(a), Ids(a) \subseteq Used,
           NEW ms \in Seq(Sound)
    PROVE  Distinct(a \o New(ms)) /\ Len(a \o New(ms)) = Len(a) + Len(ms)
<1> DEFINE b == New(ms)
           c == a \o b
<1>1. /\ b \in Seq(Sound) /\ Len(b) = Len(ms)
      /\ \A i \in 1..Len(ms) : b[i].id \notin Used
      /\ \A i, j \in 1..Len(ms) : b[i].id = b[j].id => i = j
  BY NewNames
<1> HIDE DEF b
<1>2. Len(a) \in Nat /\ Len(b) \in Nat /\ DOMAIN a = 1..Len(a)
  <2> HIDE DEF Sound
  <2> QED BY <1>1
<1>3. /\ DOMAIN c = 1..Len(a) + Len(b) /\ Len(c) = Len(a) + Len(b)
      /\ \A i \in 1..Len(a) + Len(b) :
            c[i] = IF i <= Len(a) THEN a[i] ELSE b[i - Len(a)]
  <2> HIDE DEF Sound, c
  <2>1. /\ c \in Seq(Sound) /\ Len(c) = Len(a) + Len(b)
        /\ \A i \in 1..Len(a) + Len(b) :
              c[i] = IF i <= Len(a) THEN a[i] ELSE b[i - Len(a)]
    BY <1>1, ConcatProperties DEF c
  <2>2. DOMAIN c = 1..Len(c)
    BY <2>1
  <2> QED BY <2>1, <2>2
<1> HIDE DEF c
<1>4. \A i \in 1..Len(a) : a[i].id \in Used
  BY <1>2 DEF Ids
<1>5. ASSUME NEW i \in DOMAIN c, NEW j \in DOMAIN c, c[i].id = c[j].id
      PROVE  i = j
  <2>0. i \in 1..Len(a) + Len(b) /\ j \in 1..Len(a) + Len(b)
    BY <1>3
  <2>1. CASE i <= Len(a) /\ j <= Len(a)
    <3>1. i \in DOMAIN a /\ j \in DOMAIN a /\ c[i] = a[i] /\ c[j] = a[j]
      BY <1>2, <1>3, <2>0, <2>1
    <3> QED BY <1>5, <3>1 DEF Distinct
  <2>2. CASE ~(i <= Len(a)) /\ ~(j <= Len(a))
    <3>1. /\ i - Len(a) \in 1..Len(b) /\ j - Len(a) \in 1..Len(b)
          /\ c[i] = b[i - Len(a)] /\ c[j] = b[j - Len(a)]
      BY <1>2, <1>3, <2>0, <2>2
    <3>2. i - Len(a) = j - Len(a)
      BY <1>1, <1>5, <3>1
    <3> QED BY <1>2, <2>0, <3>2
  <2>3. ASSUME NEW h \in 1..Len(a) + Len(b), NEW k \in 1..Len(a) + Len(b),
               h <= Len(a), ~(k <= Len(a))
        PROVE  c[h].id # c[k].id
    <3>1. h \in 1..Len(a) /\ k - Len(a) \in 1..Len(b) /\ c[h] = a[h] /\ c[k] = b[k - Len(a)]
      BY <1>2, <1>3, <2>3
    <3>2. a[h].id \in Used /\ b[k - Len(a)].id \notin Used
      BY <1>1, <1>4, <3>1
    <3> QED BY <3>1, <3>2
  <2>4. i <= Len(a) \/ ~(i <= Len(a))
    OBVIOUS
  <2> QED BY <1>5, <2>0, <2>1, <2>2, <2>3
<1> QED BY <1>1, <1>3, <1>5 DEF Distinct, b, c

\* Numbers of a sequence are those of its messages.
LEMMA IdsOfRange ==
    ASSUME NEW ms
    PROVE  Ids(ms) = {m.id : m \in RangeOf(ms)}
BY DEF Ids, RangeOf

\* What Omit leaves has distinct numbers, none of which was left out.
LEMMA OmitIsDistinct ==
    ASSUME NEW S, NEW ms \in Seq(S), NEW gone, gone \subseteq DOMAIN ms, Distinct(ms)
    PROVE  /\ Distinct(Omit(ms, gone)) /\ Ids(Omit(ms, gone)) \subseteq Ids(ms)
           /\ \A i \in gone : ms[i].id \notin Ids(Omit(ms, gone))
<1> DEFINE P == 1..Len(ms) \ gone
           f == Ascending(P)
           r == Omit(ms, gone)
<1>1. Len(ms) \in Nat /\ DOMAIN ms = 1..Len(ms)
  OBVIOUS
<1>2. /\ r \in Seq(S) /\ Len(r) = Len(f)
      /\ \A k \in 1..Len(r) : f[k] \in P /\ r[k] = ms[f[k]]
  BY OmitLeaves
<1>3. \A k, l \in 1..Len(f) : k < l => f[k] < f[l]
  <2> HIDE DEF P
  <2>1. P \subseteq 1..Len(ms)
    BY DEF P
  <2> QED BY <1>1, <2>1, PlacesInOrder
<1> HIDE DEF r, f
<1>4. DOMAIN r = 1..Len(r) /\ Len(r) \in Nat
  BY <1>2
<1>5. ASSUME NEW k \in DOMAIN r, NEW l \in DOMAIN r, r[k].id = r[l].id
      PROVE  k = l
  <2>1. f[k] \in DOMAIN ms /\ f[l] \in DOMAIN ms /\ r[k] = ms[f[k]] /\ r[l] = ms[f[l]]
    BY <1>1, <1>2, <1>4
  <2>2. f[k] = f[l]
    BY <1>5, <2>1 DEF Distinct
  <2>3. ~(f[k] < f[l]) /\ ~(f[l] < f[k])
    BY <1>1, <2>1, <2>2
  <2>4. k \in 1..Len(f) /\ l \in 1..Len(f) /\ k \in Int /\ l \in Int
    BY <1>2, <1>4
  <2>5. ~(k < l) /\ ~(l < k)
    BY <1>3, <2>3, <2>4
  <2> QED BY <2>4, <2>5
<1>6. Ids(r) \subseteq Ids(ms)
  BY <1>1, <1>2, <1>4 DEF Ids
<1>7. ASSUME NEW i \in gone, NEW k \in DOMAIN r
      PROVE  r[k].id # ms[i].id
  <2>1. f[k] \in DOMAIN ms /\ r[k] = ms[f[k]] /\ f[k] \notin gone
    BY <1>1, <1>2, <1>4
  <2> QED BY <1>7, <2>1 DEF Distinct
<1> QED BY <1>5, <1>6, <1>7 DEF Distinct, Ids, r

\* Numbers up to another, and those above it.
LEMMA UpTo ==
    ASSUME NEW m \in Nat, NEW n \in Nat
    PROVE  /\ n <= m => \A i \in 1..n : i \in 1..m
           /\ \A i \in 1..m : i \notin 1..n /\ i # n + 1 => n + 1 < i
           /\ \A j \in 1..n : j < n + 1
OBVIOUS

\* A write that removes what the checkpoint begins with, up to where a user speaks
\* or all of it, and adds messages that are paired.
LEMMA UpdatePairs ==
    ASSUME TypeInv, NEW T, NEW U, T \subseteq U, Paired(checkpoint, T), Distinct(checkpoint),
           NEW removed \in Seq(Sound), NEW added \in Seq(Sound), Begins(removed, checkpoint),
           Len(removed) = Len(checkpoint) \/ Len(removed) + 1 \in Of(checkpoint, "user"),
           Paired(added, U)
    PROVE  /\ Paired(Updated(removed, added), U)
           /\ Distinct(Updated(removed, added))
           /\ Ids(Updated(removed, added)) \subseteq Ids(checkpoint) \cup Ids(New(added))
           /\ Ids(removed) \cap Ids(Updated(removed, added)) = {}
           /\ Ids(New(added)) \cap Used = {}
<1> DEFINE n == Len(removed)
           gone == {i \in DOMAIN checkpoint : checkpoint[i].id \in Ids(removed)}
           rest == Omit(checkpoint, gone)
<1>1. checkpoint \in Seq(Sound)
  <2> HIDE DEF Sound
  <2> QED BY DEF TypeInv
<1>2. /\ Len(checkpoint) \in Nat /\ DOMAIN checkpoint = 1..Len(checkpoint)
      /\ n \in Nat /\ DOMAIN removed = 1..n
  <2> HIDE DEF Sound
  <2> QED BY <1>1
<1> HIDE DEF Sound, n
<1>3. n <= Len(checkpoint) /\ \A i \in 1..n : checkpoint[i] = removed[i]
  BY DEF Begins, n
<1>4. Updated(removed, added) = rest \o New(added)
  BY Zenon DEF Updated
<1>5. gone = 1..n
  <2>1. ASSUME NEW i \in gone PROVE i \in 1..n
    <3>1. PICK k \in 1..n : checkpoint[i].id = removed[k].id
      BY <1>2 DEF Ids
    <3>2. k \in DOMAIN checkpoint /\ checkpoint[k].id = removed[k].id
      BY <1>2, <1>3, <3>1
    <3> QED BY <3>1, <3>2 DEF Distinct
  <2>2. ASSUME NEW i \in 1..n PROVE i \in gone
    <3>1. i \in DOMAIN checkpoint /\ checkpoint[i] = removed[i] /\ i \in DOMAIN removed
      BY <1>2, <1>3, UpTo
    <3>2. checkpoint[i].id \in Ids(removed)
      BY <3>1 DEF Ids
    <3> QED BY <3>1, <3>2
  <2> QED BY <2>1, <2>2
<1>6. gone \subseteq DOMAIN checkpoint
  OBVIOUS
<1> HIDE DEF gone
<1>7. ASSUME NEW i \in Of(checkpoint, "tool") \ gone, NEW j \in Of(checkpoint, "call") \cap gone,
             Answers(checkpoint, j, i)
      PROVE  FALSE
  <2>1. i \in 1..Len(checkpoint) /\ checkpoint[i].kind = "tool" /\ i \notin 1..n /\ j \in 1..n
    BY <1>2, <1>5 DEF Of
  <2>2. n + 1 \in Of(checkpoint, "user")
    BY <1>2, <2>1 DEF n
  <2>3. i # n + 1
    BY <2>1, <2>2 DEF Of
  <2>4. j < n + 1 /\ n + 1 < i
    BY <1>2, <2>1, <2>3, UpTo
  <2> QED BY <1>7, <2>2, <2>4 DEF Answers
<1>8. /\ rest \in Seq(Sound) /\ Paired(rest, U) /\ Distinct(rest)
      /\ Ids(rest) \subseteq Ids(checkpoint)
      /\ \A i \in gone : checkpoint[i].id \notin Ids(rest)
  <2> HIDE DEF Sound
  <2>1. rest \in Seq(Sound)
    BY <1>1, OmitRange
  <2>2. Paired(rest, U)
    BY <1>1, <1>7, PairedOmit
  <2>3. /\ Distinct(rest) /\ Ids(rest) \subseteq Ids(checkpoint)
        /\ \A i \in gone : checkpoint[i].id \notin Ids(rest)
    BY <1>1, <1>6, OmitIsDistinct
  <2> QED BY <2>1, <2>2, <2>3
<1> HIDE DEF rest
<1>9. /\ New(added) \in Seq(Sound) /\ Paired(New(added), U)
      /\ Ids(New(added)) \cap Used = {}
  <2>1. New(added) \in Seq(Sound) /\ Len(New(added)) = Len(added)
        /\ \A i \in 1..Len(added) : New(added)[i].id \notin Used
    BY NewNames
  <2>2. DOMAIN New(added) = 1..Len(added)
    <3> HIDE DEF Sound
    <3> QED BY <2>1
  <2> QED BY <2>1, <2>2, NewArePaired DEF Ids
<1>10. Paired(rest \o New(added), U)
  <2> HIDE DEF Sound
  <2> QED BY <1>8, <1>9, PairedConcat
<1>11. Distinct(rest \o New(added))
  <2>1. Ids(checkpoint) \subseteq Used
    BY DEF Used
  <2> QED BY <1>8, <2>1, NewAreDistinct
<1>12. Ids(rest \o New(added)) = Ids(rest) \cup Ids(New(added))
  <2>1. RangeOf(rest \o New(added)) = RangeOf(rest) \cup RangeOf(New(added))
    <3> HIDE DEF Sound
    <3> QED BY <1>8, <1>9, RangeOfConcat
  <2> QED BY <2>1, IdsOfRange
<1>13. Ids(removed) \subseteq Used /\ Ids(removed) \cap Ids(rest) = {}
  <2>1. ASSUME NEW x \in Ids(removed)
        PROVE  x \in Ids(checkpoint) /\ x \notin Ids(rest)
    <3>1. PICK k \in 1..n : x = removed[k].id
      BY <1>2 DEF Ids, n
    <3>2. k \in gone /\ checkpoint[k] = removed[k] /\ k \in DOMAIN checkpoint
      BY <1>3, <1>5, <1>6 DEF n
    <3> QED BY <1>8, <3>1, <3>2 DEF Ids
  <2> QED BY <2>1 DEF Used
<1> QED BY <1>4, <1>8, <1>9, <1>10, <1>11, <1>12, <1>13

\* What somebody read and can still remove cannot be removed after a write that
\* removes what the checkpoint begins with.
LEMMA WriteTakesTheFirst ==
    ASSUME TypeInv, Distinct(checkpoint), Paired(checkpoint, split),
           NEW removed \in Seq(Sound), NEW added \in Seq(Sound), Begins(removed, checkpoint),
           Len(removed) = Len(checkpoint) \/ Len(removed) + 1 \in Of(checkpoint, "user"),
           NEW U, split \subseteq U, Paired(added, U), removed # <<>>,
           NEW a \in Seq(Sound), a # <<>>, Ids(a) \subseteq Used, StillBegins(a, checkpoint)
    PROVE  ~(Ids(a) \subseteq Ids(Updated(removed, added)))
<1> DEFINE after == Ids(Updated(removed, added))
<1>1. /\ after \subseteq Ids(checkpoint) \cup Ids(New(added))
      /\ Ids(removed) \cap after = {}
      /\ Ids(New(added)) \cap Used = {}
  BY UpdatePairs
<1> HIDE DEF after, Sound
<1>2. CASE Begins(a, checkpoint)
  <2>1. 1 \in 1..Len(a) /\ 1 \in DOMAIN a /\ 1 \in 1..Len(removed) /\ 1 \in DOMAIN removed
    OBVIOUS
  <2>2. a[1] = checkpoint[1] /\ removed[1] = checkpoint[1]
    BY <1>2, <2>1 DEF Begins
  <2>3. a[1].id \in Ids(a) /\ a[1].id \in Ids(removed)
    BY <2>1, <2>2 DEF Ids
  <2> QED BY <1>1, <2>3 DEF after
<1>3. CASE ~(Ids(a) \subseteq Ids(checkpoint))
  BY <1>1, <1>3 DEF after
<1> QED BY <1>2, <1>3 DEF StillBegins

\* What was read still begins what messages with new numbers follow.
LEMMA StillBeginsMore ==
    ASSUME TypeInv, NEW a \in Seq(Sound), NEW b \in Seq(Sound), NEW ms \in Seq(Sound),
           Ids(a) \subseteq Used, StillBegins(a, b)
    PROVE  StillBegins(a, b \o New(ms))
<1> DEFINE c == b \o New(ms)
<1>1. /\ New(ms) \in Seq(Sound) /\ Len(New(ms)) = Len(ms)
      /\ \A i \in 1..Len(ms) : New(ms)[i].id \notin Used
  BY NewNames
<1> HIDE DEF Sound
<1>2. DOMAIN New(ms) = 1..Len(ms)
  BY <1>1
<1>3. Ids(New(ms)) \cap Used = {}
  BY <1>1, <1>2 DEF Ids
<1>4. Ids(c) = Ids(b) \cup Ids(New(ms))
  <2>1. RangeOf(c) = RangeOf(b) \cup RangeOf(New(ms))
    BY <1>1, RangeOfConcat
  <2> QED BY <2>1, IdsOfRange
<1>5. CASE Begins(a, b)
  <2>1. Len(a) \in Nat /\ Len(b) \in Nat /\ Len(New(ms)) \in Nat
    BY <1>1
  <2>2. /\ Len(c) = Len(b) + Len(New(ms))
        /\ \A i \in 1..Len(b) + Len(New(ms)) :
              c[i] = IF i <= Len(b) THEN b[i] ELSE New(ms)[i - Len(b)]
    BY <1>1, ConcatProperties
  <2> HIDE DEF c
  <2>3. Len(a) <= Len(b) /\ \A i \in 1..Len(a) : b[i] = a[i]
    BY <1>5 DEF Begins
  <2>4. Len(a) <= Len(c) /\ \A i \in 1..Len(a) : c[i] = b[i]
    <3> DEFINE l == Len(a)
               m == Len(b)
               n == Len(New(ms))
    <3>1. l \in Nat /\ m \in Nat /\ n \in Nat /\ l <= m
      BY <2>1, <2>3
    <3>2. Len(c) = m + n /\ \A i \in 1..m + n : i <= m => c[i] = b[i]
      BY <2>2
    <3> HIDE DEF l, m, n
    <3>3. l <= m + n /\ \A i \in 1..l : i \in 1..m + n /\ i <= m
      BY <3>1
    <3> QED BY <3>2, <3>3 DEF l
  <2> QED BY <2>3, <2>4 DEF StillBegins, Begins, c
<1>6. CASE ~(Ids(a) \subseteq Ids(b))
  <2>1. ~(Ids(a) \subseteq Ids(c))
    BY <1>3, <1>4, <1>6
  <2> QED BY <2>1 DEF StillBegins
<1> QED BY <1>5, <1>6 DEF StillBegins

\* A prefix that is not empty ends before a user speaks.
LEMMA PrefixBegins ==
    ASSUME NEW S, NEW a \in Seq(S), NEW ms \in Seq(S), Begins(a, ms), Prefix(a) # <<>>
    PROVE  /\ Begins(Prefix(a), ms) /\ Len(Prefix(a)) + 1 \in Of(ms, "user")
           /\ a # <<>> /\ ms # <<>>
<1> DEFINE n == SplitIndex(a)
<1>1. /\ n \in 1..Len(a) + 1
      /\ n = 1 \/ n \in Of(a, "user")
      /\ Prefix(a) \in Seq(S) /\ Len(Prefix(a)) = n - 1
      /\ \A i \in 1..n - 1 : Prefix(a)[i] = a[i]
  BY SplitInTwo
<1>2. Len(a) \in Nat /\ Len(ms) \in Nat /\ DOMAIN a = 1..Len(a) /\ DOMAIN ms = 1..Len(ms)
  OBVIOUS
<1> HIDE DEF n
<1>3. n # 1
  <2>1. Len(Prefix(a)) # 0
    BY <1>1
  <2> QED BY <1>1, <2>1
<1>4. n \in 1..Len(a) /\ a[n].kind = "user"
  BY <1>1, <1>2, <1>3 DEF Of
<1>5. Len(a) <= Len(ms) /\ \A i \in 1..Len(a) : ms[i] = a[i]
  BY DEF Begins
<1>6. n \in 1..Len(ms) /\ ms[n] = a[n]
  BY <1>2, <1>4, <1>5
<1>7. n \in Of(ms, "user") /\ (n - 1) + 1 = n
  BY <1>2, <1>4, <1>6 DEF Of
<1>8. Begins(Prefix(a), ms)
  <2>1. n - 1 <= Len(ms) /\ \A i \in 1..n - 1 : i \in 1..Len(a)
    BY <1>2, <1>4, <1>6
  <2>2. \A i \in 1..n - 1 : ms[i] = Prefix(a)[i]
    BY <1>1, <1>5, <2>1
  <2> QED BY <1>1, <2>1, <2>2 DEF Begins
<1>9. a # <<>> /\ ms # <<>>
  BY <1>4, <1>6
<1> QED BY <1>1, <1>7, <1>8, <1>9

\* One message that is no result.
LEMMA OneHasNoResult ==
    ASSUME NEW m, m.kind # "tool"
    PROVE  NoResults(<<m>>)
<1>1. DOMAIN <<m>> = {1} /\ <<m>>[1] = m
  OBVIOUS
<1> QED BY <1>1 DEF NoResults, Of

LEMMA NoResultsInRange ==
    ASSUME NEW ms
    PROVE  NoResults(ms) <=> \A m \in RangeOf(ms) : m.kind # "tool"
BY DEF NoResults, Of, RangeOf

-----------------------------------------------------------------------------
(* The steps. *)

\* What a read leaves to the run.
HoldsRead(r) ==
    /\ r.at \notin {"idle", "graph"} /\ r.input = run.input
    /\ r.at \in Holding => (r.loaded = checkpoint \/ ~Removable(r.loaded))
    /\ r.at \in {"compacting", "summarizing"} => Prefix(r.loaded) # <<>>
    /\ r.at = "dropping" => r.loaded # <<>>

LEMMA ReadsHold ==
    ASSUME run \in RunS, NEW ms \in Seq(Sound), ms = checkpoint \/ ~Removable(ms)
    PROVE  /\ HoldsRead(Ready(run, checkpoint))
           /\ \A b \in BOOLEAN : HoldsRead([Ready(run, checkpoint) EXCEPT !.crossed = b])
           /\ HoldsRead(Drop(run, ms)) /\ HoldsRead(Shrink(run, ms))
           /\ \A b \in BOOLEAN : HoldsRead([Shrink(run, ms) EXCEPT !.crossed = b])
           /\ HoldsRead([run EXCEPT !.at = "reading", !.loaded = ms, !.crossed = FALSE])
           /\ Prefix(ms) # <<>> =>
                 HoldsRead([run EXCEPT !.at = "compacting", !.loaded = ms, !.crossed = FALSE])
<1>0. run \in Run
  BY DEF RunS
<1>1. /\ HoldsRead(Ready(run, checkpoint))
      /\ \A b \in BOOLEAN : HoldsRead([Ready(run, checkpoint) EXCEPT !.crossed = b])
  BY <1>0 DEF HoldsRead, Ready, Run, Holding
<1>2. ms = <<>> => Dropped(ms) = {}
  <2> SUFFICES ASSUME ms = <<>> PROVE Dropped(ms) = {}
    OBVIOUS
  <2>1. \A S, n : Oldest(S, n) \subseteq S
    BY DEF Oldest
  <2>2. Dropped(ms) \subseteq Droppable(ms)
    BY <2>1, Zenon DEF Dropped
  <2>3. Droppable(ms) = {}
    <3>1. DOMAIN ms = {}
      OBVIOUS
    <3> QED BY <3>1 DEF Droppable
  <2> QED BY <2>2, <2>3
<1> HIDE DEF Sound
<1>3. HoldsRead(Drop(run, ms)) /\ \A b \in BOOLEAN : HoldsRead([Drop(run, ms) EXCEPT !.crossed = b])
  <2> DEFINE at == IF Dropped(ms) = {} THEN "measuring" ELSE "dropping"
  <2>1. at \in {"measuring", "dropping"} /\ (at = "dropping" => ms # <<>>)
    BY <1>2
  <2> HIDE DEF at
  <2>2. Drop(run, ms) = [run EXCEPT !.loaded = ms, !.crossed = FALSE, !.at = at]
    BY DEF Drop, at
  <2> QED BY <1>0, <2>1, <2>2 DEF HoldsRead, Run, Holding
<1>4. HoldsRead(Shrink(run, ms)) /\ \A b \in BOOLEAN : HoldsRead([Shrink(run, ms) EXCEPT !.crossed = b])
  <2>1. CASE Prefix(ms) = <<>>
    BY <1>3, <2>1 DEF Shrink
  <2>2. CASE Prefix(ms) # <<>>
    BY <1>0, <2>2 DEF Shrink, HoldsRead, Run, Holding
  <2> QED BY <2>1, <2>2
<1>5. HoldsRead([run EXCEPT !.at = "reading", !.loaded = ms, !.crossed = FALSE])
  BY <1>0 DEF HoldsRead, Run, Holding
<1>6. Prefix(ms) # <<>> =>
         HoldsRead([run EXCEPT !.at = "compacting", !.loaded = ms, !.crossed = FALSE])
  BY <1>0 DEF HoldsRead, Run, Holding
<1> QED BY <1>1, <1>3, <1>4, <1>5, <1>6

LEMMA ReadPairs ==
    ASSUME PairInv, run.at \notin {"idle", "graph"}, HoldsRead(run'),
           UNCHANGED <<checkpoint, compaction, turns, archived, answered, split>>
    PROVE  PairInv'
<1>1. PairsAreKept'
  BY DEF PairInv, PairsAreKept, HoldsRead
<1>2. ReadIsThere'
  BY DEF PairInv, ReadIsThere, HoldsRead, Removable
<1> QED BY <1>1, <1>2 DEF PairInv

LEMMA AllReadsPair ==
    ASSUME MemInv, PairInv, Load \/ ReadState \/ Reload \/ LoadSummarized \/ Measure
    PROVE  PairInv'
<1>1. run \in RunS /\ checkpoint \in Seq(Sound) /\ run.loaded \in Seq(Sound)
  BY TypedRun DEF MemInv, RunS
<1>2. run.crossed \in BOOLEAN
  BY <1>1 DEF RunS, Run
<1> HIDE DEF Sound
<1>3. CASE Load
  <2>1. HoldsRead(run')
    BY <1>1, <1>3, ReadsHold DEF Load
  <2> QED BY <1>3, <2>1, ReadPairs DEF Load
<1>4. CASE ReadState
  <2>1. CASE NeedsCompaction(checkpoint)
    <3>1. HoldsRead(run')
      BY <1>1, <1>4, <2>1, ReadsHold DEF ReadState, NeedsCompaction
    <3> QED BY <1>4, <3>1, ReadPairs DEF ReadState
  <2>2. CASE ~NeedsCompaction(checkpoint)
    <3>1. run.loaded = checkpoint \/ ~Removable(run.loaded)
      BY <1>4 DEF PairInv, ReadIsThere, ReadState, Holding
    <3>2. HoldsRead([Shrink(run, run.loaded) EXCEPT !.crossed = run.crossed])
      BY <1>1, <1>2, <3>1, ReadsHold
    <3>3. HoldsRead(run')
      BY <1>4, <2>2, <3>2 DEF ReadState
    <3> QED BY <1>4, <3>3, ReadPairs DEF ReadState
  <2> QED BY <2>1, <2>2
<1>5. CASE Reload
  <2>1. HoldsRead(run')
    BY <1>1, <1>5, ReadsHold DEF Reload
  <2> QED BY <1>5, <2>1, ReadPairs DEF Reload
<1>6. CASE LoadSummarized
  <2>1. HoldsRead(run')
    BY <1>1, <1>6, ReadsHold DEF LoadSummarized
  <2> QED BY <1>6, <2>1, ReadPairs DEF LoadSummarized
<1>7. CASE Measure
  <2>1. HoldsRead(run')
    BY <1>1, <1>2, <1>7, ReadsHold DEF Measure
  <2> QED BY <1>7, <2>1, ReadPairs DEF Measure
<1> QED BY <1>3, <1>4, <1>5, <1>6, <1>7

\* A write of the run, or its failure.
LEMMA WritePairs ==
    ASSUME MemInv, PairInv, run.at \in {"compacting", "summarizing", "dropping"},
           NEW removed \in Seq(Sound), NEW added \in Seq(Sound),
           NEW next \in {"reloading", "summarized", "measuring"},
           Write(removed, added, next), split \subseteq split',
           run.loaded = checkpoint =>
              /\ Begins(removed, checkpoint) /\ removed # <<>>
              /\ \/ Len(removed) = Len(checkpoint)
                 \/ Len(removed) + 1 \in Of(checkpoint, "user")
              /\ Paired(added, split')
    PROVE  PairInv'
<1>1. TypeInv /\ Paired(checkpoint, split) /\ Distinct(checkpoint) /\ run \in Run
  BY TypedRun DEF MemInv, PairInv, PairsAreKept, RunS
<1>2. run.loaded = checkpoint \/ ~Removable(run.loaded)
  BY DEF PairInv, ReadIsThere, Holding
<1> DEFINE seen == compaction.seen
<1>3. seen \in Seq(Sound) /\ Ids(seen) \subseteq Used
  <2>1. seen \in Seq(Sound)
    <3> HIDE DEF Sound
    <3> QED BY <1>1 DEF TypeInv
  <2> QED BY <2>1 DEF Used
<1>4. compaction.at = "writing" =>
         /\ Prefix(seen) # <<>> /\ StillBegins(seen, checkpoint)
  BY DEF PairInv, ReadIsThere
<1>5. CASE Removable(run.loaded)
  <2>1. /\ checkpoint' = Updated(removed, added)
        /\ run' = [run EXCEPT !.at = next] /\ compaction' = compaction
    BY <1>5 DEF Write
  <2>2. run'.at = next /\ run'.input = run.input
    BY <1>1, <2>1 DEF Run
  <2>3. /\ Begins(removed, checkpoint) /\ removed # <<>>
        /\ \/ Len(removed) = Len(checkpoint)
           \/ Len(removed) + 1 \in Of(checkpoint, "user")
        /\ Paired(added, split')
    BY <1>2, <1>5
  <2>4. Paired(Updated(removed, added), split') /\ Distinct(Updated(removed, added))
    BY <1>1, <2>3, UpdatePairs
  <2>5. PairsAreKept'
    BY <2>1, <2>2, <2>4 DEF PairInv, PairsAreKept
  <2>6. compaction.at = "writing" => ~(Ids(seen) \subseteq Ids(Updated(removed, added)))
    <3> SUFFICES ASSUME compaction.at = "writing"
                 PROVE  ~(Ids(seen) \subseteq Ids(Updated(removed, added)))
      OBVIOUS
    <3>1. seen # <<>>
      <4> HIDE DEF seen
      <4>1. Len(Prefix(seen)) # 0
        <5> HIDE DEF Sound
        <5>1. Prefix(seen) \in Seq(Sound)
          BY <1>3, SplitInTwo
        <5> QED BY <1>4, <5>1
      <4>2. SplitIndex(seen) \in 1..Len(seen) + 1 /\ Len(Prefix(seen)) = SplitIndex(seen) - 1
        <5> HIDE DEF Sound
        <5> QED BY <1>3, SplitInTwo
      <4>3. Len(seen) # 0
        <5> HIDE DEF Sound
        <5>1. Len(seen) \in Nat
          BY <1>3
        <5> QED BY <4>1, <4>2, <5>1
      <4> QED BY <4>3
    <3> HIDE DEF seen
    <3> QED BY <1>1, <1>3, <1>4, <2>3, <3>1, WriteTakesTheFirst
  <2>7. ReadIsThere'
    BY <1>4, <2>1, <2>2, <2>6 DEF ReadIsThere, Holding, StillBegins
  <2> QED BY <2>5, <2>7 DEF PairInv
<1>6. CASE ~Removable(run.loaded)
  <2>1. /\ checkpoint' = checkpoint /\ run' = NoRun
        /\ \/ compaction' = compaction
           \/ compaction' = [NoCompaction EXCEPT !.at = "reading"]
    BY <1>6 DEF Write
  <2>2. PairsAreKept'
    BY <1>1, <2>1, PairedMore DEF PairsAreKept, NoRun
  <2>3. ReadIsThere'
    BY <1>4, <2>1 DEF ReadIsThere, NoRun, NoCompaction, Holding
  <2> QED BY <2>2, <2>3 DEF PairInv
<1> QED BY <1>5, <1>6

LEMMA BeginsItself ==
    ASSUME NEW S, NEW ms \in Seq(S)
    PROVE  Begins(ms, ms)
<1>1. Len(ms) \in Nat
  OBVIOUS
<1> QED BY <1>1 DEF Begins

LEMMA SummaryPairs ==
    ASSUME NEW ms \in Seq(Sound), NEW T
    PROVE  /\ Prefix(ms) \in Seq(Sound) /\ Suffix(ms) \in Seq(Sound)
           /\ <<Summary>> \in Seq(Sound)
           /\ Paired(<<Summary>>, T)
<1>1. /\ Prefix(ms) \in Seq(Sound) /\ Suffix(ms) \in Seq(Sound)
      /\ <<Summary>> \in Seq(Sound)
  BY PartsTell
<1>2. Summary.kind # "tool"
  BY <1>1, SummaryTells
<1>3. Paired(<<Summary>>, T)
  BY <1>2, OneHasNoResult, NothingToPair
<1> QED BY <1>1, <1>3

LEMMA CompactForRunPairs == MemInv /\ PairInv /\ CompactForRun => PairInv'
<1> SUFFICES ASSUME MemInv, PairInv, CompactForRun PROVE PairInv'
  OBVIOUS
<1> DEFINE ms == run.loaded
<1>1. ms \in Seq(Sound) /\ run.at = "compacting" /\ split' = split
  BY TypedRun DEF MemInv, RunS, CompactForRun
<1>2. Write(Prefix(ms), <<Summary>>, "reloading") /\ Prefix(ms) # <<>>
  BY <1>1 DEF CompactForRun, PairInv, ReadIsThere
<1> HIDE DEF ms, Sound
<1>3. /\ Prefix(ms) \in Seq(Sound) /\ <<Summary>> \in Seq(Sound)
      /\ Paired(<<Summary>>, split')
  BY <1>1, SummaryPairs
<1>4. Begins(Prefix(ms), ms) /\ Len(Prefix(ms)) + 1 \in Of(ms, "user")
  BY <1>1, <1>2, BeginsItself, PrefixBegins
<1> QED BY <1>1, <1>2, <1>3, <1>4, WritePairs DEF ms

LEMMA SummarizePairs == MemInv /\ PairInv /\ Summarize => PairInv'
<1> SUFFICES ASSUME MemInv, PairInv, Summarize PROVE PairInv'
  OBVIOUS
<1> DEFINE ms == run.loaded
           added == <<Summary>> \o Suffix(ms)
<1>1. ms \in Seq(Sound) /\ run.at = "summarizing" /\ split' = split
  BY TypedRun DEF MemInv, RunS, Summarize
<1>2. Write(ms, added, "summarized") /\ Prefix(ms) # <<>>
  BY <1>1 DEF Summarize, PairInv, ReadIsThere
<1> HIDE DEF ms, Sound
<1>3. /\ <<Summary>> \in Seq(Sound) /\ Suffix(ms) \in Seq(Sound)
      /\ Paired(<<Summary>>, split)
  BY <1>1, SummaryPairs
<1>4. added \in Seq(Sound) /\ (Paired(ms, split) => Paired(added, split))
  <2>1. added \in Seq(Sound)
    BY <1>3, RangeOfConcat
  <2>2. Paired(ms, split) => Paired(Suffix(ms), split)
    BY <1>1, PairedSuffix
  <2> QED BY <1>3, <2>1, <2>2, PairedConcat
<1> HIDE DEF added
<1>5. Begins(ms, ms) /\ ms # <<>>
  BY <1>1, <1>2, BeginsItself, PrefixBegins
<1>6. Paired(checkpoint, split)
  BY DEF PairInv, PairsAreKept
<1> QED BY <1>1, <1>2, <1>4, <1>5, <1>6, WritePairs DEF ms

LEMMA DropOldestPairs == MemInv /\ PairInv /\ DropOldest => PairInv'
<1> SUFFICES ASSUME MemInv, PairInv, DropOldest PROVE PairInv'
  OBVIOUS
<1> DEFINE ms == run.loaded
           gone == Dropped(ms)
           added == Omit(ms, gone)
           names == {ms[i].text : i \in gone \cap Of(ms, "call")}
<1>1. ms \in Seq(Sound) /\ run.at = "dropping" /\ ms # <<>>
  BY TypedRun DEF MemInv, RunS, DropOldest, PairInv, ReadIsThere
<1>2. Write(ms, added, "measuring")
  BY Zenon DEF DropOldest
<1>3. split' = IF Removable(ms) THEN split \cup names ELSE split
  BY Zenon DEF DropOldest
<1>4. Paired(checkpoint, split) /\ (ms = checkpoint \/ ~Removable(ms))
  BY <1>1 DEF PairInv, PairsAreKept, ReadIsThere, Holding
<1>5. ms = checkpoint => Removable(ms)
  BY DEF Removable
<1> HIDE DEF ms, Sound, gone
<1>6. added \in Seq(Sound)
  BY <1>1, OmitRange
<1>7. ms = checkpoint => Paired(added, split')
  <2> SUFFICES ASSUME ms = checkpoint PROVE Paired(added, split \cup names)
    BY <1>3, <1>5
  <2>1. \A i \in Of(ms, "tool") \ gone : \A j \in Of(ms, "call") \cap gone :
           Answers(ms, j, i) => ms[i].text \in split \cup names
    <3> TAKE i \in Of(ms, "tool") \ gone
    <3> TAKE j \in Of(ms, "call") \cap gone
    <3> HAVE Answers(ms, j, i)
    <3>1. ms[j].text = ms[i].text /\ j \in gone \cap Of(ms, "call")
      BY DEF Answers
    <3>2. ms[j].text \in names
      BY <3>1
    <3> QED BY <3>1, <3>2
  <2>2. Paired(ms, split) /\ split \subseteq split \cup names
    BY <1>4
  <2> HIDE DEF names
  <2> QED BY <1>1, <2>1, <2>2, PairedOmit
<1>8. Begins(ms, ms) /\ split \subseteq split'
  BY <1>1, <1>3, BeginsItself
<1> HIDE DEF added
<1> QED BY <1>1, <1>2, <1>6, <1>7, <1>8, WritePairs DEF ms

-----------------------------------------------------------------------------
(* What a run says to the model holds no results, however it is packed. *)

LEMMA NoResultsConcat ==
    ASSUME NEW S, NEW a \in Seq(S), NEW b \in Seq(S), NoResults(a), NoResults(b)
    PROVE  NoResults(a \o b)
<1>1. RangeOf(a \o b) = RangeOf(a) \cup RangeOf(b)
  BY RangeOfConcat
<1> QED BY <1>1, NoResultsInRange

LEMMA TrimHasNoResults ==
    ASSUME NEW ms \in Seq(Sound), NoResults(ms), NEW kind, NEW target \in Nat
    PROVE  Trim(ms, kind, target) \in Seq(Sound) /\ NoResults(Trim(ms, kind, target))
<1> DEFINE r == Trim(ms, kind, target)
<1>1. Len(ms) \in Nat /\ DOMAIN ms = 1..Len(ms) /\ \A i \in 1..Len(ms) : ms[i] \in Sound
  <2> HIDE DEF Sound
  <2> QED OBVIOUS
<1>2. DOMAIN r = DOMAIN ms
  BY DEF Trim
<1>3. \A i \in DOMAIN ms : r[i].kind = ms[i].kind
  <2> TAKE i \in DOMAIN ms
  <2> DEFINE m == ms[i]
  <2>1. m \in Message /\ (r[i] = m \/ r[i] = [m EXCEPT !.size = target])
    BY <1>1 DEF Trim, Sound
  <2> HIDE DEF m
  <2>2. [m EXCEPT !.size = target].kind = m.kind
    BY <2>1 DEF Message
  <2> QED BY <2>1, <2>2 DEF m
<1> HIDE DEF r
<1>4. NoResults(r)
  BY <1>2, <1>3 DEF NoResults, Of
<1> QED BY <1>4, TrimKeeps DEF r

LEMMA WithoutHasNoResults ==
    ASSUME NEW ms \in Seq(Sound), NoResults(ms), NEW kind
    PROVE  Without(ms, kind) \in Seq(Sound) /\ NoResults(Without(ms, kind))
<1> DEFINE gone == {i \in DOMAIN ms : PackKind(ms[i]) = kind}
<1>1. Without(ms, kind) = Omit(ms, gone)
  BY Zenon DEF Without
<1> HIDE DEF gone, Sound
<1>2. Omit(ms, gone) \in Seq(Sound) /\ RangeOf(Omit(ms, gone)) \subseteq RangeOf(ms)
  <2>1. /\ Omit(ms, gone) \in Seq(Sound)
        /\ RangeOf(Omit(ms, gone)) = {ms[i] : i \in DOMAIN ms \ gone}
    BY OmitRange
  <2> QED BY <2>1 DEF RangeOf
<1> QED BY <1>1, <1>2, NoResultsInRange

LEMMA PackHasNoResults ==
    ASSUME NEW ms \in Seq(Sound), NoResults(ms), NEW max \in Nat
    PROVE  Pack(ms, max) \in Seq(Sound) /\ NoResults(Pack(ms, max))
<1> DEFINE Fine(r) == r \in Seq(Sound) /\ NoResults(r)
           trimmed1 == Trim(ms, "memory", Larger(MemoryFloor, max \div 8))
           trimmed2 == Trim(trimmed1, "rag", Larger(RagFloor, max \div 4))
           dropped1 == Without(trimmed2, "memory")
<1>1. Larger(MemoryFloor, max \div 8) \in Nat /\ Larger(RagFloor, max \div 4) \in Nat
  BY PackBounds
<1> HIDE DEF Sound
<1>2. Fine(trimmed1)
  BY <1>1, TrimHasNoResults
<1> HIDE DEF trimmed1
<1>3. Fine(trimmed2)
  BY <1>1, <1>2, TrimHasNoResults
<1> HIDE DEF trimmed2
<1>4. Fine(dropped1)
  BY <1>3, WithoutHasNoResults
<1> HIDE DEF dropped1
<1>5. Fine(Without(dropped1, "rag"))
  BY <1>4, WithoutHasNoResults
<1>6. Pack(ms, max) \in {ms, trimmed1, trimmed2, dropped1, Without(dropped1, "rag")}
  BY PackIsAStep DEF trimmed1, trimmed2, dropped1
<1> QED BY <1>2, <1>3, <1>4, <1>5, <1>6

-----------------------------------------------------------------------------
(* The other steps. *)

LEMMA CreateRunPairs == MemInv /\ PairInv /\ CreateRun => PairInv'
<1> SUFFICES ASSUME MemInv, PairInv, CreateRun PROVE PairInv'
  OBVIOUS
<1>1. /\ run.at = "idle" /\ run' = [NoRun EXCEPT !.at = "created"]
      /\ UNCHANGED <<checkpoint, compaction, archived, answered, split>>
  BY DEF CreateRun
<1>2. run'.at = "created" /\ run'.input = <<>>
  BY <1>1 DEF NoRun
<1>3. NoResults(<<>>)
  BY DEF NoResults, Of
<1>4. PairsAreKept'
  BY <1>1, <1>2, <1>3 DEF PairInv, PairsAreKept
<1>5. ReadIsThere'
  BY <1>1, <1>2 DEF PairInv, ReadIsThere, Holding
<1> QED BY <1>4, <1>5 DEF PairInv

\* What was read cannot be removed any more.
LEMMA ArchivePairs == MemInv /\ PairInv /\ Archive => PairInv'
<1> SUFFICES ASSUME MemInv, PairInv, Archive PROVE PairInv'
  OBVIOUS
<1>1. /\ checkpoint' = <<>> /\ run' = [run EXCEPT !.crossed = TRUE]
      /\ UNCHANGED <<compaction, turns, split>>
  BY DEF Archive
<1>2. /\ run'.at = run.at /\ run'.input = run.input
      /\ run'.loaded = run.loaded /\ run'.graph = run.graph
  <2>1. run \in Run
    BY TypedRun DEF MemInv, RunS
  <2> QED BY <1>1, <2>1 DEF Run
<1>3. Paired(<<>>, split) /\ Distinct(<<>>)
  <2>1. DOMAIN <<>> = {}
    OBVIOUS
  <2> QED BY <2>1 DEF Paired, Distinct, Of
<1>4. PairsAreKept'
  BY <1>1, <1>2, <1>3 DEF PairInv, PairsAreKept
<1>5. ASSUME NEW ms, ms \in Seq(Sound), ms # <<>>
      PROVE  ~(Ids(ms) \subseteq Ids(<<>>))
  <2>1. 1 \in DOMAIN ms
    <3> HIDE DEF Sound
    <3> QED BY <1>5
  <2> QED BY <2>1 DEF Ids
<1>6. run.loaded \in Seq(Sound) /\ compaction.seen \in Seq(Sound)
  <2> HIDE DEF Sound
  <2> QED BY DEF MemInv, TypeInv
<1>7. compaction.at = "writing" => compaction.seen # <<>>
  <2> DEFINE ms == compaction.seen
  <2>1. ms \in Seq(Sound) /\ (compaction.at = "writing" => Prefix(ms) # <<>>)
    BY <1>6 DEF PairInv, ReadIsThere
  <2> HIDE DEF ms, Sound
  <2>2. compaction.at = "writing" => ms # <<>>
    BY <2>1, BeginsItself, PrefixBegins
  <2> QED BY <2>2 DEF ms
<1>8. ReadIsThere'
  BY <1>1, <1>2, <1>5, <1>6, <1>7 DEF PairInv, ReadIsThere, Removable, StillBegins
<1> QED BY <1>4, <1>8 DEF PairInv

LEMMA AssemblePairs ==
    ASSUME MemInv, PairInv, NEW memory \in Memory \cup {Nothing}, NEW docs \in Docs \cup {Nothing},
           NEW size \in UserSizes, Assemble(memory, docs, size)
    PROVE  PairInv'
<1> DEFINE One(ms) == ms \in Seq(Message) /\ NoResults(ms)
           last == <<[Say("user", turns) EXCEPT !.size = size]>>
           input == Prompt \o Inject("memory", memory) \o Inject("rag", docs) \o last
<1>1. turns \in Turn
  BY DEF Assemble, MemInv, TypeInv
<1>2. \A kind \in {"prompt", "memory", "rag"} : \A text \in Memory \cup Docs \cup {Nothing} :
         Say(kind, text) \in Message /\ Say(kind, text).kind = kind
  <2> TAKE kind \in {"prompt", "memory", "rag"}
  <2> TAKE text \in Memory \cup Docs \cup {Nothing}
  <2>1. Say(kind, text) \in Sound
    BY SaidIsSound DEF Kind
  <2> QED BY <2>1, SoundIsMessage DEF Say
<1>3. \A m \in Message : m.kind # "tool" => One(<<m>>)
  <2> HIDE DEF Message
  <2> QED BY OneHasNoResult
<1>4. One(<<>>)
  BY DEF NoResults, Of
<1>5. One(last)
  <2> DEFINE u == [Say("user", turns) EXCEPT !.size = size]
  <2>1. Say("user", turns) \in Sound
    BY <1>1, SaidIsSound DEF Kind
  <2>2. size \in Nat
    BY ContextAssumption
  <2>3. u \in Message /\ u.kind = "user"
    BY <2>1, <2>2 DEF Sound, Message, Say
  <2> HIDE DEF u, One
  <2>4. One(<<u>>)
    BY <1>3, <2>3
  <2> QED BY <2>4 DEF u
<1> HIDE DEF One
<1>6. One(Prompt)
  BY <1>2, <1>3, <1>4 DEF Prompt
<1>7. One(Inject("memory", memory)) /\ One(Inject("rag", docs))
  BY <1>2, <1>3, <1>4 DEF Inject
<1>8. ASSUME NEW a, NEW b, One(a), One(b)
      PROVE  One(a \o b)
  <2> DEFINE S == Message
  <2>1. a \in Seq(S) /\ b \in Seq(S) /\ NoResults(a) /\ NoResults(b)
    BY <1>8 DEF One
  <2> HIDE DEF S
  <2>2. a \o b \in Seq(S) /\ NoResults(a \o b)
    BY <2>1, NoResultsConcat, RangeOfConcat
  <2> QED BY <2>2 DEF One, S
<1> HIDE DEF last
<1>9. NoResults(input)
  <2>1. One(input)
    BY <1>5, <1>6, <1>7, <1>8
  <2> QED BY <2>1 DEF One
<1>10. /\ run.at = "created"
       /\ UNCHANGED <<checkpoint, compaction, turns, archived, answered, split>>
       /\ run' = [NoRun EXCEPT !.at = "loading", !.memory = memory, !.docs = docs, !.input = input]
  BY DEF Assemble, last
<1> HIDE DEF input
<1>11. run'.at = "loading" /\ run'.input = input
  BY <1>10 DEF NoRun
<1>12. PairsAreKept'
  BY <1>9, <1>10, <1>11 DEF PairInv, PairsAreKept
<1>13. ReadIsThere'
  BY <1>10, <1>11 DEF PairInv, ReadIsThere, Holding
<1> QED BY <1>12, <1>13 DEF PairInv

LEMMA StartGraphPairs == MemInv /\ PairInv /\ StartGraph => PairInv'
<1> SUFFICES ASSUME MemInv, PairInv, StartGraph PROVE PairInv'
  OBVIOUS
<1> DEFINE packed == Pack(run.input, run.rest)
           graph == checkpoint \o New(packed)
           seen == compaction.seen
<1>1. /\ run \in RunS /\ run \in Run /\ checkpoint \in Seq(Sound) /\ run.input \in Seq(Sound)
      /\ run.rest \in Nat /\ TypeInv
  BY TypedRun DEF MemInv, RunS, Run
<1>2. /\ run.at = "ready" /\ run' = [run EXCEPT !.at = "graph", !.graph = graph]
      /\ UNCHANGED <<checkpoint, compaction, turns, archived, answered, split>>
  BY DEF StartGraph
<1>3. packed \in Seq(Sound) /\ NoResults(packed)
  BY <1>1, <1>2, PackHasNoResults DEF PairInv, PairsAreKept
<1> HIDE DEF packed, Sound
<1>4. New(packed) \in Seq(Sound) /\ Paired(New(packed), split)
  BY <1>1, <1>3, NewNames, NewArePaired, NothingToPair
<1>5. Paired(checkpoint, split) /\ Distinct(checkpoint) /\ Ids(checkpoint) \subseteq Used
  BY DEF PairInv, PairsAreKept, Used
<1>6. Paired(graph, split)
  BY <1>1, <1>4, <1>5, PairedConcat
<1>7. Distinct(graph)
  BY <1>1, <1>3, <1>5, NewAreDistinct
<1>8. compaction.at = "writing" => StillBegins(seen, graph)
  <2>1. seen \in Seq(Sound) /\ Ids(seen) \subseteq Used
    BY <1>1 DEF TypeInv, Used
  <2>2. compaction.at = "writing" => StillBegins(seen, checkpoint)
    BY DEF PairInv, ReadIsThere
  <2> HIDE DEF seen
  <2> QED BY <1>1, <1>3, <2>1, <2>2, StillBeginsMore
<1> HIDE DEF graph
<1>9. run'.at = "graph" /\ run'.graph = graph
  BY <1>1, <1>2 DEF Run
<1>10. PairsAreKept'
  BY <1>2, <1>5, <1>6, <1>7, <1>9 DEF PairsAreKept
<1>11. ReadIsThere'
  BY <1>2, <1>8, <1>9 DEF PairInv, ReadIsThere, Holding
<1> QED BY <1>10, <1>11 DEF PairInv

LEMMA EndGraphPairs ==
    ASSUME MemInv, PairInv, NEW called \in BOOLEAN, EndGraph(called)
    PROVE  PairInv'
<1> DEFINE said == IF called
                   THEN <<Say("call", turns), Say("tool", turns), Say("answer", turns)>>
                   ELSE <<Say("answer", turns)>>
           stored == run.graph \o New(said)
           seen == compaction.seen
<1>1. run.at = "graph" /\ turns \in Turn /\ run.graph \in Seq(Sound) /\ TypeInv
  BY TypedRun DEF EndGraph, MemInv, TypeInv
<1>2. said \in Seq(Sound)
  <2>1. Say("call", turns) \in Sound /\ Say("tool", turns) \in Sound /\ Say("answer", turns) \in Sound
    BY <1>1, SaidIsSound DEF Kind
  <2> HIDE DEF Sound
  <2> QED BY <2>1
<1>3. Paired(said, split)
  <2>1. CASE called
    <3> DEFINE c == Say("call", turns)
               t == Say("tool", turns)
               a == Say("answer", turns)
    <3>1. c.kind = "call" /\ t.kind = "tool" /\ a.kind = "answer" /\ c.text = t.text
      BY DEF Say
    <3> HIDE DEF c, t, a
    <3>2. DOMAIN <<c, t, a>> = 1..3 /\ <<c, t, a>>[1] = c /\ <<c, t, a>>[2] = t /\ <<c, t, a>>[3] = a
      OBVIOUS
    <3>3. Of(<<c, t, a>>, "tool") = {2} /\ 1 \in Of(<<c, t, a>>, "call") /\ Of(<<c, t, a>>, "user") = {}
      <4>1. \A i \in 1..3 : i = 1 \/ i = 2 \/ i = 3
        OBVIOUS
      <4> QED BY <3>1, <3>2, <4>1 DEF Of
    <3>4. Answers(<<c, t, a>>, 1, 2)
      BY <3>1, <3>2, <3>3 DEF Answers
    <3>5. Paired(<<c, t, a>>, split)
      BY <3>3, <3>4 DEF Paired
    <3> QED BY <2>1, <3>5 DEF c, t, a
  <2>2. CASE ~called
    <3> DEFINE a == Say("answer", turns)
    <3>1. a.kind # "tool"
      BY DEF Say
    <3> HIDE DEF a
    <3>2. Paired(<<a>>, split)
      BY <3>1, OneHasNoResult, NothingToPair
    <3> QED BY <2>2, <3>2 DEF a
  <2> QED BY <2>1, <2>2
<1>4. /\ checkpoint' = stored /\ run' = NoRun /\ split' = split
      /\ \/ compaction' = compaction
         \/ compaction' = [NoCompaction EXCEPT !.at = "reading"]
  BY DEF EndGraph
<1> HIDE DEF said, Sound
<1>5. Paired(run.graph, split) /\ Distinct(run.graph) /\ Ids(run.graph) \subseteq Used
  BY <1>1 DEF PairInv, PairsAreKept, Used
<1>6. Paired(stored, split)
  <2>1. New(said) \in Seq(Sound) /\ Paired(New(said), split)
    BY <1>1, <1>2, <1>3, NewNames, NewArePaired
  <2> QED BY <1>1, <1>5, <2>1, PairedConcat
<1>7. Distinct(stored)
  BY <1>1, <1>2, <1>5, NewAreDistinct
<1>8. compaction.at = "writing" => StillBegins(seen, stored) /\ Prefix(seen) # <<>>
  <2>1. seen \in Seq(Sound) /\ Ids(seen) \subseteq Used
    BY <1>1 DEF TypeInv, Used
  <2>2. compaction.at = "writing" => StillBegins(seen, run.graph) /\ Prefix(seen) # <<>>
    BY <1>1 DEF PairInv, ReadIsThere
  <2> HIDE DEF seen
  <2> QED BY <1>1, <1>2, <2>1, <2>2, StillBeginsMore
<1> HIDE DEF stored
<1>9. PairsAreKept'
  BY <1>4, <1>6, <1>7 DEF PairsAreKept, NoRun
<1>10. ReadIsThere'
  BY <1>4, <1>8 DEF ReadIsThere, Holding, NoRun, NoCompaction
<1> QED BY <1>9, <1>10 DEF PairInv

LEMMA CompactionReadsPairs == MemInv /\ PairInv /\ CompactionReads => PairInv'
<1> SUFFICES ASSUME MemInv, PairInv, CompactionReads PROVE PairInv'
  OBVIOUS
<1>1. UNCHANGED <<checkpoint, run, turns, archived, answered, split>>
  BY DEF CompactionReads
<1>2. PairsAreKept'
  BY <1>1 DEF PairInv, PairsAreKept
<1>3. compaction'.at = "writing" =>
         /\ compaction'.seen = checkpoint /\ Prefix(checkpoint) # <<>> /\ run.at # "graph"
  BY DEF CompactionReads, NoCompaction, NeedsCompaction
<1>4. StillBegins(checkpoint, checkpoint)
  <2>1. checkpoint \in Seq(Sound)
    BY TypedRun DEF MemInv
  <2> HIDE DEF Sound
  <2> QED BY <2>1, BeginsItself DEF StillBegins
<1>5. ReadIsThere'
  BY <1>1, <1>3, <1>4 DEF PairInv, ReadIsThere, Removable
<1> QED BY <1>2, <1>5 DEF PairInv

LEMMA CompactionWritesPairs == MemInv /\ PairInv /\ CompactionWrites => PairInv'
<1> SUFFICES ASSUME MemInv, PairInv, CompactionWrites PROVE PairInv'
  OBVIOUS
<1> DEFINE ms == compaction.seen
           prefix == Prefix(ms)
           added == <<Summary>>
<1>1. /\ compaction.at = "writing" /\ compaction' = NoCompaction
      /\ UNCHANGED <<turns, archived, answered, split>>
  BY DEF CompactionWrites
<1>2. run \in Run /\ TypeInv /\ checkpoint \in Seq(Sound) /\ run.loaded \in Seq(Sound)
  BY TypedRun DEF MemInv, RunS
<1> HIDE DEF Sound
<1>3. ms \in Seq(Sound) /\ Ids(run.loaded) \subseteq Used
  BY <1>2 DEF TypeInv, Used
<1>4. prefix # <<>> /\ StillBegins(ms, checkpoint)
  BY <1>1 DEF PairInv, ReadIsThere
<1>5. CASE Removable(ms)
  <2>1. checkpoint' = Updated(prefix, added) /\ run' = [run EXCEPT !.crossed = TRUE]
    BY <1>5, Zenon DEF CompactionWrites
  <2>2. /\ run'.at = run.at /\ run'.input = run.input
        /\ run'.loaded = run.loaded /\ run'.graph = run.graph
    BY <1>2, <2>1 DEF Run
  <2> HIDE DEF ms
  <2>3. Begins(ms, checkpoint)
    BY <1>4, <1>5 DEF StillBegins, Removable
  <2>4. /\ Begins(prefix, checkpoint) /\ Len(prefix) + 1 \in Of(checkpoint, "user")
        /\ checkpoint # <<>>
    BY <1>2, <1>3, <1>4, <2>3, PrefixBegins
  <2>5. prefix \in Seq(Sound) /\ added \in Seq(Sound) /\ Paired(added, split)
    BY <1>3, SummaryPairs
  <2> HIDE DEF added, prefix
  <2>6. Paired(checkpoint, split) /\ Distinct(checkpoint)
    BY DEF PairInv, PairsAreKept
  <2>7. Paired(Updated(prefix, added), split) /\ Distinct(Updated(prefix, added))
    BY <1>2, <2>4, <2>5, <2>6, UpdatePairs
  <2>8. PairsAreKept'
    BY <1>1, <2>1, <2>2, <2>7 DEF PairInv, PairsAreKept
  <2>9. ASSUME run.at \in Holding
        PROVE  ~(Ids(run.loaded) \subseteq Ids(Updated(prefix, added)))
    <3>1. run.loaded = checkpoint \/ ~(Ids(run.loaded) \subseteq Ids(checkpoint))
      BY <2>9 DEF PairInv, ReadIsThere, Removable
    <3>2. Begins(checkpoint, checkpoint)
      BY <1>2, BeginsItself
    <3>3. StillBegins(run.loaded, checkpoint)
      BY <3>1, <3>2 DEF StillBegins
    <3>4. run.loaded # <<>>
      <4>1. Ids(<<>>) = {}
        BY DEF Ids
      <4> QED BY <2>4, <3>1, <4>1
    <3> QED BY <1>2, <1>3, <1>4, <2>4, <2>5, <2>6, <3>3, <3>4, WriteTakesTheFirst
  <2>10. ReadIsThere'
    BY <1>1, <2>1, <2>2, <2>9 DEF PairInv, ReadIsThere, Removable, NoCompaction
  <2> QED BY <2>8, <2>10 DEF PairInv
<1>6. CASE ~Removable(ms)
  <2>1. UNCHANGED <<checkpoint, run>>
    BY <1>6, Zenon DEF CompactionWrites
  <2>2. PairsAreKept'
    BY <1>1, <2>1 DEF PairInv, PairsAreKept
  <2>3. ReadIsThere'
    BY <1>1, <2>1 DEF PairInv, ReadIsThere, Removable, NoCompaction
  <2> QED BY <2>2, <2>3 DEF PairInv
<1> QED BY <1>5, <1>6

LEMMA PairInit == Init => PairInv
<1> SUFFICES ASSUME Init PROVE PairInv
  OBVIOUS
<1>1. DOMAIN <<>> = {}
  OBVIOUS
<1>2. Paired(<<>>, {}) /\ Distinct(<<>>)
  BY <1>1 DEF Paired, Distinct, Of
<1> QED BY <1>2 DEF Init, PairInv, PairsAreKept, ReadIsThere, NoRun, NoCompaction, Holding

LEMMA PairStep == MemInv /\ PairInv /\ [Next]_vars => PairInv'
<1> SUFFICES ASSUME MemInv, PairInv, [Next]_vars PROVE PairInv'
  OBVIOUS
<1>1. CASE vars' = vars
  <2>1. PairsAreKept'
    BY <1>1 DEF vars, PairInv, PairsAreKept
  <2>2. ReadIsThere'
    BY <1>1 DEF vars, PairInv, ReadIsThere, Removable
  <2> QED BY <2>1, <2>2 DEF PairInv
<1>2. CASE \E memory \in Memory \cup {Nothing}, docs \in Docs \cup {Nothing},
              size \in UserSizes : Assemble(memory, docs, size)
  BY <1>2, AssemblePairs
<1>3. CASE \E called \in BOOLEAN : EndGraph(called)
  BY <1>3, EndGraphPairs
<1> QED
  BY <1>1, <1>2, <1>3, AllReadsPair, CompactForRunPairs, SummarizePairs, DropOldestPairs,
     StartGraphPairs, CompactionReadsPairs, CompactionWritesPairs, CreateRunPairs, ArchivePairs
     DEF Next

\* Summaries take a call and its result together, and neither copies with new
\* numbers, nor a compaction beside the run or beside a graph that stores what it
\* read before, part them: only _drop_oldest_trimable leaves the result of a tool
\* without the call it answers.
THEOREM SummariesKeepPairs == Spec => []OnlyDroppingSplits
<1>1. PairInv => OnlyDroppingSplits
  BY DEF PairInv, PairsAreKept, Paired, Answers, OnlyDroppingSplits
<1> QED BY MemInit, MemStep, PairInit, PairStep, <1>1, PTL DEF Spec

-----------------------------------------------------------------------------
(* The size of messages. *)

LEMMA PlaceIn ==
    ASSUME NEW ms \in Seq(Sound)
    PROVE  /\ Len(ms) \in Nat /\ \A i \in 1..Len(ms) : ms[i] \in Sound /\ ms[i].size \in Nat
           /\ \A x : x \in Places(ms) <=>
                 \E i \in 1..Len(ms), k \in Nat : k \in 1..ms[i].size /\ x = <<i, k>>
<1>1. Len(ms) \in Nat /\ DOMAIN ms = 1..Len(ms) /\ \A i \in 1..Len(ms) : ms[i] \in Sound
  <2> HIDE DEF Sound
  <2> QED OBVIOUS
<1>2. \A i \in 1..Len(ms) : ms[i].size \in Nat
  <2> TAKE i \in 1..Len(ms)
  <2>1. ms[i] \in Message
    BY <1>1, SoundIsMessage
  <2> QED BY <2>1 DEF Message
<1>3. Places(ms) = UNION {{i} \X (1..ms[i].size) : i \in 1..Len(ms)}
  BY <1>1 DEF Places
<1>4. \A x : x \in Places(ms) <=>
         \E i \in 1..Len(ms), k \in Nat : k \in 1..ms[i].size /\ x = <<i, k>>
  BY <1>3
<1> QED BY <1>1, <1>2, <1>4

\* Messages of the same sizes have the same number of characters.
LEMMA CharsOfSizes ==
    ASSUME NEW a \in Seq(Sound), NEW b \in Seq(Sound), Len(a) = Len(b),
           \A i \in 1..Len(a) : a[i].size = b[i].size
    PROVE  Chars(a) = Chars(b)
<1>1. DOMAIN a = 1..Len(a) /\ DOMAIN b = 1..Len(a)
  <2> HIDE DEF Sound
  <2> QED OBVIOUS
<1>2. {{i} \X (1..a[i].size) : i \in DOMAIN a} = {{i} \X (1..b[i].size) : i \in DOMAIN b}
  BY <1>1
<1> QED BY <1>2 DEF Chars

LEMMA CharsConcat ==
    ASSUME NEW a \in Seq(Sound), NEW b \in Seq(Sound)
    PROVE  Chars(a \o b) = Chars(a) + Chars(b)
<1> DEFINE c == a \o b
           n == Len(a)
           moved == [x \in Places(b) |-> <<x[1] + n, x[2]>>]
           Moved == {moved[x] : x \in Places(b)}
<1>1. /\ c \in Seq(Sound) /\ Len(c) = Len(a) + Len(b) /\ Len(a) \in Nat /\ Len(b) \in Nat
      /\ \A i \in 1..Len(a) + Len(b) : c[i] = IF i <= Len(a) THEN a[i] ELSE b[i - Len(a)]
  <2> HIDE DEF Sound
  <2>1. c \in Seq(Sound)
    BY RangeOfConcat
  <2> QED BY <2>1, ConcatProperties
<1> HIDE DEF c, n
<1>2. n \in Nat /\ n = Len(a)
  BY <1>1 DEF n
<1>3. \A x \in Places(b) : \E i \in 1..Len(b), k \in Nat :
         k \in 1..b[i].size /\ x = <<i, k>> /\ moved[x] = <<i + n, k>>
  <2> TAKE x \in Places(b)
  <2>1. PICK i \in 1..Len(b), k \in Nat : k \in 1..b[i].size /\ x = <<i, k>>
    BY PlaceIn
  <2> QED BY <2>1
<1> HIDE DEF moved
<1>4. Cardinality(Moved) = Chars(b) /\ IsFiniteSet(Moved)
  <2>1. DOMAIN moved = Places(b) /\ moved \in [Places(b) -> Moved]
    BY DEF moved
  <2>2. \A x, y \in Places(b) : moved[x] = moved[y] => x = y
    <3> SUFFICES ASSUME NEW x \in Places(b), NEW y \in Places(b), moved[x] = moved[y]
                 PROVE  x = y
      OBVIOUS
    <3>1. PICK i \in 1..Len(b), k \in Nat : k \in 1..b[i].size /\ x = <<i, k>> /\ moved[x] = <<i + n, k>>
      BY <1>3
    <3>2. PICK j \in 1..Len(b), l \in Nat : l \in 1..b[j].size /\ y = <<j, l>> /\ moved[y] = <<j + n, l>>
      BY <1>3
    <3>3. i + n = j + n /\ k = l
      BY <3>1, <3>2
    <3>4. i = j
      BY <1>1, <1>2, <3>3
    <3> QED BY <3>1, <3>2, <3>3, <3>4
  <2>3. ExistsBijection(Places(b), Moved)
    BY <2>1, <2>2 DEF Bijection, Injection, IsInjective, Surjection, ExistsBijection
  <2>4. IsFiniteSet(Places(b)) /\ Cardinality(Places(b)) = Chars(b)
    BY CharsAreCounted
  <2> HIDE DEF Moved
  <2> QED BY <2>3, <2>4, FS_Bijection
<1>5. \A x : x \in Moved <=> \E i \in 1..Len(b), k \in Nat : k \in 1..b[i].size /\ x = <<i + n, k>>
  <2>1. ASSUME NEW x \in Moved
        PROVE  \E i \in 1..Len(b), k \in Nat : k \in 1..b[i].size /\ x = <<i + n, k>>
    BY <1>3
  <2>2. ASSUME NEW i \in 1..Len(b), NEW k \in 1..b[i].size
        PROVE  <<i + n, k>> \in Moved
    <3>1. <<i, k>> \in Places(b)
      BY PlaceIn
    <3>2. moved[<<i, k>>] = <<i + n, k>>
      BY <3>1 DEF moved
    <3> QED BY <3>1, <3>2
  <2> HIDE DEF Moved
  <2> QED BY <2>1, <2>2
<1> HIDE DEF Moved
<1>6. Places(c) = Places(a) \cup Moved
  <2>1. ASSUME NEW x \in Places(c)
        PROVE  x \in Places(a) \cup Moved
    <3>1. PICK i \in 1..Len(c), k \in Nat : k \in 1..c[i].size /\ x = <<i, k>>
      BY <1>1, PlaceIn
    <3>2. CASE i <= n
      <4>1. i \in 1..Len(a) /\ c[i] = a[i]
        BY <1>1, <1>2, <3>1, <3>2
      <4> QED BY <3>1, <4>1, PlaceIn
    <3>3. CASE ~(i <= n)
      <4>1. i - n \in 1..Len(b) /\ c[i] = b[i - n] /\ i = (i - n) + n
        BY <1>1, <1>2, <3>1, <3>3
      <4> QED BY <1>5, <3>1, <4>1
    <3> QED BY <3>2, <3>3
  <2>2. ASSUME NEW x \in Places(a)
        PROVE  x \in Places(c)
    <3>1. PICK i \in 1..Len(a), k \in Nat : k \in 1..a[i].size /\ x = <<i, k>>
      BY PlaceIn
    <3>2. i \in 1..Len(c) /\ c[i] = a[i]
      BY <1>1, <3>1
    <3> QED BY <1>1, <3>1, <3>2, PlaceIn
  <2>3. ASSUME NEW x \in Moved
        PROVE  x \in Places(c)
    <3>1. PICK i \in 1..Len(b), k \in Nat : k \in 1..b[i].size /\ x = <<i + n, k>>
      BY <1>5
    <3>2. i + n \in 1..Len(c) /\ c[i + n] = b[i]
      BY <1>1, <1>2, <3>1
    <3> QED BY <1>1, <3>1, <3>2, PlaceIn
  <2> QED BY <2>1, <2>2, <2>3
<1>7. Places(a) \cap Moved = {}
  <2> SUFFICES ASSUME NEW x \in Places(a), x \in Moved PROVE FALSE
    OBVIOUS
  <2>1. PICK i \in 1..Len(a), k \in Nat : k \in 1..a[i].size /\ x = <<i, k>>
    BY PlaceIn
  <2>2. PICK j \in 1..Len(b), l \in Nat : l \in 1..b[j].size /\ x = <<j + n, l>>
    BY <1>5
  <2>3. i = j + n
    BY <2>1, <2>2
  <2> QED BY <1>1, <1>2, <2>1, <2>2, <2>3
<1>8. /\ IsFiniteSet(Places(a)) /\ Cardinality(Places(a)) = Chars(a)
      /\ Chars(c) = Cardinality(Places(c)) /\ Chars(a) \in Nat /\ Chars(b) \in Nat
  BY <1>1, CharsAreCounted
<1>9. Cardinality(Places(a) \cup Moved)
         = Cardinality(Places(a)) + Cardinality(Moved) - Cardinality(Places(a) \cap Moved)
  BY <1>4, <1>8, FS_Union
<1>10. Cardinality(Places(a) \cap Moved) = 0
  BY <1>7, FS_EmptySet
<1>11. Chars(c) = Chars(a) + Chars(b)
  BY <1>4, <1>6, <1>8, <1>9, <1>10
<1> QED BY <1>11 DEF c

\* Messages from which nothing is left out.
LEMMA OmitNothing ==
    ASSUME NEW S, NEW ms \in Seq(S)
    PROVE  Omit(ms, {}) = ms
<1> DEFINE n == Len(ms)
           all == Ascending(1..n)
<1>1. n \in Nat /\ DOMAIN ms = 1..n /\ ms = [i \in 1..n |-> ms[i]]
  OBVIOUS
<1> HIDE DEF n
<1>2. Cardinality(1..n) = n
  <2>1. n \in Nat
    BY <1>1
  <2> QED BY <2>1, FS_Interval
<1>3. \A i \in 1..n : Cardinality({j \in 1..n : j <= i}) = i
  <2> TAKE i \in 1..n
  <2>1. {j \in 1..n : j <= i} = 1..i /\ i \in Nat
    BY <1>1
  <2>2. Cardinality(1..i) = i
    BY <2>1, FS_Interval
  <2> QED BY <2>1, <2>2
<1>4. all = [k \in 1..n |-> CHOOSE i \in 1..n : Cardinality({j \in 1..n : j <= i}) = k]
  BY <1>2 DEF Ascending
<1>5. \A k \in 1..n : all[k] = k
  <2> TAKE k \in 1..n
  <2>1. all[k] = CHOOSE i \in 1..n : Cardinality({j \in 1..n : j <= i}) = k
    BY <1>4
  <2> HIDE DEF all
  <2> QED BY <1>3, <2>1
<1>6. DOMAIN all = 1..n /\ Len(all) = n
  BY <1>1, <1>4
<1> HIDE DEF all
<1>7. Omit(ms, {}) = [i \in 1..Len(all) |-> ms[all[i]]]
  <2>1. DOMAIN ms \ {} = 1..n
    BY <1>1
  <2> QED BY <2>1, Zenon DEF Omit, all
<1> QED BY <1>1, <1>5, <1>6, <1>7

-----------------------------------------------------------------------------
(* What dropping leaves: messages that fit, or none that may be dropped. *)

Lasting == {"user", "summary"}

\* What users said is never dropped, nor a summary: one of them is there.
Spoken(ms) == ms = <<>> \/ \E m \in RangeOf(ms) : m.kind \in Lasting

Bare(ms) == \A m \in RangeOf(ms) : m.kind \in Lasting

LEMMA NothingToDrop ==
    ASSUME NEW ms
    PROVE  /\ Droppable(ms) = {i \in DOMAIN ms : ms[i].kind \notin Lasting}
           /\ Bare(ms) <=> Droppable(ms) = {}
<1>1. Droppable(ms) = {i \in DOMAIN ms : ms[i].kind \notin Lasting}
  BY DEF Droppable, Of, Lasting
<1> QED BY <1>1 DEF Bare, RangeOf

LEMMA LeastNumber ==
    ASSUME NEW X, X \subseteq Nat, X # {}
    PROVE  \E m \in X : \A n \in X : m <= n
<1> DEFINE R == {ss \in Nat \X Nat : ss[1] < ss[2]}
<1>1. OpToRel(<, Nat) = R
  BY Zenon DEF OpToRel
<1> HIDE DEF R
<1>2. IsWellFoundedOn(R, Nat)
  BY <1>1, NatLessThanWellFounded, Zenon
<1>3. PICK m \in X : \A n \in X : <<n, m>> \notin R
  BY <1>2, WFMin
<1>4. ASSUME NEW n \in X PROVE m <= n
  <2>1. m \in Nat /\ n \in Nat /\ <<n, m>> \notin R
    BY <1>3
  <2> QED BY <2>1 DEF R
<1> QED BY <1>4

LEMMA DroppedSuffices ==
    ASSUME NEW ms \in Seq(Sound), Spoken(ms)
    PROVE  /\ Dropped(ms) \subseteq Droppable(ms)
           /\ Fits(Omit(ms, Dropped(ms))) \/ Dropped(ms) = Droppable(ms)
<1> DEFINE may == Droppable(ms)
           all == Cardinality(may)
           Enough(n) == \/ Fits(Omit(ms, Oldest(may, n)))
                        \/ Len(ms) - n <= 1
                        \/ n = all
           First(n) == Enough(n) /\ \A k \in 0..(n - 1) : ~Enough(k)
           chosen == CHOOSE n \in 0..all : First(n)
<1>1. Len(ms) \in Nat /\ DOMAIN ms = 1..Len(ms)
  <2> HIDE DEF Sound
  <2> QED OBVIOUS
<1>2. may \subseteq 1..Len(ms) /\ IsFiniteSet(may) /\ all \in Nat
  <2>1. may \subseteq 1..Len(ms)
    BY <1>1 DEF Droppable
  <2>2. IsFiniteSet(1..Len(ms))
    BY <1>1, FS_Interval
  <2> HIDE DEF may
  <2>3. IsFiniteSet(may)
    BY <2>1, <2>2, FS_Subset
  <2> QED BY <2>1, <2>3, FS_CardinalityType
<1>3. Dropped(ms) = Oldest(may, chosen)
  BY Zenon DEF Dropped
<1> HIDE DEF may
<1>4. Oldest(may, all) = may
  <2> SUFFICES ASSUME NEW i \in may PROVE Cardinality({j \in may : j <= i}) <= all
    BY DEF Oldest
  <2>1. {j \in may : j <= i} \subseteq may
    OBVIOUS
  <2> QED BY <1>2, <2>1, FS_Subset
<1>5. all <= Len(ms) - 1 \/ ms = <<>>
  <2> SUFFICES ASSUME ms # <<>> PROVE all <= Len(ms) - 1
    OBVIOUS
  <2>1. PICK i \in DOMAIN ms : ms[i].kind \in Lasting
    BY DEF Spoken, RangeOf
  <2>2. i \in 1..Len(ms) /\ i \notin may
    BY <1>1, <2>1, NothingToDrop DEF may
  <2>3. IsFiniteSet(1..Len(ms)) /\ Cardinality(1..Len(ms)) = Len(ms)
    BY <1>1, FS_Interval
  <2>4. all <= Len(ms) /\ all # Len(ms)
    BY <1>2, <2>2, <2>3, FS_Subset
  <2> QED BY <1>1, <1>2, <2>4
<1>6. ms = <<>> => all = 0
  <2> SUFFICES ASSUME ms = <<>> PROVE all = 0
    OBVIOUS
  <2>1. may = {}
    BY <1>2
  <2> QED BY <2>1, FS_EmptySet
<1> HIDE DEF all
<1>7. chosen \in 0..all /\ Enough(chosen)
  <2> DEFINE X == {n \in 0..all : Enough(n)}
  <2>1. all \in X /\ X \subseteq Nat
    BY <1>2
  <2>2. PICK n \in X : \A k \in X : n <= k
    <3> HIDE DEF X
    <3> QED BY <2>1, LeastNumber
  <2>3. \A k \in 0..(n - 1) : ~Enough(k)
    <3> SUFFICES ASSUME NEW k \in 0..(n - 1), k \in X PROVE FALSE
      BY <1>2
    <3>1. n <= k
      BY <2>2
    <3>2. n \in Nat
      BY <2>1
    <3> QED BY <3>1, <3>2
  <2>4. n \in 0..all /\ First(n)
    BY <2>3
  <2>5. chosen \in 0..all /\ First(chosen)
    <3> HIDE DEF First
    <3> QED BY <2>4
  <2> HIDE DEF chosen
  <2> QED BY <2>5
<1> HIDE DEF chosen
<1>8. Oldest(may, chosen) \subseteq may
  BY DEF Oldest
<1>9. CASE Len(ms) - chosen <= 1
  <2>1. chosen = all
    <3>1. chosen \in Nat /\ chosen <= all
      BY <1>2, <1>7
    <3>2. CASE ms = <<>>
      BY <1>6, <3>1, <3>2
    <3>3. CASE ms # <<>>
      BY <1>1, <1>2, <1>5, <1>9, <3>1, <3>3
    <3> QED BY <3>2, <3>3
  <2> QED BY <1>3, <1>4, <1>8, <2>1 DEF may
<1>10. CASE chosen = all
  BY <1>3, <1>4, <1>8, <1>10 DEF may
<1>11. CASE Fits(Omit(ms, Oldest(may, chosen)))
  BY <1>3, <1>8, <1>11 DEF may
<1> QED BY <1>7, <1>9, <1>10, <1>11

-----------------------------------------------------------------------------
(* Packing stops when the input fits, or has no snippets left. *)

LEMMA WithoutHasNone ==
    ASSUME NEW ms \in Seq(Sound)
    PROVE  Of(Without(ms, "rag"), "rag") = {}
<1> DEFINE gone == {i \in DOMAIN ms : PackKind(ms[i]) = "rag"}
           r == Without(ms, "rag")
<1>1. r = Omit(ms, gone)
  BY Zenon DEF Without
<1>2. \A i \in DOMAIN ms : ms[i].kind = "rag" => i \in gone
  BY DEF PackKind
<1> HIDE DEF gone, r
<1>3. RangeOf(r) = {ms[i] : i \in DOMAIN ms \ gone}
  <2> HIDE DEF Sound
  <2> QED BY <1>1, OmitRange
<1>4. \A m \in RangeOf(r) : m.kind # "rag"
  BY <1>2, <1>3
<1> QED BY <1>4 DEF RangeOf, Of, r

LEMMA PackFits ==
    ASSUME NEW ms \in Seq(Sound), NEW max \in Nat, max # 0
    PROVE  \/ Chars(Pack(ms, max)) <= max
           \/ Of(Pack(ms, max), "rag") = {} /\ ~(Chars(ms) <= max)
<1> DEFINE trimmed1 == Trim(ms, "memory", Larger(MemoryFloor, max \div 8))
           trimmed2 == Trim(trimmed1, "rag", Larger(RagFloor, max \div 4))
           dropped1 == Without(trimmed2, "memory")
           dropped2 == Without(dropped1, "rag")
           steps == <<ms, trimmed1, trimmed2, dropped1, dropped2>>
           fitting == {i \in DOMAIN steps : Chars(steps[i]) <= max}
           first == CHOOSE i \in fitting : \A j \in fitting : i <= j
<1>1. Pack(ms, max) = IF fitting = {} THEN steps[Len(steps)] ELSE steps[first]
  BY Zenon DEF Pack
<1>2. Of(dropped2, "rag") = {}
  <2>1. Larger(MemoryFloor, max \div 8) \in Nat /\ Larger(RagFloor, max \div 4) \in Nat
    BY PackBounds
  <2> HIDE DEF Sound
  <2>2. trimmed1 \in Seq(Sound)
    BY <2>1, TrimKeeps
  <2> HIDE DEF trimmed1
  <2>3. trimmed2 \in Seq(Sound)
    BY <2>1, <2>2, TrimKeeps
  <2> HIDE DEF trimmed2
  <2>4. dropped1 \in Seq(Sound)
    BY <2>3, WithoutKeeps
  <2> HIDE DEF dropped1
  <2> QED BY <2>4, WithoutHasNone
<1> HIDE DEF trimmed1, trimmed2, dropped1, dropped2
<1>3. Len(steps) = 5 /\ DOMAIN steps = 1..5 /\ steps[1] = ms /\ steps[5] = dropped2
  OBVIOUS
<1> HIDE DEF steps
<1>4. CASE fitting = {}
  <2>1. Pack(ms, max) = dropped2
    BY <1>1, <1>3, <1>4
  <2>2. ~(Chars(ms) <= max)
    BY <1>3, <1>4
  <2> QED BY <1>2, <2>1, <2>2
<1>5. CASE fitting # {}
  <2>1. fitting \subseteq Nat
    BY <1>3
  <2>2. \E i \in fitting : \A j \in fitting : i <= j
    <3> HIDE DEF fitting
    <3> QED BY <1>5, <2>1, LeastNumber
  <2>3. first \in fitting
    <3> HIDE DEF fitting
    <3> QED BY <2>2
  <2>4. Chars(steps[first]) <= max
    <3> HIDE DEF first
    <3> QED BY <2>3
  <2> QED BY <1>1, <1>5, <2>4
<1> QED BY <1>4, <1>5

-----------------------------------------------------------------------------
(* What a run finds when it measures: messages that fit, or that last.  The     *)
(* checkpoint speaks of an answered turn, or is empty.                          *)

Packed == Fits(checkpoint) \/ Bare(checkpoint)

Left == IF Chars(checkpoint) < Budget THEN Budget - Chars(checkpoint) ELSE 0

\* A run that measured, or is about to, knows the checkpoint as it is unless a
\* compaction wrote or the archive deleted.
Settled(r) ==
    /\ r.at \in {"measuring", "ready"} /\ r.crossed = FALSE => Packed
    /\ r.at = "ready" /\ r.crossed = FALSE => r.rest = Left

StoredIsAnswered == checkpoint # <<>> => answered # {}

FitInv == StoredIsAnswered /\ Settled(run)

LEMMA AnsweredIsSpoken ==
    ASSUME MemInv, StoredIsAnswered
    PROVE  Spoken(checkpoint)
<1> SUFFICES ASSUME checkpoint # <<>> PROVE \E m \in RangeOf(checkpoint) : m.kind \in Lasting
  BY DEF Spoken
<1>1. PICK t : t \in answered
  BY DEF StoredIsAnswered
<1>2. t \in Told(checkpoint)
  BY <1>1 DEF MemInv, Kept
<1>3. PICK m \in RangeOf(checkpoint) : Tells(m, t)
  BY <1>2, ToldByMessages
<1>4. checkpoint \in Seq(Sound)
  BY TypedRun DEF MemInv
<1>5. m \in Sound
  <2> HIDE DEF Sound
  <2> QED BY <1>4 DEF RangeOf
<1>6. m.kind = "user" \/ m.kind = "summary"
  BY <1>3, <1>5 DEF Tells, Sound
<1> QED BY <1>6 DEF Lasting

\* Who removes a message that is there finds a checkpoint that is not empty.
LEMMA RemovesFromSomething ==
    ASSUME NEW ms, ms # <<>>, ms \in Seq(Sound), Removable(ms)
    PROVE  checkpoint # <<>>
<1>1. 1 \in DOMAIN ms
  <2> HIDE DEF Sound
  <2> QED OBVIOUS
<1>2. Ids(ms) # {}
  BY <1>1 DEF Ids
<1>3. Ids(<<>>) = {}
  BY DEF Ids
<1> QED BY <1>2, <1>3 DEF Removable

LEMMA HeldIsSomething ==
    ASSUME MemInv, PairInv, run.at \in {"compacting", "summarizing", "dropping"}
    PROVE  run.loaded # <<>>
<1>1. CASE run.at = "dropping"
  BY <1>1 DEF PairInv, ReadIsThere
<1>2. CASE run.at # "dropping"
  <2> DEFINE ms == run.loaded
  <2>1. ms \in Seq(Sound) /\ Prefix(ms) # <<>>
    BY <1>2, TypedRun DEF MemInv, RunS, PairInv, ReadIsThere
  <2> HIDE DEF ms, Sound
  <2>2. ms # <<>>
    BY <2>1, BeginsItself, PrefixBegins
  <2> QED BY <2>2 DEF ms
<1> QED BY <1>1, <1>2

LEMMA StoredStaysAnswered ==
    ASSUME MemInv, PairInv, StoredIsAnswered, [Next]_vars
    PROVE  StoredIsAnswered'
<1> SUFFICES ASSUME checkpoint' # <<>> PROVE answered' # {}
  BY DEF StoredIsAnswered
<1>1. CASE checkpoint' = checkpoint /\ answered' = answered
  BY <1>1 DEF StoredIsAnswered
<1>2. ASSUME NEW removed, NEW added, NEW next, Write(removed, added, next),
             run.at \in {"compacting", "summarizing", "dropping"}, answered' = answered
      PROVE  answered' # {}
  <2>1. CASE Removable(run.loaded)
    <3>1. run.loaded \in Seq(Sound) /\ run.loaded # <<>>
      BY <1>2, TypedRun, HeldIsSomething DEF MemInv, RunS
    <3> HIDE DEF Sound
    <3>2. checkpoint # <<>>
      BY <2>1, <3>1, RemovesFromSomething
    <3> QED BY <1>2, <3>2 DEF StoredIsAnswered
  <2>2. CASE ~Removable(run.loaded)
    <3>1. checkpoint' = checkpoint
      BY <1>2, <2>2 DEF Write
    <3> QED BY <1>1, <1>2, <3>1
  <2> QED BY <2>1, <2>2
<1>3. CASE CompactForRun \/ Summarize
  BY <1>2, <1>3 DEF CompactForRun, Summarize
<1>4. CASE DropOldest
  <2>1. /\ run.at = "dropping" /\ answered' = answered
        /\ Write(run.loaded, Omit(run.loaded, Dropped(run.loaded)), "measuring")
    BY <1>4, Zenon DEF DropOldest
  <2> QED BY <1>2, <2>1
<1>5. CASE \E called \in BOOLEAN : EndGraph(called)
  <2>1. turns \in answered'
    BY <1>5, Zenon DEF EndGraph
  <2> QED BY <2>1
<1>6. CASE CompactionWrites
  <2> DEFINE ms == compaction.seen
  <2>1. compaction.at = "writing" /\ answered' = answered
    BY <1>6 DEF CompactionWrites
  <2>2. CASE Removable(ms)
    <3>1. ms \in Seq(Sound) /\ Prefix(ms) # <<>>
      <4> HIDE DEF Sound
      <4> QED BY <2>1 DEF MemInv, TypeInv, PairInv, ReadIsThere
    <3> HIDE DEF ms, Sound
    <3>2. ms # <<>>
      BY <3>1, BeginsItself, PrefixBegins
    <3>3. checkpoint # <<>>
      BY <2>2, <3>1, <3>2, RemovesFromSomething
    <3> QED BY <2>1, <3>3 DEF StoredIsAnswered
  <2>3. CASE ~Removable(ms)
    <3>1. checkpoint' = checkpoint
      BY <1>6, <2>3, Zenon DEF CompactionWrites
    <3> QED BY <1>1, <2>1, <3>1
  <2> QED BY <2>2, <2>3
<1>7. CASE vars' = vars
  BY <1>1, <1>7 DEF vars
<1>8. CASE \E memory \in Memory \cup {Nothing}, docs \in Docs \cup {Nothing},
              size \in UserSizes : Assemble(memory, docs, size)
  BY <1>1, <1>8 DEF Assemble
<1>11. CASE CreateRun
  BY <1>1, <1>11 DEF CreateRun
<1>12. CASE Archive
  BY <1>12 DEF Archive
<1>9. CASE Load \/ ReadState \/ Reload \/ LoadSummarized \/ Measure
  BY <1>1, <1>9 DEF Load, ReadState, Reload, LoadSummarized, Measure
<1>10. CASE StartGraph \/ CompactionReads
  BY <1>1, <1>10 DEF StartGraph, CompactionReads
<1> QED BY <1>3, <1>4, <1>5, <1>6, <1>7, <1>8, <1>9, <1>10, <1>11, <1>12 DEF Next

\* The budget and the sizes are the same before and after a step.
LEMMA SettledLater ==
    ASSUME run \in Run, run' \in Run, checkpoint' = checkpoint, run'.input = run.input,
           Settled(run')
    PROVE  Settled(run)'
<1>1. Chars(checkpoint)' = Chars(checkpoint) /\ Bare(checkpoint)' = Bare(checkpoint)
  BY DEF Chars, Bare, RangeOf
<1>2. Chars(run.input)' = Chars(run.input)
  BY DEF Chars
<1>3. Packed' = Packed
  BY <1>1, <1>2 DEF Packed, Fits
<1>4. Left' = Left
  BY <1>1 DEF Left
<1> QED BY <1>3, <1>4 DEF Settled

\* What a read makes of the run.
LEMMA ReadsSettle ==
    ASSUME MemInv, StoredIsAnswered
    PROVE  /\ Fits(checkpoint) => Settled(Ready(run, checkpoint))
           /\ Settled(Drop(run, checkpoint)) /\ Settled(Shrink(run, checkpoint))
           /\ \A ms : \A b \in BOOLEAN :
                 (b = FALSE => ms = checkpoint) => Settled([Shrink(run, ms) EXCEPT !.crossed = b])
<1>1. run \in Run /\ checkpoint \in Seq(Sound)
  BY TypedRun DEF MemInv, RunS
<1>2. Fits(checkpoint) => Settled(Ready(run, checkpoint))
  <2>1. Ready(run, checkpoint).rest = Left
    BY <1>1 DEF Ready, Left, Run
  <2> QED BY <2>1 DEF Settled, Packed
<1>3. Dropped(checkpoint) = {} => Packed
  <2> SUFFICES ASSUME Dropped(checkpoint) = {}, ~Bare(checkpoint) PROVE Fits(checkpoint)
    BY DEF Packed
  <2>1. Spoken(checkpoint)
    BY AnsweredIsSpoken
  <2> HIDE DEF Sound
  <2>2. Fits(Omit(checkpoint, {})) \/ Droppable(checkpoint) = {}
    BY <1>1, <2>1, DroppedSuffices
  <2>3. Omit(checkpoint, {}) = checkpoint
    BY <1>1, OmitNothing
  <2> QED BY <2>2, <2>3, NothingToDrop
<1>4. ASSUME NEW ms, NEW b \in BOOLEAN, b = FALSE => ms = checkpoint
      PROVE  Settled([Drop(run, ms) EXCEPT !.crossed = b])
  <2> DEFINE at == IF Dropped(ms) = {} THEN "measuring" ELSE "dropping"
             r == [Drop(run, ms) EXCEPT !.crossed = b]
  <2>1. r = [run EXCEPT !.loaded = ms, !.crossed = b, !.at = at]
    BY <1>1 DEF Drop, Run
  <2>2. at \in {"measuring", "dropping"} /\ (at = "measuring" => Dropped(ms) = {})
    OBVIOUS
  <2> HIDE DEF at
  <2>3. r.at = at /\ r.crossed = b
    BY <1>1, <2>1 DEF Run
  <2> HIDE DEF r
  <2> QED BY <1>3, <1>4, <2>2, <2>3 DEF Settled, r
<1>5. ASSUME NEW ms, NEW b \in BOOLEAN, b = FALSE => ms = checkpoint
      PROVE  Settled([Shrink(run, ms) EXCEPT !.crossed = b])
  <2>1. CASE Prefix(ms) = <<>>
    BY <1>4, <1>5, <2>1 DEF Shrink
  <2>2. CASE Prefix(ms) # <<>>
    <3>1. [Shrink(run, ms) EXCEPT !.crossed = b].at = "summarizing"
      BY <1>1, <2>2 DEF Shrink, Run
    <3> QED BY <3>1 DEF Settled
  <2> QED BY <2>1, <2>2
<1>6. /\ Drop(run, checkpoint) = [Drop(run, checkpoint) EXCEPT !.crossed = FALSE]
      /\ Shrink(run, checkpoint) = [Shrink(run, checkpoint) EXCEPT !.crossed = FALSE]
  <2>1. Drop(run, checkpoint) = [Drop(run, checkpoint) EXCEPT !.crossed = FALSE]
    <3> DEFINE at == IF Dropped(checkpoint) = {} THEN "measuring" ELSE "dropping"
    <3>1. Drop(run, checkpoint) = [run EXCEPT !.loaded = checkpoint, !.crossed = FALSE, !.at = at]
      BY DEF Drop
    <3> HIDE DEF at
    <3> QED BY <1>1, <3>1 DEF Run
  <2>2. CASE Prefix(checkpoint) = <<>>
    BY <2>1, <2>2 DEF Shrink
  <2>3. CASE Prefix(checkpoint) # <<>>
    BY <1>1, <2>1, <2>3 DEF Shrink, Run
  <2> QED BY <2>1, <2>2, <2>3
<1>7. Settled(Drop(run, checkpoint)) /\ Settled(Shrink(run, checkpoint))
  <2>1. Settled([Drop(run, checkpoint) EXCEPT !.crossed = FALSE])
    BY <1>4
  <2>2. Settled([Shrink(run, checkpoint) EXCEPT !.crossed = FALSE])
    BY <1>5
  <2> QED BY <1>6, <2>1, <2>2
<1> QED BY <1>2, <1>5, <1>7

LEMMA ReadsStaySettled ==
    ASSUME HInv, MemInv, PairInv, FitInv, Load \/ ReadState \/ Reload \/ LoadSummarized \/ Measure,
           run' \in Run
    PROVE  Settled(run)'
<1>1. run \in Run /\ run.crossed \in BOOLEAN /\ TypeInv /\ StoredIsAnswered
  BY TypedRun DEF MemInv, RunS, Run, FitInv
<1>2. checkpoint' = checkpoint
  BY DEF Load, ReadState, Reload, LoadSummarized, Measure
<1>3. run'.input = run.input
  <2>1. run.loaded \in {checkpoint, run.loaded} /\ checkpoint \in {checkpoint, run.loaded}
    OBVIOUS
  <2>2. /\ ReadsOnly(Ready(run, checkpoint))
        /\ ReadsOnly([Ready(run, checkpoint) EXCEPT !.crossed = run.crossed])
        /\ ReadsOnly(Drop(run, checkpoint)) /\ ReadsOnly(Shrink(run, checkpoint))
        /\ ReadsOnly([Shrink(run, run.loaded) EXCEPT !.crossed = run.crossed])
        /\ ReadsOnly([run EXCEPT !.at = "reading", !.loaded = checkpoint, !.crossed = FALSE])
        /\ ReadsOnly([run EXCEPT !.at = "compacting", !.loaded = checkpoint, !.crossed = FALSE])
    BY <1>1, <2>1, EveryReadReadsOnly
  <2>3. ReadsOnly(run')
    BY <2>2 DEF Load, ReadState, Reload, LoadSummarized, Measure
  <2> QED BY <2>3 DEF ReadsOnly
<1>4. ASSUME NEW at \in {"reading", "compacting"}
      PROVE  Settled([run EXCEPT !.at = at, !.loaded = checkpoint, !.crossed = FALSE])
  BY <1>1 DEF Settled, Run
<1>5. Settled(run')
  <2>1. CASE Load
    BY <1>1, <1>4, <2>1, ReadsSettle DEF Load
  <2>2. CASE ReadState /\ NeedsCompaction(checkpoint)
    BY <1>4, <2>2 DEF ReadState
  <2>3. CASE ReadState /\ ~NeedsCompaction(checkpoint)
    <3>1. run.at = "reading" /\ run' = [Shrink(run, run.loaded) EXCEPT !.crossed = run.crossed]
      BY <2>3 DEF ReadState
    <3>2. run.crossed = TRUE \/ run.loaded = checkpoint
      BY <3>1 DEF HInv, HeldIsThere, PairInv, ReadIsThere, Holding
    <3>3. run.crossed = FALSE => run.loaded = checkpoint
      BY <1>1, <3>2
    <3>4. Settled([Shrink(run, run.loaded) EXCEPT !.crossed = run.crossed])
      BY <1>1, <3>3, ReadsSettle
    <3> QED BY <3>1, <3>4
  <2>4. CASE Reload \/ LoadSummarized
    BY <1>1, <2>4, ReadsSettle DEF Reload, LoadSummarized
  <2>5. CASE Measure
    <3>1. run.at = "measuring" /\ run' = [Ready(run, checkpoint) EXCEPT !.crossed = run.crossed]
      BY <2>5 DEF Measure
    <3>2. run'.crossed = run.crossed /\ run'.rest = Left
      BY <1>1, <3>1 DEF Ready, Run, Left
    <3> QED BY <3>1, <3>2 DEF FitInv, Settled
  <2> QED BY <2>1, <2>2, <2>3, <2>4, <2>5
<1> QED BY <1>1, <1>2, <1>3, <1>5, SettledLater

\* After a drop that removed what is there, what was kept fits or lasts.
LEMMA KeptFitsOrLasts ==
    ASSUME MemInv, StoredIsAnswered, run' \in Run, run'.input = run.input,
           checkpoint' = Updated(checkpoint, Omit(checkpoint, Dropped(checkpoint)))
    PROVE  Packed'
<1> DEFINE gone == Dropped(checkpoint)
           kept == Omit(checkpoint, gone)
           all == {i \in DOMAIN checkpoint : checkpoint[i].id \in Ids(checkpoint)}
           rest == Omit(checkpoint, all)
<1>1. checkpoint \in Seq(Sound) /\ run \in Run /\ TypeInv
  BY TypedRun DEF MemInv, RunS
<1>2. Spoken(checkpoint)
  BY AnsweredIsSpoken
<1>3. checkpoint' = rest \o New(kept)
  BY Zenon DEF Updated
<1>4. all = DOMAIN checkpoint
  BY DEF Ids
<1> HIDE DEF all, gone, Sound
<1>5. rest = <<>>
  <2>1. rest \in Seq(Sound) /\ RangeOf(rest) = {checkpoint[i] : i \in DOMAIN checkpoint \ all}
    BY <1>1, OmitRange
  <2> HIDE DEF rest
  <2>2. DOMAIN rest = {}
    BY <1>4, <2>1 DEF RangeOf
  <2> QED BY <2>1, <2>2
<1> HIDE DEF rest
<1>6. kept \in Seq(Sound) /\ RangeOf(kept) = {checkpoint[i] : i \in DOMAIN checkpoint \ gone}
  BY <1>1, OmitRange
<1>7. Fits(kept) \/ gone = Droppable(checkpoint)
  BY <1>1, <1>2, DroppedSuffices DEF gone
<1> HIDE DEF kept
<1>8. /\ New(kept) \in Seq(Sound) /\ Len(New(kept)) = Len(kept)
      /\ \A i \in 1..Len(kept) : New(kept)[i].kind = kept[i].kind /\ New(kept)[i].size = kept[i].size
  BY <1>1, <1>6, NewNames
<1> DEFINE ms == New(kept)
<1> HIDE DEF ms
<1>9. ms \in Seq(Sound) /\ Len(ms) = Len(kept) /\ checkpoint' = ms
  BY <1>3, <1>5, <1>8 DEF ms
<1>10. DOMAIN ms = 1..Len(kept) /\ DOMAIN kept = 1..Len(kept)
  BY <1>6, <1>9
<1>11. CASE Fits(kept)
  <2>1. Chars(ms) = Chars(kept)
    BY <1>6, <1>8, <1>9, CharsOfSizes DEF ms
  <2>2. Chars(checkpoint)' = Chars(ms) /\ Chars(run.input)' = Chars(run.input)
    BY <1>9 DEF Chars
  <2> QED BY <1>11, <2>1, <2>2 DEF Packed, Fits
<1>12. CASE gone = Droppable(checkpoint)
  <2>1. \A i \in DOMAIN kept : kept[i].kind \in Lasting
    <3> TAKE i \in DOMAIN kept
    <3>1. PICK j \in DOMAIN checkpoint \ gone : kept[i] = checkpoint[j]
      BY <1>6 DEF RangeOf
    <3> QED BY <1>12, <3>1, NothingToDrop
  <2>2. \A i \in DOMAIN ms : ms[i].kind \in Lasting
    BY <1>8, <1>10, <2>1 DEF ms
  <2>3. Bare(checkpoint)'
    BY <1>9, <2>2 DEF Bare, RangeOf
  <2> QED BY <2>3 DEF Packed
<1> QED BY <1>7, <1>11, <1>12

LEMMA FitStep ==
    ASSUME HInv, MemInv, PairInv, FitInv, [Next]_vars, MemInv'
    PROVE  FitInv'
<1>1. StoredIsAnswered'
  BY StoredStaysAnswered DEF FitInv
<1> SUFFICES Settled(run)'
  BY <1>1 DEF FitInv
<1>2. run \in Run /\ run.crossed \in BOOLEAN
  BY TypedRun DEF MemInv, RunS, Run
<1>3. run' \in Run
  BY DEF MemInv, TypeInv
<1>4. ASSUME run'.at \notin {"measuring", "ready"} PROVE Settled(run)'
  BY <1>4 DEF Settled
<1>5. ASSUME NEW removed, NEW added, NEW next \in {"reloading", "summarized"},
             Write(removed, added, next)
      PROVE  Settled(run)'
  <2>1. run'.at \in {"idle", next}
    BY <1>2, <1>5 DEF Write, NoRun, Run
  <2> QED BY <1>4, <2>1
<1>6. CASE Load \/ ReadState \/ Reload \/ LoadSummarized \/ Measure
  BY <1>3, <1>6, ReadsStaySettled
<1>7. CASE CompactForRun \/ Summarize
  BY <1>5, <1>7 DEF CompactForRun, Summarize
<1>8. CASE DropOldest
  <2>1. /\ run.at = "dropping"
        /\ Write(run.loaded, Omit(run.loaded, Dropped(run.loaded)), "measuring")
    BY <1>8, Zenon DEF DropOldest
  <2>2. CASE Removable(run.loaded)
    <3>1. run.loaded = checkpoint
      BY <2>1, <2>2 DEF PairInv, ReadIsThere, Holding
    <3>2. /\ checkpoint' = Updated(checkpoint, Omit(checkpoint, Dropped(checkpoint)))
          /\ run' = [run EXCEPT !.at = "measuring"]
      BY <2>1, <2>2, <3>1, Zenon DEF Write
    <3>3. run'.input = run.input /\ run'.at = "measuring"
      BY <1>2, <3>2 DEF Run
    <3>4. Packed'
      BY <1>3, <3>2, <3>3, KeptFitsOrLasts DEF FitInv
    <3> QED BY <3>3, <3>4 DEF Settled
  <2>3. CASE ~Removable(run.loaded)
    <3>1. run' = NoRun
      BY <2>1, <2>3, Zenon DEF Write
    <3> QED BY <1>4, <3>1 DEF NoRun
  <2> QED BY <2>2, <2>3
<1>9. CASE \E memory \in Memory \cup {Nothing}, docs \in Docs \cup {Nothing},
              size \in UserSizes : Assemble(memory, docs, size)
  BY <1>4, <1>9 DEF Assemble, NoRun
<1>14. CASE CreateRun
  BY <1>4, <1>14 DEF CreateRun, NoRun
<1>15. CASE Archive
  <2>1. run'.crossed = TRUE
    BY <1>2, <1>15 DEF Archive, Run
  <2> QED BY <2>1 DEF Settled
<1>10. CASE StartGraph
  BY <1>2, <1>4, <1>10 DEF StartGraph, Run
<1>11. CASE \E called \in BOOLEAN : EndGraph(called)
  <2>1. run' = NoRun
    BY <1>11, Zenon DEF EndGraph
  <2> QED BY <1>4, <2>1 DEF NoRun
<1>12. CASE vars' = vars \/ CompactionReads
  <2>1. checkpoint' = checkpoint /\ run' = run
    BY <1>12 DEF vars, CompactionReads
  <2>2. Settled(run')
    BY <2>1 DEF FitInv
  <2> QED BY <1>2, <1>3, <2>1, <2>2, SettledLater
<1>13. CASE CompactionWrites
  <2>1. CASE Removable(compaction.seen)
    <3>1. run' = [run EXCEPT !.crossed = TRUE]
      BY <1>13, <2>1, Zenon DEF CompactionWrites
    <3>2. run'.crossed = TRUE
      BY <1>2, <3>1 DEF Run
    <3> QED BY <3>2 DEF Settled
  <2>2. CASE ~Removable(compaction.seen)
    <3>1. checkpoint' = checkpoint /\ run' = run
      BY <1>13, <2>2, Zenon DEF CompactionWrites
    <3>2. Settled(run')
      BY <3>1 DEF FitInv
    <3> QED BY <1>2, <1>3, <3>1, <3>2, SettledLater
  <2> QED BY <2>1, <2>2
<1> QED BY <1>6, <1>7, <1>8, <1>9, <1>10, <1>11, <1>12, <1>13, <1>14, <1>15 DEF Next

\* The messages a graph starts with fit, or none that may be dropped is left.
LEMMA StartFits ==
    ASSUME MemInv, FitInv, StartGraph, run.crossed = FALSE
    PROVE  \/ Chars(run'.graph) <= Budget
           \/ /\ Droppable(checkpoint) = {}
              /\ run.rest = 0 \/ Of(run'.graph, "rag") = {}
<1> DEFINE packed == Pack(run.input, run.rest)
           new == New(packed)
           graph == checkpoint \o new
           size == Chars(checkpoint)
<1>1. /\ run \in Run /\ checkpoint \in Seq(Sound) /\ run.input \in Seq(Sound)
      /\ run.rest \in Nat /\ TypeInv
  BY TypedRun DEF MemInv, RunS, Run
<1>2. run.at = "ready" /\ run' = [run EXCEPT !.at = "graph", !.graph = graph]
  BY DEF StartGraph
<1>3. Packed /\ run.rest = Left
  BY <1>2 DEF FitInv, Settled
<1>4. packed \in Seq(Sound)
  BY <1>1, PackKeeps
<1> HIDE DEF Sound
<1>5. /\ size \in Nat /\ Chars(run.input) \in Nat /\ Chars(packed) \in Nat /\ Budget \in Nat
  BY <1>1, <1>4, CharsAreCounted, ContextAssumption
<1>6. run.rest = 0 => packed = run.input
  BY Zenon DEF Pack
<1>7. run.rest # 0 =>
         \/ Chars(packed) <= run.rest
         \/ Of(packed, "rag") = {} /\ ~(Chars(run.input) <= run.rest)
  BY <1>1, PackFits
<1> HIDE DEF packed
<1>8. /\ new \in Seq(Sound) /\ Len(new) = Len(packed)
      /\ \A i \in 1..Len(packed) : new[i].kind = packed[i].kind /\ new[i].size = packed[i].size
  BY <1>1, <1>4, NewNames
<1> HIDE DEF new
<1>9. Chars(graph) = size + Chars(packed)
  <2>1. Chars(new) = Chars(packed)
    BY <1>4, <1>8, CharsOfSizes
  <2> QED BY <1>1, <1>8, <2>1, CharsConcat
<1>10. run'.graph = graph
  BY <1>1, <1>2 DEF Run
<1>11. ASSUME Bare(checkpoint), Of(packed, "rag") = {}
       PROVE  Of(graph, "rag") = {}
  <2>1. \A m \in RangeOf(checkpoint) : m.kind # "rag"
    BY <1>11 DEF Bare, Lasting
  <2>2. DOMAIN new = 1..Len(packed) /\ DOMAIN packed = 1..Len(packed)
    BY <1>4, <1>8
  <2>3. \A m \in RangeOf(new) : m.kind # "rag"
    BY <1>8, <1>11, <2>2 DEF RangeOf, Of
  <2>4. RangeOf(graph) = RangeOf(checkpoint) \cup RangeOf(new)
    BY <1>1, <1>8, RangeOfConcat
  <2>5. \A m \in RangeOf(graph) : m.kind # "rag"
    BY <2>1, <2>3, <2>4
  <2> HIDE DEF graph
  <2> QED BY <2>5 DEF Of, RangeOf
<1> HIDE DEF graph, size
<1>12. run.rest # 0 => run.rest = Budget - size
  BY <1>3, <1>5 DEF Left, size
<1>13. run.rest # 0 /\ Chars(packed) <= run.rest => Chars(graph) <= Budget
  BY <1>1, <1>5, <1>9, <1>12
<1>14. CASE Fits(checkpoint)
  <2>1. size + Chars(run.input) <= Budget
    BY <1>14 DEF Fits, size
  <2>2. CASE run.rest = 0
    <3>1. Chars(graph) <= Budget
      BY <1>6, <1>9, <2>1, <2>2
    <3> QED BY <1>10, <3>1
  <2>3. CASE run.rest # 0
    <3>1. Chars(run.input) <= run.rest
      BY <1>1, <1>5, <1>12, <2>1, <2>3
    <3> QED BY <1>7, <1>10, <1>13, <2>3, <3>1
  <2> QED BY <2>2, <2>3
<1>15. CASE Bare(checkpoint)
  <2>1. Droppable(checkpoint) = {}
    BY <1>15, NothingToDrop
  <2> QED BY <1>7, <1>10, <1>11, <1>13, <1>15, <2>1
<1> QED BY <1>3, <1>14, <1>15 DEF Packed

LEMMA OnlyStartGraphStarts ==
    ASSUME MemInv, Next, run.at = "ready", run'.at = "graph"
    PROVE  StartGraph
<1>1. run \in Run
  BY TypedRun DEF MemInv, RunS
<1>2. ~(\E memory \in Memory \cup {Nothing}, docs \in Docs \cup {Nothing},
              size \in UserSizes : Assemble(memory, docs, size))
  BY DEF Assemble
<1>3. /\ ~Load /\ ~ReadState /\ ~CompactForRun /\ ~Reload /\ ~Summarize /\ ~LoadSummarized
      /\ ~DropOldest /\ ~Measure
  BY DEF Load, ReadState, CompactForRun, Reload, Summarize, LoadSummarized, DropOldest, Measure
<1>4. ~(\E tool \in BOOLEAN : EndGraph(tool))
  BY DEF EndGraph
<1>5. ~CompactionReads /\ ~CreateRun
  BY DEF CompactionReads, CreateRun
<1>7. ~Archive
  BY <1>1 DEF Archive, Run
<1>6. ~CompactionWrites
  <2> SUFFICES ASSUME CompactionWrites PROVE FALSE
    OBVIOUS
  <2>1. run' = run \/ run' = [run EXCEPT !.crossed = TRUE]
    BY Zenon DEF CompactionWrites
  <2> QED BY <1>1, <2>1 DEF Run
<1> QED BY <1>2, <1>3, <1>4, <1>5, <1>6, <1>7 DEF Next

\* A graph starts over its budget only when the checkpoint holds what users said
\* and summaries alone, and no snippet is in the input or the checkpoint fills the
\* budget by itself, unless a compaction wrote after the run's last read or the
\* thread was archived: for all budgets, sizes and floors, whatever a run read,
\* summarized or dropped before.
THEOREM GraphsFitOrAreBare == Spec => FitsOrBare
<1> DEFINE Inv == HInv /\ MemInv /\ PairInv /\ FitInv
           Fitting == \/ Chars(run'.graph) <= Budget
                      \/ /\ Droppable(checkpoint) = {}
                         /\ run.rest = 0 \/ Of(run'.graph, "rag") = {}
<1>1. Init => Inv
  <2>1. Init => HInv
    BY DEF Init, NoRun, HInv, RunShape, IsRun, HeldIsThere, Holding
  <2>2. Init => FitInv
    BY DEF Init, NoRun, FitInv, StoredIsAnswered, Settled
  <2> QED BY <2>1, <2>2, MemInit, PairInit
<1>2. Inv /\ [Next]_vars => Inv'
  <2> SUFFICES ASSUME Inv, [Next]_vars PROVE Inv'
    OBVIOUS
  <2>1. HInv'
    <3>1. ASSUME UNCHANGED vars PROVE HInv'
      BY <3>1 DEF vars, HInv, RunShape, HeldIsThere, Removable
    <3> QED BY <3>1, NextStep
  <2>2. MemInv' /\ PairInv'
    BY MemStep, PairStep
  <2>3. FitInv'
    BY <2>2, FitStep
  <2> QED BY <2>1, <2>2, <2>3
<1>3. Inv /\ [Next]_vars => [(run.at = "ready" /\ run'.at = "graph" /\ ~run.crossed) => Fitting]_vars
  <2> SUFFICES ASSUME Inv, Next, run.at = "ready", run'.at = "graph", ~run.crossed PROVE Fitting
    OBVIOUS
  <2>1. run.crossed \in BOOLEAN
    BY TypedRun DEF MemInv, RunS, Run
  <2>2. run.crossed = FALSE
    BY <2>1
  <2> QED BY <2>2, StartFits, OnlyStartGraphStarts
<1> HIDE DEF Inv
<1> QED BY <1>1, <1>2, <1>3, PTL DEF Spec, FitsOrBare

=============================================================================
