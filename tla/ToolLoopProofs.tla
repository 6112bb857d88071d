---------------------------- MODULE ToolLoopProofs ----------------------------
(***************************************************************************)
(* What the safety gate guarantees of every call that runs, that a blocked *)
(* call stays blocked, and that the ledger of a run that ended tells what  *)
(* happened: proved for any calls, rules and keys, any library and any     *)
(* number of calls and crashes.                                            *)
(***************************************************************************)
EXTENDS ToolLoop, SequenceTheorems, FiniteSetTheorems, TLAPS

\* Of the types only those that the gate needs.
CallsOK ==
    /\ calls \in Seq([call : Call, round : Nat])
    /\ Len(calls) <= MaxCalls
    /\ tool \in [Ids -> Fate]

\* Later calls belong to the same round or a later one.
RoundsGrow ==
    \A i \in 1..Len(calls), j \in 1..Len(calls) :
        i <= j => calls[i].round <= calls[j].round

\* Only a call that was made can have started.
StartedIsMade ==
    \A i \in Ids : tool[i] # "proposed" => i \in 1..Len(calls)

\* The graph has the confirmation of the request that created the run, or of an
\* approval in the store.
ConfirmationIsEarned ==
    /\ confirmed => created \/ approved
    /\ verdict = "approved" => approved

\* While tools run the gate has looked at the whole batch.
BatchIsCleared ==
    at = "tools" => \A j \in Batch : /\ CallOf(j).rule \notin {"deny", "route"}
                                     /\ CallOf(j).rule = "ask" => confirmed

Pre == CallsOK /\ RoundsGrow /\ StartedIsMade
GateInv == Pre /\ ConfirmationIsEarned /\ BatchIsCleared /\ GateHolds

-----------------------------------------------------------------------------
\* What stands in two sequences put together.
LEMMA Joined ==
    ASSUME NEW S, NEW s \in Seq(S), NEW t \in Seq(S)
    PROVE  /\ s \o t \in Seq(S)
           /\ Len(s) \in Nat /\ Len(t) \in Nat /\ Len(s \o t) = Len(s) + Len(t)
           /\ \A i \in 1..Len(s) : (s \o t)[i] = s[i]
           /\ \A i \in 1..Len(s \o t) : i > Len(s) =>
                i - Len(s) \in 1..Len(t) /\ (s \o t)[i] = t[i - Len(s)]
  OBVIOUS

\* A batch is a sequence of one or two calls.
LEMMA BatchIsShort ==
    ASSUME NEW batch \in Call \X Call \cup {<<c>> : c \in Call}
    PROVE  batch \in Seq(Call) /\ Len(batch) \in 1..2
<1>1. CASE batch \in Call \X Call
  <2>1. PICK a \in Call, b \in Call : batch = <<a, b>>
    BY <1>1
  <2>2. <<a, b>> \in Seq(Call) /\ Len(<<a, b>>) = 2
    OBVIOUS
  <2> QED
    BY <2>1, <2>2
<1>2. CASE batch \in {<<c>> : c \in Call}
  <2>1. PICK c \in Call : batch = <<c>>
    BY <1>2
  <2>2. <<c>> \in Seq(Call) /\ Len(<<c>>) = 1
    OBVIOUS
  <2> QED
    BY <2>1, <2>2
<1> QED
  BY <1>1, <1>2

\* The gate lets a batch through only if it holds nothing that is denied, off the
\* route, or to be asked for without a confirmation.
LEMMA AllowedIsCleared ==
    ASSUME Decision = "allow", OffRoute = {}
    PROVE  \A j \in Batch : /\ CallOf(j).rule \notin {"deny", "route"}
                            /\ CallOf(j).rule = "ask" => confirmed
<1>1. \A j \in Batch : /\ CallOf(j).rule # "deny"
                       /\ CallOf(j).rule = "ask" => confirmed
  BY DEF Decision
<1>2. \A j \in Batch : CallOf(j).rule # "route"
  BY DEF OffRoute
<1> QED
  BY <1>1, <1>2

\* The last call has the highest round.
LEMMA LastRoundIsHighest ==
    ASSUME CallsOK, RoundsGrow
    PROVE  /\ LastRound \in Nat
           /\ \A i \in 1..Len(calls) : calls[i].round \in Nat /\ calls[i].round <= LastRound
<1>1. CASE calls = <<>>
  BY <1>1 DEF LastRound
<1>2. CASE calls # <<>>
  <2>1. Len(calls) \in 1..Len(calls)
    BY <1>2 DEF CallsOK
  <2>2. \A i \in 1..Len(calls) : calls[i].round \in Nat
    <3> SUFFICES ASSUME NEW i \in 1..Len(calls)
                 PROVE  calls[i].round \in Nat
      OBVIOUS
    <3>1. calls[i] \in [call : Call, round : Nat]
      BY ElementOfSeq DEF CallsOK
    <3> QED
      BY <3>1
  <2> QED
    BY <1>2, <2>1, <2>2 DEF LastRound, RoundsGrow
<1> QED
  BY <1>1, <1>2

\* New calls come behind the old ones, in a round of their own.
LEMMA ProposeStep ==
    ASSUME GateInv, Propose
    PROVE  GateInv'
<1> USE DEF GateInv, Pre
<1>1. PICK batch \in Call \X Call \cup {<<c>> : c \in Call} :
        /\ Len(calls) + Len(batch) <= MaxCalls
        /\ calls' = calls \o [k \in 1..Len(batch) |->
                                [call |-> batch[k], round |-> LastRound + 1]]
  BY DEF Propose
<1> DEFINE n == Len(calls)
           new == [k \in 1..Len(batch) |-> [call |-> batch[k], round |-> LastRound + 1]]
<1>2. batch \in Seq(Call) /\ Len(batch) \in 1..2
  BY BatchIsShort
<1>3. new \in Seq([call : Call, round : Nat]) /\ Len(new) = Len(batch)
  BY <1>2, LastRoundIsHighest
<1>4. /\ calls' \in Seq([call : Call, round : Nat])
      /\ n \in Nat /\ Len(calls') = n + Len(batch)
      /\ \A i \in 1..n : calls'[i] = calls[i]
      /\ \A i \in 1..Len(calls') : i > n => calls'[i].round = LastRound + 1
  <2>1. calls \in Seq([call : Call, round : Nat]) /\ calls' = calls \o new
    BY <1>1 DEF CallsOK
  <2> HIDE DEF new
  <2>2. /\ calls' \in Seq([call : Call, round : Nat])
        /\ n \in Nat /\ Len(calls') = n + Len(batch)
        /\ \A i \in 1..n : calls'[i] = calls[i]
        /\ \A i \in 1..Len(calls') :
              i > n => i - n \in 1..Len(batch) /\ calls'[i] = new[i - n]
    <3> DEFINE Made == [call : Call, round : Nat]
    <3>1. calls \in Seq(Made) /\ new \in Seq(Made)
      BY <1>3, <2>1
    <3> HIDE DEF Made
    <3>2. /\ calls \o new \in Seq(Made)
          /\ Len(calls) \in Nat /\ Len(calls \o new) = Len(calls) + Len(new)
          /\ \A i \in 1..Len(calls) : (calls \o new)[i] = calls[i]
          /\ \A i \in 1..Len(calls \o new) : i > Len(calls) =>
                i - Len(calls) \in 1..Len(new) /\ (calls \o new)[i] = new[i - Len(calls)]
      BY <3>1, Joined
    <3> QED
      BY <1>3, <2>1, <3>2, Zenon DEF Made
  <2>3. \A k \in 1..Len(batch) : new[k].round = LastRound + 1
    BY DEF new
  <2> QED
    BY <1>2, <2>2, <2>3
<1>5. tool' = tool /\ at' = "gate" /\ confirmed' = confirmed
      /\ created' = created /\ approved' = approved /\ verdict' = verdict
  BY DEF Propose
<1>6. CallsOK'
  BY <1>1, <1>3, <1>4, <1>5 DEF CallsOK
<1>7. RoundsGrow'
  <2> SUFFICES ASSUME NEW i \in 1..Len(calls'), NEW j \in 1..Len(calls'), i <= j
               PROVE  calls'[i].round <= calls'[j].round
    BY DEF RoundsGrow
  <2>1. CASE j <= n
    <3>1. i \in 1..n /\ j \in 1..n
      BY <1>4, <2>1
    <3>2. calls[i].round <= calls[j].round
      BY <3>1 DEF RoundsGrow
    <3> QED
      BY <1>4, <3>1, <3>2
  <2>2. CASE i <= n /\ j > n
    <3>1. i \in 1..n
      BY <2>2, <1>4
    <3>2. calls[i].round \in Nat /\ calls[i].round <= LastRound /\ LastRound \in Nat
      BY <3>1, LastRoundIsHighest
    <3> QED
      BY <1>4, <2>2, <3>1, <3>2
  <2>3. CASE i > n
    <3>1. j > n /\ LastRound \in Nat
      BY <1>4, <2>3, LastRoundIsHighest
    <3> QED
      BY <1>4, <2>3, <3>1
  <2> QED
    BY <1>4, <2>1, <2>2, <2>3
<1>8. StartedIsMade'
  BY <1>2, <1>4, <1>5 DEF StartedIsMade
<1>9. Started' = Started
  <2>1. \A i \in Ids : tool[i] # "proposed" => i \in 1..n
    BY DEF StartedIsMade
  <2>2. 1..Len(calls') \subseteq Ids /\ 1..n \subseteq 1..Len(calls')
    <3>1. MaxCalls \in Nat
      BY ToolAssumption
    <3> QED
      BY <1>2, <1>4, <1>6, <3>1 DEF CallsOK, Ids
  <2> QED
    BY <1>5, <2>1, <2>2 DEF Started
<1>10. GateHolds'
  <2>1. \A i \in Started' : i \in 1..n /\ calls'[i] = calls[i] /\ calls[i].round <= LastRound
    BY <1>4, <1>9, LastRoundIsHighest DEF Started
  <2>2. DeniedNeverRuns'
    <3> SUFFICES ASSUME NEW i \in Started', NEW j \in 1..Len(calls'),
                        calls'[i].round = calls'[j].round
                 PROVE  calls'[j].call.rule \notin {"deny", "route"}
      BY DEF DeniedNeverRuns, CallOf
    <3>1. j \in 1..n
      <4>1. calls[i].round \in Nat /\ LastRound \in Nat
        BY <2>1, LastRoundIsHighest
      <4> QED
        BY <1>4, <2>1, <4>1
    <3> QED
      BY <1>4, <1>9, <2>1, <3>1 DEF GateHolds, DeniedNeverRuns, CallOf
  <2>3. DangerWasApproved'
    BY <1>5, <1>9, <2>1 DEF GateHolds, DangerWasApproved, CallOf
  <2> QED
    BY <2>2, <2>3 DEF GateHolds
<1> QED
  BY <1>5, <1>6, <1>7, <1>8, <1>10 DEF ConfirmationIsEarned, BatchIsCleared

\* A step that starts no call and makes none, and forgets no approval.
LEMMA QuietStep ==
    ASSUME GateInv, UNCHANGED <<calls, tool, created>>, approved => approved',
           ConfirmationIsEarned', BatchIsCleared'
    PROVE  GateInv'
<1>1. CallsOK' /\ RoundsGrow' /\ StartedIsMade'
  BY DEF GateInv, Pre, CallsOK, RoundsGrow, StartedIsMade
<1>2. Started' = Started /\ \A i : CallOf(i)' = CallOf(i)
  BY DEF Started, CallOf
<1>3. DeniedNeverRuns'
  BY <1>2 DEF GateInv, GateHolds, DeniedNeverRuns
<1>4. DangerWasApproved'
  BY <1>2 DEF GateInv, GateHolds, DangerWasApproved
<1> QED
  BY <1>1, <1>3, <1>4 DEF GateInv, Pre, GateHolds

\* A call that starts stands in a batch that the gate has cleared.
LEMMA StartStep ==
    ASSUME GateInv, NEW i \in Ids, StartTool(i)
    PROVE  GateInv'
<1> USE DEF GateInv, Pre
<1>1. UNCHANGED <<created, calls, at, confirmed, verdict, approved>>
  BY DEF StartTool, graphVars
<1>2. at = "tools" /\ i \in Batch
  BY DEF StartTool
<1>3. PICK fate \in Fate : tool' = [tool EXCEPT ![i] = fate]
  BY DEF StartTool, Fate
<1>4. CallsOK'
  BY <1>1, <1>3 DEF CallsOK
<1>5. RoundsGrow' /\ ConfirmationIsEarned' /\ Batch' = Batch
  BY <1>1 DEF RoundsGrow, ConfirmationIsEarned, Batch, LastRound
<1>6. StartedIsMade'
  BY <1>1, <1>2, <1>3 DEF StartedIsMade, CallsOK, Batch
<1>7. BatchIsCleared'
  BY <1>1, <1>5 DEF BatchIsCleared, CallOf
<1>8. Started' \subseteq Started \cup {i}
  <2> SUFFICES ASSUME NEW s \in 1..Len(calls), tool'[s] # "proposed", s # i
               PROVE  tool[s] # "proposed"
    BY <1>1 DEF Started
  <2>1. s \in Ids
    <3>1. MaxCalls \in Nat
      BY ToolAssumption
    <3> QED
      BY <3>1 DEF CallsOK, Ids
  <2> QED
    BY <1>3, <2>1 DEF CallsOK
<1>9. DeniedNeverRuns'
  <2> SUFFICES ASSUME NEW s \in Started', NEW j \in 1..Len(calls),
                      calls[s].round = calls[j].round
               PROVE  CallOf(j).rule \notin {"deny", "route"}
    BY <1>1 DEF DeniedNeverRuns, CallOf
  <2>1. CASE s \in Started
    BY <2>1 DEF GateHolds, DeniedNeverRuns
  <2>2. CASE s = i
    <3>1. j \in Batch
      BY <1>2, <2>2 DEF Batch
    <3> QED
      BY <1>2, <3>1 DEF BatchIsCleared
  <2> QED
    BY <1>8, <2>1, <2>2
<1>10. DangerWasApproved'
  <2> SUFFICES ASSUME NEW s \in Started', CallOf(s).rule = "ask"
               PROVE  created \/ approved
    BY <1>1 DEF DangerWasApproved, CallOf
  <2>1. CASE s \in Started
    BY <2>1 DEF GateHolds, DangerWasApproved
  <2>2. CASE s = i
    BY <1>2, <2>2 DEF BatchIsCleared, ConfirmationIsEarned
  <2> QED
    BY <1>8, <2>1, <2>2
<1> QED
  BY <1>4, <1>5, <1>6, <1>7, <1>9, <1>10 DEF GateHolds

\* A call that finishes had started.
LEMMA FinishStep ==
    ASSUME GateInv, NEW i \in Ids, NEW fate \in {"done", "refused", "broken", "mute"},
           FinishTool(i, fate)
    PROVE  GateInv'
<1> USE DEF GateInv, Pre
<1>1. UNCHANGED <<created, calls, at, confirmed, verdict, approved>>
  BY DEF FinishTool, graphVars
<1>2. tool[i] = "running" /\ tool' = [tool EXCEPT ![i] = fate]
  BY DEF FinishTool
<1>3. CallsOK'
  BY <1>1, <1>2 DEF CallsOK, Fate
<1>4. \A s \in Ids : tool'[s] # "proposed" <=> tool[s] # "proposed"
  BY <1>2 DEF CallsOK
<1>5. 1..Len(calls) \subseteq Ids
  <2>1. MaxCalls \in Nat
    BY ToolAssumption
  <2> QED
    BY <2>1 DEF CallsOK, Ids
<1>6. Started' = Started
  BY <1>1, <1>4, <1>5 DEF Started
<1>7. StartedIsMade'
  BY <1>1, <1>4 DEF StartedIsMade
<1>8. RoundsGrow' /\ ConfirmationIsEarned' /\ Batch' = Batch
  BY <1>1 DEF RoundsGrow, ConfirmationIsEarned, Batch, LastRound
<1>9. BatchIsCleared'
  BY <1>1, <1>8 DEF BatchIsCleared, CallOf
<1>10. GateHolds'
  BY <1>1, <1>6 DEF GateHolds, DeniedNeverRuns, DangerWasApproved, CallOf
<1> QED
  BY <1>3, <1>7, <1>8, <1>9, <1>10

\* Each step of the specification, and the one that changes nothing.
LEMMA GateInvStep ==
    ASSUME GateInv, [Next]_vars
    PROVE  GateInv'
<1> USE DEF GateInv
<1>1. CASE Propose
  BY <1>1, ProposeStep
<1>2. CASE Answer
  BY <1>2, QuietStep DEF Answer, graphVars, ConfirmationIsEarned, BatchIsCleared
<1>3. CASE GateAllows
  <2>1. at' = "tools" /\ UNCHANGED <<calls, tool, created, confirmed, verdict, approved>>
    BY <1>3 DEF GateAllows, graphVars
  <2>2. Batch' = Batch
    BY <2>1 DEF Batch, LastRound
  <2>3. BatchIsCleared'
    BY <1>3, <2>1, <2>2, AllowedIsCleared DEF BatchIsCleared, GateAllows, CallOf
  <2>4. ConfirmationIsEarned'
    BY <2>1 DEF ConfirmationIsEarned
  <2> QED
    BY <2>1, <2>3, <2>4, QuietStep
<1>4. CASE GateDenies \/ GateBlocksRoute \/ GateAsks \/ GateRejected
  <2>1. /\ at' \in {"ending", "waiting"}
        /\ UNCHANGED <<calls, tool, created, confirmed, verdict, approved>>
    BY <1>4 DEF GateDenies, GateBlocksRoute, GateAsks, GateRejected, graphVars
  <2> QED
    BY <2>1, QuietStep DEF ConfirmationIsEarned, BatchIsCleared
<1>5. ASSUME NEW i \in Ids, StartTool(i)
      PROVE  GateInv'
  BY <1>5, StartStep
<1>6. ASSUME NEW i \in Ids, NEW fate \in {"done", "refused", "broken", "mute"},
             FinishTool(i, fate)
      PROVE  GateInv'
  BY <1>6, FinishStep
<1>7. CASE ToolsDone
  BY <1>7, QuietStep DEF ToolsDone, graphVars, ConfirmationIsEarned, BatchIsCleared
<1>8. CASE MapStart \/ MapEnd \/ StreamEnds \/ UNCHANGED vars
  <2>1. UNCHANGED <<calls, tool, created, confirmed, verdict, approved>>
    BY <1>8 DEF MapStart, MapEnd, StreamEnds, graphVars, vars
  <2>2. at' = at \/ at' = "done"
    BY <1>8 DEF MapStart, MapEnd, StreamEnds, vars
  <2>3. Batch' = Batch /\ \A j : CallOf(j)' = CallOf(j)
    BY <2>1 DEF Batch, LastRound, CallOf
  <2>4. BatchIsCleared'
    BY <2>1, <2>2, <2>3 DEF BatchIsCleared
  <2>5. ConfirmationIsEarned'
    BY <2>1 DEF ConfirmationIsEarned
  <2> QED
    BY <2>1, <2>4, <2>5, QuietStep
<1>9. CASE Approve \/ Reject
  <2>1. at' = "waiting" /\ UNCHANGED <<calls, tool, created, confirmed>>
    BY <1>9 DEF Approve, Reject
  <2>2. (approved => approved') /\ (verdict' = "approved" => approved')
    BY <1>9 DEF Approve, Reject
  <2> QED
    BY <2>1, <2>2, QuietStep DEF ConfirmationIsEarned, BatchIsCleared
<1>10. CASE Resume
  <2>1. at' = "gate" /\ UNCHANGED <<calls, tool, created, verdict, approved>>
    BY <1>10 DEF Resume
  <2>2. confirmed' = (verdict = "approved")
    BY <1>10 DEF Resume
  <2> QED
    BY <2>1, <2>2, QuietStep DEF ConfirmationIsEarned, BatchIsCleared
<1>11. CASE Crash
  <2>1. at' # "tools" /\ UNCHANGED <<calls, tool, created, confirmed, approved>>
    BY <1>11 DEF Crash
  <2>2. verdict' = "none"
    BY <1>11 DEF Crash
  <2> QED
    BY <2>1, <2>2, QuietStep DEF ConfirmationIsEarned, BatchIsCleared
<1>12. CASE Cancel
  BY <1>12, QuietStep DEF Cancel, graphVars, ConfirmationIsEarned, BatchIsCleared
<1> QED
  BY <1>1, <1>2, <1>3, <1>4, <1>5, <1>6, <1>7, <1>8, <1>9, <1>10, <1>11, <1>12
     DEF Next, Gate, Tools, Mapper

\* At the start nothing has been proposed.
LEMMA GateInvInit ==
    ASSUME Init
    PROVE  GateInv
<1>1. calls = <<>> /\ Len(calls) = 0 /\ 1..Len(calls) = {}
  BY DEF Init
<1>2. CallsOK
  <2>1. MaxCalls \in Nat
    BY ToolAssumption
  <2>2. tool \in [Ids -> Fate]
    BY DEF Init, Fate
  <2>3. calls \in Seq([call : Call, round : Nat])
    BY <1>1
  <2> QED
    BY <1>1, <2>1, <2>2, <2>3 DEF CallsOK
<1>3. RoundsGrow /\ BatchIsCleared /\ GateHolds
  BY <1>1 DEF Init, RoundsGrow, BatchIsCleared, GateHolds, DeniedNeverRuns,
              DangerWasApproved, Started
<1>4. StartedIsMade /\ ConfirmationIsEarned
  BY DEF Init, StartedIsMade, ConfirmationIsEarned
<1> QED
  BY <1>2, <1>3, <1>4 DEF GateInv, Pre

-----------------------------------------------------------------------------
\* No call of a batch with a denied or an off-route call ever runs, and a
\* dangerous call runs only under the confirmation of the request or of a stored
\* approval: safety_gate of agent/nodes.py with every interleaving of
\* rejections, resumptions, crashes and cancellations.
THEOREM GateHolding == Spec => []GateHolds
<1>1. Init => GateInv
  BY GateInvInit
<1>2. GateInv /\ [Next]_vars => GateInv'
  BY GateInvStep
<1>3. GateInv => GateHolds
  BY DEF GateInv
<1> QED
  BY <1>1, <1>2, <1>3, PTL DEF Spec

-----------------------------------------------------------------------------
\* A finite set of numbers in ascending order: all of it, each number once.
LEMMA AscendingOrders ==
    ASSUME NEW S, S \subseteq Int, IsFiniteSet(S)
    PROVE  /\ Cardinality(S) \in Nat
           /\ Ascending(S) \in [1..Cardinality(S) -> S]
           /\ \A i \in S : \E k \in 1..Cardinality(S) : Ascending(S)[k] = i
           /\ \A k, l \in 1..Cardinality(S) : k < l => Ascending(S)[k] < Ascending(S)[l]
<1> DEFINE n == Cardinality(S)
           UpTo(i) == {j \in S : j <= i}
           rank == [i \in S |-> Cardinality(UpTo(i))]
           s == Ascending(S)
<1>0. \A i \in S : i \in Int
  OBVIOUS
<1>1. n \in Nat
  BY FS_CardinalityType
<1>2. ASSUME NEW i \in S
      PROVE  /\ IsFiniteSet(UpTo(i))
             /\ rank[i] = Cardinality(UpTo(i))
             /\ rank[i] \in 1..n
  <2>1. UpTo(i) \subseteq S /\ i \in UpTo(i)
    OBVIOUS
  <2>2. IsFiniteSet(UpTo(i)) /\ Cardinality(UpTo(i)) <= n
    BY <2>1, FS_Subset
  <2>3. Cardinality(UpTo(i)) \in Nat /\ Cardinality(UpTo(i)) # 0
    BY <2>1, <2>2, FS_CardinalityType, FS_EmptySet
  <2> HIDE DEF UpTo
  <2> QED BY <1>1, <2>2, <2>3
<1>3. ASSUME NEW i \in S, NEW j \in S, i < j
      PROVE  rank[i] < rank[j]
  <2>1. UpTo(i) \subseteq UpTo(j) /\ j \in UpTo(j) /\ j \notin UpTo(i)
    <3>1. i \in Int /\ j \in Int /\ ~(j <= i) /\ j <= j
      BY <1>0, <1>3
    <3>2. \A h \in S : h <= i => h <= j
      BY <1>0, <1>3
    <3> QED BY <3>1, <3>2
  <2> HIDE DEF UpTo
  <2>2. Cardinality(UpTo(i)) <= Cardinality(UpTo(j))
        /\ Cardinality(UpTo(i)) # Cardinality(UpTo(j))
    BY <1>2, <2>1, FS_Subset
  <2>3. rank[i] \in Nat /\ rank[j] \in Nat
    BY <1>2
  <2> QED BY <1>2, <2>2, <2>3
<1> HIDE DEF UpTo
<1>4. rank \in [S -> 1..n]
  BY <1>2
<1>5. \A i, j \in S : rank[i] = rank[j] => i = j
  <2> SUFFICES ASSUME NEW i \in S, NEW j \in S, rank[i] = rank[j], i # j
               PROVE  FALSE
    OBVIOUS
  <2>1. i < j \/ j < i
    OBVIOUS
  <2>2. rank[i] \in 1..n /\ rank[j] \in 1..n
    BY <1>2
  <2> HIDE DEF rank
  <2> QED BY <1>3, <2>1, <2>2
<1>6. \A k \in 1..n : \E i \in S : rank[i] = k
  <2> HIDE DEF rank
  <2>1. rank \in Injection(S, 1..n)
    BY <1>4, <1>5 DEF Injection, IsInjective
  <2>2. IsFiniteSet(1..n) /\ Cardinality(1..n) = n
    BY <1>1, FS_Interval
  <2>3. rank \in Surjection(S, 1..n)
    BY <2>1, <2>2, FS_Injection
  <2> QED BY <2>3 DEF Surjection
<1>7. ASSUME NEW k \in 1..n
      PROVE  s[k] \in S /\ rank[s[k]] = k
  <2>1. s[k] = CHOOSE i \in S : Cardinality(UpTo(i)) = k
    BY DEF Ascending, UpTo
  <2>2. \E i \in S : Cardinality(UpTo(i)) = k
    BY <1>6
  <2> QED BY <2>1, <2>2
<1>8. s = [k \in 1..n |-> s[k]]
  <2>1. s = [k \in 1..n |-> CHOOSE i \in S : Cardinality(UpTo(i)) = k]
    BY DEF Ascending, UpTo
  <2> QED BY <2>1
<1> HIDE DEF rank, s
<1>9. ASSUME NEW k \in 1..n, NEW l \in 1..n, k < l
      PROVE  s[k] < s[l]
  <2>1. s[k] \in S /\ s[l] \in S /\ rank[s[k]] = k /\ rank[s[l]] = l
    BY <1>7
  <2>2. ~(s[l] < s[k])
    <3> SUFFICES ASSUME s[l] < s[k] PROVE FALSE
      OBVIOUS
    <3>1. rank[s[l]] < rank[s[k]]
      BY <1>3, <2>1
    <3> QED BY <1>9, <2>1, <3>1
  <2>3. s[k] \in Int /\ s[l] \in Int
    BY <1>0, <2>1
  <2>4. k # l
    BY <1>1, <1>9
  <2>5. s[k] # s[l]
    BY <2>1, <2>4
  <2> QED BY <2>2, <2>3, <2>5
<1>10. \A i \in S : \E k \in 1..n : s[k] = i
  BY <1>4, <1>5, <1>7
<1>11. s \in [1..n -> S]
  BY <1>7, <1>8
<1> QED BY <1>1, <1>9, <1>10, <1>11 DEF s

\* The same of call ids.
LEMMA CallIdsInOrder ==
    ASSUME NEW S, S \subseteq Ids
    PROVE  /\ IsFiniteSet(S)
           /\ Ascending(S) \in Seq(S)
           /\ Len(Ascending(S)) = Cardinality(S) /\ Cardinality(S) \in Nat
           /\ \A i \in S : \E k \in 1..Len(Ascending(S)) : Ascending(S)[k] = i
           /\ \A k \in 1..Len(Ascending(S)) : Ascending(S)[k] \in S
           /\ \A k, l \in 1..Len(Ascending(S)) : k < l => Ascending(S)[k] < Ascending(S)[l]
<1>1. MaxCalls \in Nat
  BY ToolAssumption
<1>2. S \subseteq Int /\ IsFiniteSet(S)
  <2>1. Ids \subseteq Int /\ IsFiniteSet(Ids)
    BY <1>1, FS_Interval DEF Ids
  <2> QED BY <2>1, FS_Subset
<1> DEFINE s == Ascending(S)
<1> HIDE DEF s
<1>3. /\ Cardinality(S) \in Nat
      /\ s \in [1..Cardinality(S) -> S]
      /\ \A i \in S : \E k \in 1..Cardinality(S) : s[k] = i
      /\ \A k, l \in 1..Cardinality(S) : k < l => s[k] < s[l]
  BY <1>2, AscendingOrders DEF s
<1>4. s \in Seq(S) /\ Len(s) = Cardinality(S)
  BY <1>3
<1>5. \A k \in 1..Len(s) : s[k] \in S
  BY <1>3, <1>4
<1> QED BY <1>2, <1>3, <1>4, <1>5, Zenon DEF s

\* Calls, events and the tracker speak of calls that were made, and the rounds
\* are no more than the calls.
TypeInv ==
    /\ TypeOK
    /\ tracker \in [meta : [Ids -> 0..MaxCalls], ended : SUBSET Ids]
    /\ \A i \in 1..Len(calls) : calls[i].round <= i
    /\ asked \subseteq 1..Len(calls)
    /\ \A k \in 1..Len(queue) : queue[k].call \in 1..Len(calls)
    /\ \A c \in Ids : tracker.meta[c] <= Len(calls)

LEMMA MadeCalls ==
    ASSUME TypeInv
    PROVE  /\ MaxCalls \in Nat /\ Len(calls) \in 0..MaxCalls
           /\ 1..Len(calls) \subseteq Ids /\ Batch \subseteq Ids /\ asked \subseteq Ids
           /\ \A i \in 1..Len(calls) :
                 calls[i] \in [call : Call, round : Ids] /\ CallOf(i) \in Call
           /\ LastRound \in 0..Len(calls)
<1>1. /\ MaxCalls \in Nat /\ calls \in Seq([call : Call, round : Ids])
      /\ Len(calls) <= MaxCalls
  BY ToolAssumption DEF TypeInv, TypeOK
<1>2. Len(calls) \in Nat /\ \A i \in 1..Len(calls) : calls[i] \in [call : Call, round : Ids]
  <2> DEFINE Made == [call : Call, round : Ids]
  <2>1. calls \in Seq(Made)
    BY <1>1
  <2> HIDE DEF Made
  <2>2. Len(calls) \in Nat /\ \A i \in 1..Len(calls) : calls[i] \in Made
    BY <2>1
  <2> QED BY <2>2 DEF Made
<1>3. 1..Len(calls) \subseteq Ids
  BY <1>1, <1>2 DEF Ids
<1>4. LastRound \in 0..Len(calls)
  <2>1. CASE calls = <<>>
    BY <1>2, <2>1 DEF LastRound
  <2>2. CASE calls # <<>>
    <3>1. Len(calls) \in 1..Len(calls)
      BY <1>1, <2>2
    <3>2. calls[Len(calls)].round \in Ids /\ calls[Len(calls)].round <= Len(calls)
      BY <1>2, <3>1 DEF TypeInv
    <3> QED BY <1>1, <1>2, <2>2, <3>2 DEF LastRound, Ids
  <2> QED BY <2>1, <2>2
<1>5. \A i \in 1..Len(calls) : CallOf(i) \in Call
  BY <1>2 DEF CallOf
<1>6. Batch \subseteq Ids /\ asked \subseteq Ids
  BY <1>3 DEF Batch, TypeInv
<1> QED BY <1>1, <1>2, <1>3, <1>4, <1>5, <1>6

LEMMA GreatestExists ==
    ASSUME NEW S, S \subseteq Ids, S # {}
    PROVE  \E m \in S : \A j \in S : j <= m
<1> DEFINE s == Ascending(S)
           n == Len(s)
<1>1. /\ Len(s) \in Nat
      /\ \A i \in S : \E k \in 1..Len(s) : s[k] = i
      /\ \A k \in 1..Len(s) : s[k] \in S
      /\ \A k, l \in 1..Len(s) : k < l => s[k] < s[l]
  BY CallIdsInOrder
<1> HIDE DEF s
<1>2. n \in 1..n
  BY <1>1
<1>3. \A i \in S : i \in Int
  BY ToolAssumption DEF Ids
<1>4. ASSUME NEW j \in S PROVE j <= s[n]
  <2>1. PICK k \in 1..n : s[k] = j
    BY <1>1
  <2>2. k = n \/ s[k] < s[n]
    BY <1>1, <1>2
  <2> QED BY <1>1, <1>2, <1>3, <2>1, <2>2
<1> QED BY <1>1, <1>2, <1>4

LEMMA LeastExists ==
    ASSUME NEW S, S \subseteq Ids, S # {}
    PROVE  \E m \in S : \A j \in S : m <= j
<1> DEFINE s == Ascending(S)
           n == Len(s)
<1>1. /\ Len(s) \in Nat
      /\ \A i \in S : \E k \in 1..Len(s) : s[k] = i
      /\ \A k \in 1..Len(s) : s[k] \in S
      /\ \A k, l \in 1..Len(s) : k < l => s[k] < s[l]
  BY CallIdsInOrder
<1> HIDE DEF s
<1>2. 1 \in 1..n
  BY <1>1
<1>3. \A i \in S : i \in Int
  BY ToolAssumption DEF Ids
<1>4. ASSUME NEW j \in S PROVE s[1] <= j
  <2>1. PICK k \in 1..n : s[k] = j
    BY <1>1
  <2>2. k = 1 \/ s[1] < s[k]
    BY <1>1, <1>2
  <2> QED BY <1>1, <1>2, <1>3, <2>1, <2>2
<1> QED BY <1>1, <1>2, <1>4

LEMMA PendingIsAsked ==
    ASSUME TypeInv, NEW name
    PROVE  Pending(name) \in asked \cup {0} /\ Pending(name) \in 0..MaxCalls
<1> DEFINE same == {i \in asked : CallOf(i).tool = name}
<1>1. asked \subseteq Ids /\ MaxCalls \in Nat
  BY MadeCalls
<1>2. CASE same = {}
  BY <1>1, <1>2 DEF Pending
<1>3. CASE same # {}
  <2>1. \E m \in same : \A j \in same : j <= m
    BY <1>1, <1>3, GreatestExists
  <2>2. Pending(name) \in same
    BY <1>3, <2>1 DEF Pending
  <2>3. same \subseteq asked /\ asked \subseteq 0..MaxCalls
    BY <1>1 DEF Ids
  <2> HIDE DEF same
  <2> QED BY <2>2, <2>3
<1> QED BY <1>2, <1>3

LEMMA ResolvedIsId ==
    ASSUME TypeInv, NEW i \in 1..Len(calls)
    PROVE  ResolveId(i) \in 0..MaxCalls
<1> DEFINE name == CallOf(i).tool
           same == {c \in Ids : IsOpen(c) /\ CallOf(tracker.meta[c]).tool = name
                                          /\ c \notin tracker.ended}
           open == {c \in Ids : IsOpen(c)}
           rest == IF same # {} THEN CHOOSE c \in same : TRUE
                   ELSE IF Cardinality(open) = 1 THEN CHOOSE c \in open : TRUE
                   ELSE Extracted(i)
<1>1. i \in Ids /\ MaxCalls \in Nat
  BY MadeCalls
<1>2. Extracted(i) \in 0..MaxCalls /\ Pending(name) \in 0..MaxCalls
  BY <1>1, PendingIsAsked DEF Extracted, Ids
<1>3. rest \in 0..MaxCalls
  <2>1. CASE same # {}
    <3>1. (CHOOSE c \in same : TRUE) \in same
      BY <2>1
    <3> QED BY <2>1, <3>1, <1>1 DEF Ids
  <2>2. CASE same = {} /\ Cardinality(open) = 1
    <3>1. open # {}
      BY <2>2, FS_EmptySet
    <3>2. (CHOOSE c \in open : TRUE) \in open
      BY <3>1
    <3>3. open \subseteq 0..MaxCalls
      BY <1>1 DEF Ids
    <3> QED BY <2>2, <3>2, <3>3
  <2>3. CASE same = {} /\ Cardinality(open) # 1
    BY <1>2, <2>3
  <2> QED BY <2>1, <2>2, <2>3
<1>4. ResolveId(i) \in {Extracted(i), Pending(name), rest}
  <2>1. ResolveId(i) = CASE IsOpen(Extracted(i)) -> Extracted(i)
         [] ~IsOpen(Extracted(i)) /\ IsOpen(Pending(name)) -> Pending(name)
         [] OTHER -> rest
    BY DEF ResolveId
  <2> HIDE DEF rest, name
  <2> QED BY <2>1
<1> QED BY <1>2, <1>3, <1>4

\* What the control of the run and the engine change.
LEMMA ControlTypes ==
    ASSUME TypeInv, UNCHANGED <<library, created, calls, tool, starts, ends, named>>,
           at' \in {"assistant", "gate", "waiting", "tools", "ending", "done", "dead"},
           verdict' \in {"none", "approved", "rejected"},
           confirmed' \in BOOLEAN, approved' \in BOOLEAN,
           asked' \subseteq asked \cup Batch,
           queue' \in {queue, <<>>}, tracker' \in {tracker, FreshTracker},
           ledger' \in Seq(Record), restarts' \in 0..MaxRestarts, forgotten' \subseteq Ids
    PROVE  TypeInv'
<1>1. tracker' \in [meta : [Ids -> 0..MaxCalls], ended : SUBSET Ids]
      /\ \A c \in Ids : tracker'.meta[c] <= Len(calls)
  BY MadeCalls DEF TypeInv, FreshTracker
<1>2. /\ queue' \in Seq([kind : {"start", "end"}, call : Ids])
      /\ \A k \in 1..Len(queue') : queue'[k].call \in 1..Len(calls)
  <2>1. CASE queue' = queue
    BY <2>1 DEF TypeInv, TypeOK
  <2>2. CASE queue' = <<>>
    BY <2>2
  <2> QED BY <2>1, <2>2
<1>3. asked' \subseteq 1..Len(calls) /\ asked' \subseteq Ids
  BY MadeCalls DEF TypeInv, Batch
<1> QED BY <1>1, <1>2, <1>3 DEF TypeInv, TypeOK

LEMMA BlockTypes ==
    ASSUME TypeInv, NEW is, is \subseteq Ids, Block(is)
    PROVE  /\ ledger' \in Seq(Record)
           /\ Len(ledger) \in Nat /\ Len(ledger) <= Len(ledger')
           /\ \A k \in 1..Len(ledger) : ledger'[k] = ledger[k]
           /\ \A k \in 1..Len(ledger') : k > Len(ledger) =>
                 ledger'[k].status = "blocked" /\ ledger'[k].id \in is
<1> DEFINE known == {ledger[k].id : k \in 1..Len(ledger)}
           S == {i \in is : IsPost(i) /\ i \notin known}
           b == Blocked(is)
           new == [k \in 1..Len(b) |-> [id |-> b[k], status |-> "blocked"]]
<1>1. b = Ascending(S)
  BY DEF Blocked
<1>2. S \subseteq Ids /\ S \subseteq is
  OBVIOUS
<1> HIDE DEF b, S
<1>3. Len(b) \in Nat /\ \A k \in 1..Len(b) : b[k] \in S
  BY <1>1, <1>2, CallIdsInOrder
<1>4. Ids \subseteq 0..MaxCalls
  BY ToolAssumption DEF Ids
<1>5. /\ new \in Seq(Record) /\ Len(new) = Len(b)
      /\ \A k \in 1..Len(new) : new[k].status = "blocked" /\ new[k].id \in is
  <2>1. \A k \in 1..Len(b) : [id |-> b[k], status |-> "blocked"] \in Record /\ b[k] \in is
    BY <1>2, <1>3, <1>4 DEF Record
  <2> QED BY <1>3, <2>1
<1>6. ledger' = ledger \o new /\ ledger \in Seq(Record)
  BY DEF Block, TypeInv, TypeOK, b
<1> HIDE DEF new
<1> QED BY <1>5, <1>6, Joined

LEMMA ProposeTypes ==
    ASSUME TypeInv, Propose
    PROVE  TypeInv'
<1>1. PICK batch \in Call \X Call \cup {<<c>> : c \in Call} :
        /\ Len(calls) + Len(batch) <= MaxCalls
        /\ calls' = calls \o [k \in 1..Len(batch) |->
                                [call |-> batch[k], round |-> LastRound + 1]]
  BY DEF Propose
<1> DEFINE n == Len(calls)
           Made == [call : Call, round : Ids]
           new == [k \in 1..Len(batch) |-> [call |-> batch[k], round |-> LastRound + 1]]
<1>2. batch \in Seq(Call) /\ Len(batch) \in 1..2
  BY BatchIsShort
<1>3. /\ MaxCalls \in Nat /\ n \in Nat /\ LastRound \in 0..n /\ LastRound + 1 \in Ids
  <2>1. MaxCalls \in Nat /\ n \in Nat /\ LastRound \in 0..n
    BY MadeCalls
  <2>2. n + Len(batch) <= MaxCalls /\ Len(batch) \in {1, 2}
    BY <1>1, <1>2
  <2>3. LastRound + 1 \in 1..MaxCalls
    <3> HIDE DEF n
    <3> QED BY <2>1, <2>2
  <2> QED BY <2>1, <2>3 DEF Ids
<1>4. new \in Seq(Made) /\ Len(new) = Len(batch)
      /\ \A k \in 1..Len(batch) : new[k].round = LastRound + 1
  BY <1>2, <1>3
<1>5. calls \in Seq(Made) /\ calls' = calls \o new
  BY <1>1 DEF TypeInv, TypeOK
<1>6. \A i \in 1..n : calls[i].round <= i
  BY DEF TypeInv
<1> HIDE DEF new, Made
<1>7. /\ calls' \in Seq(Made) /\ Len(calls') = n + Len(batch)
      /\ \A i \in 1..n : calls'[i] = calls[i]
      /\ \A i \in 1..Len(calls') : i > n =>
            i - n \in 1..Len(batch) /\ calls'[i] = new[i - n]
  <2>1. /\ calls \o new \in Seq(Made)
        /\ Len(calls) \in Nat /\ Len(calls \o new) = Len(calls) + Len(new)
        /\ \A i \in 1..Len(calls) : (calls \o new)[i] = calls[i]
        /\ \A i \in 1..Len(calls \o new) : i > Len(calls) =>
              i - Len(calls) \in 1..Len(new) /\ (calls \o new)[i] = new[i - Len(calls)]
    BY <1>4, <1>5, Joined
  <2> QED BY <1>4, <1>5, <2>1, Zenon
<1>8. \A i \in 1..Len(calls') : calls'[i].round <= i
  <2> SUFFICES ASSUME NEW i \in 1..Len(calls') PROVE calls'[i].round <= i
    OBVIOUS
  <2>1. CASE i <= n
    <3>1. i \in 1..n
      BY <1>3, <2>1
    <3> QED BY <1>6, <1>7, <3>1
  <2>2. CASE i > n
    <3>1. calls'[i].round = LastRound + 1
      BY <1>4, <1>7, <2>2
    <3> QED BY <1>2, <1>3, <1>7, <2>2, <3>1
  <2> QED BY <1>2, <1>3, <1>7, <2>1, <2>2
<1>9. Len(calls') <= MaxCalls /\ 1..n \subseteq 1..Len(calls') /\ n <= Len(calls')
  BY <1>1, <1>2, <1>3, <1>7
<1>10. UNCHANGED <<library, created, confirmed, asked, verdict, approved, tool, queue,
                   tracker, starts, ends, ledger, named, restarts, forgotten>>
       /\ at' = "gate"
  BY DEF Propose
<1>11. TypeOK'
  BY <1>7, <1>9, <1>10 DEF TypeInv, TypeOK, Made
<1>12. /\ asked \subseteq 1..n /\ \A k \in 1..Len(queue) : queue[k].call \in 1..n
       /\ tracker \in [meta : [Ids -> 0..MaxCalls], ended : SUBSET Ids]
       /\ \A c \in Ids : tracker.meta[c] <= n
  BY DEF TypeInv
<1>13. \A c \in Ids : tracker.meta[c] <= Len(calls')
  <2>1. \A c \in Ids : tracker.meta[c] \in 0..MaxCalls
    BY <1>12
  <2> HIDE DEF n
  <2> QED BY <1>2, <1>3, <1>7, <1>12, <2>1
<1> QED BY <1>8, <1>9, <1>10, <1>11, <1>12, <1>13 DEF TypeInv

LEMMA ToolTypes ==
    ASSUME TypeInv, NEW i \in Ids,
           \/ StartTool(i)
           \/ \E fate \in {"done", "refused", "broken", "mute"} : FinishTool(i, fate)
    PROVE  TypeInv'
<1>1. /\ UNCHANGED <<library, created, calls, at, confirmed, asked, verdict, approved,
                     tracker, starts, ends, ledger, named, restarts, forgotten>>
      /\ i \in Batch
  BY DEF StartTool, FinishTool, graphVars, storeVars
<1>2. PICK fate \in Fate : tool' = [tool EXCEPT ![i] = fate]
  BY DEF StartTool, FinishTool, Fate
<1>3. tool' \in [Ids -> Fate]
  BY <1>2 DEF TypeInv, TypeOK
<1> DEFINE Event == [kind : {"start", "end"}, call : Ids]
           s == [kind |-> "start", call |-> i]
           e == [kind |-> "end", call |-> i]
<1>4. s \in Event /\ e \in Event /\ queue \in Seq(Event)
      /\ s.call = i /\ e.call = i
  BY DEF TypeInv, TypeOK
<1>5. queue' \in {queue, Append(queue, e), Append(queue, s), Append(Append(queue, s), e)}
  <2>1. CASE StartTool(i)
    <3>1. queue' = queue \o <<s>> \o <<e>> \/ queue' = queue \o <<s>> \o <<>>
      BY <2>1 DEF StartTool
    <3> HIDE DEF Event, s, e
    <3>2. queue \o <<s>> = Append(queue, s)
      BY <1>4
    <3>3. Append(queue, s) \in Seq(Event)
      BY <1>4
    <3>4. Append(queue, s) \o <<e>> = Append(Append(queue, s), e)
      BY <1>4, <3>3
    <3>5. Append(queue, s) \o <<>> = Append(queue, s)
      BY <3>3
    <3> QED BY <3>1, <3>2, <3>4, <3>5
  <2>2. CASE \E f \in {"done", "refused", "broken", "mute"} : FinishTool(i, f)
    BY <2>2 DEF FinishTool
  <2> QED BY <2>1, <2>2
<1> HIDE DEF Event, s, e
<1>6. ASSUME NEW q \in Seq(Event), NEW x \in Event, x.call = i,
             \A k \in 1..Len(q) : q[k].call \in 1..Len(calls)
      PROVE  /\ Append(q, x) \in Seq(Event)
             /\ \A k \in 1..Len(Append(q, x)) : Append(q, x)[k].call \in 1..Len(calls)
  <2>1. /\ Append(q, x) \in Seq(Event) /\ Len(Append(q, x)) = Len(q) + 1
        /\ Append(q, x)[Len(q) + 1] = x
        /\ \A k \in 1..Len(q) : Append(q, x)[k] = q[k]
    OBVIOUS
  <2>2. i \in 1..Len(calls)
    BY <1>1 DEF Batch
  <2> QED BY <1>6, <2>1, <2>2
<1>7. /\ queue' \in Seq(Event)
      /\ \A k \in 1..Len(queue') : queue'[k].call \in 1..Len(calls)
  <2>1. \A k \in 1..Len(queue) : queue[k].call \in 1..Len(calls)
    BY DEF TypeInv
  <2>2. /\ Append(queue, s) \in Seq(Event)
        /\ \A k \in 1..Len(Append(queue, s)) : Append(queue, s)[k].call \in 1..Len(calls)
    BY <1>4, <1>6, <2>1
  <2>3. /\ Append(queue, e) \in Seq(Event)
        /\ \A k \in 1..Len(Append(queue, e)) : Append(queue, e)[k].call \in 1..Len(calls)
    BY <1>4, <1>6, <2>1
  <2>4. LET q == Append(queue, s)
        IN  /\ Append(q, e) \in Seq(Event)
            /\ \A k \in 1..Len(Append(q, e)) : Append(q, e)[k].call \in 1..Len(calls)
    BY <1>4, <1>6, <2>2
  <2> QED BY <1>4, <1>5, <2>1, <2>2, <2>3, <2>4
<1> QED BY <1>1, <1>3, <1>7 DEF TypeInv, TypeOK, Event

\* The mapper reads an event of a call that was made.
LEMMA ReadEvent ==
    ASSUME TypeInv, queue # <<>>
    PROVE  /\ Head(queue).call \in 1..Len(calls) /\ Head(queue).call \in Ids
           /\ Tail(queue) \in Seq([kind : {"start", "end"}, call : Ids])
           /\ \A k \in 1..Len(Tail(queue)) : Tail(queue)[k].call \in 1..Len(calls)
<1> DEFINE Event == [kind : {"start", "end"}, call : Ids]
<1>1. queue \in Seq(Event)
  BY DEF TypeInv, TypeOK
<1> HIDE DEF Event
<1>2. /\ Tail(queue) \in Seq(Event) /\ 1 \in 1..Len(queue) /\ Head(queue) = queue[1]
      /\ \A k \in 1..Len(Tail(queue)) : k + 1 \in 1..Len(queue) /\ Tail(queue)[k] = queue[k + 1]
  BY <1>1
<1>3. \A k \in 1..Len(queue) : queue[k].call \in 1..Len(calls)
  BY DEF TypeInv
<1>4. 1..Len(calls) \subseteq Ids
  BY MadeCalls
<1> QED BY <1>2, <1>3, <1>4 DEF Event

LEMMA MapStartTypes ==
    ASSUME TypeInv, MapStart
    PROVE  TypeInv'
<1> DEFINE i == Head(queue).call
           p == Pending(CallOf(i).tool)
           id == IF p # 0 THEN p ELSE Extracted(i)
<1>1. i \in 1..Len(calls) /\ i \in Ids /\ id \in 0..MaxCalls
  <2>1. i \in 1..Len(calls) /\ i \in Ids /\ Ids \subseteq 0..MaxCalls /\ 0 \in 0..MaxCalls
    BY ReadEvent, MadeCalls DEF MapStart, Ids
  <2> QED BY <2>1, PendingIsAsked DEF Extracted
<1>2. /\ starts' = Append(starts, id)
      /\ named' = [named EXCEPT ![i] = id]
      /\ tracker' = IF id = 0 THEN tracker ELSE [tracker EXCEPT !.meta[id] = i]
      /\ queue' = Tail(queue)
      /\ UNCHANGED <<library, created, calls, confirmed, asked, verdict, approved,
                     restarts, forgotten, at, tool, ends, ledger>>
  BY DEF MapStart, graphVars
<1> HIDE DEF i, id
<1>3. id # 0 => id \in Ids
  BY <1>1 DEF Ids
<1>4. MaxCalls \in Nat /\ Len(calls) \in 0..MaxCalls
  BY MadeCalls
<1>5. tracker' \in [meta : [Ids -> 0..MaxCalls], ended : SUBSET Ids]
  <2>1. i \in 0..MaxCalls
    BY <1>1, <1>4
  <2> QED BY <1>2, <1>3, <2>1 DEF TypeInv
<1>6. \A c \in Ids : tracker'.meta[c] <= Len(calls)
  <2>1. \A c \in Ids : tracker'.meta[c] \in {tracker.meta[c], i}
    BY <1>2, <1>3 DEF TypeInv
  <2>2. \A c \in Ids : tracker.meta[c] <= Len(calls)
    BY DEF TypeInv
  <2> QED BY <1>1, <1>4, <2>1, <2>2
<1>7. starts' \in Seq(0..MaxCalls) /\ named' \in [Ids -> 0..NotNamed]
  <2>1. starts \in Seq(0..MaxCalls) /\ named \in [Ids -> 0..NotNamed]
    BY DEF TypeInv, TypeOK
  <2>2. starts' \in Seq(0..MaxCalls)
    <3> DEFINE T == 0..MaxCalls
    <3>1. starts \in Seq(T) /\ id \in T
      BY <1>1, <2>1
    <3> HIDE DEF T
    <3>2. starts' \in Seq(T)
      BY <1>2, <3>1
    <3> QED BY <3>2 DEF T
  <2>3. id \in 0..NotNamed
    BY <1>1, <1>4 DEF NotNamed
  <2> QED BY <1>1, <1>2, <2>1, <2>2, <2>3
<1>8. /\ queue' \in Seq([kind : {"start", "end"}, call : Ids])
      /\ \A k \in 1..Len(queue') : queue'[k].call \in 1..Len(calls)
  BY <1>2, ReadEvent DEF MapStart
<1> QED BY <1>2, <1>5, <1>6, <1>7, <1>8 DEF TypeInv, TypeOK

\* No tool names the field of its key, so that no end is stored with one.
LEMMA NoKeyUnder ==
    ASSUME NEW id
    PROVE  KeyUnder(id) = NoKey
  BY DEF KeyUnder, KeyFor, KeyFields

LEMMA MapEndTypes ==
    ASSUME TypeInv, MapEnd
    PROVE  TypeInv'
<1> DEFINE i == Head(queue).call
           id == ResolveId(i)
           end == [id |-> id, success |-> Success(i),
                   key |-> IF IsPost(i) THEN KeyUnder(id) ELSE NoKey]
           record == [id |-> id, status |-> Status(i)]
<1>1. i \in 1..Len(calls) /\ i \in Ids /\ id \in 0..MaxCalls
  BY ReadEvent, ResolvedIsId DEF MapEnd
<1>2. /\ queue' = Tail(queue)
      /\ UNCHANGED <<library, created, calls, confirmed, asked, verdict, approved,
                     restarts, forgotten, at, tool, starts, named>>
      /\ \/ UNCHANGED <<tracker, ends, ledger>>
         \/ /\ tracker' = IF id = 0 THEN tracker
                          ELSE [meta |-> [tracker.meta EXCEPT ![id] = 0],
                                ended |-> tracker.ended \cup {id}]
            /\ ends' = StoredEnd(end)
            /\ ledger' \in {Append(ledger, record), ledger}
  BY DEF MapEnd, graphVars
<1>3. end \in End
  <2>1. Success(i) \in BOOLEAN
    BY DEF Success
  <2> QED BY <1>1, <2>1, NoKeyUnder DEF End
<1>4. record \in Record
  <2>1. Status(i) \in {"blocked", "confirmed", "unknown", "none"}
    BY DEF Status
  <2> QED BY <1>1, <2>1 DEF Record
<1> HIDE DEF i, id, end, record
<1>5. id # 0 => id \in Ids
  BY <1>1 DEF Ids
<1>6. MaxCalls \in Nat /\ Len(calls) \in 0..MaxCalls
  BY MadeCalls
<1>7. /\ tracker' \in [meta : [Ids -> 0..MaxCalls], ended : SUBSET Ids]
      /\ \A c \in Ids : tracker'.meta[c] \in {tracker.meta[c], 0}
  BY <1>2, <1>5, <1>6 DEF TypeInv
<1>8. \A c \in Ids : tracker'.meta[c] <= Len(calls)
  <2>1. \A c \in Ids : tracker.meta[c] <= Len(calls)
    BY DEF TypeInv
  <2> QED BY <1>6, <1>7, <2>1
<1>9. ends' \in Seq(End) /\ ledger' \in Seq(Record)
  <2>1. ends \in Seq(End) /\ ledger \in Seq(Record)
    BY DEF TypeInv, TypeOK
  <2>2. ends' \in {ends, Append(ends, end)} /\ ledger' \in {ledger, Append(ledger, record)}
    BY <1>2 DEF StoredEnd
  <2>3. Append(ends, end) \in Seq(End) /\ Append(ledger, record) \in Seq(Record)
    BY <1>3, <1>4, <2>1
  <2> QED BY <2>1, <2>2, <2>3
<1>10. /\ queue' \in Seq([kind : {"start", "end"}, call : Ids])
       /\ \A k \in 1..Len(queue') : queue'[k].call \in 1..Len(calls)
  BY <1>2, ReadEvent DEF MapEnd
<1> QED BY <1>2, <1>7, <1>8, <1>9, <1>10 DEF TypeInv, TypeOK

\* What the end of the stream adds is failed, and is recorded as unknown.
LEMMA StreamEndsForm ==
    ASSUME TypeInv, StreamEnds
    PROVE  /\ Missing \subseteq Ids
           /\ \E more \in Seq(End) :
                 /\ ends' = ends \o more
                 /\ Len(more) = Len(Ascending(Missing))
                 /\ \A k \in 1..Len(more) : /\ more[k].id = Ascending(Missing)[k]
                                            /\ ~more[k].success /\ more[k].key = NoKey
           /\ \E more \in Seq(Record) :
                 LET writes == {id \in Missing : IsOpen(id) /\ IsPost(tracker.meta[id])}
                 IN /\ ledger' = ledger \o more
                    /\ Len(more) = Len(Ascending(writes))
                    /\ \A k \in 1..Len(more) : /\ more[k].id = Ascending(writes)[k]
                                               /\ more[k].status = "unknown"
<1>1. Missing \subseteq Ids
  <2>2. \A k \in 1..Len(starts) : starts[k] \in 0..MaxCalls
    <3> DEFINE T == 0..MaxCalls
    <3>1. starts \in Seq(T)
      BY DEF TypeInv, TypeOK
    <3> HIDE DEF T
    <3>2. \A k \in 1..Len(starts) : starts[k] \in T
      BY <3>1
    <3> QED BY <3>2 DEF T
  <2>3. \A id \in Missing : \E k \in 1..Len(starts) : id = starts[k] /\ id # 0
    BY DEF Missing
  <2>4. \A id \in 0..MaxCalls : id # 0 => id \in Ids
    BY ToolAssumption DEF Ids
  <2> QED BY <2>2, <2>3, <2>4
<1>2. Ids \subseteq 0..MaxCalls
  BY ToolAssumption DEF Ids
<1> DEFINE m == Ascending(Missing)
           W == {id \in Missing : IsOpen(id) /\ IsPost(tracker.meta[id])}
           w == Ascending(W)
           moreEnds == [k \in 1..Len(m) |->
                           [id |-> m[k], key |-> KeyUnder(m[k]), success |-> FALSE]]
           moreRecords == [k \in 1..Len(w) |-> [id |-> w[k], status |-> "unknown"]]
<1>3. ends' = ends \o moreEnds /\ ledger' = ledger \o moreRecords
  BY DEF StreamEnds
<1>4. W \subseteq Ids
  BY <1>1
<1>5. Len(m) \in Nat /\ \A k \in 1..Len(m) : m[k] \in 0..MaxCalls
  <2>1. Len(m) \in Nat /\ \A k \in 1..Len(m) : m[k] \in Missing
    BY <1>1, CallIdsInOrder
  <2> HIDE DEF m
  <2> QED BY <1>1, <1>2, <2>1
<1>6. Len(w) \in Nat /\ \A k \in 1..Len(w) : w[k] \in 0..MaxCalls
  <2> HIDE DEF W
  <2>1. Len(w) \in Nat /\ \A k \in 1..Len(w) : w[k] \in W
    BY <1>4, CallIdsInOrder
  <2> HIDE DEF w
  <2> QED BY <1>2, <1>4, <2>1
<1>7. /\ moreEnds \in Seq(End) /\ Len(moreEnds) = Len(m)
      /\ \A k \in 1..Len(moreEnds) : /\ moreEnds[k].id = m[k] /\ ~moreEnds[k].success
                                     /\ moreEnds[k].key = NoKey
  <2> HIDE DEF m
  <2>1. \A k \in 1..Len(m) :
            [id |-> m[k], key |-> KeyUnder(m[k]), success |-> FALSE] \in End
    BY <1>5, NoKeyUnder DEF End
  <2>2. \A k \in 1..Len(m) : KeyUnder(m[k]) = NoKey
    BY NoKeyUnder
  <2> QED BY <1>5, <2>1, <2>2
<1>8. /\ moreRecords \in Seq(Record) /\ Len(moreRecords) = Len(w)
      /\ \A k \in 1..Len(moreRecords) : /\ moreRecords[k].id = w[k]
                                        /\ moreRecords[k].status = "unknown"
  <2> HIDE DEF w
  <2>1. \A k \in 1..Len(w) : [id |-> w[k], status |-> "unknown"] \in Record
    BY <1>6 DEF Record
  <2> QED BY <1>6, <2>1
<1> HIDE DEF moreEnds, moreRecords
<1> QED BY <1>1, <1>3, <1>7, <1>8

LEMMA StreamEndsTypes ==
    ASSUME TypeInv, StreamEnds
    PROVE  TypeInv'
<1>1. ends' \in Seq(End) /\ ledger' \in Seq(Record)
  <2>1. ends \in Seq(End) /\ ledger \in Seq(Record)
    BY DEF TypeInv, TypeOK
  <2>2. PICK more \in Seq(End) : ends' = ends \o more
    BY StreamEndsForm
  <2>3. PICK records \in Seq(Record) : ledger' = ledger \o records
    BY StreamEndsForm
  <2> QED BY <2>1, <2>2, <2>3
<1>2. /\ UNCHANGED <<library, created, calls, confirmed, asked, verdict, approved,
                     restarts, forgotten, tool, queue, tracker, starts, named>>
      /\ at' = "done"
  BY DEF StreamEnds, graphVars
<1> QED BY <1>1, <1>2 DEF TypeInv, TypeOK

LEMMA StepTypes ==
    ASSUME TypeInv, [Next]_vars
    PROVE  TypeInv'
<1>1. CASE Propose
  BY <1>1, ProposeTypes
<1>2. CASE \E i \in Ids : \/ StartTool(i)
                          \/ \E fate \in {"done", "refused", "broken", "mute"} : FinishTool(i, fate)
  BY <1>2, ToolTypes
<1>3. CASE MapStart
  BY <1>3, MapStartTypes
<1>4. CASE MapEnd
  BY <1>4, MapEndTypes
<1>5. CASE StreamEnds
  BY <1>5, StreamEndsTypes
<1>6. /\ at \in {"assistant", "gate", "waiting", "tools", "ending", "done", "dead"}
      /\ verdict \in {"none", "approved", "rejected"}
      /\ confirmed \in BOOLEAN /\ approved \in BOOLEAN
      /\ ledger \in Seq(Record) /\ restarts \in 0..MaxRestarts /\ forgotten \subseteq Ids
      /\ MaxRestarts \in Nat
  BY ToolAssumption DEF TypeInv, TypeOK
<1>7. Batch \subseteq Ids /\ OffRoute \subseteq Ids /\ asked \subseteq Ids
  BY MadeCalls DEF OffRoute
<1>8. CASE Answer \/ GateRejected \/ GateAllows \/ ToolsDone \/ Cancel
  BY <1>6, <1>8, ControlTypes
     DEF Answer, GateRejected, GateAllows, ToolsDone, Cancel, graphVars, storeVars
<1>9. CASE GateDenies
  <2>1. ledger' \in Seq(Record)
    BY <1>7, <1>9, BlockTypes DEF GateDenies
  <2> QED BY <1>6, <1>9, <2>1, ControlTypes DEF GateDenies, Block, graphVars
<1>10. CASE GateBlocksRoute
  <2>1. ledger' \in Seq(Record)
    BY <1>7, <1>10, BlockTypes DEF GateBlocksRoute
  <2> QED BY <1>6, <1>10, <2>1, ControlTypes DEF GateBlocksRoute, Block, graphVars
<1>11. CASE GateAsks
  BY <1>6, <1>11, ControlTypes DEF GateAsks, storeVars
<1>12. CASE Approve
  BY <1>6, <1>12, ControlTypes DEF Approve, storeVars
<1>13. CASE Reject
  <2>1. ledger' \in Seq(Record)
    BY <1>7, <1>13, BlockTypes DEF Reject
  <2> QED BY <1>6, <1>13, <2>1, ControlTypes DEF Reject, Block
<1>14. CASE Resume
  BY <1>6, <1>14, ControlTypes DEF Resume, storeVars
<1>15. CASE Crash
  <2>1. restarts' \in 0..MaxRestarts /\ forgotten' \subseteq Ids
        /\ at' \in {"waiting", "dead"} /\ verdict' = "none" /\ queue' = <<>>
        /\ UNCHANGED <<library, created, calls, confirmed, asked, approved, tool, tracker,
                       storeVars, named>>
    BY <1>6, <1>7, <1>15 DEF Crash
  <2> QED BY <1>6, <2>1, ControlTypes DEF storeVars
<1>16. CASE UNCHANGED vars
  BY <1>6, <1>16, ControlTypes DEF vars
<1> QED
  BY <1>1, <1>2, <1>3, <1>4, <1>5, <1>8, <1>9, <1>10, <1>11, <1>12, <1>13, <1>14, <1>15, <1>16
     DEF Next, Gate, Tools, Mapper

LEMMA InitTypes ==
    ASSUME Init
    PROVE  TypeInv
<1>1. MaxCalls \in Nat /\ MaxRestarts \in Nat /\ 0 \in 0..MaxCalls /\ 0 \in 0..MaxRestarts
      /\ NotNamed \in 0..NotNamed
  BY ToolAssumption DEF NotNamed
<1>2. /\ tracker = FreshTracker
      /\ FreshTracker \in [meta : [Ids -> 0..MaxCalls], ended : SUBSET Ids]
      /\ \A c \in Ids : FreshTracker.meta[c] = 0
  BY <1>1 DEF Init, FreshTracker
<1>3. /\ calls = <<>> /\ queue = <<>> /\ starts = <<>> /\ ends = <<>> /\ ledger = <<>>
      /\ asked = {} /\ forgotten = {} /\ Len(calls) = 0
      /\ tool = [i \in Ids |-> "proposed"] /\ named = [i \in Ids |-> NotNamed]
      /\ at = "assistant" /\ verdict = "none" /\ approved = FALSE /\ confirmed = created
      /\ created \in BOOLEAN /\ library \in Library /\ restarts = 0
  BY DEF Init
<1>4. TypeOK
  <2>1. tool \in [Ids -> Fate] /\ named \in [Ids -> 0..NotNamed]
    BY <1>1, <1>3 DEF Fate
  <2>2. /\ calls \in Seq([call : Call, round : Ids])
        /\ queue \in Seq([kind : {"start", "end"}, call : Ids])
        /\ starts \in Seq(0..MaxCalls) /\ ends \in Seq(End) /\ ledger \in Seq(Record)
    BY <1>3
  <2>3. tracker.meta \in [Ids -> 0..MaxCalls] /\ tracker.ended \subseteq Ids
    BY <1>2
  <2>4. /\ Len(calls) <= MaxCalls /\ asked \subseteq Ids /\ forgotten \subseteq Ids
        /\ restarts \in 0..MaxRestarts
        /\ at \in {"assistant", "gate", "waiting", "tools", "ending", "done", "dead"}
        /\ verdict \in {"none", "approved", "rejected"}
    BY <1>1, <1>3
  <2>5. confirmed \in BOOLEAN /\ approved \in BOOLEAN
    BY <1>3, Zenon
  <2> QED BY <1>3, <2>1, <2>2, <2>3, <2>4, <2>5, Zenon DEF TypeOK
<1> QED BY <1>1, <1>2, <1>3, <1>4 DEF TypeInv

-----------------------------------------------------------------------------
\* Every reachable state is well typed; in particular the ids under which the
\* mapper stores starts and ends are ids of calls or empty, and the calls keep
\* within their bound.
THEOREM TypeCorrectness == Spec => []TypeOK
<1>1. Init => TypeInv
  BY InitTypes
<1>2. TypeInv /\ [Next]_vars => TypeInv'
  BY StepTypes
<1>3. TypeInv => TypeOK
  BY DEF TypeInv
<1> QED BY <1>1, <1>2, <1>3, PTL DEF Spec
-----------------------------------------------------------------------------
(* Rejections.  The gate asks once: after a verdict the batch that was asked  *)
(* for meets the gate again, and goes through only if it was approved.        *)

Over == {"ending", "done", "dead"}

AskedOnce ==
    /\ at \in {"assistant", "gate", "tools"} /\ verdict = "none" => asked = {}
    /\ at \in {"gate", "waiting"} => \A i \in Batch : tool[i] = "proposed"
    /\ at = "waiting" => asked = Batch /\ ~confirmed /\ Decision = "ask"
    /\ verdict = "rejected" => at \in Over \cup {"waiting", "gate"}
    /\ at = "gate" /\ verdict = "rejected" => Decision = "ask"

\* What was blocked is not run any more, for the run is over, or was rejected and
\* will be; or the engine forgot.
BlockingHolds ==
    \A k \in 1..Len(ledger) : ledger[k].status = "blocked" =>
        \/ ledger[k].id \in forgotten
        \/ /\ ledger[k].id \notin Started
           /\ at \in Over \/ (verdict = "rejected" /\ ledger[k].id \in asked)

BlockInv == TypeInv /\ GateInv /\ AskedOnce /\ BlockingHolds

\* While the graph can run a call, only forgotten rejections have blocked any.
LEMMA RunningForgot ==
    ASSUME AskedOnce, BlockingHolds, at \in {"assistant", "tools"},
           NEW k \in 1..Len(ledger), ledger[k].status = "blocked"
    PROVE  ledger[k].id \in forgotten
  BY DEF AskedOnce, BlockingHolds, Over

\* A step that starts no call; x tells which of the new records are blocked.
LEMMA BlockingKept ==
    ASSUME BlockingHolds, UNCHANGED <<calls, tool>>, forgotten \subseteq forgotten',
           at \in Over => at' \in Over,
           verdict = "rejected" =>
               \/ verdict' = "rejected" /\ asked \subseteq asked'
               \/ asked \subseteq forgotten'
               \/ at' \in Over,
           \A k \in 1..Len(ledger') : ledger'[k].status = "blocked" =>
               \/ k \in 1..Len(ledger) /\ ledger'[k] = ledger[k]
               \/ /\ ledger'[k].id \notin Started
                  /\ at' \in Over \/ (verdict' = "rejected" /\ ledger'[k].id \in asked')
    PROVE  BlockingHolds'
<1>1. Started' = Started
  BY DEF Started
<1> SUFFICES ASSUME NEW k \in 1..Len(ledger'), ledger'[k].status = "blocked",
                    k \in 1..Len(ledger), ledger'[k] = ledger[k]
             PROVE  \/ ledger'[k].id \in forgotten'
                    \/ /\ ledger'[k].id \notin Started
                       /\ at' \in Over \/ (verdict' = "rejected" /\ ledger'[k].id \in asked')
  BY <1>1 DEF BlockingHolds, Over
<1> QED BY DEF BlockingHolds

LEMMA ProposedBatch ==
    ASSUME TypeInv, GateInv, Propose
    PROVE  \A i \in Batch' : tool'[i] = "proposed"
<1>1. PICK batch \in Call \X Call \cup {<<c>> : c \in Call} :
        calls' = calls \o [k \in 1..Len(batch) |->
                                [call |-> batch[k], round |-> LastRound + 1]]
  BY DEF Propose
<1> DEFINE n == Len(calls)
           Made == [call : Call, round : Nat]
           new == [k \in 1..Len(batch) |-> [call |-> batch[k], round |-> LastRound + 1]]
<1>2. batch \in Seq(Call) /\ Len(batch) \in 1..2
  BY BatchIsShort
<1>3. /\ CallsOK /\ RoundsGrow /\ StartedIsMade
      /\ LastRound \in Nat
      /\ \A i \in 1..n : calls[i].round \in Nat /\ calls[i].round <= LastRound
  BY LastRoundIsHighest DEF GateInv, Pre
<1>4. new \in Seq(Made) /\ Len(new) = Len(batch)
      /\ \A k \in 1..Len(batch) : new[k].round = LastRound + 1
  BY <1>2, <1>3
<1>5. calls \in Seq(Made) /\ calls' = calls \o new
  BY <1>1, <1>3 DEF CallsOK
<1> HIDE DEF new, Made
<1>6. /\ n \in Nat /\ Len(calls') = n + Len(batch) /\ calls' \in Seq(Made)
      /\ \A i \in 1..n : calls'[i] = calls[i]
      /\ \A i \in 1..Len(calls') : i > n =>
            i - n \in 1..Len(batch) /\ calls'[i] = new[i - n]
  <2>1. /\ calls \o new \in Seq(Made)
        /\ Len(calls) \in Nat /\ Len(calls \o new) = Len(calls) + Len(new)
        /\ \A i \in 1..Len(calls) : (calls \o new)[i] = calls[i]
        /\ \A i \in 1..Len(calls \o new) : i > Len(calls) =>
              i - Len(calls) \in 1..Len(new) /\ (calls \o new)[i] = new[i - Len(calls)]
    BY <1>4, <1>5, Joined
  <2> QED BY <1>4, <1>5, <2>1, Zenon
<1>7. LastRound' = LastRound + 1
  <2>1. calls' # <<>> /\ Len(calls') \in 1..Len(calls') /\ Len(calls') > n
    <3>1. Len(calls') \in Nat /\ Len(calls') > n /\ Len(calls') # 0
      <4>1. n \in Nat /\ Len(calls') = n + Len(batch) /\ Len(batch) \in {1, 2}
        BY <1>2, <1>6
      <4> QED BY <4>1
    <3>2. calls' # <<>>
      BY <3>1
    <3> QED BY <3>1, <3>2
  <2>2. calls'[Len(calls')].round = LastRound + 1
    BY <1>4, <1>6, <2>1
  <2> QED BY <2>1, <2>2 DEF LastRound
<1>8. ASSUME NEW i \in Batch'
      PROVE  i \notin 1..n /\ i \in Ids
  <2>1. i \in 1..Len(calls') /\ calls'[i].round = LastRound + 1
    BY <1>7 DEF Batch
  <2>2. i \notin 1..n
    <3> SUFFICES ASSUME i \in 1..n PROVE FALSE
      OBVIOUS
    <3>1. calls[i].round = LastRound + 1 /\ calls[i].round <= LastRound
      BY <1>3, <1>6, <2>1
    <3> QED BY <1>3, <3>1
  <2>3. TypeInv'
    BY ProposeTypes
  <2>4. Len(calls') \in Nat /\ Len(calls') <= MaxCalls /\ MaxCalls \in Nat
    BY <1>2, <1>6, <2>3, ToolAssumption DEF TypeInv, TypeOK
  <2> QED BY <2>1, <2>2, <2>4 DEF Ids
<1>9. tool' = tool
  BY DEF Propose
<1> QED BY <1>3, <1>8, <1>9 DEF StartedIsMade

\* The calls that started are the same after new ones were made.
LEMMA ProposedStarted ==
    ASSUME TypeInv, GateInv, Propose
    PROVE  Started' \subseteq Started
<1>1. TypeInv' /\ tool' = tool
  BY ProposeTypes DEF Propose
<1>2. 1..Len(calls') \subseteq Ids
  <2>1. Len(calls') \in Nat /\ Len(calls') <= MaxCalls /\ MaxCalls \in Nat
    <3> DEFINE Made == [call : Call, round : Ids]
    <3>1. calls' \in Seq(Made) /\ Len(calls') <= MaxCalls
      BY <1>1 DEF TypeInv, TypeOK
    <3> HIDE DEF Made
    <3> QED BY <3>1, ToolAssumption
  <2> QED BY <2>1 DEF Ids
<1> QED BY <1>1, <1>2 DEF Started, GateInv, Pre, StartedIsMade

LEMMA SameDecision ==
    ASSUME UNCHANGED <<calls, confirmed>>
    PROVE  Decision' = Decision /\ Batch' = Batch
  BY DEF Decision, Batch, LastRound, CallOf

\* Rounds of the assistant and of the tools.
LEMMA WorkKeepsBlocks ==
    ASSUME BlockInv,
           \/ Propose \/ Answer \/ ToolsDone
           \/ \E i \in Ids : \/ StartTool(i)
                             \/ \E fate \in {"done", "refused", "broken", "mute"} :
                                    FinishTool(i, fate)
    PROVE  AskedOnce' /\ BlockingHolds'
<1> USE DEF BlockInv
<1>1. /\ at \in {"assistant", "tools"}
      /\ at' \in {"assistant", "tools", "gate", "ending"}
      /\ UNCHANGED <<asked, verdict, ledger, forgotten, confirmed>>
      /\ at' = "gate" => Propose
  BY DEF Propose, Answer, ToolsDone, StartTool, FinishTool, graphVars, storeVars
<1>2. verdict # "rejected" /\ (verdict = "none" => asked = {})
  BY <1>1 DEF AskedOnce, Over
<1>3. AskedOnce'
  BY <1>1, <1>2, ProposedBatch DEF AskedOnce
<1>4. BlockingHolds'
  BY <1>1, RunningForgot DEF BlockingHolds
<1> QED BY <1>3, <1>4

LEMMA GateKeepsBlocks ==
    ASSUME BlockInv, Gate
    PROVE  AskedOnce' /\ BlockingHolds'
<1> USE DEF BlockInv
<1>1. /\ at = "gate" /\ UNCHANGED <<calls, tool, confirmed, verdict, forgotten>>
      /\ asked \subseteq asked'
  BY DEF Gate, GateDenies, GateBlocksRoute, GateAsks, GateRejected, GateAllows, graphVars
<1>2. \A i \in Batch : tool[i] = "proposed" /\ i \notin Started
  BY <1>1 DEF AskedOnce, Started
<1>3. at \notin Over
  BY <1>1 DEF Over
<1>4. ASSUME NEW is, is \subseteq Batch, Block(is), at' = "ending"
      PROVE  AskedOnce' /\ BlockingHolds'
  <2>1. AskedOnce'
    BY <1>4 DEF AskedOnce, Over
  <2>2. is \subseteq Ids
    BY <1>4, MadeCalls
  <2>3. /\ Len(ledger) \in Nat
        /\ \A k \in 1..Len(ledger) : ledger'[k] = ledger[k]
        /\ \A k \in 1..Len(ledger') : k > Len(ledger) => ledger'[k].id \in is
    BY <1>4, <2>2, BlockTypes
  <2>4. ASSUME NEW k \in 1..Len(ledger')
        PROVE  \/ k \in 1..Len(ledger) /\ ledger'[k] = ledger[k]
               \/ ledger'[k].id \notin Started
    <3>1. k \in 1..Len(ledger) \/ k > Len(ledger)
      BY <2>3
    <3> QED BY <1>2, <1>4, <2>3, <3>1
  <2>5. at' \in Over
    BY <1>4 DEF Over
  <2> QED BY <1>1, <2>1, <2>4, <2>5, BlockingKept
<1>5. CASE GateDenies
  BY <1>4, <1>5 DEF GateDenies
<1>6. CASE GateBlocksRoute
  BY <1>4, <1>6 DEF GateBlocksRoute, OffRoute
<1>7. ASSUME ledger' = ledger
      PROVE  BlockingHolds'
  BY <1>1, <1>3, <1>7, BlockingKept
<1>8. CASE GateAsks
  <2>1. asked' = Batch /\ at' = "waiting" /\ ledger' = ledger /\ Decision = "ask"
    BY <1>8 DEF GateAsks, AskedOnce, storeVars
  <2>2. ~confirmed
    <3> SUFFICES ASSUME confirmed PROVE FALSE
      OBVIOUS
    <3> DEFINE decisive == {i \in Batch : \/ CallOf(i).rule = "deny"
                                          \/ CallOf(i).rule = "ask" /\ ~confirmed}
    <3>1. \A i \in decisive : CallOf(i).rule = "deny"
      OBVIOUS
    <3>2. decisive # {}
      <4>1. Decision = IF decisive = {} THEN "allow"
                       ELSE IF \E i \in decisive : /\ CallOf(i).rule = "deny"
                                                  /\ \A j \in decisive : i <= j
                       THEN "deny" ELSE "ask"
        BY DEF Decision
      <4> HIDE DEF decisive
      <4> QED BY <2>1, <4>1
    <3>3. decisive \subseteq Ids
      BY MadeCalls
    <3>4. \E i \in decisive : \A j \in decisive : i <= j
      <4> HIDE DEF decisive
      <4> QED BY <3>2, <3>3, LeastExists
    <3> QED BY <2>1, <3>1, <3>2, <3>4 DEF Decision
  <2> QED BY <1>1, <1>2, <1>7, <1>8, <2>1, <2>2, SameDecision DEF AskedOnce, Over, GateAsks
<1>9. CASE GateRejected
  <2>1. at' = "ending" /\ ledger' = ledger
    BY <1>9 DEF GateRejected, storeVars
  <2> QED BY <1>7, <2>1 DEF AskedOnce, Over
<1>10. CASE GateAllows
  <2>1. at' = "tools" /\ ledger' = ledger /\ Decision = "allow" /\ asked' = asked
    BY <1>10 DEF GateAllows, storeVars, graphVars
  <2>2. verdict # "rejected" /\ (verdict = "none" => asked = {})
    BY <1>1, <2>1 DEF AskedOnce
  <2> QED BY <1>1, <1>7, <2>1, <2>2 DEF AskedOnce, Over
<1> QED BY <1>5, <1>6, <1>8, <1>9, <1>10 DEF Gate

LEMMA VerdictKeepsBlocks ==
    ASSUME BlockInv, Approve \/ Reject \/ Resume \/ Crash \/ Cancel
    PROVE  AskedOnce' /\ BlockingHolds'
<1> USE DEF BlockInv
<1>1. CASE Approve
  <2>1. /\ at = "waiting" /\ at' = "waiting" /\ verdict = "none" /\ verdict' = "approved"
        /\ UNCHANGED <<calls, tool, confirmed, asked, ledger, forgotten>>
    BY <1>1 DEF Approve, storeVars
  <2> QED BY <2>1, SameDecision, BlockingKept DEF AskedOnce, Over
<1>2. CASE Reject
  <2>1. /\ at = "waiting" /\ at' = "waiting" /\ verdict = "none" /\ verdict' = "rejected"
        /\ UNCHANGED <<calls, tool, confirmed, asked, forgotten>>
    BY <1>2 DEF Reject
  <2>2. asked = Batch /\ asked \subseteq Ids /\ \A i \in asked : i \notin Started
    BY <2>1, MadeCalls DEF AskedOnce, Started
  <2>3. /\ Len(ledger) \in Nat
        /\ \A k \in 1..Len(ledger) : ledger'[k] = ledger[k]
        /\ \A k \in 1..Len(ledger') : k > Len(ledger) => ledger'[k].id \in asked
    BY <1>2, <2>2, BlockTypes DEF Reject
  <2>4. ASSUME NEW k \in 1..Len(ledger')
        PROVE  \/ k \in 1..Len(ledger) /\ ledger'[k] = ledger[k]
               \/ ledger'[k].id \notin Started /\ ledger'[k].id \in asked
    <3>1. k \in 1..Len(ledger) \/ k > Len(ledger)
      BY <2>3
    <3> QED BY <2>2, <2>3, <3>1
  <2>5. BlockingHolds'
    BY <2>1, <2>4, BlockingKept DEF Over
  <2> QED BY <2>1, <2>5, SameDecision DEF AskedOnce, Over
<1>3. CASE Resume
  <2>1. /\ at = "waiting" /\ at' = "gate" /\ verdict # "none"
        /\ UNCHANGED <<calls, tool, asked, verdict, ledger, forgotten>>
        /\ confirmed' = (verdict = "approved")
    BY <1>3 DEF Resume, storeVars
  <2>2. BlockingHolds'
    BY <2>1, BlockingKept DEF Over
  <2>3. verdict = "rejected" => Decision' = Decision
    <3>1. verdict = "rejected" => ~confirmed /\ ~confirmed'
      BY <2>1 DEF AskedOnce
    <3> QED BY <2>1, <3>1 DEF Decision, Batch, LastRound, CallOf
  <2>4. Batch' = Batch
    BY <2>1 DEF Batch, LastRound
  <2> QED BY <2>1, <2>2, <2>3, <2>4 DEF AskedOnce, Over
<1>4. CASE Crash
  <2>1. /\ at' = IF at = "waiting" THEN "waiting" ELSE "dead"
        /\ at \notin {"done", "dead"}
        /\ forgotten \subseteq forgotten' /\ verdict' = "none"
        /\ UNCHANGED <<calls, tool, confirmed, asked, ledger>>
        /\ at = "waiting" /\ verdict = "rejected" => asked \subseteq forgotten'
    BY <1>4 DEF Crash, storeVars
  <2>2. BlockingHolds'
    BY <2>1, BlockingKept DEF Over
  <2> QED BY <2>1, <2>2, SameDecision DEF AskedOnce, Over
<1>5. CASE Cancel
  <2>1. /\ at' = "dead" /\ UNCHANGED <<calls, tool, ledger, forgotten>>
    BY <1>5 DEF Cancel, graphVars, storeVars
  <2>2. BlockingHolds'
    BY <2>1, BlockingKept DEF Over
  <2> QED BY <2>1, <2>2 DEF AskedOnce, Over
<1> QED BY <1>1, <1>2, <1>3, <1>4, <1>5

\* The mapper records what happened to calls that ran, never a blocked one.
LEMMA MapperKeepsBlocks ==
    ASSUME BlockInv, Mapper \/ UNCHANGED vars
    PROVE  AskedOnce' /\ BlockingHolds'
<1> USE DEF BlockInv
<1>1. UNCHANGED <<calls, tool, confirmed, asked, verdict, forgotten>>
  BY DEF Mapper, MapStart, MapEnd, StreamEnds, graphVars, vars
<1>2. at' = at \/ (at = "ending" /\ at' = "done")
  BY DEF Mapper, MapStart, MapEnd, StreamEnds, vars
<1>3. AskedOnce'
  <2>1. CASE at' = at
    BY <1>1, <2>1, SameDecision DEF AskedOnce
  <2>2. CASE at' = "done"
    BY <2>2 DEF AskedOnce, Over
  <2> QED BY <1>2, <2>1, <2>2
<1>4. \A k \in 1..Len(ledger') : ledger'[k].status = "blocked" =>
          k \in 1..Len(ledger) /\ ledger'[k] = ledger[k]
  <2>0. ledger \in Seq(Record)
    BY DEF TypeInv, TypeOK
  <2>1. CASE ledger' = ledger
    BY <2>1
  <2>2. CASE MapEnd /\ ledger' # ledger
    <3>1. PICK id, i : ledger' = Append(ledger, [id |-> id, status |-> Status(i)])
      BY <2>2 DEF MapEnd
    <3>2. Status(i) # "blocked"
      BY DEF Status
    <3>3. PICK x : x = [id |-> id, status |-> Status(i)]
      OBVIOUS
    <3>4. ledger' = Append(ledger, x) /\ x.status # "blocked"
      BY <3>1, <3>2, <3>3
    <3> QED BY <2>0, <3>4
  <2>3. CASE StreamEnds
    <3>1. PICK more \in Seq(Record) :
              ledger' = ledger \o more /\ \A k \in 1..Len(more) : more[k].status = "unknown"
      BY <2>3, StreamEndsForm
    <3>2. /\ Len(ledger) \in Nat
          /\ \A k \in 1..Len(ledger) : ledger'[k] = ledger[k]
          /\ \A k \in 1..Len(ledger') : k > Len(ledger) =>
                k - Len(ledger) \in 1..Len(more) /\ ledger'[k] = more[k - Len(ledger)]
      BY <2>0, <3>1, Joined
    <3>3. \A k \in 1..Len(ledger') : k \in 1..Len(ledger) \/ k > Len(ledger)
      BY <3>2
    <3> QED BY <3>1, <3>2, <3>3
  <2> QED BY <2>1, <2>2, <2>3 DEF Mapper, MapStart, vars
<1>5. BlockingHolds'
  BY <1>1, <1>2, <1>4, BlockingKept DEF Over
<1> QED BY <1>3, <1>5

LEMMA BlockInit ==
    ASSUME Init
    PROVE  BlockInv
<1>1. calls = <<>> /\ ledger = <<>> /\ asked = {} /\ at = "assistant" /\ verdict = "none"
  BY DEF Init
<1>2. AskedOnce /\ BlockingHolds
  BY <1>1 DEF AskedOnce, BlockingHolds, Over
<1> QED BY <1>2, InitTypes, GateInvInit DEF BlockInv

LEMMA BlockStep ==
    ASSUME BlockInv, [Next]_vars
    PROVE  BlockInv'
<1>1. TypeInv' /\ GateInv'
  BY StepTypes, GateInvStep DEF BlockInv
<1>2. AskedOnce' /\ BlockingHolds'
  BY WorkKeepsBlocks, GateKeepsBlocks, VerdictKeepsBlocks, MapperKeepsBlocks DEF Next, Tools
<1> QED BY <1>1, <1>2 DEF BlockInv

\* What the gate or a rejection recorded as blocked never runs, whatever verdicts,
\* resumptions and crashes follow, unless a crash made the engine forget the
\* rejection: _append_blocked_side_effects of the gate and of the engine.
THEOREM BlockedRests == Spec => []BlockedStaysBlocked
<1>1. Init => BlockInv
  BY BlockInit
<1>2. BlockInv /\ [Next]_vars => BlockInv'
  BY BlockStep
<1>3. BlockInv => BlockedStaysBlocked
  BY DEF BlockInv, BlockingHolds, BlockedStaysBlocked
<1> QED BY <1>1, <1>2, <1>3, PTL DEF Spec

-----------------------------------------------------------------------------
(* Starts and ends.  While every start is stored under the id of its call,    *)
(* each end is paired with the start of its own call, whatever the events     *)
(* tell and in whatever order the calls of a batch finish.                    *)

Event == [kind : {"start", "end"}, call : Ids]
StartOf(i) == [kind |-> "start", call |-> i]
EndOf(i) == [kind |-> "end", call |-> i]
Stands(e, q) == \E k \in 1..Len(q) : q[k] = e

\* Each event once, the start of a call before its end.
Ordered(q) ==
    /\ \A k, l \in 1..Len(q) : q[k] = q[l] => k = l
    /\ \A i \in Ids, k, l \in 1..Len(q) : q[k] = StartOf(i) /\ q[l] = EndOf(i) => k < l

EventsInOrder ==
    /\ Ordered(queue)
    /\ \A i \in Ids :
          /\ Stands(StartOf(i), queue) => tool[i] # "proposed" /\ named[i] = NotNamed
          /\ Stands(EndOf(i), queue) => tool[i] \in Finished
          /\ tool[i] = "proposed" => named[i] = NotNamed
          /\ tool[i] = "running" => at = "dead" \/ (at = "tools" /\ i \in Batch)
    /\ at \in {"gate", "waiting"} => queue = <<>>

StartIsKnown(i) == Stands(StartOf(i), queue) \/ tracker.meta[i] = i

OwnIds ==
    /\ \A c \in Ids : tracker.meta[c] \in {0, c}
    /\ \A i \in Ids : Stands(EndOf(i), queue) => StartIsKnown(i)
    /\ \A i \in Ids : at = "tools" /\ tool[i] = "running" => StartIsKnown(i)
    /\ \A c \in Ids : tracker.meta[c] = c => named[c] = c
    /\ ~library.ids => \A c \in 1..Len(calls) : named[c] = c => Pending(CallOf(c).tool) = c

\* No end has a key, and nothing is answered from the store.
Keyless ==
    /\ \A k \in 1..Len(ends) : ends[k].key = NoKey
    /\ \A i \in Ids : tool[i] # "reused"

LifeInv ==
    /\ BlockInv /\ EventsInOrder
    /\ WellNamed => OwnIds
    /\ Keyless

LEMMA EventsDiffer ==
    /\ \A i, j : StartOf(i) # EndOf(j)
    /\ \A i, j : StartOf(i) = StartOf(j) => i = j
    /\ \A i, j : EndOf(i) = EndOf(j) => i = j
    /\ \A i \in Ids : StartOf(i) \in Event /\ EndOf(i) \in Event
    /\ \A i : StartOf(i).call = i /\ EndOf(i).call = i
    /\ \A e \in Event : e = IF e.kind = "start" THEN StartOf(e.call) ELSE EndOf(e.call)
<1>1. \A i : /\ StartOf(i).kind = "start" /\ EndOf(i).kind = "end"
             /\ StartOf(i).call = i /\ EndOf(i).call = i
  BY DEF StartOf, EndOf
<1>2. \A i \in Ids : StartOf(i) \in Event /\ EndOf(i) \in Event
  BY DEF StartOf, EndOf, Event
<1>3. \A e \in Event : e = IF e.kind = "start" THEN StartOf(e.call) ELSE EndOf(e.call)
  BY DEF StartOf, EndOf, Event
<1>4. \A i, j : StartOf(i) # EndOf(j)
  BY <1>1
<1>5. \A i, j : (StartOf(i) = StartOf(j) => i = j) /\ (EndOf(i) = EndOf(j) => i = j)
  <2> SUFFICES ASSUME NEW i, NEW j
               PROVE  (StartOf(i) = StartOf(j) => i = j) /\ (EndOf(i) = EndOf(j) => i = j)
    OBVIOUS
  <2>1. /\ StartOf(i).call = i /\ EndOf(i).call = i
        /\ StartOf(j).call = j /\ EndOf(j).call = j
    BY <1>1
  <2> QED BY <2>1
<1> QED BY <1>1, <1>2, <1>3, <1>4, <1>5

LEMMA EventQueue ==
    ASSUME TypeInv
    PROVE  queue \in Seq(Event)
  BY DEF TypeInv, TypeOK, Event

\* Nothing stands in an empty queue.
LEMMA NoEvents ==
    Ordered(<<>>) /\ \A e : ~Stands(e, <<>>)
  BY DEF Ordered, Stands

\* A queue with one more event.
LEMMA OneMore ==
    ASSUME NEW q \in Seq(Event), Ordered(q), NEW e \in Event, ~Stands(e, q),
           \A i \in Ids : e = StartOf(i) => ~Stands(EndOf(i), q)
    PROVE  /\ Append(q, e) \in Seq(Event) /\ Ordered(Append(q, e))
           /\ \A x : Stands(x, Append(q, e)) <=> Stands(x, q) \/ x = e
<1> HIDE DEF Event
<1>1. /\ Append(q, e) \in Seq(Event) /\ Len(q) \in Nat /\ Len(Append(q, e)) = Len(q) + 1
      /\ Append(q, e)[Len(q) + 1] = e
      /\ \A k \in 1..Len(q) : Append(q, e)[k] = q[k]
  OBVIOUS
<1> DEFINE n == Len(q)
           r == Append(q, e)
<1> HIDE DEF r
<1>2. /\ n \in Nat /\ n + 1 \in 1..Len(r) /\ 1..n \subseteq 1..Len(r)
      /\ \A k \in 1..Len(r) : k \in 1..n \/ k = n + 1
      /\ r[n + 1] = e /\ \A k \in 1..n : r[k] = q[k] /\ k < n + 1
      /\ n + 1 \notin 1..n
  BY <1>1 DEF r
<1>3. \A x : Stands(x, r) <=> Stands(x, q) \/ x = e
  <2> HIDE DEF n
  <2>1. \A x : Stands(x, q) <=> \E k \in 1..n : q[k] = x
    BY DEF Stands, n
  <2>2. \A x : Stands(x, r) <=> \E k \in 1..Len(r) : r[k] = x
    BY DEF Stands
  <2>3. ASSUME NEW x, Stands(x, r) PROVE Stands(x, q) \/ x = e
    BY <1>2, <2>1, <2>2, <2>3
  <2>4. ASSUME NEW x, Stands(x, q) \/ x = e PROVE Stands(x, r)
    BY <1>2, <2>1, <2>2, <2>4
  <2> QED BY <2>3, <2>4
<1>4. \A k \in 1..n : r[k] # e
  BY <1>2 DEF Stands
<1>5. ASSUME NEW k \in 1..Len(r), NEW l \in 1..Len(r), r[k] = r[l]
      PROVE  k = l
  <2>1. \A a, b \in 1..n : q[a] = q[b] => a = b
    BY DEF Ordered
  <2> HIDE DEF n
  <2> QED BY <1>2, <1>4, <1>5, <2>1
<1>6. ASSUME NEW i \in Ids, NEW k \in 1..Len(r), NEW l \in 1..Len(r),
             r[k] = StartOf(i), r[l] = EndOf(i)
      PROVE  k < l
  <2>1. \A a, b \in 1..n : q[a] = StartOf(i) /\ q[b] = EndOf(i) => a < b
    BY DEF Ordered
  <2>2. k = n + 1 => l = n + 1
    <3>1. k = n + 1 => e = StartOf(i) /\ \A b \in 1..n : q[b] # EndOf(i)
      BY <1>2, <1>6 DEF Stands
    <3> HIDE DEF n
    <3> QED BY <1>2, <1>6, <3>1
  <2>3. StartOf(i) # EndOf(i)
    BY EventsDiffer
  <2> HIDE DEF n
  <2> QED BY <1>2, <1>6, <2>1, <2>2, <2>3
<1>7. Ordered(r)
  BY <1>5, <1>6 DEF Ordered
<1> QED BY <1>1, <1>3, <1>7 DEF r

\* A queue without its first event, behind which no start of its call stands.
LEMMA OneLess ==
    ASSUME NEW q \in Seq(Event), Ordered(q), q # <<>>
    PROVE  /\ Tail(q) \in Seq(Event) /\ Ordered(Tail(q)) /\ Head(q) \in Event
           /\ \A x : Stands(x, q) <=> Stands(x, Tail(q)) \/ x = Head(q)
           /\ ~Stands(Head(q), Tail(q))
           /\ \A i \in Ids : Head(q) = EndOf(i) => ~Stands(StartOf(i), q)
<1> HIDE DEF Event
<1> DEFINE n == Len(q)
           r == Tail(q)
           e == Head(q)
<1>1. /\ r \in Seq(Event) /\ e \in Event /\ Len(q) \in Nat /\ Len(r) = Len(q) - 1
      /\ 1 \in 1..Len(q) /\ e = q[1]
      /\ \A k \in 1..Len(r) : k + 1 \in 1..Len(q) /\ r[k] = q[k + 1] /\ k + 1 # 1
  OBVIOUS
<1> HIDE DEF r, e
<1>2. \A k \in 1..Len(q) : k # 1 => k - 1 \in 1..Len(r) /\ r[k - 1] = q[k] /\ 1 < k
  <2>1. \A k \in 1..Len(q) : k # 1 => k - 1 \in 1..Len(r) /\ (k - 1) + 1 = k /\ 1 < k
    BY <1>1
  <2> QED BY <1>1, <2>1
<1>3. /\ \A k, l \in 1..Len(q) : q[k] = q[l] => k = l
      /\ \A i \in Ids, k, l \in 1..Len(q) : q[k] = StartOf(i) /\ q[l] = EndOf(i) => k < l
  BY DEF Ordered
<1>4. ~Stands(e, r)
  <2>1. \A k \in 1..Len(r) : r[k] # e
    BY <1>1, <1>3
  <2> QED BY <2>1 DEF Stands
<1>5. ASSUME NEW x PROVE Stands(x, q) <=> Stands(x, r) \/ x = e
  <2>1. Stands(x, q) => Stands(x, r) \/ x = e
    BY <1>1, <1>2 DEF Stands
  <2>2. Stands(x, r) \/ x = e => Stands(x, q)
    BY <1>1 DEF Stands
  <2> QED BY <2>1, <2>2
<1>6. ASSUME NEW k \in 1..Len(r), NEW l \in 1..Len(r)
      PROVE  /\ r[k] = r[l] => k = l
             /\ \A i \in Ids : r[k] = StartOf(i) /\ r[l] = EndOf(i) => k < l
  <2>1. /\ k \in Int /\ l \in Int /\ k + 1 \in 1..Len(q) /\ l + 1 \in 1..Len(q)
        /\ r[k] = q[k + 1] /\ r[l] = q[l + 1]
    BY <1>1
  <2>2. /\ r[k] = r[l] => k + 1 = l + 1
        /\ \A i \in Ids : r[k] = StartOf(i) /\ r[l] = EndOf(i) => k + 1 < l + 1
    BY <1>3, <2>1
  <2> QED BY <2>1, <2>2
<1>7. Ordered(r)
  BY <1>6 DEF Ordered
<1>8. ASSUME NEW i \in Ids, e = EndOf(i) PROVE ~Stands(StartOf(i), q)
  <2>1. ASSUME NEW k \in 1..Len(q), q[k] = StartOf(i) PROVE FALSE
    <3>1. k < 1
      BY <1>1, <1>3, <1>8, <2>1
    <3> QED BY <3>1
  <2> QED BY <2>1 DEF Stands
<1> QED BY <1>1, <1>4, <1>5, <1>7, <1>8 DEF r, e

\* Steps that no call and no event is part of.
LEMMA ControlLife ==
    ASSUME LifeInv, UNCHANGED <<library, calls, tool, named, ends>>,
           \/ queue' = queue /\ tracker' = tracker
           \/ queue' = <<>> /\ tracker' \in {tracker, FreshTracker},
           at' \in {"gate", "waiting"} => queue' = <<>>,
           \A i \in Ids : tool[i] = "running" => at' = "dead",
           asked' = asked \/ asked = {}
    PROVE  /\ EventsInOrder'
           /\ WellNamed' => OwnIds'
           /\ Keyless'
<1>1. /\ Ordered(queue') /\ \A e : Stands(e, queue') => Stands(e, queue)
      /\ \A e : queue' = queue \/ ~Stands(e, queue')
  BY NoEvents DEF LifeInv, EventsInOrder
<1>2. EventsInOrder'
  BY <1>1 DEF LifeInv, EventsInOrder
<1>3. WellNamed' <=> WellNamed
  BY DEF WellNamed
<1>4. ASSUME WellNamed PROVE OwnIds'
  <2>1. OwnIds
    BY <1>4 DEF LifeInv
  <2>2. \A c \in Ids : tracker'.meta[c] \in {tracker.meta[c], 0}
    BY DEF FreshTracker
  <2>3. \A i \in Ids : Stands(EndOf(i), queue') => Stands(StartOf(i), queue') \/ tracker'.meta[i] = i
    <3>1. CASE queue' = queue /\ tracker' = tracker
      BY <2>1, <3>1 DEF OwnIds, StartIsKnown
    <3>2. CASE queue' = <<>>
      BY <3>2, NoEvents
    <3> QED BY <3>1, <3>2
  <2>4. ASSUME NEW c \in 1..Len(calls), named[c] = c, ~library.ids
        PROVE  Pending(CallOf(c).tool)' = c
    <3>1. Pending(CallOf(c).tool) = c
      BY <2>1, <2>4 DEF OwnIds
    <3>2. CASE asked' = asked
      BY <3>1, <3>2 DEF Pending, CallOf
    <3>3. CASE asked = {}
      <4>1. c = 0
        BY <3>1, <3>3 DEF Pending
      <4>2. TypeInv /\ Len(calls) \in Nat
        BY MadeCalls DEF LifeInv, BlockInv
      <4> QED BY <4>1, <4>2
    <3> QED BY <3>2, <3>3
  <2>5. /\ \A c \in Ids : tracker'.meta[c] \in {0, c}
        /\ \A c \in Ids : tracker'.meta[c] = c => named'[c] = c
    <3>1. \A c \in Ids : c # 0
      BY ToolAssumption DEF Ids
    <3> QED BY <2>1, <2>2, <3>1 DEF OwnIds
  <2>6. Ids' = Ids /\ \A c : CallOf(c)' = CallOf(c)
    BY DEF Ids, CallOf
  <2> QED BY <2>3, <2>4, <2>5, <2>6 DEF OwnIds, StartIsKnown
<1>5. Keyless'
  BY DEF LifeInv, Keyless, Ids
<1> QED BY <1>2, <1>3, <1>4, <1>5

\* The calls that were made keep their places.
LEMMA CallsGrow ==
    ASSUME TypeInv, Propose
    PROVE  /\ Len(calls) \in Nat /\ Len(calls') \in Nat /\ 1..Len(calls) \subseteq 1..Len(calls')
           /\ 1..Len(calls') \subseteq Ids
           /\ \A i \in 1..Len(calls) : calls'[i] = calls[i] /\ CallOf(i)' = CallOf(i)
<1>1. PICK batch \in Call \X Call \cup {<<c>> : c \in Call} :
        calls' = calls \o [k \in 1..Len(batch) |->
                                [call |-> batch[k], round |-> LastRound + 1]]
  BY DEF Propose
<1> DEFINE Made == [call : Call, round : Ids]
<1>2. calls \in Seq(Made) /\ calls' \in Seq(Made) /\ Len(calls') <= MaxCalls
  BY ProposeTypes DEF TypeInv, TypeOK
<1>3. batch \in Seq(Call) /\ Len(batch) \in 1..2
  BY BatchIsShort
<1> DEFINE new == [k \in 1..Len(batch) |-> [call |-> batch[k], round |-> LastRound + 1]]
<1>4. new \in Seq([call : Call, round : {LastRound + 1}])
  BY <1>3
<1> HIDE DEF Made, new
<1>5. /\ Len(calls) \in Nat /\ Len(calls \o new) = Len(calls) + Len(new) /\ Len(new) \in Nat
      /\ \A i \in 1..Len(calls) : (calls \o new)[i] = calls[i]
  BY <1>2, <1>4
<1>6. calls' = calls \o new
  BY <1>1 DEF new
<1>7. \A i \in 1..Len(calls) : calls'[i] = calls[i]
  BY <1>5, <1>6
<1>8. 1..Len(calls) \subseteq 1..Len(calls') /\ Len(calls') \in Nat
  BY <1>5, <1>6
<1>9. 1..Len(calls') \subseteq Ids
  BY <1>2, <1>8, ToolAssumption DEF Ids
<1> QED BY <1>5, <1>7, <1>8, <1>9 DEF CallOf

LEMMA ProposeLife ==
    ASSUME LifeInv, Propose
    PROVE  /\ EventsInOrder'
           /\ WellNamed' => OwnIds'
           /\ Keyless'
<1> DEFINE n == Len(calls)
<1>1. TypeInv /\ StartedIsMade
  BY DEF LifeInv, BlockInv, GateInv, Pre
<1>2. /\ 1..n \subseteq 1..Len(calls') /\ 1..Len(calls') \subseteq Ids
      /\ \A i \in 1..n : calls'[i] = calls[i] /\ CallOf(i)' = CallOf(i)
  BY <1>1, CallsGrow
<1>3. /\ at = "assistant" /\ queue = <<>>
      /\ UNCHANGED <<library, tool, named, ends, tracker, queue, asked>>
  BY DEF Propose
<1>4. EventsInOrder'
  BY <1>3, NoEvents DEF LifeInv, EventsInOrder
<1>5. WellNamed' => WellNamed
  BY <1>2, <1>3 DEF WellNamed
<1>6. \A i \in Ids : i \notin 1..n => tool[i] = "proposed" /\ named[i] # i
  <2>1. \A i \in Ids : i # NotNamed
    BY ToolAssumption DEF Ids, NotNamed
  <2> QED BY <1>1, <2>1 DEF StartedIsMade, LifeInv, EventsInOrder
<1>7. ASSUME WellNamed PROVE OwnIds'
  <2>1. OwnIds
    BY <1>7 DEF LifeInv
  <2>2. asked \subseteq 1..n
    BY <1>1 DEF TypeInv
  <2>3. ASSUME NEW c \in 1..Len(calls'), ~library'.ids, named'[c] = c
        PROVE  Pending(CallOf(c).tool)' = c
    <3>1. c \in 1..n
      BY <1>2, <1>3, <1>6, <2>3
    <3>2. Pending(CallOf(c).tool) = c
      BY <1>3, <2>1, <2>3, <3>1 DEF OwnIds
    <3>3. {i \in asked' : CallOf(i)'.tool = CallOf(c)'.tool}
           = {i \in asked : CallOf(i).tool = CallOf(c).tool}
      BY <1>2, <1>3, <2>2, <3>1
    <3> QED BY <3>2, <3>3, Zenon DEF Pending
  <2>4. at' = "gate"
    BY DEF Propose
  <2> QED BY <1>3, <2>1, <2>3, <2>4 DEF OwnIds, StartIsKnown, Ids
<1>8. Keyless'
  BY <1>3 DEF LifeInv, Keyless, Ids
<1> QED BY <1>3, <1>4, <1>5, <1>7, <1>8

\* A call starts: its start is the first of its events.
LEMMA StartLife ==
    ASSUME LifeInv, NEW i \in Ids, StartTool(i)
    PROVE  /\ EventsInOrder'
           /\ WellNamed' => OwnIds'
           /\ Keyless'
<1> DEFINE s == StartOf(i)
           e == EndOf(i)
           reuse == IsPost(i) /\ Reusable(CallOf(i).key)
           q == Append(queue, s)
<1>1. /\ at = "tools" /\ i \in Batch /\ tool[i] = "proposed"
      /\ UNCHANGED <<library, calls, at, asked, tracker, ends, named>>
      /\ tool' = [tool EXCEPT ![i] = IF reuse THEN "reused" ELSE "running"]
  BY DEF StartTool, graphVars, storeVars
<1>2. TypeInv /\ tool \in [Ids -> Fate] /\ queue \in Seq(Event) /\ EventsInOrder /\ Ordered(queue)
  BY EventQueue DEF LifeInv, BlockInv, TypeInv, TypeOK, EventsInOrder
<1>3. s \in Event /\ e \in Event /\ s # e /\ (\A j : s # EndOf(j)) /\ (\A j : e # StartOf(j))
  BY EventsDiffer
<1>4. ~Stands(s, queue) /\ ~Stands(e, queue)
  BY <1>1, <1>2 DEF EventsInOrder, Finished
<1>5. q \in Seq(Event) /\ Ordered(q) /\ \A x : Stands(x, q) <=> Stands(x, queue) \/ x = s
  <2>1. \A j \in Ids : s = StartOf(j) => j = i
    BY EventsDiffer
  <2> HIDE DEF s, e
  <2>2. \A j \in Ids : s = StartOf(j) => ~Stands(EndOf(j), queue)
    BY <1>4, <2>1 DEF e
  <2> QED BY <1>2, <1>3, <1>4, <2>2, OneMore
<1>6. queue' = IF reuse THEN Append(q, e) ELSE q
  <2>1. queue' = queue \o <<s>> \o (IF reuse THEN <<e>> ELSE <<>>)
    BY DEF StartTool, StartOf, EndOf
  <2> HIDE DEF s, e, reuse, Event
  <2>2. queue \o <<s>> = q /\ q \o <<e>> = Append(q, e) /\ q \o <<>> = q
    BY <1>2, <1>3, <1>5
  <2> QED BY <2>1, <2>2
<1>7. /\ Ordered(queue')
      /\ \A x : Stands(x, queue') <=> Stands(x, queue) \/ x = s \/ (reuse /\ x = e)
  <2> HIDE DEF s, e, reuse
  <2>1. /\ Ordered(Append(q, e))
        /\ \A x : Stands(x, Append(q, e)) <=> Stands(x, q) \/ x = e
    <3> HIDE DEF q
    <3>1. ~Stands(e, q) /\ \A j \in Ids : e = StartOf(j) => ~Stands(EndOf(j), q)
      BY <1>3, <1>4, <1>5
    <3> QED BY <1>3, <1>5, <3>1, OneMore
  <2> QED BY <1>5, <1>6, <2>1
<1>8. Batch' = Batch /\ Ids' = Ids
  BY <1>1 DEF Batch, LastRound, Ids
<1>9. /\ tool'[i] = IF reuse THEN "reused" ELSE "running"
      /\ \A j \in Ids : j # i => tool'[j] = tool[j]
  BY <1>1, <1>2
<1>10. EventsInOrder'
  <2>1. /\ \A j \in Ids : Stands(StartOf(j), queue') => Stands(StartOf(j), queue) \/ j = i
        /\ \A j \in Ids : Stands(EndOf(j), queue') => Stands(EndOf(j), queue) \/ (j = i /\ reuse)
    <3>1. \A j \in Ids : (StartOf(j) = s => j = i) /\ StartOf(j) # e
                         /\ (EndOf(j) = e => j = i) /\ EndOf(j) # s
      BY EventsDiffer
    <3> HIDE DEF s, e, reuse
    <3> QED BY <1>7, <3>1
  <2>2. named[i] = NotNamed
    BY <1>1, <1>2 DEF EventsInOrder
  <2> HIDE DEF reuse
  <2>3. ASSUME NEW j \in Ids
        PROVE  /\ Stands(StartOf(j), queue') => tool'[j] # "proposed" /\ named'[j] = NotNamed
               /\ Stands(EndOf(j), queue') => tool'[j] \in Finished
               /\ tool'[j] = "proposed" => named'[j] = NotNamed
               /\ tool'[j] = "running" => at' = "tools" /\ j \in Batch'
    <3>1. CASE j = i
      BY <1>1, <1>4, <1>8, <1>9, <2>1, <2>2, <3>1 DEF Finished, Fate, EventsInOrder
    <3>2. CASE j # i
      BY <1>1, <1>2, <1>8, <1>9, <2>1, <3>2 DEF EventsInOrder
    <3> QED BY <3>1, <3>2
  <2>4. at' = "tools" /\ NotNamed' = NotNamed
    BY <1>1 DEF NotNamed
  <2> QED BY <1>7, <1>8, <2>3, <2>4 DEF EventsInOrder
<1>11. WellNamed' <=> WellNamed
  BY <1>1 DEF WellNamed
<1>12. ASSUME WellNamed PROVE OwnIds'
  <2>1. OwnIds
    BY <1>12 DEF LifeInv
  <2>2. ASSUME NEW j \in Ids, Stands(EndOf(j), queue') \/ tool'[j] = "running"
        PROVE  Stands(StartOf(j), queue') \/ tracker'.meta[j] = j
    <3>1. CASE j = i
      BY <1>7, <3>1
    <3>2. CASE j # i
      <4>1. EndOf(j) # s /\ EndOf(j) # e
        BY <3>2, EventsDiffer
      <4>2. Stands(EndOf(j), queue) \/ tool[j] = "running"
        BY <1>7, <1>9, <2>2, <3>2, <4>1
      <4> QED BY <1>1, <1>7, <2>1, <4>2 DEF OwnIds, StartIsKnown
    <3> QED BY <3>1, <3>2
  <2> QED BY <1>1, <1>8, <2>1, <2>2 DEF OwnIds, StartIsKnown, Pending, CallOf
<1>13. Keyless'
  <2>1. Keyless
    BY DEF LifeInv
  <2>2. ~reuse
    BY <2>1 DEF Keyless, Reusable
  <2> HIDE DEF reuse
  <2> QED BY <1>1, <1>8, <1>9, <2>1, <2>2 DEF Keyless
<1> QED BY <1>1, <1>10, <1>11, <1>12, <1>13

\* A call finishes: its end is behind its start.
LEMMA FinishLife ==
    ASSUME LifeInv, NEW i \in Ids, NEW fate \in {"done", "refused", "broken", "mute"},
           FinishTool(i, fate)
    PROVE  /\ EventsInOrder'
           /\ WellNamed' => OwnIds'
           /\ Keyless'
<1> DEFINE e == EndOf(i)
           q == Append(queue, e)
<1>1. /\ at = "tools" /\ i \in Batch /\ tool[i] = "running"
      /\ UNCHANGED <<library, calls, at, asked, tracker, ends, named>>
      /\ tool' = [tool EXCEPT ![i] = fate]
      /\ queue' \in {queue, q}
  BY DEF FinishTool, graphVars, storeVars, EndOf
<1>2. TypeInv /\ tool \in [Ids -> Fate] /\ queue \in Seq(Event) /\ EventsInOrder /\ Ordered(queue)
  BY EventQueue DEF LifeInv, BlockInv, TypeInv, TypeOK, EventsInOrder
<1>3. e \in Event /\ \A j : e # StartOf(j)
  BY EventsDiffer
<1>4. ~Stands(e, queue)
  BY <1>1, <1>2 DEF EventsInOrder, Finished
<1>5. Ordered(q) /\ \A x : Stands(x, q) <=> Stands(x, queue) \/ x = e
  <2> HIDE DEF e
  <2> QED BY <1>2, <1>3, <1>4, OneMore
<1>6. /\ Ordered(queue')
      /\ \A x : Stands(x, queue) => Stands(x, queue')
      /\ \A j \in Ids : Stands(StartOf(j), queue') => Stands(StartOf(j), queue)
      /\ \A j \in Ids : Stands(EndOf(j), queue') => Stands(EndOf(j), queue) \/ j = i
  <2>1. \A j \in Ids : (EndOf(j) = e => j = i) /\ StartOf(j) # e
    BY EventsDiffer
  <2> HIDE DEF e, q
  <2> QED BY <1>1, <1>2, <1>5, <2>1
<1>7. tool'[i] = fate /\ \A j \in Ids : j # i => tool'[j] = tool[j]
  BY <1>1, <1>2
<1>8. Batch' = Batch /\ Ids' = Ids
  BY <1>1 DEF Batch, LastRound, Ids
<1>9. EventsInOrder'
  <2>1. ASSUME NEW j \in Ids
        PROVE  /\ Stands(StartOf(j), queue') => tool'[j] # "proposed" /\ named'[j] = NotNamed
               /\ Stands(EndOf(j), queue') => tool'[j] \in Finished
               /\ tool'[j] = "proposed" => named'[j] = NotNamed
               /\ tool'[j] = "running" => at' = "tools" /\ j \in Batch'
    <3>1. CASE j = i
      <4>1. fate \in Finished /\ fate \notin {"proposed", "running"}
        BY DEF Finished, Fate
      <4> QED BY <1>1, <1>2, <1>6, <1>7, <3>1, <4>1 DEF EventsInOrder
    <3>2. CASE j # i
      BY <1>1, <1>2, <1>6, <1>7, <1>8, <3>2 DEF EventsInOrder
    <3> QED BY <3>1, <3>2
  <2>2. at' = "tools" /\ NotNamed' = NotNamed
    BY <1>1 DEF NotNamed
  <2> QED BY <1>6, <1>8, <2>1, <2>2 DEF EventsInOrder
<1>10. WellNamed' <=> WellNamed
  BY <1>1 DEF WellNamed
<1>11. ASSUME WellNamed PROVE OwnIds'
  <2>1. OwnIds
    BY <1>11 DEF LifeInv
  <2>2. ASSUME NEW j \in Ids, Stands(EndOf(j), queue') \/ tool'[j] = "running"
        PROVE  Stands(StartOf(j), queue') \/ tracker'.meta[j] = j
    <3>1. Stands(EndOf(j), queue) \/ tool[j] = "running"
      BY <1>1, <1>6, <1>7, <2>2
    <3> QED BY <1>1, <1>6, <2>1, <3>1 DEF OwnIds, StartIsKnown
  <2> QED BY <1>1, <1>8, <2>1, <2>2 DEF OwnIds, StartIsKnown, Pending, CallOf
<1>12. Keyless'
  BY <1>1, <1>7, <1>8 DEF LifeInv, Keyless
<1> QED BY <1>1, <1>9, <1>10, <1>11, <1>12

\* A start that is read under the id of its call.
LEMMA StartIsOwn ==
    ASSUME LifeInv, MapStart, WellNamed'
    PROVE  LET i == Head(queue).call
           IN  /\ WellNamed /\ i \in 1..Len(calls) /\ i \in Ids /\ i # 0
               /\ named[i] = NotNamed /\ named' = [named EXCEPT ![i] = i]
               /\ starts' = Append(starts, i)
               /\ tracker' = [tracker EXCEPT !.meta[i] = i]
               /\ \A x : Stands(x, queue) => Stands(x, queue') \/ x = StartOf(i)
<1> DEFINE i == Head(queue).call
           p == Pending(CallOf(i).tool)
           id == IF p # 0 THEN p ELSE Extracted(i)
<1>1. TypeInv /\ queue \in Seq(Event) /\ EventsInOrder /\ Ordered(queue) /\ queue # <<>>
  BY EventQueue DEF LifeInv, BlockInv, EventsInOrder, MapStart
<1>2. /\ Head(queue).kind = "start" /\ queue' = Tail(queue)
      /\ UNCHANGED calls
      /\ named' = [named EXCEPT ![i] = id]
      /\ starts' = Append(starts, id)
      /\ tracker' = IF id = 0 THEN tracker ELSE [tracker EXCEPT !.meta[id] = i]
  BY DEF MapStart, graphVars
<1>3. i \in 1..Len(calls) /\ i \in Ids /\ i # 0
  BY <1>1, ReadEvent, ToolAssumption DEF Ids
<1>4. /\ Head(queue) \in Event
      /\ \A x : Stands(x, queue) <=> Stands(x, queue') \/ x = Head(queue)
  BY <1>1, <1>2, OneLess
<1>5. Head(queue) = StartOf(i)
  BY <1>2, <1>4, EventsDiffer
<1>6. named[i] = NotNamed /\ named \in [Ids -> 0..NotNamed]
  BY <1>1, <1>3, <1>4, <1>5 DEF EventsInOrder, TypeInv, TypeOK
<1>7. id = i
  <2>1. p \in 0..MaxCalls
    BY <1>1, PendingIsAsked
  <2> HIDE DEF p
  <2>2. i \in 0..MaxCalls /\ 0 \in 0..MaxCalls /\ NotNamed \notin 0..MaxCalls
    BY <1>3, ToolAssumption DEF Ids, NotNamed
  <2>3. id \in 0..MaxCalls
    BY <2>1, <2>2 DEF Extracted
  <2>4. named'[i] \in {i, NotNamed}
    BY <1>2, <1>3 DEF WellNamed, NotNamed
  <2> HIDE DEF i, id
  <2> QED BY <1>2, <1>3, <1>6, <2>2, <2>3, <2>4
<1> HIDE DEF i, id
<1>8. ASSUME NEW j \in 1..Len(calls) PROVE named[j] \in {j, NotNamed}
  <2>1. j \in Ids /\ NotNamed' = NotNamed
    BY <1>1, MadeCalls DEF NotNamed
  <2>2. named'[j] \in {j, NotNamed}
    BY <1>2, <2>1 DEF WellNamed
  <2> QED BY <1>2, <1>6, <2>1, <2>2
<1>9. WellNamed
  BY <1>8 DEF WellNamed
<1> QED BY <1>2, <1>3, <1>4, <1>5, <1>6, <1>7, <1>9 DEF i

\* A start is read: under the id of its call, if it is read well.
LEMMA MapStartLife ==
    ASSUME LifeInv, MapStart
    PROVE  /\ EventsInOrder'
           /\ WellNamed' => OwnIds'
           /\ Keyless'
<1> DEFINE i == Head(queue).call
           p == Pending(CallOf(i).tool)
           id == IF p # 0 THEN p ELSE Extracted(i)
<1>1. TypeInv /\ queue \in Seq(Event) /\ EventsInOrder /\ Ordered(queue) /\ queue # <<>>
  BY EventQueue DEF LifeInv, BlockInv, EventsInOrder, MapStart
<1>2. /\ Head(queue).kind = "start" /\ queue' = Tail(queue)
      /\ UNCHANGED <<library, calls, at, asked, tool, ends>>
      /\ named' = [named EXCEPT ![i] = id]
      /\ tracker' = IF id = 0 THEN tracker ELSE [tracker EXCEPT !.meta[id] = i]
  BY DEF MapStart, graphVars
<1>3. i \in 1..Len(calls) /\ i \in Ids
  BY <1>1, ReadEvent
<1>4. /\ Ordered(queue') /\ Head(queue) \in Event
      /\ \A x : Stands(x, queue) <=> Stands(x, queue') \/ x = Head(queue)
      /\ ~Stands(Head(queue), queue')
  BY <1>1, <1>2, OneLess
<1>5. Head(queue) = StartOf(i)
  BY <1>2, <1>4, EventsDiffer
<1>6. /\ \A j \in Ids : Stands(StartOf(j), queue') <=> Stands(StartOf(j), queue) /\ j # i
      /\ \A j \in Ids : Stands(EndOf(j), queue') <=> Stands(EndOf(j), queue)
  <2>1. \A j \in Ids : (StartOf(j) = StartOf(i) => j = i) /\ EndOf(j) # StartOf(i)
    BY EventsDiffer
  <2> HIDE DEF i
  <2> QED BY <1>4, <1>5, <2>1
<1>7. /\ tool[i] # "proposed" /\ named[i] = NotNamed
      /\ \A j \in Ids : j # i => named'[j] = named[j]
      /\ named'[i] = id
  <2>1. named \in [Ids -> 0..NotNamed]
    BY <1>1 DEF TypeInv, TypeOK
  <2>2. Stands(StartOf(i), queue)
    BY <1>4, <1>5
  <2> HIDE DEF i, id
  <2> QED BY <1>1, <1>2, <1>3, <2>1, <2>2 DEF EventsInOrder
<1>8. Batch' = Batch /\ Ids' = Ids /\ NotNamed' = NotNamed
  BY <1>2 DEF Batch, LastRound, Ids, NotNamed
<1>9. EventsInOrder'
  <2> HIDE DEF i, id
  <2>1. ASSUME NEW j \in Ids
        PROVE  /\ Stands(StartOf(j), queue') => tool'[j] # "proposed" /\ named'[j] = NotNamed
               /\ Stands(EndOf(j), queue') => tool'[j] \in Finished
               /\ tool'[j] = "proposed" => named'[j] = NotNamed
               /\ tool'[j] = "running" => at' = "dead" \/ (at' = "tools" /\ j \in Batch')
    <3>1. CASE j = i
      BY <1>1, <1>2, <1>6, <1>7, <1>8, <3>1 DEF EventsInOrder
    <3>2. CASE j # i
      BY <1>1, <1>2, <1>6, <1>7, <1>8, <3>2 DEF EventsInOrder
    <3> QED BY <3>1, <3>2
  <2>2. at' \notin {"gate", "waiting"}
    BY <1>1, <1>2 DEF EventsInOrder
  <2> QED BY <1>4, <1>8, <2>1, <2>2 DEF EventsInOrder
<1>10. ASSUME WellNamed' PROVE WellNamed /\ id = i
  <2>1. WellNamed /\ named' = [named EXCEPT ![i] = i] /\ named \in [Ids -> 0..NotNamed]
    BY <1>1, <1>10, StartIsOwn DEF TypeInv, TypeOK
  <2> HIDE DEF i, id
  <2> QED BY <1>3, <1>7, <2>1
<1>11. i # 0
  BY <1>3, ToolAssumption DEF Ids
<1>12. ASSUME WellNamed' PROVE OwnIds'
  <2>1. OwnIds /\ id = i
    BY <1>10, <1>12 DEF LifeInv
  <2>2. p = i \/ (library.ids /\ p = 0)
    BY <1>11, <2>1 DEF Extracted
  <2>3. /\ tracker'.meta[i] = i
        /\ \A c \in Ids : c # i => tracker'.meta[c] = tracker.meta[c]
    <3>1. tracker \in [meta : [Ids -> 0..MaxCalls], ended : SUBSET Ids]
      BY <1>1 DEF TypeInv
    <3>2. tracker' = [tracker EXCEPT !.meta[i] = i]
      BY <1>2, <1>11, <2>1
    <3> HIDE DEF i
    <3> QED BY <1>3, <3>1, <3>2
  <2>4. ASSUME NEW j \in Ids, Stands(EndOf(j), queue') \/ (at' = "tools" /\ tool'[j] = "running")
        PROVE  Stands(StartOf(j), queue') \/ tracker'.meta[j] = j
    <3> HIDE DEF i
    <3>1. StartIsKnown(j)
      BY <1>2, <1>6, <2>1, <2>4 DEF OwnIds
    <3> QED BY <1>6, <2>3, <3>1 DEF StartIsKnown
  <2>5. \A c \in Ids : tracker'.meta[c] \in {0, c} /\ (tracker'.meta[c] = c => named'[c] = c)
    <3> HIDE DEF i, id
    <3> QED BY <1>7, <2>1, <2>3 DEF OwnIds
  <2>6. ASSUME NEW c \in 1..Len(calls'), ~library'.ids, named'[c] = c
        PROVE  Pending(CallOf(c).tool)' = c
    <3>1. Pending(CallOf(c).tool)' = Pending(CallOf(c).tool)
      <4>1. asked' = asked /\ calls' = calls
        BY <1>2
      <4> QED BY <4>1 DEF Pending, CallOf
    <3>2. c \in 1..Len(calls) /\ c \in Ids
      BY <1>1, <1>2, MadeCalls
    <3>3. CASE c = i
      BY <1>2, <2>2, <2>6, <3>1, <3>3
    <3>4. CASE c # i
      BY <1>2, <1>7, <2>1, <2>6, <3>1, <3>2, <3>4 DEF OwnIds
    <3> QED BY <3>3, <3>4
  <2> QED BY <1>8, <2>4, <2>5, <2>6 DEF OwnIds, StartIsKnown
<1>13. Keyless'
  BY <1>2, <1>8 DEF LifeInv, Keyless
<1> QED BY <1>2, <1>9, <1>12, <1>13

\* An end whose start was read under the id of its call is resolved to that id.
LEMMA ResolvedToItself ==
    ASSUME OwnIds, NEW i \in 1..Len(calls), i \in Ids, tracker.meta[i] = i
    PROVE  ResolveId(i) = i /\ IsOpen(i) /\ KeyUnder(i) = NoKey
<1>1. i # 0 /\ IsOpen(i)
  BY ToolAssumption DEF Ids, IsOpen
<1>2. KeyUnder(i) = NoKey
  BY NoKeyUnder
<1>3. named[i] = i
  BY DEF OwnIds
<1> DEFINE name == CallOf(i).tool
           same == {c \in Ids : IsOpen(c) /\ CallOf(tracker.meta[c]).tool = name
                                          /\ c \notin tracker.ended}
           open == {c \in Ids : IsOpen(c)}
           rest == IF same # {} THEN CHOOSE c \in same : TRUE
                   ELSE IF Cardinality(open) = 1 THEN CHOOSE c \in open : TRUE
                   ELSE Extracted(i)
<1>4. ResolveId(i) = CASE IsOpen(Extracted(i)) -> Extracted(i)
         [] ~IsOpen(Extracted(i)) /\ IsOpen(Pending(name)) -> Pending(name)
         [] OTHER -> rest
  BY DEF ResolveId
<1> HIDE DEF rest, name
<1>5. CASE library.ids
  <2>1. Extracted(i) = i
    BY <1>5 DEF Extracted
  <2> QED BY <1>1, <1>2, <1>4, <2>1
<1>6. CASE ~library.ids
  <2>1. Extracted(i) = 0 /\ ~IsOpen(0)
    BY <1>6 DEF Extracted, IsOpen
  <2>2. Pending(name) = i
    BY <1>6, <1>3 DEF OwnIds, name
  <2> QED BY <1>1, <1>2, <1>4, <2>1, <2>2
<1> QED BY <1>1, <1>2, <1>5, <1>6

\* An end is read: it is that of the call whose start was read before.
LEMMA EndIsOwn ==
    ASSUME LifeInv, MapEnd, WellNamed
    PROVE  LET i == Head(queue).call
           IN  /\ i \in 1..Len(calls) /\ i \in Ids /\ i # 0 /\ Head(queue) = EndOf(i)
               /\ tracker.meta[i] = i /\ named[i] = i /\ ~Stands(StartOf(i), queue)
               /\ tool[i] \in Finished
               /\ ResolveId(i) = i /\ IsOpen(i) /\ KeyUnder(i) = NoKey
<1> DEFINE i == Head(queue).call
<1>1. TypeInv /\ queue \in Seq(Event) /\ EventsInOrder /\ Ordered(queue) /\ queue # <<>>
      /\ OwnIds /\ Head(queue).kind = "end"
  BY EventQueue DEF LifeInv, BlockInv, EventsInOrder, MapEnd
<1>2. i \in 1..Len(calls) /\ i \in Ids /\ i # 0
  BY <1>1, ReadEvent, ToolAssumption DEF Ids
<1>3. Head(queue) \in Event /\ \A x : x = Head(queue) => Stands(x, queue)
      /\ \A j \in Ids : Head(queue) = EndOf(j) => ~Stands(StartOf(j), queue)
  BY <1>1, OneLess
<1>4. Head(queue) = EndOf(i)
  BY <1>1, <1>3, EventsDiffer
<1>5. Stands(EndOf(i), queue) /\ ~Stands(StartOf(i), queue)
  BY <1>2, <1>3, <1>4
<1>6. tracker.meta[i] = i /\ named[i] = i
  BY <1>1, <1>2, <1>5 DEF OwnIds, StartIsKnown
<1>7. tool[i] \in Finished
  BY <1>1, <1>2, <1>5 DEF EventsInOrder
<1> QED BY <1>1, <1>2, <1>4, <1>5, <1>6, <1>7, ResolvedToItself

LEMMA MapEndLife ==
    ASSUME LifeInv, MapEnd
    PROVE  /\ EventsInOrder'
           /\ WellNamed' => OwnIds'
           /\ Keyless'
<1> DEFINE i == Head(queue).call
           id == ResolveId(i)
<1>1. TypeInv /\ queue \in Seq(Event) /\ EventsInOrder /\ Ordered(queue) /\ queue # <<>>
  BY EventQueue DEF LifeInv, BlockInv, EventsInOrder, MapEnd
<1>2. /\ Head(queue).kind = "end" /\ queue' = Tail(queue)
      /\ UNCHANGED <<library, calls, at, asked, tool, named>>
  BY DEF MapEnd, graphVars
<1>3. i \in 1..Len(calls) /\ i \in Ids
  BY <1>1, ReadEvent
<1>4. /\ Ordered(queue') /\ Head(queue) \in Event
      /\ \A x : Stands(x, queue) <=> Stands(x, queue') \/ x = Head(queue)
      /\ ~Stands(Head(queue), queue')
  BY <1>1, <1>2, OneLess
<1>5. Head(queue) = EndOf(i)
  BY <1>2, <1>4, EventsDiffer
<1>6. /\ \A j \in Ids : Stands(StartOf(j), queue') <=> Stands(StartOf(j), queue)
      /\ \A j \in Ids : Stands(EndOf(j), queue') <=> Stands(EndOf(j), queue) /\ j # i
  <2>1. \A j \in Ids : (EndOf(j) = EndOf(i) => j = i) /\ StartOf(j) # EndOf(i)
    BY EventsDiffer
  <2> HIDE DEF i
  <2> QED BY <1>4, <1>5, <2>1
<1>7. Batch' = Batch /\ Ids' = Ids /\ NotNamed' = NotNamed
  BY <1>2 DEF Batch, LastRound, Ids, NotNamed
<1>8. EventsInOrder'
  <2>1. at' \notin {"gate", "waiting"}
    BY <1>1, <1>2 DEF EventsInOrder
  <2> QED BY <1>1, <1>2, <1>4, <1>6, <1>7, <2>1 DEF EventsInOrder
<1>9. WellNamed' <=> WellNamed
  BY <1>2, <1>7 DEF WellNamed
<1>10. ASSUME WellNamed
       PROVE  /\ tracker.meta[i] = i /\ named[i] = i /\ ~Stands(StartOf(i), queue)
              /\ tool[i] \in Finished /\ id = i /\ KeyUnder(i) = NoKey /\ i # 0
  BY <1>10, EndIsOwn
<1>11. ASSUME WellNamed PROVE OwnIds'
  <2>1. OwnIds
    BY <1>11 DEF LifeInv
  <2>2. /\ tracker'.meta[i] \in {0, i}
        /\ \A c \in Ids : c # i => tracker'.meta[c] = tracker.meta[c]
    <3>1. tracker \in [meta : [Ids -> 0..MaxCalls], ended : SUBSET Ids]
      BY <1>1 DEF TypeInv
    <3>2. tracker' = tracker \/ tracker' = [meta |-> [tracker.meta EXCEPT ![i] = 0],
                                            ended |-> tracker.ended \cup {i}]
      BY <1>10, <1>11 DEF MapEnd
    <3>3. tracker.meta[i] = i
      BY <1>10, <1>11
    <3> HIDE DEF i
    <3> QED BY <1>3, <3>1, <3>2, <3>3
  <2>3. ASSUME NEW j \in Ids, Stands(EndOf(j), queue') \/ (at' = "tools" /\ tool'[j] = "running")
        PROVE  Stands(StartOf(j), queue') \/ tracker'.meta[j] = j
    <3>1. j # i
      BY <1>2, <1>6, <1>10, <1>11, <2>3 DEF Finished
    <3> HIDE DEF i
    <3>2. StartIsKnown(j)
      BY <1>2, <1>6, <2>1, <2>3 DEF OwnIds
    <3> QED BY <1>6, <2>2, <3>1, <3>2 DEF StartIsKnown
  <2>4. \A c \in Ids : tracker'.meta[c] \in {0, c} /\ (tracker'.meta[c] = c => named'[c] = c)
    <3>1. named[i] = i
      BY <1>10, <1>11
    <3> HIDE DEF i, id
    <3> QED BY <1>2, <2>1, <2>2, <3>1 DEF OwnIds
  <2>5. ASSUME NEW c \in 1..Len(calls'), ~library'.ids, named'[c] = c
        PROVE  Pending(CallOf(c).tool)' = c
    <3>1. Pending(CallOf(c).tool)' = Pending(CallOf(c).tool)
      BY <1>2 DEF Pending, CallOf
    <3> QED BY <1>2, <2>1, <2>5, <3>1 DEF OwnIds
  <2> QED BY <1>7, <2>3, <2>4, <2>5 DEF OwnIds, StartIsKnown
<1>12. Keyless'
  <2>1. Keyless
    BY DEF LifeInv
  <2> DEFINE end == [id |-> id, success |-> Success(i),
                     key |-> IF IsPost(i) THEN KeyUnder(id) ELSE NoKey]
  <2>2. ends' \in {ends, Append(ends, end)}
    BY DEF MapEnd, StoredEnd
  <2>3. ends \in Seq(End) /\ ends' \in Seq(End)
    BY <1>1, MapEndTypes DEF TypeInv, TypeOK
  <2>4. end.key = NoKey
    BY NoKeyUnder
  <2>5. ASSUME NEW k \in 1..Len(ends') PROVE ends'[k].key = NoKey
    <3> HIDE DEF end
    <3>1. (k \in 1..Len(ends) /\ ends'[k] = ends[k]) \/ ends'[k] = end
      BY <2>2, <2>3
    <3> QED BY <2>1, <2>4, <3>1 DEF Keyless
  <2> QED BY <1>2, <1>7, <2>1, <2>5 DEF Keyless
<1> QED BY <1>2, <1>8, <1>9, <1>11, <1>12

\* What the end of the stream adds has no key.
LEMMA StreamEndsLife ==
    ASSUME LifeInv, StreamEnds
    PROVE  /\ EventsInOrder'
           /\ WellNamed' => OwnIds'
           /\ Keyless'
<1>1. /\ at = "ending" /\ at' = "done" /\ queue = <<>>
      /\ UNCHANGED <<library, calls, asked, tool, queue, tracker, named>>
      /\ TypeInv /\ EventsInOrder
  BY DEF StreamEnds, graphVars, LifeInv, BlockInv
<1>2. Batch' = Batch /\ Ids' = Ids /\ NotNamed' = NotNamed /\ \A e : ~Stands(e, queue)
  BY <1>1, NoEvents DEF Batch, LastRound, Ids, NotNamed
<1>3. EventsInOrder'
  BY <1>1, <1>2 DEF EventsInOrder
<1>4. WellNamed' <=> WellNamed
  BY <1>1, <1>2 DEF WellNamed
<1>5. ASSUME WellNamed PROVE OwnIds'
  <2>1. OwnIds
    BY <1>5 DEF LifeInv
  <2> QED BY <1>1, <1>2, <2>1 DEF OwnIds, StartIsKnown, Pending, CallOf
<1>6. Keyless'
  <2>1. Keyless
    BY DEF LifeInv
  <2>2. PICK more \in Seq(End) : /\ ends' = ends \o more
                                 /\ \A k \in 1..Len(more) : more[k].key = NoKey
    BY <1>1, StreamEndsForm
  <2>3. ends \in Seq(End)
    BY <1>1 DEF TypeInv, TypeOK
  <2>4. \A k \in 1..Len(ends') : \/ k \in 1..Len(ends) /\ ends'[k] = ends[k]
                                 \/ k - Len(ends) \in 1..Len(more) /\ ends'[k] = more[k - Len(ends)]
    BY <2>2, <2>3
  <2> QED BY <1>1, <1>2, <2>1, <2>2, <2>4 DEF Keyless
<1> QED BY <1>1, <1>3, <1>4, <1>5, <1>6

LEMMA LifeStep ==
    ASSUME LifeInv, [Next]_vars
    PROVE  LifeInv'
<1>1. BlockInv'
  BY BlockStep DEF LifeInv
<1>2. SUFFICES /\ EventsInOrder'
               /\ WellNamed' => OwnIds'
               /\ Keyless'
  BY <1>1 DEF LifeInv
<1>3. TypeInv /\ EventsInOrder /\ AskedOnce
  BY DEF LifeInv, BlockInv
<1>4. CASE Propose
  BY <1>4, ProposeLife
<1>5. CASE \E i \in Ids : StartTool(i)
  BY <1>5, StartLife
<1>6. CASE \E i \in Ids, fate \in {"done", "refused", "broken", "mute"} : FinishTool(i, fate)
  BY <1>6, FinishLife
<1>7. CASE MapStart
  BY <1>7, MapStartLife
<1>8. CASE MapEnd
  BY <1>8, MapEndLife
<1>9. CASE StreamEnds
  BY <1>9, StreamEndsLife
<1>10. at \notin {"tools", "dead"} => \A i \in Ids : tool[i] # "running"
  BY <1>3 DEF EventsInOrder
<1>11. at \in {"gate", "waiting"} => queue = <<>>
  BY <1>3 DEF EventsInOrder
<1>12. CASE ToolsDone
  <2>1. \A i \in Ids : tool[i] # "running"
    BY <1>3, <1>12 DEF EventsInOrder, ToolsDone, Finished
  <2> QED BY <1>12, <2>1, ControlLife DEF ToolsDone, graphVars, storeVars
<1>13. CASE Answer \/ GateRejected \/ GateAllows
  BY <1>10, <1>11, <1>13, ControlLife DEF Answer, GateRejected, GateAllows, graphVars, storeVars
<1>14. CASE GateDenies \/ GateBlocksRoute
  BY <1>10, <1>11, <1>14, ControlLife DEF GateDenies, GateBlocksRoute, Block, graphVars
<1>15. CASE GateAsks
  <2>1. asked = {}
    BY <1>3, <1>15 DEF AskedOnce, GateAsks
  <2> QED BY <1>10, <1>11, <1>15, <2>1, ControlLife DEF GateAsks, storeVars
<1>16. CASE Approve \/ Reject \/ Resume
  BY <1>10, <1>11, <1>16, ControlLife DEF Approve, Reject, Resume, Block, storeVars
<1>17. CASE Cancel
  BY <1>17, ControlLife DEF Cancel, graphVars, storeVars
<1>18. CASE Crash
  <2>1. \A i \in Ids : tool[i] = "running" => at' = "dead"
    BY <1>10, <1>18 DEF Crash
  <2>2. /\ UNCHANGED <<library, calls, tool, named, ends, tracker, asked>>
        /\ queue' = <<>>
    BY <1>18 DEF Crash, storeVars
  <2> QED BY <2>1, <2>2, ControlLife
<1>19. CASE UNCHANGED vars
  <2>1. \A name : Pending(name)' = Pending(name)
    BY <1>19 DEF vars, Pending, CallOf
  <2> QED BY <1>19, <2>1
          DEF vars, LifeInv, EventsInOrder, OwnIds, Keyless, WellNamed, StartIsKnown,
              Started, IsPost, CallOf, Batch, LastRound, Ids, NotNamed
<1> QED
  BY <1>4, <1>5, <1>6, <1>7, <1>8, <1>9, <1>12, <1>13, <1>14, <1>15, <1>16, <1>17, <1>18, <1>19
     DEF Next, Gate, Tools, Mapper

LEMMA LifeInit ==
    ASSUME Init
    PROVE  LifeInv
<1>1. BlockInv
  BY BlockInit
<1>2. /\ calls = <<>> /\ Len(calls) = 0 /\ queue = <<>> /\ ends = <<>> /\ Len(ends) = 0
      /\ tool = [i \in Ids |-> "proposed"] /\ named = [i \in Ids |-> NotNamed]
      /\ tracker.meta = [i \in Ids |-> 0] /\ at = "assistant"
  BY DEF Init, FreshTracker
<1>3. EventsInOrder
  BY <1>2, NoEvents DEF EventsInOrder
<1>4. OwnIds
  <2>1. \A c \in Ids : c # 0
    BY ToolAssumption DEF Ids
  <2> QED BY <1>2, <2>1, NoEvents DEF OwnIds
<1>5. Keyless
  BY <1>2 DEF Keyless
<1> QED BY <1>1, <1>3, <1>4, <1>5 DEF LifeInv

-----------------------------------------------------------------------------
(* The ledger.  A start that was read leads to one end and, if it is that of  *)
(* a write, to one record, before the stream ends or by what the stream adds  *)
(* when it ends.                                                              *)

StartIds == {starts[k] : k \in 1..Len(starts)}
EndIds == {ends[k].id : k \in 1..Len(ends)}

StoredOnce ==
    /\ \A k, l \in 1..Len(starts) : starts[k] = starts[l] => k = l
    /\ \A k, l \in 1..Len(ends) : ends[k].id = ends[l].id => k = l
    /\ StartIds = {c \in Ids : named[c] = c}
    /\ EndIds \subseteq StartIds /\ tracker.ended \subseteq EndIds
    /\ \A i \in EndIds : tool[i] \in Finished
    /\ at # "done" => \A i \in EndIds : tracker.meta[i] # i

\* The run paused after the call, and went on in a stream with a new mapper.
Overtaken(i) == \E j \in asked : calls[j].round > calls[i].round

\* Nothing is lost while the run is not dead.
NoneIsLost ==
    /\ at # "dead" => \A i \in Started :
          /\ named[i] = i \/ Stands(StartOf(i), queue)
          /\ tool[i] \in Finished =>
                \/ i \in EndIds \/ Stands(EndOf(i), queue)
                \/ tool[i] \in Raised /\ ~library.errors
    /\ at \notin {"dead", "done"} => \A i \in Started :
          named[i] = i => i \in EndIds \/ tracker.meta[i] = i \/ Overtaken(i)
    /\ at = "done" => Started \subseteq EndIds

IsReport(k) == ledger[k].status # "blocked"

Reports ==
    /\ \A k \in 1..Len(ledger) :
          IsReport(k) => \E i \in EndIds : ledger[k].id = i /\ ledger[k].status \in Truth(i)
    /\ \A k, l \in 1..Len(ledger) :
          IsReport(k) /\ IsReport(l) /\ ledger[k].id = ledger[l].id => k = l
    /\ \A i \in EndIds : IsPost(i) =>
          \/ \E k \in 1..Len(ledger) : IsReport(k) /\ ledger[k].id = i
          \/ at = "done" /\ LostWithStream(i)

LedgerInv ==
    /\ LifeInv
    /\ at = "done" => queue = <<>>
    /\ WellNamed => StoredOnce /\ NoneIsLost /\ Reports

LEMMA TruthKept ==
    ASSUME NEW i, library' = library, tool'[i] = tool[i]
    PROVE  Truth(i)' = Truth(i)
  BY DEF Truth

\* The record of a finished call is true.
LEMMA StatusIsTrue ==
    ASSUME NEW i \in Ids, tool[i] \in Finished, Keyless
    PROVE  Status(i) \in Truth(i) /\ Status(i) # "blocked"
<1>1. tool[i] \in {"done", "refused", "broken", "mute"}
  BY DEF Finished, Fate, Keyless
<1>2. Raised = {"broken", "mute"}
  BY DEF Raised
<1>3. CASE tool[i] = "broken"
  BY <1>2, <1>3 DEF Status, Truth, Success
<1>4. CASE tool[i] = "mute"
  BY <1>2, <1>4 DEF Status, Truth, Success
<1>6. CASE tool[i] = "refused"
  BY <1>2, <1>6 DEF Status, Truth, Success
<1>7. CASE tool[i] = "done"
  BY <1>2, <1>7 DEF Status, Truth, Success
<1> QED BY <1>1, <1>3, <1>4, <1>6, <1>7

LEMMA UnknownIsTrue ==
    ASSUME NEW i, tool[i] \in Raised
    PROVE  "unknown" \in Truth(i)
  BY DEF Truth, Raised

\* A call whose start was read was started.
LEMMA ReadIsStarted ==
    ASSUME LedgerInv, StoredOnce
    PROVE  /\ StartIds \subseteq Started /\ EndIds \subseteq Started
           /\ Started \subseteq 1..Len(calls) /\ Started \subseteq Ids
           /\ \A c \in Ids : named[c] = c => c \in Started /\ c # NotNamed
<1>1. TypeInv /\ EventsInOrder /\ StartedIsMade
  BY DEF LedgerInv, LifeInv, BlockInv, GateInv, Pre
<1>2. \A c \in Ids : c # NotNamed
  BY ToolAssumption DEF Ids, NotNamed
<1>3. \A c \in Ids : named[c] = c => c \in Started
  BY <1>1, <1>2 DEF EventsInOrder, StartedIsMade, Started
<1>4. Started \subseteq 1..Len(calls) /\ Started \subseteq Ids
  BY <1>1, MadeCalls DEF Started
<1> QED BY <1>2, <1>3, <1>4 DEF StoredOnce

\* Steps that read no event and run no call.
LEMMA QuietLedger ==
    ASSUME LedgerInv, WellNamed, UNCHANGED <<library, tool, starts, ends, named>>,
           \A i \in 1..Len(calls) : i \in 1..Len(calls') /\ calls'[i] = calls[i],
           Started' = Started, at # "done", at' # "done", at = "dead" => at' = "dead",
           at' = "dead" \/ queue' = queue,
           asked \subseteq asked', asked \subseteq 1..Len(calls),
           \/ tracker' = tracker
           \/ tracker' = FreshTracker /\ \A i \in Started : Overtaken(i),
           \A k \in 1..Len(ledger) : k \in 1..Len(ledger') /\ ledger'[k] = ledger[k],
           \A k \in 1..Len(ledger') : ledger'[k].status # "blocked" => k \in 1..Len(ledger)
    PROVE  StoredOnce' /\ NoneIsLost' /\ Reports'
<1>1. StoredOnce /\ NoneIsLost /\ Reports
  BY DEF LedgerInv
<1>2. EndIds' = EndIds /\ StartIds' = StartIds /\ Ids' = Ids
  BY DEF EndIds, StartIds, Ids
<1>3. EndIds \subseteq Started /\ Started \subseteq 1..Len(calls) /\ Started \subseteq Ids
  BY <1>1, ReadIsStarted
<1>4. \A i \in Ids : i # 0
  BY ToolAssumption DEF Ids
<1>5. StoredOnce'
  <2>1. tracker'.ended \subseteq tracker.ended
        /\ \A i \in Ids : tracker'.meta[i] \in {tracker.meta[i], 0}
    BY DEF FreshTracker
  <2>2. \A i \in EndIds : tracker'.meta[i] # i
    BY <1>1, <1>3, <1>4, <2>1 DEF StoredOnce
  <2> QED BY <1>1, <1>2, <2>1, <2>2 DEF StoredOnce
<1>6. NoneIsLost'
  <2>1. ASSUME NEW i \in Started, Overtaken(i) PROVE Overtaken(i)'
    BY <1>3, <2>1 DEF Overtaken
  <2>2. ASSUME at' # "dead", NEW i \in Started, named[i] = i
        PROVE  i \in EndIds \/ tracker'.meta[i] = i \/ Overtaken(i)'
    BY <1>1, <2>1, <2>2 DEF NoneIsLost
  <2> QED BY <1>1, <1>2, <2>2 DEF NoneIsLost
<1>7. Reports'
  <2>1. \A k \in 1..Len(ledger') : IsReport(k)' <=> k \in 1..Len(ledger) /\ IsReport(k)
    BY DEF IsReport
  <2>2. \A i : Truth(i)' = Truth(i)
    BY TruthKept
  <2>3. ASSUME NEW i \in EndIds, IsPost(i)'
        PROVE  \E k \in 1..Len(ledger') : IsReport(k)' /\ ledger'[k].id = i
    <3>1. IsPost(i)
      BY <1>3, <2>3 DEF IsPost, CallOf
    <3>2. PICK k \in 1..Len(ledger) : IsReport(k) /\ ledger[k].id = i
      BY <1>1, <3>1 DEF Reports
    <3> QED BY <2>1, <3>2
  <2>4. \A k \in 1..Len(ledger') : IsReport(k)' =>
            \E i \in EndIds' : ledger'[k].id = i /\ ledger'[k].status \in Truth(i)'
    BY <1>1, <1>2, <2>1, <2>2 DEF Reports
  <2>5. \A k, l \in 1..Len(ledger') :
            IsReport(k)' /\ IsReport(l)' /\ ledger'[k].id = ledger'[l].id => k = l
    BY <1>1, <2>1 DEF Reports
  <2> QED BY <1>2, <2>3, <2>4, <2>5 DEF Reports
<1> QED BY <1>5, <1>6, <1>7

LEMMA StandsBefore ==
    ASSUME NEW q \in Seq(Event), NEW e \in Event
    PROVE  /\ \A x : Stands(x, Append(q, e)) <=> Stands(x, q) \/ x = e
<1> HIDE DEF Event
<1>1. /\ Len(q) \in Nat /\ Len(Append(q, e)) = Len(q) + 1 /\ Append(q, e)[Len(q) + 1] = e
      /\ \A k \in 1..Len(q) : Append(q, e)[k] = q[k]
  OBVIOUS
<1>2. \A k \in 1..Len(q) + 1 : k \in 1..Len(q) \/ k = Len(q) + 1
  BY <1>1
<1>3. Len(q) + 1 \in 1..Len(q) + 1 /\ 1..Len(q) \subseteq 1..Len(q) + 1
  BY <1>1
<1> QED BY <1>1, <1>2, <1>3 DEF Stands

\* A call starts or finishes.
LEMMA ToolLedger ==
    ASSUME LedgerInv, WellNamed, NEW i \in Ids, NEW f \in Fate,
           UNCHANGED <<library, calls, at, asked, tracker, starts, ends, ledger, named>>,
           at = "tools", i \in Batch, tool[i] \notin Finished,
           tool' = [tool EXCEPT ![i] = f], f # "proposed",
           \A x : Stands(x, queue) => Stands(x, queue'),
           tool[i] = "proposed" => Stands(StartOf(i), queue'),
           f \in Finished => Stands(EndOf(i), queue') \/ (f \in Raised /\ ~library.errors)
    PROVE  StoredOnce' /\ NoneIsLost' /\ Reports'
<1>1. StoredOnce /\ NoneIsLost /\ Reports
  BY DEF LedgerInv
<1>2. EndIds' = EndIds /\ StartIds' = StartIds /\ Ids' = Ids
  BY DEF EndIds, StartIds, Ids
<1>3. i \notin EndIds /\ EndIds \subseteq Ids /\ Started \subseteq Ids
  BY <1>1, ReadIsStarted DEF StoredOnce
<1>4. tool'[i] = f /\ \A j \in Ids : j # i => tool'[j] = tool[j]
  BY DEF LedgerInv, LifeInv, BlockInv, TypeInv, TypeOK
<1>5. Started' = Started \cup {i}
  <2>1. TypeInv /\ i \in 1..Len(calls) /\ 1..Len(calls) \subseteq Ids
    BY MadeCalls DEF LedgerInv, LifeInv, BlockInv, Batch
  <2> QED BY <1>4, <2>1 DEF Started
<1>6. StoredOnce'
  BY <1>1, <1>2, <1>3, <1>4 DEF StoredOnce
<1>7. NoneIsLost'
  <2>1. ASSUME NEW j \in Started'
        PROVE  /\ named'[j] = j \/ Stands(StartOf(j), queue')
               /\ tool'[j] \in Finished =>
                    \/ j \in EndIds' \/ Stands(EndOf(j), queue')
                    \/ tool'[j] \in Raised /\ ~library'.errors
    <3>1. CASE j = i
      <4>1. tool[i] # "proposed" => i \in Started
        BY <3>1 DEF LedgerInv, LifeInv, BlockInv, GateInv, Pre, StartedIsMade, Started
      <4> QED BY <1>1, <1>4, <3>1, <4>1 DEF NoneIsLost
    <3>2. CASE j # i
      BY <1>1, <1>2, <1>3, <1>4, <1>5, <3>2 DEF NoneIsLost
    <3> QED BY <3>1, <3>2
  <2>2. ASSUME NEW j \in Started', named'[j] = j
        PROVE  j \in EndIds' \/ tracker'.meta[j] = j \/ Overtaken(j)'
    <3>1. j \in Started
      <4>1. j \in Ids
        BY <1>3, <1>5
      <4> QED BY <1>1, <2>2, <4>1, ReadIsStarted
    <3> QED BY <1>1, <1>2, <2>2, <3>1 DEF NoneIsLost, Overtaken
  <2> QED BY <2>1, <2>2 DEF NoneIsLost
<1>8. Reports'
  <2>1. \A k : IsReport(k)' = IsReport(k)
    BY DEF IsReport
  <2>2. \A j \in EndIds : Truth(j)' = Truth(j)
    BY <1>3, <1>4, TruthKept
  <2>3. \A j : IsPost(j)' = IsPost(j)
    BY DEF IsPost, CallOf
  <2>4. ASSUME NEW k \in 1..Len(ledger'), IsReport(k)'
        PROVE  \E j \in EndIds' : ledger'[k].id = j /\ ledger'[k].status \in Truth(j)'
    BY <1>1, <1>2, <2>1, <2>2, <2>4 DEF Reports
  <2> QED BY <1>1, <1>2, <2>1, <2>3, <2>4 DEF Reports
<1> QED BY <1>6, <1>7, <1>8

LEMMA MapStartLedger ==
    ASSUME LedgerInv, MapStart, WellNamed'
    PROVE  StoredOnce' /\ NoneIsLost' /\ Reports'
<1> DEFINE i == Head(queue).call
<1>1. /\ WellNamed /\ i \in 1..Len(calls) /\ i \in Ids /\ i # 0
      /\ named[i] = NotNamed /\ named' = [named EXCEPT ![i] = i]
      /\ starts' = Append(starts, i)
      /\ tracker' = [tracker EXCEPT !.meta[i] = i]
      /\ \A x : Stands(x, queue) => Stands(x, queue') \/ x = StartOf(i)
  BY StartIsOwn DEF LedgerInv
<1> HIDE DEF i
<1>2. /\ UNCHANGED <<library, calls, at, asked, tool, ends, ledger>>
      /\ at # "done"
  BY DEF MapStart, graphVars, LedgerInv
<1>3. StoredOnce /\ NoneIsLost /\ Reports
  BY <1>1 DEF LedgerInv
<1>4. /\ EndIds' = EndIds /\ Ids' = Ids /\ Started' = Started
      /\ \A j : Truth(j)' = Truth(j) /\ IsPost(j)' = IsPost(j) /\ IsReport(j)' = IsReport(j)
      /\ \A j : Overtaken(j)' = Overtaken(j)
  <2>1. EndIds' = EndIds /\ Ids' = Ids /\ Started' = Started
    BY <1>2 DEF EndIds, Ids, Started
  <2>2. ASSUME NEW j
        PROVE /\ Truth(j)' = Truth(j) /\ IsPost(j)' = IsPost(j) /\ IsReport(j)' = IsReport(j)
              /\ Overtaken(j)' = Overtaken(j)
    <3>1. Truth(j)' = Truth(j)
      BY <1>2, TruthKept
    <3> QED BY <1>2, <3>1 DEF IsPost, CallOf, IsReport, Overtaken
  <2> QED BY <2>1, <2>2
<1>5. /\ EndIds \subseteq Ids /\ Started \subseteq Ids /\ i \in Started
      /\ i \notin StartIds /\ i \notin EndIds
  <2>1. named[i] # i
    BY <1>1, ToolAssumption DEF Ids, NotNamed
  <2>2. named'[i] = i
    BY <1>1 DEF LedgerInv, LifeInv, BlockInv, TypeInv, TypeOK
  <2>3. i \in Started
    <3>1. TypeInv /\ queue \in Seq(Event) /\ Ordered(queue) /\ queue # <<>>
          /\ EventsInOrder /\ Head(queue).kind = "start"
      BY EventQueue DEF LedgerInv, LifeInv, BlockInv, EventsInOrder, MapStart
    <3>2. Head(queue) = StartOf(i) /\ Stands(Head(queue), queue)
      BY <3>1, OneLess, EventsDiffer DEF i
    <3> QED BY <1>1, <3>1, <3>2 DEF EventsInOrder, Started
  <2> QED BY <1>3, <2>1, <2>3, ReadIsStarted DEF StoredOnce
<1>6. /\ named'[i] = i /\ \A j \in Ids : j # i => named'[j] = named[j]
      /\ tracker'.meta[i] = i /\ \A j \in Ids : j # i => tracker'.meta[j] = tracker.meta[j]
      /\ tracker'.ended = tracker.ended
  <2>1. /\ named \in [Ids -> 0..NotNamed]
        /\ tracker \in [meta : [Ids -> 0..MaxCalls], ended : SUBSET Ids]
    BY DEF LedgerInv, LifeInv, BlockInv, TypeInv, TypeOK
  <2> QED BY <1>1, <2>1
<1>7. /\ \A k \in 1..Len(starts') : \/ k \in 1..Len(starts) /\ starts'[k] = starts[k]
                                    \/ k = Len(starts') /\ starts'[k] = i
      /\ \A k \in 1..Len(starts) : k \in 1..Len(starts') /\ starts'[k] = starts[k]
      /\ Len(starts') \in 1..Len(starts') /\ starts'[Len(starts')] = i
  <2> DEFINE T == 0..MaxCalls
  <2>1. starts \in Seq(T) /\ i \in T
    BY <1>1 DEF LedgerInv, LifeInv, BlockInv, TypeInv, TypeOK, Ids
  <2> HIDE DEF T
  <2> QED BY <1>1, <2>1
<1>8. StoredOnce'
  <2>1. StartIds' = StartIds \cup {i}
    BY <1>7 DEF StartIds
  <2>2. ASSUME NEW k \in 1..Len(starts'), NEW l \in 1..Len(starts'), starts'[k] = starts'[l]
        PROVE  k = l
    <3>1. \A m \in 1..Len(starts) : starts[m] # i
      BY <1>5 DEF StartIds
    <3> QED BY <1>3, <1>7, <2>2, <3>1 DEF StoredOnce
  <2>3. StartIds' = {c \in Ids : named'[c] = c}
    BY <1>1, <1>3, <1>6, <2>1 DEF StoredOnce
  <2>4. \A j \in EndIds : tracker'.meta[j] # j
    BY <1>2, <1>3, <1>5, <1>6 DEF StoredOnce
  <2>5. /\ \A k, l \in 1..Len(ends') : ends'[k].id = ends'[l].id => k = l
        /\ EndIds \subseteq StartIds' /\ tracker'.ended \subseteq EndIds
        /\ \A j \in EndIds : tool'[j] \in Finished
    BY <1>2, <1>3, <1>6, <2>1 DEF StoredOnce
  <2> QED BY <1>4, <2>2, <2>3, <2>4, <2>5 DEF StoredOnce
<1>9. NoneIsLost'
  <2>1. ASSUME at # "dead", NEW j \in Started
        PROVE  /\ named'[j] = j \/ Stands(StartOf(j), queue')
               /\ tool[j] \in Finished =>
                     \/ j \in EndIds \/ Stands(EndOf(j), queue')
                     \/ tool[j] \in Raised /\ ~library.errors
               /\ named'[j] = j => j \in EndIds \/ tracker'.meta[j] = j \/ Overtaken(j)
    <3>1. (StartOf(j) = StartOf(i) => j = i) /\ EndOf(j) # StartOf(i)
      BY EventsDiffer
    <3> QED BY <1>1, <1>2, <1>3, <1>5, <1>6, <2>1, <3>1 DEF NoneIsLost
  <2> QED BY <1>2, <1>4, <2>1 DEF NoneIsLost
<1>10. Reports'
  BY <1>2, <1>3, <1>4 DEF Reports
<1> QED BY <1>8, <1>9, <1>10

\* An end is stored and, if it is that of a write, recorded, both for the first time.
LEMMA MapEndLedger ==
    ASSUME LedgerInv, MapEnd, WellNamed
    PROVE  StoredOnce' /\ NoneIsLost' /\ Reports'
<1> DEFINE i == Head(queue).call
<1>1. /\ i \in 1..Len(calls) /\ i \in Ids /\ i # 0 /\ Head(queue) = EndOf(i)
      /\ tracker.meta[i] = i /\ named[i] = i /\ tool[i] \in Finished
      /\ ResolveId(i) = i /\ IsOpen(i) /\ queue # <<>>
  BY EndIsOwn DEF LedgerInv, MapEnd
<1>2. /\ UNCHANGED <<library, calls, at, asked, tool, starts, named>>
      /\ at # "done" /\ queue' = Tail(queue)
  BY <1>1 DEF MapEnd, graphVars, LedgerInv
<1>3. StoredOnce /\ NoneIsLost /\ Reports
  BY DEF LedgerInv
<1>4. i \notin EndIds /\ i \notin tracker.ended /\ i \in StartIds
  BY <1>1, <1>2, <1>3 DEF StoredOnce
<1> DEFINE end == [id |-> i, success |-> Success(i),
                   key |-> IF IsPost(i) THEN KeyUnder(i) ELSE NoKey]
           record == [id |-> i, status |-> Status(i)]
<1>5. /\ tracker' = [meta |-> [tracker.meta EXCEPT ![i] = 0], ended |-> tracker.ended \cup {i}]
      /\ ends' = Append(ends, end)
      /\ ledger' = IF IsPost(i) THEN Append(ledger, record) ELSE ledger
  <2>1. /\ tracker' = [meta |-> [tracker.meta EXCEPT ![i] = 0], ended |-> tracker.ended \cup {i}]
        /\ ends' = StoredEnd(end)
        /\ ledger' = IF IsRecorded(i, i) THEN Append(ledger, record) ELSE ledger
    BY <1>1, <1>4 DEF MapEnd
  <2>2. IsRecorded(i, i) <=> IsPost(i)
    BY <1>1 DEF IsRecorded
  <2>3. StoredEnd(end) = Append(ends, end)
    <3>1. end.id = i
      OBVIOUS
    <3> HIDE DEF i, end
    <3>2. ~\E k \in 1..Len(ends) : ends[k].id = end.id
      BY <1>4, <3>1 DEF EndIds
    <3> QED BY <3>2 DEF StoredEnd
  <2> QED BY <2>1, <2>2, <2>3
<1>6. end.id = i /\ record.id = i /\ record.status = Status(i)
  OBVIOUS
<1>7. TypeInv /\ queue \in Seq(Event) /\ Ordered(queue) /\ ends \in Seq(End)
      /\ ledger \in Seq(Record) /\ tracker \in [meta : [Ids -> 0..MaxCalls], ended : SUBSET Ids]
  BY EventQueue DEF LedgerInv, LifeInv, BlockInv, TypeInv, TypeOK, EventsInOrder
<1>8. end \in End /\ record \in Record
  <2>1. i \in 0..MaxCalls /\ Success(i) \in BOOLEAN
    BY <1>1, ToolAssumption DEF Ids, Success
  <2>2. KeyUnder(i) \in Key \cup {NoKey}
    BY <1>7, <2>1, NoKeyUnder
  <2>3. Status(i) \in {"blocked", "confirmed", "unknown", "none"}
    BY DEF Status
  <2> QED BY <2>1, <2>2, <2>3 DEF End, Record
<1> HIDE DEF i, end, record
<1>9. \A x : Stands(x, queue) => Stands(x, queue') \/ x = EndOf(i)
  BY <1>1, <1>2, <1>7, OneLess
<1>10. /\ \A k \in 1..Len(ends') : \/ k \in 1..Len(ends) /\ ends'[k] = ends[k]
                                   \/ k = Len(ends') /\ ends'[k] = end
       /\ \A k \in 1..Len(ends) : k \in 1..Len(ends') /\ ends'[k] = ends[k]
       /\ Len(ends') \in 1..Len(ends') /\ ends'[Len(ends')] = end
  BY <1>5, <1>7, <1>8
<1>11. EndIds' = EndIds \cup {i}
  BY <1>6, <1>10 DEF EndIds
<1>12. /\ \A k \in 1..Len(ledger') : \/ k \in 1..Len(ledger) /\ ledger'[k] = ledger[k]
                                     \/ k = Len(ledger') /\ ledger'[k] = record /\ IsPost(i)
       /\ \A k \in 1..Len(ledger) : k \in 1..Len(ledger') /\ ledger'[k] = ledger[k]
       /\ IsPost(i) => Len(ledger') \in 1..Len(ledger') /\ ledger'[Len(ledger')] = record
  <2>1. CASE IsPost(i)
    <3>1. ledger' = Append(ledger, record)
      BY <1>5, <2>1
    <3> QED BY <1>7, <1>8, <2>1, <3>1
  <2>2. CASE ~IsPost(i)
    BY <1>5, <2>2
  <2> QED BY <2>1, <2>2
<1>13. Ids' = Ids /\ Started' = Started /\ StartIds' = StartIds
  BY <1>2 DEF Ids, Started, StartIds
<1>14. StoredOnce'
  <2>1. ASSUME NEW k \in 1..Len(ends'), NEW l \in 1..Len(ends'), ends'[k].id = ends'[l].id
        PROVE  k = l
    <3>1. \A m \in 1..Len(ends) : ends[m].id # i
      BY <1>4 DEF EndIds
    <3> QED BY <1>3, <1>6, <1>10, <2>1, <3>1 DEF StoredOnce
  <2>2. /\ tracker'.meta[i] = 0 /\ tracker'.ended = tracker.ended \cup {i}
        /\ \A j \in Ids : j # i => tracker'.meta[j] = tracker.meta[j]
    BY <1>1, <1>5, <1>7
  <2>3. \A j \in EndIds' : tracker'.meta[j] # j
    <3>1. EndIds \subseteq Ids
      BY <1>3 DEF StoredOnce
    <3> QED BY <1>1, <1>2, <1>3, <1>11, <2>2, <3>1 DEF StoredOnce
  <2>4. /\ \A k, l \in 1..Len(starts') : starts'[k] = starts'[l] => k = l
        /\ StartIds = {c \in Ids : named'[c] = c}
        /\ EndIds' \subseteq StartIds /\ tracker'.ended \subseteq EndIds'
        /\ \A j \in EndIds' : tool'[j] \in Finished
    BY <1>1, <1>2, <1>3, <1>4, <1>11, <2>2 DEF StoredOnce
  <2> QED BY <1>13, <2>1, <2>3, <2>4 DEF StoredOnce
<1>15. NoneIsLost'
  <2>1. ASSUME at # "dead", NEW j \in Started
        PROVE  /\ named[j] = j \/ Stands(StartOf(j), queue')
               /\ tool[j] \in Finished =>
                     \/ j \in EndIds' \/ Stands(EndOf(j), queue')
                     \/ tool[j] \in Raised /\ ~library.errors
               /\ named[j] = j => j \in EndIds' \/ tracker'.meta[j] = j \/ Overtaken(j)
    <3>1. (EndOf(j) = EndOf(i) => j = i) /\ StartOf(j) # EndOf(i)
      BY EventsDiffer
    <3>2. j # i => tracker'.meta[j] = tracker.meta[j]
      <4>1. j \in Ids
        BY <1>3, ReadIsStarted
      <4> QED BY <1>1, <1>5, <1>7, <4>1
    <3> QED BY <1>2, <1>3, <1>9, <1>11, <2>1, <3>1, <3>2 DEF NoneIsLost
  <2>2. \A j : Overtaken(j)' = Overtaken(j)
    BY <1>2 DEF Overtaken
  <2> QED BY <1>2, <1>13, <2>1, <2>2 DEF NoneIsLost
<1>16. Reports'
  <2>1. \A j : Truth(j)' = Truth(j)
    BY <1>2, TruthKept
  <2>2. \A j : IsPost(j)' = IsPost(j)
    BY <1>2 DEF IsPost, CallOf
  <2>3. record.status \in Truth(i) /\ record.status # "blocked"
    BY <1>1, <1>6, StatusIsTrue DEF LedgerInv, LifeInv
  <2>4. ASSUME NEW k \in 1..Len(ledger'), ledger'[k].status # "blocked"
        PROVE  \E j \in EndIds' : ledger'[k].id = j /\ ledger'[k].status \in Truth(j)
    BY <1>3, <1>6, <1>11, <1>12, <2>3, <2>4 DEF Reports, IsReport
  <2>5. ASSUME NEW k \in 1..Len(ledger'), NEW l \in 1..Len(ledger'),
               ledger'[k].status # "blocked", ledger'[l].status # "blocked",
               ledger'[k].id = ledger'[l].id
        PROVE  k = l
    <3>1. \A m \in 1..Len(ledger) : ledger[m].status # "blocked" => ledger[m].id # i
      BY <1>3, <1>4 DEF Reports, IsReport
    <3>2. \A a, b \in 1..Len(ledger) :
             /\ ledger[a].status # "blocked" /\ ledger[b].status # "blocked"
             /\ ledger[a].id = ledger[b].id
             => a = b
      BY <1>3 DEF Reports, IsReport
    <3> QED BY <1>6, <1>12, <2>5, <3>1, <3>2
  <2>6. ASSUME NEW j \in EndIds', IsPost(j)
        PROVE  \E k \in 1..Len(ledger') : ledger'[k].status # "blocked" /\ ledger'[k].id = j
    <3>1. CASE j = i
      BY <1>6, <1>12, <2>3, <2>6, <3>1
    <3>2. CASE j # i
      <4>1. PICK k \in 1..Len(ledger) : ledger[k].status # "blocked" /\ ledger[k].id = j
        BY <1>2, <1>3, <1>11, <2>6, <3>2 DEF Reports, IsReport
      <4> QED BY <1>12, <4>1
    <3> QED BY <3>1, <3>2
  <2> QED BY <2>1, <2>2, <2>4, <2>5, <2>6 DEF Reports, IsReport
<1> QED BY <1>14, <1>15, <1>16

\* As many places as different members.
LEMMA DifferentAreCounted ==
    ASSUME NEW f, NEW n \in Nat, \A k, l \in 1..n : f[k] = f[l] => k = l,
           NEW S, S = {f[k] : k \in 1..n}
    PROVE  IsFiniteSet(S) /\ Cardinality(S) = n
<1> DEFINE g == [k \in 1..n |-> f[k]]
<1>1. g \in Bijection(1..n, S)
  <2>1. g \in [1..n -> S] /\ \A k \in 1..n : g[k] = f[k]
    OBVIOUS
  <2>2. \A t \in S : \E k \in 1..n : g[k] = t
    OBVIOUS
  <2> HIDE DEF g
  <2> QED BY <2>1, <2>2 DEF Bijection, Injection, IsInjective, Surjection
<1>2. IsFiniteSet(1..n) /\ Cardinality(1..n) = n
  BY FS_Interval
<1>3. ExistsBijection(1..n, S)
  BY <1>1 DEF ExistsBijection
<1> QED BY <1>2, <1>3, FS_Bijection

\* As many ends as starts, each of a start: every start has its end.
LEMMA EnoughEnds ==
    ASSUME TypeInv, StoredOnce, Len(ends) >= Len(starts)
    PROVE  EndIds = StartIds
<1>1. Len(ends) \in Nat /\ Len(starts) \in Nat
  <2>1. ends \in Seq(End) /\ starts \in Seq(0..MaxCalls)
    BY DEF TypeInv, TypeOK
  <2> DEFINE T == 0..MaxCalls
  <2> HIDE DEF T
  <2>2. starts \in Seq(T)
    BY <2>1 DEF T
  <2> QED BY <2>1, <2>2
<1>2. IsFiniteSet(StartIds) /\ Cardinality(StartIds) = Len(starts)
  <2>1. \A k, l \in 1..Len(starts) : starts[k] = starts[l] => k = l
    BY DEF StoredOnce
  <2>2. StartIds = {starts[k] : k \in 1..Len(starts)}
    BY DEF StartIds
  <2> QED BY <1>1, <2>1, <2>2, DifferentAreCounted
<1>3. IsFiniteSet(EndIds) /\ Cardinality(EndIds) = Len(ends)
  <2> DEFINE f == [k \in 1..Len(ends) |-> ends[k].id]
  <2>1. \A k, l \in 1..Len(ends) : f[k] = f[l] => k = l
    BY DEF StoredOnce
  <2>2. EndIds = {f[k] : k \in 1..Len(ends)}
    BY DEF EndIds
  <2> HIDE DEF f
  <2> QED BY <1>1, <2>1, <2>2, DifferentAreCounted
<1>4. EndIds \in SUBSET StartIds
  BY DEF StoredOnce
<1>5. Cardinality(EndIds) <= Cardinality(StartIds)
  BY <1>2, <1>4, FS_Subset
<1>6. Cardinality(StartIds) = Cardinality(EndIds)
  BY <1>1, <1>2, <1>3, <1>5
<1> QED BY <1>2, <1>4, <1>6, FS_Subset

\* What r adds behind its first n places: one for each of S, in ascending order.
LEMMA AddedInOrder ==
    ASSUME NEW S, S \subseteq Ids, NEW n \in Nat, NEW r, Len(r) = n + Len(Ascending(S)),
           \A k \in 1..Len(r) : k > n => r[k].id = Ascending(S)[k - n]
    PROVE  /\ \A k \in 1..n : k \in 1..Len(r) /\ ~(k > n)
           /\ \A k \in 1..Len(r) : k \in 1..n \/ k > n
           /\ \A k \in 1..Len(r) : k > n => r[k].id \in S
           /\ \A k, l \in 1..Len(r) : k > n /\ l > n /\ r[k].id = r[l].id => k = l
           /\ \A i \in S : \E k \in 1..Len(r) : k > n /\ r[k].id = i
<1> DEFINE a == Ascending(S)
<1>1. /\ Len(a) \in Nat
      /\ \A i \in S : \E k \in 1..Len(a) : a[k] = i
      /\ \A k \in 1..Len(a) : a[k] \in S
      /\ \A k, l \in 1..Len(a) : k < l => a[k] < a[l]
  <2>1. Len(a) = Cardinality(S) /\ Cardinality(S) \in Nat
    BY CallIdsInOrder, Zenon
  <2>2. /\ \A i \in S : \E k \in 1..Len(a) : a[k] = i
        /\ \A k \in 1..Len(a) : a[k] \in S
        /\ \A k, l \in 1..Len(a) : k < l => a[k] < a[l]
    BY CallIdsInOrder, Zenon
  <2> HIDE DEF a
  <2> QED BY <2>1, <2>2
<1> HIDE DEF a
<1>2. \A k, l \in 1..Len(a) : a[k] = a[l] => k = l
  <2>1. \A k \in 1..Len(a) : a[k] \in Int
    <3>1. \A i \in Ids : i \in Int
      BY ToolAssumption DEF Ids
    <3>2. \A i \in S : i \in Int
      BY <3>1
    <3> QED BY <1>1, <3>2
  <2>2. SUFFICES ASSUME NEW k \in 1..Len(a), NEW l \in 1..Len(a), k # l PROVE a[k] # a[l]
    OBVIOUS
  <2>3. k < l \/ l < k
    BY <2>2
  <2> QED BY <1>1, <2>1, <2>3
<1> DEFINE m == Len(a)
<1>3. /\ Len(r) = n + m /\ m \in Nat
      /\ \A k \in 1..Len(r) : k > n => r[k].id = a[k - n]
  BY <1>1 DEF a
<1> HIDE DEF m
<1>4. /\ \A k \in 1..n : k \in 1..Len(r) /\ ~(k > n)
      /\ \A k \in 1..Len(r) : k \in 1..n \/ (k > n /\ k - n \in 1..m)
      /\ \A k \in 1..m : n + k \in 1..Len(r) /\ n + k > n /\ (n + k) - n = k
      /\ \A k, l \in 1..Len(r) : k - n = l - n => k = l
  BY <1>3
<1> DEFINE New == {k \in 1..Len(r) : k > n}
<1>5. \A k \in New : k \in 1..Len(r) /\ k - n \in 1..m /\ r[k].id = a[k - n]
  <2>1. \A k \in 1..Len(r) : k > n => k - n \in 1..m
    BY <1>3
  <2> QED BY <1>3, <2>1
<1>6. \A k, l \in New : r[k].id = r[l].id => k = l
  <2> SUFFICES ASSUME NEW k \in New, NEW l \in New, r[k].id = r[l].id PROVE k = l
    OBVIOUS
  <2>1. k - n = l - n
    BY <1>2, <1>5 DEF m
  <2> QED BY <1>4, <1>5, <2>1
<1>7. \A i \in S : \E k \in New : r[k].id = i
  <2> SUFFICES ASSUME NEW i \in S PROVE \E k \in New : r[k].id = i
    OBVIOUS
  <2>1. PICK l \in 1..m : a[l] = i
    BY <1>1 DEF m
  <2>2. n + l \in New /\ r[n + l].id = a[l]
    BY <1>3, <1>4
  <2> QED BY <2>1, <2>2
<1>8. \A k \in New : r[k].id \in S
  BY <1>1, <1>5 DEF m
<1> QED BY <1>4, <1>6, <1>7, <1>8

LEMMA StreamEndsLedger ==
    ASSUME LedgerInv, StreamEnds, WellNamed
    PROVE  StoredOnce' /\ NoneIsLost' /\ Reports'
<1>1. /\ at = "ending" /\ at' = "done" /\ queue = <<>>
      /\ UNCHANGED <<library, calls, asked, tool, tracker, starts, named>>
      /\ StoredOnce /\ NoneIsLost /\ Reports /\ TypeInv /\ EventsInOrder
      /\ ends \in Seq(End) /\ ledger \in Seq(Record)
  BY DEF StreamEnds, graphVars, LedgerInv, LifeInv, BlockInv, TypeInv, TypeOK
<1>2. /\ StartIds \subseteq Started /\ EndIds \subseteq StartIds /\ Started \subseteq Ids
      /\ \A i \in Ids : i # 0
  BY <1>1, ReadIsStarted, ToolAssumption DEF StoredOnce, Ids
<1>3. ASSUME NEW i \in Started
      PROVE  /\ named[i] = i /\ i \in StartIds /\ tool[i] \in Finished
             /\ i \notin EndIds => /\ tool[i] \in Raised /\ ~library.errors
                                   /\ tracker.meta[i] = i \/ Overtaken(i)
  <2>1. \A e : ~Stands(e, queue)
    BY <1>1, NoEvents
  <2>2. named[i] = i /\ i \in StartIds
    BY <1>1, <1>2, <2>1 DEF NoneIsLost, StoredOnce
  <2>3. tool[i] \in Finished
    <3>1. tool[i] \in Fate /\ tool[i] # "proposed"
      BY <1>1, <1>2 DEF TypeInv, TypeOK, Started
    <3>2. tool[i] # "running"
      BY <1>1, <1>2 DEF EventsInOrder
    <3> QED BY <3>1, <3>2 DEF Finished
  <2> QED BY <1>1, <2>1, <2>2, <2>3 DEF NoneIsLost
<1>4. Missing = StartIds \ EndIds
  <2>1. CASE Len(ends) >= Len(starts)
    BY <1>1, <2>1, EnoughEnds DEF Missing
  <2>2. CASE ~(Len(ends) >= Len(starts))
    <3>1. Missing = StartIds \ (EndIds \cup tracker.ended \cup {0})
      BY <2>2 DEF Missing, StartIds, EndIds
    <3>2. tracker.ended \subseteq EndIds /\ 0 \notin StartIds
      BY <1>1, <1>2 DEF StoredOnce
    <3> QED BY <3>1, <3>2
  <2> QED BY <2>1, <2>2
<1> DEFINE W == {id \in Missing : IsOpen(id) /\ IsPost(tracker.meta[id])}
<1>5. Missing \subseteq Ids /\ W \subseteq Ids
  BY <1>1, StreamEndsForm
<1>6. PICK moreEnds \in Seq(End) :
          /\ ends' = ends \o moreEnds
          /\ Len(moreEnds) = Len(Ascending(Missing))
          /\ \A k \in 1..Len(moreEnds) : moreEnds[k].id = Ascending(Missing)[k]
  BY <1>1, StreamEndsForm
<1>7. PICK records \in Seq(Record) :
          /\ ledger' = ledger \o records
          /\ Len(records) = Len(Ascending(W))
          /\ \A k \in 1..Len(records) : /\ records[k].id = Ascending(W)[k]
                                        /\ records[k].status = "unknown"
  BY <1>1, StreamEndsForm
<1>8. PICK NewEnd : NewEnd = {k \in 1..Len(ends') : k > Len(ends)}
  OBVIOUS
<1>9. PICK NewRecord : NewRecord = {k \in 1..Len(ledger') : k > Len(ledger)}
  OBVIOUS
<1>10. /\ \A k \in 1..Len(ends) : k \in 1..Len(ends') /\ ends'[k] = ends[k] /\ k \notin NewEnd
       /\ \A k \in 1..Len(ends') : k \in 1..Len(ends) \/ k \in NewEnd
       /\ \A k \in NewEnd : k \in 1..Len(ends') /\ ends'[k].id \in Missing
       /\ \A k, l \in NewEnd : ends'[k].id = ends'[l].id => k = l
       /\ \A i \in Missing : \E k \in NewEnd : ends'[k].id = i
  <2>1. ends \in Seq(End)
    BY <1>1
  <2>2. /\ Len(ends) \in Nat /\ Len(ends') = Len(ends) + Len(moreEnds)
        /\ \A k \in 1..Len(ends) : ends'[k] = ends[k]
        /\ \A k \in 1..Len(ends') : k > Len(ends) =>
              k - Len(ends) \in 1..Len(moreEnds) /\ ends'[k] = moreEnds[k - Len(ends)]
    <3>1. ends' = ends \o moreEnds
      BY <1>6
    <3> QED BY <2>1, <3>1, Joined
  <2>3. \A k \in 1..Len(ends') : k > Len(ends) =>
            ends'[k].id = Ascending(Missing)[k - Len(ends)]
    BY <1>6, <2>2
  <2>4. Len(ends') = Len(ends) + Len(Ascending(Missing))
    BY <1>6, <2>2
  <2>5. /\ \A k \in 1..Len(ends) : k \in 1..Len(ends') /\ ~(k > Len(ends))
        /\ \A k \in 1..Len(ends') : k \in 1..Len(ends) \/ k > Len(ends)
        /\ \A k \in 1..Len(ends') : k > Len(ends) => ends'[k].id \in Missing
        /\ \A k, l \in 1..Len(ends') :
              k > Len(ends) /\ l > Len(ends) /\ ends'[k].id = ends'[l].id => k = l
        /\ \A i \in Missing : \E k \in 1..Len(ends') : k > Len(ends) /\ ends'[k].id = i
    <3>1. Missing \subseteq Ids /\ Len(ends) \in Nat
      BY <1>5, <2>2
    <3> QED BY <2>3, <2>4, <3>1, AddedInOrder
  <2> QED BY <1>8, <2>2, <2>5
<1>11. /\ \A k \in 1..Len(ledger) : /\ k \in 1..Len(ledger') /\ ledger'[k] = ledger[k]
                                     /\ k \notin NewRecord
       /\ \A k \in 1..Len(ledger') : k \in 1..Len(ledger) \/ k \in NewRecord
       /\ \A k \in NewRecord : /\ k \in 1..Len(ledger') /\ ledger'[k].id \in W
                                /\ ledger'[k].status = "unknown"
       /\ \A k, l \in NewRecord : ledger'[k].id = ledger'[l].id => k = l
       /\ \A i \in W : \E k \in NewRecord : ledger'[k].id = i
  <2> HIDE DEF W
  <2>1. ledger \in Seq(Record)
    BY <1>1
  <2>2. /\ Len(ledger) \in Nat /\ Len(ledger') = Len(ledger) + Len(records)
        /\ \A k \in 1..Len(ledger) : ledger'[k] = ledger[k]
        /\ \A k \in 1..Len(ledger') : k > Len(ledger) =>
              k - Len(ledger) \in 1..Len(records) /\ ledger'[k] = records[k - Len(ledger)]
    <3>1. ledger' = ledger \o records
      BY <1>7
    <3> QED BY <2>1, <3>1, Joined
  <2>3. \A k \in 1..Len(ledger') : k > Len(ledger) =>
            /\ ledger'[k].id = Ascending(W)[k - Len(ledger)]
            /\ ledger'[k].status = "unknown"
    BY <1>7, <2>2
  <2>4. /\ \A k \in 1..Len(ledger) : k \in 1..Len(ledger') /\ ~(k > Len(ledger))
        /\ \A k \in 1..Len(ledger') : k \in 1..Len(ledger) \/ k > Len(ledger)
        /\ \A k \in 1..Len(ledger') : k > Len(ledger) => ledger'[k].id \in W
        /\ \A k, l \in 1..Len(ledger') :
              k > Len(ledger) /\ l > Len(ledger) /\ ledger'[k].id = ledger'[l].id => k = l
        /\ \A i \in W : \E k \in 1..Len(ledger') : k > Len(ledger) /\ ledger'[k].id = i
    <3>1. W \subseteq Ids /\ Len(ledger) \in Nat
      BY <1>5, <2>2
    <3>2. Len(ledger') = Len(ledger) + Len(Ascending(W))
      BY <1>7, <2>2
    <3>3. \A k \in 1..Len(ledger') : k > Len(ledger) =>
              ledger'[k].id = Ascending(W)[k - Len(ledger)]
      BY <2>3
    <3> QED BY <3>1, <3>2, <3>3, AddedInOrder
  <2>5. \A k \in NewRecord : k \in 1..Len(ledger') /\ ledger'[k].status = "unknown"
    BY <1>9, <2>3
  <2> QED BY <1>9, <2>2, <2>4, <2>5
<1>12. EndIds' = EndIds \cup Missing
  <2>1. EndIds' \subseteq EndIds \cup Missing
    BY <1>10 DEF EndIds
  <2>2. EndIds \subseteq EndIds' /\ Missing \subseteq EndIds'
    BY <1>10 DEF EndIds
  <2> QED BY <2>1, <2>2
<1>13. EndIds' = StartIds /\ Started = StartIds /\ StartIds' = StartIds /\ Started' = Started
       /\ Ids' = Ids
  BY <1>1, <1>2, <1>3, <1>4, <1>12 DEF StartIds, Started, Ids
<1>14. StoredOnce'
  <2>1. ASSUME NEW k \in 1..Len(ends'), NEW l \in 1..Len(ends'), ends'[k].id = ends'[l].id
        PROVE  k = l
    <3>1. \A m \in 1..Len(ends) : ends[m].id \notin Missing
      BY <1>4 DEF EndIds
    <3>2. \A a, b \in 1..Len(ends) : ends[a].id = ends[b].id => a = b
      BY <1>1 DEF StoredOnce
    <3>3. CASE k \in 1..Len(ends)
      BY <1>10, <2>1, <3>1, <3>2, <3>3
    <3>4. CASE k \in NewEnd
      BY <1>10, <2>1, <3>1, <3>4
    <3> QED BY <1>10, <3>3, <3>4
  <2>2. tracker'.ended \subseteq EndIds' /\ \A i \in EndIds' : tool'[i] \in Finished
    BY <1>1, <1>2, <1>3, <1>13 DEF StoredOnce
  <2> QED BY <1>1, <1>13, <2>1, <2>2 DEF StoredOnce
<1>15. NoneIsLost'
  BY <1>1, <1>3, <1>13 DEF NoneIsLost
<1>16. Reports'
  <2>1. \A j : Truth(j)' = Truth(j) /\ IsPost(j)' = IsPost(j)
    <3>1. \A j : Truth(j)' = Truth(j)
      BY <1>1, TruthKept
    <3>2. \A j : IsPost(j)' = IsPost(j)
      BY <1>1 DEF IsPost, CallOf
    <3> QED BY <3>1, <3>2
  <2>2. ASSUME NEW k \in 1..Len(ledger'), ledger'[k].status # "blocked"
        PROVE  \E j \in EndIds' : ledger'[k].id = j /\ ledger'[k].status \in Truth(j)
    <3>1. CASE k \in 1..Len(ledger)
      BY <1>1, <1>2, <1>11, <1>13, <2>2, <3>1 DEF Reports, IsReport
    <3>2. CASE k \in NewRecord
      <4>1. PICK j \in W : ledger'[k].id = j /\ ledger'[k].status = "unknown"
        BY <1>11, <3>2
      <4>2. j \in Missing /\ j \in Started /\ j \notin EndIds
        BY <1>2, <1>4
      <4>3. "unknown" \in Truth(j)
        BY <1>3, <4>2, UnknownIsTrue
      <4> QED BY <1>12, <4>1, <4>2, <4>3
    <3> QED BY <1>11, <3>1, <3>2
  <2>3. ASSUME NEW k \in 1..Len(ledger'), NEW l \in 1..Len(ledger'),
               ledger'[k].status # "blocked", ledger'[l].status # "blocked",
               ledger'[k].id = ledger'[l].id
        PROVE  k = l
    <3>1. \A a \in 1..Len(ledger) : ledger[a].status # "blocked" => ledger[a].id \notin W
      BY <1>1, <1>4 DEF Reports, IsReport
    <3>2. \A a, b \in 1..Len(ledger) :
             /\ ledger[a].status # "blocked" /\ ledger[b].status # "blocked"
             /\ ledger[a].id = ledger[b].id
             => a = b
      BY <1>1 DEF Reports, IsReport
    <3> HIDE DEF W
    <3> QED BY <1>11, <2>3, <3>1, <3>2
  <2>4. ASSUME NEW j \in EndIds', IsPost(j)
        PROVE  \/ \E k \in 1..Len(ledger') : ledger'[k].status # "blocked" /\ ledger'[k].id = j
               \/ LostWithStream(j)'
    <3>1. CASE j \in EndIds
      <4>1. PICK k \in 1..Len(ledger) : ledger[k].status # "blocked" /\ ledger[k].id = j
        BY <1>1, <2>4, <3>1 DEF Reports, IsReport
      <4> QED BY <1>11, <4>1
    <3>2. CASE j \notin EndIds /\ tracker.meta[j] = j
      <4>1. j \in W
        BY <1>2, <1>12, <1>13, <2>4, <3>2 DEF IsOpen
      <4>2. PICK k \in NewRecord : ledger'[k].id = j
        BY <1>11, <4>1
      <4>3. ledger'[k].status # "blocked" /\ k \in 1..Len(ledger')
        BY <1>11, <4>2
      <4> QED BY <4>2, <4>3
    <3>3. CASE j \notin EndIds /\ tracker.meta[j] # j
      <4>1. tool[j] \in Raised /\ ~library.errors /\ Overtaken(j)
        BY <1>3, <1>13, <2>4, <3>3
      <4> QED BY <1>1, <4>1 DEF LostWithStream, Overtaken
    <3> QED BY <3>1, <3>2, <3>3
  <2> QED BY <1>1, <2>1, <2>2, <2>3, <2>4 DEF Reports, IsReport
<1> QED BY <1>14, <1>15, <1>16

\* Before a pause every call of the last round is proposed: those that were
\* started belong to rounds before it.
LEMMA PauseOvertakes ==
    ASSUME LedgerInv, at = "waiting"
    PROVE  \A i \in Started : Overtaken(i)
<1>1. TypeInv /\ CallsOK /\ RoundsGrow /\ AskedOnce
  BY DEF LedgerInv, LifeInv, BlockInv, GateInv, Pre
<1>2. asked = Batch /\ Decision = "ask" /\ \A i \in Batch : tool[i] = "proposed"
  BY <1>1 DEF AskedOnce
<1>3. PICK j \in Batch : TRUE
  BY <1>2 DEF Decision
<1>4. LastRound \in Nat /\ \A i \in 1..Len(calls) : calls[i].round \in Nat /\ calls[i].round <= LastRound
  BY <1>1, LastRoundIsHighest
<1>5. ASSUME NEW i \in Started PROVE Overtaken(i)
  <2>1. i \in 1..Len(calls) /\ i \notin Batch
    BY <1>2 DEF Started
  <2>2. calls[i].round # LastRound /\ calls[j].round = LastRound
    BY <1>3, <2>1 DEF Batch
  <2>3. calls[j].round > calls[i].round
    BY <1>4, <2>1, <2>2
  <2> QED BY <1>2, <1>3, <2>3 DEF Overtaken
<1> QED BY <1>5

\* A step that changes neither calls nor events.
LEMMA ControlLedger ==
    ASSUME LedgerInv, UNCHANGED <<library, calls, tool, starts, ends, named>>,
           at # "done", at' # "done", at = "dead" => at' = "dead",
           at' = "dead" \/ queue' = queue, asked \subseteq asked',
           tracker' = tracker \/ (tracker' = FreshTracker /\ at = "waiting"),
           ledger' = ledger \/ \E is \in SUBSET Ids : Block(is)
    PROVE  WellNamed' => StoredOnce' /\ NoneIsLost' /\ Reports'
<1>1. TypeInv
  BY DEF LedgerInv, LifeInv, BlockInv
<1>2. /\ \A k \in 1..Len(ledger) : k \in 1..Len(ledger') /\ ledger'[k] = ledger[k]
      /\ \A k \in 1..Len(ledger') : ledger'[k].status # "blocked" => k \in 1..Len(ledger)
  <2>1. CASE ledger' = ledger
    BY <2>1
  <2>2. CASE \E is \in SUBSET Ids : Block(is)
    <3>1. /\ Len(ledger) \in Nat /\ Len(ledger') \in Nat /\ Len(ledger) <= Len(ledger')
          /\ \A k \in 1..Len(ledger) : ledger'[k] = ledger[k]
          /\ \A k \in 1..Len(ledger') : k > Len(ledger) => ledger'[k].status = "blocked"
      BY <1>1, <2>2, BlockTypes
    <3>2. \A k \in 1..Len(ledger') : k \in 1..Len(ledger) \/ k > Len(ledger)
      BY <3>1
    <3>3. \A k \in 1..Len(ledger) : k \in 1..Len(ledger')
      BY <3>1
    <3> QED BY <3>1, <3>2, <3>3
  <2> QED BY <2>1, <2>2
<1>3. Started' = Started /\ (WellNamed' <=> WellNamed)
  BY DEF Started, WellNamed, NotNamed
<1>4. asked \subseteq 1..Len(calls)
  BY <1>1 DEF TypeInv
<1>5. tracker' = tracker \/ (tracker' = FreshTracker /\ \A i \in Started : Overtaken(i))
  BY PauseOvertakes
<1> QED BY <1>2, <1>3, <1>4, <1>5, QuietLedger

LEMMA ProposeLedger ==
    ASSUME LedgerInv, Propose
    PROVE  WellNamed' => StoredOnce' /\ NoneIsLost' /\ Reports'
<1>1. TypeInv /\ GateInv
  BY DEF LedgerInv, LifeInv, BlockInv
<1>2. /\ at = "assistant" /\ at' = "gate"
      /\ UNCHANGED <<library, asked, tool, queue, tracker, starts, ends, ledger, named>>
  BY DEF Propose
<1>3. \A i \in 1..Len(calls) : i \in 1..Len(calls') /\ calls'[i] = calls[i]
  BY <1>1, CallsGrow
<1>4. Started' = Started
  <2>1. Started' \subseteq Started
    BY <1>1, ProposedStarted
  <2>2. Started \subseteq Started'
    BY <1>2, <1>3 DEF Started
  <2> QED BY <2>1, <2>2
<1>5. WellNamed' => WellNamed
  BY <1>2, <1>3 DEF WellNamed, NotNamed
<1>6. asked \subseteq 1..Len(calls)
  BY <1>1 DEF TypeInv
<1> QED BY <1>2, <1>3, <1>4, <1>5, <1>6, QuietLedger

LEMMA StartLedger ==
    ASSUME LedgerInv, NEW i \in Ids, StartTool(i)
    PROVE  WellNamed' => StoredOnce' /\ NoneIsLost' /\ Reports'
<1> DEFINE s == StartOf(i)
           e == EndOf(i)
           reuse == IsPost(i) /\ Reusable(CallOf(i).key)
           q == Append(queue, s)
<1>1. /\ at = "tools" /\ i \in Batch /\ tool[i] = "proposed" /\ at' = at
      /\ UNCHANGED <<library, calls, at, asked, tracker, starts, ends, ledger, named>>
      /\ tool' = [tool EXCEPT ![i] = IF reuse THEN "reused" ELSE "running"]
      /\ queue' = queue \o <<s>> \o (IF reuse THEN <<e>> ELSE <<>>)
  BY DEF StartTool, graphVars, storeVars, StartOf, EndOf
<1>2. queue \in Seq(Event) /\ s \in Event /\ e \in Event
  BY EventQueue, EventsDiffer DEF LedgerInv, LifeInv, BlockInv
<1> HIDE DEF s, e, reuse
<1>3. q \in Seq(Event) /\ queue' = IF reuse THEN Append(q, e) ELSE q
  <2> HIDE DEF Event
  <2>1. q \in Seq(Event) /\ queue \o <<s>> = q /\ q \o <<e>> = Append(q, e) /\ q \o <<>> = q
    BY <1>2
  <2> QED BY <1>1, <2>1
<1>4. \A x : Stands(x, q) <=> Stands(x, queue) \/ x = s
  BY <1>2, StandsBefore
<1>5. \A x : Stands(x, Append(q, e)) <=> Stands(x, q) \/ x = e
  <2> HIDE DEF q
  <2> QED BY <1>2, <1>3, StandsBefore
<1>6. \A x : Stands(x, queue') <=> Stands(x, queue) \/ x = s \/ (reuse /\ x = e)
  <2> HIDE DEF q
  <2> QED BY <1>3, <1>4, <1>5
<1>7. Stands(StartOf(i), queue') /\ (reuse => Stands(EndOf(i), queue'))
  BY <1>6 DEF s, e
<1>8. PICK f \in Fate : f = IF reuse THEN "reused" ELSE "running"
  BY DEF Fate
<1>9. /\ tool' = [tool EXCEPT ![i] = f] /\ f # "proposed" /\ (f \in Finished => reuse)
      /\ tool[i] \notin Finished
  BY <1>1, <1>8 DEF Finished
<1>10. WellNamed' <=> WellNamed
  BY <1>1 DEF WellNamed, NotNamed
<1> QED BY <1>1, <1>6, <1>7, <1>9, <1>10, ToolLedger

LEMMA FinishLedger ==
    ASSUME LedgerInv, NEW i \in Ids, NEW fate \in {"done", "refused", "broken", "mute"},
           FinishTool(i, fate)
    PROVE  WellNamed' => StoredOnce' /\ NoneIsLost' /\ Reports'
<1> DEFINE e == EndOf(i)
           silent == fate \in Raised /\ ~library.errors
<1>1. /\ at = "tools" /\ i \in Batch /\ tool[i] = "running"
      /\ UNCHANGED <<library, calls, at, asked, tracker, starts, ends, ledger, named>>
      /\ tool' = [tool EXCEPT ![i] = fate]
      /\ queue' = IF silent THEN queue ELSE Append(queue, e)
  BY DEF FinishTool, graphVars, storeVars, EndOf
<1>2. queue \in Seq(Event) /\ e \in Event
  BY EventQueue, EventsDiffer DEF LedgerInv, LifeInv, BlockInv
<1>3. \A x : Stands(x, Append(queue, e)) <=> Stands(x, queue) \/ x = e
  <2> HIDE DEF e
  <2> QED BY <1>2, StandsBefore
<1>4. (\A x : Stands(x, queue) => Stands(x, queue')) /\ (Stands(EndOf(i), queue') \/ silent)
  <2>1. CASE silent
    BY <1>1, <2>1
  <2>2. CASE ~silent
    BY <1>1, <1>3, <2>2
  <2> QED BY <2>1, <2>2
<1>5. fate \in Fate /\ fate # "proposed" /\ tool[i] \notin Finished /\ tool[i] # "proposed"
  BY <1>1 DEF Fate, Finished
<1>6. WellNamed' <=> WellNamed
  BY <1>1 DEF WellNamed, NotNamed
<1> QED BY <1>1, <1>4, <1>5, <1>6, ToolLedger

LEMMA LedgerStep ==
    ASSUME LedgerInv, [Next]_vars
    PROVE  LedgerInv'
<1>1. LifeInv'
  BY LifeStep DEF LedgerInv
<1>2. TypeInv /\ EventsInOrder
  BY DEF LedgerInv, LifeInv, BlockInv
<1>3. at' = "done" => queue' = <<>>
  <2>1. at = "done" => queue = <<>>
    BY DEF LedgerInv
  <2> QED BY <2>1
    DEF Next, Gate, Tools, Mapper, Propose, Answer, GateDenies, GateBlocksRoute, GateAsks,
        GateRejected, GateAllows, Approve, Reject, Resume, Crash, Cancel, StartTool,
        FinishTool, ToolsDone, MapStart, MapEnd, StreamEnds, vars
<1>4. SUFFICES WellNamed' => StoredOnce' /\ NoneIsLost' /\ Reports'
  BY <1>1, <1>3 DEF LedgerInv
<1>5. CASE Propose
  BY <1>5, ProposeLedger
<1>6. CASE \E i \in Ids : StartTool(i)
  BY <1>6, StartLedger
<1>7. CASE \E i \in Ids, fate \in {"done", "refused", "broken", "mute"} : FinishTool(i, fate)
  BY <1>7, FinishLedger
<1>8. CASE MapStart
  BY <1>8, MapStartLedger
<1>9. CASE MapEnd
  <2>1. WellNamed' => WellNamed
    BY <1>9 DEF MapEnd, graphVars, WellNamed, NotNamed
  <2> QED BY <1>9, <2>1, MapEndLedger
<1>10. CASE StreamEnds
  <2>1. WellNamed' => WellNamed
    BY <1>10 DEF StreamEnds, graphVars, WellNamed, NotNamed
  <2> QED BY <1>10, <2>1, StreamEndsLedger
<1>11. Batch \in SUBSET Ids /\ OffRoute \in SUBSET Ids /\ asked \in SUBSET Ids
  BY <1>2, MadeCalls DEF OffRoute
<1>12. CASE ToolsDone \/ Answer \/ GateRejected \/ GateAllows \/ Cancel
  BY <1>12, ControlLedger
     DEF ToolsDone, Answer, GateRejected, GateAllows, Cancel, graphVars, storeVars
<1>13. CASE GateDenies \/ GateBlocksRoute \/ Reject
  <2>1. \E is \in SUBSET Ids : Block(is)
    BY <1>11, <1>13 DEF GateDenies, GateBlocksRoute, Reject
  <2>2. UNCHANGED <<starts, ends>>
    BY <2>1 DEF Block
  <2> QED BY <1>13, <2>1, <2>2, ControlLedger DEF GateDenies, GateBlocksRoute, Reject, graphVars
<1>14. CASE GateAsks \/ Approve \/ Resume
  BY <1>14, ControlLedger DEF GateAsks, Approve, Resume, storeVars
<1>15. CASE Crash
  <2>1. queue' = queue \/ at' = "dead"
    BY <1>2, <1>15 DEF Crash, EventsInOrder
  <2>2. /\ UNCHANGED <<library, calls, tool, starts, ends, named, ledger, asked, tracker>>
        /\ at # "done" /\ at' # "done" /\ at # "dead"
    BY <1>15 DEF Crash, storeVars
  <2> QED BY <2>1, <2>2, ControlLedger
<1>16. CASE UNCHANGED vars
  <2>1. /\ EndIds' = EndIds /\ StartIds' = StartIds /\ Ids' = Ids /\ Started' = Started
        /\ \A i : Truth(i)' = Truth(i) /\ IsPost(i)' = IsPost(i) /\ Overtaken(i)' = Overtaken(i)
        /\ \A i : (LostWithStream(i)' <=> LostWithStream(i)) /\ (IsReport(i)' <=> IsReport(i))
        /\ WellNamed' <=> WellNamed
    <3>1. \A i : Truth(i)' = Truth(i)
      BY <1>16, TruthKept DEF vars
    <3> QED BY <1>16, <3>1
            DEF vars, EndIds, StartIds, Ids, Started, IsPost, CallOf, Overtaken,
                LostWithStream, IsReport, WellNamed, NotNamed
  <2> QED BY <1>16, <2>1 DEF vars, LedgerInv, StoredOnce, NoneIsLost, Reports
<1> QED
  BY <1>5, <1>6, <1>7, <1>8, <1>9, <1>10, <1>12, <1>13, <1>14, <1>15, <1>16
     DEF Next, Gate, Tools, Mapper

\* The ledger of a run that ended by itself tells what happened: when its starts
\* are stored under the ids of their calls, each call that was started has one
\* tool_end, and each write one record, which is true, in whatever order the
\* calls of a batch finish, whatever LangChain tells, and also if a call raised
\* without an event: MapEnd, StreamEnds, _missing_tool_end_events.
THEOREM LedgerIsTrue == Spec => []LedgerTells
<1>1. Init => LedgerInv
  <2> SUFFICES ASSUME Init PROVE LedgerInv
    OBVIOUS
  <2>1. LifeInv
    BY LifeInit
  <2>2. /\ calls = <<>> /\ Len(calls) = 0 /\ queue = <<>> /\ at = "assistant"
        /\ starts = <<>> /\ Len(starts) = 0 /\ ends = <<>> /\ Len(ends) = 0
        /\ ledger = <<>> /\ Len(ledger) = 0 /\ tracker.ended = {}
        /\ named = [i \in Ids |-> NotNamed]
    BY DEF Init, FreshTracker
  <2>3. \A c \in Ids : c # NotNamed
    BY ToolAssumption DEF Ids, NotNamed
  <2>4. StartIds = {} /\ EndIds = {} /\ Started = {}
    BY <2>2 DEF StartIds, EndIds, Started
  <2> QED BY <2>1, <2>2, <2>3, <2>4 DEF LedgerInv, StoredOnce, NoneIsLost, Reports
<1>2. LedgerInv /\ [Next]_vars => LedgerInv'
  BY LedgerStep
<1>3. LedgerInv => LedgerTells
  <2> SUFFICES ASSUME LedgerInv, at = "done", WellNamed, NEW i \in Started
               PROVE  /\ Cardinality({k \in 1..Len(ends) : ends[k].id = i}) = 1
                      /\ IsPost(i) /\ i \notin forgotten /\ ~LostWithStream(i) =>
                            \E k \in 1..Len(ledger) :
                                /\ ledger[k].id = i /\ ledger[k].status \in Truth(i)
                                /\ \A l \in 1..Len(ledger) : ledger[l].id = i => l = k
    BY DEF LedgerTells
  <2>1. StoredOnce /\ NoneIsLost /\ Reports /\ BlockingHolds
    BY DEF LedgerInv, LifeInv, BlockInv
  <2>2. i \in EndIds
    BY <2>1 DEF NoneIsLost
  <2>3. PICK k \in 1..Len(ends) : ends[k].id = i
    BY <2>2 DEF EndIds
  <2>4. {l \in 1..Len(ends) : ends[l].id = i} = {k}
    BY <2>1, <2>3 DEF StoredOnce
  <2>5. Cardinality({l \in 1..Len(ends) : ends[l].id = i}) = 1
    BY <2>4, FS_Singleton
  <2>6. ASSUME IsPost(i), i \notin forgotten, ~LostWithStream(i)
        PROVE  \E l \in 1..Len(ledger) :
                   /\ ledger[l].id = i /\ ledger[l].status \in Truth(i)
                   /\ \A m \in 1..Len(ledger) : ledger[m].id = i => m = l
    <3>1. PICK l \in 1..Len(ledger) : IsReport(l) /\ ledger[l].id = i
      BY <2>1, <2>2, <2>6 DEF Reports
    <3>2. \A m \in 1..Len(ledger) : ledger[m].id = i => IsReport(m)
      BY <2>1, <2>6 DEF BlockingHolds, IsReport
    <3> QED BY <2>1, <3>1, <3>2 DEF Reports
  <2> QED BY <2>5, <2>6
<1> QED BY <1>1, <1>2, <1>3, PTL DEF Spec

=============================================================================
