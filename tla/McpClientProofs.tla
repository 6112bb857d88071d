---------------------------- MODULE McpClientProofs ----------------------------
(***************************************************************************)
(* The client of an MCP server: its types, that a connected client has a   *)
(* session, and what a removal leaves of it.  Proved for any number of     *)
(* callers, connections, retries, failures and requests.                   *)
(***************************************************************************)
EXTENDS McpClient, TLAPS, WellFoundedInduction

Place == {"idle", "lock", "closelock", "close", "dial", "call", "backoff"}

\* Who connects holds _connect_lock, and so does a handler that closes; nobody
\* else does.
LockIsHeld ==
    /\ \A t \in Task : at[t] = "dial" => lock = t
    /\ at["admin"] = "close" => lock = "admin"
    /\ lock \in Task \cup {"nobody"}
    /\ \A t \in Task : lock = t => at[t] = "dial" \/ (t = "admin" /\ at[t] = "close")

\* A caller, and the handler that adds the client, only connect and call.
UsersCall == \A u \in User : at[u] \in {"idle", "lock", "dial", "call"}

\* The first connection belongs to the command that adds the server.
NewIsAdded == registered = "new" => command = "add"

\* What RemovedRests rests on: nobody connects when the client is removed, and the
\* adding handler does not have it to do again.
Removed == registered = "gone" /\ command = "remove" /\ ~contested
NoListing == Removed => ~ListsAgain

McpInv ==
    /\ at \in [Task -> Place]
    /\ LockIsHeld
    /\ UsersCall
    /\ NewIsAdded
    /\ NoListing
    /\ RemovedRests

-----------------------------------------------------------------------------
\* The names of the tasks are different ones.
LEMMA Names ==
    /\ "loop" \in Task /\ "admin" \in Task /\ "nobody" \notin Task
    /\ "loop" \notin User /\ "admin" \notin User
    /\ "adder" \in User /\ "adder" \notin Caller /\ User = Caller \cup {"adder"}
    /\ Task = User \cup {"loop", "admin"}
  BY McpAssumption DEF Task, User

\* connect() takes the lock only if it is free.
LEMMA ConnectStep ==
    ASSUME McpInv, NEW t \in Task, NEW isConnected, NEW conn,
           Connect(t, isConnected, conn), at[t] # "dial", lock # t,
           t = "admin" => at[t] # "close"
    PROVE  /\ at' \in [Task -> Place]
           /\ LockIsHeld'
           /\ \A u \in Task \ {t} : at'[u] = at[u]
           /\ at'[t] \in {"lock", "dial", "idle", "call"}
<1> USE Names DEF McpInv, LockIsHeld, Place
<1>1. CASE ~NoContention(t)
  BY <1>1 DEF Connect
<1>2. CASE NoContention(t) /\ isConnected
  BY <1>2 DEF Connect, Proceed
<1>3. CASE NoContention(t) /\ ~isConnected
  BY <1>3 DEF Connect, NoContention
<1> QED
  BY <1>1, <1>2, <1>3

\* A step that leaves the places, the lock and the commands alone, and does not
\* start the health check.
LEMMA SamePlaces ==
    ASSUME McpInv, UNCHANGED <<at, lock, command, registered, contested, listings>>,
           health.at = "off" => health'.at = "off"
    PROVE  McpInv'
BY DEF McpInv, LockIsHeld, UsersCall, NewIsAdded, NoListing, Removed, ListsAgain, RemovedRests

\* A step of a task that has no part in a client at rest.
LEMMA NotAtRest ==
    ASSUME McpInv, UNCHANGED <<command, registered, contested>>,
           \/ health.at # "off" \/ at["loop"] # "idle"
           \/ \E t \in Task : at[t] \in {"lock", "dial"}
    PROVE  NewIsAdded' /\ NoListing' /\ RemovedRests'
BY DEF McpInv, NewIsAdded, NoListing, Removed, RemovedRests

LEMMA GrantedStep ==
    ASSUME McpInv, NEW t \in Task, Granted(t)
    PROVE  McpInv'
<1> USE Names
<1>1. at[t] = "lock" /\ lock = "nobody"
      /\ UNCHANGED <<command, registered, contested>>
  BY DEF Granted, administration
<1>2. NewIsAdded' /\ NoListing' /\ RemovedRests'
  BY <1>1, NotAtRest
<1>3. at' \in [Task -> Place] /\ LockIsHeld' /\ UsersCall'
  <2> USE DEF McpInv, LockIsHeld, UsersCall, Place
  <2>1. CASE connected
    BY <1>1, <2>1 DEF Granted, Proceed
  <2>2. CASE ~connected
    BY <1>1, <2>2 DEF Granted
  <2> QED
    BY <2>1, <2>2
<1> QED
  BY <1>2, <1>3 DEF McpInv

\* Who connects gives the lock back, whether it succeeds or fails.
LEMMA DialStep ==
    ASSUME McpInv, NEW t \in Task, DialDone(t) \/ DialFails(t)
    PROVE  McpInv'
<1> USE Names
<1>1. /\ at[t] = "dial" /\ lock' = "nobody"
      /\ UNCHANGED <<command, contested>>
      /\ registered' \in {registered, "yes", "gone"}
      /\ registered' = "gone" => registered \in {"new", "gone"}
      /\ registered' = "new" => registered = "new"
  BY DEF DialDone, DialFails
<1>2. at' \in [Task -> Place] /\ LockIsHeld' /\ UsersCall'
  <2>1. \E place \in {"idle", "call", "backoff"} :
          /\ at' = [at EXCEPT ![t] = place]
          /\ place # "idle" => (place = "backoff" <=> t = "loop")
    BY DEF DialDone, DialFails, Proceed, NextAttempt
  <2> QED
    BY <1>1, <2>1 DEF McpInv, LockIsHeld, UsersCall, Place
<1>3. NewIsAdded' /\ NoListing' /\ RemovedRests'
  BY <1>1 DEF McpInv, NewIsAdded, NoListing, Removed, RemovedRests
<1> QED
  BY <1>2, <1>3 DEF McpInv

LEMMA CallStep ==
    ASSUME McpInv, NEW c \in Caller, Call(c) \/ Answered(c)
    PROVE  McpInv'
<1> USE Names
<1>1. CASE Call(c)
  <2>1. registered' = "yes" /\ at[c] = "idle" /\ Connect(c, connected, session)
    BY <1>1 DEF Call, administration
  <2>2. lock # c
    BY <2>1 DEF McpInv, LockIsHeld
  <2>3. /\ at' \in [Task -> Place] /\ LockIsHeld'
        /\ \A u \in Task \ {c} : at'[u] = at[u]
        /\ at'[c] \in {"lock", "dial", "idle", "call"}
    BY <2>1, <2>2, ConnectStep
  <2>4. UsersCall'
    BY <2>3 DEF UsersCall, McpInv
  <2> QED
    BY <2>1, <2>3, <2>4 DEF McpInv, NewIsAdded, NoListing, Removed, RemovedRests
<1>2. CASE Answered(c)
  <2>1. /\ at[c] = "call" /\ at' = [at EXCEPT ![c] = "idle"]
        /\ UNCHANGED <<lock, health, command, registered, contested, listings>>
    BY <1>2 DEF Answered, CallReturns, CallFails, administration
  <2>2. at' \in [Task -> Place] /\ LockIsHeld' /\ UsersCall'
    BY <2>1 DEF McpInv, LockIsHeld, UsersCall, Place
  <2>3. NewIsAdded' /\ NoListing' /\ RemovedRests'
    BY <2>1 DEF McpInv, NewIsAdded, NoListing, Removed, ListsAgain, RemovedRests
  <2> QED
    BY <2>2, <2>3 DEF McpInv
<1> QED
  BY <1>1, <1>2

\* The adding handler connects once more only if it has something to list.
LEMMA ListedStep ==
    ASSUME McpInv, Listed
    PROVE  McpInv'
<1> USE Names
<1>1. /\ at["adder"] = "call"
      /\ UNCHANGED <<health, command, registered, contested>>
  BY DEF Listed
<1>2. CASE listings > 1
  <2>1. Connect("adder", connected, session)
    BY <1>2 DEF Listed
  <2>2. lock # "adder"
    BY <1>1 DEF McpInv, LockIsHeld
  <2>3. /\ at' \in [Task -> Place] /\ LockIsHeld'
        /\ \A u \in Task \ {"adder"} : at'[u] = at[u]
        /\ at'["adder"] \in {"lock", "dial", "idle", "call"}
    BY <1>1, <2>1, <2>2, ConnectStep
  <2>4. UsersCall'
    BY <2>3 DEF UsersCall, McpInv
  <2>5. ~Removed /\ Removed' = Removed
    BY <1>1, <1>2 DEF McpInv, NoListing, ListsAgain, Removed
  <2>6. NewIsAdded' /\ NoListing' /\ RemovedRests'
    BY <1>1, <2>5 DEF McpInv, NewIsAdded, NoListing, Removed, RemovedRests
  <2> QED
    BY <2>3, <2>4, <2>6 DEF McpInv
<1>3. CASE ~(listings > 1)
  <2>1. at' = [at EXCEPT !["adder"] = "idle"] /\ UNCHANGED lock
    BY <1>3 DEF Listed
  <2>2. at' \in [Task -> Place] /\ LockIsHeld' /\ UsersCall'
    BY <1>1, <2>1 DEF McpInv, LockIsHeld, UsersCall, Place
  <2>3. NewIsAdded' /\ RemovedRests'
    BY <1>1, <2>1 DEF McpInv, NewIsAdded, RemovedRests
  <2>4. NoListing'
    BY <2>1 DEF NoListing, ListsAgain, McpInv
  <2> QED
    BY <2>2, <2>3, <2>4 DEF McpInv
<1> QED
  BY <1>2, <1>3

\* The health check only sends the loop on its way.
LEMMA HealthStep ==
    ASSUME McpInv, HealthWakes \/ Pinged
    PROVE  McpInv'
<1> USE Names
<1>1. /\ health.at # "off"
      /\ UNCHANGED <<lock, command, registered, contested>>
      /\ at' = at \/ (at["loop"] = "idle" /\ at' = [at EXCEPT !["loop"] = "backoff"])
  BY DEF HealthWakes, Pinged, PingReturns, PingFails, TryReconnect, administration
<1>2. NewIsAdded' /\ NoListing' /\ RemovedRests'
  BY <1>1, NotAtRest
<1>3. at' \in [Task -> Place] /\ LockIsHeld' /\ UsersCall'
  BY <1>1 DEF McpInv, LockIsHeld, UsersCall, Place
<1> QED
  BY <1>2, <1>3 DEF McpInv

LEMMA LoopStep ==
    ASSUME McpInv, LoopWakes \/ LoopEnds
    PROVE  McpInv'
<1> USE Names
<1>1. /\ at["loop"] \in {"backoff", "close"}
      /\ UNCHANGED <<command, registered, contested>>
  BY DEF LoopWakes, LoopEnds, LoopClosed, LoopCloseRaises, administration
<1>2. NewIsAdded' /\ NoListing' /\ RemovedRests'
  BY <1>1, NotAtRest
<1>3. \/ Connect("loop", connected, None)
      \/ /\ \E place \in {"idle", "lock", "close", "backoff"} :
                at' = [at EXCEPT !["loop"] = place]
         /\ UNCHANGED lock
  BY DEF LoopWakes, LoopEnds, LoopClosed, LoopCloseRaises, LoopReplaces, NextAttempt
<1>4. at' \in [Task -> Place] /\ LockIsHeld' /\ UsersCall'
  <2>1. lock # "loop"
    BY <1>1 DEF McpInv, LockIsHeld
  <2>2. CASE Connect("loop", connected, None)
    <3>1. /\ at' \in [Task -> Place] /\ LockIsHeld'
          /\ \A u \in Task \ {"loop"} : at'[u] = at[u]
      BY <1>1, <2>1, <2>2, ConnectStep
    <3> QED
      BY <3>1 DEF McpInv, UsersCall
  <2>3. CASE /\ \E place \in {"idle", "lock", "close", "backoff"} :
                    at' = [at EXCEPT !["loop"] = place]
             /\ UNCHANGED lock
    BY <1>1, <2>1, <2>3 DEF McpInv, LockIsHeld, UsersCall, Place
  <2> QED
    BY <1>3, <2>2, <2>3
<1> QED
  BY <1>2, <1>4 DEF McpInv

\* What a handler does with the lock when it is free and nobody connects.
LEMMA InspectStep ==
    ASSUME NEW where \in [Task -> Place], NEW what,
           \A t \in Task : where[t] # "dial", where["admin"] # "close",
           \A u \in User : where[u] \in {"idle", "lock", "dial", "call"},
           lock = "nobody", Inspect(where, what)
    PROVE  /\ at' \in [Task -> Place] /\ LockIsHeld' /\ UsersCall'
           /\ \A t \in Task \ {"admin"} : at'[t] = where[t]
           /\ what # "reconnect" => \/ at'["admin"] = "close"
                                    \/ at'["admin"] = "idle" /\ lock' = "nobody"
<1> USE Names DEF LockIsHeld, UsersCall, Place
<1>1. CASE connected
  BY <1>1 DEF Inspect
<1>2. CASE ~connected /\ what = "reconnect"
  BY <1>2 DEF Inspect, AdminConnects
<1>3. CASE ~connected /\ what # "reconnect"
  BY <1>3 DEF Inspect
<1> QED
  BY <1>1, <1>2, <1>3

LEMMA CommandStep ==
    ASSUME McpInv, NEW what \in {"reconnect", "remove"}, Command(what)
    PROVE  McpInv'
<1> USE Names
<1> DEFINE where == [at EXCEPT !["loop"] = "idle"]
<1>1. /\ at["admin"] = "idle" /\ registered = "yes"
      /\ command' = what /\ health' = NoHealth
      /\ registered' = IF what = "remove" THEN "gone" ELSE registered
      /\ contested' = (what = "remove" /\ (ListsAgain \/ \E u \in User : lock = u \/ Waits(u)))
      /\ UNCHANGED listings
  BY DEF Command, StopHealth
<1>2. /\ where \in [Task -> Place] /\ where["loop"] = "idle" /\ where["admin"] = "idle"
      /\ \A t \in Task \ {"loop"} : where[t] = at[t]
      /\ \A u \in User : where[u] \in {"idle", "lock", "dial", "call"}
  BY <1>1 DEF McpInv, UsersCall, Place
<1>3. /\ NewIsAdded' /\ health'.at = "off"
      /\ registered' = "gone" => what = "remove"
  BY <1>1 DEF NewIsAdded, NoHealth
<1>4. ~contested' /\ what = "remove" =>
        \A u \in User : at[u] \notin {"lock", "dial"} /\ lock # u
  BY <1>1 DEF McpInv, LockIsHeld, Waits
<1>7. /\ Removed' => what = "remove" /\ ~contested'
      /\ ~contested' /\ what = "remove" => ~(at["adder"] = "call" /\ listings > 1)
  BY <1>1 DEF ListsAgain, Removed
<1>5. CASE lock = "nobody" /\ \A u \in User : ~Waits(u)
  <2>1. Inspect(where, what)
    BY <1>5 DEF Command
  <2>2. \A t \in Task : where[t] # "dial"
    BY <1>2, <1>5 DEF McpInv, LockIsHeld
  <2> HIDE DEF where
  <2>3. /\ at' \in [Task -> Place] /\ LockIsHeld' /\ UsersCall'
        /\ \A t \in Task \ {"admin"} : at'[t] = where[t]
        /\ what # "reconnect" => \/ at'["admin"] = "close"
                                 \/ at'["admin"] = "idle" /\ lock' = "nobody"
    BY <1>2, <1>5, <2>1, <2>2, InspectStep
  <2>4. RemovedRests'
    BY <1>2, <1>3, <1>4, <2>3 DEF RemovedRests
  <2>5. NoListing'
    BY <1>1, <1>2, <1>7, <2>3 DEF NoListing, ListsAgain
  <2> QED
    BY <1>3, <2>3, <2>4, <2>5 DEF McpInv
<1>6. CASE ~(lock = "nobody" /\ \A u \in User : ~Waits(u))
  <2>1. /\ at' = [where EXCEPT !["admin"] = "closelock"]
        /\ lock' = IF lock = "loop" THEN "nobody" ELSE lock
    BY <1>6 DEF Command
  <2> HIDE DEF where
  <2>2. /\ at' \in [Task -> Place] /\ at'["admin"] = "closelock"
        /\ \A t \in Task \ {"admin"} : at'[t] = where[t]
    BY <1>2, <2>1 DEF Place
  <2>3. LockIsHeld' /\ UsersCall'
    BY <1>1, <1>2, <2>1, <2>2 DEF McpInv, LockIsHeld, UsersCall
  <2>4. RemovedRests'
    BY <1>2, <1>3, <1>4, <2>2 DEF RemovedRests
  <2>5. NoListing'
    BY <1>1, <1>2, <1>7, <2>2 DEF NoListing, ListsAgain
  <2> QED
    BY <1>3, <2>2, <2>3, <2>4, <2>5 DEF McpInv
<1> QED
  BY <1>5, <1>6

\* The rest of a command, once the handler has the lock.
LEMMA AdminStep ==
    ASSUME McpInv, CommandGranted \/ AdminEnds
    PROVE  McpInv'
<1> USE Names
<1>1. UNCHANGED <<health, command, registered, contested, listings>>
  BY DEF CommandGranted, AdminEnds, AdminClosed, CloseRaises, administration
<1>2. CASE CommandGranted
  <2>1. at["admin"] = "closelock" /\ lock = "nobody" /\ Inspect(at, command)
    BY <1>2 DEF CommandGranted
  <2>2. /\ at \in [Task -> Place] /\ \A t \in Task : at[t] # "dial"
        /\ \A u \in User : at[u] \in {"idle", "lock", "dial", "call"}
    BY <2>1 DEF McpInv, LockIsHeld, UsersCall
  <2>3. /\ at' \in [Task -> Place] /\ LockIsHeld' /\ UsersCall'
        /\ \A t \in Task \ {"admin"} : at'[t] = at[t]
        /\ command # "reconnect" => \/ at'["admin"] = "close"
                                    \/ at'["admin"] = "idle" /\ lock' = "nobody"
    BY <2>1, <2>2, InspectStep
  <2>4. NewIsAdded' /\ NoListing' /\ RemovedRests'
    BY <1>1, <2>3 DEF McpInv, NewIsAdded, NoListing, Removed, ListsAgain, RemovedRests
  <2> QED
    BY <2>3, <2>4 DEF McpInv
<1>3. CASE AdminEnds
  <2>1. at["admin"] = "close" /\ lock = "admin"
    BY <1>3 DEF AdminEnds, AdminClosed, CloseRaises, McpInv, LockIsHeld
  <2>2. \/ command = "reconnect" /\ AdminConnects(at)
        \/ at' = [at EXCEPT !["admin"] = "idle"] /\ lock' = "nobody"
    BY <1>3 DEF AdminEnds, AdminClosed, CloseRaises
  <2>3. at' \in [Task -> Place] /\ LockIsHeld' /\ UsersCall'
    BY <2>1, <2>2 DEF AdminConnects, McpInv, LockIsHeld, UsersCall, Place
  <2>4. NewIsAdded' /\ NoListing' /\ RemovedRests'
    <3>1. CASE command = "reconnect"
      BY <1>1, <3>1 DEF McpInv, NewIsAdded, NoListing, Removed, RemovedRests
    <3>2. CASE command # "reconnect"
      BY <1>1, <2>2, <3>2 DEF McpInv, NewIsAdded, NoListing, Removed, ListsAgain, RemovedRests
    <3> QED
      BY <3>1, <3>2
  <2> QED
    BY <2>3, <2>4 DEF McpInv
<1> QED
  BY <1>2, <1>3

LEMMA McpInvStep ==
    ASSUME McpInv, [Next]_vars
    PROVE  McpInv'
<1>1. ASSUME NEW t \in Task, DialUp(t) \/ CloseOne(t)
      PROVE  McpInv'
  BY <1>1, SamePlaces DEF DialUp, CloseOne, administration
<1>2. ASSUME NEW t \in Task, Granted(t) \/ DialDone(t) \/ DialFails(t)
      PROVE  McpInv'
  BY <1>2, GrantedStep, DialStep
<1>3. ASSUME NEW c \in Caller, Call(c) \/ Answered(c)
      PROVE  McpInv'
  BY <1>3, CallStep
<1>4. CASE HealthWakes \/ Pinged
  BY <1>4, HealthStep
<1>5. CASE LoopWakes \/ LoopEnds
  BY <1>5, LoopStep
<1>6. ASSUME NEW what \in {"reconnect", "remove"}, Command(what)
      PROVE  McpInv'
  BY <1>6, CommandStep
<1>7. CASE CommandGranted \/ AdminEnds
  BY <1>7, AdminStep
<1>8. CASE ServerFails \/ ServerReturns \/ UNCHANGED vars
  BY <1>8, SamePlaces DEF ServerFails, ServerReturns, administration, vars
<1>9. CASE Listed
  BY <1>9, ListedStep
<1> QED
  BY <1>1, <1>2, <1>3, <1>4, <1>5, <1>6, <1>7, <1>8, <1>9 DEF Next, Connecting

LEMMA McpInvInit ==
    ASSUME Init
    PROVE  McpInv
<1> USE Names
<1>1. /\ at \in [Task -> Place] /\ at["adder"] = "dial" /\ lock = "adder"
      /\ \A t \in Task \ {"adder"} : at[t] = "idle"
  BY DEF Init, Place
<1>2. LockIsHeld /\ UsersCall
  BY <1>1 DEF LockIsHeld, UsersCall
<1>3. NewIsAdded /\ NoListing /\ RemovedRests
  BY DEF Init, NewIsAdded, NoListing, Removed, RemovedRests
<1> QED
  BY <1>1, <1>2, <1>3 DEF McpInv

-----------------------------------------------------------------------------
\* After remove_server, unless somebody was connecting at that moment or add_server
\* still had to list the prompts, neither the health check nor the loop nor a failing
\* call of sdk_client.py brings the client back to the lock or to a connection.
THEOREM RemovalHolds == Spec => []RemovedRests
<1>1. Init => McpInv
  BY McpInvInit
<1>2. McpInv /\ [Next]_vars => McpInv'
  BY McpInvStep
<1>3. McpInv => RemovedRests
  BY DEF McpInv
<1> QED
  BY <1>1, <1>2, <1>3, PTL DEF Spec

-----------------------------------------------------------------------------
(* The types, and that a connected client has a session.  A session is a     *)
(* connection that serves, hence one that is open, hence not None.           *)

\* enter_async_context gives a connection that nobody uses.
LEMMA FreeIsConnection ==
    ASSUME Free # {}
    PROVE  (CHOOSE c \in Free : \A d \in Free : c <= d) \in Connection
<1> DEFINE R == {ss \in Nat \X Nat : ss[1] < ss[2]}
<1>1. Free \subseteq Nat /\ Free \subseteq Connection
  BY McpAssumption DEF Free, Connection
<1>2. IsWellFoundedOn(R, Nat)
  <2>1. OpToRel(<, Nat) = R
    BY Zenon DEF OpToRel
  <2> HIDE DEF R
  <2> QED
    BY <2>1, NatLessThanWellFounded, Zenon
<1>3. \E c \in Free : \A d \in Free : <<d, c>> \notin R
  <2> HIDE DEF R
  <2> QED
    BY <1>1, <1>2, WFMin
<1>4. \E c \in Free : \A d \in Free : c <= d
  <2>1. PICK c \in Free : \A d \in Free : <<d, c>> \notin R
    BY <1>3
  <2>2. ASSUME NEW d \in Free PROVE c <= d
    <3>1. c \in Nat /\ d \in Nat /\ <<d, c>> \in Nat \X Nat
      BY <1>1
    <3>2. ~(d < c)
      BY <2>1, <3>1
    <3> QED
      BY <3>1, <3>2
  <2> QED
    BY <2>2
<1> QED
  BY <1>1, <1>4

LEMMA NoDialType == NoDial \in [conn : Connection \cup {None}, stale : BOOLEAN]
BY DEF NoDial

LEMMA ProceedType ==
    ASSUME TypeOK, NEW t \in Task, NEW conn \in Connection \cup {None}, Proceed(t, conn)
    PROVE  /\ at' \in [Task -> {"idle", "lock", "closelock", "close", "dial", "call", "backoff"}]
           /\ on' \in [User -> Connection \cup {None}]
BY DEF TypeOK, Proceed

LEMMA ConnectType ==
    ASSUME TypeOK, NEW t \in Task, NEW isConnected, NEW conn \in Connection \cup {None},
           Connect(t, isConnected, conn)
    PROVE  /\ at' \in [Task -> {"idle", "lock", "closelock", "close", "dial", "call", "backoff"}]
           /\ on' \in [User -> Connection \cup {None}]
           /\ lock' \in Task \cup {"nobody"}
           /\ dial' \in [conn : Connection \cup {None}, stale : BOOLEAN]
<1>1. CASE NoContention(t) /\ isConnected
  BY <1>1, ProceedType DEF TypeOK, Connect
<1>2. CASE ~NoContention(t)
  BY <1>2 DEF TypeOK, Connect
<1>3. CASE NoContention(t) /\ ~isConnected
  <2>1. lock' = t /\ dial' = NoDial /\ on' = on /\ at' = [at EXCEPT ![t] = "dial"]
    BY <1>3 DEF Connect
  <2> QED
    BY <2>1, NoDialType DEF TypeOK
<1> QED
  BY <1>1, <1>2, <1>3

HealthTypes == [at : {"off", "sleep", "ping"}, conn : Connection \cup {None}]

\* A failure is counted up to the maximum.
LEMMA CountType == ASSUME TypeOK, OnCallFailure PROVE failures' \in 0..MaxRetries /\ connected' \in BOOLEAN
BY McpAssumption DEF TypeOK, OnCallFailure

LEMMA HealthTypesHold ==
    /\ NoHealth \in HealthTypes /\ Asleep \in HealthTypes
    /\ \A isConnected, count : NextHealth(isConnected, count) \in HealthTypes
BY DEF NoHealth, Asleep, NextHealth, HealthTypes

\* An attempt of the loop fails, or the loop is sent on its way.
LEMMA AttemptType ==
    ASSUME TypeOK, NextAttempt \/ TryReconnect
    PROVE  at' \in [Task -> Place] /\ attempt' \in 0..MaxRetries
<1> USE Names, McpAssumption
<1>1. CASE NextAttempt
  BY <1>1 DEF TypeOK, NextAttempt, Place
<1>2. CASE TryReconnect
  BY <1>2 DEF TypeOK, TryReconnect, Place
<1> QED
  BY <1>1, <1>2

LEMMA DialType ==
    ASSUME TypeOK, NEW t \in Task, Granted(t) \/ Connecting(t) \/ CloseOne(t)
    PROVE  TypeOK'
<1>1. CASE Granted(t)
  <2>1. UNCHANGED <<environment, administration, connected, session, failures, stack, lost,
                    attempt, closed, health, overtaken, forsaken>>
    BY <1>1 DEF Granted
  <2>2. /\ at' \in [Task -> Place] /\ on' \in [User -> Connection \cup {None}]
        /\ lock' \in Task \cup {"nobody"}
        /\ dial' \in [conn : Connection \cup {None}, stale : BOOLEAN]
    <3>1. CASE connected
      BY <1>1, <3>1, ProceedType DEF Granted, TypeOK, Place
    <3>2. CASE ~connected
      BY <1>1, <3>2, NoDialType DEF Granted, TypeOK, Place
    <3> QED
      BY <3>1, <3>2
  <2> QED
    BY <2>1, <2>2 DEF TypeOK, environment, administration, Place
<1>2. CASE DialUp(t)
  <2> DEFINE c == CHOOSE c \in Free : \A d \in Free : c <= d
  <2>1. c \in Connection
    BY <1>2, FreeIsConnection DEF DialUp
  <2> HIDE DEF c
  <2>2. /\ dial' = [dial EXCEPT !.conn = c]
        /\ broken' = broken \ {c}
        /\ stack' \in {stack, stack \cup {c}} /\ lost' \in {lost, lost \cup {c}}
        /\ UNCHANGED <<administration, up, faults, connected, session, failures, lock, at, on,
                       attempt, closed, health, overtaken, forsaken>>
    BY <1>2 DEF DialUp, c
  <2> QED
    BY <2>1, <2>2 DEF TypeOK, administration
<1>3. CASE DialDone(t)
  <2>1. dial.conn \in Connection
    BY <1>3 DEF DialDone, Serves, Open, TypeOK
  <2>2. at' \in [Task -> Place] /\ on' \in [User -> Connection \cup {None}]
    BY <1>3, <2>1, ProceedType DEF DialDone, Place
  <2>3. /\ session' = dial.conn /\ connected' = TRUE /\ failures' = 0 /\ lock' = "nobody"
        /\ dial' = NoDial /\ health' \in {Asleep, health} /\ registered' \in {"yes", registered}
        /\ forsaken' = FALSE
        /\ UNCHANGED <<environment, stack, lost, attempt, closed, command, commands, contested,
                       listings, overtaken>>
    BY <1>3 DEF DialDone
  <2>4. health' \in HealthTypes
    BY <2>3, HealthTypesHold DEF TypeOK, HealthTypes
  <2>5. /\ registered' \in {"new", "yes", "gone"} /\ failures' \in 0..MaxRetries
        /\ lock' \in Task \cup {"nobody"}
        /\ dial' \in [conn : Connection \cup {None}, stale : BOOLEAN]
    BY <2>3, NoDialType, McpAssumption DEF TypeOK
  <2>6. /\ session' \in Connection \cup {None}
        /\ connected' \in BOOLEAN /\ forsaken' \in BOOLEAN
    BY <2>1, <2>3
  <2> QED
    BY <2>2, <2>3, <2>4, <2>5, <2>6 DEF TypeOK, environment, Place, HealthTypes
<1>4. CASE DialFails(t)
  <2>1. /\ lock' = "nobody" /\ dial' = NoDial /\ registered' \in {"gone", registered}
        /\ forsaken' = (forsaken \/ (t = "admin" /\ command = "reconnect"))
        /\ UNCHANGED <<up, broken, connected, session, failures, stack, lost, on, closed,
                       health, command, commands, contested, listings, overtaken>>
    BY <1>4 DEF DialFails
  <2>2. at' \in [Task -> Place] /\ attempt' \in 0..MaxRetries
    <3>1. CASE t = "loop"
      BY <1>4, <3>1, AttemptType DEF DialFails
    <3>2. CASE t # "loop"
      BY <1>4, <3>2 DEF DialFails, TypeOK, Place
    <3> QED
      BY <3>1, <3>2
  <2>3. faults' \in 0..MaxFaults
    BY <1>4, McpAssumption DEF DialFails, Fault, TypeOK
  <2> QED
    BY <2>1, <2>2, <2>3, NoDialType DEF TypeOK, Place
<1>5. CASE CloseOne(t)
  <2>1. /\ stack' \subseteq stack /\ closed' = TRUE
        /\ UNCHANGED <<environment, administration, connected, session, failures, lost, lock,
                       dial, at, on, attempt, health, overtaken, forsaken>>
    BY <1>5 DEF CloseOne
  <2> QED
    BY <2>1 DEF TypeOK, environment, administration
<1> QED
  BY <1>1, <1>2, <1>3, <1>4, <1>5 DEF Connecting

LEMMA CallType ==
    ASSUME TypeOK, NEW c \in Caller, Call(c) \/ Answered(c)
    PROVE  TypeOK'
<1> USE Names
<1>1. CASE Call(c)
  <2>1. /\ Connect(c, connected, session)
        /\ UNCHANGED <<environment, administration, connected, session, failures, stack, lost,
                       attempt, closed, health, overtaken, forsaken>>
    BY <1>1 DEF Call
  <2>2. session \in Connection \cup {None}
    BY DEF TypeOK
  <2>3. /\ at' \in [Task -> Place] /\ on' \in [User -> Connection \cup {None}]
        /\ lock' \in Task \cup {"nobody"}
        /\ dial' \in [conn : Connection \cup {None}, stale : BOOLEAN]
    BY <2>1, <2>2, ConnectType DEF Place
  <2> QED
    BY <2>1, <2>3 DEF TypeOK, environment, administration, Place
<1>2. CASE CallReturns(c)
  BY <1>2 DEF CallReturns, TypeOK, environment, administration
<1>3. CASE CallFails(c)
  <2>1. failures' \in 0..MaxRetries /\ connected' \in BOOLEAN
    BY <1>3, CountType DEF CallFails
  <2>2. faults' \in 0..MaxFaults
    BY <1>3, McpAssumption DEF CallFails, Fault, TypeOK
  <2> QED
    BY <1>3, <2>1, <2>2 DEF CallFails, TypeOK, administration
<1> QED
  BY <1>1, <1>2, <1>3 DEF Answered

LEMMA ListedType ==
    ASSUME TypeOK, Listed
    PROVE  TypeOK'
<1> USE Names
<1>1. UNCHANGED <<environment, command, registered, commands, contested, connected, session,
                  failures, stack, lost, attempt, closed, health, overtaken, forsaken>>
  BY DEF Listed
<1>2. session \in Connection \cup {None}
  BY DEF TypeOK
<1>3. /\ at' \in [Task -> Place] /\ on' \in [User -> Connection \cup {None}]
      /\ lock' \in Task \cup {"nobody"}
      /\ dial' \in [conn : Connection \cup {None}, stale : BOOLEAN]
  <2>1. CASE listings > 1
    BY <1>2, <2>1, ConnectType DEF Listed, Place
  <2>2. CASE ~(listings > 1)
    BY <2>2 DEF Listed, TypeOK, Place
  <2> QED
    BY <2>1, <2>2
<1>4. listings' \in 0..Listings
  BY McpAssumption DEF Listed, TypeOK
<1> QED
  BY <1>1, <1>3, <1>4 DEF TypeOK, environment, Place

LEMMA HealthType ==
    ASSUME TypeOK, HealthWakes \/ Pinged
    PROVE  TypeOK'
<1> USE HealthTypesHold
<1>1. CASE HealthWakes
  <2>1. /\ health' \in HealthTypes
        /\ UNCHANGED <<at, attempt>> \/ TryReconnect
        /\ UNCHANGED <<environment, administration, connected, session, failures, stack, lost,
                       lock, dial, on, closed, overtaken, forsaken>>
    BY <1>1 DEF HealthWakes, TypeOK, HealthTypes
  <2>2. at' \in [Task -> Place] /\ attempt' \in 0..MaxRetries
    BY <2>1, AttemptType DEF TypeOK, Place
  <2> QED
    BY <2>1, <2>2 DEF TypeOK, environment, administration, HealthTypes, Place
<1>2. CASE PingReturns
  <2>1. /\ health' \in HealthTypes /\ failures' = 0
        /\ UNCHANGED <<environment, administration, connected, session, stack, lost, lock, dial,
                       at, on, attempt, closed, overtaken, forsaken>>
    BY <1>2 DEF PingReturns
  <2> QED
    BY <2>1, McpAssumption DEF TypeOK, environment, administration, HealthTypes
<1>3. CASE PingFails
  <2>1. /\ health' \in HealthTypes /\ TryReconnect /\ OnCallFailure
        /\ UNCHANGED <<administration, up, broken, session, stack, lost, lock, dial, on, closed,
                       overtaken, forsaken>>
    BY <1>3 DEF PingFails
  <2>2. at' \in [Task -> Place] /\ attempt' \in 0..MaxRetries
    BY <2>1, AttemptType
  <2>3. failures' \in 0..MaxRetries /\ connected' \in BOOLEAN
    BY <2>1, CountType
  <2>4. faults' \in 0..MaxFaults
    BY <1>3, McpAssumption DEF PingFails, Fault, TypeOK
  <2> QED
    BY <2>1, <2>2, <2>3, <2>4 DEF TypeOK, administration, HealthTypes, Place
<1> QED
  BY <1>1, <1>2, <1>3 DEF Pinged

\* The types that a step of the loop or of a handler can disturb.
PlaceTypes ==
    /\ at \in [Task -> Place]
    /\ on \in [User -> Connection \cup {None}]
    /\ lock \in Task \cup {"nobody"}
    /\ dial \in [conn : Connection \cup {None}, stale : BOOLEAN]

LEMMA ReplacesType ==
    ASSUME TypeOK, LoopReplaces
    PROVE  PlaceTypes' /\ session' = None /\ overtaken' \in BOOLEAN
<1> USE Names
<1>1. session' = None /\ overtaken' \in BOOLEAN
  BY DEF LoopReplaces, TypeOK
<1>2. CASE lock = "nobody"
  <2>1. Connect("loop", connected, None)
    BY <1>2 DEF LoopReplaces
  <2>2. None \in Connection \cup {None}
    OBVIOUS
  <2> QED
    BY <1>1, <2>1, <2>2, ConnectType DEF PlaceTypes, Place
<1>3. CASE lock # "nobody"
  <2>1. /\ at' = [at EXCEPT !["loop"] = "lock"] /\ dial' = [dial EXCEPT !.stale = TRUE]
        /\ UNCHANGED <<lock, on>>
    BY <1>3 DEF LoopReplaces
  <2> QED
    BY <1>1, <2>1 DEF PlaceTypes, Place, TypeOK
<1> QED
  BY <1>2, <1>3

LEMMA LoopType ==
    ASSUME TypeOK, LoopWakes \/ LoopEnds
    PROVE  TypeOK'
<1> USE Names
<1>1. /\ PlaceTypes' /\ session' \in {session, None} /\ closed' \in BOOLEAN
      /\ overtaken' \in BOOLEAN /\ attempt' \in 0..MaxRetries
  <2>1. CASE LoopWakes
    <3>1. UNCHANGED attempt
      BY <2>1 DEF LoopWakes
    <3>2. \/ /\ \E place \in {"idle", "close"} : at' = [at EXCEPT !["loop"] = place]
             /\ closed' \in {closed, FALSE} /\ UNCHANGED <<lock, dial, on, session, overtaken>>
          \/ LoopReplaces /\ UNCHANGED closed
      BY <2>1 DEF LoopWakes
    <3>3. CASE LoopReplaces /\ UNCHANGED closed
      BY <3>1, <3>3, ReplacesType DEF TypeOK
    <3>4. ASSUME NEW place \in {"idle", "close"}, at' = [at EXCEPT !["loop"] = place],
                 closed' \in {closed, FALSE}, UNCHANGED <<lock, dial, on, session, overtaken>>
          PROVE  PlaceTypes' /\ session' = session /\ closed' \in BOOLEAN /\ overtaken' \in BOOLEAN
      BY <3>4 DEF TypeOK, PlaceTypes, Place
    <3> QED
      BY <3>1, <3>2, <3>3, <3>4 DEF TypeOK
  <2>2. CASE LoopClosed
    BY <2>2, ReplacesType DEF LoopClosed, TypeOK
  <2>3. CASE LoopCloseRaises
    <3>1. NextAttempt /\ UNCHANGED <<session, lock, dial, on, closed, overtaken>>
      BY <2>3 DEF LoopCloseRaises
    <3> QED
      BY <3>1, AttemptType DEF TypeOK, PlaceTypes
  <2> QED
    BY <2>1, <2>2, <2>3 DEF LoopEnds
<1>2. UNCHANGED <<environment, administration, connected, failures, stack, lost, health,
                  forsaken>>
  BY DEF LoopWakes, LoopEnds, LoopClosed, LoopCloseRaises
<1> QED
  BY <1>1, <1>2 DEF TypeOK, PlaceTypes, Place, environment, administration

\* A handler connects, or looks at the client under the lock.
LEMMA AdminConnectsType ==
    ASSUME TypeOK, NEW where \in [Task -> Place], AdminConnects(where)
    PROVE  /\ at' \in [Task -> Place] /\ lock' \in Task \cup {"nobody"}
           /\ dial' \in [conn : Connection \cup {None}, stale : BOOLEAN]
BY Names, NoDialType DEF AdminConnects, Place, TypeOK

LEMMA InspectType ==
    ASSUME TypeOK, NEW where \in [Task -> Place], NEW what, lock = "nobody", Inspect(where, what)
    PROVE  /\ at' \in [Task -> Place] /\ lock' \in Task \cup {"nobody"}
           /\ dial' \in [conn : Connection \cup {None}, stale : BOOLEAN]
           /\ closed' \in BOOLEAN
<1> USE Names
<1>1. CASE connected
  <2>1. /\ at' = [where EXCEPT !["admin"] = "close"] /\ lock' = "admin"
        /\ closed' = FALSE /\ dial' = dial
    BY <1>1 DEF Inspect
  <2> QED
    BY <2>1 DEF Place, TypeOK
<1>2. CASE ~connected /\ what = "reconnect"
  BY <1>2, AdminConnectsType DEF Inspect, TypeOK
<1>3. CASE ~connected /\ what # "reconnect"
  BY <1>3 DEF Inspect, Place, TypeOK
<1> QED
  BY <1>1, <1>2, <1>3 DEF TypeOK

LEMMA CommandType ==
    ASSUME TypeOK, NEW what \in {"reconnect", "remove"}, Command(what)
    PROVE  TypeOK'
<1> USE Names
<1> DEFINE where == [at EXCEPT !["loop"] = "idle"]
<1>1. where \in [Task -> Place]
  BY DEF TypeOK, Place
<1>2. /\ at' \in [Task -> Place] /\ lock' \in Task \cup {"nobody"}
      /\ dial' \in [conn : Connection \cup {None}, stale : BOOLEAN]
      /\ closed' \in BOOLEAN
  <2>1. CASE lock = "nobody" /\ \A u \in User : ~Waits(u)
    <3>1. Inspect(where, what)
      BY <2>1 DEF Command
    <3> HIDE DEF where
    <3> QED
      BY <1>1, <2>1, <3>1, InspectType
  <2>2. CASE ~(lock = "nobody" /\ \A u \in User : ~Waits(u))
    <3>1. /\ at' = [where EXCEPT !["admin"] = "closelock"]
          /\ lock' = IF lock = "loop" THEN "nobody" ELSE lock
          /\ UNCHANGED <<dial, closed>>
      BY <2>2 DEF Command
    <3> HIDE DEF where
    <3> QED
      BY <1>1, <3>1 DEF TypeOK, Place
  <2> QED
    BY <2>1, <2>2
<1>3. /\ command' = what /\ registered' \in {"gone", registered} /\ contested' \in BOOLEAN
      /\ health' = NoHealth /\ stack' \in {{}, stack} /\ attempt' = 0
      /\ UNCHANGED <<environment, connected, session, failures, lost, on, listings, overtaken,
                     forsaken>>
  BY DEF Command, StopHealth
<1>4. commands' \in 0..MaxCommands /\ attempt' \in 0..MaxRetries
  BY <1>3, McpAssumption DEF Command, TypeOK
<1> QED
  BY <1>2, <1>3, <1>4, HealthTypesHold DEF TypeOK, environment, HealthTypes, Place

LEMMA AdminType ==
    ASSUME TypeOK, CommandGranted \/ AdminEnds
    PROVE  TypeOK'
<1> USE Names
<1>1. CASE CommandGranted
  <2>1. /\ lock = "nobody" /\ Inspect(at, command)
        /\ UNCHANGED <<environment, administration, connected, session, failures, stack, lost,
                       on, attempt, health, overtaken, forsaken>>
    BY <1>1 DEF CommandGranted
  <2>2. at \in [Task -> Place]
    BY DEF TypeOK, Place
  <2>3. /\ at' \in [Task -> Place] /\ lock' \in Task \cup {"nobody"}
        /\ dial' \in [conn : Connection \cup {None}, stale : BOOLEAN]
        /\ closed' \in BOOLEAN
    BY <2>1, <2>2, InspectType
  <2> QED
    BY <2>1, <2>3 DEF TypeOK, environment, administration, Place
<1>2. CASE AdminEnds
  <2>1. /\ session' \in {session, None} /\ connected' \in {connected, FALSE}
        /\ UNCHANGED <<environment, administration, failures, stack, lost, on, attempt, closed,
                       health, overtaken, forsaken>>
        /\ \/ AdminConnects(at)
           \/ at' = [at EXCEPT !["admin"] = "idle"] /\ lock' = "nobody" /\ UNCHANGED dial
    BY <1>2 DEF AdminEnds, AdminClosed, CloseRaises
  <2>2. at \in [Task -> Place]
    BY DEF TypeOK, Place
  <2>3. /\ at' \in [Task -> Place] /\ lock' \in Task \cup {"nobody"}
        /\ dial' \in [conn : Connection \cup {None}, stale : BOOLEAN]
    <3>1. CASE AdminConnects(at)
      BY <2>2, <3>1, AdminConnectsType
    <3>2. CASE at' = [at EXCEPT !["admin"] = "idle"] /\ lock' = "nobody" /\ UNCHANGED dial
      BY <2>2, <3>2 DEF TypeOK, Place
    <3> QED
      BY <2>1, <3>1, <3>2
  <2>4. connected' \in BOOLEAN /\ session' \in Connection \cup {None}
    BY <2>1 DEF TypeOK
  <2>5. UNCHANGED <<environment, administration, failures, stack, lost, on, attempt, closed,
                    health, overtaken, forsaken>>
    BY <2>1
  <2> QED
    BY <2>3, <2>4, <2>5 DEF TypeOK, environment, administration, Place
<1> QED
  BY <1>1, <1>2

LEMMA ServerType ==
    ASSUME TypeOK, ServerFails \/ ServerReturns \/ UNCHANGED vars
    PROVE  TypeOK'
<1>1. CASE ServerFails
  <2>1. faults' \in 0..MaxFaults
    BY <1>1, McpAssumption DEF ServerFails, Fault, TypeOK
  <2>2. up' \in BOOLEAN /\ (broken \cup stack \cup lost)' \subseteq Connection
    BY <1>1 DEF ServerFails, TypeOK
  <2>3. UNCHANGED <<administration, connected, session, failures, lock, dial, at, on,
                    attempt, closed, health, overtaken, forsaken>>
    BY <1>1 DEF ServerFails
  <2> QED
    BY <2>1, <2>2, <2>3 DEF TypeOK, administration
<1>2. CASE ServerReturns
  BY <1>2 DEF ServerReturns, TypeOK, administration
<1>3. CASE UNCHANGED vars
  BY <1>3 DEF vars, TypeOK
<1> QED
  BY <1>1, <1>2, <1>3

LEMMA TypeStep ==
    ASSUME TypeOK, [Next]_vars
    PROVE  TypeOK'
<1>1. ASSUME NEW t \in Task, Granted(t) \/ Connecting(t) \/ CloseOne(t)
      PROVE  TypeOK'
  BY <1>1, DialType
<1>2. ASSUME NEW c \in Caller, Call(c) \/ Answered(c)
      PROVE  TypeOK'
  BY <1>2, CallType
<1>3. CASE HealthWakes \/ Pinged
  BY <1>3, HealthType
<1>4. CASE LoopWakes \/ LoopEnds
  BY <1>4, LoopType
<1>5. ASSUME NEW what \in {"reconnect", "remove"}, Command(what)
      PROVE  TypeOK'
  BY <1>5, CommandType
<1>6. CASE CommandGranted \/ AdminEnds
  BY <1>6, AdminType
<1>7. CASE ServerFails \/ ServerReturns \/ UNCHANGED vars
  BY <1>7, ServerType
<1>8. CASE Listed
  BY <1>8, ListedType
<1> QED
  BY <1>1, <1>2, <1>3, <1>4, <1>5, <1>6, <1>7, <1>8 DEF Next

LEMMA TypeInit ==
    ASSUME Init
    PROVE  TypeOK
<1> USE Names DEF Init
<1>1. /\ dial \in [conn : Connection \cup {None}, stale : BOOLEAN]
      /\ health \in HealthTypes
  BY NoDialType, HealthTypesHold
<1>2. /\ at \in [Task -> Place]
      /\ on \in [User -> Connection \cup {None}]
      /\ lock \in Task \cup {"nobody"}
  BY DEF Place
<1>3. /\ failures \in 0..MaxRetries /\ attempt \in 0..MaxRetries
      /\ faults \in 0..MaxFaults /\ commands \in 0..MaxCommands
  BY McpAssumption
<1>4. /\ broken \cup stack \cup lost \subseteq Connection
      /\ session \in Connection \cup {None}
      /\ command \in {"add", "reconnect", "remove"} /\ registered \in {"new", "yes", "gone"}
  OBVIOUS
<1>5. /\ up \in BOOLEAN /\ connected \in BOOLEAN /\ closed \in BOOLEAN
      /\ overtaken \in BOOLEAN /\ forsaken \in BOOLEAN /\ contested \in BOOLEAN
  OBVIOUS
<1>6. listings \in 0..Listings
  BY McpAssumption
<1> QED
  BY <1>1, <1>2, <1>3, <1>4, <1>5, <1>6 DEF TypeOK, Place, HealthTypes

\* The client of an MCP server keeps its types.
THEOREM TypeCorrectness == Spec => []TypeOK
  BY TypeInit, TypeStep, PTL DEF Spec

-----------------------------------------------------------------------------
\* A step that gives up the session gives up _connected, or is the loop's.
LEMMA SessionStep ==
    ASSUME TypeOK, SessionIsThere, [Next]_vars
    PROVE  SessionIsThere'
<1>1. CASE \/ session' = session /\ (connected' => connected) /\ overtaken' = overtaken
           \/ connected' = FALSE
           \/ overtaken' = (overtaken \/ connected) /\ connected' = connected
  BY <1>1 DEF SessionIsThere, TypeOK
<1>2. ASSUME NEW t \in Task, DialDone(t)
      PROVE  SessionIsThere'
  <2>1. session' \in Connection
    BY <1>2 DEF DialDone, Serves, Open, TypeOK
  <2>2. None \notin Connection
    BY McpAssumption DEF None, Connection
  <2> QED
    BY <2>1, <2>2 DEF SessionIsThere
<1>3. ASSUME NEW t \in Task, Granted(t) \/ DialUp(t) \/ DialFails(t) \/ CloseOne(t)
      PROVE  UNCHANGED <<session, connected, overtaken>>
  BY <1>3 DEF Granted, DialUp, DialFails, CloseOne
<1>4. ASSUME NEW c \in Caller, Call(c) \/ Answered(c)
      PROVE  session' = session /\ (connected' => connected) /\ overtaken' = overtaken
  <2>1. CASE CallFails(c)
    BY <2>1 DEF CallFails, OnCallFailure
  <2>2. CASE Call(c) \/ CallReturns(c)
    BY <2>2 DEF Call, CallReturns
  <2> QED
    BY <1>4, <2>1, <2>2 DEF Answered
<1>5. CASE HealthWakes \/ Pinged
  BY <1>1, <1>5 DEF HealthWakes, Pinged, PingReturns, PingFails, OnCallFailure
<1>6. CASE LoopWakes \/ LoopEnds
  BY <1>1, <1>6 DEF LoopWakes, LoopEnds, LoopClosed, LoopCloseRaises, LoopReplaces
<1>7. ASSUME NEW what \in {"reconnect", "remove"}, Command(what)
      PROVE  UNCHANGED <<session, connected, overtaken>>
  BY <1>7 DEF Command
<1>8. CASE CommandGranted \/ AdminEnds
  BY <1>1, <1>8 DEF CommandGranted, AdminEnds, AdminClosed, CloseRaises
<1>9. CASE ServerFails \/ ServerReturns \/ UNCHANGED vars
  <2>1. UNCHANGED <<session, connected, overtaken>>
    BY <1>9 DEF ServerFails, ServerReturns, vars
  <2> QED
    BY <2>1 DEF SessionIsThere
<1>10. CASE Listed
  <2>1. UNCHANGED <<session, connected, overtaken>>
    BY <1>10 DEF Listed
  <2> QED
    BY <2>1 DEF SessionIsThere
<1> QED
  BY <1>1, <1>2, <1>3, <1>4, <1>5, <1>6, <1>7, <1>8, <1>9, <1>10 DEF Next, Connecting

\* A client of sdk_client.py whose _connected is set has a _session, however calls,
\* the health check, the loop and the handlers alternate, as long as the loop did
\* not replace the stack under a task that had connected meanwhile.
THEOREM ConnectedIsInSession == Spec => []SessionIsThere
<1>1. Init => TypeOK /\ SessionIsThere
  BY TypeInit DEF Init, SessionIsThere
<1>2. TypeOK /\ SessionIsThere /\ [Next]_vars => (TypeOK /\ SessionIsThere)'
  BY TypeStep, SessionStep
<1> QED
  BY <1>1, <1>2, PTL DEF Spec

=============================================================================
