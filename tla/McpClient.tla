------------------------------ MODULE McpClient ------------------------------
(***************************************************************************)
(* The client of one MCP server: SdkMcpClient of                           *)
(* tools/extensions/mcp/sdk_client.py, its place in McpRuntime of          *)
(* runtime.py, and the handlers of server.py that add it, remove it and    *)
(* force a reconnection.                                                   *)
(*                                                                         *)
(* All of it is coroutines of one loop: calls of tools, the health check,  *)
(* the loop that reconnects, and the handlers: "adder" is the one that     *)
(* adds the client, "admin" any other.  An action is what one of them does *)
(* between two suspensions.  An asyncio.Lock that is free, and   *)
(* for which nobody waits, is taken without one, and so is the exit from   *)
(* an empty AsyncExitStack.                                                *)
(*                                                                         *)
(* A connection is the transport and the session on it: for stdio, a       *)
(* process.  Reconnection is enabled, which is the default.                *)
(***************************************************************************)
EXTENDS Integers, FiniteSets

CONSTANTS
    Caller,         \* tasks that call tools of the server
    MaxConnections, \* bound of the model: connections at a time
    MaxRetries,     \* reconnect.max_retries
    MaxFaults,      \* bound of the model: failures of the server and of requests
    MaxCommands,    \* bound of the model: requests to reconnect or to remove
    Listings        \* what add_server asks the server for, of resources and prompts

ASSUME McpAssumption ==
    /\ {MaxConnections, MaxFaults, MaxCommands} \subseteq Nat
    /\ MaxRetries \in Nat \ {0, 1}
    /\ Listings \in 0..2
    /\ {"loop", "admin", "adder", "nobody"} \cap Caller = {}

User == Caller \cup {"adder"}
Task == User \cup {"loop", "admin"}
Connection == 1..MaxConnections
None == 0

VARIABLES
    up,         \* the server answers
    broken,     \* connections the server no longer serves
    connected,  \* _connected
    session,    \* _session
    failures,   \* _failure_count, which matters up to MaxRetries
    stack,      \* connections whose exit is on _stack
    lost,       \* connections whose exit is on a stack that nobody will close
    lock,       \* who holds _connect_lock
    dial,       \* what the holder is connecting, and whether onto an old stack
    at,         \* where each task is
    on,         \* the session that each call uses, while it is at "call"
    listings,   \* what the adding handler has still to ask the server for
    attempt,    \* of the loop
    closed,     \* whoever closes the stack has closed something
    health,     \* _health_check_task: where it is, and the session it pings
    command,    \* what the handler does
    registered, \* the client in McpRuntime.clients
    faults, commands,
    overtaken,  \* history: the loop threw away the session of another task
    forsaken,   \* history: a forced reconnection failed, and nothing connected since
    contested   \* history: when the client was removed somebody was connecting, or
                \* had it to connect again

vars == <<up, broken, connected, session, failures, stack, lost, lock, dial, at, on,
          listings, attempt, closed, health, command, registered, faults, commands,
          overtaken, forsaken, contested>>

environment == <<up, broken, faults>>
administration == <<command, registered, commands, contested, listings>>

Open == stack \cup lost
Serves(c) == c \in Open \ broken
InUse == {session, health.conn} \cup {on[u] : u \in {v \in User : at[v] = "call"}}
Free == Connection \ (Open \cup InUse)

Waits(t) == at[t] \in {"lock", "closelock"}

\* t takes the lock without being suspended.
NoContention(t) == lock = "nobody" /\ \A u \in Task \ {t} : ~Waits(u)

NoDial == [conn |-> None, stale |-> FALSE]
NoHealth == [at |-> "off", conn |-> None]
Asleep == [at |-> "sleep", conn |-> None]

TypeOK ==
    /\ up \in BOOLEAN /\ connected \in BOOLEAN /\ closed \in BOOLEAN
    /\ overtaken \in BOOLEAN /\ forsaken \in BOOLEAN /\ contested \in BOOLEAN
    /\ broken \cup stack \cup lost \subseteq Connection
    /\ session \in Connection \cup {None}
    /\ failures \in 0..MaxRetries
    /\ lock \in Task \cup {"nobody"}
    /\ dial \in [conn : Connection \cup {None}, stale : BOOLEAN]
    /\ at \in [Task -> {"idle", "lock", "closelock", "close", "dial", "call", "backoff"}]
    /\ on \in [User -> Connection \cup {None}]
    /\ listings \in 0..Listings
    /\ attempt \in 0..MaxRetries
    /\ health \in [at : {"off", "sleep", "ping"}, conn : Connection \cup {None}]
    /\ command \in {"add", "reconnect", "remove"}
    /\ registered \in {"new", "yes", "gone"}
    /\ faults \in 0..MaxFaults /\ commands \in 0..MaxCommands

-----------------------------------------------------------------------------
(* connect *)

\* What t does once connect() has returned: a call uses the session, and fails at
\* once if there is none (assert), and so does a listing of the adding handler; the
\* loop and the other handlers are done.
Proceed(t, conn) ==
    LET calls == t \in User /\ conn # None /\ (t = "adder" => listings > 0) IN
    /\ at' = [at EXCEPT ![t] = IF calls THEN "call" ELSE "idle"]
    /\ on' = IF calls THEN [on EXCEPT ![t] = conn] ELSE on

\* connect(), by a task that holds nothing, where _connected is isConnected and
\* _session is conn.
Connect(t, isConnected, conn) ==
    IF ~NoContention(t)
    THEN at' = [at EXCEPT ![t] = "lock"] /\ UNCHANGED <<lock, dial, on>>
    ELSE IF isConnected THEN Proceed(t, conn) /\ UNCHANGED <<lock, dial>>
    ELSE /\ at' = [at EXCEPT ![t] = "dial"]
         /\ lock' = t /\ dial' = NoDial
         /\ UNCHANGED on

\* The lock, for which t was waiting inside connect().
Granted(t) ==
    /\ at[t] = "lock"
    /\ lock = "nobody"
    /\ IF connected
       THEN Proceed(t, session) /\ UNCHANGED <<lock, dial>>
       ELSE /\ lock' = t
            /\ dial' = NoDial
            /\ at' = [at EXCEPT ![t] = "dial"]
            /\ UNCHANGED on
    /\ UNCHANGED <<environment, administration, connected, session, failures, stack, lost,
                   attempt, closed, health, overtaken, forsaken>>

\* enter_async_context: the transport is up, and its exit on the stack that was
\* _stack when this began.
DialUp(t) ==
    /\ at[t] = "dial" /\ dial.conn = None
    /\ up
    /\ Free # {}
    /\ LET c == CHOOSE c \in Free : \A d \in Free : c <= d IN
       /\ dial' = [dial EXCEPT !.conn = c]
       /\ IF dial.stale THEN lost' = lost \cup {c} /\ UNCHANGED stack
                        ELSE stack' = stack \cup {c} /\ UNCHANGED lost
       /\ broken' = broken \ {c}
    /\ UNCHANGED <<administration, up, faults, connected, session, failures, lock, at, on,
                   attempt, closed, health, overtaken, forsaken>>

\* initialize() returned.  _start_health_check follows the release of the lock.  The
\* adding handler registers the client, and then lists what the server offers.
DialDone(t) ==
    /\ at[t] = "dial" /\ Serves(dial.conn)
    /\ session' = dial.conn
    /\ connected' = TRUE
    /\ failures' = 0
    /\ lock' = "nobody"
    /\ dial' = NoDial
    /\ health' = IF health.at = "off" THEN Asleep ELSE health
    /\ registered' = IF registered = "new" THEN "yes" ELSE registered
    /\ forsaken' = FALSE
    /\ Proceed(t, dial.conn)
    /\ UNCHANGED <<environment, stack, lost, attempt, closed, command, commands, contested,
                   listings, overtaken>>

\* An exception in an attempt of the loop: the next one, or _reconnect_task = None.
NextAttempt ==
    IF attempt < MaxRetries
    THEN attempt' = attempt + 1 /\ at' = [at EXCEPT !["loop"] = "backoff"]
    ELSE attempt' = 0 /\ at' = [at EXCEPT !["loop"] = "idle"]

Fault == faults < MaxFaults /\ faults' = faults + 1

\* An exception in connect(): what is on the stack stays there.  A server that
\* cannot be added is not registered; a listing that fails is only logged.
DialFails(t) ==
    /\ at[t] = "dial"
    /\ \/ /\ IF dial.conn = None THEN ~up \/ Free = {} ELSE ~Serves(dial.conn)
          /\ UNCHANGED faults
       \/ Fault
    /\ lock' = "nobody"
    /\ dial' = NoDial
    /\ IF t = "loop" THEN NextAttempt
                     ELSE at' = [at EXCEPT ![t] = "idle"] /\ UNCHANGED attempt
    /\ registered' = IF registered = "new" THEN "gone" ELSE registered
    /\ forsaken' = (forsaken \/ (t = "admin" /\ command = "reconnect"))
    /\ UNCHANGED <<up, broken, connected, session, failures, stack, lost, on, closed,
                   health, command, commands, contested, listings, overtaken>>

-----------------------------------------------------------------------------
(* Calls *)

\* McpToolHandlers.invoke, call_tool; the other requests have the same shape.
Call(c) ==
    /\ registered = "yes"
    /\ at[c] = "idle"
    /\ Connect(c, connected, session)
    /\ UNCHANGED <<environment, administration, connected, session, failures, stack, lost,
                   attempt, closed, health, overtaken, forsaken>>

\* The answer, or the timeout of the tool, which is not counted.
CallReturns(c) ==
    /\ at[c] = "call"
    /\ at' = [at EXCEPT ![c] = "idle"]
    /\ on' = [on EXCEPT ![c] = None]
    /\ UNCHANGED <<environment, administration, connected, session, failures, stack, lost,
                   lock, dial, attempt, closed, health, overtaken, forsaken>>

\* _on_call_failure
OnCallFailure ==
    /\ failures' = IF failures < MaxRetries THEN failures + 1 ELSE failures
    /\ connected' = (connected /\ failures = 0)

CallFails(c) ==
    /\ at[c] = "call"
    /\ (~Serves(on[c]) /\ UNCHANGED faults) \/ Fault
    /\ OnCallFailure
    /\ at' = [at EXCEPT ![c] = "idle"]
    /\ on' = [on EXCEPT ![c] = None]
    /\ UNCHANGED <<administration, up, broken, session, stack, lost, lock, dial, attempt,
                   closed, health, overtaken, forsaken>>

\* A listing of the adding handler, of resources or of prompts, is answered, or has
\* failed, which is not counted; the next one begins with connect().
Listed ==
    /\ at["adder"] = "call" /\ listings > 0
    /\ listings' = listings - 1
    /\ IF listings > 1 THEN Connect("adder", connected, session)
       ELSE at' = [at EXCEPT !["adder"] = "idle"] /\ UNCHANGED <<lock, dial, on>>
    /\ UNCHANGED <<environment, command, registered, commands, contested, connected,
                   session, failures, stack, lost, attempt, closed, health, overtaken,
                   forsaken>>

-----------------------------------------------------------------------------
(* The health check and the loop that reconnects *)

NextHealth_WhileConnected(isConnected, count) == IF isConnected THEN Asleep ELSE NoHealth

\* The condition of the while loop of the health check.
NextHealth(isConnected, count) ==
    IF isConnected \/ count < MaxRetries THEN Asleep ELSE NoHealth

\* _try_reconnect
TryReconnect ==
    IF at["loop"] = "idle"
    THEN at' = [at EXCEPT !["loop"] = "backoff"] /\ attempt' = 1
    ELSE UNCHANGED <<at, attempt>>

HealthWakes ==
    /\ health.at = "sleep"
    /\ IF connected /\ session # None
       THEN health' = [at |-> "ping", conn |-> session] /\ UNCHANGED <<at, attempt>>
       ELSE health' = NextHealth(connected, failures) /\ TryReconnect
    /\ UNCHANGED <<environment, administration, connected, session, failures, stack, lost,
                   lock, dial, on, closed, overtaken, forsaken>>

PingReturns ==
    /\ health.at = "ping" /\ Serves(health.conn)
    /\ failures' = 0
    /\ health' = NextHealth(connected, 0)
    /\ UNCHANGED <<environment, administration, connected, session, stack, lost, lock, dial,
                   at, on, attempt, closed, overtaken, forsaken>>

\* An exception, or five seconds without an answer.
PingFails ==
    /\ health.at = "ping"
    /\ (~Serves(health.conn) /\ UNCHANGED faults) \/ Fault
    /\ OnCallFailure
    /\ health' = NextHealth(connected', failures')
    /\ TryReconnect
    /\ UNCHANGED <<administration, up, broken, session, stack, lost, lock, dial, on, closed,
                   overtaken, forsaken>>

\* A new _stack, no _session, connect().  Whoever is connecting goes on with the
\* stack it has; whoever has connected loses its session.
LoopReplaces ==
    /\ session' = None
    /\ overtaken' = (overtaken \/ connected)
    /\ IF lock = "nobody" THEN Connect("loop", connected, None)
       ELSE /\ at' = [at EXCEPT !["loop"] = "lock"]
            /\ dial' = [dial EXCEPT !.stale = TRUE]
            /\ UNCHANGED <<lock, on>>

\* After the delay of an attempt: _connected, under the lock for this test only,
\* and aclose() of the stack.
LoopWakes ==
    /\ at["loop"] = "backoff"
    /\ lock = "nobody"
    /\ IF connected
       THEN /\ at' = [at EXCEPT !["loop"] = "idle"]
            /\ UNCHANGED <<lock, dial, on, session, closed, overtaken>>
       ELSE IF stack = {} THEN LoopReplaces /\ UNCHANGED closed
       ELSE /\ at' = [at EXCEPT !["loop"] = "close"]
            /\ closed' = FALSE
            /\ UNCHANGED <<lock, dial, on, session, overtaken>>
    /\ UNCHANGED <<environment, administration, connected, failures, stack, lost, attempt,
                   health, forsaken>>

\* The exits of a stack, one by one, those that are added meanwhile included.
CloseOne(t) ==
    /\ at[t] = "close"
    /\ \E c \in stack : stack' = stack \ {c}
    /\ closed' = TRUE
    /\ UNCHANGED <<environment, administration, connected, session, failures, lost, lock,
                   dial, at, on, attempt, health, overtaken, forsaken>>

LoopClosed ==
    /\ at["loop"] = "close"
    /\ stack = {}
    /\ LoopReplaces
    /\ UNCHANGED <<environment, administration, connected, failures, stack, lost, attempt,
                   closed, health, forsaken>>

\* An exit raises: a connection is closed by another task than the one that opened
\* it, which anyio refuses after the fact.
LoopCloseRaises ==
    /\ at["loop"] = "close"
    /\ stack = {} /\ closed
    /\ NextAttempt
    /\ UNCHANGED <<environment, administration, connected, session, failures, stack, lost,
                   lock, dial, on, closed, health, overtaken, forsaken>>

-----------------------------------------------------------------------------
(* The handlers *)

\* connect() by the handler, which holds nothing any more and finds no session.
AdminConnects(where) ==
    IF \A u \in Task \ {"admin"} : where[u] # "lock"
    THEN at' = [where EXCEPT !["admin"] = "dial"] /\ lock' = "admin" /\ dial' = NoDial
    ELSE at' = [where EXCEPT !["admin"] = "lock"] /\ lock' = "nobody" /\ UNCHANGED dial

\* What aclose() and force_reconnect() do with the lock, which is free.
Inspect(where, what) ==
    IF connected THEN /\ at' = [where EXCEPT !["admin"] = "close"]
                      /\ lock' = "admin"
                      /\ closed' = FALSE
                      /\ UNCHANGED dial
    ELSE /\ IF what = "reconnect" THEN AdminConnects(where)
            ELSE at' = [where EXCEPT !["admin"] = "idle"] /\ UNCHANGED <<lock, dial>>
         /\ UNCHANGED closed

StopHealth_WhenIdle == health' = IF health.at = "sleep" THEN NoHealth ELSE health

\* _stop_health_check
StopHealth == health' = NoHealth

\* The adding handler will connect once more.
ListsAgain == at["adder"] = "call" /\ listings > 1

\* Their beginning: _stop_health_check, _cancel_reconnect, and the lock.  As it
\* unwinds, the loop gives the lock back, or runs the exits that are left.
Command(what) ==
    /\ at["admin"] = "idle"
    /\ registered = "yes"
    /\ commands < MaxCommands
    /\ commands' = commands + 1
    /\ command' = what
    /\ registered' = IF what = "remove" THEN "gone" ELSE registered
    /\ contested' = (what = "remove" /\ (ListsAgain \/ \E u \in User : lock = u \/ Waits(u)))
    /\ StopHealth
    /\ stack' = IF at["loop"] = "close" THEN {} ELSE stack
    /\ attempt' = 0
    /\ LET where == [at EXCEPT !["loop"] = "idle"] IN
       IF lock = "nobody" /\ \A u \in User : ~Waits(u)
       THEN Inspect(where, what)
       ELSE /\ at' = [where EXCEPT !["admin"] = "closelock"]
            /\ lock' = IF lock = "loop" THEN "nobody" ELSE lock
            /\ UNCHANGED <<dial, closed>>
    /\ UNCHANGED <<environment, connected, session, failures, lost, on, listings, overtaken,
                   forsaken>>

CommandGranted ==
    /\ at["admin"] = "closelock"
    /\ lock = "nobody"
    /\ Inspect(at, command)
    /\ UNCHANGED <<environment, administration, connected, session, failures, stack, lost,
                   on, attempt, health, overtaken, forsaken>>

\* force_reconnect goes on to connect(), whatever the exits raised.
AdminClosed_StillConnected ==
    /\ at["admin"] = "close"
    /\ stack = {}
    /\ session' = None
    /\ IF command = "reconnect" THEN AdminConnects(at)
       ELSE at' = [at EXCEPT !["admin"] = "idle"] /\ lock' = "nobody" /\ UNCHANGED dial
    /\ UNCHANGED <<environment, administration, connected, failures, stack, lost, on,
                   attempt, closed, health, overtaken, forsaken>>

AdminClosed ==
    /\ at["admin"] = "close"
    /\ stack = {}
    /\ session' = None
    /\ connected' = FALSE
    /\ IF command = "reconnect" THEN AdminConnects(at)
       ELSE at' = [at EXCEPT !["admin"] = "idle"] /\ lock' = "nobody" /\ UNCHANGED dial
    /\ UNCHANGED <<environment, administration, failures, stack, lost, on, attempt, closed,
                   health, overtaken, forsaken>>

\* aclose() does not catch what the exits raise.
CloseRaises ==
    /\ at["admin"] = "close" /\ command = "remove"
    /\ stack = {} /\ closed
    /\ at' = [at EXCEPT !["admin"] = "idle"]
    /\ lock' = "nobody"
    /\ UNCHANGED <<environment, administration, connected, session, failures, stack, lost,
                   dial, on, attempt, closed, health, overtaken, forsaken>>

-----------------------------------------------------------------------------
(* The server *)

ServerFails ==
    /\ up
    /\ Fault
    /\ up' = FALSE
    /\ broken' = Connection
    /\ lost' = {}
    /\ UNCHANGED <<administration, connected, session, failures, stack, lock, dial, at, on,
                   attempt, closed, health, overtaken, forsaken>>

ServerReturns ==
    /\ ~up
    /\ up' = TRUE
    /\ UNCHANGED <<administration, broken, faults, connected, session, failures, stack,
                   lost, lock, dial, at, on, attempt, closed, health, overtaken, forsaken>>

-----------------------------------------------------------------------------
\* add_server, or the start of the process, is connecting; what the definition of
\* the server gives it need not ask for.
Init ==
    /\ up \in BOOLEAN /\ broken = {}
    /\ connected = FALSE /\ session = None /\ failures = 0
    /\ stack = {} /\ lost = {}
    /\ lock = "adder" /\ dial = NoDial
    /\ at = [t \in Task |-> IF t = "adder" THEN "dial" ELSE "idle"]
    /\ on = [u \in User |-> None]
    /\ listings = Listings
    /\ attempt = 0 /\ closed = FALSE
    /\ health = NoHealth
    /\ command = "add" /\ registered = "new"
    /\ faults = 0 /\ commands = 0
    /\ overtaken = FALSE /\ forsaken = FALSE /\ contested = FALSE

Connecting(t) == DialUp(t) \/ DialDone(t) \/ DialFails(t)
Answered(c) == CallReturns(c) \/ CallFails(c)
Pinged == PingReturns \/ PingFails
LoopEnds == LoopClosed \/ LoopCloseRaises
AdminEnds == AdminClosed \/ CloseRaises

Next ==
    \/ \E t \in Task : Granted(t) \/ Connecting(t) \/ CloseOne(t)
    \/ \E c \in Caller : Call(c) \/ Answered(c)
    \/ Listed
    \/ HealthWakes \/ Pinged \/ LoopWakes \/ LoopEnds
    \/ \E what \in {"reconnect", "remove"} : Command(what)
    \/ CommandGranted \/ AdminEnds
    \/ ServerFails \/ ServerReturns

Spec == Init /\ [][Next]_vars

\* Every coroutine that can go on does.  The lock serves those who wait in their
\* order, so that who waits for it gets it when it is free again and again.
FairSpec ==
    /\ Spec
    /\ \A t \in Task : WF_vars(Connecting(t)) /\ WF_vars(CloseOne(t))
    /\ WF_vars(Listed) /\ \A c \in Caller : WF_vars(Answered(c))
    /\ SF_vars(Granted("loop")) /\ SF_vars(Granted("admin"))
    /\ WF_vars(HealthWakes) /\ WF_vars(Pinged)
    /\ SF_vars(LoopWakes) /\ WF_vars(LoopEnds)
    /\ SF_vars(CommandGranted) /\ WF_vars(AdminEnds)

-----------------------------------------------------------------------------
(* Properties *)

\* A client that calls itself connected has a session, in whatever order calls, the
\* loop, a forced reconnection and a removal close and open it, unless the loop
\* threw away the session of a task that connected while it was closing.
SessionIsThere == connected /\ ~overtaken => session # None

\* A client that was removed while nobody was connecting, nor the adding handler had
\* it to list again, is at rest: neither the health check nor the loop brings it
\* back, and what its calls have failed at since is not taken for a reason to.
RemovedRests ==
    registered = "gone" /\ command = "remove" /\ ~contested =>
        /\ health.at = "off" /\ at["loop"] = "idle"
        /\ \A t \in Task : at[t] \notin {"lock", "dial"}
        /\ at["admin"] = "idle" => lock = "nobody"

\* A call connects while the loop closes.
Intruded == at["loop"] = "close" /\ lock # "nobody"

\* Once the server answers for good, a client that is not removed has a session
\* that works, whatever failed before, unless the loop threw a session away, a
\* forced reconnection failed, or calls connect whenever the loop closes.
Recovers ==
    <>[](up /\ registered = "yes" /\ ~overtaken /\ ~forsaken /\ ~Intruded)
        => <>[](connected /\ Serves(session))

\* Without the exception for the loop.
ConnectedHasSession == connected => session # None

\* Without the exception for a forced reconnection.
AlwaysRecovers ==
    <>[](up /\ registered = "yes" /\ ~overtaken /\ ~Intruded) => <>[](connected /\ Serves(session))

\* Nobody connects a client again that was removed.
NoComeback == [][registered = "gone" /\ ~connected => ~connected']_vars

\* A client that was removed has nothing open, once its calls are over.
RemovedIsClosed ==
    (registered = "gone" /\ lock = "nobody" /\ \A t \in Task : at[t] = "idle") => Open = {}

=============================================================================
