----------------------------- MODULE EventStream -----------------------------
(***************************************************************************)
(* The events of runtime/event_store.py and the two ways a client follows  *)
(* them: the WebSocket of server.py, which subscribes and then replays, and *)
(* the pages of GET /events.                                               *)
(*                                                                         *)
(* Granularity.  append_event commits under the lock of the store and      *)
(* tells the subscribers after it let the lock go, so that a writer stands *)
(* between the two while others append.  Writers are the event loop and    *)
(* the threads of the pools: synchronous handlers, and the synchronous     *)
(* nodes of the graph.  The coroutines of the sockets run on the loop and  *)
(* move only while the loop is not inside append_event; one action is what *)
(* a socket does between two awaits that suspend.                          *)
(*                                                                         *)
(* An event is its run and its run-local sequence; its id is its place in  *)
(* the table.  A run row is the number of changes it has seen.             *)
(***************************************************************************)
EXTENDS Integers, Sequences, FiniteSets, SequencesExt

CONSTANTS
    Run,            \* runs with a row in the store
    Loop, Pool,     \* the event loop and the other threads: who appends events
    Client,         \* WebSocket connections
    NoRun,          \* the run of a connection that is not open
    Pager,          \* clients that read pages
    Scope,          \* Scope[p]: the runs whose events the query of p selects
    Limits,         \* values of the query parameter limit
    PageMax,        \* settings.event_page_max_limit
    MaxEvents,      \* bound of the model: events appended
    MaxChanges      \* bound of the model: changes of a run row

Writer == Pool \cup {Loop}

ASSUME StreamAssumption ==
    /\ IsFiniteSet(Run) /\ NoRun \notin Run
    /\ Loop \notin Pool
    /\ Scope \in [Pager -> SUBSET Run]
    /\ Limits \subseteq Int
    /\ PageMax \in Nat \ {0}
    /\ MaxEvents \in Nat
    /\ MaxChanges \in Nat

VARIABLES
    events,         \* the table events in the order of its ids
    row,            \* row[r]: changes of the row of run r
    unannounced,    \* runs whose row changed after their last event
    posting,        \* posting[w]: the event w has still to tell, and to whom
    subscribers,    \* connections whose callback is in _subscribers
    ws,             \* the coroutine run_events_ws of each connection
    pager           \* what each pager has read

vars == <<events, row, unannounced, posting, subscribers, ws, pager>>

-----------------------------------------------------------------------------
Step ==
    {"closed",
     "accepting",    \* the row was read, accept() runs
     "greeting",     \* subscribed, the row is being sent
     "waiting",      \* the stored events were sent, or a row: queue.get()
     "sent",         \* an event is being sent
     "left"}

Socket ==
    [step : Step, run : Run \cup {NoRun}, queue : Seq(Nat), seen : SUBSET Nat,
     shown : Nat, fresh : BOOLEAN, gone : BOOLEAN]

\* seen: ids sent to the client.    shown: the row last sent.
\* fresh: that row was read after an event was sent, not before accept().
\* gone: the client has closed the connection; the server learns it by sending.
ClosedSocket ==
    [step |-> "closed", run |-> NoRun, queue |-> <<>>, seen |-> {},
     shown |-> 0, fresh |-> FALSE, gone |-> FALSE]

\* id = 0: nothing to tell.  copied: the list of subscribers has been copied.
Silent == [id |-> 0, copied |-> FALSE, to |-> {}]

\* The event has been inserted; the subscribers in rest have still to be called.
Untold(i) == [id |-> i, copied |-> FALSE, to |-> {}]

Told(i, rest) == [id |-> i, copied |-> TRUE, to |-> rest]

Ids == 1..Len(events)

TypeOK ==
    /\ events \in Seq([run : Run, sequence : Nat])
    /\ row \in [Run -> Nat]
    /\ unannounced \subseteq Run
    /\ posting \in [Writer -> [id : Nat, copied : BOOLEAN, to : SUBSET Client]]
    /\ \A w \in Writer : posting[w].id \in Ids \cup {0}
    /\ subscribers \subseteq Client
    /\ ws \in [Client -> Socket]
    /\ pager \in [Pager -> [cursor : Nat, got : Seq(Nat), more : BOOLEAN]]

-----------------------------------------------------------------------------
(* append_event *)

EventsOf(rs) == {i \in Ids : events[i].run \in rs}

LatestSequence(r) ==
    LET used == {events[i].sequence : i \in EventsOf({r})}
    IN CHOOSE s \in used \cup {0} : \A u \in used : u <= s

Insert_NotTold(w, r) ==
    /\ posting[w].id = 0
    /\ Len(events) < MaxEvents
    /\ events' = Append(events, [run |-> r, sequence |-> LatestSequence(r) + 1])
    /\ unannounced' = unannounced \ {r}
    /\ UNCHANGED <<row, posting, subscribers, ws, pager>>

(* The insertion: one transaction under the lock.                           *)
Insert(w, r) ==
    /\ posting[w].id = 0
    /\ Len(events) < MaxEvents
    /\ events' = Append(events, [run |-> r, sequence |-> LatestSequence(r) + 1])
    /\ posting' = [posting EXCEPT ![w] = Untold(Len(events) + 1)]
    /\ unannounced' = unannounced \ {r}
    /\ UNCHANGED <<row, subscribers, ws, pager>>

(* _notify: the subscribers are copied under the lock, and called without it. *)
CopySubscribers(w) ==
    /\ posting[w].id # 0
    /\ ~posting[w].copied
    /\ posting' = [posting EXCEPT ![w] =
          IF subscribers = {} THEN Silent
                              ELSE Told(@.id, subscribers)]
    /\ UNCHANGED <<events, row, unannounced, subscribers, ws, pager>>

(* on_event: an event of the socket's run goes to its queue.                *)
CallBack(w, c) ==
    /\ c \in posting[w].to
    /\ ws' = [ws EXCEPT ![c].queue =
          IF events[posting[w].id].run = ws[c].run THEN Append(@, posting[w].id)
                                                   ELSE @]
    /\ posting' = [posting EXCEPT ![w] =
          IF @.to = {c} THEN Silent ELSE Told(@.id, @.to \ {c})]
    /\ UNCHANGED <<events, row, unannounced, subscribers, pager>>

-----------------------------------------------------------------------------
(* The loop between two calls of append_event *)

LoopIsFree == posting[Loop].id = 0

(* update_run_status of the engine, which stores an event afterwards.       *)
ChangeRow(r) ==
    /\ LoopIsFree
    /\ row[r] < MaxChanges
    /\ row' = [row EXCEPT ![r] = @ + 1]
    /\ unannounced' = unannounced \cup {r}
    /\ UNCHANGED <<events, posting, subscribers, ws, pager>>

(* run_events_ws *)

Turn(c, step) == LoopIsFree /\ ws[c].step = step

\* A connection is opened: the row is read before accept().
Connect(c, r) ==
    /\ Turn(c, "closed")
    /\ ws' = [ws EXCEPT ![c] = [@ EXCEPT !.step = "accepting", !.run = r,
                                         !.shown = row[r]]]
    /\ UNCHANGED <<events, row, unannounced, posting, subscribers, pager>>

Subscribe(c) ==
    /\ Turn(c, "accepting")
    /\ subscribers' = subscribers \cup {c}
    /\ ws' = [ws EXCEPT ![c].step = "greeting"]
    /\ UNCHANGED <<events, row, unannounced, posting, pager>>

SendStored(c) ==
    /\ Turn(c, "greeting")
    /\ ws' = [ws EXCEPT ![c].step = "waiting", ![c].seen = EventsOf({ws[c].run})]
    /\ UNCHANGED <<events, row, unannounced, posting, subscribers, pager>>

SendEvent_Newest(c) ==
    /\ Turn(c, "waiting")
    /\ ws[c].queue # <<>>
    /\ ws' = [ws EXCEPT ![c].step = "sent", ![c].queue = <<>>,
                        ![c].seen = @ \cup {Last(ws[c].queue)}]
    /\ UNCHANGED <<events, row, unannounced, posting, subscribers, pager>>

SendEvent(c) ==
    /\ Turn(c, "waiting")
    /\ ws[c].queue # <<>>
    /\ ws' = [ws EXCEPT ![c].step = "sent", ![c].queue = Tail(@),
                        ![c].seen = @ \cup {Head(ws[c].queue)}]
    /\ UNCHANGED <<events, row, unannounced, posting, subscribers, pager>>

SendRow_FirstRead(c) ==
    /\ Turn(c, "sent")
    /\ ws' = [ws EXCEPT ![c].step = "waiting", ![c].fresh = TRUE]
    /\ UNCHANGED <<events, row, unannounced, posting, subscribers, pager>>

SendRow(c) ==
    /\ Turn(c, "sent")
    /\ ws' = [ws EXCEPT ![c].step = "waiting", ![c].shown = row[ws[c].run],
                        ![c].fresh = TRUE]
    /\ UNCHANGED <<events, row, unannounced, posting, subscribers, pager>>

Hangup(c) ==
    /\ ws[c].step \notin {"closed", "left"}
    /\ ~ws[c].gone
    /\ ws' = [ws EXCEPT ![c].gone = TRUE]
    /\ UNCHANGED <<events, row, unannounced, posting, subscribers, pager>>

\* accept or a send raises WebSocketDisconnect.  A socket that waits in
\* queue.get() sends nothing and learns nothing.
Leave(c) ==
    /\ LoopIsFree
    /\ ws[c].gone
    /\ \/ ws[c].step \in {"accepting", "greeting", "sent"}
       \/ ws[c].step = "waiting" /\ ws[c].queue # <<>>
    /\ subscribers' = subscribers \ {c}
    /\ ws' = [ws EXCEPT ![c].step = "left"]
    /\ UNCHANGED <<events, row, unannounced, posting, pager>>

-----------------------------------------------------------------------------
(* list_events_page and list_run_events_page *)

\* ORDER BY sequence ASC, id ASC
Before(i, j) ==
    \/ events[i].sequence < events[j].sequence
    \/ events[i].sequence = events[j].sequence /\ i < j

Listed(ids) ==
    CHOOSE s \in SetToSeqs(ids) : \A k, l \in DOMAIN s : k < l => Before(s[k], s[l])

\* _resolve_event_limit
Clamp(limit) == IF limit < 1 THEN 1 ELSE IF limit > PageMax THEN PageMax ELSE limit

ReadPage_CursorPastPage(p, limit) ==
    LET found == Listed({i \in EventsOf(Scope[p]) : i > pager[p].cursor})
        n == Clamp(limit)
        fetched == SubSeq(found, 1, IF Len(found) > n + 1 THEN n + 1 ELSE Len(found))
        page == SubSeq(fetched, 1, IF Len(fetched) > n THEN n ELSE Len(fetched))
    IN /\ pager' = [pager EXCEPT ![p] =
             [cursor |-> IF page = <<>> THEN @.cursor ELSE fetched[Len(fetched)],
              got |-> @.got \o page, more |-> Len(fetched) > n]]
       /\ UNCHANGED <<events, row, unannounced, posting, subscribers, ws>>

ReadPage_NoLookahead(p, limit) ==
    LET found == Listed({i \in EventsOf(Scope[p]) : i > pager[p].cursor})
        n == Clamp(limit)
        page == SubSeq(found, 1, IF Len(found) > n THEN n ELSE Len(found))
    IN /\ pager' = [pager EXCEPT ![p] =
             [cursor |-> IF page = <<>> THEN @.cursor ELSE page[Len(page)],
              got |-> @.got \o page, more |-> Len(page) > n]]
       /\ UNCHANGED <<events, row, unannounced, posting, subscribers, ws>>

\* One row more than the page holds is fetched to see whether there is more.
\* A pager keeps its cursor when the page is empty.
ReadPage(p, limit) ==
    LET found == Listed({i \in EventsOf(Scope[p]) : i > pager[p].cursor})
        n == Clamp(limit)
        fetched == SubSeq(found, 1, IF Len(found) > n + 1 THEN n + 1 ELSE Len(found))
        page == SubSeq(fetched, 1, IF Len(fetched) > n THEN n ELSE Len(fetched))
    IN /\ pager' = [pager EXCEPT ![p] =
             [cursor |-> IF page = <<>> THEN @.cursor ELSE page[Len(page)],
              got |-> @.got \o page, more |-> Len(fetched) > n]]
       /\ UNCHANGED <<events, row, unannounced, posting, subscribers, ws>>

-----------------------------------------------------------------------------
Init ==
    /\ events = <<>>
    /\ row = [r \in Run |-> 0]
    /\ unannounced = {}
    /\ posting = [w \in Writer |-> Silent]
    /\ subscribers = {}
    /\ ws = [c \in Client |-> ClosedSocket]
    /\ pager = [p \in Pager |-> [cursor |-> 0, got |-> <<>>, more |-> TRUE]]

WriterStep(w) ==
    \/ \E r \in Run : Insert(w, r)
    \/ CopySubscribers(w)
    \/ \E c \in Client : CallBack(w, c)

SocketStep(c) ==
    \/ Subscribe(c) \/ SendStored(c) \/ SendEvent(c) \/ SendRow(c) \/ Leave(c)

Next ==
    \/ \E w \in Writer : WriterStep(w)
    \/ \E r \in Run : ChangeRow(r)
    \/ \E c \in Client : SocketStep(c) \/ Hangup(c) \/ \E r \in Run : Connect(c, r)
    \/ \E p \in Pager, limit \in Limits : ReadPage(p, limit)

Spec == Init /\ [][Next]_vars

(* A thread inside _notify goes on, and the loop comes to every socket that *)
(* can move.  Nothing forces an event, a change or a page.                  *)
Fairness ==
    /\ \A w \in Writer : WF_vars(CopySubscribers(w) \/ \E c \in Client : CallBack(w, c))
    /\ \A c \in Client : WF_vars(SocketStep(c))

FairSpec == Spec /\ Fairness

-----------------------------------------------------------------------------
(* Properties *)

Telling(i) == \E w \in Writer : posting[w].id = i

\* Subscribing before the stored events are listed leaves no gap: a client
\* that was sent the stored events has, in its queue or already sent, every
\* event of its run, those excepted whose writer is still inside _notify.
NothingMissed ==
    \A c \in Client : ws[c].step \in {"waiting", "sent"} =>
        \A i \in EventsOf({ws[c].run}) :
            i \in ws[c].seen \/ i \in Range(ws[c].queue) \/ Telling(i)

\* The row is sent again after each event, so that a client with nothing to
\* wait for has the row as it is, once the change was followed by an event.
RowCatchesUp ==
    \A c \in Client :
        LET s == ws[c] IN
        (s.step = "waiting" /\ s.queue = <<>> /\ s.fresh /\ s.run \notin unannounced
           /\ ~\E i \in EventsOf({s.run}) : Telling(i))
        => s.shown = row[s.run]

\* The same of a client that was only sent the row run_events_ws read before
\* it accepted the connection.
FirstRowCatchesUp ==
    \A c \in Client :
        LET s == ws[c] IN
        (s.step = "waiting" /\ s.queue = <<>> /\ s.run \notin unannounced
           /\ ~\E i \in EventsOf({s.run}) : Telling(i))
        => s.shown = row[s.run]

\* A client that follows next_after_id has, page after page, all the events up
\* to its cursor, each once, in the order of the listing, although the cursor
\* is an id, the order is by sequence and events are appended in between.
PagesLoseNothing ==
    \A p \in Pager :
        pager[p].got = Listed({i \in EventsOf(Scope[p]) : i <= pager[p].cursor})

\* So it is after every step, and has_more is false only of a page that reaches
\* the end: who follows the cursor has every event that was stored by then.
PagesAreComplete ==
    [][/\ PagesLoseNothing'
       /\ \A p \in Pager :
            (pager'[p] # pager[p] /\ ~pager'[p].more)
            => \A i \in EventsOf(Scope[p]) : i <= pager'[p].cursor]_vars

\* An event reaches every client of its run that has not gone.
EventsArrive ==
    \A c \in Client, i \in 1..MaxEvents :
        (/\ ws[c].step \notin {"closed", "left"}
         /\ i \in EventsOf({ws[c].run}))
        ~> (i \in ws[c].seen \/ ws[c].gone)

\* The subscription of a client that has gone is removed.
GoneIsForgotten ==
    \A c \in Client : (ws[c].gone /\ c \in subscribers) ~> c \notin subscribers

=============================================================================
