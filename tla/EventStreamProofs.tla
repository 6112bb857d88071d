-------------------------- MODULE EventStreamProofs --------------------------
(***************************************************************************)
(* A WebSocket client that was sent the stored events misses none, and the *)
(* status it was shown is that of the row, or an event is on its way that  *)
(* will make it look again.  A client that follows the pages of a run      *)
(* reads every event of it, once and in order.  Proved for any number of   *)
(* runs, writers, clients and events.                                      *)
(***************************************************************************)
EXTENDS EventStream, TLAPS, FiniteSetTheorems, WellFoundedInduction

(* What the argument needs of the types.  The sequence numbers play no part *)
(* in it: the table is a sequence of records with some set S of numbers.    *)
TableOK == \E S : events \in Seq([run : Run, sequence : S])

Post == [id : Nat, copied : BOOLEAN, to : SUBSET Client]

PostingOK ==
    /\ posting \in [Writer -> Post]
    /\ \A w \in Writer : posting[w].id \in 0..Len(events)
    /\ \A w \in Writer : posting[w].id = 0 => posting[w] = Silent
    /\ \A w \in Writer : ~posting[w].copied => posting[w].to = {}

SocketsOK ==
    /\ subscribers \subseteq Client
    /\ row \in [Run -> Nat]
    /\ ws \in [Client -> Socket]
    /\ \A c \in Client : ws[c].step # "closed" => ws[c].run \in Run

\* A socket past Subscribe is subscribed until it leaves.
SubscribedOK ==
    \A c \in Client : ws[c].step \in {"greeting", "waiting", "sent"} => c \in subscribers

\* The writer w will still hand event i to client c.
WillTell(w, i, c) ==
    posting[w].id = i /\ (posting[w].copied => c \in posting[w].to)

Accounted(c, i) ==
    \/ i \in ws[c].seen
    \/ i \in Range(ws[c].queue)
    \/ \E w \in Writer : WillTell(w, i, c)

NoGap ==
    \A c \in Client : ws[c].step \in {"waiting", "sent"} =>
        \A i \in EventsOf({ws[c].run}) : Accounted(c, i)

StreamInv == TableOK /\ PostingOK /\ SocketsOK /\ SubscribedOK /\ NoGap

-----------------------------------------------------------------------------
(* Facts about queues *)

LEMMA RangeOfAppend ==
    ASSUME NEW S, NEW q \in Seq(S), NEW x \in S
    PROVE  Range(Append(q, x)) = Range(q) \cup {x}
<1> DEFINE p == Append(q, x)
<1>1. /\ DOMAIN q = 1..Len(q) /\ Len(q) \in Nat
      /\ DOMAIN p = 1..(Len(q) + 1)
      /\ p[Len(q) + 1] = x
      /\ \A i \in 1..Len(q) : p[i] = q[i]
  OBVIOUS
<1> HIDE DEF p
<1>2. ASSUME NEW y \in Range(p) PROVE y \in Range(q) \cup {x}
  <2>1. PICK i \in DOMAIN p : y = p[i]
    BY <1>2 DEF Range
  <2>2. i = Len(q) + 1 \/ i \in 1..Len(q)
    BY <2>1, <1>1
  <2>. QED BY <2>1, <2>2, <1>1 DEF Range
<1>3. ASSUME NEW y \in Range(q) \cup {x} PROVE y \in Range(p)
  <2>1. CASE y = x
    BY <2>1, <1>1 DEF Range
  <2>2. CASE y \in Range(q)
    <3>1. PICK i \in DOMAIN q : y = q[i]
      BY <2>2 DEF Range
    <3>2. i \in DOMAIN p /\ y = p[i]
      BY <3>1, <1>1
    <3>. QED BY <3>2 DEF Range
  <2>. QED BY <2>1, <2>2
<1>4. Range(p) = Range(q) \cup {x}
  BY <1>2, <1>3
<1>. QED BY <1>4 DEF p

LEMMA SeqIsMonotonic ==
    ASSUME NEW A, NEW B, A \subseteq B
    PROVE  Seq(A) \subseteq Seq(B)
OBVIOUS

LEMMA RangeOfTail ==
    ASSUME NEW S, NEW q \in Seq(S), q # <<>>
    PROVE  /\ Tail(q) \in Seq(S)
           /\ Head(q) \in S
           /\ Range(q) = Range(Tail(q)) \cup {Head(q)}
<1>1. /\ Tail(q) \in Seq(S)
      /\ Head(q) \in S
  OBVIOUS
<1>2. ASSUME NEW i \in DOMAIN q
      PROVE  q[i] \in Range(Tail(q)) \cup {Head(q)}
  <2>1. CASE i = 1
    BY <2>1
  <2>2. CASE i # 1
    <3>1. i - 1 \in DOMAIN Tail(q) /\ Tail(q)[i - 1] = q[i]
      BY <2>2
    <3>. QED BY <3>1 DEF Range
  <2>. QED BY <2>1, <2>2
<1>3. ASSUME NEW i \in DOMAIN Tail(q)
      PROVE  i + 1 \in DOMAIN q /\ Tail(q)[i] = q[i + 1]
  OBVIOUS
<1>4. 1 \in DOMAIN q /\ Head(q) = q[1]
  OBVIOUS
<1>. QED BY <1>1, <1>2, <1>3, <1>4 DEF Range

-----------------------------------------------------------------------------
(* The invariant *)

\* One writer moves on to x, told of no more than n events.
LEMMA PostingMoves ==
    ASSUME PostingOK, NEW w \in Writer, NEW x \in Post,
           x.id \in 0..Len(events'), x.id = 0 => x = Silent, ~x.copied => x.to = {},
           posting' = [posting EXCEPT ![w] = x],
           Len(events) \in Nat, Len(events') \in Nat, Len(events) <= Len(events')
    PROVE  /\ PostingOK'
           /\ posting'[w] = x
           /\ \A v \in Writer \ {w} : posting'[v] = posting[v]
<1>1. /\ posting' \in [Writer -> Post]
      /\ posting'[w] = x
      /\ \A v \in Writer \ {w} : posting'[v] = posting[v]
  BY DEF PostingOK
<1>2. ASSUME NEW v \in Writer
      PROVE  posting'[v].id \in 0..Len(events') /\ (posting'[v].id = 0 => posting'[v] = Silent)
             /\ (~posting'[v].copied => posting'[v].to = {})
  <2>1. CASE v = w
    BY <2>1, <1>1
  <2>2. CASE v # w
    <3>1. posting'[v] = posting[v] /\ posting[v].id \in 0..Len(events)
      BY <2>2, <1>1 DEF PostingOK
    <3>. QED BY <3>1 DEF PostingOK
  <2>. QED BY <2>1, <2>2
<1>3. Silent' = Silent
  BY DEF Silent
<1>. QED BY <1>1, <1>2, <1>3 DEF PostingOK


LEMMA StreamInit == Init => StreamInv
<1> SUFFICES ASSUME Init PROVE StreamInv
  OBVIOUS
<1>1. TableOK
  <2>1. events \in Seq([run : Run, sequence : Nat])
    BY DEF Init
  <2>. QED BY <2>1 DEF TableOK
<1>2. PostingOK
  BY DEF Init, PostingOK, Post, Silent
<1>3. SocketsOK
  BY DEF Init, SocketsOK, Socket, ClosedSocket, Step
<1>4. SubscribedOK /\ NoGap
  BY DEF Init, SubscribedOK, NoGap, ClosedSocket
<1>. QED BY <1>1, <1>2, <1>3, <1>4 DEF StreamInv

\* An insertion adds one event, which its writer has not told to anybody.
LEMMA InsertStep ==
    ASSUME StreamInv, NEW w \in Writer, NEW r \in Run, Insert(w, r)
    PROVE  StreamInv'
<1>1. PICK S : events \in Seq([run : Run, sequence : S])
  BY DEF StreamInv, TableOK
<1>2. /\ events' = Append(events, [run |-> r, sequence |-> LatestSequence(r) + 1])
      /\ posting' = [posting EXCEPT ![w] = Untold(Len(events) + 1)]
      /\ posting[w].id = 0
      /\ ws' = ws /\ subscribers' = subscribers /\ row' = row
  BY DEF Insert
<1> DEFINE n == LatestSequence(r) + 1
           T == S \cup {n}
<1> HIDE DEF n
<1>3. events' \in Seq([run : Run, sequence : T])
  <2>1. events \in Seq([run : Run, sequence : T])
    <3>1. \A s \in Seq([run : Run, sequence : S]) : s \in Seq([run : Run, sequence : T])
      <4>1. [run : Run, sequence : S] \subseteq [run : Run, sequence : T]
        OBVIOUS
      <4>. QED BY <4>1, SeqIsMonotonic
    <3>. QED BY <1>1, <3>1
  <2>2. [run |-> r, sequence |-> n] \in [run : Run, sequence : T]
    OBVIOUS
  <2>. QED BY <1>2, <2>1, <2>2 DEF n
<1>4. /\ Len(events) \in Nat
      /\ Len(events') = Len(events) + 1
      /\ \A i \in Ids : events'[i] = events[i]
  BY <1>1, <1>2 DEF Ids
<1>5. TableOK'
  BY <1>3 DEF TableOK
<1> DEFINE x == Untold(Len(events) + 1)
<1>6. posting' = [posting EXCEPT ![w] = x]
  BY <1>2
<1>7. /\ PostingOK'
      /\ posting'[w] = x
      /\ \A v \in Writer \ {w} : posting'[v] = posting[v]
  <2>1. x \in Post /\ x.id \in 0..Len(events') /\ x.id # 0
        /\ (~x.copied => x.to = {})
    BY <1>4 DEF Post, Untold
  <2>2. PostingOK
    BY DEF StreamInv
  <2>3. Len(events') \in Nat /\ Len(events) <= Len(events')
    BY <1>4
  <2>4. x.id = 0 => x = Silent
    BY <2>1
  <2> HIDE DEF x
  <2>. QED BY <1>4, <1>6, <2>1, <2>2, <2>3, <2>4, PostingMoves, Zenon
<1>8. SocketsOK' /\ SubscribedOK'
  BY <1>2 DEF StreamInv, SocketsOK, SubscribedOK
<1>9. NoGap'
  <2> SUFFICES ASSUME NEW c \in Client, ws[c].step \in {"waiting", "sent"},
                      NEW i \in EventsOf({ws[c].run})'
               PROVE  Accounted(c, i)'
    BY <1>2 DEF NoGap
  <2>1. CASE i = Len(events) + 1
    BY <2>1, <1>7 DEF Accounted, WillTell, Untold
  <2>2. CASE i # Len(events) + 1
    <3>1. i \in EventsOf({ws[c].run})
      BY <2>2, <1>2, <1>4 DEF EventsOf, Ids
    <3>2. Accounted(c, i) /\ i \in 1..Len(events)
      BY <3>1 DEF StreamInv, NoGap, EventsOf, Ids
    <3>3. ASSUME NEW v \in Writer, WillTell(v, i, c)
          PROVE  WillTell(v, i, c)'
      <4>1. v # w
        BY <3>2, <3>3, <1>2 DEF WillTell
      <4>. QED BY <3>3, <4>1, <1>7 DEF WillTell
    <3>. QED BY <3>2, <3>3, <1>2 DEF Accounted
  <2>. QED BY <2>1, <2>2
<1>. QED BY <1>5, <1>7, <1>8, <1>9 DEF StreamInv

\* Whoever is past Subscribe is among the subscribers that are copied.
LEMMA CopyStep ==
    ASSUME StreamInv, NEW w \in Writer, CopySubscribers(w)
    PROVE  StreamInv'
<1>1. /\ posting' = [posting EXCEPT ![w] =
            IF subscribers = {} THEN Silent
                                ELSE Told(@.id, subscribers)]
      /\ posting[w].id # 0
      /\ ws' = ws /\ subscribers' = subscribers /\ events' = events /\ row' = row
  BY DEF CopySubscribers
<1>2. TableOK' /\ SocketsOK' /\ SubscribedOK'
  BY <1>1 DEF StreamInv, TableOK, SocketsOK, SubscribedOK
<1> DEFINE x == IF subscribers = {} THEN Silent ELSE Told(posting[w].id, subscribers)
<1>a. posting[w] \in Post /\ posting[w].id \in 0..Len(events) /\ Len(events) \in Nat
  <2>1. Len(events) \in Nat
    BY DEF StreamInv, TableOK
  <2>. QED BY <2>1 DEF StreamInv, PostingOK
<1>b. posting' = [posting EXCEPT ![w] = x]
  BY <1>1
<1>3. /\ PostingOK'
      /\ posting'[w] = x
      /\ \A v \in Writer \ {w} : posting'[v] = posting[v]
  <2>1. x \in Post /\ x.id \in 0..Len(events') /\ (x.id = 0 => x = Silent)
        /\ (~x.copied => x.to = {})
    BY <1>1, <1>a DEF Post, Silent, Told, StreamInv, SocketsOK
  <2>2. PostingOK
    BY DEF StreamInv
  <2>3. Len(events') \in Nat /\ Len(events) <= Len(events')
    BY <1>1, <1>a
  <2> HIDE DEF x
  <2>. QED BY <1>a, <1>b, <2>1, <2>2, <2>3, PostingMoves, Zenon
<1>4. NoGap'
  <2> SUFFICES ASSUME NEW c \in Client, ws[c].step \in {"waiting", "sent"},
                      NEW i \in EventsOf({ws[c].run})
               PROVE  Accounted(c, i)'
    BY <1>1 DEF NoGap, EventsOf, Ids
  <2>1. Accounted(c, i)
    BY DEF StreamInv, NoGap
  <2>2. c \in subscribers
    BY DEF StreamInv, SubscribedOK
  <2>3. ASSUME NEW v \in Writer, WillTell(v, i, c)
        PROVE  WillTell(v, i, c)'
    BY <1>3, <1>1, <2>2, <2>3 DEF WillTell, Told
  <2>. QED BY <1>1, <2>1, <2>3 DEF Accounted
<1>. QED BY <1>2, <1>3, <1>4 DEF StreamInv

\* What a writer will no longer tell a client is in the queue of the client.
LEMMA CallBackStep ==
    ASSUME StreamInv, NEW w \in Writer, NEW d \in Client, CallBack(w, d)
    PROVE  StreamInv'
<1> DEFINE e == posting[w].id
           mine == events[e].run = ws[d].run
<1>1. /\ d \in posting[w].to
      /\ ws' = [ws EXCEPT ![d].queue = IF mine THEN Append(@, e) ELSE @]
      /\ posting' = [posting EXCEPT ![w] =
            IF @.to = {d} THEN Silent ELSE Told(@.id, @.to \ {d})]
      /\ subscribers' = subscribers /\ events' = events /\ row' = row
  BY DEF CallBack
<1>2. e \in Nat /\ e \in 0..Len(events)
  BY DEF StreamInv, PostingOK, Post
<1>3. \A c \in Client : ws[c] \in Socket /\ ws[c].queue \in Seq(Nat)
  BY DEF StreamInv, SocketsOK, Socket
<1>4. /\ ws' \in [Client -> Socket]
      /\ \A c \in Client : /\ ws'[c].step = ws[c].step
                           /\ ws'[c].run = ws[c].run
                           /\ ws'[c].seen = ws[c].seen
                           /\ c # d => ws'[c].queue = ws[c].queue
      /\ ws'[d].queue = IF mine THEN Append(ws[d].queue, e) ELSE ws[d].queue
  <2>1. (IF mine THEN Append(ws[d].queue, e) ELSE ws[d].queue) \in Seq(Nat)
    BY <1>2, <1>3
  <2>. QED BY <1>1, <1>3, <2>1 DEF StreamInv, SocketsOK, Socket
<1>5. /\ Range(ws[d].queue) \subseteq Range(ws'[d].queue)
      /\ mine => e \in Range(ws'[d].queue)
  <2>1. CASE mine
    <3>1. Range(Append(ws[d].queue, e)) = Range(ws[d].queue) \cup {e}
      BY <1>2, <1>3, RangeOfAppend
    <3>. QED BY <2>1, <3>1, <1>4
  <2>2. CASE ~mine
    BY <2>2, <1>4
  <2>. QED BY <2>1, <2>2
<1>6. TableOK' /\ SocketsOK' /\ SubscribedOK'
  BY <1>1, <1>4 DEF StreamInv, TableOK, SocketsOK, SubscribedOK
<1> DEFINE x == IF posting[w].to = {d} THEN Silent ELSE Told(e, posting[w].to \ {d})
<1>a. posting[w] \in Post /\ Len(events) \in Nat /\ e # 0
  <2>1. Len(events) \in Nat
    BY DEF StreamInv, TableOK
  <2>. QED BY <2>1, <1>1 DEF StreamInv, PostingOK, Silent
<1>b. posting' = [posting EXCEPT ![w] = x]
  BY <1>1
<1>7. /\ PostingOK'
      /\ posting'[w] = x
      /\ \A v \in Writer \ {w} : posting'[v] = posting[v]
  <2>1. x \in Post /\ x.id \in 0..Len(events') /\ (x.id = 0 => x = Silent)
        /\ (~x.copied => x.to = {})
    BY <1>1, <1>2, <1>a DEF Post, Silent, Told, StreamInv, PostingOK
  <2>2. PostingOK
    BY DEF StreamInv
  <2>3. Len(events') \in Nat /\ Len(events) <= Len(events')
    BY <1>1, <1>a
  <2> HIDE DEF x, e
  <2>. QED BY <1>a, <1>b, <2>1, <2>2, <2>3, PostingMoves, Zenon
<1>8. NoGap'
  <2> SUFFICES ASSUME NEW c \in Client, ws[c].step \in {"waiting", "sent"},
                      NEW i \in EventsOf({ws[c].run})
               PROVE  Accounted(c, i)'
    BY <1>1, <1>4 DEF NoGap, EventsOf, Ids
  <2>1. Accounted(c, i)
    BY DEF StreamInv, NoGap
  <2>2. CASE i \in ws[c].seen \/ i \in Range(ws[c].queue)
    BY <2>2, <1>4, <1>5 DEF Accounted
  <2>3. ASSUME NEW v \in Writer, WillTell(v, i, c)
        PROVE  Accounted(c, i)'
    <3>1. CASE v # w
      BY <3>1, <2>3, <1>7 DEF Accounted, WillTell
    <3>2. CASE v = w /\ c # d
      <4>1. WillTell(w, i, c)'
        <5>1. posting[w].copied => posting[w].to # {d}
          BY <3>2, <2>3 DEF WillTell
        <5>2. posting[w].copied
          BY <1>1 DEF StreamInv, PostingOK
        <5>. QED BY <3>2, <2>3, <5>1, <5>2, <1>7 DEF WillTell, Told
      <4>. QED BY <4>1 DEF Accounted
    <3>3. CASE v = w /\ c = d
      <4>1. i = e /\ events[i].run = ws[c].run
        BY <3>3, <2>3 DEF WillTell, EventsOf
      <4>. QED BY <3>3, <4>1, <1>5 DEF Accounted
    <3>. QED BY <3>1, <3>2, <3>3
  <2>. QED BY <2>1, <2>2, <2>3 DEF Accounted
<1>. QED BY <1>6, <1>7, <1>8 DEF StreamInv

\* A step of a socket moves an event from its queue to what was sent.
LEMMA SocketKeepsInvariant ==
    ASSUME StreamInv, NEW d \in Client,
           SocketStep(d) \/ Hangup(d) \/ \E r \in Run : Connect(d, r)
    PROVE  StreamInv'
<1>1. events' = events /\ posting' = posting /\ row' = row
  BY DEF SocketStep, Hangup, Connect, Subscribe, SendStored, SendEvent, SendRow, Leave
<1>2. TableOK' /\ PostingOK'
  BY <1>1 DEF StreamInv, TableOK, PostingOK
<1>3. /\ ws \in [Client -> Socket] /\ subscribers \subseteq Client
      /\ ws[d] \in Socket /\ ws[d].queue \in Seq(Nat)
      /\ row \in [Run -> Nat]
      /\ \A c \in Client : ws[c].step # "closed" => ws[c].run \in Run
  BY DEF StreamInv, SocketsOK, Socket
<1>4. \A c \in Client : EventsOf({ws[c].run}) \subseteq Nat
  BY DEF EventsOf, Ids
<1> SUFFICES SocketsOK' /\ SubscribedOK' /\ NoGap'
  BY <1>2 DEF StreamInv
<1>5. ASSUME SubscribedOK', SocketsOK',
             \A c \in Client \ {d} : ws'[c] = ws[c],
             ws'[d].step \in {"waiting", "sent"} =>
                \A i \in EventsOf({ws'[d].run}) : Accounted(d, i)'
      PROVE  SocketsOK' /\ SubscribedOK' /\ NoGap'
  BY <1>1, <1>5 DEF StreamInv, NoGap, Accounted, WillTell, EventsOf, Ids
<1>6. CASE \E r \in Run : Connect(d, r)
  <2>1. PICK r \in Run : Connect(d, r)
    BY <1>6
  <2>. QED BY <1>1, <2>1, <1>3, <1>5
           DEF Connect, Turn, SocketsOK, SubscribedOK, Socket, Step, StreamInv
<1>7. CASE Subscribe(d)
  BY <1>1, <1>7, <1>3, <1>5 DEF Subscribe, Turn, SocketsOK, SubscribedOK, Socket, Step, StreamInv
<1>8. CASE SendStored(d)
  <2>1. /\ ws[d].step = "greeting"
        /\ ws' = [ws EXCEPT ![d].step = "waiting", ![d].seen = EventsOf({ws[d].run})]
        /\ subscribers' = subscribers
    BY <1>8 DEF SendStored, Turn
  <2>2. /\ SocketsOK' /\ SubscribedOK'
        /\ ws'[d].run = ws[d].run /\ ws'[d].seen = EventsOf({ws[d].run})
        /\ \A c \in Client \ {d} : ws'[c] = ws[c]
    BY <1>1, <2>1, <1>3, <1>4 DEF SocketsOK, SubscribedOK, Socket, Step, StreamInv
  <2>. QED BY <2>2, <1>5 DEF Accounted
<1>9. CASE SendEvent(d)
  <2>1. /\ ws[d].step = "waiting" /\ ws[d].queue # <<>>
        /\ ws' = [ws EXCEPT ![d].step = "sent", ![d].queue = Tail(@),
                            ![d].seen = @ \cup {Head(ws[d].queue)}]
        /\ subscribers' = subscribers
    BY <1>9 DEF SendEvent, Turn
  <2>2. /\ Tail(ws[d].queue) \in Seq(Nat) /\ Head(ws[d].queue) \in Nat
        /\ Range(ws[d].queue) = Range(Tail(ws[d].queue)) \cup {Head(ws[d].queue)}
    BY <2>1, <1>3, RangeOfTail
  <2>3. /\ SocketsOK' /\ SubscribedOK'
        /\ ws'[d].run = ws[d].run
        /\ ws'[d].queue = Tail(ws[d].queue)
        /\ ws'[d].seen = ws[d].seen \cup {Head(ws[d].queue)}
        /\ \A c \in Client \ {d} : ws'[c] = ws[c]
    BY <1>1, <2>1, <2>2, <1>3 DEF SocketsOK, SubscribedOK, Socket, Step, StreamInv
  <2>4. ASSUME NEW i \in EventsOf({ws'[d].run})
        PROVE  Accounted(d, i)'
    <3>1. Accounted(d, i)
      BY <2>1, <2>3 DEF StreamInv, NoGap
    <3>. QED BY <3>1, <2>2, <2>3, <1>1 DEF Accounted, WillTell
  <2>. QED BY <2>3, <2>4, <1>5
<1>10. CASE SendRow(d)
  <2>1. /\ ws[d].step = "sent"
        /\ ws' = [ws EXCEPT ![d].step = "waiting", ![d].shown = row[ws[d].run],
                            ![d].fresh = TRUE]
        /\ subscribers' = subscribers
    BY <1>10 DEF SendRow, Turn
  <2>2. row[ws[d].run] \in Nat
    BY <2>1, <1>3
  <2>3. /\ SocketsOK' /\ SubscribedOK'
        /\ ws'[d].run = ws[d].run
        /\ ws'[d].queue = ws[d].queue
        /\ ws'[d].seen = ws[d].seen
        /\ \A c \in Client \ {d} : ws'[c] = ws[c]
    BY <1>1, <2>1, <2>2, <1>3 DEF SocketsOK, SubscribedOK, Socket, Step, StreamInv
  <2>4. ASSUME NEW i \in EventsOf({ws'[d].run})
        PROVE  Accounted(d, i)'
    <3>1. Accounted(d, i)
      BY <2>1, <2>3 DEF StreamInv, NoGap
    <3>. QED BY <3>1, <2>3, <1>1 DEF Accounted, WillTell
  <2>. QED BY <2>3, <2>4, <1>5
<1>11. CASE Hangup(d)
  <2>1. /\ ws' = [ws EXCEPT ![d].gone = TRUE]
        /\ subscribers' = subscribers
    BY <1>11 DEF Hangup
  <2>2. /\ SocketsOK' /\ SubscribedOK'
        /\ ws'[d].run = ws[d].run
        /\ ws'[d].step = ws[d].step
        /\ ws'[d].queue = ws[d].queue
        /\ ws'[d].seen = ws[d].seen
        /\ \A c \in Client \ {d} : ws'[c] = ws[c]
    BY <1>1, <2>1, <1>3 DEF SocketsOK, SubscribedOK, Socket, Step, StreamInv
  <2>3. ASSUME NEW i \in EventsOf({ws'[d].run}), ws'[d].step \in {"waiting", "sent"}
        PROVE  Accounted(d, i)'
    <3>1. Accounted(d, i)
      BY <2>2, <2>3 DEF StreamInv, NoGap
    <3>. QED BY <3>1, <2>2, <1>1 DEF Accounted, WillTell
  <2>. QED BY <2>2, <2>3, <1>5
<1>12. CASE Leave(d)
  BY <1>1, <1>12, <1>3, <1>5 DEF Leave, SocketsOK, SubscribedOK, Socket, Step, StreamInv
<1>. QED BY <1>6, <1>7, <1>8, <1>9, <1>10, <1>11, <1>12 DEF SocketStep

-----------------------------------------------------------------------------
\* Rows and pages are read and changed beside the argument.
LEMMA OtherSteps ==
    ASSUME StreamInv,
           \/ \E r \in Run : ChangeRow(r)
           \/ \E p \in Pager, limit \in Limits : ReadPage(p, limit)
           \/ UNCHANGED vars
    PROVE  StreamInv'
<1>1. /\ events' = events /\ posting' = posting
      /\ ws' = ws /\ subscribers' = subscribers
  BY DEF ChangeRow, ReadPage, vars
<1>2. row' \in [Run -> Nat]
  <2>1. row \in [Run -> Nat]
    BY DEF StreamInv, SocketsOK
  <2>2. CASE \E r \in Run : ChangeRow(r)
    BY <2>1, <2>2 DEF ChangeRow
  <2>3. CASE row' = row
    BY <2>1, <2>3
  <2>. QED BY <2>2, <2>3 DEF ReadPage, vars
<1>3. TableOK' /\ PostingOK' /\ SocketsOK' /\ SubscribedOK' /\ NoGap'
  BY <1>1, <1>2 DEF StreamInv, TableOK, PostingOK, SocketsOK, SubscribedOK,
                    NoGap, Accounted, WillTell, EventsOf, Ids
<1>. QED BY <1>3 DEF StreamInv

LEMMA StreamNext ==
    StreamInv /\ [Next]_vars => StreamInv'
<1> SUFFICES ASSUME StreamInv, [Next]_vars PROVE StreamInv'
  OBVIOUS
<1>1. ASSUME NEW w \in Writer, WriterStep(w) PROVE StreamInv'
  BY <1>1, InsertStep, CopyStep, CallBackStep DEF WriterStep
<1>2. ASSUME NEW c \in Client,
             SocketStep(c) \/ Hangup(c) \/ \E r \in Run : Connect(c, r)
      PROVE  StreamInv'
  BY <1>2, SocketKeepsInvariant
<1>3. CASE \/ \E r \in Run : ChangeRow(r)
           \/ \E p \in Pager, limit \in Limits : ReadPage(p, limit)
           \/ UNCHANGED vars
  BY <1>3, OtherSteps
<1>. QED BY <1>1, <1>2, <1>3 DEF Next

\* subscribe() comes before list_run_events() in run_events_ws, and the store
\* tells an event after its commit: together they leave a client no gap, for
\* any number of writers that overlap.
THEOREM NoEventIsMissed == Spec => []NothingMissed
<1>1. Init => StreamInv
  BY StreamInit
<1>2. StreamInv /\ [Next]_vars => StreamInv'
  BY StreamNext
<1>3. StreamInv => NothingMissed
  <2> SUFFICES ASSUME StreamInv, NEW c \in Client, ws[c].step \in {"waiting", "sent"},
                      NEW i \in EventsOf({ws[c].run})
               PROVE  i \in ws[c].seen \/ i \in Range(ws[c].queue) \/ Telling(i)
    BY DEF NothingMissed
  <2>1. Accounted(c, i)
    BY DEF StreamInv, NoGap
  <2>. QED BY <2>1 DEF Accounted, WillTell, Telling
<1>. QED BY <1>1, <1>2, <1>3, PTL DEF Spec

-----------------------------------------------------------------------------
(* The row.  A change of it that no event has followed yet marks the run, the *)
(* event that follows reaches every subscriber, and after it was sent the row *)
(* is read anew.                                                              *)

\* An event is on its way to the client c, which will send it the row.
OnItsWay(c) ==
    \E i \in EventsOf({ws[c].run}) :
        i \in Range(ws[c].queue) \/ \E w \in Writer : WillTell(w, i, c)

RowFollows(c) ==
    ws[c].shown = row[ws[c].run] \/ ws[c].run \in unannounced \/ OnItsWay(c)

RowInv ==
    /\ StreamInv
    /\ \A c \in Client :
          /\ ws[c].step \in {"closed", "accepting", "greeting"} => ~ws[c].fresh
          /\ ws[c].step = "waiting" /\ ws[c].fresh => RowFollows(c)

\* An event on its way to a subscriber stays so while writers move.
LEMMA WaysAreKept ==
    ASSUME StreamInv, NEW w \in Writer, WriterStep(w),
           NEW c \in Client, c \in subscribers, OnItsWay(c)
    PROVE  OnItsWay(c)'
<1>1. PICK i \in EventsOf({ws[c].run}) :
          i \in Range(ws[c].queue) \/ \E v \in Writer : WillTell(v, i, c)
  BY DEF OnItsWay
<1>2. /\ Len(events) \in Nat /\ i \in 1..Len(events)
      /\ events[i].run = ws[c].run
      /\ posting \in [Writer -> Post]
  BY <1>1 DEF StreamInv, TableOK, PostingOK, EventsOf, Ids
<1> SUFFICES /\ i \in EventsOf({ws[c].run})'
             /\ i \in Range(ws'[c].queue) \/ \E v \in Writer : WillTell(v, i, c)'
  BY DEF OnItsWay
<1>3. ASSUME NEW r \in Run, Insert(w, r)
      PROVE  /\ i \in EventsOf({ws[c].run})'
             /\ i \in Range(ws'[c].queue) \/ \E v \in Writer : WillTell(v, i, c)'
  <2>1. PICK S : events \in Seq([run : Run, sequence : S])
    BY DEF StreamInv, TableOK
  <2>2. /\ Len(events') = Len(events) + 1
        /\ events'[i] = events[i] /\ ws' = ws
    BY <1>3, <1>2, <2>1 DEF Insert
  <2>3. i \in EventsOf({ws[c].run})'
    BY <1>2, <2>2 DEF EventsOf, Ids
  <2>4. \A v \in Writer : WillTell(v, i, c) => WillTell(v, i, c)'
    <3>1. posting[w].id = 0 /\ \A v \in Writer \ {w} : posting'[v] = posting[v]
      BY <1>3, <1>2 DEF Insert
    <3> QED BY <3>1, <1>2 DEF WillTell
  <2> QED BY <1>1, <2>2, <2>3, <2>4
<1>4. CASE CopySubscribers(w)
  <2>1. /\ posting' = [posting EXCEPT ![w] =
              IF subscribers = {} THEN Silent ELSE Told(@.id, subscribers)]
        /\ ws' = ws /\ events' = events
    BY <1>4 DEF CopySubscribers
  <2>2. \A v \in Writer : WillTell(v, i, c) => WillTell(v, i, c)'
    BY <1>2, <2>1 DEF WillTell, Told
  <2> QED BY <1>1, <2>1, <2>2 DEF EventsOf, Ids
<1>5. ASSUME NEW d \in Client, CallBack(w, d)
      PROVE  /\ i \in EventsOf({ws[c].run})'
             /\ i \in Range(ws'[c].queue) \/ \E v \in Writer : WillTell(v, i, c)'
  <2> DEFINE e == posting[w].id
             mine == events[e].run = ws[d].run
  <2>1. /\ d \in posting[w].to
        /\ ws' = [ws EXCEPT ![d].queue = IF mine THEN Append(@, e) ELSE @]
        /\ posting' = [posting EXCEPT ![w] =
              IF @.to = {d} THEN Silent ELSE Told(@.id, @.to \ {d})]
        /\ events' = events
    BY <1>5 DEF CallBack
  <2>2. /\ e \in Nat /\ posting[w].copied
        /\ ws \in [Client -> Socket] /\ ws[d].queue \in Seq(Nat)
    BY <1>2, <2>1 DEF Post, StreamInv, PostingOK, SocketsOK, Socket
  <2>3. /\ ws'[c].run = ws[c].run
        /\ Range(ws[c].queue) \subseteq Range(ws'[c].queue)
        /\ c = d /\ mine => e \in Range(ws'[c].queue)
    <3>1. Range(Append(ws[d].queue, e)) = Range(ws[d].queue) \cup {e}
      BY <2>2, RangeOfAppend
    <3>2. CASE c = d
      <4>1. ws'[c].queue = IF mine THEN Append(ws[d].queue, e) ELSE ws[d].queue
        BY <2>1, <2>2, <3>2 DEF Socket
      <4>2. ws'[c].run = ws[c].run
        BY <2>1, <2>2, <3>2 DEF Socket
      <4> QED BY <3>1, <3>2, <4>1, <4>2
    <3>3. CASE c # d
      BY <2>1, <2>2, <3>3
    <3> QED BY <3>2, <3>3
  <2>4. ASSUME NEW v \in Writer, WillTell(v, i, c)
        PROVE  i \in Range(ws'[c].queue) \/ WillTell(v, i, c)'
    <3>1. CASE v # w
      BY <3>1, <2>4, <2>1, <1>2 DEF WillTell
    <3>2. CASE v = w /\ c # d
      BY <3>2, <2>4, <2>1, <2>2, <1>2 DEF WillTell, Told
    <3>3. CASE v = w /\ c = d
      <4>1. i = e /\ mine
        BY <3>3, <2>4, <1>2 DEF WillTell
      <4> QED BY <3>3, <4>1, <2>3
    <3> QED BY <3>1, <3>2, <3>3
  <2> QED BY <1>1, <2>1, <2>3, <2>4 DEF EventsOf, Ids
<1> QED BY <1>3, <1>4, <1>5 DEF WriterStep

LEMMA WritersKeepSockets ==
    ASSUME StreamInv, NEW w \in Writer, WriterStep(w), NEW c \in Client
    PROVE  /\ ws'[c].shown = ws[c].shown /\ ws'[c].run = ws[c].run
           /\ ws'[c].step = ws[c].step /\ ws'[c].fresh = ws[c].fresh
           /\ row' = row
<1>1. ws \in [Client -> Socket]
  BY DEF StreamInv, SocketsOK
<1>2. CASE (\E r \in Run : Insert(w, r)) \/ CopySubscribers(w)
  BY <1>2 DEF Insert, CopySubscribers
<1>3. ASSUME NEW d \in Client, CallBack(w, d)
      PROVE  /\ ws'[c].shown = ws[c].shown /\ ws'[c].run = ws[c].run
             /\ ws'[c].step = ws[c].step /\ ws'[c].fresh = ws[c].fresh
             /\ row' = row
  <2>1. PICK q : ws' = [ws EXCEPT ![d].queue = q]
    BY <1>3 DEF CallBack
  <2> QED BY <1>1, <1>3, <2>1 DEF CallBack, Socket
<1> QED BY <1>2, <1>3 DEF WriterStep

\* An event that follows a change of the row is on its way to the subscribers.
LEMMA WritersKeepRows ==
    ASSUME StreamInv, NEW w \in Writer, WriterStep(w),
           NEW c \in Client, c \in subscribers, RowFollows(c)
    PROVE  RowFollows(c)'
<1>1. ws'[c].shown = ws[c].shown /\ ws'[c].run = ws[c].run /\ row' = row
  BY WritersKeepSockets
<1>2. ASSUME NEW r \in Run, Insert(w, r), r = ws[c].run
      PROVE  OnItsWay(c)'
  <2>0. PICK n : n = Len(events) + 1
    OBVIOUS
  <2>1. PICK S : events \in Seq([run : Run, sequence : S])
    BY DEF StreamInv, TableOK
  <2>2. Len(events') = n /\ events'[n].run = r /\ n \in 1..n
    BY <1>2, <2>0, <2>1 DEF Insert
  <2>3. posting'[w] = Untold(n)
    BY <1>2, <2>0 DEF Insert, StreamInv, PostingOK
  <2>4. WillTell(w, n, c)'
    BY <2>3 DEF WillTell, Untold
  <2>5. n \in EventsOf({ws[c].run})'
    BY <1>1, <1>2, <2>2 DEF EventsOf, Ids
  <2> QED BY <2>4, <2>5 DEF OnItsWay
<1>3. CASE ws[c].run \in unannounced
  <2>1. ws[c].run \in unannounced' \/ \E r \in Run : Insert(w, r) /\ r = ws[c].run
    BY <1>3 DEF WriterStep, Insert, CopySubscribers, CallBack
  <2> QED BY <2>1, <1>1, <1>2 DEF RowFollows
<1>4. CASE ws[c].shown = row[ws[c].run]
  BY <1>1, <1>4 DEF RowFollows
<1>5. CASE OnItsWay(c)
  BY <1>5, WaysAreKept DEF RowFollows
<1> QED BY <1>3, <1>4, <1>5 DEF RowFollows

LEMMA RowStep ==
    ASSUME RowInv, [Next]_vars, NEW c \in Client
    PROVE  /\ ws'[c].step \in {"closed", "accepting", "greeting"} => ~ws'[c].fresh
           /\ ws'[c].step = "waiting" /\ ws'[c].fresh => RowFollows(c)'
<1>1. /\ StreamInv
      /\ ws \in [Client -> Socket]
      /\ ws[c].step \in {"closed", "accepting", "greeting"} => ~ws[c].fresh
      /\ ws[c].step = "waiting" /\ ws[c].fresh => RowFollows(c) /\ c \in subscribers
  BY DEF RowInv, StreamInv, SocketsOK, SubscribedOK
<1>2. ASSUME NEW w \in Writer, WriterStep(w)
      PROVE  /\ ws'[c].step \in {"closed", "accepting", "greeting"} => ~ws'[c].fresh
             /\ ws'[c].step = "waiting" /\ ws'[c].fresh => RowFollows(c)'
  <2>1. ws'[c].step = ws[c].step /\ ws'[c].fresh = ws[c].fresh
    BY <1>1, <1>2, WritersKeepSockets
  <2> QED BY <1>1, <1>2, <2>1, WritersKeepRows
<1>3. ASSUME NEW r \in Run, ChangeRow(r)
      PROVE  /\ ws'[c].step \in {"closed", "accepting", "greeting"} => ~ws'[c].fresh
             /\ ws'[c].step = "waiting" /\ ws'[c].fresh => RowFollows(c)'
  <2>1. /\ UNCHANGED <<events, posting, ws>>
        /\ row' = [row EXCEPT ![r] = @ + 1] /\ unannounced' = unannounced \cup {r}
    BY <1>3 DEF ChangeRow
  <2>2. OnItsWay(c) => OnItsWay(c)'
    BY <2>1 DEF OnItsWay, WillTell, EventsOf, Ids
  <2>3. row[ws[c].run] = row'[ws[c].run] \/ ws[c].run = r
    BY <2>1 DEF StreamInv, SocketsOK, RowInv
  <2> QED BY <1>1, <2>1, <2>2, <2>3 DEF RowFollows
<1>4. ASSUME UNCHANGED <<events, posting, row, unannounced>>,
             \/ ws'[c] = ws[c]
             \/ /\ ws'[c].step = ws[c].step /\ ws'[c].fresh = ws[c].fresh
                /\ ws'[c].run = ws[c].run /\ ws'[c].shown = ws[c].shown
                /\ ws'[c].queue = ws[c].queue
             \/ ws'[c].fresh = ws[c].fresh
                /\ \/ ws[c].step \in {"closed", "accepting", "greeting"}
                   \/ ws'[c].step \in {"sent", "left"}
             \/ ws'[c].step = "waiting" /\ ws'[c].shown = row[ws'[c].run]
      PROVE  /\ ws'[c].step \in {"closed", "accepting", "greeting"} => ~ws'[c].fresh
             /\ ws'[c].step = "waiting" /\ ws'[c].fresh => RowFollows(c)'
  BY <1>1, <1>4 DEF RowFollows, OnItsWay, WillTell, EventsOf, Ids
<1>5. ASSUME NEW d \in Client,
             SocketStep(d) \/ Hangup(d) \/ \E r \in Run : Connect(d, r)
      PROVE  /\ ws'[c].step \in {"closed", "accepting", "greeting"} => ~ws'[c].fresh
             /\ ws'[c].step = "waiting" /\ ws'[c].fresh => RowFollows(c)'
  <2>1. UNCHANGED <<events, posting, row, unannounced>>
    BY <1>5 DEF SocketStep, Hangup, Connect, Subscribe, SendStored, SendEvent, SendRow, Leave
  <2>2. CASE c # d
    <3>1. ws'[c] = ws[c]
      BY <1>1, <1>5, <2>2
         DEF SocketStep, Hangup, Connect, Subscribe, SendStored, SendEvent, SendRow, Leave
    <3> QED BY <1>4, <2>1, <3>1
  <2>3. CASE c = d
    <3>1. ws[c] \in Socket
      BY <1>1
    <3>2. CASE Hangup(c)
      <4>1. /\ ws'[c].step = ws[c].step /\ ws'[c].fresh = ws[c].fresh
            /\ ws'[c].run = ws[c].run /\ ws'[c].shown = ws[c].shown
            /\ ws'[c].queue = ws[c].queue
        BY <1>1, <3>1, <3>2 DEF Hangup, Socket
      <4> QED BY <1>4, <2>1, <4>1
    <3>3. CASE \/ \E r \in Run : Connect(c, r)
               \/ Subscribe(c) \/ SendStored(c)
      <4>1. ws'[c].fresh = ws[c].fresh
        BY <1>1, <3>1, <3>3 DEF Connect, Subscribe, SendStored, Socket
      <4>2. ws[c].step \in {"closed", "accepting", "greeting"}
        BY <3>3 DEF Connect, Subscribe, SendStored, Turn
      <4> QED BY <1>4, <2>1, <4>1, <4>2
    <3>4. CASE SendEvent(c) \/ Leave(c)
      <4>1. ws'[c].fresh = ws[c].fresh /\ ws'[c].step \in {"sent", "left"}
        BY <1>1, <3>1, <3>4 DEF SendEvent, Leave, Turn, Socket
      <4> QED BY <1>4, <2>1, <4>1
    <3>5. CASE SendRow(c)
      <4>1. ws'[c].step = "waiting" /\ ws'[c].shown = row[ws'[c].run]
        BY <1>1, <3>1, <3>5 DEF SendRow, Turn, Socket
      <4> QED BY <1>4, <2>1, <4>1
    <3> QED BY <1>5, <2>3, <3>2, <3>3, <3>4, <3>5 DEF SocketStep
  <2> QED BY <2>2, <2>3
<1>6. CASE (\E p \in Pager, limit \in Limits : ReadPage(p, limit)) \/ UNCHANGED vars
  <2>1. UNCHANGED <<events, posting, row, unannounced, ws>>
    BY <1>6 DEF ReadPage, vars
  <2> QED BY <1>4, <2>1
<1> QED BY <1>2, <1>3, <1>5, <1>6 DEF Next

\* run_events_ws reads the row again after each event it sends, and a subscriber
\* is told of each event: who waits with an empty queue was shown the row as it
\* is, if an event followed its last change and all writers have told theirs.
THEOREM TheRowCatchesUp == Spec => []RowCatchesUp
<1>1. Init => RowInv
  BY StreamInit DEF Init, ClosedSocket, RowInv
<1>2. RowInv /\ [Next]_vars => RowInv'
  BY StreamNext, RowStep DEF RowInv
<1>3. RowInv => RowCatchesUp
  <2> SUFFICES ASSUME RowInv, NEW c \in Client,
                      ws[c].step = "waiting", ws[c].queue = <<>>, ws[c].fresh,
                      ws[c].run \notin unannounced,
                      ~\E i \in EventsOf({ws[c].run}) : Telling(i)
               PROVE  ws[c].shown = row[ws[c].run]
    BY DEF RowCatchesUp
  <2>1. RowFollows(c)
    BY DEF RowInv
  <2>2. Range(ws[c].queue) = {}
    BY DEF Range
  <2>3. ~OnItsWay(c)
    BY <2>2 DEF OnItsWay, WillTell, Telling
  <2> QED BY <2>1, <2>3 DEF RowFollows
<1> QED BY <1>1, <1>2, <1>3, PTL DEF Spec

-----------------------------------------------------------------------------
(* Listings: the ids of the events of one run, in the order of the table.   *)

\* f lists the ids in S, each once, in ascending order.
Lists(f, S) ==
    /\ f \in Seq(S)
    /\ \A i \in S : \E k \in 1..Len(f) : f[k] = i
    /\ \A k, l \in 1..Len(f) : k < l => f[k] < f[l]

LEMMA NatsAreWellFounded ==
    IsWellFoundedOn({ss \in Nat \X Nat : ss[1] < ss[2]}, Nat)
<1> DEFINE R == {ss \in Nat \X Nat : ss[1] < ss[2]}
<1>1. OpToRel(<, Nat) = R
  BY Zenon DEF OpToRel
<1> HIDE DEF R
<1>2. IsWellFoundedOn(R, Nat)
  BY <1>1, NatLessThanWellFounded, Zenon
<1> QED
  BY <1>2 DEF R

\* A nonempty set of numbers has a least one.
LEMMA LeastOf ==
    ASSUME NEW X, X \subseteq Nat, X # {}
    PROVE  \E m \in X : \A n \in X : m <= n
<1> DEFINE R == {ss \in Nat \X Nat : ss[1] < ss[2]}
<1>1. IsWellFoundedOn(R, Nat)
  BY NatsAreWellFounded
<1>2. \E m \in X : \A n \in X : <<n, m>> \notin R
  <2> HIDE DEF R
  <2> QED
    BY <1>1, WFMin
<1>3. PICK m \in X : \A n \in X : <<n, m>> \notin R
  BY <1>2
<1>4. ASSUME NEW n \in X PROVE m <= n
  <2>1. m \in Nat /\ n \in Nat /\ <<n, m>> \notin R
    BY <1>3
  <2> QED
    BY <2>1
<1> QED
  BY <1>4

\* A nonempty set of ids has a last one.
LEMMA LastOf ==
    ASSUME NEW k \in Nat, NEW X, X \subseteq 1..k, X # {}
    PROVE  \E last \in X : \A n \in X : n <= last
<1> DEFINE After == {k - n : n \in X}
<1>1. After \subseteq Nat /\ After # {}
  <2>1. PICK n \in X : TRUE
    OBVIOUS
  <2>2. k - n \in After
    BY <2>1
  <2> QED
    BY <2>2
<1>2. PICK c \in After : \A d \in After : c <= d
  <2> HIDE DEF After
  <2> QED
    BY <1>1, LeastOf
<1>3. PICK last \in X : c = k - last
  OBVIOUS
<1>4. ASSUME NEW n \in X PROVE n <= last
  <2>1. n \in 1..k /\ last \in 1..k /\ k - last <= k - n
    BY <1>2, <1>3
  <2> QED
    BY <2>1
<1> QED
  BY <1>4

\* There is one listing of a set only: where two differ first, one of them is late.
LEMMA ListsAgree ==
    ASSUME NEW S, S \subseteq Nat, NEW f, NEW g, Lists(f, S), Lists(g, S),
           NEW k \in 1..Len(f), NEW l \in 1..Len(g), f[k] = g[l],
           \A m \in 1..Len(f) : m < k => m \in 1..Len(g) /\ f[m] = g[m]
    PROVE  k <= l
<1>1. Len(f) \in Nat /\ Len(g) \in Nat /\ \A m \in 1..Len(f) : f[m] \in Nat
  <2>1. f \in Seq(S) /\ g \in Seq(S)
    BY DEF Lists
  <2>2. Len(f) \in Nat /\ Len(g) \in Nat /\ \A m \in 1..Len(f) : f[m] \in S
    BY <2>1
  <2> QED
    BY <2>2
<1>2. CASE l < k
  <2>1. l \in 1..Len(f)
    BY <1>1, <1>2
  <2>2. f[l] = f[k]
    BY <1>2, <2>1
  <2>3. f[l] < f[k]
    BY <1>2, <2>1 DEF Lists
  <2>4. f[l] \in Nat /\ f[k] \in Nat
    BY <1>1, <2>1
  <2> QED
    BY <2>2, <2>3, <2>4
<1> QED
  BY <1>1, <1>2

LEMMA NoFirstDifference ==
    ASSUME NEW S, S \subseteq Nat, NEW f, NEW g, Lists(f, S), Lists(g, S),
           NEW k \in 1..Len(f),
           \A m \in 1..(k - 1) : m \in 1..Len(g) /\ f[m] = g[m]
    PROVE  k \in 1..Len(g) /\ f[k] = g[k]
<1>1. /\ Len(f) \in Nat /\ Len(g) \in Nat
      /\ \A m \in 1..Len(f) : f[m] \in S
      /\ \A m \in 1..Len(g) : g[m] \in S
  BY DEF Lists
<1>2. PICK l \in 1..Len(g) : g[l] = f[k]
  BY <1>1 DEF Lists
<1>3. k <= l
  <2>1. \A m \in 1..Len(f) : m < k => m \in 1..(k - 1)
    BY <1>1
  <2> QED
    BY <1>2, <2>1, ListsAgree
<1>4. k \in 1..Len(g)
  BY <1>1, <1>3
<1>5. CASE k < l
  <2>1. g[k] < g[l]
    BY <1>4, <1>5 DEF Lists
  <2>2. PICK h \in 1..Len(f) : f[h] = g[k]
    BY <1>1, <1>4 DEF Lists
  <2>3. CASE h < k
    <3>1. h \in 1..(k - 1) /\ h \in 1..Len(g)
      BY <1>1, <1>4, <2>3
    <3>2. g[h] = g[k]
      BY <2>2, <3>1
    <3>3. g[h] < g[k]
      BY <1>4, <2>3, <3>1 DEF Lists
    <3>4. g[h] \in Nat
      BY <1>1, <3>1
    <3> QED
      BY <3>2, <3>3, <3>4
  <2>4. CASE h >= k
    <3>0. f[k] \in Nat /\ f[h] \in Nat
      BY <1>1
    <3>1. f[k] <= f[h]
      <4>1. CASE h = k
        BY <4>1, <3>0
      <4>2. CASE h # k
        <5>1. k < h
          BY <2>4, <4>2
        <5>2. f[k] < f[h]
          BY <5>1 DEF Lists
        <5> QED
          BY <5>2, <3>0
      <4> QED
        BY <4>1, <4>2
    <3>2. g[k] < f[k] /\ f[h] = g[k]
      BY <1>2, <2>1, <2>2
    <3> QED
      BY <3>0, <3>1, <3>2
  <2> QED
    BY <2>3, <2>4
<1>6. CASE k = l
  BY <1>2, <1>6
<1> QED
  BY <1>3, <1>4, <1>5, <1>6

Extends(g, f) == \A k \in 1..Len(f) : k \in 1..Len(g) /\ f[k] = g[k]

LEMMA ListIsPrefix ==
    ASSUME NEW S, S \subseteq Nat, NEW f, NEW g, Lists(f, S), Lists(g, S)
    PROVE  Extends(g, f)
<1> SUFFICES \A k \in 1..Len(f) : k \in 1..Len(g) /\ f[k] = g[k]
  BY DEF Extends
<1> DEFINE Bad == {k \in 1..Len(f) : ~(k \in 1..Len(g) /\ f[k] = g[k])}
<1>1. Len(f) \in Nat
  BY DEF Lists
<1> SUFFICES ASSUME Bad # {} PROVE FALSE
  OBVIOUS
<1>2. Bad \subseteq Nat
  BY <1>1
<1>3. PICK k \in Bad : \A m \in Bad : k <= m
  <2> HIDE DEF Bad
  <2> QED
    BY <1>2, LeastOf
<1>4. \A m \in 1..(k - 1) : m \in 1..Len(g) /\ f[m] = g[m]
  <2> SUFFICES ASSUME NEW m \in 1..(k - 1), m \in Bad PROVE FALSE
    BY <1>1
  <2>1. k <= m
    BY <1>3
  <2> QED
    BY <1>1, <2>1
<1> QED
  BY <1>4, NoFirstDifference

LEMMA OneListing ==
    ASSUME NEW S, S \subseteq Nat, NEW f, NEW g, Lists(f, S), Lists(g, S)
    PROVE  f = g
<1>1. f \in Seq(S) /\ g \in Seq(S)
  BY DEF Lists
<1>a. Extends(g, f) /\ Extends(f, g)
  BY ListIsPrefix
<1>2. \A k \in 1..Len(f) : k \in 1..Len(g) /\ f[k] = g[k]
  BY <1>a DEF Extends
<1>3. \A k \in 1..Len(g) : k \in 1..Len(f) /\ g[k] = f[k]
  BY <1>a DEF Extends
<1>4. Len(f) = Len(g)
  <2>1. Len(f) \in Nat /\ Len(g) \in Nat
    BY <1>1
  <2>2. Len(f) # 0 => Len(f) \in 1..Len(f)
    BY <2>1
  <2>3. Len(g) # 0 => Len(g) \in 1..Len(g)
    BY <2>1
  <2>4. Len(f) <= Len(g) /\ Len(g) <= Len(f)
    BY <1>2, <1>3, <2>1, <2>2, <2>3
  <2> QED
    BY <2>1, <2>4
<1> QED
  BY <1>1, <1>2, <1>4

-----------------------------------------------------------------------------
(* The query.  Its order is total on the ids, so that it lists every set.   *)

IsOrdered(S) ==
    /\ \A i, j \in S : Before(i, j) => ~Before(j, i)
    /\ \A i, j \in S : i # j => Before(i, j) \/ Before(j, i)
    /\ \A h, i, j \in S : Before(h, i) /\ Before(i, j) => Before(h, j)

\* The place of i in S.
UpTo(S, i) == {j \in S : j = i \/ Before(j, i)}

RankIn(S, i) == Cardinality(UpTo(S, i))

LEMMA RankAscends ==
    ASSUME NEW S, IsFiniteSet(S), IsOrdered(S)
    PROVE  /\ \A i \in S : RankIn(S, i) \in 1..Cardinality(S)
           /\ \A i, j \in S : Before(i, j) => RankIn(S, i) < RankIn(S, j)
<1>1. Cardinality(S) \in Nat
  BY FS_CardinalityType
<1>2. ASSUME NEW i \in S
      PROVE  IsFiniteSet(UpTo(S, i)) /\ RankIn(S, i) \in 1..Cardinality(S)
  <2>1. UpTo(S, i) \subseteq S /\ i \in UpTo(S, i)
    BY DEF UpTo
  <2>2. IsFiniteSet(UpTo(S, i)) /\ Cardinality(UpTo(S, i)) <= Cardinality(S)
    BY <2>1, FS_Subset
  <2>3. Cardinality(UpTo(S, i)) \in Nat /\ Cardinality(UpTo(S, i)) # 0
    BY <2>1, <2>2, FS_CardinalityType, FS_EmptySet
  <2> QED
    BY <1>1, <2>2, <2>3 DEF RankIn
<1>3. ASSUME NEW i \in S, NEW j \in S, Before(i, j)
      PROVE  RankIn(S, i) < RankIn(S, j)
  <2>1. UpTo(S, i) \subseteq UpTo(S, j)
    BY <1>3 DEF UpTo, IsOrdered
  <2>2. j \in UpTo(S, j) /\ j \notin UpTo(S, i)
    BY <1>3 DEF UpTo, IsOrdered
  <2>3. /\ Cardinality(UpTo(S, i)) <= Cardinality(UpTo(S, j))
        /\ Cardinality(UpTo(S, i)) # Cardinality(UpTo(S, j))
    BY <1>2, <2>1, <2>2, FS_Subset
  <2>4. RankIn(S, i) \in Nat /\ RankIn(S, j) \in Nat
    BY <1>2
  <2> QED
    BY <2>3, <2>4 DEF RankIn
<1> QED
  BY <1>2, <1>3

LEMMA RanksAreTaken ==
    ASSUME NEW S, IsFiniteSet(S), IsOrdered(S), NEW k \in 1..Cardinality(S)
    PROVE  \E i \in S : RankIn(S, i) = k
<1> DEFINE n == Cardinality(S)
           rank == [i \in S |-> RankIn(S, i)]
<1>1. n \in Nat
  BY FS_CardinalityType
<1>2. rank \in [S -> 1..n]
  BY RankAscends
<1>3. \A i, j \in S : rank[i] = rank[j] => i = j
  <2> SUFFICES ASSUME NEW i \in S, NEW j \in S, rank[i] = rank[j], i # j
               PROVE  FALSE
    OBVIOUS
  <2>1. Before(i, j) \/ Before(j, i)
    BY DEF IsOrdered
  <2>2. \A h, m \in S : Before(h, m) => rank[h] < rank[m]
    BY RankAscends
  <2>3. rank[i] \in 1..n
    BY <1>2
  <2> HIDE DEF rank, n
  <2> QED
    BY <2>1, <2>2, <2>3
<1>4. rank \in Surjection(S, 1..n)
  <2>1. IsFiniteSet(1..n) /\ Cardinality(1..n) = n
    BY <1>1, FS_Interval
  <2> HIDE DEF rank
  <2>2. rank \in Injection(S, 1..n)
    BY <1>2, <1>3 DEF Injection, IsInjective
  <2> QED
    BY <2>1, <2>2, FS_Injection
<1> QED
  BY <1>4 DEF Surjection

\* The query lists a set of ids: each once, in its order.
LEMMA QueryLists ==
    ASSUME NEW S, IsFiniteSet(S), IsOrdered(S)
    PROVE  /\ Listed(S) \in Seq(S)
           /\ \A i \in S : \E k \in 1..Len(Listed(S)) : Listed(S)[k] = i
           /\ \A k, l \in 1..Len(Listed(S)) : k < l => Before(Listed(S)[k], Listed(S)[l])
<1> DEFINE n == Cardinality(S)
           sorted == [k \in 1..n |-> CHOOSE i \in S : RankIn(S, i) = k]
           In(s) == \A k, l \in DOMAIN s : k < l => Before(s[k], s[l])
           s == Listed(S)
<1>1. n \in Nat
  BY FS_CardinalityType
<1>2. \A k \in 1..n : sorted[k] \in S /\ RankIn(S, sorted[k]) = k
  <2> SUFFICES ASSUME NEW k \in 1..n
               PROVE  sorted[k] \in S /\ RankIn(S, sorted[k]) = k
    OBVIOUS
  <2>1. \E i \in S : RankIn(S, i) = k
    BY RanksAreTaken
  <2>2. sorted[k] = CHOOSE i \in S : RankIn(S, i) = k
    OBVIOUS
  <2> HIDE DEF sorted
  <2> QED
    BY <2>1, <2>2
<1>3. sorted \in [1..n -> S]
  BY <1>2
<1> HIDE DEF sorted
<1>4. \A k, l \in 1..n : k < l => Before(sorted[k], sorted[l])
  <2> SUFFICES ASSUME NEW k \in 1..n, NEW l \in 1..n, k < l,
                      ~Before(sorted[k], sorted[l])
               PROVE  FALSE
    OBVIOUS
  <2>1. sorted[k] \in S /\ sorted[l] \in S
    BY <1>2
  <2>2. sorted[k] = sorted[l] \/ Before(sorted[l], sorted[k])
    BY <2>1 DEF IsOrdered
  <2>3. Before(sorted[l], sorted[k]) => RankIn(S, sorted[l]) < RankIn(S, sorted[k])
    BY <2>1, RankAscends
  <2>4. RankIn(S, sorted[k]) = k /\ RankIn(S, sorted[l]) = l
    BY <1>2
  <2> QED
    BY <2>2, <2>3, <2>4
<1>5. sorted \in SetToSeqs(S)
  <2> SUFFICES ASSUME NEW k \in 1..n, NEW l \in 1..n, k # l
               PROVE  sorted[k] # sorted[l]
    BY <1>3 DEF SetToSeqs
  <2> QED
    BY <1>2
<1>6. In(sorted)
  BY <1>3, <1>4
<1>7. s \in SetToSeqs(S) /\ In(s)
  BY <1>5, <1>6 DEF Listed
<1> HIDE DEF s
<1>8. s \in [1..n -> S] /\ \A k, l \in 1..n : k # l => s[k] # s[l]
  BY <1>7 DEF SetToSeqs
<1>9. \A i \in S : \E k \in 1..n : s[k] = i
  <2>1. s \in Injection(1..n, S)
    BY <1>8 DEF Injection, IsInjective
  <2>2. IsFiniteSet(1..n) /\ Cardinality(1..n) = n
    BY <1>1, FS_Interval
  <2>3. s \in Surjection(1..n, S)
    BY <2>1, <2>2, FS_Injection
  <2> QED
    BY <2>3 DEF Surjection
<1>10. \A k, l \in 1..n : k < l => Before(s[k], s[l])
  BY <1>7, <1>8
<1>11. s \in Seq(S) /\ Len(s) = n
  BY <1>1, <1>8
<1> QED
  BY <1>9, <1>10, <1>11 DEF s

-----------------------------------------------------------------------------
(* The table: sequence numbers ascend within a run *)

EventType == [run : Run, sequence : Nat]

SequencesAscend ==
    \A i, j \in Ids :
        i < j /\ events[i].run = events[j].run => events[i].sequence < events[j].sequence

TableInv == events \in Seq(EventType) /\ SequencesAscend

LEMMA TableTypes ==
    ASSUME TableInv
    PROVE  /\ Len(events) \in Nat
           /\ \A i \in Ids : /\ i \in Nat /\ events[i] \in EventType
                            /\ events[i].sequence \in Nat /\ events[i].run \in Run
<1>1. events \in Seq(EventType)
  BY DEF TableInv
<1>2. Len(events) \in Nat /\ \A i \in Ids : i \in Nat /\ events[i] \in EventType
  BY <1>1 DEF Ids
<1> QED
  BY <1>2 DEF EventType

LEMMA IdsAreOrdered ==
    ASSUME TableInv, NEW S, S \subseteq Ids
    PROVE  IsFiniteSet(S) /\ S \subseteq Nat /\ IsOrdered(S)
<1>1. Len(events) \in Nat /\ \A i \in Ids : events[i].sequence \in Nat
  BY TableTypes
<1>2. IsFiniteSet(1..Len(events))
  BY <1>1, FS_Interval
<1>3. IsFiniteSet(S) /\ \A i \in S : i \in Nat /\ events[i].sequence \in Nat
  <2>1. IsFiniteSet(S)
    BY <1>2, FS_Subset DEF Ids
  <2> QED
    BY <1>1, <2>1 DEF Ids
<1>4. \A i, j \in S : Before(i, j) => ~Before(j, i)
  BY <1>3 DEF Before
<1>5. \A i, j \in S : i # j => Before(i, j) \/ Before(j, i)
  BY <1>3 DEF Before
<1>6. \A h, i, j \in S : Before(h, i) /\ Before(i, j) => Before(h, j)
  BY <1>3 DEF Before
<1> QED
  BY <1>3, <1>4, <1>5, <1>6 DEF IsOrdered

\* Of one run, the query lists the ids in the order of the table.
LEMMA RunIsListed ==
    ASSUME TableInv, NEW r, NEW S, S \subseteq EventsOf({r})
    PROVE  Lists(Listed(S), S)
<1>1. S \subseteq Ids /\ \A i \in S : events[i].run = r
  BY DEF EventsOf
<1>2. IsFiniteSet(S) /\ S \subseteq Nat /\ IsOrdered(S)
  BY <1>1, IdsAreOrdered
<1>3. \A i, j \in S : Before(i, j) => i < j
  <2> SUFFICES ASSUME NEW i \in S, NEW j \in S, Before(i, j), ~(i < j)
               PROVE  FALSE
    OBVIOUS
  <2>1. i \in Nat /\ j \in Nat /\ i # j
    BY <1>2 DEF IsOrdered
  <2>2. j < i
    BY <2>1
  <2>3. events[j].sequence < events[i].sequence
    BY <1>1, <2>2 DEF TableInv, SequencesAscend
  <2>4. events[i].sequence \in Nat /\ events[j].sequence \in Nat
    BY <1>1, TableTypes
  <2> QED
    BY <2>1, <2>2, <2>3, <2>4 DEF Before
<1> DEFINE s == Listed(S)
<1>4. /\ s \in Seq(S)
      /\ \A i \in S : \E k \in 1..Len(s) : s[k] = i
      /\ \A k, l \in 1..Len(s) : k < l => Before(s[k], s[l])
  BY <1>2, QueryLists
<1> HIDE DEF s
<1>5. \A k \in 1..Len(s) : s[k] \in S
  BY <1>4
<1>6. \A k, l \in 1..Len(s) : k < l => s[k] < s[l]
  BY <1>3, <1>4, <1>5
<1> QED
  BY <1>4, <1>6 DEF Lists, s

\* The latest sequence number of a run is that of its last event.
LEMMA LatestIsGreatest ==
    ASSUME TableInv, NEW r
    PROVE  /\ LatestSequence(r) \in Nat
           /\ \A i \in EventsOf({r}) : events[i].sequence <= LatestSequence(r)
<1> DEFINE used == {events[i].sequence : i \in EventsOf({r})}
           Top(s) == s \in used \cup {0} /\ \A u \in used : u <= s
<1>1. /\ EventsOf({r}) \subseteq 1..Len(events) /\ Len(events) \in Nat
      /\ \A i \in EventsOf({r}) : events[i].sequence \in Nat /\ events[i].run = r
  BY TableTypes DEF EventsOf, Ids
<1>2. \E s \in used \cup {0} : \A u \in used : u <= s
  <2>1. CASE EventsOf({r}) = {}
    <3>1. used = {}
      BY <2>1
    <3> QED
      BY <3>1
  <2>2. CASE EventsOf({r}) # {}
    <3>1. PICK last \in EventsOf({r}) : \A i \in EventsOf({r}) : i <= last
      BY <1>1, <2>2, LastOf
    <3>2. ASSUME NEW i \in EventsOf({r})
          PROVE  events[i].sequence <= events[last].sequence
      <4>1. i \in Ids /\ last \in Ids /\ i <= last
        BY <1>1, <3>1 DEF Ids
      <4>2. events[i].sequence \in Nat /\ events[last].sequence \in Nat
        BY <1>1
      <4>3. CASE i = last
        BY <4>2, <4>3
      <4>4. CASE i # last
        <5>1. i < last
          BY <1>1, <4>1, <4>4 DEF Ids
        <5>2. events[i].sequence < events[last].sequence
          BY <1>1, <4>1, <5>1 DEF TableInv, SequencesAscend
        <5> QED
          BY <4>2, <5>2
      <4> QED
        BY <4>3, <4>4
    <3>3. events[last].sequence \in used
      OBVIOUS
    <3> QED
      BY <3>2, <3>3
  <2> QED
    BY <2>1, <2>2
<1>3. LatestSequence(r) = CHOOSE s \in used \cup {0} : \A u \in used : u <= s
  BY DEF LatestSequence
<1>4. LatestSequence(r) \in used \cup {0} /\ \A u \in used : u <= LatestSequence(r)
  <2> HIDE DEF used
  <2> QED
    BY <1>2, <1>3
<1>5. used \subseteq Nat /\ \A i \in EventsOf({r}) : events[i].sequence \in used
  BY <1>1
<1> HIDE DEF used
<1>6. LatestSequence(r) \in Nat
  <2>1. LatestSequence(r) \in used \cup {0}
    BY <1>4
  <2>2. used \cup {0} \subseteq Nat
    BY <1>5
  <2> QED
    BY <2>1, <2>2
<1>7. ASSUME NEW i \in EventsOf({r})
      PROVE  events[i].sequence <= LatestSequence(r)
  <2>1. events[i].sequence \in used
    BY <1>5
  <2> QED
    BY <1>4, <2>1
<1> QED
  BY <1>6, <1>7

-----------------------------------------------------------------------------
(* Pages *)

LEMMA FirstOf ==
    ASSUME NEW S, NEW s \in Seq(S), NEW m \in Nat, m <= Len(s)
    PROVE  /\ SubSeq(s, 1, m) \in Seq(S)
           /\ Len(SubSeq(s, 1, m)) = m
           /\ \A k \in 1..m : SubSeq(s, 1, m)[k] = s[k]
OBVIOUS

LEMMA Joined ==
    ASSUME NEW S, NEW f \in Seq(S), NEW g \in Seq(S)
    PROVE  /\ f \o g \in Seq(S) /\ Len(f \o g) = Len(f) + Len(g)
           /\ \A k \in 1..Len(f) : (f \o g)[k] = f[k]
           /\ \A k \in 1..Len(g) : (f \o g)[Len(f) + k] = g[k]
OBVIOUS

LEMMA Clamped ==
    ASSUME NEW limit \in Limits
    PROVE  Clamp(limit) \in Nat \ {0}
BY StreamAssumption DEF Clamp

Shorter(i, j) == IF i > j THEN j ELSE i

\* got is the page of at most n ids out of found, all the rows that were fetched for it.
IsPage(got, all, found, n, S) ==
    /\ got \in Seq(S) /\ Len(got) = Shorter(Len(found), n)
    /\ \A k \in 1..Len(got) : got[k] = found[k]
    /\ Len(all) > n <=> Len(found) > n
    /\ got = <<>> <=> Len(found) = 0

\* A page is the beginning of what the query finds, and one more row was found if and
\* only if the page does not reach its end.
LEMMA PageBegins ==
    ASSUME NEW S, NEW found \in Seq(S), NEW n \in Nat \ {0}, NEW fetched, NEW page,
           fetched = SubSeq(found, 1, IF Len(found) > n + 1 THEN n + 1 ELSE Len(found)),
           page = SubSeq(fetched, 1, IF Len(fetched) > n THEN n ELSE Len(fetched))
    PROVE  IsPage(page, fetched, found, n, S)
<1> DEFINE m == Shorter(Len(found), n + 1)
           q == Shorter(m, n)
<1>1. /\ Len(found) \in Nat /\ m \in Nat /\ m <= Len(found)
      /\ q \in Nat /\ q <= m /\ q = Shorter(Len(found), n)
      /\ m > n <=> Len(found) > n
      /\ q = 0 <=> Len(found) = 0
  BY DEF Shorter
<1>2. fetched = SubSeq(found, 1, m)
  BY DEF Shorter
<1> HIDE DEF m
<1>3. fetched \in Seq(S) /\ Len(fetched) = m /\ \A k \in 1..m : fetched[k] = found[k]
  BY <1>1, <1>2, FirstOf
<1>4. page = SubSeq(fetched, 1, q)
  BY <1>3 DEF Shorter
<1> HIDE DEF q
<1>5. page \in Seq(S) /\ Len(page) = q /\ \A k \in 1..q : page[k] = fetched[k]
  BY <1>1, <1>3, <1>4, FirstOf
<1>6. \A k \in 1..q : k \in 1..m
  BY <1>1
<1>7. page = <<>> <=> q = 0
  BY <1>5
<1> QED
  BY <1>1, <1>3, <1>5, <1>6, <1>7 DEF IsPage

\* Who has listed what is up to c, and reads on from there, has it listed as far as the
\* page goes.
LEMMA PageContinues ==
    ASSUME NEW A, NEW B, A \subseteq Nat, B \subseteq Nat,
           \A a \in A, b \in B : a < b,
           NEW f, NEW g, Lists(f, A), Lists(g, B),
           NEW page \in Seq(B), Len(page) \in 1..Len(g),
           \A k \in 1..Len(page) : page[k] = g[k]
    PROVE  Lists(f \o page, A \cup {b \in B : b <= g[Len(page)]})
<1> DEFINE m == Len(page)
           R == A \cup {b \in B : b <= g[m]}
           h == f \o page
<1>1. /\ Len(f) \in Nat /\ Len(g) \in Nat /\ m \in Nat
      /\ \A k \in 1..Len(f) : f[k] \in A
      /\ \A k \in 1..Len(g) : g[k] \in B
  <2>1. f \in Seq(A) /\ g \in Seq(B)
    BY DEF Lists
  <2> QED
    BY <2>1
<1>2. \A k \in 1..m : k \in 1..Len(g) /\ g[k] \in B /\ g[k] <= g[m]
  <2> SUFFICES ASSUME NEW k \in 1..m PROVE k \in 1..Len(g) /\ g[k] \in B /\ g[k] <= g[m]
    OBVIOUS
  <2>1. k \in 1..Len(g) /\ m \in 1..Len(g)
    BY <1>1
  <2>2. g[k] \in B /\ g[k] \in Nat /\ g[m] \in Nat
    BY <1>1, <2>1
  <2>3. CASE k = m
    BY <2>1, <2>2, <2>3
  <2>4. CASE k # m
    <3>1. k < m
      BY <1>1, <2>4
    <3>2. g[k] < g[m]
      BY <2>1, <3>1 DEF Lists
    <3> QED
      BY <2>1, <2>2, <3>2
  <2> QED
    BY <2>3, <2>4
<1>3. f \in Seq(R) /\ page \in Seq(R)
  <2>1. f \in [1..Len(f) -> R]
    BY <1>1 DEF Lists
  <2>2. page \in [1..m -> R]
    BY <1>2
  <2> HIDE DEF R
  <2> QED
    BY <1>1, <2>1, <2>2
<1>4. /\ h \in Seq(R) /\ Len(h) = Len(f) + m
      /\ \A k \in 1..Len(f) : h[k] = f[k]
      /\ \A k \in 1..m : h[Len(f) + k] = page[k]
  <2> HIDE DEF R
  <2> QED
    BY <1>3, Joined
<1> HIDE DEF h, m
<1>5. ASSUME NEW k \in 1..Len(h)
      PROVE  \/ k \in 1..Len(f) /\ h[k] = f[k] /\ h[k] \in A
             \/ /\ k - Len(f) \in 1..m /\ h[k] = g[k - Len(f)] /\ h[k] \in B
                /\ k > Len(f)
  <2>1. CASE k <= Len(f)
    BY <1>1, <1>4, <2>1
  <2>2. CASE k > Len(f)
    <3>1. k - Len(f) \in 1..m /\ Len(f) + (k - Len(f)) = k
      BY <1>1, <1>4, <2>2
    <3>2. h[k] = page[k - Len(f)]
      BY <1>4, <3>1
    <3> QED
      BY <1>2, <2>2, <3>1, <3>2 DEF m
  <2> QED
    BY <1>1, <2>1, <2>2
<1>6. ASSUME NEW i \in R
      PROVE  \E k \in 1..Len(h) : h[k] = i
  <2>1. CASE i \in A
    <3>1. PICK k \in 1..Len(f) : f[k] = i
      BY <2>1 DEF Lists
    <3>2. k \in 1..Len(h)
      BY <1>1, <1>4
    <3> QED
      BY <1>4, <3>1, <3>2
  <2>2. CASE i \in B /\ i <= g[m]
    <3>1. PICK k \in 1..Len(g) : g[k] = i
      BY <2>2 DEF Lists
    <3>2. k \in 1..m
      <4>1. CASE k <= m
        BY <1>1, <4>1
      <4>2. CASE m < k
        <5>1. m \in 1..Len(g)
          BY DEF m
        <5>2. g[m] < g[k]
          BY <4>2, <5>1 DEF Lists
        <5>3. g[m] \in Nat /\ g[k] \in Nat
          BY <1>1, <5>1
        <5> QED
          BY <2>2, <3>1, <5>2, <5>3
      <4> QED
        BY <1>1, <4>1, <4>2
    <3>3. Len(f) + k \in 1..Len(h)
      BY <1>1, <1>4, <3>2
    <3>4. h[Len(f) + k] = i
      BY <1>4, <3>1, <3>2 DEF m
    <3> QED
      BY <3>3, <3>4
  <2> QED
    BY <2>1, <2>2
<1>7. ASSUME NEW k \in 1..Len(h), NEW l \in 1..Len(h), k < l
      PROVE  h[k] < h[l]
  <2>1. CASE l \in 1..Len(f)
    <3>1. k \in 1..Len(f)
      BY <1>1, <1>4, <1>7, <2>1
    <3>2. f[k] < f[l]
      BY <1>7, <2>1, <3>1 DEF Lists
    <3> QED
      BY <1>4, <2>1, <3>1, <3>2
  <2>2. CASE l \notin 1..Len(f) /\ k \in 1..Len(f)
    <3>1. h[l] \in B /\ h[k] \in A
      BY <1>1, <1>4, <1>5, <2>2
    <3> QED
      BY <3>1
  <2>3. CASE l \notin 1..Len(f) /\ k \notin 1..Len(f)
    <3>1. /\ k - Len(f) \in 1..m /\ h[k] = g[k - Len(f)]
          /\ l - Len(f) \in 1..m /\ h[l] = g[l - Len(f)]
      BY <1>5, <2>3
    <3>2. k - Len(f) \in 1..Len(g) /\ l - Len(f) \in 1..Len(g)
      BY <1>2, <3>1
    <3>3. k - Len(f) < l - Len(f)
      BY <1>1, <1>4, <1>7
    <3>4. g[k - Len(f)] < g[l - Len(f)]
      BY <3>2, <3>3 DEF Lists
    <3> QED
      BY <3>1, <3>4
  <2> QED
    BY <2>1, <2>2, <2>3
<1> QED
  BY <1>4, <1>6, <1>7 DEF Lists, h, m

-----------------------------------------------------------------------------
(* What pagers have read *)

PagersOK ==
    /\ pager \in [Pager -> [cursor : Nat, got : Seq(Nat), more : BOOLEAN]]
    /\ \A p \in Pager : pager[p].cursor <= Len(events)

PageInv == StreamInv /\ TableInv /\ PagersOK /\ unannounced \subseteq Run

\* Every query selects the events of one run, as GET /v1/runs/{id}/events does.
OfOneRun == \A p \in Pager : \E r : Scope[p] \subseteq {r}

ReadOf(p) == {i \in EventsOf(Scope[p]) : i <= pager[p].cursor}

Unread(p) == {i \in EventsOf(Scope[p]) : i > pager[p].cursor}

LEMMA ListedIsTyped ==
    ASSUME TableInv, NEW S, S \subseteq Ids
    PROVE  Listed(S) \in Seq(S) /\ Listed(S) \in Seq(Nat)
<1>1. IsFiniteSet(S) /\ S \subseteq Nat /\ IsOrdered(S)
  BY IdsAreOrdered
<1>2. Listed(S) \in Seq(S)
  BY <1>1, QueryLists
<1>3. Seq(S) \subseteq Seq(Nat)
  BY <1>1, SeqIsMonotonic
<1> QED
  BY <1>2, <1>3

\* What a page changes.
LEMMA PageFacts ==
    ASSUME PageInv, NEW p \in Pager, NEW limit \in Limits, ReadPage(p, limit)
    PROVE  LET found == Listed(Unread(p)) IN
           \E page \in Seq(Unread(p)), more \in BOOLEAN :
              /\ Len(page) \in 0..Len(found)
              /\ \A k \in 1..Len(page) : page[k] = found[k]
              /\ Len(page) = 0 <=> page = <<>>
              /\ ~more => Len(page) = Len(found)
              /\ pager' = [pager EXCEPT ![p] =
                    [cursor |-> IF page = <<>> THEN pager[p].cursor ELSE page[Len(page)],
                     got |-> pager[p].got \o page, more |-> more]]
              /\ UNCHANGED <<events, row, unannounced, posting, subscribers, ws>>
<1> DEFINE U == Unread(p)
           found == Listed(U)
           n == Clamp(limit)
           fetched == SubSeq(found, 1, IF Len(found) > n + 1 THEN n + 1 ELSE Len(found))
           page == SubSeq(fetched, 1, IF Len(fetched) > n THEN n ELSE Len(fetched))
<1>1. U \subseteq Ids
  BY DEF Unread, EventsOf
<1>2. found \in Seq(U) /\ Len(found) \in Nat
  <2>1. found \in Seq(U)
    BY <1>1, ListedIsTyped DEF PageInv
  <2> QED
    BY <2>1
<1>3. n \in Nat \ {0}
  BY Clamped
<1>4. /\ pager' = [pager EXCEPT ![p] =
            [cursor |-> IF page = <<>> THEN pager[p].cursor ELSE page[Len(page)],
             got |-> pager[p].got \o page, more |-> Len(fetched) > n]]
      /\ UNCHANGED <<events, row, unannounced, posting, subscribers, ws>>
  BY Zenon DEF ReadPage, Unread
<1> HIDE DEF U, n
<1>5. PICK got, all : all = fetched /\ got = page
  OBVIOUS
<1>6. /\ got = SubSeq(all, 1, IF Len(all) > n THEN n ELSE Len(all))
      /\ all = SubSeq(found, 1, IF Len(found) > n + 1 THEN n + 1 ELSE Len(found))
  BY <1>5
<1>7. /\ pager' = [pager EXCEPT ![p] =
            [cursor |-> IF got = <<>> THEN pager[p].cursor ELSE got[Len(got)],
             got |-> pager[p].got \o got, more |-> Len(all) > n]]
  BY <1>4, <1>5
<1> HIDE DEF found, fetched, page
<1>8. IsPage(got, all, found, n, U)
  BY <1>2, <1>3, <1>6, PageBegins
<1>9. /\ Len(got) \in 0..Len(found)
      /\ Len(got) = 0 <=> got = <<>>
      /\ ~(Len(all) > n) => Len(got) = Len(found)
  BY <1>2, <1>3, <1>8 DEF IsPage, Shorter
<1>10. (Len(all) > n) \in BOOLEAN
  OBVIOUS
<1> QED
  BY <1>4, <1>7, <1>8, <1>9, <1>10 DEF IsPage, found, U

LEMMA PageTypes ==
    ASSUME PageInv, NEW p \in Pager, NEW limit \in Limits, ReadPage(p, limit)
    PROVE  PagersOK'
<1> DEFINE found == Listed(Unread(p))
<1>1. PICK page \in Seq(Unread(p)), more \in BOOLEAN :
        /\ Len(page) = 0 <=> page = <<>>
        /\ pager' = [pager EXCEPT ![p] =
              [cursor |-> IF page = <<>> THEN pager[p].cursor ELSE page[Len(page)],
               got |-> pager[p].got \o page, more |-> more]]
        /\ events' = events
  BY PageFacts
<1>2. /\ Len(events) \in Nat /\ Unread(p) \subseteq 1..Len(events)
      /\ pager \in [Pager -> [cursor : Nat, got : Seq(Nat), more : BOOLEAN]]
      /\ \A q \in Pager : pager[q].cursor <= Len(events)
  BY TableTypes DEF PageInv, PagersOK, Unread, EventsOf, Ids
<1>3. page \in Seq(Nat)
  <2>1. Unread(p) \subseteq Nat
    BY <1>2
  <2>2. Seq(Unread(p)) \subseteq Seq(Nat)
    BY <2>1, SeqIsMonotonic
  <2> QED
    BY <2>2
<1> DEFINE c == IF page = <<>> THEN pager[p].cursor ELSE page[Len(page)]
<1>4. c \in Nat /\ c <= Len(events)
  <2>1. CASE page = <<>>
    BY <1>2, <2>1
  <2>2. CASE page # <<>>
    <3>1. Len(page) \in 1..Len(page)
      BY <1>1, <1>3, <2>2
    <3>2. page[Len(page)] \in Unread(p)
      BY <3>1
    <3> QED
      BY <1>2, <2>2, <3>2
  <2> QED
    BY <2>1, <2>2
<1>5. pager[p].got \o page \in Seq(Nat)
  BY <1>2, <1>3
<1> HIDE DEF c
<1>6. pager' = [pager EXCEPT ![p] = [cursor |-> c, got |-> pager[p].got \o page,
                                     more |-> more]]
  BY <1>1 DEF c
<1> QED
  BY <1>1, <1>2, <1>4, <1>5, <1>6 DEF PagersOK

HasListed(p) ==
    pager[p].got = Listed({i \in EventsOf(Scope[p]) : i <= pager[p].cursor})

\* The query after a step lists as before what the step left as it was.
LEMMA ListedStays ==
    ASSUME NEW S, NEW p \in Pager, \A i \in S : events'[i] = events[i],
           {i \in EventsOf(Scope[p])' : i <= pager'[p].cursor} = S,
           pager'[p].got = Listed(S)
    PROVE  HasListed(p)'
<1> DEFINE P(s) == \A k, l \in DOMAIN s : k < l => Before(s[k], s[l])
           Q(s) == \A k, l \in DOMAIN s : k < l => Before(s[k], s[l])'
<1>1. ASSUME NEW s \in SetToSeqs(S) PROVE P(s) <=> Q(s)
  <2>1. \A k \in DOMAIN s : s[k] \in S
    BY DEF SetToSeqs
  <2>2. \A i, j \in S : Before(i, j)' <=> Before(i, j)
    BY DEF Before
  <2> QED
    BY <2>1, <2>2
<1> HIDE DEF P, Q
<1>2. (CHOOSE s \in SetToSeqs(S) : P(s)) = (CHOOSE s \in SetToSeqs(S) : Q(s))
  BY <1>1, Zenon
<1>3. Listed(S) = (CHOOSE s \in SetToSeqs(S) : Q(s))
  BY <1>2 DEF Listed, P
<1> QED
  BY <1>3 DEF HasListed, Listed, Q

\* A page adds to what was read all that comes up to its own last event.
LEMMA PageKeepsReading ==
    ASSUME PageInv, OfOneRun, PagesLoseNothing,
           NEW p \in Pager, NEW limit \in Limits, ReadPage(p, limit)
    PROVE  /\ PagesLoseNothing'
           /\ ~pager'[p].more => \A i \in EventsOf(Scope[p]) : i <= pager'[p].cursor
           /\ \A q \in Pager : q # p => pager'[q] = pager[q]
<1> DEFINE A == ReadOf(p)
           B == Unread(p)
           found == Listed(B)
           all == EventsOf(Scope[p])
<1>1. PICK page \in Seq(B), more \in BOOLEAN :
        /\ Len(page) \in 0..Len(found)
        /\ \A k \in 1..Len(page) : page[k] = found[k]
        /\ Len(page) = 0 <=> page = <<>>
        /\ ~more => Len(page) = Len(found)
        /\ pager' = [pager EXCEPT ![p] =
              [cursor |-> IF page = <<>> THEN pager[p].cursor ELSE page[Len(page)],
               got |-> pager[p].got \o page, more |-> more]]
        /\ events' = events
  BY PageFacts
<1> DEFINE c == IF page = <<>> THEN pager[p].cursor ELSE page[Len(page)]
<1>2. PICK r : Scope[p] \subseteq {r}
  BY DEF OfOneRun
<1>3. /\ all \subseteq EventsOf({r}) /\ all \subseteq Nat
      /\ pager[p].cursor \in Nat /\ pager[p].got \in Seq(Nat)
      /\ pager \in [Pager -> [cursor : Nat, got : Seq(Nat), more : BOOLEAN]]
  <2>1. all \subseteq EventsOf({r})
    BY <1>2 DEF EventsOf
  <2>2. all \subseteq Nat
    BY TableTypes DEF PageInv, EventsOf
  <2> QED
    BY <2>1, <2>2 DEF PageInv, PagersOK
<1>4. /\ A = {i \in all : i <= pager[p].cursor} /\ B = {i \in all : i > pager[p].cursor}
  BY DEF ReadOf, Unread
<1> HIDE DEF all, A, B
<1>5. A \subseteq Nat /\ B \subseteq Nat /\ \A a \in A, b \in B : a < b
  <2>1. A \subseteq Nat /\ B \subseteq Nat
    BY <1>3, <1>4
  <2>2. ASSUME NEW a \in A, NEW b \in B
        PROVE  a < b
    <3>1. a <= pager[p].cursor /\ b > pager[p].cursor
      BY <1>4
    <3>2. a \in Nat /\ b \in Nat /\ pager[p].cursor \in Nat
      BY <1>3, <2>1
    <3> QED
      BY <3>1, <3>2
  <2> QED
    BY <2>1, <2>2
<1>6. Lists(Listed(A), A) /\ Lists(found, B)
  <2>1. A \subseteq EventsOf({r}) /\ B \subseteq EventsOf({r})
    BY <1>3, <1>4
  <2> QED
    BY <2>1, RunIsListed DEF PageInv
<1>7. pager[p].got = Listed(A)
  BY DEF PagesLoseNothing, A, ReadOf
<1> DEFINE now == {i \in all : i <= c}
<1>8. pager[p].got \o page = Listed(now) /\ (~more => \A i \in all : i <= c)
  <2>1. CASE page = <<>>
    <3>1. now = A
      BY <1>4, <2>1
    <3>2. pager[p].got \o page = pager[p].got
      BY <1>3, <2>1
    <3>3. ASSUME ~more, NEW i \in all
          PROVE  i <= c
      <4>1. Len(found) = 0
        BY <1>1, <2>1, <3>3
      <4>2. i \notin B
        BY <1>6, <4>1 DEF Lists
      <4> QED
        BY <1>3, <1>4, <2>1, <4>2
    <3> QED
      BY <1>7, <3>1, <3>2, <3>3
  <2>2. CASE page # <<>>
    <3> DEFINE m == Len(page)
    <3>1. /\ m \in 1..Len(found) /\ Len(found) \in Nat
          /\ c = found[m] /\ c \in B /\ c \in Nat
      <4>1. Len(found) \in Nat /\ \A k \in 1..Len(found) : found[k] \in B
        <5>1. found \in Seq(B)
          BY <1>6 DEF Lists
        <5> HIDE DEF found
        <5> QED
          BY <5>1
      <4>2. m \in 1..Len(found) /\ m \in 1..m
        BY <1>1, <2>2, <4>1
      <4>3. c = found[m]
        BY <1>1, <2>2, <4>2
      <4> QED
        BY <1>5, <4>1, <4>2, <4>3
    <3>2. now = A \cup {b \in B : b <= c}
      <4>1. pager[p].cursor < c
        BY <1>3, <1>4, <3>1
      <4> HIDE DEF c
      <4>2. ASSUME NEW i \in all
            PROVE  i <= c <=> (i <= pager[p].cursor \/ (i > pager[p].cursor /\ i <= c))
        BY <1>3, <3>1, <4>1
      <4> QED
        BY <1>4, <4>2
    <3>3. Lists(Listed(A) \o page, A \cup {b \in B : b <= found[Len(page)]})
      BY <1>1, <1>5, <1>6, <3>1, PageContinues
    <3>4. Lists(Listed(A) \o page, now)
      BY <3>1, <3>2, <3>3
    <3>5. Lists(Listed(now), now) /\ now \subseteq Nat
      <4>1. now \subseteq EventsOf({r}) /\ now \subseteq Nat
        BY <1>3
      <4> HIDE DEF now
      <4> QED
        BY <4>1, RunIsListed DEF PageInv
    <3>6. Listed(A) \o page = Listed(now)
      <4> HIDE DEF now, c
      <4> QED
        BY <3>4, <3>5, OneListing
    <3>7. ASSUME ~more, NEW i \in all
          PROVE  i <= c
      <4>1. m = Len(found)
        BY <1>1, <3>7
      <4>2. CASE i \in B
        <5>1. PICK k \in 1..Len(found) : found[k] = i
          BY <1>6, <4>2 DEF Lists
        <5>2. CASE k = m
          BY <3>1, <5>1, <5>2, <1>5, <4>2
        <5>3. CASE k # m
          <6>1. k < m
            BY <3>1, <4>1, <5>1, <5>3
          <6>2. found[k] < found[m]
            BY <1>6, <3>1, <5>1, <6>1 DEF Lists
          <6> HIDE DEF c, found
          <6> QED
            BY <3>1, <5>1, <6>2, <1>5, <4>2
        <5> QED
          BY <5>2, <5>3
      <4>3. CASE i \notin B
        <5>1. i \in A
          BY <1>3, <1>4, <4>3
        <5>2. i < c
          BY <1>5, <3>1, <5>1
        <5>3. i \in Nat /\ c \in Nat
          BY <1>3, <3>1
        <5> HIDE DEF c
        <5> QED
          BY <5>2, <5>3
      <4> QED
        BY <4>2, <4>3
    <3> QED
      BY <1>7, <3>6, <3>7
  <2> QED
    BY <2>1, <2>2
<1> HIDE DEF found, c
<1>9. pager' = [pager EXCEPT ![p] = [cursor |-> c, got |-> pager[p].got \o page,
                                     more |-> more]]
  BY <1>1 DEF c
<1>10. /\ pager'[p].cursor = c /\ pager'[p].more = more
       /\ pager'[p].got = pager[p].got \o page
       /\ \A q \in Pager : q # p => pager'[q] = pager[q]
  BY <1>3, <1>9
<1>11. HasListed(p)'
  <2>1. \A i \in now : events'[i] = events[i]
    BY <1>1
  <2>2. {i \in EventsOf(Scope[p])' : i <= pager'[p].cursor} = now
    BY <1>1, <1>10 DEF EventsOf, Ids, all
  <2>3. pager'[p].got = Listed(now)
    BY <1>8, <1>10
  <2> HIDE DEF now
  <2> QED
    BY <2>1, <2>2, <2>3, ListedStays
<1>12. ASSUME NEW q \in Pager, q # p
       PROVE  HasListed(q)'
  <2>1. \A i \in ReadOf(q) : events'[i] = events[i]
    BY <1>1
  <2>2. {i \in EventsOf(Scope[q])' : i <= pager'[q].cursor} = ReadOf(q)
    BY <1>1, <1>10, <1>12 DEF EventsOf, Ids, ReadOf
  <2>3. pager'[q].got = Listed(ReadOf(q))
    BY <1>10, <1>12 DEF PagesLoseNothing, ReadOf
  <2> QED
    BY <2>1, <2>2, <2>3, ListedStays
<1>13. PagesLoseNothing'
  BY <1>11, <1>12 DEF PagesLoseNothing, HasListed
<1>14. ~pager'[p].more => \A i \in EventsOf(Scope[p]) : i <= pager'[p].cursor
  BY <1>8, <1>10 DEF all
<1> QED
  BY <1>10, <1>13, <1>14

-----------------------------------------------------------------------------
\* An event that is appended leaves what was read as it was: it has a greater
\* id than every cursor, and its run has no greater sequence number.
LEMMA InsertKeepsTable ==
    ASSUME TableInv, NEW w \in Writer, NEW r \in Run, Insert(w, r)
    PROVE  /\ TableInv'
           /\ Len(events') = Len(events) + 1
           /\ \A i \in Ids : events'[i] = events[i]
<1> DEFINE n == LatestSequence(r) + 1
           e == [run |-> r, sequence |-> n]
<1>1. /\ LatestSequence(r) \in Nat
      /\ \A i \in EventsOf({r}) : events[i].sequence <= LatestSequence(r)
  BY LatestIsGreatest
<1>2. /\ events \in Seq(EventType) /\ Len(events) \in Nat
      /\ \A i \in Ids : i \in Nat /\ events[i].sequence \in Nat
  BY TableTypes DEF TableInv
<1>3. e \in EventType /\ n \in Nat /\ e.run = r /\ e.sequence = n
  BY <1>1 DEF EventType
<1>4. events' = Append(events, e)
  BY DEF Insert
<1>5. /\ events' \in Seq(EventType) /\ Len(events') = Len(events) + 1
      /\ events'[Len(events) + 1] = e
      /\ \A i \in Ids : events'[i] = events[i]
  <2> HIDE DEF e
  <2> QED
    BY <1>2, <1>3, <1>4 DEF Ids
<1>6. \A i \in EventsOf({r}) : events[i].sequence < n
  <2> SUFFICES ASSUME NEW i \in EventsOf({r})
               PROVE  events[i].sequence < n
    OBVIOUS
  <2>1. events[i].sequence \in Nat
    BY <1>2 DEF EventsOf
  <2> QED
    BY <1>1, <2>1
<1> HIDE DEF e, n
<1>7. SequencesAscend'
  <2> SUFFICES ASSUME NEW i \in Ids', NEW j \in Ids', i < j,
                      events'[i].run = events'[j].run
               PROVE  events'[i].sequence < events'[j].sequence
    BY DEF SequencesAscend
  <2>1. i \in Ids /\ (j \in Ids \/ j = Len(events) + 1)
    BY <1>2, <1>5 DEF Ids
  <2>2. CASE j \in Ids
    BY <1>5, <2>1, <2>2 DEF TableInv, SequencesAscend
  <2>3. CASE j = Len(events) + 1
    <3>1. events'[j] = e /\ events'[i] = events[i]
      BY <1>5, <2>1, <2>3
    <3>2. i \in EventsOf({r})
      BY <1>3, <2>1, <3>1 DEF EventsOf
    <3> QED
      BY <1>3, <1>6, <3>1, <3>2
  <2> QED
    BY <2>1, <2>2, <2>3
<1> QED
  BY <1>5, <1>7 DEF TableInv

LEMMA InsertKeepsPages ==
    ASSUME PageInv, NEW w \in Writer, NEW r \in Run, Insert(w, r)
    PROVE  PagersOK' /\ (PagesLoseNothing => PagesLoseNothing')
<1>1. /\ Len(events) \in Nat /\ Len(events') = Len(events) + 1
      /\ \A i \in Ids : events'[i] = events[i]
      /\ pager' = pager
      /\ pager \in [Pager -> [cursor : Nat, got : Seq(Nat), more : BOOLEAN]]
      /\ \A p \in Pager : pager[p].cursor <= Len(events)
  BY InsertKeepsTable, TableTypes DEF PageInv, PagersOK, Insert
<1>2. PagersOK'
  BY <1>1 DEF PagersOK
<1>3. ASSUME PagesLoseNothing, NEW p \in Pager
      PROVE  HasListed(p)'
  <2>1. \A i \in ReadOf(p) : i \in Ids /\ events'[i] = events[i]
    BY <1>1 DEF ReadOf, EventsOf
  <2>2. {i \in EventsOf(Scope[p])' : i <= pager'[p].cursor} = ReadOf(p)
    <3>1. pager[p].cursor \in Nat /\ pager[p].cursor <= Len(events)
      BY <1>1
    <3>2. \A i \in Ids' : i <= pager[p].cursor => i \in Ids
      BY <1>1, <3>1 DEF Ids
    <3>3. \A i \in Ids : i \in Ids'
      BY <1>1 DEF Ids
    <3> QED
      BY <1>1, <3>2, <3>3 DEF EventsOf, ReadOf
  <2>3. pager'[p].got = Listed(ReadOf(p))
    BY <1>1, <1>3 DEF PagesLoseNothing, ReadOf
  <2> QED
    BY <2>1, <2>2, <2>3, ListedStays
<1> QED
  BY <1>2, <1>3 DEF PagesLoseNothing, HasListed

\* No other step has to do with the pages.
LEMMA OthersKeepPages ==
    ASSUME PageInv, UNCHANGED <<events, pager>>
    PROVE  TableInv' /\ PagersOK' /\ (PagesLoseNothing => PagesLoseNothing')
<1>1. TableInv' /\ PagersOK'
  BY DEF PageInv, TableInv, SequencesAscend, Ids, PagersOK
<1>2. ASSUME PagesLoseNothing, NEW p \in Pager
      PROVE  HasListed(p)'
  <2>1. {i \in EventsOf(Scope[p])' : i <= pager'[p].cursor} = ReadOf(p)
    BY DEF EventsOf, Ids, ReadOf
  <2>2. pager'[p].got = Listed(ReadOf(p))
    BY <1>2 DEF PagesLoseNothing, ReadOf
  <2> QED
    BY <2>1, <2>2, ListedStays
<1> QED
  BY <1>1, <1>2 DEF PagesLoseNothing, HasListed

LEMMA PageInit == Init => PageInv /\ PagesLoseNothing
<1> SUFFICES ASSUME Init PROVE PageInv /\ PagesLoseNothing
  OBVIOUS
<1>1. events = <<>> /\ Len(events) = 0 /\ Ids = {}
  BY DEF Init, Ids
<1>2. TableInv
  BY <1>1 DEF TableInv, SequencesAscend
<1>3. \A p \in Pager : pager[p] = [cursor |-> 0, got |-> <<>>, more |-> TRUE]
  BY DEF Init
<1>4. PagersOK
  BY <1>1 DEF PagersOK, Init
<1>5. PageInv
  BY <1>2, <1>4, StreamInit DEF PageInv, Init
<1>6. ASSUME NEW p \in Pager
      PROVE  pager[p].got = Listed(ReadOf(p))
  <2>1. ReadOf(p) = {}
    BY <1>1 DEF ReadOf, EventsOf
  <2>2. Listed({}) \in Seq({})
    BY <1>2, ListedIsTyped
  <2>3. Listed({}) = <<>>
    BY <2>2
  <2> QED
    BY <1>3, <2>1, <2>3
<1> QED
  BY <1>5, <1>6 DEF PagesLoseNothing, ReadOf

\* What every step keeps, and what only pages do.
LEMMA PageStep ==
    ASSUME PageInv, [Next]_vars
    PROVE  /\ PageInv'
           /\ OfOneRun /\ PagesLoseNothing =>
                /\ PagesLoseNothing'
                /\ \A p \in Pager :
                     pager'[p] # pager[p] /\ ~pager'[p].more
                     => \A i \in EventsOf(Scope[p]) : i <= pager'[p].cursor
<1>1. StreamInv'
  BY StreamNext DEF PageInv
<1>2. CASE \E w \in Writer, r \in Run : Insert(w, r)
  <2>1. PICK w \in Writer, r \in Run : Insert(w, r)
    BY <1>2
  <2>2. pager' = pager /\ unannounced' \subseteq Run
    BY <2>1 DEF Insert, PageInv
  <2>3. TableInv'
    BY <2>1, InsertKeepsTable DEF PageInv
  <2>4. PagersOK' /\ (PagesLoseNothing => PagesLoseNothing')
    BY <2>1, InsertKeepsPages
  <2> QED
    BY <1>1, <2>2, <2>3, <2>4 DEF PageInv
<1>3. CASE \E p \in Pager, limit \in Limits : ReadPage(p, limit)
  <2>1. PICK p \in Pager, limit \in Limits : ReadPage(p, limit)
    BY <1>3
  <2>2. events' = events /\ unannounced' \subseteq Run
    BY <2>1 DEF ReadPage, PageInv
  <2>3. TableInv'
    BY <2>2 DEF PageInv, TableInv, SequencesAscend, Ids
  <2>4. PagersOK'
    BY <2>1, PageTypes
  <2>5. PageInv'
    BY <1>1, <2>2, <2>3, <2>4 DEF PageInv
  <2>6. ASSUME OfOneRun, PagesLoseNothing
        PROVE  /\ PagesLoseNothing'
               /\ ~pager'[p].more => \A i \in EventsOf(Scope[p]) : i <= pager'[p].cursor
               /\ \A q \in Pager : q # p => pager'[q] = pager[q]
    BY <2>1, <2>6, PageKeepsReading
  <2> QED
    BY <2>5, <2>6
<1>4. CASE UNCHANGED <<events, pager>> /\ unannounced' \subseteq Run
  <2>1. TableInv' /\ PagersOK' /\ (PagesLoseNothing => PagesLoseNothing')
    BY <1>4, OthersKeepPages
  <2> QED
    BY <1>1, <1>4, <2>1 DEF PageInv
<1>5. ASSUME NEW r \in Run, ChangeRow(r)
      PROVE  UNCHANGED <<events, pager>> /\ unannounced' \subseteq Run
  BY <1>5 DEF ChangeRow, PageInv
<1>6. ASSUME NEW w \in Writer, NEW c \in Client, CopySubscribers(w) \/ CallBack(w, c)
      PROVE  UNCHANGED <<events, pager>> /\ unannounced' \subseteq Run
  BY <1>6 DEF CopySubscribers, CallBack, PageInv
<1>7. ASSUME NEW c \in Client,
             SocketStep(c) \/ Hangup(c) \/ \E r \in Run : Connect(c, r)
      PROVE  UNCHANGED <<events, pager>> /\ unannounced' \subseteq Run
  BY <1>7 DEF SocketStep, Hangup, Connect, Subscribe, SendStored, SendEvent, SendRow,
              Leave, PageInv
<1>8. CASE UNCHANGED vars
  BY <1>4, <1>8 DEF vars, PageInv
<1>9. ASSUME NEW w \in Writer, CopySubscribers(w)
      PROVE  UNCHANGED <<events, pager>> /\ unannounced' \subseteq Run
  BY <1>9 DEF CopySubscribers, PageInv
<1> QED
  BY <1>2, <1>3, <1>4, <1>5, <1>6, <1>7, <1>8, <1>9 DEF Next, WriterStep

\* The rows, the queues and the pages the code builds have the types of the
\* model, whatever the order of the appends and the requests.
THEOREM TypeCorrectness == Spec => []TypeOK
<1>1. Init => PageInv
  BY PageInit
<1>2. PageInv /\ [Next]_vars => PageInv'
  BY PageStep
<1>3. PageInv => TypeOK
  <2> SUFFICES ASSUME PageInv PROVE TypeOK
    OBVIOUS
  <2>1. events \in Seq([run : Run, sequence : Nat])
    BY DEF PageInv, TableInv, EventType
  <2>2. /\ posting \in [Writer -> [id : Nat, copied : BOOLEAN, to : SUBSET Client]]
        /\ \A w \in Writer : posting[w].id \in Ids \cup {0}
    BY <2>1 DEF PageInv, StreamInv, PostingOK, Post, Ids
  <2> QED
    BY <2>1, <2>2 DEF TypeOK, PageInv, StreamInv, SocketsOK, PagersOK
<1> QED
  BY <1>1, <1>2, <1>3, PTL DEF Spec

\* list_run_events_page: a client that follows next_after_id through the events
\* of a run has all of them up to its cursor, each once and in order, however
\* many are appended in between, and has_more is false only at the end.
THEOREM PagesReadAll ==
    ASSUME OfOneRun
    PROVE  Spec => PagesAreComplete
<1> DEFINE I == PageInv /\ PagesLoseNothing
           A == /\ PagesLoseNothing'
                /\ \A p \in Pager :
                     (pager'[p] # pager[p] /\ ~pager'[p].more)
                     => \A i \in EventsOf(Scope[p]) : i <= pager'[p].cursor
<1>1. Init => I
  BY PageInit
<1>2. I /\ [Next]_vars => I' /\ A
  BY PageStep
<1>3. I /\ [Next]_vars => I' /\ [A]_vars
  BY <1>2
<1>4. Spec => [][A]_vars
  <2> HIDE DEF I, A
  <2> QED
    BY <1>1, <1>3, PTL DEF Spec
<1> QED
  BY <1>4 DEF PagesAreComplete

=============================================================================
