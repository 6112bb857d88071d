--------------------------- MODULE MemoryItemsProofs ---------------------------
(***************************************************************************)
(* What MemoryItems promises for every number of items, of threads of the  *)
(* pool and of candidates, and for every way texts resemble one another:   *)
(* only a confirmation brings an item back, a deleted text stays gone, and *)
(* an eviction leaves no more live items than there is room for. They rest *)
(* on what the copies of rows hold that the writer and the handlers will   *)
(* write back.                                                             *)
(***************************************************************************)
EXTENDS MemoryItems, SequenceTheorems, FiniteSetTheorems, TLAPS

\* Who has a row to write has read one, and knows of inserted items only.
CopiesAreRows ==
    /\ writer.at \in {"write", "evicting"} => writer.copy \in Row
    /\ writer.at \in {"read", "write", "evicting"} => writer.old # 0
    /\ writer.at \in {"read", "write", "insert"} => writer.new \in Row
    /\ \A h \in Handler : handlers[h].at = "write" => handlers[h].copy \in Row
    /\ \A h \in Handler : handlers[h].at # "idle" => handlers[h].item # 0

\* Items are numbered as they are inserted.
ItemsAreInserted ==
    /\ \A i \in Item : i > inserted => rows[i] = Absent
    /\ \A i \in out \cup proofs : i <= inserted
    /\ writer.old <= inserted
    /\ \A i \in writer.victims : i <= inserted
    /\ \A h \in Handler : handlers[h].item <= inserted

\* Each candidate that is left has a number.
RoomIsLeft ==
    writer.at \in {"list", "read", "write", "insert"} =>
        /\ writer.todo # <<>>
        /\ inserted + Len(writer.todo) <= MaxItems

WellFormed == TypeOK /\ CopiesAreRows /\ ItemsAreInserted /\ RoomIsLeft

\* An item that was out and was not confirmed cannot be recalled, and who is about
\* to confirm one has been asked to.
OutStaysOut ==
    /\ \A i \in out \ confirmed :
          rows[i] # Absent => rows[i].pending \/ rows[i].deprecated
    /\ \A h \in Handler : handlers[h].at = "write" /\ handlers[h].verdict = "confirm" =>
          handlers[h].item \in confirmed

\* The handler has deleted its item and not yet proven it.
HasDeleted(h) == handlers[h].at = "event" /\ handlers[h].verdict = "delete"

Deleted == proofs \cup {handlers[h].item : h \in {g \in Handler : HasDeleted(g)}}

\* Neither the row of an item that nobody held at its deletion, nor a copy of it,
\* has its text.
DeletedIsTombstone ==
    \A i \in Deleted \ contested :
        /\ rows[i] # Absent => rows[i].content = Tombstone
        /\ \A h \in Handler : handlers[h].at = "write" /\ handlers[h].item = i =>
              handlers[h].copy.content = Tombstone
        /\ HeldByWriter(i) => writer.copy.content = Tombstone

-----------------------------------------------------------------------------
(* The operators *)

LEMMA TailOfTodo ==
    ASSUME NEW todo \in Seq(Candidate), todo # <<>>
    PROVE  /\ Tail(todo) \in Seq(Candidate)
           /\ Len(Tail(todo)) = Len(todo) - 1
           /\ Len(todo) \in Nat \ {0}
           /\ Head(todo) \in Candidate
           /\ Len(todo) # 1 => Tail(todo) # <<>>
  <1>1. /\ Tail(todo) \in Seq(Candidate) /\ Head(todo) \in Candidate
        /\ Len(Tail(todo)) = Len(todo) - 1
    BY HeadTailProperties
  <1>2. Len(todo) \in Nat \ {0}
    BY EmptySeq
  <1>3. Len(todo) # 1 => Tail(todo) # <<>>
    <2>1. Len(<<>>) = 0
      OBVIOUS
    <2> QED BY <1>1, <1>2, <2>1
  <1>4. QED BY <1>1, <1>2, <1>3

\* A row stays a row, whatever is made of it.
LEMMA RowsStayRows ==
    ASSUME NEW row \in Row
    PROVE  /\ Deprecated(row) \in Row /\ Deprecated(row).deprecated
           /\ Deprecated(row).content = row.content
           /\ Confirmed(row) \in Row /\ Confirmed(row).content = row.content
           /\ Tombstoned(row) \in Row /\ Tombstoned(row).deprecated
           /\ Tombstoned(row).content = Tombstone
  BY DEF Row, Deprecated, Confirmed, Tombstoned

\* Only the row that is written changes, and a row that is gone stays gone.
LEMMA StoredRows ==
    ASSUME TypeOK, NEW i \in Item, NEW row \in Row
    PROVE  /\ Stored(i, row) \in [Item -> Row \cup {Absent}]
           /\ \A j \in Item : j # i => Stored(i, row)[j] = rows[j]
           /\ rows[i] = Absent => Stored(i, row)[i] = Absent
           /\ rows[i] # Absent => Stored(i, row)[i] = row
  BY DEF TypeOK, Stored, Exists

-----------------------------------------------------------------------------
(* The form of the state *)

WriterType ==
    [at : {"idle", "list", "read", "write", "insert", "count", "evict", "evicting"},
     todo : Seq(Candidate), new : Row \cup {Absent}, old : 0..MaxItems,
     victims : SUBSET Item, copy : Row \cup {Absent}]

HandlerType == [at : {"idle", "write", "event"}, verdict : Verdict, item : 0..MaxItems,
                copy : Row \cup {Absent}]

\* The next candidate, or the count.
LEMMA Next1IsWriter ==
    ASSUME WellFormed, writer.todo # <<>>
    PROVE  /\ Next1 \in WriterType
           /\ Next1.at \in {"list", "count"}
           /\ Next1.old = 0 /\ Next1.victims = {}
           /\ Next1.at = "list" => Next1.todo # <<>>
           /\ Len(Next1.todo) = Len(writer.todo) - 1
  <1>1. writer.todo \in Seq(Candidate)
    BY DEF WellFormed, TypeOK
  <1> DEFINE rest == Tail(writer.todo)
  <1>2. /\ rest \in Seq(Candidate) /\ Len(rest) = Len(writer.todo) - 1
        /\ Len(writer.todo) # 1 => rest # <<>>
    BY <1>1, TailOfTodo
  <1>3. \A at \in {"list", "count"} :
            /\ Advance(at) \in WriterType /\ Advance(at).at = at
            /\ Advance(at).old = 0 /\ Advance(at).victims = {}
            /\ Advance(at).todo = rest
    <2> HIDE DEF rest
    <2>1. Idle \in WriterType /\ Idle.old = 0 /\ Idle.victims = {}
      BY MemoryAssumption DEF Idle, WriterType
    <2>2. \A at : Advance(at) = [Idle EXCEPT !.at = at, !.todo = rest]
      BY DEF Advance, rest
    <2> QED BY <1>2, <2>1, <2>2 DEF WriterType
  <1> HIDE DEF rest
  <1>4. QED
    BY <1>2, <1>3 DEF Next1

\* The decision about a candidate keeps to the forms.
LEMMA PlanIsWriter ==
    ASSUME WellFormed, writer.at = "list", NEW candidate \in Candidate,
           NEW old \in {0} \cup Item
    PROVE  /\ Plan(candidate, old) \in WriterType
           /\ Plan(candidate, old).at \in {"insert", "read"}
           /\ Plan(candidate, old).at = "read" => old # 0
           /\ Plan(candidate, old).at = "read" => Plan(candidate, old).old = old
           /\ Plan(candidate, old).old \in {0, old}
           /\ Plan(candidate, old).new \in Row
           /\ Plan(candidate, old).victims = writer.victims
           /\ Plan(candidate, old).todo = writer.todo
  <1> DEFINE new(pending) == [content |-> candidate.content, pending |-> pending,
                              deprecated |-> FALSE]
  <1>1. \A pending \in BOOLEAN : new(pending) \in Row
    BY MemoryAssumption DEF Row
  <1>2. candidate.pending \in BOOLEAN
    BY MemoryAssumption
  <1> HIDE DEF new
  <1>3. \E at \in {"insert", "read"}, row \in Row, item \in {0, old} :
            /\ Plan(candidate, old) = Writing(at, row, item)
            /\ at = "read" => item = old /\ old # 0
    <2>1. new(candidate.pending) \in Row /\ new(TRUE) \in Row
      BY <1>1, <1>2
    <2>2. \/ Plan(candidate, old) = Writing("insert", new(candidate.pending), 0)
          \/ Plan(candidate, old) = Writing("insert", new(TRUE), old)
          \/ Plan(candidate, old) = Writing("read", new(candidate.pending), old) /\ old # 0
      BY DEF Plan, new
    <2> QED BY <2>1, <2>2, Zenon
  <1>0. 0 \in 0..MaxItems /\ old \in 0..MaxItems
    BY MemoryAssumption DEF Item
  <1>4. \A at \in {"insert", "read"}, row \in Row, item \in 0..MaxItems :
            /\ Writing(at, row, item) \in WriterType
            /\ Writing(at, row, item).at = at
            /\ Writing(at, row, item).new = row
            /\ Writing(at, row, item).old = item
            /\ Writing(at, row, item).victims = writer.victims
            /\ Writing(at, row, item).todo = writer.todo
    <2>1. writer \in WriterType
      BY DEF WriterType, WellFormed, TypeOK
    <2> QED BY <2>1 DEF Writing, WriterType
  <1>5. QED
    BY <1>0, <1>3, <1>4

\* Nothing in hand.
LEMMA IdleForm ==
    /\ Idle \in WriterType
    /\ Idle.at = "idle" /\ Idle.old = 0 /\ Idle.victims = {}
  BY MemoryAssumption DEF Idle, WriterType

\* What is left of an eviction.
LEMMA EvictedForm ==
    ASSUME WellFormed, NEW i
    PROVE  /\ Evicted(i) \in WriterType
           /\ Evicted(i).at \in {"idle", "evict"}
           /\ Evicted(i).old = 0
           /\ Evicted(i).victims \subseteq writer.victims
  <1> DEFINE left == writer.victims \ {i}
  <1>1. left \in SUBSET Item
    BY DEF WellFormed, TypeOK
  <1>2. [Idle EXCEPT !.at = "evict", !.victims = left] \in WriterType
    BY <1>1, IdleForm DEF WriterType
  <1>3. QED
    BY <1>1, <1>2, IdleForm DEF Evicted, WriterType

\* Handlers and what they know, as one of them moves on.
LEMMA HandlersForm ==
    ASSUME WellFormed, NEW h \in Handler, NEW new \in HandlerType
    PROVE  /\ [handlers EXCEPT ![h] = new] \in [Handler -> HandlerType]
           /\ \A g \in Handler :
                 [handlers EXCEPT ![h] = new][g] = IF g = h THEN new ELSE handlers[g]
  BY DEF WellFormed, TypeOK, HandlerType

LEMMA TypeParts ==
    TypeOK <=> /\ rows \in [Item -> Row \cup {Absent}]
               /\ supersedes \in [Item -> 0..MaxItems]
               /\ inserted \in 0..MaxItems
               /\ expired \subseteq Item
               /\ writer \in WriterType
               /\ handlers \in [Handler -> HandlerType]
               /\ proofs \subseteq Item /\ out \subseteq Item
               /\ confirmed \subseteq Item /\ contested \subseteq Item
               /\ requests \in 0..MaxRequests
               /\ crashes \in 0..MaxCrashes
  BY DEF TypeOK, WriterType, HandlerType

-----------------------------------------------------------------------------
(* The writer keeps the form *)

LEMMA StartPersistForm == ASSUME WellFormed, StartPersist PROVE WellFormed'
  <1> USE DEF WellFormed, StartPersist
  <1>1. PICK todo \in {<<c>> : c \in Candidate} \cup (Candidate \X Candidate) :
            /\ inserted + Len(todo) <= MaxItems
            /\ writer' = [Idle EXCEPT !.at = "list", !.todo = todo]
    OBVIOUS
  <1>2. todo \in Seq(Candidate) /\ todo # <<>>
    <2>1. CASE todo \in {<<c>> : c \in Candidate}
      <3>1. PICK c \in Candidate : todo = <<c>>
        BY <2>1
      <3>2. QED BY <3>1
    <2>2. CASE todo \in Candidate \X Candidate
      <3>1. PICK c \in Candidate, d \in Candidate : todo = <<c, d>>
        BY <2>2
      <3>2. QED BY <3>1
    <2>3. QED BY <2>1, <2>2
  <1>3. /\ writer' \in WriterType /\ writer'.at = "list" /\ writer'.todo = todo
        /\ writer'.old = 0 /\ writer'.victims = {}
    BY <1>1, <1>2, IdleForm DEF WriterType
  <1>4. rows' \in [Item -> Row \cup {Absent}] /\ \A i \in Item : rows[i] = Absent => rows'[i] = Absent
    BY TypeParts
  <1>5. TypeOK'
    BY <1>3, <1>4, TypeParts DEF TypeOK, WriterType
  <1>6. CopiesAreRows'
    BY <1>3 DEF CopiesAreRows
  <1>7. ItemsAreInserted'
    <2>1. inserted \in Nat
      BY TypeParts
    <2> QED BY <1>3, <1>4, <2>1, TypeParts DEF ItemsAreInserted
  <1>8. RoomIsLeft'
    BY <1>1, <1>2, <1>3 DEF RoomIsLeft
  <1>9. QED BY <1>5, <1>6, <1>7, <1>8

LEMMA CompareForm ==
    ASSUME WellFormed, Compare
    PROVE  WellFormed' /\ writer'.at \in {"list", "count", "insert", "read"}
  <1>1. /\ writer.at = "list" /\ writer.todo # <<>>
        /\ inserted + Len(writer.todo) <= MaxItems
        /\ writer.todo \in Seq(Candidate)
        /\ inserted \in Nat /\ MaxItems \in Nat
    BY MemoryAssumption DEF WellFormed, Compare, RoomIsLeft, TypeOK
  <1> DEFINE c == Head(writer.todo)
  <1>2. c \in Candidate /\ Len(writer.todo) \in Nat \ {0}
    BY <1>1, TailOfTodo
  <1> HIDE DEF c
  <1>3. \/ writer' = Next1
        \/ \E old \in {0} \cup Recalled : writer' = Plan(c, old)
    BY DEF Compare, c
  <1>4. \A i \in Recalled : i \in Item /\ i <= inserted
    BY <1>1 DEF Recalled, Live, Exists, WellFormed, ItemsAreInserted, Item
  <1>5. UNCHANGED <<rows, supersedes, inserted, expired, handlers, proofs, requests,
                    crashes, out, confirmed, contested>>
    BY DEF Compare
  <1>6. CASE writer' = Next1
    <2>1. /\ writer' \in WriterType
          /\ writer'.at \in {"list", "count"} /\ writer'.old = 0 /\ writer'.victims = {}
          /\ writer'.at = "list" => writer'.todo # <<>>
          /\ Len(writer'.todo) = Len(writer.todo) - 1
      BY <1>1, <1>6, Next1IsWriter
    <2>2. TypeOK'
      BY <1>5, <2>1 DEF TypeOK, WriterType, WellFormed
    <2>3. CopiesAreRows'
      BY <1>5, <2>1 DEF CopiesAreRows, WellFormed
    <2>4. ItemsAreInserted'
      BY <1>1, <1>5, <2>1 DEF ItemsAreInserted, WellFormed
    <2>5. RoomIsLeft'
      BY <1>1, <1>2, <1>5, <2>1 DEF RoomIsLeft
    <2>6. QED BY <2>1, <2>2, <2>3, <2>4, <2>5 DEF WellFormed
  <1>7. CASE \E old \in {0} \cup Recalled : writer' = Plan(c, old)
    <2>1. PICK old \in {0} \cup Recalled : writer' = Plan(c, old)
      BY <1>7
    <2>2. old \in {0} \cup Item
      BY <1>4
    <2>3. /\ writer' \in WriterType
          /\ writer'.at \in {"insert", "read"}
          /\ writer'.at = "read" => writer'.old # 0
          /\ writer'.old \in {0, old}
          /\ writer'.new \in Row
          /\ writer'.victims = writer.victims /\ writer'.todo = writer.todo
      BY <1>1, <1>2, <2>1, <2>2, PlanIsWriter
    <2>4. TypeOK'
      BY <1>5, <2>3 DEF TypeOK, WriterType, WellFormed
    <2>5. CopiesAreRows'
      BY <1>5, <2>3 DEF CopiesAreRows, WellFormed
    <2>6. ItemsAreInserted'
      BY <1>1, <1>4, <1>5, <2>3 DEF ItemsAreInserted, WellFormed
    <2>7. RoomIsLeft'
      BY <1>1, <1>5, <2>3 DEF RoomIsLeft
    <2>8. QED BY <2>3, <2>4, <2>5, <2>6, <2>7 DEF WellFormed
  <1>8. QED BY <1>3, <1>6, <1>7

LEMMA ReadOldForm == ASSUME WellFormed, ReadOld PROVE WellFormed'
  <1>1. writer.at = "read" /\ writer.old \in Item /\ writer.new \in Row
    BY MemoryAssumption DEF WellFormed, CopiesAreRows, TypeOK, ReadOld, Item
  <1>2. rows[writer.old] # Absent => rows[writer.old] \in Row
    BY <1>1 DEF WellFormed, TypeOK
  <1>3. /\ writer' \in WriterType
        /\ writer'.at \in {"write", "insert"}
        /\ writer'.at = "write" => writer'.copy \in Row
        /\ writer'.new = writer.new /\ writer'.old = writer.old
        /\ writer'.victims = writer.victims /\ writer'.todo = writer.todo
    BY <1>1, <1>2 DEF WellFormed, TypeOK, ReadOld, WriterType, Exists
  <1>4. UNCHANGED <<rows, supersedes, inserted, expired, handlers, proofs, requests,
                    crashes, out, confirmed, contested>>
    BY DEF ReadOld
  <1>5. TypeOK'
    BY <1>3, <1>4 DEF TypeOK, WriterType, WellFormed
  <1>6. CopiesAreRows'
    BY <1>1, <1>3, <1>4, MemoryAssumption DEF CopiesAreRows, WellFormed, Item
  <1>7. ItemsAreInserted'
    BY <1>3, <1>4 DEF ItemsAreInserted, WellFormed
  <1>8. RoomIsLeft'
    BY <1>1, <1>3, <1>4 DEF RoomIsLeft, WellFormed
  <1>9. QED BY <1>5, <1>6, <1>7, <1>8 DEF WellFormed

LEMMA WriteOldForm == ASSUME WellFormed, WriteOld PROVE WellFormed'
  <1>1. /\ writer.at = "write" /\ writer.old \in Item /\ writer.new \in Row
        /\ writer.copy \in Row /\ writer.old <= inserted
    BY MemoryAssumption
    DEF WellFormed, CopiesAreRows, ItemsAreInserted, TypeOK, WriteOld, Item
  <1>2. /\ rows' \in [Item -> Row \cup {Absent}]
        /\ \A i \in Item : rows[i] = Absent => rows'[i] = Absent
    BY <1>1, RowsStayRows, StoredRows DEF WellFormed, WriteOld
  <1>3. /\ writer' \in WriterType /\ writer'.at = "insert"
        /\ writer'.new = writer.new /\ writer'.old = writer.old
        /\ writer'.victims = writer.victims /\ writer'.todo = writer.todo
    BY DEF WellFormed, TypeOK, WriteOld, WriterType
  <1>4. /\ out' = out \cup {writer.old}
        /\ UNCHANGED <<supersedes, inserted, expired, handlers, proofs, requests,
                       crashes, confirmed, contested>>
    BY DEF WriteOld
  <1>5. TypeOK'
    BY <1>1, <1>2, <1>3, <1>4 DEF TypeOK, WriterType, WellFormed
  <1>6. CopiesAreRows'
    BY <1>1, <1>3, <1>4 DEF CopiesAreRows, WellFormed
  <1>7. ItemsAreInserted'
    BY <1>1, <1>2, <1>3, <1>4 DEF ItemsAreInserted, WellFormed
  <1>8. RoomIsLeft'
    BY <1>1, <1>3, <1>4 DEF RoomIsLeft, WellFormed
  <1>9. QED BY <1>5, <1>6, <1>7, <1>8 DEF WellFormed

LEMMA InsertForm ==
    ASSUME WellFormed, Insert
    PROVE  /\ WellFormed'
           /\ inserted + 1 \in Item
           /\ writer.new \in Row
  <1>1. /\ writer.at = "insert" /\ writer.new \in Row
        /\ writer.todo # <<>> /\ writer.todo \in Seq(Candidate)
        /\ inserted + Len(writer.todo) <= MaxItems
        /\ inserted \in Nat /\ MaxItems \in Nat
        /\ writer.old \in 0..MaxItems
    BY MemoryAssumption DEF WellFormed, CopiesAreRows, RoomIsLeft, TypeOK, Insert
  <1>2. Len(writer.todo) \in Nat \ {0}
    BY <1>1, TailOfTodo
  <1>3. inserted + 1 \in Item /\ inserted + 1 \in 0..MaxItems
    BY <1>1, <1>2 DEF Item
  <1>4. /\ writer' \in WriterType
        /\ writer'.at \in {"list", "count"} /\ writer'.old = 0 /\ writer'.victims = {}
        /\ writer'.at = "list" => writer'.todo # <<>>
        /\ Len(writer'.todo) = Len(writer.todo) - 1
    BY <1>1, Next1IsWriter DEF Insert
  <1>5. /\ rows' = [rows EXCEPT ![inserted + 1] = writer.new]
        /\ supersedes' = [supersedes EXCEPT ![inserted + 1] = writer.old]
        /\ inserted' = inserted + 1
        /\ out' \subseteq out \cup {inserted + 1}
        /\ UNCHANGED <<expired, handlers, proofs, requests, crashes, confirmed, contested>>
    BY DEF Insert
  <1>6. TypeOK'
    <2>1. rows' \in [Item -> Row \cup {Absent}] /\ supersedes' \in [Item -> 0..MaxItems]
      BY <1>1, <1>3, <1>5 DEF WellFormed, TypeOK
    <2>2. out' \subseteq Item
      BY <1>3, <1>5 DEF WellFormed, TypeOK
    <2> QED BY <1>3, <1>4, <1>5, <2>1, <2>2 DEF TypeOK, WriterType, WellFormed
  <1>7. CopiesAreRows'
    BY <1>4, <1>5 DEF CopiesAreRows, WellFormed
  <1>8. ItemsAreInserted'
    <2>1. \A i \in Item : i > inserted' => rows'[i] = Absent
      <3>1. \A i \in Item : i > inserted + 1 => i # inserted + 1 /\ i > inserted
        BY <1>1 DEF Item
      <3> QED BY <1>5, <3>1 DEF WellFormed, TypeOK, ItemsAreInserted
    <2>2. \A i \in out' \cup proofs' : i <= inserted'
      <3>1. \A i \in out \cup proofs : i \in Int /\ i <= inserted
        BY DEF WellFormed, TypeOK, ItemsAreInserted, Item
      <3>2. \A i \in out \cup proofs \cup {inserted + 1} : i <= inserted + 1
        BY <1>1, <3>1
      <3>3. QED BY <1>5, <3>2
    <2>3. \A h \in Handler : handlers'[h].item <= inserted'
      BY <1>1, <1>5 DEF WellFormed, TypeOK, ItemsAreInserted
    <2> QED BY <1>1, <1>4, <1>5, <2>1, <2>2, <2>3 DEF ItemsAreInserted
  <1>9. RoomIsLeft'
    BY <1>1, <1>2, <1>4, <1>5 DEF RoomIsLeft
  <1>10. QED BY <1>1, <1>3, <1>6, <1>7, <1>8, <1>9 DEF WellFormed

LEMMA CountLiveForm == ASSUME WellFormed, CountLive PROVE WellFormed'
  <1>1. PICK victims \in Victims(Live) :
            writer' = IF victims = {} THEN Idle
                      ELSE [Idle EXCEPT !.at = "evict", !.victims = victims]
    BY DEF CountLive
  <1>2. victims \subseteq Live
    BY DEF Victims
  <1>3. victims \in SUBSET Item /\ \A i \in victims : i <= inserted
    BY <1>2 DEF Live, Exists, WellFormed, ItemsAreInserted, TypeOK, Item
  <1>4. [Idle EXCEPT !.at = "evict", !.victims = victims] \in WriterType
    BY <1>3, IdleForm DEF WriterType
  <1>5. /\ writer' \in WriterType /\ writer'.at \in {"idle", "evict"}
        /\ writer'.old = 0 /\ \A i \in writer'.victims : i <= inserted
    BY <1>1, <1>3, <1>4, IdleForm DEF WriterType
  <1>6. UNCHANGED <<rows, supersedes, inserted, expired, handlers, proofs, requests,
                    crashes, out, confirmed, contested>>
    BY DEF CountLive
  <1>7. TypeOK'
    BY <1>5, <1>6 DEF TypeOK, WriterType, WellFormed
  <1>8. CopiesAreRows'
    BY <1>5, <1>6 DEF CopiesAreRows, WellFormed
  <1>9. ItemsAreInserted'
    BY <1>5, <1>6 DEF ItemsAreInserted, WellFormed, TypeOK
  <1>10. RoomIsLeft'
    BY <1>5 DEF RoomIsLeft
  <1>11. QED BY <1>7, <1>8, <1>9, <1>10 DEF WellFormed

LEMMA ReadVictimForm == ASSUME WellFormed, ReadVictim PROVE WellFormed'
  <1>1. PICK i \in writer.victims :
            writer' = IF Exists(i)
                      THEN [writer EXCEPT !.at = "evicting", !.old = i, !.copy = rows[i]]
                      ELSE Evicted(i)
    BY DEF ReadVictim
  <1>2. i \in Item /\ i \in 0..MaxItems /\ i # 0 /\ i <= inserted
    BY MemoryAssumption DEF WellFormed, TypeOK, ItemsAreInserted, Item
  <1>3. UNCHANGED <<rows, supersedes, inserted, expired, handlers, proofs, requests,
                    crashes, out, confirmed, contested>>
    BY DEF ReadVictim
  <1>4. /\ writer' \in WriterType /\ writer'.at \in {"evicting", "evict", "idle"}
        /\ writer'.old \in {0, i}
        /\ writer'.at = "evicting" => writer'.copy \in Row /\ writer'.old = i
        /\ writer'.victims \subseteq writer.victims
    <2>1. CASE Exists(i)
      <3>1. rows[i] \in Row
        BY <1>2, <2>1 DEF Exists, WellFormed, TypeOK
      <3>2. writer' = [writer EXCEPT !.at = "evicting", !.old = i, !.copy = rows[i]]
        BY <1>1, <2>1
      <3>3. QED
        BY <1>2, <3>1, <3>2 DEF WellFormed, TypeOK, WriterType
    <2>2. CASE ~Exists(i)
      BY <1>1, <2>2, EvictedForm
    <2>3. QED BY <2>1, <2>2
  <1>5. TypeOK'
    BY <1>3, <1>4 DEF TypeOK, WriterType, WellFormed
  <1>6. CopiesAreRows'
    BY <1>2, <1>3, <1>4 DEF CopiesAreRows, WellFormed
  <1>7. ItemsAreInserted'
    <2>1. 0 <= inserted
      BY DEF WellFormed, TypeOK
    <2>2. writer'.old <= inserted
      BY <1>2, <1>4, <2>1
    <2> QED BY <1>3, <1>4, <2>2 DEF ItemsAreInserted, WellFormed
  <1>8. RoomIsLeft'
    BY <1>4 DEF RoomIsLeft
  <1>9. QED BY <1>5, <1>6, <1>7, <1>8 DEF WellFormed

LEMMA EvictForm == ASSUME WellFormed, Evict PROVE WellFormed'
  <1>1. /\ writer.at = "evicting" /\ writer.old \in Item
        /\ writer.copy \in Row /\ writer.old <= inserted
    BY MemoryAssumption
    DEF WellFormed, CopiesAreRows, ItemsAreInserted, TypeOK, Evict, Item
  <1>2. /\ rows' \in [Item -> Row \cup {Absent}]
        /\ \A i \in Item : rows[i] = Absent => rows'[i] = Absent
    BY <1>1, RowsStayRows, StoredRows DEF WellFormed, Evict
  <1>3. /\ writer' \in WriterType /\ writer'.at \in {"idle", "evict"}
        /\ writer'.old = 0 /\ writer'.victims \subseteq writer.victims
    BY EvictedForm DEF Evict
  <1>4. /\ out' = out \cup {writer.old}
        /\ UNCHANGED <<supersedes, inserted, expired, handlers, proofs, requests,
                       crashes, confirmed, contested>>
    BY DEF Evict
  <1>5. TypeOK'
    BY <1>1, <1>2, <1>3, <1>4 DEF TypeOK, WriterType, WellFormed
  <1>6. CopiesAreRows'
    BY <1>3, <1>4 DEF CopiesAreRows, WellFormed
  <1>7. ItemsAreInserted'
    BY <1>1, <1>2, <1>3, <1>4 DEF ItemsAreInserted, WellFormed, TypeOK
  <1>8. RoomIsLeft'
    BY <1>3 DEF RoomIsLeft
  <1>9. QED BY <1>5, <1>6, <1>7, <1>8 DEF WellFormed

-----------------------------------------------------------------------------
(* So do the handlers *)

LEMMA RequestForm ==
    ASSUME WellFormed, NEW h \in Handler, NEW verdict \in Verdict, NEW i \in Item,
           Request(h, verdict, i)
    PROVE  WellFormed'
  <1> DEFINE new == [at |-> "write", verdict |-> verdict, item |-> i, copy |-> rows[i]]
  <1>1. i \in 0..MaxItems /\ i # 0 /\ i <= inserted /\ rows[i] \in Row
    <2>1. i \in 0..MaxItems /\ i # 0 /\ i \in Int /\ inserted \in Int
      BY MemoryAssumption DEF Item, WellFormed, TypeOK
    <2>2. rows[i] # Absent /\ rows[i] \in Row
      BY DEF Request, Exists, WellFormed, TypeOK
    <2>3. i <= inserted
      BY <2>1, <2>2 DEF WellFormed, ItemsAreInserted
    <2>4. QED BY <2>1, <2>2, <2>3
  <1>2. new \in HandlerType
    BY <1>1 DEF HandlerType
  <1>3. /\ handlers' = [handlers EXCEPT ![h] = new]
        /\ requests < MaxRequests /\ requests' = requests + 1
        /\ confirmed' \subseteq confirmed \cup {i}
        /\ UNCHANGED <<rows, supersedes, inserted, expired, writer, proofs, crashes,
                       out, contested>>
    BY DEF Request
  <1>4. /\ new.at = "write" /\ new.item = i /\ new.copy = rows[i]
    OBVIOUS
  <1> HIDE DEF new
  <1>5. /\ handlers' \in [Handler -> HandlerType]
        /\ \A g \in Handler : handlers'[g] = IF g = h THEN new ELSE handlers[g]
    BY <1>2, <1>3, HandlersForm
  <1>6. TypeOK'
    <2>1. requests' \in 0..MaxRequests
      BY <1>3, MemoryAssumption DEF WellFormed, TypeOK
    <2> QED BY <1>3, <1>5, <2>1 DEF TypeOK, HandlerType, WellFormed
  <1>7. CopiesAreRows'
    BY <1>1, <1>3, <1>4, <1>5 DEF CopiesAreRows, WellFormed
  <1>8. ItemsAreInserted'
    BY <1>1, <1>3, <1>4, <1>5 DEF ItemsAreInserted, WellFormed
  <1>9. RoomIsLeft'
    BY <1>3 DEF RoomIsLeft, WellFormed
  <1>10. QED BY <1>6, <1>7, <1>8, <1>9 DEF WellFormed

\* What becomes of the row when a handler writes.
Decided(verdict, row) ==
    CASE verdict = "confirm" -> Confirmed(row)
      [] verdict = "reject" -> Deprecated(row)
      [] verdict = "delete" -> Tombstoned(row)

LEMMA WriteVerdictStep ==
    ASSUME WellFormed, NEW h \in Handler, WriteVerdict(h)
    PROVE  /\ handlers[h].at = "write" /\ handlers[h].item \in Item
           /\ handlers[h].item <= inserted /\ handlers[h].item # 0
           /\ handlers[h].copy \in Row /\ handlers[h].verdict \in Verdict
           /\ rows' = Stored(handlers[h].item, Decided(handlers[h].verdict, handlers[h].copy))
           /\ handlers' \in [Handler -> HandlerType]
           /\ \A g \in Handler : g # h => handlers'[g] = handlers[g]
           /\ handlers'[h].at = "event" /\ handlers'[h].item = handlers[h].item
           /\ handlers'[h].verdict = handlers[h].verdict
  <1>1. /\ handlers[h].at = "write" /\ handlers[h].item \in Item
        /\ handlers[h].item <= inserted /\ handlers[h].item # 0
        /\ handlers[h].copy \in Row /\ handlers[h].verdict \in Verdict
    BY MemoryAssumption
    DEF WellFormed, TypeOK, CopiesAreRows, ItemsAreInserted, WriteVerdict, Item
  <1>2. rows' = Stored(handlers[h].item, Decided(handlers[h].verdict, handlers[h].copy))
    <2>1. CASE handlers[h].verdict = "confirm"
      BY <2>1 DEF WriteVerdict, Decided
    <2>2. CASE handlers[h].verdict = "reject"
      BY <2>2 DEF WriteVerdict, Decided
    <2>3. CASE handlers[h].verdict = "delete"
      BY <2>3 DEF WriteVerdict, Decided
    <2>4. QED BY <1>1, <2>1, <2>2, <2>3 DEF Verdict
  <1>3. handlers' = [handlers EXCEPT ![h].at = "event", ![h].copy = Absent]
    BY DEF WriteVerdict
  <1>4. /\ handlers' \in [Handler -> HandlerType]
        /\ \A g \in Handler : g # h => handlers'[g] = handlers[g]
        /\ handlers'[h].at = "event" /\ handlers'[h].item = handlers[h].item
        /\ handlers'[h].verdict = handlers[h].verdict
    BY <1>3 DEF WellFormed, TypeOK, HandlerType
  <1>5. QED BY <1>1, <1>2, <1>4

LEMMA DecidedRow ==
    ASSUME NEW verdict \in Verdict, NEW row \in Row
    PROVE  /\ Decided(verdict, row) \in Row
           /\ verdict # "confirm" => Decided(verdict, row).deprecated
           /\ verdict = "delete" => Decided(verdict, row).content = Tombstone
           /\ Decided(verdict, row).content \in {row.content, Tombstone}
  <1>1. CASE verdict = "confirm"
    BY <1>1, RowsStayRows DEF Decided
  <1>2. CASE verdict = "reject"
    BY <1>2, RowsStayRows DEF Decided
  <1>3. CASE verdict = "delete"
    BY <1>3, RowsStayRows DEF Decided
  <1>4. QED BY <1>1, <1>2, <1>3 DEF Verdict

LEMMA WriteVerdictForm ==
    ASSUME WellFormed, NEW h \in Handler, WriteVerdict(h)
    PROVE  WellFormed'
  <1> DEFINE i == handlers[h].item
  <1>1. /\ i \in Item /\ i <= inserted /\ i # 0
        /\ rows' \in [Item -> Row \cup {Absent}]
        /\ \A j \in Item : rows[j] = Absent => rows'[j] = Absent
    <2>1. Decided(handlers[h].verdict, handlers[h].copy) \in Row
      BY WriteVerdictStep, DecidedRow
    <2> QED BY <2>1, WriteVerdictStep, StoredRows DEF WellFormed
  <1>2. /\ handlers' \in [Handler -> HandlerType]
        /\ \A g \in Handler : g # h => handlers'[g] = handlers[g]
        /\ handlers'[h].at = "event" /\ handlers'[h].item = i
    BY WriteVerdictStep
  <1>3. /\ out' \subseteq out \cup {i} /\ contested' \subseteq contested \cup {i}
        /\ UNCHANGED <<supersedes, inserted, expired, writer, proofs, requests, crashes,
                       confirmed>>
    <2>1. handlers[h].verdict \in Verdict
      BY WriteVerdictStep
    <2>2. CASE handlers[h].verdict = "confirm"
      BY <2>2 DEF WriteVerdict
    <2>3. CASE handlers[h].verdict = "reject"
      BY <2>3 DEF WriteVerdict
    <2>4. CASE handlers[h].verdict = "delete"
      BY <2>4 DEF WriteVerdict
    <2>5. QED BY <2>1, <2>2, <2>3, <2>4 DEF Verdict
  <1> HIDE DEF i
  <1>4. TypeOK'
    BY <1>1, <1>2, <1>3 DEF TypeOK, HandlerType, WellFormed
  <1>5. CopiesAreRows'
    BY <1>1, <1>2, <1>3 DEF CopiesAreRows, WellFormed
  <1>6. ItemsAreInserted'
    BY <1>1, <1>2, <1>3 DEF ItemsAreInserted, WellFormed
  <1>7. RoomIsLeft'
    BY <1>3 DEF RoomIsLeft, WellFormed
  <1>8. QED BY <1>4, <1>5, <1>6, <1>7 DEF WellFormed

\* The end of a request, with or without its event.
LEMMA RecordForm ==
    ASSUME WellFormed, NEW h \in Handler, Record(h) \/ RecordFails(h)
    PROVE  WellFormed'
  <1>1. NoRequest \in HandlerType /\ NoRequest.at = "idle" /\ NoRequest.item = 0
    BY MemoryAssumption DEF NoRequest, HandlerType, Verdict
  <1>2. /\ handlers' = [handlers EXCEPT ![h] = NoRequest]
        /\ proofs' \subseteq proofs \cup {handlers[h].item}
        /\ handlers[h].at = "event"
        /\ UNCHANGED <<rows, supersedes, inserted, expired, writer, requests, crashes,
                       out, confirmed, contested>>
    BY DEF Record, RecordFails
  <1>3. /\ handlers' \in [Handler -> HandlerType]
        /\ \A g \in Handler : handlers'[g] = IF g = h THEN NoRequest ELSE handlers[g]
    BY <1>1, <1>2, HandlersForm
  <1>4. handlers[h].item \in Item /\ handlers[h].item <= inserted /\ 0 <= inserted
    BY <1>2, MemoryAssumption DEF WellFormed, TypeOK, CopiesAreRows, ItemsAreInserted, Item
  <1>5. TypeOK'
    BY <1>2, <1>3, <1>4 DEF TypeOK, HandlerType, WellFormed
  <1>6. CopiesAreRows'
    BY <1>1, <1>2, <1>3 DEF CopiesAreRows, WellFormed
  <1>7. ItemsAreInserted'
    BY <1>1, <1>2, <1>3, <1>4 DEF ItemsAreInserted, WellFormed
  <1>8. RoomIsLeft'
    BY <1>2 DEF RoomIsLeft, WellFormed
  <1>9. QED BY <1>5, <1>6, <1>7, <1>8 DEF WellFormed

LEMMA ExpireForm == ASSUME WellFormed, NEW i \in Item, Expire(i) PROVE WellFormed'
  BY DEF Expire, WellFormed, TypeOK, CopiesAreRows, ItemsAreInserted, RoomIsLeft

LEMMA CrashForm == ASSUME WellFormed, Crash PROVE WellFormed'
  <1>1. NoRequest \in HandlerType /\ NoRequest.at = "idle" /\ NoRequest.item = 0
    BY MemoryAssumption DEF NoRequest, HandlerType, Verdict
  <1>2. /\ writer' = Idle /\ handlers' = [h \in Handler |-> NoRequest]
        /\ crashes' \in 0..MaxCrashes
        /\ UNCHANGED <<rows, supersedes, inserted, expired, proofs, requests, out,
                       confirmed, contested>>
    BY MemoryAssumption DEF Crash, WellFormed, TypeOK
  <1>3. TypeOK'
    BY <1>1, <1>2, IdleForm DEF TypeOK, WriterType, HandlerType, WellFormed
  <1>4. CopiesAreRows'
    BY <1>1, <1>2, IdleForm DEF CopiesAreRows
  <1>5. ItemsAreInserted'
    <2>1. 0 <= inserted
      BY DEF WellFormed, TypeOK
    <2> QED BY <1>1, <1>2, <2>1, IdleForm DEF ItemsAreInserted, WellFormed
  <1>6. RoomIsLeft'
    BY <1>2, IdleForm DEF RoomIsLeft
  <1>7. QED BY <1>3, <1>4, <1>5, <1>6 DEF WellFormed

LEMMA UnchangedForm == ASSUME WellFormed, UNCHANGED vars PROVE WellFormed'
  BY DEF vars, WellFormed, TypeOK, CopiesAreRows, ItemsAreInserted, RoomIsLeft

LEMMA StepForm == ASSUME WellFormed, [Next]_vars PROVE WellFormed'
  <1>1. CASE Writer
    BY <1>1, StartPersistForm, CompareForm, ReadOldForm, WriteOldForm, InsertForm,
       CountLiveForm, ReadVictimForm, EvictForm DEF Writer
  <1>2. CASE \E h \in Handler, verdict \in Verdict, i \in Item : Request(h, verdict, i)
    BY <1>2, RequestForm
  <1>3. CASE \E h \in Handler : WriteVerdict(h) \/ Record(h) \/ RecordFails(h)
    BY <1>3, WriteVerdictForm, RecordForm
  <1>4. CASE \E i \in Item : Expire(i)
    BY <1>4, ExpireForm
  <1>5. CASE Crash
    BY <1>5, CrashForm
  <1>6. CASE UNCHANGED vars
    BY <1>6, UnchangedForm
  <1>7. QED BY <1>1, <1>2, <1>3, <1>4, <1>5, <1>6 DEF Next

LEMMA InitForm == ASSUME Init PROVE WellFormed
  <1>1. NoRequest \in HandlerType /\ NoRequest.at = "idle" /\ NoRequest.item = 0
    BY MemoryAssumption DEF NoRequest, HandlerType, Verdict
  <1>2. TypeOK
    BY <1>1, IdleForm, MemoryAssumption DEF Init, TypeOK, WriterType, HandlerType
  <1>3. CopiesAreRows
    BY <1>1, IdleForm DEF Init, CopiesAreRows
  <1>4. ItemsAreInserted
    BY <1>1, IdleForm DEF Init, ItemsAreInserted
  <1>5. RoomIsLeft
    BY IdleForm DEF Init, RoomIsLeft
  <1>6. QED BY <1>2, <1>3, <1>4, <1>5 DEF WellFormed

\* The rows, the copies and the numbers of items keep their form, for the writer
\* and the handlers of item_store.py in any order.
THEOREM TypeCorrectness == Spec => []TypeOK
  <1>1. Spec => []WellFormed
    BY InitForm, StepForm, PTL DEF Spec
  <1>2. WellFormed => TypeOK
    BY DEF WellFormed
  <1>3. QED BY <1>1, <1>2, PTL

-----------------------------------------------------------------------------
(* What is out comes back by a confirmation only *)

\* A write of a row that is deprecated, or of one that was confirmed.
LEMMA OutRows ==
    ASSUME WellFormed, OutStaysOut,
           NEW i \in Item, NEW row \in Row, row.deprecated \/ i \in confirmed,
           rows' = Stored(i, row), out' \subseteq out \cup {i},
           confirmed \subseteq confirmed'
    PROVE  \A j \in out' \ confirmed' :
               rows'[j] # Absent => rows'[j].pending \/ rows'[j].deprecated
  <1> SUFFICES ASSUME NEW j \in out', j \notin confirmed', rows'[j] # Absent
               PROVE  rows'[j].pending \/ rows'[j].deprecated
    OBVIOUS
  <1>1. j \in Item
    BY DEF WellFormed, TypeOK
  <1>2. CASE j = i
    BY <1>1, <1>2, StoredRows DEF WellFormed
  <1>3. CASE j # i
    BY <1>1, <1>3, StoredRows DEF WellFormed, OutStaysOut
  <1>4. QED BY <1>2, <1>3

LEMMA StepOut == ASSUME WellFormed, OutStaysOut, [Next]_vars PROVE OutStaysOut'
  <1>1. CASE StartPersist
    BY <1>1 DEF StartPersist, OutStaysOut, WellFormed, TypeOK
  <1>2. CASE Compare \/ ReadOld \/ CountLive \/ ReadVictim \/ UNCHANGED vars
    BY <1>2 DEF Compare, ReadOld, CountLive, ReadVictim, vars, OutStaysOut
  <1>3. CASE WriteOld \/ Evict
    <2>1. writer.old \in Item /\ writer.copy \in Row
      BY <1>3, MemoryAssumption
      DEF WriteOld, Evict, WellFormed, CopiesAreRows, TypeOK, Item
    <2>2. /\ rows' = Stored(writer.old, Deprecated(writer.copy))
          /\ out' = out \cup {writer.old}
          /\ UNCHANGED <<handlers, confirmed>>
      BY <1>3 DEF WriteOld, Evict
    <2>3. \A j \in out' \ confirmed' :
              rows'[j] # Absent => rows'[j].pending \/ rows'[j].deprecated
      BY <2>1, <2>2, RowsStayRows, OutRows
    <2>4. QED BY <2>2, <2>3 DEF OutStaysOut
  <1>4. CASE Insert
    <2>1. inserted + 1 \in Item /\ writer.new \in Row
      BY <1>4, InsertForm
    <2>2. /\ rows' = [rows EXCEPT ![inserted + 1] = writer.new]
          /\ out' = IF writer.new.pending THEN out \cup {inserted + 1} ELSE out
          /\ UNCHANGED <<handlers, confirmed>>
      BY <1>4 DEF Insert
    <2>3. inserted + 1 \notin out
      BY DEF WellFormed, ItemsAreInserted, TypeOK
    <2>4. \A j \in out' \ confirmed' :
              rows'[j] # Absent => rows'[j].pending \/ rows'[j].deprecated
      <3> SUFFICES ASSUME NEW j \in out', j \notin confirmed, rows'[j] # Absent
                   PROVE  rows'[j].pending \/ rows'[j].deprecated
        BY <2>2
      <3>1. CASE j = inserted + 1
        BY <2>1, <2>2, <2>3, <3>1 DEF WellFormed, TypeOK
      <3>2. CASE j # inserted + 1
        BY <2>1, <2>2, <3>2 DEF WellFormed, TypeOK, OutStaysOut
      <3>3. QED BY <3>1, <3>2
    <2>5. QED BY <2>2, <2>4 DEF OutStaysOut
  <1>5. ASSUME NEW h \in Handler, NEW verdict \in Verdict, NEW i \in Item,
               Request(h, verdict, i)
        PROVE  OutStaysOut'
    <2>1. /\ UNCHANGED <<rows, out>> /\ confirmed \subseteq confirmed'
          /\ verdict = "confirm" => i \in confirmed'
          /\ handlers' = [handlers EXCEPT ![h] =
                [at |-> "write", verdict |-> verdict, item |-> i, copy |-> rows[i]]]
      BY <1>5 DEF Request
    <2>2. \A g \in Handler :
              IF g = h THEN handlers'[g].verdict = verdict /\ handlers'[g].item = i
                       ELSE handlers'[g] = handlers[g]
      BY <2>1 DEF WellFormed, TypeOK
    <2>3. QED BY <2>1, <2>2 DEF OutStaysOut
  <1>6. ASSUME NEW h \in Handler, WriteVerdict(h) PROVE OutStaysOut'
    <2> DEFINE i == handlers[h].item
               row == Decided(handlers[h].verdict, handlers[h].copy)
    <2>1. /\ i \in Item /\ row \in Row /\ rows' = Stored(i, row)
          /\ handlers[h].verdict # "confirm" => row.deprecated
          /\ handlers[h].at = "write" /\ handlers[h].verdict \in Verdict
      BY <1>6, WriteVerdictStep, DecidedRow
    <2>2. row.deprecated \/ i \in confirmed
      BY <2>1 DEF OutStaysOut
    <2>3. out' \subseteq out \cup {i} /\ confirmed' = confirmed
      <3>1. CASE handlers[h].verdict = "confirm"
        BY <1>6, <3>1 DEF WriteVerdict
      <3>2. CASE handlers[h].verdict = "reject"
        BY <1>6, <3>2 DEF WriteVerdict
      <3>3. CASE handlers[h].verdict = "delete"
        BY <1>6, <3>3 DEF WriteVerdict
      <3>4. QED BY <2>1, <3>1, <3>2, <3>3 DEF Verdict
    <2> HIDE DEF i, row
    <2>4. \A j \in out' \ confirmed' :
              rows'[j] # Absent => rows'[j].pending \/ rows'[j].deprecated
      BY <2>1, <2>2, <2>3, OutRows
    <2>5. \A g \in Handler : handlers'[g].at = "write" => handlers'[g] = handlers[g]
      BY <1>6, WriteVerdictStep
    <2>6. QED BY <2>3, <2>4, <2>5 DEF OutStaysOut
  <1>7. ASSUME NEW h \in Handler, Record(h) \/ RecordFails(h) PROVE OutStaysOut'
    <2>1. /\ UNCHANGED <<rows, out, confirmed>>
          /\ handlers' = [handlers EXCEPT ![h] = NoRequest]
      BY <1>7 DEF Record, RecordFails
    <2>2. \A g \in Handler : handlers'[g].at = "write" => handlers'[g] = handlers[g]
      BY <2>1 DEF NoRequest, WellFormed, TypeOK
    <2>3. QED BY <2>1, <2>2 DEF OutStaysOut
  <1>8. ASSUME NEW i \in Item, Expire(i) PROVE OutStaysOut'
    BY <1>8 DEF Expire, OutStaysOut
  <1>9. CASE Crash
    BY <1>9 DEF Crash, NoRequest, OutStaysOut
  <1>10. QED
    BY <1>1, <1>2, <1>3, <1>4, <1>5, <1>6, <1>7, <1>8, <1>9 DEF Next, Writer

\* An item that was pending, superseded, evicted, rejected or deleted is recalled
\* only after a confirmation of it was requested: the stale writes of deprecate,
\* delete_with_tombstone and the writer never bring one back.
THEOREM ConfirmationActivates == Spec => []OnlyConfirmActivates
  <1>1. Init => WellFormed /\ OutStaysOut
    <2>1. Init => OutStaysOut
      BY DEF Init, OutStaysOut, NoRequest
    <2> QED BY <2>1, InitForm
  <1>2. WellFormed /\ OutStaysOut /\ [Next]_vars => (WellFormed /\ OutStaysOut)'
    BY StepForm, StepOut
  <1>3. WellFormed /\ OutStaysOut => OnlyConfirmActivates
    BY DEF OutStaysOut, OnlyConfirmActivates, Recalled, Live, Exists
  <1>4. QED BY <1>1, <1>2, <1>3, PTL DEF Spec

-----------------------------------------------------------------------------
(* What is deleted is gone *)

\* What a handler or the writer writes of a row without its text has no text.
LEMMA TombstonesStay ==
    ASSUME WellFormed, NEW i \in Item, NEW row \in Row, rows' = Stored(i, row),
           NEW j \in Item, rows[j] # Absent => rows[j].content = Tombstone,
           i = j => row.content = Tombstone
    PROVE  rows'[j] # Absent => rows'[j].content = Tombstone
  <1>1. CASE j = i
    BY <1>1, StoredRows DEF WellFormed
  <1>2. CASE j # i
    BY <1>2, StoredRows DEF WellFormed
  <1>3. QED BY <1>1, <1>2

LEMMA DeletedAreItems ==
    ASSUME WellFormed, NEW j \in Deleted
    PROVE  j \in Item /\ j <= inserted
  <1>1. CASE j \in proofs
    BY <1>1 DEF WellFormed, TypeOK, ItemsAreInserted
  <1>2. CASE \E h \in Handler : HasDeleted(h) /\ j = handlers[h].item
    BY <1>2, MemoryAssumption
    DEF WellFormed, TypeOK, CopiesAreRows, ItemsAreInserted, HasDeleted, Item
  <1>3. QED BY <1>1, <1>2 DEF Deleted

\* The writer takes a copy where it reads one, and nowhere else.
LEMMA WriterTakes ==
    ASSUME WellFormed, StartPersist \/ Compare \/ CountLive \/ WriteOld \/ Insert \/ Evict
    PROVE  \A j : ~HeldByWriter(j)'
  <1>1. CASE StartPersist
    <2>1. PICK todo : writer' = [Idle EXCEPT !.at = "list", !.todo = todo]
      BY <1>1 DEF StartPersist
    <2>2. QED BY <2>1, IdleForm DEF HeldByWriter, WriterType
  <1>2. CASE Compare
    BY <1>2, CompareForm DEF HeldByWriter
  <1>3. CASE CountLive
    <2>1. PICK victims : writer' = IF victims = {} THEN Idle
                                   ELSE [Idle EXCEPT !.at = "evict", !.victims = victims]
      BY <1>3 DEF CountLive
    <2>2. writer'.at \in {"idle", "evict"}
      BY <2>1, IdleForm DEF WriterType
    <2>3. QED BY <2>2 DEF HeldByWriter
  <1>4. CASE WriteOld
    <2>1. writer' = [writer EXCEPT !.at = "insert", !.copy = Absent]
      BY <1>4 DEF WriteOld
    <2>2. writer'.at = "insert"
      BY <2>1 DEF WellFormed, TypeOK
    <2>3. QED BY <2>2 DEF HeldByWriter
  <1>5. CASE Insert
    <2>1. writer.todo # <<>> /\ writer' = Next1
      BY <1>5 DEF Insert, WellFormed, RoomIsLeft
    <2>2. writer'.at \in {"list", "count"}
      BY <2>1, Next1IsWriter
    <2>3. QED BY <2>2 DEF HeldByWriter
  <1>6. CASE Evict
    <2>1. writer'.at \in {"idle", "evict"}
      BY <1>6, EvictedForm DEF Evict
    <2>2. QED BY <2>1 DEF HeldByWriter
  <1>7. QED BY <1>1, <1>2, <1>3, <1>4, <1>5, <1>6

LEMMA StepDeleted ==
    ASSUME WellFormed, DeletedIsTombstone, [Next]_vars
    PROVE  DeletedIsTombstone'
  <1> SUFFICES ASSUME NEW j \in Deleted', j \notin contested'
               PROVE  /\ rows'[j] # Absent => rows'[j].content = Tombstone
                      /\ \A h \in Handler :
                            handlers'[h].at = "write" /\ handlers'[h].item = j =>
                                handlers'[h].copy.content = Tombstone
                      /\ HeldByWriter(j)' => writer'.copy.content = Tombstone
    BY DEF DeletedIsTombstone
  <1> DEFINE KnownRow == rows[j] # Absent => rows[j].content = Tombstone
             KnownCopies == \A h \in Handler :
                handlers[h].at = "write" /\ handlers[h].item = j =>
                    handlers[h].copy.content = Tombstone
             KnownWriter == HeldByWriter(j) => writer.copy.content = Tombstone
  <1>1. j \in Deleted /\ j \notin contested =>
            j \in Item /\ j <= inserted /\ KnownRow /\ KnownCopies /\ KnownWriter
    BY DeletedAreItems DEF DeletedIsTombstone
  <1>2. UNCHANGED <<proofs, handlers>> => Deleted' = Deleted
    BY DEF Deleted, HasDeleted
  <1> HIDE DEF KnownRow, KnownCopies, KnownWriter
  <1>3. CASE StartPersist \/ Compare \/ CountLive \/ ReadOld \/ ReadVictim \/ UNCHANGED vars
    <2>1. UNCHANGED <<handlers, contested, proofs>>
      BY <1>3 DEF StartPersist, Compare, CountLive, ReadOld, ReadVictim, vars
    <2>2. j \in Item /\ KnownRow /\ KnownCopies /\ KnownWriter
      BY <1>1, <1>2, <2>1
    <2>3. rows'[j] \in {rows[j], Absent}
      BY <1>3, <2>2 DEF StartPersist, Compare, CountLive, ReadOld, ReadVictim, vars
    <2>4. HeldByWriter(j)' => writer'.copy.content = Tombstone
      <3>1. CASE StartPersist \/ Compare \/ CountLive
        BY <3>1, WriterTakes
      <3>2. CASE ReadOld
        <4>1. writer \in WriterType
          BY TypeParts DEF WellFormed
        <4>2. CASE rows[writer.old] = Absent
          <5>1. writer'.at = "insert"
            BY <3>2, <4>1, <4>2 DEF ReadOld, Exists, WriterType
          <5>2. QED BY <5>1 DEF HeldByWriter
        <4>3. CASE rows[writer.old] # Absent
          <5>1. writer'.old = writer.old /\ writer'.copy = rows[writer.old]
            BY <3>2, <4>1, <4>3 DEF ReadOld, Exists, WriterType
          <5>2. QED BY <2>2, <4>3, <5>1 DEF HeldByWriter, KnownRow
        <4>4. QED BY <4>2, <4>3
      <3>3. CASE ReadVictim
        <4>1. writer \in WriterType
          BY TypeParts DEF WellFormed
        <4>2. PICK i \in writer.victims :
                  writer' = IF Exists(i)
                    THEN [writer EXCEPT !.at = "evicting", !.old = i, !.copy = rows[i]]
                    ELSE Evicted(i)
          BY <3>3 DEF ReadVictim
        <4>3. CASE ~Exists(i)
          BY <4>2, <4>3, EvictedForm DEF HeldByWriter
        <4>4. CASE Exists(i)
          <5>1. writer'.old = i /\ writer'.copy = rows[i] /\ rows[i] # Absent
            BY <4>1, <4>2, <4>4 DEF Exists, WriterType
          <5>2. QED BY <2>2, <5>1 DEF HeldByWriter, KnownRow
        <4>5. QED BY <4>3, <4>4
      <3>4. CASE UNCHANGED vars
        BY <2>2, <3>4 DEF vars, HeldByWriter, KnownWriter
      <3>5. QED BY <1>3, <3>1, <3>2, <3>3, <3>4
    <2>5. QED BY <2>1, <2>2, <2>3, <2>4 DEF KnownRow, KnownCopies
  <1>4. CASE WriteOld \/ Evict
    <2>1. UNCHANGED <<handlers, contested, proofs>>
      BY <1>4 DEF WriteOld, Evict
    <2>2. j \in Item /\ KnownRow /\ KnownCopies /\ KnownWriter
      BY <1>1, <1>2, <2>1
    <2>3. /\ writer.old \in Item /\ writer.copy \in Row
          /\ writer.at \in {"write", "evicting"}
          /\ rows' = Stored(writer.old, Deprecated(writer.copy))
      BY <1>4, MemoryAssumption
      DEF WriteOld, Evict, WellFormed, CopiesAreRows, TypeOK, Item
    <2>4. j = writer.old => Deprecated(writer.copy).content = Tombstone
      BY <2>2, <2>3, RowsStayRows DEF KnownWriter, HeldByWriter
    <2>5. rows'[j] # Absent => rows'[j].content = Tombstone
      BY <2>2, <2>3, <2>4, RowsStayRows, TombstonesStay DEF KnownRow
    <2>6. ~HeldByWriter(j)'
      BY <1>4, WriterTakes
    <2>7. QED BY <2>1, <2>2, <2>5, <2>6 DEF KnownCopies
  <1>5. CASE Insert
    <2>1. UNCHANGED <<handlers, contested, proofs>>
      BY <1>5 DEF Insert
    <2>2. j \in Item /\ j <= inserted /\ KnownRow /\ KnownCopies
      BY <1>1, <1>2, <2>1
    <2>3. j # inserted + 1
      BY <2>2, MemoryAssumption DEF Item, WellFormed, TypeOK
    <2>4. rows'[j] = rows[j]
      BY <1>5, <2>2, <2>3 DEF Insert, WellFormed, TypeOK
    <2>5. ~HeldByWriter(j)'
      BY <1>5, WriterTakes
    <2>6. QED BY <2>1, <2>2, <2>4, <2>5 DEF KnownRow, KnownCopies
  <1>6. ASSUME NEW h \in Handler, NEW verdict \in Verdict, NEW i \in Item,
               Request(h, verdict, i)
        PROVE  /\ rows'[j] # Absent => rows'[j].content = Tombstone
               /\ \A g \in Handler :
                     handlers'[g].at = "write" /\ handlers'[g].item = j =>
                         handlers'[g].copy.content = Tombstone
               /\ HeldByWriter(j)' => writer'.copy.content = Tombstone
    <2>1. /\ handlers[h].at = "idle" /\ rows[i] # Absent
          /\ handlers' = [handlers EXCEPT ![h] =
                [at |-> "write", verdict |-> verdict, item |-> i, copy |-> rows[i]]]
          /\ UNCHANGED <<rows, proofs, contested, writer>>
      BY <1>6 DEF Request, Exists
    <2>2. /\ handlers'[h].at = "write" /\ handlers'[h].item = i /\ handlers'[h].copy = rows[i]
          /\ \A g \in Handler : g # h => handlers'[g] = handlers[g]
      BY <2>1 DEF WellFormed, TypeOK
    <2>3. j \in Deleted
      BY <2>1, <2>2 DEF Deleted, HasDeleted
    <2>4. KnownRow /\ KnownCopies /\ KnownWriter
      BY <1>1, <2>1, <2>3
    <2>5. QED BY <2>1, <2>2, <2>4 DEF KnownRow, KnownCopies, KnownWriter, HeldByWriter
  <1>7. ASSUME NEW h \in Handler, WriteVerdict(h)
        PROVE  /\ rows'[j] # Absent => rows'[j].content = Tombstone
               /\ \A g \in Handler :
                     handlers'[g].at = "write" /\ handlers'[g].item = j =>
                         handlers'[g].copy.content = Tombstone
               /\ HeldByWriter(j)' => writer'.copy.content = Tombstone
    <2> DEFINE i == handlers[h].item
               row == Decided(handlers[h].verdict, handlers[h].copy)
    <2>1. /\ i \in Item /\ row \in Row /\ rows' = Stored(i, row)
          /\ handlers[h].verdict = "delete" => row.content = Tombstone
          /\ row.content \in {handlers[h].copy.content, Tombstone}
          /\ handlers[h].at = "write" /\ handlers[h].verdict \in Verdict
          /\ \A g \in Handler : g # h => handlers'[g] = handlers[g]
          /\ handlers'[h].at = "event" /\ handlers'[h].item = i
          /\ handlers'[h].verdict = handlers[h].verdict
      BY <1>7, WriteVerdictStep, DecidedRow
    <2>2. /\ UNCHANGED <<writer, proofs>> /\ contested \subseteq contested'
          /\ handlers[h].verdict = "delete" /\ i \notin contested' =>
                Held(i) = {h} /\ ~HeldByWriter(i)
      <3>1. UNCHANGED <<writer, proofs>>
        BY <1>7 DEF WriteVerdict
      <3>2. CASE handlers[h].verdict = "confirm"
        BY <1>7, <3>1, <3>2 DEF WriteVerdict
      <3>3. CASE handlers[h].verdict = "reject"
        BY <1>7, <3>1, <3>3 DEF WriteVerdict
      <3>4. CASE handlers[h].verdict = "delete"
        BY <1>7, <3>1, <3>4 DEF WriteVerdict
      <3>5. QED BY <2>1, <3>2, <3>3, <3>4 DEF Verdict
    <2> HIDE DEF row
    <2>3. CASE j = i /\ handlers[h].verdict = "delete"
      <3>1. Held(j) = {h} /\ ~HeldByWriter(j)
        BY <2>2, <2>3
      <3>2. rows'[j] # Absent => rows'[j].content = Tombstone
        BY <2>1, <2>3, StoredRows DEF WellFormed
      <3>3. \A g \in Handler : ~(handlers'[g].at = "write" /\ handlers'[g].item = j)
        BY <2>1, <3>1 DEF Held
      <3>4. ~HeldByWriter(j)'
        BY <2>2, <3>1 DEF HeldByWriter
      <3>5. QED BY <3>2, <3>3, <3>4
    <2>4. CASE ~(j = i /\ handlers[h].verdict = "delete")
      <3>1. j \in Deleted
        BY <2>1, <2>2, <2>4 DEF Deleted, HasDeleted
      <3>2. j \in Item /\ KnownRow /\ KnownCopies /\ KnownWriter
        BY <1>1, <2>2, <3>1
      <3>3. j = i => row.content = Tombstone
        BY <2>1, <3>2 DEF KnownCopies
      <3>4. rows'[j] # Absent => rows'[j].content = Tombstone
        BY <2>1, <3>2, <3>3, TombstonesStay DEF KnownRow
      <3>5. QED
        BY <2>1, <2>2, <3>2, <3>4 DEF KnownCopies, KnownWriter, HeldByWriter
    <2>5. QED BY <2>3, <2>4
  <1>8. ASSUME NEW h \in Handler, Record(h) \/ RecordFails(h)
        PROVE  /\ rows'[j] # Absent => rows'[j].content = Tombstone
               /\ \A g \in Handler :
                     handlers'[g].at = "write" /\ handlers'[g].item = j =>
                         handlers'[g].copy.content = Tombstone
               /\ HeldByWriter(j)' => writer'.copy.content = Tombstone
    <2>1. /\ UNCHANGED <<rows, writer, contested>>
          /\ handlers' = [handlers EXCEPT ![h] = NoRequest]
          /\ handlers[h].at = "event"
          /\ proofs' \subseteq proofs \cup
                (IF handlers[h].verdict = "delete" THEN {handlers[h].item} ELSE {})
      BY <1>8 DEF Record, RecordFails
    <2>2. /\ handlers'[h].at = "idle"
          /\ \A g \in Handler : g # h => handlers'[g] = handlers[g]
      BY <2>1 DEF NoRequest, WellFormed, TypeOK
    <2>3. j \in Deleted
      BY <2>1, <2>2 DEF Deleted, HasDeleted
    <2>4. KnownRow /\ KnownCopies /\ KnownWriter
      BY <1>1, <2>1, <2>3
    <2>5. QED BY <2>1, <2>2, <2>4 DEF KnownRow, KnownCopies, KnownWriter, HeldByWriter
  <1>9. CASE \E i \in Item : Expire(i)
    <2>1. UNCHANGED <<rows, writer, handlers, contested, proofs>>
      BY <1>9 DEF Expire
    <2>2. KnownRow /\ KnownCopies /\ KnownWriter
      BY <1>1, <1>2, <2>1
    <2>3. QED BY <2>1, <2>2 DEF KnownRow, KnownCopies, KnownWriter, HeldByWriter
  <1>10. CASE Crash
    <2>1. /\ UNCHANGED <<rows, contested, proofs>> /\ writer' = Idle
          /\ \A g \in Handler : handlers'[g] = NoRequest
      BY <1>10 DEF Crash
    <2>2. j \in Deleted
      BY <2>1 DEF Deleted, HasDeleted, NoRequest
    <2>3. QED
      BY <1>1, <2>1, <2>2, IdleForm DEF KnownRow, HeldByWriter, NoRequest
  <1>11. QED
    BY <1>3, <1>4, <1>5, <1>6, <1>7, <1>8, <1>9, <1>10 DEF Next, Writer

\* Once the proof of a deletion is stored, the row of an item that nobody else
\* held at that moment is a tombstone for ever, although confirm_item and
\* deprecate write back whole rows.
THEOREM DeletionIsFinal == Spec => []DeletedTextIsGone
  <1>1. Init => WellFormed /\ DeletedIsTombstone
    <2>1. Init => Deleted = {}
      BY DEF Init, Deleted, HasDeleted, NoRequest
    <2>2. Init => DeletedIsTombstone
      BY <2>1 DEF DeletedIsTombstone
    <2>3. QED BY <2>2, InitForm
  <1>2. WellFormed /\ DeletedIsTombstone /\ [Next]_vars => (WellFormed /\ DeletedIsTombstone)'
    BY StepForm, StepDeleted
  <1>3. WellFormed /\ DeletedIsTombstone => DeletedTextIsGone
    BY DEF DeletedIsTombstone, Deleted, DeletedTextIsGone, Exists
  <1>4. QED BY <1>1, <1>2, <1>3, PTL DEF Spec

-----------------------------------------------------------------------------
(* The number of items.  Between the count and the end of an eviction no     *)
(* item comes, so that the live items which are not to be evicted are as     *)
(* many as allowed at that time and become fewer since.                      *)

\* The live items that the writer does not mean to evict.
Staying == Live \ writer.victims

EnoughRoom ==
    \/ Cardinality(Staying) <= Keep
    \/ \A i \in Staying : rows[i].content \in Protected

\* Without a confirmation no item comes back.
NoneComesBack ==
    crashes = 0 /\ confirmed = {} /\ writer.at \in {"idle", "evict", "evicting"}
        => EnoughRoom

CapacityInv ==
    /\ WellFormed /\ OutStaysOut
    /\ writer.at = "idle" => writer.victims = {}
    /\ NoneComesBack

LEMMA LiveIsFinite ==
    IsFiniteSet(Live) /\ Cardinality(Live) \in Nat
  <1>1. IsFiniteSet(1..MaxItems)
    BY FS_Interval, MemoryAssumption
  <1>2. IsFiniteSet(Live)
    BY <1>1, FS_Subset DEF Live, Item
  <1> QED BY <1>2, FS_CardinalityType

\* There is room for fewer items with the same texts.
LEMMA RoomStays ==
    ASSUME EnoughRoom, Staying' \subseteq Staying,
           \A i \in Staying' : rows'[i].content = rows[i].content
    PROVE  EnoughRoom'
  <1>1. CASE Cardinality(Staying) <= Keep
    <2>1. IsFiniteSet(Staying)
      BY LiveIsFinite, FS_Difference DEF Staying
    <2>2. /\ IsFiniteSet(Staying') /\ Cardinality(Staying') <= Cardinality(Staying)
          /\ Cardinality(Staying') \in Nat /\ Cardinality(Staying) \in Nat
      BY <2>1, FS_Subset, FS_CardinalityType
    <2> QED BY <1>1, <2>2, MemoryAssumption DEF EnoughRoom
  <1>2. CASE \A i \in Staying : rows[i].content \in Protected
    BY <1>2 DEF EnoughRoom
  <1> QED BY <1>1, <1>2 DEF EnoughRoom

\* evict_lowest_score chooses enough victims, if there are enough.
LEMMA VictimsMakeRoom ==
    ASSUME NEW victims \in Victims(Live)
    PROVE  \/ Cardinality(Live \ victims) <= Keep
           \/ \A i \in Live \ victims : rows[i].content \in Protected
  <1> DEFINE open == {i \in Live : rows[i].content \notin Protected}
             excess == Cardinality(Live) - Keep
  <1>1. /\ victims \subseteq open
        /\ Cardinality(victims) = IF excess <= 0 THEN 0
                                  ELSE IF excess < Cardinality(open) THEN excess
                                  ELSE Cardinality(open)
    BY DEF Victims
  <1>2. /\ IsFiniteSet(open) /\ Cardinality(open) \in Nat
        /\ IsFiniteSet(victims) /\ Cardinality(victims) \in Nat
        /\ Cardinality(victims) = Cardinality(open) => victims = open
    <2>1. IsFiniteSet(open) /\ Cardinality(open) \in Nat
      BY LiveIsFinite, FS_Subset, FS_CardinalityType
    <2> QED BY <1>1, <2>1, FS_Subset, FS_CardinalityType
  <1>3. Cardinality(Live \ victims) = Cardinality(Live) - Cardinality(victims)
    <2>1. Live \cap victims = victims
      BY <1>1
    <2> QED BY <2>1, LiveIsFinite, FS_Difference
  <1>4. CASE victims = open
    BY <1>4
  <1>5. CASE victims # open
    <2> HIDE DEF open
    <2> QED BY <1>1, <1>2, <1>3, <1>5, LiveIsFinite, MemoryAssumption
  <1> QED BY <1>4, <1>5

\* A write of a row that is deprecated leaves the other live items.
LEMMA DeprecatedLeaves ==
    ASSUME WellFormed, NEW i \in Item, NEW row \in Row, row.deprecated,
           rows' = Stored(i, row)
    PROVE  Live' = Live \ {i} /\ \A j \in Live' : rows'[j] = rows[j]
  <1>1. /\ rows'[i] \in {row, Absent}
        /\ \A j \in Item : j # i => rows'[j] = rows[j]
    BY StoredRows DEF WellFormed
  <1> QED BY <1>1 DEF Live, Exists

LEMMA StepCapacity ==
    ASSUME CapacityInv, [Next]_vars
    PROVE  (writer.at = "idle" => writer.victims = {})' /\ NoneComesBack'
  <1> USE DEF CapacityInv
  <1>0. WellFormed
    OBVIOUS
  <1>1. ASSUME writer' = writer,
               \A i \in Live' : rows'[i] = rows[i],
               confirmed \subseteq confirmed', crashes' = crashes, Live' \subseteq Live
        PROVE  (writer.at = "idle" => writer.victims = {})' /\ NoneComesBack'
    <2>1. Staying' \subseteq Staying
      BY <1>1 DEF Staying
    <2> QED BY <1>1, <2>1, RoomStays DEF NoneComesBack, Staying
  <1>2. CASE StartPersist
    <2>1. writer'.at = "list"
      BY <1>2 DEF StartPersist, Idle
    <2> QED BY <2>1 DEF NoneComesBack
  <1>3. CASE Compare
    BY <1>3, CompareForm DEF NoneComesBack
  <1>4. CASE ReadOld \/ WriteOld
    <2>1. writer'.at \in {"write", "insert"}
      BY <1>4 DEF ReadOld, WriteOld, WellFormed, TypeOK
    <2> QED BY <2>1 DEF NoneComesBack
  <1>5. CASE Insert
    <2>1. writer'.at \in {"list", "count"}
      BY <1>5, InsertForm, Next1IsWriter DEF Insert, WellFormed, RoomIsLeft
    <2> QED BY <2>1 DEF NoneComesBack
  <1>6. CASE CountLive
    <2>1. PICK victims \in Victims(Live) :
              writer' = IF victims = {} THEN Idle
                        ELSE [Idle EXCEPT !.at = "evict", !.victims = victims]
      BY <1>6 DEF CountLive
    <2>2. rows' = rows
      BY <1>6 DEF CountLive
    <2>3. writer'.victims = victims /\ writer'.at = IF victims = {} THEN "idle" ELSE "evict"
      BY <2>1 DEF Idle
    <2>4. Staying' = Live \ victims
      BY <2>2, <2>3 DEF Staying, Live, Exists
    <2>5. EnoughRoom'
      BY <2>2, <2>4, VictimsMakeRoom DEF EnoughRoom
    <2> QED BY <2>3, <2>5 DEF NoneComesBack
  <1>7. CASE ReadVictim
    <2>1. PICK i \in writer.victims :
              writer' = IF Exists(i)
                        THEN [writer EXCEPT !.at = "evicting", !.old = i, !.copy = rows[i]]
                        ELSE Evicted(i)
      BY <1>7 DEF ReadVictim
    <2>2. /\ writer.at = "evict" /\ UNCHANGED <<rows, crashes, confirmed>>
      BY <1>7 DEF ReadVictim
    <2>3. CASE Exists(i)
      <3>1. writer'.victims = writer.victims /\ writer'.at = "evicting"
        BY <2>1, <2>3 DEF WellFormed, TypeOK
      <3> QED BY <2>2, <3>1 DEF NoneComesBack, EnoughRoom, Staying, Live, Exists
    <2>4. CASE ~Exists(i)
      <3>1. /\ writer'.victims = writer.victims \ {i}
            /\ writer'.at = IF writer.victims \ {i} = {} THEN "idle" ELSE "evict"
        BY <2>1, <2>4 DEF Evicted, Idle
      <3>2. Staying' = Staying
        BY <2>2, <2>4, <3>1 DEF Staying, Live, Exists
      <3> QED BY <2>2, <3>1, <3>2 DEF NoneComesBack, EnoughRoom
    <2> QED BY <2>3, <2>4
  <1>8. CASE Evict
    <2>1. writer.old \in Item /\ writer.copy \in Row
      BY <1>8, MemoryAssumption DEF Evict, WellFormed, CopiesAreRows, TypeOK, Item
    <2>2. /\ rows' = Stored(writer.old, Deprecated(writer.copy))
          /\ writer.at = "evicting" /\ UNCHANGED <<crashes, confirmed>>
          /\ writer'.victims = writer.victims \ {writer.old}
          /\ writer'.at = IF writer.victims \ {writer.old} = {} THEN "idle" ELSE "evict"
      BY <1>8 DEF Evict, Evicted, Idle
    <2>3. Live' = Live \ {writer.old} /\ \A j \in Live' : rows'[j] = rows[j]
      BY <2>1, <2>2, RowsStayRows, DeprecatedLeaves
    <2>4. Staying' \subseteq Staying /\ \A j \in Staying' : rows'[j] = rows[j]
      BY <2>2, <2>3 DEF Staying
    <2>5. EnoughRoom => EnoughRoom'
      BY <2>4, RoomStays
    <2> QED BY <2>2, <2>5 DEF NoneComesBack
  <1>9. ASSUME NEW h \in Handler, NEW verdict \in Verdict, NEW i \in Item,
               Request(h, verdict, i)
        PROVE  (writer.at = "idle" => writer.victims = {})' /\ NoneComesBack'
    <2>1. UNCHANGED <<rows, crashes, writer>> /\ confirmed \subseteq confirmed'
      BY <1>9 DEF Request
    <2> QED BY <2>1, <1>1 DEF Live, Exists
  <1>10. ASSUME NEW h \in Handler, WriteVerdict(h)
         PROVE  (writer.at = "idle" => writer.victims = {})' /\ NoneComesBack'
    <2> DEFINE i == handlers[h].item
               row == Decided(handlers[h].verdict, handlers[h].copy)
    <2>1. /\ i \in Item /\ row \in Row /\ rows' = Stored(i, row)
          /\ handlers[h].verdict # "confirm" => row.deprecated
          /\ handlers[h].at = "write"
      BY <1>10, WriteVerdictStep, DecidedRow
    <2>2. UNCHANGED <<writer, crashes, confirmed>>
      BY <1>10 DEF WriteVerdict
    <2>3. CASE confirmed = {}
      <3>1. row.deprecated
        BY <2>1, <2>3 DEF OutStaysOut
      <3> HIDE DEF i, row
      <3>2. Live' \subseteq Live /\ \A j \in Live' : rows'[j] = rows[j]
        BY <2>1, <3>1, DeprecatedLeaves
      <3> QED BY <2>2, <3>2, <1>1
    <2>4. CASE confirmed # {}
      BY <2>2, <2>4 DEF NoneComesBack
    <2> QED BY <2>3, <2>4
  <1>11. ASSUME NEW h \in Handler, Record(h) \/ RecordFails(h)
         PROVE  (writer.at = "idle" => writer.victims = {})' /\ NoneComesBack'
    <2>1. UNCHANGED <<rows, crashes, confirmed, writer>>
      BY <1>11 DEF Record, RecordFails
    <2> QED BY <2>1, <1>1 DEF Live, Exists
  <1>12. CASE (\E i \in Item : Expire(i)) \/ UNCHANGED vars
    <2>1. UNCHANGED <<rows, crashes, confirmed, writer>>
      BY <1>12 DEF Expire, vars
    <2> QED BY <2>1, <1>1 DEF Live, Exists
  <1>13. CASE Crash
    <2>1. writer' = Idle /\ crashes' = crashes + 1 /\ crashes \in Nat
      BY <1>13, MemoryAssumption DEF Crash, WellFormed, TypeOK
    <2> QED BY <2>1, IdleForm DEF NoneComesBack
  <1> QED
    BY <1>2, <1>3, <1>4, <1>5, <1>6, <1>7, <1>8, <1>9, <1>10, <1>11, <1>12, <1>13
    DEF Next, Writer

\* When the writer is done, evict_lowest_score has brought the live items down to
\* long_term_max_items_per_user or to protected ones, and the writes of handlers
\* that come between its count and its last write have not undone it, for every
\* number of items and handlers.
THEOREM CapacityIsKept == Spec => []CapacityHolds
  <1>1. Init => CapacityInv
    <2> SUFFICES ASSUME Init PROVE CapacityInv
      OBVIOUS
    <2>1. WellFormed /\ OutStaysOut
      BY InitForm DEF Init, OutStaysOut, NoRequest
    <2>2. writer.victims = {}
      BY DEF Init, Idle
    <2>3. Live = {}
      BY DEF Init, Live, Exists
    <2>4. EnoughRoom
      BY <2>3 DEF EnoughRoom, Staying
    <2> QED BY <2>1, <2>2, <2>4 DEF CapacityInv, NoneComesBack
  <1>2. CapacityInv /\ [Next]_vars => CapacityInv'
    BY StepForm, StepOut, StepCapacity DEF CapacityInv
  <1>3. CapacityInv => CapacityHolds
    BY DEF CapacityInv, NoneComesBack, EnoughRoom, Staying, CapacityHolds
  <1>4. QED BY <1>1, <1>2, <1>3, PTL DEF Spec

=============================================================================
