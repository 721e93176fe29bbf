-------------------------- MODULE LocalStorageProofs --------------------------
(*****************************************************************************)
(* What the local storage of an account promises, for any slots, any number  *)
(* of changes and of stops.                                                  *)
(*                                                                           *)
(* A write passes through the inbox of the manager's thread, its queue and   *)
(* the entry being written before it is on the disk, and a newer one of the  *)
(* same file may meet it anywhere on the way. The invariant says what the    *)
(* last write of each file on the way is (FinalInv), that no key is ever     *)
(* another slot's (KeysInv), that a sync waits for all writes (SyncInv), and *)
(* that every content a slot could still get, from any map on the way and    *)
(* any write on the way to the file this map names, is one of those it held  *)
(* since it was last stored (RecentInv).                                     *)
(*                                                                           *)
(* The last part is about one of the files, and the three names it has.      *)
(*****************************************************************************)
EXTENDS AccountStorage, StoredFile, FiniteSetTheorems, SequenceTheorems, TLAPS

Key == FileKeys \union {NoKey}
KeyMap == [Slots -> Key]
Task == Entries \union {Scheduled, Sync}

-------------------------------------------------------------------------------
(* What is on its way to the disk *)

Writes(task, base) == IsEntry(task) /\ task.base = base
HasWrite(q, base) == \E i \in DOMAIN q : Writes(q[i], base)

\* The last write of the file base in the queue q, if there is one, writes v.
LastIs(q, base, v) ==
  \A i \in DOMAIN q :
    Writes(q[i], base) /\ (\A j \in DOMAIN q : j > i => ~Writes(q[j], base)) => q[i].content = v

OnDisk(base) == IF base = Map THEN mapFile ELSE files[base]

\* The file base will hold v once all that is on its way is written.
EndsAs(base, v) ==
  /\ LastIs(inbox, base, v)
  /\ ~HasWrite(inbox, base) => LastIs(scheduled, base, v)
  /\ ~HasWrite(inbox, base) /\ ~HasWrite(scheduled, base) =>
       IF Writes(current, base) THEN current.content = v ELSE OnDisk(base) = v

\* All the entries on their way, and all the maps a start may find.
OnTheWay == {e \in Queued \union {current} : IsEntry(e)}
Maps == {keyOf, mapFile} \union {e.content : e \in {x \in OnTheWay : x.base = Map}}

\* A file that is gone for good.
Dead(k) ==
  /\ k \in FileKeys
  /\ k <= lastKey
  /\ \A s \in Slots : keyOf[s] # k
  /\ files[k] = 0
  /\ \A e \in OnTheWay : e.base # k

-------------------------------------------------------------------------------
(* The invariant *)

QueueInv ==
  /\ inbox \in Seq(Task)
  /\ scheduled \in Seq(Entries)
  /\ contested \in BOOLEAN
  /\ current # Nothing => inbox # <<>> /\ ~IsEntry(Head(inbox))

CountInv == IsFiniteSet(dirty) /\ lastKey + Cardinality(dirty) <= version

KeysInv ==
  /\ \A m, n \in Maps :
       \A s, t \in Slots : m[s] = n[t] /\ m[s] # NoKey => s = t
  /\ \A m \in Maps : \A s \in Slots : m[s] <= lastKey
  /\ \A e \in OnTheWay : e.base = Map \/ e.base <= lastKey
  /\ \A k \in FileKeys : files[k] # 0 => k <= lastKey
  /\ \A k \in removing : k <= lastKey /\ \A s \in Slots : keyOf[s] # k
  /\ contested => current.base # Map /\ \A s \in Slots : keyOf[s] # current.base

\* What slot s ends as, and the map.
Settled(s) ==
  IF keyOf[s] = NoKey THEN Wanted(s) = 0 ELSE EndsAs(keyOf[s], data[s])
Agrees(m) == \A s \in Slots : m[s] = keyOf[s] \/ (keyOf[s] = NoKey /\ Dead(m[s]))
FinalInv ==
  /\ \A s \in Slots \ dirty : Settled(s)
  /\ \A s \in stale : keyOf[s] = NoKey
  /\ ~mapChanged => \E m \in KeyMap : EndsAs(Map, m) /\ Agrees(m)

SyncInv ==
  /\ state \in {"leaving", "finishing"} =>
       \E i \in DOMAIN inbox :
         inbox[i] = Sync /\ \A j \in DOMAIN inbox : j > i => inbox[j] = Scheduled
  /\ state \in {"up", "exiting"} => \A i \in DOMAIN inbox : inbox[i] # Sync
  /\ \A i, j \in DOMAIN inbox : inbox[i] = Sync /\ inbox[j] = Sync => i = j
  /\ state = "finishing" => dirty = {} /\ ~mapChanged
  /\ state = "leaving" => ~mapChanged /\ \A s \in Slots : keyOf[s] = NoKey

\* The set R has all that slot s may be found to hold.
Covers(R, s) ==
  /\ Wanted(s) \in R
  /\ \A m \in Maps :
       /\ m[s] = NoKey \/ m[s] # keyOf[s] => 0 \in R
       /\ m[s] # NoKey => files[m[s]] \in R /\
            \A e \in OnTheWay : e.base = m[s] => e.content \in R
RecentInv == \A s \in Slots : Covers(recent[s], s)

IInv ==
  /\ TypeOK /\ QueueInv /\ CountInv /\ KeysInv
  /\ FinalInv /\ SyncInv /\ RecentInv
-------------------------------------------------------------------------------
(* Tasks and queues *)

USE DEF NoKey

LEMMA TaskFacts ==
    /\ ~IsEntry(Scheduled) /\ ~IsEntry(Sync) /\ ~IsEntry(Nothing)
    /\ Scheduled # Sync
    /\ \A e \in Entries :
         /\ IsEntry(e) /\ e \in Task
         /\ \/ e.base \in FileKeys /\ e.content \in 1..MaxChanges
            \/ e.base = Map /\ e.content \in KeyMap
    /\ \A t \in Task : IsEntry(t) => t \in Entries
    /\ \A k \in FileKeys, c \in 1..MaxChanges : Entry(k, c) \in Entries
    /\ \A m \in KeyMap : Entry(Map, m) \in Entries
    /\ \A k, c : Entry(k, c).base = k /\ Entry(k, c).content = c
<1>1. Scheduled # Sync
  BY DEF Scheduled, Sync
<1>2. ~IsEntry(Scheduled) /\ ~IsEntry(Sync) /\ ~IsEntry(Nothing)
  BY DEF IsEntry
<1>3. ASSUME NEW e \in Entries PROVE IsEntry(e)
  <2>1. DOMAIN e = {"base", "content"}
    BY DEF Entries
  <2>2. DOMAIN Scheduled = {"task"} /\ DOMAIN Sync = {"task"} /\ DOMAIN Nothing = {"task"}
    BY DEF Scheduled, Sync, Nothing
  <2> QED
    BY <2>1, <2>2 DEF IsEntry
<1>4. ASSUME NEW e \in Entries
      PROVE  \/ e.base \in FileKeys /\ e.content \in 1..MaxChanges
             \/ e.base = Map /\ e.content \in KeyMap
  BY DEF Entries, KeyMap, Key
<1>5. \A t \in Task : IsEntry(t) => t \in Entries
  BY DEF Task, IsEntry
<1>6. \A k \in FileKeys, c \in 1..MaxChanges : Entry(k, c) \in Entries
  BY DEF Entry, Entries
<1>7. \A m \in KeyMap : Entry(Map, m) \in Entries
  BY DEF Entry, Entries, KeyMap, Key
<1>8. \A k, c : Entry(k, c).base = k /\ Entry(k, c).content = c
  BY DEF Entry
<1> QED
  BY <1>1, <1>2, <1>3, <1>4, <1>5, <1>6, <1>7, <1>8 DEF Task

LEMMA AppendFacts ==
    ASSUME NEW S, NEW q \in Seq(S), NEW t \in S
    PROVE  /\ Append(q, t) \in Seq(S) /\ Len(q) \in Nat
           /\ Len(Append(q, t)) = Len(q) + 1
           /\ DOMAIN q = 1..Len(q) /\ DOMAIN Append(q, t) = 1..(Len(q) + 1)
           /\ Append(q, t)[Len(q) + 1] = t
           /\ \A i \in DOMAIN q : Append(q, t)[i] = q[i]
           /\ Append(q, t) # <<>>
           /\ q # <<>> => Head(Append(q, t)) = Head(q)
  OBVIOUS

LEMMA TailFacts ==
    ASSUME NEW S, NEW q \in Seq(S), q # <<>>
    PROVE  /\ Tail(q) \in Seq(S) /\ Head(q) \in S /\ Len(q) \in Nat /\ Len(q) > 0
           /\ Head(q) = q[1] /\ Len(Tail(q)) = Len(q) - 1
           /\ DOMAIN q = 1..Len(q) /\ DOMAIN Tail(q) = 1..(Len(q) - 1)
           /\ \A i \in DOMAIN Tail(q) : Tail(q)[i] = q[i + 1]
  OBVIOUS

\* A task put at the end of a queue is the last of its file.
LEMMA AppendWrite ==
    ASSUME NEW S, NEW q \in Seq(S), NEW t \in S, NEW base, NEW v
    PROVE  /\ Writes(t, base) =>
                /\ HasWrite(Append(q, t), base)
                /\ LastIs(Append(q, t), base, t.content)
           /\ ~Writes(t, base) =>
                /\ HasWrite(Append(q, t), base) <=> HasWrite(q, base)
                /\ LastIs(q, base, v) => LastIs(Append(q, t), base, v)
<1> DEFINE p == Append(q, t)
<1>1. /\ Len(q) \in Nat /\ DOMAIN q = 1..Len(q) /\ DOMAIN p = 1..(Len(q) + 1)
      /\ p[Len(q) + 1] = t
      /\ \A i \in DOMAIN q : p[i] = q[i]
  BY AppendFacts
<1> HIDE DEF p
<1>2. ASSUME Writes(t, base) PROVE HasWrite(p, base) /\ LastIs(p, base, t.content)
  <2>1. HasWrite(p, base)
    BY <1>1, <1>2 DEF HasWrite
  <2>2. ASSUME NEW i \in DOMAIN p, \A j \in DOMAIN p : j > i => ~Writes(p[j], base)
        PROVE  i = Len(q) + 1
    BY <1>1, <1>2, <2>2
  <2> QED
    BY <1>1, <2>1, <2>2 DEF LastIs
<1>3. ASSUME ~Writes(t, base) PROVE HasWrite(p, base) <=> HasWrite(q, base)
  BY <1>1, <1>3 DEF HasWrite
<1>4. ASSUME ~Writes(t, base), LastIs(q, base, v) PROVE LastIs(p, base, v)
  <2> SUFFICES ASSUME NEW i \in DOMAIN p, Writes(p[i], base),
                      \A j \in DOMAIN p : j > i => ~Writes(p[j], base)
               PROVE  p[i].content = v
    BY DEF LastIs
  <2>1. i \in DOMAIN q /\ p[i] = q[i]
    BY <1>1, <1>4
  <2>2. \A j \in DOMAIN q : j > i => ~Writes(q[j], base)
    BY <1>1
  <2> QED
    BY <1>4, <2>1, <2>2 DEF LastIs
<1> QED
  BY <1>2, <1>3, <1>4 DEF p

\* A task taken from the front: what follows it stays, and it was the last only
\* if none follows.
LEMMA TailWrite ==
    ASSUME NEW S, NEW q \in Seq(S), q # <<>>, NEW base, NEW v, LastIs(q, base, v)
    PROVE  /\ LastIs(Tail(q), base, v)
           /\ HasWrite(q, base) <=> Writes(Head(q), base) \/ HasWrite(Tail(q), base)
           /\ Writes(Head(q), base) /\ ~HasWrite(Tail(q), base) => Head(q).content = v
<1> DEFINE p == Tail(q)
<1>1. /\ Len(q) \in Nat /\ Len(q) > 0 /\ Head(q) = q[1]
      /\ DOMAIN q = 1..Len(q) /\ DOMAIN p = 1..(Len(q) - 1)
      /\ \A i \in DOMAIN p : p[i] = q[i + 1]
  BY TailFacts
<1> HIDE DEF p
<1>2. \A i \in DOMAIN q : i = 1 \/ (i - 1 \in DOMAIN p /\ p[i - 1] = q[i])
  BY <1>1
<1>3. \A i \in DOMAIN p : i + 1 \in DOMAIN q /\ p[i] = q[i + 1]
  BY <1>1
<1>4. HasWrite(q, base) <=> Writes(Head(q), base) \/ HasWrite(p, base)
  <2>1. 1 \in DOMAIN q
    BY <1>1
  <2> QED
    BY <1>1, <1>2, <1>3, <2>1 DEF HasWrite
<1>5. LastIs(p, base, v)
  <2> SUFFICES ASSUME NEW i \in DOMAIN p, Writes(p[i], base),
                      \A j \in DOMAIN p : j > i => ~Writes(p[j], base)
               PROVE  p[i].content = v
    BY DEF LastIs
  <2>1. ASSUME NEW j \in DOMAIN q, j > i + 1 PROVE ~Writes(q[j], base)
    <3>1. j - 1 \in DOMAIN p /\ p[j - 1] = q[j] /\ j - 1 > i
      BY <1>1, <1>2, <2>1
    <3> QED
      BY <3>1
  <2> QED
    BY <1>3, <2>1 DEF LastIs
<1>6. ASSUME Writes(Head(q), base), ~HasWrite(p, base) PROVE Head(q).content = v
  <2>1. ASSUME NEW j \in DOMAIN q, j > 1 PROVE ~Writes(q[j], base)
    BY <1>1, <1>2, <1>6, <2>1 DEF HasWrite
  <2> QED
    BY <1>1, <1>6, <2>1 DEF LastIs
<1> QED
  BY <1>4, <1>5, <1>6 DEF p

\* An entry placed in the manager's queue is the only one of its file there.
Unique(q) == \A i, j \in DOMAIN q : q[i].base = q[j].base => i = j

LEMMA EntryWrites ==
    ASSUME NEW q \in Seq(Entries)
    PROVE  /\ DOMAIN q = 1..Len(q) /\ Len(q) \in Nat
           /\ \A i \in DOMAIN q : q[i] \in Entries /\ IsEntry(q[i])
           /\ \A i \in DOMAIN q : \A base : Writes(q[i], base) <=> q[i].base = base
  BY TaskFacts DEF Writes

LEMMA PlaceFacts ==
    ASSUME scheduled \in Seq(Entries), Unique(scheduled), NEW e \in Entries
    PROVE  /\ Place(e) \in Seq(Entries) /\ Unique(Place(e))
           /\ Place(e) # <<>>
           /\ \A i \in DOMAIN Place(e) : Place(e)[i] = e \/ \E j \in DOMAIN scheduled : Place(e)[i] = scheduled[j]
           /\ \A base : HasWrite(Place(e), base) <=> HasWrite(scheduled, base) \/ e.base = base
           /\ LastIs(Place(e), e.base, e.content)
           /\ \A base, v : base # e.base /\ LastIs(scheduled, base, v) => LastIs(Place(e), base, v)
<1> DEFINE p == Place(e)
<1>0. IsEntry(e) /\ \A base : Writes(e, base) <=> e.base = base
  BY TaskFacts DEF Writes
<1>e. /\ DOMAIN scheduled = 1..Len(scheduled) /\ Len(scheduled) \in Nat
      /\ \A i \in DOMAIN scheduled : scheduled[i] \in Entries /\ IsEntry(scheduled[i])
      /\ \A i \in DOMAIN scheduled : \A base : Writes(scheduled[i], base) <=> scheduled[i].base = base
  BY EntryWrites
<1>1. CASE \E i \in DOMAIN scheduled : scheduled[i].base = e.base
  <2>1. p = [i \in DOMAIN scheduled |-> IF scheduled[i].base = e.base THEN e ELSE scheduled[i]]
    BY <1>1 DEF Place
  <2> HIDE DEF p
  <2>2. /\ DOMAIN p = DOMAIN scheduled
        /\ \A i \in DOMAIN p : p[i].base = scheduled[i].base
        /\ \A i \in DOMAIN p : p[i] = e \/ p[i] = scheduled[i]
        /\ \A i \in DOMAIN p : p[i].base = e.base => p[i] = e
        /\ \A i \in DOMAIN p : p[i].base # e.base => p[i] = scheduled[i]
    BY <2>1
  <2>3. p \in Seq(Entries)
    <3>1. p \in [1..Len(scheduled) -> Entries]
      BY <2>1, <1>e
    <3> QED
      BY <3>1, <1>e, SeqDef
  <2>4. \A i \in DOMAIN p : \A base : Writes(p[i], base) <=> p[i].base = base
    BY <2>3, EntryWrites
  <2>5. Unique(p) /\ p # <<>>
    BY <2>2, <1>1 DEF Unique
  <2>6. \A base : HasWrite(p, base) <=> HasWrite(scheduled, base) \/ e.base = base
    BY <2>2, <2>4, <1>1, <1>e DEF HasWrite
  <2>7. LastIs(p, e.base, e.content)
    BY <2>2, <2>4 DEF LastIs
  <2>8. ASSUME NEW base, NEW v, base # e.base, LastIs(scheduled, base, v) PROVE LastIs(p, base, v)
    <3>1. \A i \in DOMAIN p : Writes(p[i], base) <=> Writes(scheduled[i], base)
      BY <2>2, <2>4, <1>e
    <3>2. \A i \in DOMAIN p : Writes(p[i], base) => p[i] = scheduled[i]
      BY <2>2, <2>4, <2>8
    <3> QED
      BY <3>1, <3>2, <2>2, <2>8 DEF LastIs
  <2> QED
    BY <2>2, <2>3, <2>5, <2>6, <2>7, <2>8 DEF p
<1>2. CASE ~\E i \in DOMAIN scheduled : scheduled[i].base = e.base
  <2>1. p = Append(scheduled, e)
    BY <1>2 DEF Place
  <2> HIDE DEF p
  <2>2. /\ p \in Seq(Entries) /\ p # <<>>
        /\ DOMAIN p = 1..(Len(scheduled) + 1)
        /\ p[Len(scheduled) + 1] = e
        /\ \A i \in DOMAIN scheduled : p[i] = scheduled[i]
    BY <2>1, AppendFacts
  <2>3. \A i \in DOMAIN p : i = Len(scheduled) + 1 \/ i \in DOMAIN scheduled
    BY <2>2, <1>e
  <2>4. Unique(p)
    BY <2>2, <2>3, <1>2 DEF Unique
  <2>5. ASSUME NEW base, NEW v
        PROVE  /\ Writes(e, base) => HasWrite(p, base) /\ LastIs(p, base, e.content)
               /\ ~Writes(e, base) => /\ HasWrite(p, base) <=> HasWrite(scheduled, base)
                                      /\ LastIs(scheduled, base, v) => LastIs(p, base, v)
    BY <2>1, AppendWrite
  <2>6. \A i \in DOMAIN p : p[i] = e \/ \E j \in DOMAIN scheduled : p[i] = scheduled[j]
    BY <2>2, <2>3
  <2>7. \A base : HasWrite(p, base) <=> HasWrite(scheduled, base) \/ e.base = base
    BY <2>5, <1>0
  <2>8. LastIs(p, e.base, e.content)
    BY <2>5, <1>0
  <2>9. \A base, v : base # e.base /\ LastIs(scheduled, base, v) => LastIs(p, base, v)
    BY <2>5, <1>0
  <2> QED
    BY <2>2, <2>4, <2>6, <2>7, <2>8, <2>9 DEF p
<1> QED
  BY <1>1, <1>2

-------------------------------------------------------------------------------
(* What each task of the manager does to what is on its way *)

LEMMA OnTheWayFacts ==
    /\ \A e : e \in OnTheWay <=>
         /\ IsEntry(e)
         /\ \/ \E i \in DOMAIN inbox : inbox[i] = e
            \/ \E i \in DOMAIN scheduled : scheduled[i] = e
            \/ current = e
    /\ \A m : m \in Maps <=> m = keyOf \/ m = mapFile
                             \/ \E e \in OnTheWay : e.base = Map /\ e.content = m
  BY DEF OnTheWay, Queued, ToSet, Maps

\* Files that a slot uses, and the map's.
Used(base) == base = Map \/ (base \in FileKeys /\ \E s \in Slots : keyOf[s] = base)

\* Nothing new is on its way, and what is goes on.
GoesOn ==
  /\ OnTheWay' \subseteq OnTheWay
  /\ Maps' \subseteq Maps
  /\ \A base, v : Used(base) /\ EndsAs(base, v) => EndsAs(base, v)'

LEMMA TakeWriteGoesOn == ASSUME IInv, TakeWrite PROVE GoesOn
<1> DEFINE h == Head(inbox)
           t == Tail(inbox)
<1>1. /\ inbox \in Seq(Task) /\ scheduled \in Seq(Entries) /\ Unique(scheduled)
      /\ inbox # <<>> /\ IsEntry(h)
      /\ inbox' = Append(t, Scheduled) /\ scheduled' = Place(h)
      /\ UNCHANGED <<current, files, mapFile, keyOf>>
  BY DEF IInv, QueueInv, TypeOK, Unique, TakeWrite, disk, memory
<1>2. /\ t \in Seq(Task) /\ h \in Task /\ h = inbox[1] /\ 1 \in DOMAIN inbox
      /\ \A i \in DOMAIN t : i + 1 \in DOMAIN inbox /\ t[i] = inbox[i + 1]
  BY <1>1, TailFacts
<1>3. h \in Entries /\ Scheduled \in Task /\ ~IsEntry(Scheduled)
  BY <1>1, <1>2, TaskFacts DEF Task
<1> HIDE DEF h, t
<1>4. /\ \A i \in DOMAIN inbox' : inbox'[i] = Scheduled \/ \E j \in DOMAIN inbox : inbox'[i] = inbox[j]
  <2>1. /\ DOMAIN inbox' = 1..(Len(t) + 1) /\ inbox'[Len(t) + 1] = Scheduled /\ Len(t) \in Nat
        /\ DOMAIN t = 1..Len(t) /\ \A i \in DOMAIN t : inbox'[i] = t[i]
    BY <1>1, <1>2, <1>3, AppendFacts
  <2> QED
    BY <1>2, <2>1
<1>5. /\ \A i \in DOMAIN scheduled' : scheduled'[i] = h \/ \E j \in DOMAIN scheduled : scheduled'[i] = scheduled[j]
      /\ \A base : HasWrite(scheduled', base) <=> HasWrite(scheduled, base) \/ h.base = base
      /\ LastIs(scheduled', h.base, h.content)
      /\ \A base, v : base # h.base /\ LastIs(scheduled, base, v) => LastIs(scheduled', base, v)
  BY <1>1, <1>3, PlaceFacts
<1>6. OnTheWay' \subseteq OnTheWay
  <2> SUFFICES ASSUME NEW e \in OnTheWay' PROVE e \in OnTheWay
    OBVIOUS
  <2>1. /\ IsEntry(e)
        /\ \/ \E i \in DOMAIN inbox' : inbox'[i] = e
           \/ \E i \in DOMAIN scheduled' : scheduled'[i] = e
           \/ current' = e
    BY DEF OnTheWay, Queued, ToSet
  <2> QED
    BY <2>1, <1>1, <1>2, <1>3, <1>4, <1>5, OnTheWayFacts
<1>7. Maps' \subseteq Maps
  BY <1>1, <1>6 DEF Maps
<1>8. ASSUME NEW base, NEW v, EndsAs(base, v) PROVE EndsAs(base, v)'
  <2>1. /\ LastIs(t, base, v)
        /\ HasWrite(inbox, base) <=> Writes(h, base) \/ HasWrite(t, base)
        /\ Writes(h, base) /\ ~HasWrite(t, base) => h.content = v
    BY <1>1, <1>8, TailWrite DEF h, t, EndsAs
  <2>2. ~Writes(Scheduled, base)
    BY <1>3 DEF Writes
  <2>3. /\ HasWrite(inbox', base) <=> HasWrite(t, base)
        /\ LastIs(t, base, v) => LastIs(inbox', base, v)
    BY <1>1, <1>2, <1>3, <2>2, AppendWrite
  <2>4. Writes(h, base) <=> h.base = base
    BY <1>1 DEF Writes
  <2>5. ~HasWrite(inbox', base) => LastIs(scheduled', base, v)
    BY <2>1, <2>3, <2>4, <1>5, <1>8 DEF EndsAs
  <2>6. ~HasWrite(inbox', base) /\ ~HasWrite(scheduled', base) =>
          ~HasWrite(inbox, base) /\ ~HasWrite(scheduled, base)
    BY <2>1, <2>3, <2>4, <1>5
  <2>7. OnDisk(base)' = OnDisk(base)
    BY <1>1 DEF OnDisk
  <2> QED
    BY <1>1, <1>8, <2>1, <2>3, <2>5, <2>6, <2>7 DEF EndsAs
<1> QED
  BY <1>6, <1>7, <1>8 DEF GoesOn

LEMMA StartWritingGoesOn == ASSUME IInv, StartWriting PROVE GoesOn
<1> DEFINE h == Head(scheduled)
           t == Tail(scheduled)
<1>1. /\ scheduled \in Seq(Entries) /\ Unique(scheduled) /\ scheduled # <<>>
      /\ current = Nothing /\ current' = h /\ scheduled' = t
      /\ UNCHANGED <<inbox, files, mapFile, keyOf>>
  BY DEF IInv, QueueInv, TypeOK, Unique, StartWriting, disk, memory
<1>2. /\ t \in Seq(Entries) /\ h \in Entries /\ h = scheduled[1] /\ 1 \in DOMAIN scheduled
      /\ \A i \in DOMAIN t : i \in Nat \ {0} /\ i + 1 \in DOMAIN scheduled /\ t[i] = scheduled[i + 1]
  BY <1>1, TailFacts
<1>3. /\ IsEntry(h) /\ ~IsEntry(current)
      /\ \A base : Writes(h, base) <=> h.base = base
      /\ \A i \in DOMAIN t : \A base : Writes(t[i], base) <=> t[i].base = base
  BY <1>1, <1>2, TaskFacts, EntryWrites DEF Writes
<1> HIDE DEF h, t
<1>4. OnTheWay' \subseteq OnTheWay
  <2> SUFFICES ASSUME NEW e \in OnTheWay' PROVE e \in OnTheWay
    OBVIOUS
  <2>1. /\ IsEntry(e)
        /\ \/ \E i \in DOMAIN inbox' : inbox'[i] = e
           \/ \E i \in DOMAIN scheduled' : scheduled'[i] = e
           \/ current' = e
    BY DEF OnTheWay, Queued, ToSet
  <2> QED
    BY <2>1, <1>1, <1>2, OnTheWayFacts
<1>5. Maps' \subseteq Maps
  BY <1>1, <1>4 DEF Maps
<1>6. ASSUME NEW base, NEW v, EndsAs(base, v) PROVE EndsAs(base, v)'
  <2>1. CASE HasWrite(inbox, base)
    BY <1>1, <1>6, <2>1 DEF EndsAs
  <2>2. CASE ~HasWrite(inbox, base)
    <3>1. /\ LastIs(t, base, v)
          /\ HasWrite(scheduled, base) <=> Writes(h, base) \/ HasWrite(t, base)
          /\ Writes(h, base) /\ ~HasWrite(t, base) => h.content = v
      BY <1>1, <1>6, <2>2, TailWrite DEF h, t, EndsAs
    <3>2. ~Writes(current, base)
      BY <1>3 DEF Writes
    <3>3. OnDisk(base)' = OnDisk(base)
      BY <1>1 DEF OnDisk
    <3> QED
      BY <1>1, <1>6, <2>2, <3>1, <3>2, <3>3 DEF EndsAs
  <2> QED
    BY <2>1, <2>2
<1> QED
  BY <1>4, <1>5, <1>6 DEF GoesOn

\* The two tasks that take entries from the queue are put back while there is
\* one.
LEMMA PutBack ==
    ASSUME inbox \in Seq(Task), inbox # <<>>, ~IsEntry(Head(inbox)),
           inbox' = inbox \/ inbox' = Tail(inbox) \/ inbox' = Append(Tail(inbox), Scheduled)
    PROVE  /\ \A e : IsEntry(e) /\ (\E i \in DOMAIN inbox' : inbox'[i] = e)
                     => \E i \in DOMAIN inbox : inbox[i] = e
           /\ \A base, v : LastIs(inbox, base, v) => LastIs(inbox', base, v)
           /\ \A base, v : LastIs(inbox, base, v) =>
                (HasWrite(inbox', base) <=> HasWrite(inbox, base))
<1> DEFINE h == Head(inbox)
           t == Tail(inbox)
<1>1. /\ t \in Seq(Task)
      /\ \A i \in DOMAIN t : i + 1 \in DOMAIN inbox /\ t[i] = inbox[i + 1]
  BY TailFacts
<1>2. Scheduled \in Task /\ ~IsEntry(Scheduled)
  BY TaskFacts DEF Task
<1>3. \A base : ~Writes(h, base) /\ ~Writes(Scheduled, base)
  BY <1>2 DEF Writes
<1> HIDE DEF h
<1>4. ASSUME NEW base, NEW v, LastIs(inbox, base, v)
      PROVE  LastIs(t, base, v) /\ (HasWrite(t, base) <=> HasWrite(inbox, base))
  BY <1>3, <1>4, TailWrite DEF h
<1> HIDE DEF t
<1>5. \A i \in DOMAIN Append(t, Scheduled) : Append(t, Scheduled)[i] = Scheduled
                                             \/ (i \in DOMAIN t /\ Append(t, Scheduled)[i] = t[i])
  BY <1>1, <1>2, AppendFacts
<1>6. ASSUME NEW base, NEW v, LastIs(inbox, base, v)
      PROVE  /\ LastIs(Append(t, Scheduled), base, v)
             /\ HasWrite(Append(t, Scheduled), base) <=> HasWrite(inbox, base)
  BY <1>1, <1>2, <1>3, <1>4, <1>6, AppendWrite
<1>7. inbox' = inbox \/ inbox' = t \/ inbox' = Append(t, Scheduled)
  BY DEF t
<1>8. ASSUME NEW e, IsEntry(e), NEW i \in DOMAIN inbox', inbox'[i] = e
      PROVE  \E j \in DOMAIN inbox : inbox[j] = e
  BY <1>1, <1>2, <1>5, <1>7, <1>8
<1>9. ASSUME NEW base, NEW v, LastIs(inbox, base, v)
      PROVE  LastIs(inbox', base, v) /\ (HasWrite(inbox', base) <=> HasWrite(inbox, base))
  BY <1>4, <1>6, <1>7, <1>9
<1> QED
  BY <1>8, <1>9

LEMMA FinishWritingGoesOn == ASSUME IInv, FinishWriting PROVE GoesOn
<1>1. /\ inbox \in Seq(Task) /\ inbox # <<>> /\ ~IsEntry(Head(inbox))
      /\ current # Nothing /\ current \in Entries /\ current' = Nothing
      /\ inbox' = inbox \/ inbox' = Tail(inbox) \/ inbox' = Append(Tail(inbox), Scheduled)
      /\ UNCHANGED <<scheduled, keyOf>>
      /\ files \in [FileKeys -> 0..MaxChanges]
  BY DEF IInv, QueueInv, TypeOK, FinishWriting, memory
<1>2. IsEntry(current) /\ ~IsEntry(current') /\ current \in OnTheWay
  BY <1>1, TaskFacts, OnTheWayFacts
<1>3. /\ \A e : IsEntry(e) /\ (\E i \in DOMAIN inbox' : inbox'[i] = e)
                => \E i \in DOMAIN inbox : inbox[i] = e
      /\ \A base, v : LastIs(inbox, base, v) => LastIs(inbox', base, v)
      /\ \A base, v : LastIs(inbox, base, v) =>
           (HasWrite(inbox', base) <=> HasWrite(inbox, base))
  BY <1>1, PutBack
<1>4. OnTheWay' \subseteq OnTheWay
  <2> SUFFICES ASSUME NEW e \in OnTheWay' PROVE e \in OnTheWay
    OBVIOUS
  <2>1. /\ IsEntry(e)
        /\ \/ \E i \in DOMAIN inbox' : inbox'[i] = e
           \/ \E i \in DOMAIN scheduled' : scheduled'[i] = e
           \/ current' = e
    BY DEF OnTheWay, Queued, ToSet
  <2> QED
    BY <2>1, <1>1, <1>2, <1>3, OnTheWayFacts
<1>5. Maps' \subseteq Maps
  <2>1. mapFile' = mapFile \/ (current.base = Map /\ mapFile' = current.content)
    BY DEF FinishWriting
  <2>2. mapFile' \in Maps
    BY <2>1, <1>2, OnTheWayFacts
  <2> QED
    BY <1>1, <1>4, <2>2 DEF Maps
<1>6. ASSUME NEW base, NEW v, Used(base), EndsAs(base, v) PROVE EndsAs(base, v)'
  <2>1. LastIs(inbox, base, v) /\ LastIs(inbox', base, v) /\ (HasWrite(inbox', base) <=> HasWrite(inbox, base))
    BY <1>3, <1>6 DEF EndsAs
  <2>2. ~Writes(current', base) /\ (Writes(current, base) <=> current.base = base)
    BY <1>2 DEF Writes
  <2>3. CASE current.base = base
    <3>1. ~contested \/ base = Map
      BY <1>6, <2>3 DEF IInv, KeysInv, Used
    <3>2. OnDisk(base)' = current.content
      BY <3>1, <2>3, <1>1, TaskFacts DEF OnDisk, FinishWriting
    <3> QED
      BY <1>1, <1>6, <2>1, <2>2, <2>3, <3>2 DEF EndsAs
  <2>4. CASE current.base # base
    <3>1. OnDisk(base)' = OnDisk(base)
      BY <1>6, <2>4, <1>1, TaskFacts DEF OnDisk, FinishWriting, Used
    <3> QED
      BY <1>1, <1>6, <2>1, <2>2, <2>4, <3>1 DEF EndsAs
  <2> QED
    BY <2>3, <2>4
<1> QED
  BY <1>4, <1>5, <1>6 DEF GoesOn

LEMMA NothingToWriteGoesOn == ASSUME IInv, NothingToWrite PROVE GoesOn
<1>1. /\ inbox \in Seq(Task) /\ inbox # <<>> /\ ~IsEntry(Head(inbox))
      /\ inbox' = Tail(inbox)
      /\ UNCHANGED <<scheduled, current, keyOf, files, mapFile>>
  BY DEF IInv, QueueInv, NothingToWrite, memory, disk
<1>2. /\ \A e : IsEntry(e) /\ (\E i \in DOMAIN inbox' : inbox'[i] = e)
                => \E i \in DOMAIN inbox : inbox[i] = e
      /\ \A base, v : LastIs(inbox, base, v) => LastIs(inbox', base, v)
      /\ \A base, v : LastIs(inbox, base, v) =>
           (HasWrite(inbox', base) <=> HasWrite(inbox, base))
  BY <1>1, PutBack
<1>3. OnTheWay' \subseteq OnTheWay
  <2> SUFFICES ASSUME NEW e \in OnTheWay' PROVE e \in OnTheWay
    OBVIOUS
  <2>1. /\ IsEntry(e)
        /\ \/ \E i \in DOMAIN inbox' : inbox'[i] = e
           \/ \E i \in DOMAIN scheduled' : scheduled'[i] = e
           \/ current' = e
    BY DEF OnTheWay, Queued, ToSet
  <2> QED
    BY <2>1, <1>1, <1>2, OnTheWayFacts
<1>4. Maps' \subseteq Maps
  BY <1>1, <1>3 DEF Maps
<1>5. ASSUME NEW base, NEW v, EndsAs(base, v) PROVE EndsAs(base, v)'
  <2>1. LastIs(inbox', base, v) /\ (HasWrite(inbox', base) <=> HasWrite(inbox, base))
    BY <1>2, <1>5 DEF EndsAs
  <2>2. OnDisk(base)' = OnDisk(base)
    BY <1>1 DEF OnDisk
  <2> QED
    BY <1>1, <1>5, <2>1, <2>2 DEF EndsAs
<1> QED
  BY <1>3, <1>4, <1>5 DEF GoesOn

-------------------------------------------------------------------------------
(* Steps that add nothing: the manager's, and those that only remove files   *)
(* that no slot uses                                                         *)

Quiet ==
  /\ GoesOn
  /\ UNCHANGED <<memory, mapChanged, stale>>
  /\ \A k \in FileKeys :
       \/ files'[k] = files[k]
       \/ files'[k] = 0 /\ \A s \in Slots : keyOf[s] # k
       \/ \E e \in OnTheWay : e.base = k /\ files'[k] = e.content
  /\ removing' \subseteq removing
  /\ contested' => current'.base # Map /\ \A s \in Slots : keyOf[s] # current'.base

\* What TypeOK says of what the other parts speak of.
LEMMA TypeFacts ==
    ASSUME TypeOK, QueueInv
    PROVE  /\ keyOf \in KeyMap /\ mapFile \in KeyMap
           /\ \A s \in Slots : keyOf[s] \in Key /\ data[s] \in 0..MaxChanges
           /\ files \in [FileKeys -> 0..MaxChanges]
           /\ lastKey \in Nat /\ version \in Nat /\ version <= MaxChanges
           /\ Unique(scheduled)
           /\ OnTheWay \subseteq Entries
           /\ Maps \subseteq KeyMap
<1>1. /\ keyOf \in KeyMap /\ mapFile \in KeyMap
      /\ \A s \in Slots : keyOf[s] \in Key /\ data[s] \in 0..MaxChanges
      /\ files \in [FileKeys -> 0..MaxChanges]
      /\ lastKey \in Nat /\ version \in Nat /\ version <= MaxChanges
  BY BoundsAssumption DEF TypeOK, KeyMap, Key, FileKeys
<1>2. Unique(scheduled)
  BY DEF TypeOK, Unique
<1>3. ASSUME NEW e \in OnTheWay PROVE e \in Entries
  <2>1. ASSUME NEW i \in DOMAIN inbox PROVE inbox[i] \in Task
    BY <2>1, ElementOfSeq DEF QueueInv
  <2>2. ASSUME NEW i \in DOMAIN scheduled PROVE scheduled[i] \in Entries
    BY <2>2, EntryWrites DEF QueueInv
  <2> QED
    BY <1>3, <2>1, <2>2, OnTheWayFacts, TaskFacts DEF TypeOK, IsEntry
<1>4. \A e \in OnTheWay : e.base = Map => e.content \in KeyMap
  BY <1>3, TaskFacts, MapAssumption
<1>5. Maps \subseteq KeyMap
  BY <1>1, <1>4, OnTheWayFacts
<1> QED
  BY <1>1, <1>2, <1>3, <1>5

LEMMA QuietKeys == ASSUME IInv, Quiet PROVE CountInv' /\ KeysInv'
<1>1. CountInv'
  BY DEF IInv, CountInv, Quiet, memory
<1>2. OnTheWay' \subseteq OnTheWay /\ Maps' \subseteq Maps /\ lastKey' = lastKey /\ keyOf' = keyOf
  BY DEF Quiet, GoesOn, memory
<1>3. \A e \in OnTheWay : e.base \in FileKeys => e.base <= lastKey
  BY MapAssumption DEF IInv, KeysInv
<1>4. \A k \in FileKeys : files'[k] # 0 => k <= lastKey
  BY <1>3 DEF IInv, KeysInv, Quiet
<1>5. \A k \in removing' : k <= lastKey /\ \A s \in Slots : keyOf[s] # k
  BY DEF IInv, KeysInv, Quiet
<1>6. contested' => current'.base # Map /\ \A s \in Slots : keyOf[s] # current'.base
  BY DEF Quiet
<1>7. KeysInv'
  BY <1>2, <1>4, <1>5, <1>6 DEF IInv, KeysInv
<1> QED
  BY <1>1, <1>7

LEMMA QuietFinal == ASSUME IInv, Quiet PROVE FinalInv'
<1>0. /\ keyOf \in KeyMap /\ \A s \in Slots : keyOf[s] \in Key
      /\ data' = data /\ keyOf' = keyOf /\ dirty' = dirty /\ stale' = stale /\ lastKey' = lastKey
      /\ mapChanged' = mapChanged
      /\ OnTheWay' \subseteq OnTheWay
  BY TypeFacts DEF IInv, Quiet, GoesOn, memory
<1>1. ASSUME NEW s \in Slots \ dirty PROVE Settled(s)'
  <2>1. Wanted(s)' = Wanted(s)
    BY <1>0 DEF Wanted
  <2>2. CASE keyOf[s] = NoKey
    BY <1>0, <1>1, <2>1, <2>2 DEF IInv, FinalInv, Settled
  <2>3. CASE keyOf[s] # NoKey
    <3>1. Used(keyOf[s])
      BY <1>0, <2>3 DEF Used, Key
    <3>2. EndsAs(keyOf[s], data[s])
      BY <1>1, <2>3 DEF IInv, FinalInv, Settled
    <3>3. EndsAs(keyOf[s], data[s])'
      BY <1>0, <3>1, <3>2 DEF Quiet, GoesOn, EndsAs, OnDisk
    <3> QED
      BY <1>0, <2>3, <3>3 DEF Settled
  <2> QED
    BY <2>2, <2>3
<1>2. \A s \in stale' : keyOf'[s] = NoKey
  BY <1>0 DEF IInv, FinalInv
<1>3. ASSUME ~mapChanged PROVE \E m \in KeyMap : EndsAs(Map, m)' /\ Agrees(m)'
  <2>1. PICK m \in KeyMap : EndsAs(Map, m) /\ Agrees(m)
    BY <1>3 DEF IInv, FinalInv
  <2>2. EndsAs(Map, m)'
    BY <2>1 DEF Quiet, GoesOn, Used, EndsAs, OnDisk
  <2>3. ASSUME NEW k, Dead(k) PROVE Dead(k)'
    <3>1. files'[k] = 0
      BY <2>3 DEF Quiet, Dead
    <3> QED
      BY <1>0, <2>3, <3>1 DEF Dead
  <2>4. Agrees(m)'
    BY <1>0, <2>1, <2>3 DEF Agrees
  <2> QED
    BY <2>2, <2>4
<1> QED
  BY <1>0, <1>1, <1>2, <1>3 DEF FinalInv

\* What a slot may be found to hold stays among what it held, whatever is added
\* to that.
LEMMA QuietCovers ==
    ASSUME IInv, Quiet, NEW s \in Slots, recent[s] \subseteq recent'[s]
    PROVE  Covers(recent[s], s)'
<1>0. /\ OnTheWay' \subseteq OnTheWay /\ Maps' \subseteq Maps /\ keyOf' = keyOf
      /\ Maps \subseteq KeyMap
  BY TypeFacts DEF IInv, Quiet, GoesOn, memory
<1>1. Covers(recent[s], s)
  BY DEF IInv, RecentInv
<1>2. Wanted(s)' = Wanted(s) /\ Wanted(s) \in recent[s]
  BY <1>1 DEF Quiet, memory, Wanted, Covers
<1>3. ASSUME NEW m \in Maps', m[s] # NoKey PROVE files'[m[s]] \in recent[s]
  <2>1. m \in Maps /\ m[s] \in FileKeys
    BY <1>0, <1>3 DEF KeyMap, Key
  <2>2. /\ m[s] # keyOf[s] => 0 \in recent[s]
        /\ files[m[s]] \in recent[s]
        /\ \A e \in OnTheWay : e.base = m[s] => e.content \in recent[s]
    BY <1>1, <1>3, <2>1 DEF Covers
  <2>3. \/ files'[m[s]] = files[m[s]]
        \/ files'[m[s]] = 0 /\ keyOf[s] # m[s]
        \/ \E e \in OnTheWay : e.base = m[s] /\ files'[m[s]] = e.content
    BY <2>1 DEF Quiet
  <2> QED
    BY <2>2, <2>3
<1>4. ASSUME NEW m \in Maps' PROVE m[s] = NoKey \/ m[s] # keyOf'[s] => 0 \in recent[s]
  BY <1>0, <1>1, <1>4 DEF Covers
<1>5. ASSUME NEW m \in Maps', m[s] # NoKey, NEW e \in OnTheWay', e.base = m[s]
      PROVE  e.content \in recent[s]
  BY <1>0, <1>1, <1>5 DEF Covers
<1> QED
  BY <1>2, <1>3, <1>4, <1>5 DEF Covers

-------------------------------------------------------------------------------
(* What is remembered *)

\* A slot with nothing on its way is stored, and so is nothing after a log out.
LEMMA StoredCovers ==
    TypeOK /\ QueueInv /\ FinalInv /\ OnTheWay = {} /\ ~mapChanged =>
      \A s \in Slots :
        /\ s \notin dirty => Covers({Wanted(s)}, s) /\ Stored(s) = Wanted(s)
        /\ keyOf[s] = NoKey => Covers({0, Wanted(s)}, s)
<1> SUFFICES ASSUME TypeOK, QueueInv, FinalInv, OnTheWay = {}, ~mapChanged, NEW s \in Slots
             PROVE  /\ s \notin dirty => Covers({Wanted(s)}, s) /\ Stored(s) = Wanted(s)
                    /\ keyOf[s] = NoKey => Covers({0, Wanted(s)}, s)
  OBVIOUS
<1>1. keyOf \in KeyMap /\ mapFile \in KeyMap /\ Maps = {keyOf, mapFile}
  BY TypeFacts DEF Maps
<1>2. \A base : ~HasWrite(inbox, base) /\ ~HasWrite(scheduled, base) /\ ~Writes(current, base)
  BY OnTheWayFacts DEF HasWrite, Writes
<1>3. \A base, v : EndsAs(base, v) => OnDisk(base) = v
  BY <1>2 DEF EndsAs
<1>4. PICK m \in KeyMap : EndsAs(Map, m) /\ Agrees(m)
  BY DEF FinalInv
<1>5. m = mapFile
  BY <1>3, <1>4 DEF OnDisk
<1>6. mapFile[s] = keyOf[s] \/ (keyOf[s] = NoKey /\ mapFile[s] \in FileKeys /\ files[mapFile[s]] = 0)
  BY <1>4, <1>5 DEF Agrees, Dead
<1>7. CASE keyOf[s] = NoKey
  <2>1. s \notin dirty => Wanted(s) = 0
    BY <1>7 DEF FinalInv, Settled
  <2>2. Covers({0, Wanted(s)}, s)
    BY <1>1, <1>6, <1>7 DEF Covers
  <2> QED
    BY <1>6, <1>7, <2>1, <2>2 DEF Stored
<1>8. CASE keyOf[s] # NoKey
  <2> SUFFICES ASSUME s \notin dirty
               PROVE  Covers({Wanted(s)}, s) /\ Stored(s) = Wanted(s)
    BY <1>8
  <2>1. EndsAs(keyOf[s], data[s]) /\ s \notin stale
    BY <1>8 DEF FinalInv, Settled
  <2>2. keyOf[s] \in FileKeys /\ keyOf[s] # Map
    BY <1>1, <1>8, MapAssumption DEF KeyMap, Key
  <2>3. files[keyOf[s]] = Wanted(s)
    BY <1>3, <2>1, <2>2 DEF OnDisk, Wanted
  <2> QED
    BY <1>1, <1>6, <1>8, <2>3 DEF Covers, Stored
<1> QED
  BY <1>7, <1>8

LEMMA AtRestFacts == TypeOK => \A s \in Slots : AtRest(s) => OnTheWay = {} /\ ~mapChanged /\ s \notin dirty
<1>1. ~IsEntry(Nothing)
  BY TaskFacts
<1> QED
  BY <1>1 DEF AtRest, OnTheWay

\* It is enough that what a slot held before covers what is possible now.
LEMMA Remembered ==
    ASSUME TypeOK', QueueInv', FinalInv', Remember,
           \A s \in Slots :
             recent[s] \subseteq recent'[s] /\ Wanted(s)' \in recent'[s] => Covers(recent[s], s)',
           LoggedOut => OnTheWay' = {} /\ ~mapChanged' /\ \A s \in Slots : keyOf'[s] = NoKey
    PROVE  RecentInv'
<1>1. (TypeOK /\ QueueInv /\ FinalInv /\ OnTheWay = {} /\ ~mapChanged =>
         \A s \in Slots :
           /\ s \notin dirty => Covers({Wanted(s)}, s) /\ Stored(s) = Wanted(s)
           /\ keyOf[s] = NoKey => Covers({0, Wanted(s)}, s))'
  BY StoredCovers, PTL
<1>2. (TypeOK => \A s \in Slots : AtRest(s) => OnTheWay = {} /\ ~mapChanged /\ s \notin dirty)'
  BY AtRestFacts, PTL
<1> SUFFICES ASSUME NEW s \in Slots PROVE Covers(recent[s], s)'
  BY DEF RecentInv
<1>3. recent'[s] = IF AtRest(s)' THEN {Wanted(s)'}
                   ELSE IF LoggedOut THEN {0, Wanted(s)'}
                   ELSE recent[s] \union {Wanted(s)'}
  BY DEF Remember
<1>4. CASE AtRest(s)'
  <2>1. Covers({Wanted(s)}, s)'
    BY <1>1, <1>2, <1>4
  <2> QED
    BY <1>3, <1>4, <2>1 DEF Covers
<1>5. CASE ~AtRest(s)' /\ LoggedOut
  <2>1. Covers({0, Wanted(s)}, s)'
    BY <1>1, <1>5
  <2> QED
    BY <1>3, <1>5, <2>1 DEF Covers
<1>6. CASE ~AtRest(s)' /\ ~LoggedOut
  BY <1>3, <1>6
<1> QED
  BY <1>4, <1>5, <1>6

-------------------------------------------------------------------------------
(* What the main thread puts in the inbox *)

\* The task e is put at the end, perhaps with a sync behind it.
Adds(e) ==
  /\ inbox' \in Seq(Task)
  /\ UNCHANGED <<scheduled, current>>
  /\ inbox # <<>> => inbox' # <<>> /\ Head(inbox') = Head(inbox)
  /\ \A i \in DOMAIN inbox' :
       inbox'[i] \in {e, Sync} \/ \E j \in DOMAIN inbox : inbox'[i] = inbox[j]
  /\ \A base : Writes(e, base) => HasWrite(inbox', base) /\ LastIs(inbox', base, e.content)
  /\ \A base, v : ~Writes(e, base) =>
       /\ HasWrite(inbox', base) <=> HasWrite(inbox, base)
       /\ LastIs(inbox, base, v) => LastIs(inbox', base, v)

LEMMA AppendAdds ==
    ASSUME inbox \in Seq(Task), NEW e \in Task, inbox' = Append(inbox, e), UNCHANGED <<scheduled, current>>
    PROVE  Adds(e)
<1>1. /\ inbox' \in Seq(Task)
      /\ inbox # <<>> => inbox' # <<>> /\ Head(inbox') = Head(inbox)
  BY AppendFacts
<1>2. /\ DOMAIN inbox = 1..Len(inbox) /\ DOMAIN inbox' = 1..(Len(inbox) + 1) /\ Len(inbox) \in Nat
      /\ inbox'[Len(inbox) + 1] = e /\ \A i \in DOMAIN inbox : inbox'[i] = inbox[i]
  BY AppendFacts
<1>3. \A i \in DOMAIN inbox' : inbox'[i] = e \/ \E j \in DOMAIN inbox : inbox'[i] = inbox[j]
  BY <1>2
<1>4. ASSUME NEW base, NEW v
      PROVE  /\ Writes(e, base) => HasWrite(inbox', base) /\ LastIs(inbox', base, e.content)
             /\ ~Writes(e, base) => /\ HasWrite(inbox', base) <=> HasWrite(inbox, base)
                                    /\ LastIs(inbox, base, v) => LastIs(inbox', base, v)
  BY AppendWrite
<1> QED
  BY <1>1, <1>3, <1>4 DEF Adds

LEMMA SyncAdds ==
    ASSUME inbox \in Seq(Task), NEW e \in Task, inbox' = inbox \o <<e, Sync>>, UNCHANGED <<scheduled, current>>
    PROVE  Adds(e)
<1> DEFINE q == Append(inbox, e)
<1>1. Sync \in Task /\ ~IsEntry(Sync)
  BY TaskFacts DEF Task
<1>2. inbox' = Append(q, Sync)
  BY <1>1
<1>3. /\ q \in Seq(Task)
      /\ inbox # <<>> => q # <<>> /\ Head(q) = Head(inbox)
      /\ DOMAIN inbox = 1..Len(inbox) /\ DOMAIN q = 1..(Len(inbox) + 1) /\ Len(inbox) \in Nat
      /\ q[Len(inbox) + 1] = e /\ \A i \in DOMAIN inbox : q[i] = inbox[i]
      /\ Len(q) = Len(inbox) + 1
  BY AppendFacts
<1>4. ASSUME NEW base, NEW v
      PROVE  /\ Writes(e, base) => HasWrite(q, base) /\ LastIs(q, base, e.content)
             /\ ~Writes(e, base) => /\ HasWrite(q, base) <=> HasWrite(inbox, base)
                                    /\ LastIs(inbox, base, v) => LastIs(q, base, v)
  BY AppendWrite
<1> HIDE DEF q
<1>5. /\ inbox' \in Seq(Task)
      /\ q # <<>> => inbox' # <<>> /\ Head(inbox') = Head(q)
      /\ DOMAIN inbox' = 1..(Len(q) + 1)
      /\ inbox'[Len(q) + 1] = Sync /\ \A i \in DOMAIN q : inbox'[i] = q[i]
  BY <1>1, <1>2, <1>3, AppendFacts
<1>6. \A i \in DOMAIN inbox' : inbox'[i] \in {e, Sync} \/ \E j \in DOMAIN inbox : inbox'[i] = inbox[j]
  BY <1>3, <1>5
<1>7. ASSUME NEW base, NEW v
      PROVE  /\ HasWrite(inbox', base) <=> HasWrite(q, base)
             /\ LastIs(q, base, v) => LastIs(inbox', base, v)
  <2>1. ~Writes(Sync, base)
    BY <1>1 DEF Writes
  <2> QED
    BY <1>1, <1>2, <1>3, <2>1, AppendWrite
<1> QED
  BY <1>3, <1>4, <1>5, <1>6, <1>7 DEF Adds

LEMMA AddsFacts ==
    ASSUME NEW e, Adds(e)
    PROVE  /\ OnTheWay' \subseteq OnTheWay \union {e}
           /\ \A base : Writes(e, base) => EndsAs(base, e.content)'
           /\ \A base, v : ~Writes(e, base) /\ EndsAs(base, v)
                             /\ (base = Map \/ files'[base] = files[base]) /\ mapFile' = mapFile
                           => EndsAs(base, v)'
<1>1. ~IsEntry(Sync)
  BY TaskFacts
<1>2. ASSUME NEW x \in OnTheWay' PROVE x \in OnTheWay \union {e}
  <2>1. /\ IsEntry(x)
        /\ \/ \E i \in DOMAIN inbox' : inbox'[i] = x
           \/ \E i \in DOMAIN scheduled' : scheduled'[i] = x
           \/ current' = x
    BY <1>2 DEF OnTheWay, Queued, ToSet
  <2> QED
    BY <1>1, <2>1, OnTheWayFacts DEF Adds
<1>3. ASSUME NEW base, Writes(e, base) PROVE EndsAs(base, e.content)'
  BY <1>3 DEF Adds, EndsAs
<1>4. ASSUME NEW base, NEW v, ~Writes(e, base), EndsAs(base, v),
             base = Map \/ files'[base] = files[base], mapFile' = mapFile
      PROVE  EndsAs(base, v)'
  BY <1>4 DEF Adds, EndsAs, OnDisk
<1> QED
  BY <1>2, <1>3, <1>4

-------------------------------------------------------------------------------
(* A slot is written or cleared *)

\* What the two have in common: slot s now holds c, has no delayed write due,
\* and its key is k, which it had before or is a new one.
Given(s, c, k) ==
  /\ \A u \in Slots : data'[u] = IF u = s THEN c ELSE data[u]
  /\ dirty' = dirty \ {s}
  /\ stale' = stale \ {s}
  /\ keyOf' = [keyOf EXCEPT ![s] = k]
  /\ UNCHANGED <<scheduled, current, mapFile, removing>>

LEMMA WriteGiven ==
    ASSUME IInv, NEW s \in Slots, NEW c \in 1..MaxChanges, Write(s, c), lastKey' \in Key,
           \A u \in Slots : data'[u] = IF u = s THEN c ELSE data[u],
           dirty' = dirty \ {s}, UNCHANGED <<scheduled, current, mapFile, removing>>
    PROVE  \E k \in FileKeys :
             /\ Given(s, c, k) /\ Adds(Entry(k, c)) /\ Entry(k, c) \in Entries
             /\ inbox' = Append(inbox, Entry(k, c))
             /\ k <= lastKey' /\ lastKey <= lastKey'
             /\ UNCHANGED <<files, contested>>
             /\ \/ k = keyOf[s] /\ lastKey' = lastKey /\ mapChanged' = mapChanged
                \/ keyOf[s] = NoKey /\ lastKey < k /\ mapChanged'
<1>1. /\ keyOf \in KeyMap /\ lastKey \in Nat /\ inbox \in Seq(Task)
  BY TypeFacts DEF IInv, QueueInv
<1>2. CASE keyOf[s] # NoKey
  <2> DEFINE k == keyOf[s]
  <2>1. k \in FileKeys /\ k <= lastKey
    BY <1>1, <1>2 DEF KeyMap, Key, IInv, KeysInv, Maps
  <2>2. Entry(k, c) \in Entries /\ Entry(k, c) \in Task
    BY <2>1, TaskFacts
  <2>3. Adds(Entry(k, c)) /\ inbox' = Append(inbox, Entry(k, c))
    BY <1>1, <1>2, <2>2, AppendAdds DEF Write
  <2>4. keyOf' = [keyOf EXCEPT ![s] = k]
    BY <1>1, <1>2 DEF Write, KeyMap
  <2>5. /\ Given(s, c, k) /\ lastKey' = lastKey /\ mapChanged' = mapChanged
        /\ UNCHANGED <<files, contested>>
    BY <1>2, <2>4 DEF Write, Given
  <2>6. lastKey <= lastKey' /\ k <= lastKey'
    BY <1>1, <2>1, <2>5
  <2> HIDE DEF k
  <2>7. k = keyOf[s]
    BY DEF k
  <2> QED
    BY <2>1, <2>2, <2>3, <2>5, <2>6, <2>7
<1>3. CASE keyOf[s] = NoKey
  <2> DEFINE k == lastKey + 1
  <2>1. k \in FileKeys /\ k > lastKey /\ lastKey' = k
    BY <1>1, <1>3 DEF Write, Key, FileKeys
  <2>2. Entry(k, c) \in Entries /\ Entry(k, c) \in Task
    BY <2>1, TaskFacts
  <2>3. Adds(Entry(k, c)) /\ inbox' = Append(inbox, Entry(k, c))
    BY <1>1, <1>3, <2>2, AppendAdds DEF Write
  <2>4. Given(s, c, k) /\ mapChanged' /\ UNCHANGED <<files, contested>>
    BY <1>3 DEF Write, Given
  <2>5. lastKey <= lastKey' /\ k <= lastKey' /\ lastKey < k
    BY <1>1, <2>1
  <2> HIDE DEF k
  <2> QED
    BY <1>3, <2>1, <2>2, <2>3, <2>4, <2>5
<1> QED
  BY <1>2, <1>3

LEMMA WriteKeeps ==
    ASSUME IInv, NEW s \in Slots, NEW c \in 1..MaxChanges, NEW k \in FileKeys,
           Given(s, c, k), Adds(Entry(k, c)), Entry(k, c) \in Entries,
           k <= lastKey', lastKey <= lastKey', lastKey' \in Nat,
           UNCHANGED <<files, contested>>,
           \/ k = keyOf[s] /\ lastKey' = lastKey /\ mapChanged' = mapChanged
           \/ keyOf[s] = NoKey /\ lastKey < k /\ mapChanged'
    PROVE  /\ KeysInv' /\ FinalInv'
           /\ \A u \in Slots :
                recent[u] \subseteq recent'[u] /\ Wanted(u)' \in recent'[u] => Covers(recent[u], u)'
<1> DEFINE e == Entry(k, c)
<1>1. /\ keyOf \in KeyMap /\ mapFile \in KeyMap /\ lastKey \in Nat
      /\ OnTheWay \subseteq Entries /\ Maps \subseteq KeyMap
      /\ contested => current \in OnTheWay
  BY TypeFacts, TaskFacts, OnTheWayFacts DEF IInv, TypeOK
<1>2. /\ e.base = k /\ e.content = c /\ k # Map /\ k # NoKey /\ IsEntry(e)
      /\ \A base : Writes(e, base) <=> base = k
  BY TaskFacts, MapAssumption DEF Writes, FileKeys
<1>3. /\ OnTheWay' \subseteq OnTheWay \union {e}
      /\ \A base : Writes(e, base) => EndsAs(base, e.content)'
      /\ \A base, v : ~Writes(e, base) /\ EndsAs(base, v)
                        /\ (base = Map \/ files'[base] = files[base]) /\ mapFile' = mapFile
                      => EndsAs(base, v)'
  BY AddsFacts
<1> HIDE DEF e
<1>4. Maps' \subseteq Maps \union {keyOf'}
  BY <1>2, <1>3 DEF Given, Maps
<1>5. /\ keyOf' \in KeyMap /\ keyOf'[s] = k
      /\ \A u \in Slots : u # s => keyOf'[u] = keyOf[u]
      /\ \A u \in Slots : keyOf[u] # NoKey => keyOf'[u] = keyOf[u]
  BY <1>1, <1>2 DEF Given, KeyMap, Key
<1>6. \A m \in Maps : \A u \in Slots : m[u] <= lastKey /\ (m[u] = k => u = s)
  <2>1. keyOf \in Maps
    BY DEF Maps
  <2> QED
    BY <1>1, <1>2, <2>1 DEF IInv, KeysInv, KeyMap, Key, FileKeys
<1>k. KeysInv'
  <2>1. ASSUME NEW m \in Maps', NEW n \in Maps', NEW u \in Slots, NEW v \in Slots,
               m[u] = n[v], m[u] # NoKey
        PROVE  u = v
    <3>1. keyOf \in Maps
      BY DEF Maps
    <3>2. \A p \in Maps' : \A w \in Slots : p[w] # k => \E q \in Maps : p[w] = q[w]
      BY <1>4, <1>5, <3>1
    <3>3. \A p \in Maps' : \A w \in Slots : p[w] = k => w = s
      BY <1>2, <1>4, <1>5, <1>6, <3>1
    <3>4. CASE m[u] = k
      BY <2>1, <3>3, <3>4
    <3>5. CASE m[u] # k
      BY <2>1, <3>2, <3>5 DEF IInv, KeysInv
    <3> QED
      BY <3>4, <3>5
  <2>2. ASSUME NEW m \in Maps', NEW u \in Slots PROVE m[u] <= lastKey'
    <3>1. keyOf \in Maps
      BY DEF Maps
    <3>2. m \in Maps => m[u] \in Nat
      BY <1>1 DEF KeyMap, Key, FileKeys
    <3>3. keyOf[u] \in Nat
      BY <1>1 DEF KeyMap, Key, FileKeys
    <3> QED
      BY <1>1, <1>4, <1>5, <1>6, <3>1, <3>2, <3>3
  <2>3. ASSUME NEW x \in OnTheWay' PROVE x.base = Map \/ x.base <= lastKey'
    <3>1. CASE x = e
      BY <1>2, <3>1
    <3>2. CASE x # e
      <4>1. x \in OnTheWay /\ (x.base = Map \/ (x.base \in FileKeys /\ x.base <= lastKey))
        BY <1>1, <1>3, <3>2, TaskFacts DEF IInv, KeysInv
      <4> QED
        BY <1>1, <4>1 DEF FileKeys
    <3> QED
      BY <3>1, <3>2
  <2>4. ASSUME NEW j \in FileKeys, files'[j] # 0 PROVE j <= lastKey'
    BY <1>1, <2>4 DEF IInv, KeysInv, FileKeys
  <2>5. ASSUME NEW j \in removing' PROVE j <= lastKey' /\ \A u \in Slots : keyOf'[u] # j
    <3>1. j \in FileKeys /\ j <= lastKey /\ \A u \in Slots : keyOf[u] # j
      BY <2>5 DEF IInv, KeysInv, TypeOK, Given
    <3>2. k # j
      BY <1>1, <3>1 DEF FileKeys
    <3> QED
      BY <1>1, <1>5, <3>1, <3>2 DEF FileKeys
  <2>6. ASSUME contested' PROVE current'.base # Map /\ \A u \in Slots : keyOf'[u] # current'.base
    <3>1. /\ current' = current /\ contested
          /\ current.base # Map /\ \A u \in Slots : keyOf[u] # current.base
      BY <2>6 DEF IInv, KeysInv, Given
    <3>2. current.base \in FileKeys /\ current.base <= lastKey
      BY <1>1, <3>1, TaskFacts DEF IInv, KeysInv
    <3>3. k # current.base
      BY <1>1, <3>1, <3>2 DEF FileKeys
    <3> QED
      BY <1>5, <3>1, <3>3
  <2> QED
    BY <2>1, <2>2, <2>3, <2>4, <2>5, <2>6 DEF KeysInv
<1>f. FinalInv'
  <2>1. ASSUME NEW u \in Slots \ dirty' PROVE Settled(u)'
    <3>1. CASE u = s
      <4>1. EndsAs(k, c)' /\ keyOf'[s] # NoKey /\ keyOf'[s] = k /\ data'[s] = c
        BY <1>2, <1>3, <1>5 DEF Given
      <4> QED
        BY <3>1, <4>1 DEF Settled, EndsAs, OnDisk
    <3>2. CASE u # s
      <4>1. /\ u \notin dirty /\ keyOf'[u] = keyOf[u] /\ data'[u] = data[u] /\ (u \in stale' <=> u \in stale)
            /\ Settled(u)
        BY <2>1, <3>2, <1>5 DEF Given, IInv, FinalInv
      <4>2. Wanted(u)' = Wanted(u)
        BY <4>1 DEF Wanted
      <4>3. CASE keyOf[u] = NoKey
        BY <4>1, <4>2, <4>3 DEF Settled
      <4>4. CASE keyOf[u] # NoKey
        <5>1. keyOf[u] # k /\ EndsAs(keyOf[u], data[u])
          BY <1>6, <3>2, <4>1, <4>4 DEF Settled, Maps
        <5>2. mapFile' = mapFile
          BY DEF Given
        <5>3. EndsAs(keyOf[u], data[u])'
          BY <1>2, <1>3, <4>1, <5>1, <5>2 DEF EndsAs, OnDisk
        <5> QED
          BY <4>1, <4>4, <5>3 DEF Settled
      <4> QED
        BY <4>3, <4>4
    <3> QED
      BY <3>1, <3>2
  <2>2. \A u \in stale' : keyOf'[u] = NoKey
    <3>1. \A u \in stale : u \in Slots /\ keyOf[u] = NoKey
      BY SlotsAssumption DEF IInv, FinalInv, TypeOK
    <3> QED
      BY <1>5, <3>1 DEF Given
  <2>3. ASSUME ~mapChanged' PROVE \E m \in KeyMap : EndsAs(Map, m)' /\ Agrees(m)'
    <3>1. k = keyOf[s] /\ ~mapChanged /\ lastKey' = lastKey /\ mapFile' = mapFile
      BY <2>3 DEF Given
    <3>2. \A u \in Slots : keyOf'[u] = keyOf[u]
      BY <1>5, <3>1
    <3>3. PICK m \in KeyMap : EndsAs(Map, m) /\ Agrees(m)
      BY <3>1 DEF IInv, FinalInv
    <3>4. EndsAs(Map, m)'
      BY <1>2, <1>3, <3>1, <3>3 DEF EndsAs, OnDisk
    <3>5. ASSUME NEW j, Dead(j) PROVE Dead(j)'
      <4>1. j # k
        BY <3>1, <3>5 DEF Dead
      <4> QED
        BY <1>2, <1>3, <3>1, <3>2, <3>5, <4>1 DEF Dead
    <3>6. Agrees(m)'
      BY <3>2, <3>3, <3>5 DEF Agrees
    <3> QED
      BY <3>4, <3>6
  <2> QED
    BY <2>1, <2>2, <2>3 DEF FinalInv
<1>c. ASSUME NEW u \in Slots, recent[u] \subseteq recent'[u], Wanted(u)' \in recent'[u]
      PROVE  Covers(recent[u], u)'
  <2>0. keyOf \in Maps /\ Covers(recent[u], u)
    BY DEF Maps, IInv, RecentInv
  <2>1. u = s => Wanted(u)' = c
    BY DEF Wanted, Given
  <2>2. ASSUME NEW m \in Maps', m[u] = NoKey \/ m[u] # keyOf'[u] PROVE 0 \in recent[u]
    <3>1. CASE keyOf[u] = NoKey
      BY <2>0, <3>1 DEF Covers
    <3>2. CASE keyOf[u] # NoKey
      <4>1. m \in Maps /\ keyOf'[u] = keyOf[u]
        BY <1>4, <1>5, <2>2, <3>2
      <4> QED
        BY <2>0, <2>2, <4>1 DEF Covers
    <3> QED
      BY <3>1, <3>2
  <2>3. ASSUME NEW m \in Maps', m[u] # NoKey
        PROVE  /\ files'[m[u]] \in recent[u]
               /\ \A x \in OnTheWay : x.base = m[u] => x.content \in recent[u]
    <3>1. CASE \E n \in Maps : n[u] = m[u]
      BY <2>0, <2>3, <3>1 DEF Covers
    <3>2. CASE ~\E n \in Maps : n[u] = m[u]
      <4>1. m[u] = k /\ u = s /\ keyOf[s] = NoKey /\ lastKey < k
        BY <1>4, <1>5, <2>0, <2>3, <3>2
      <4>2. files[k] = 0
        BY <1>1, <4>1 DEF IInv, KeysInv, FileKeys
      <4>3. \A x \in OnTheWay : x.base # k
        BY <1>1, <1>2, <4>1 DEF IInv, KeysInv, FileKeys
      <4> QED
        BY <2>0, <4>1, <4>2, <4>3 DEF Covers
    <3> QED
      BY <3>1, <3>2
  <2>4. ASSUME NEW m \in Maps', m[u] # NoKey, e.base = m[u] PROVE e.content \in recent'[u]
    <3>1. u = s
      BY <1>2, <1>4, <1>5, <1>6, <2>4, <2>0
    <3> QED
      BY <1>2, <1>c, <2>1, <3>1
  <2> QED
    BY <1>3, <1>c, <2>2, <2>3, <2>4 DEF Covers
<1> QED
  BY <1>k, <1>f, <1>c

LEMMA RemoveGiven ==
    ASSUME IInv, NEW s \in Slots, RemoveFile(s),
           \A u \in Slots : data'[u] = IF u = s THEN 0 ELSE data[u],
           dirty' = dirty \ {s}, UNCHANGED <<scheduled, current, mapFile, removing>>
    PROVE  /\ Given(s, 0, NoKey) /\ UNCHANGED <<lastKey, inbox>>
           /\ mapChanged' \/ (keyOf' = keyOf /\ mapChanged' = mapChanged)
           /\ \A j \in FileKeys : files'[j] = IF j = keyOf[s] THEN 0 ELSE files[j]
           /\ contested' => \/ contested
                            \/ current \in OnTheWay /\ current.base = keyOf[s] /\ keyOf[s] # NoKey
<1>1. keyOf \in KeyMap /\ files \in [FileKeys -> 0..MaxChanges]
  BY TypeFacts DEF IInv
<1>2. CASE keyOf[s] = NoKey
  <2>1. keyOf' = [keyOf EXCEPT ![s] = NoKey] /\ UNCHANGED <<keyOf, mapChanged, files, contested, lastKey, inbox>>
    BY <1>1, <1>2 DEF RemoveFile, KeyMap
  <2>2. Given(s, 0, NoKey)
    BY <2>1 DEF RemoveFile, Given
  <2> QED
    BY <1>2, <2>1, <2>2 DEF FileKeys
<1>3. CASE keyOf[s] # NoKey
  <2>1. /\ ClearKey(keyOf[s]) /\ mapChanged' = TRUE /\ UNCHANGED <<lastKey, inbox>>
        /\ Given(s, 0, NoKey)
    BY <1>3 DEF RemoveFile, Given
  <2>2. \A j \in FileKeys : files'[j] = IF j = keyOf[s] THEN 0 ELSE files[j]
    BY <1>1, <2>1 DEF ClearKey
  <2>3. current # Nothing => current \in OnTheWay
    BY TaskFacts, OnTheWayFacts DEF IInv, TypeOK
  <2> QED
    BY <1>3, <2>1, <2>2, <2>3 DEF ClearKey
<1> QED
  BY <1>2, <1>3

LEMMA RemoveKeeps ==
    ASSUME IInv, NEW s \in Slots, Given(s, 0, NoKey), UNCHANGED <<lastKey, inbox>>,
           mapChanged' \/ (keyOf' = keyOf /\ mapChanged' = mapChanged),
           \A j \in FileKeys : files'[j] = IF j = keyOf[s] THEN 0 ELSE files[j],
           contested' => \/ contested
                         \/ current \in OnTheWay /\ current.base = keyOf[s] /\ keyOf[s] # NoKey
    PROVE  /\ KeysInv' /\ FinalInv'
           /\ \A u \in Slots :
                recent[u] \subseteq recent'[u] /\ Wanted(u)' \in recent'[u] => Covers(recent[u], u)'
<1>1. /\ keyOf \in KeyMap /\ mapFile \in KeyMap /\ lastKey \in Nat
      /\ OnTheWay \subseteq Entries /\ Maps \subseteq KeyMap /\ keyOf \in Maps
  BY TypeFacts DEF IInv, Maps
<1>2. OnTheWay' = OnTheWay
  BY DEF Given, OnTheWay, Queued
<1>3. Maps' \subseteq Maps \union {keyOf'}
  BY <1>2 DEF Given, Maps
<1>4. /\ keyOf'[s] = NoKey
      /\ \A u \in Slots : u # s => keyOf'[u] = keyOf[u]
      /\ \A u \in Slots : keyOf'[u] # NoKey => u # s /\ keyOf'[u] = keyOf[u] /\ keyOf[u] # keyOf[s]
  <2>1. \A u \in Slots : u # s /\ keyOf[u] # NoKey => keyOf[u] # keyOf[s]
    BY <1>1 DEF IInv, KeysInv
  <2>2. keyOf'[s] = NoKey /\ \A u \in Slots : u # s => keyOf'[u] = keyOf[u]
    BY <1>1 DEF Given, KeyMap
  <2> QED
    BY <2>1, <2>2
<1>5. ASSUME NEW m \in Maps', NEW u \in Slots, m[u] # NoKey PROVE \E n \in Maps : m[u] = n[u]
  BY <1>1, <1>3, <1>4, <1>5
<1>k. KeysInv'
  <2>1. ASSUME NEW m \in Maps', NEW n \in Maps', NEW u \in Slots, NEW v \in Slots,
               m[u] = n[v], m[u] # NoKey
        PROVE  u = v
    BY <1>5, <2>1 DEF IInv, KeysInv
  <2>2. ASSUME NEW m \in Maps', NEW u \in Slots PROVE m[u] <= lastKey'
    BY <1>1, <1>5, <2>2 DEF IInv, KeysInv
  <2>3. \A x \in OnTheWay' : x.base = Map \/ x.base <= lastKey'
    BY <1>2 DEF IInv, KeysInv
  <2>4. \A j \in FileKeys : files'[j] # 0 => j <= lastKey'
    BY DEF IInv, KeysInv
  <2>5. \A j \in removing' : j <= lastKey' /\ \A u \in Slots : keyOf'[u] # j
    <3>1. \A j \in removing : j # NoKey
      BY DEF IInv, TypeOK, FileKeys
    <3> QED
      BY <1>4, <3>1 DEF IInv, KeysInv, Given
  <2>6. ASSUME contested' PROVE current'.base # Map /\ \A u \in Slots : keyOf'[u] # current'.base
    <3>1. current' = current
      BY DEF Given
    <3>2. current \in OnTheWay
      BY <2>6, TaskFacts, OnTheWayFacts DEF IInv, TypeOK
    <3>3. \/ current.base # Map /\ \A u \in Slots : keyOf[u] # current.base
          \/ current.base = keyOf[s] /\ keyOf[s] # NoKey
      BY <2>6 DEF IInv, KeysInv
    <3>4. current.base # NoKey \/ current.base = Map
      BY <1>1, <3>2, TaskFacts DEF FileKeys
    <3>5. keyOf[s] # NoKey => keyOf[s] # Map
      BY <1>1, MapAssumption DEF KeyMap, Key
    <3> QED
      BY <1>4, <3>1, <3>3, <3>4, <3>5
  <2> QED
    BY <2>1, <2>2, <2>3, <2>4, <2>5, <2>6 DEF KeysInv
<1>e. ASSUME NEW base, NEW v, EndsAs(base, v), base = Map \/ files'[base] = files[base] PROVE EndsAs(base, v)'
  BY <1>e DEF EndsAs, OnDisk, Given
<1>f. FinalInv'
  <2>1. ASSUME NEW u \in Slots \ dirty' PROVE Settled(u)'
    <3>1. CASE u = s
      BY <1>4, <3>1 DEF Settled, Wanted, Given
    <3>2. CASE u # s
      <4>1. /\ u \notin dirty /\ keyOf'[u] = keyOf[u] /\ data'[u] = data[u] /\ (u \in stale' <=> u \in stale)
            /\ Settled(u)
        BY <2>1, <3>2, <1>4 DEF Given, IInv, FinalInv
      <4>2. Wanted(u)' = Wanted(u)
        BY <4>1 DEF Wanted
      <4>3. CASE keyOf[u] = NoKey
        BY <4>1, <4>2, <4>3 DEF Settled
      <4>4. CASE keyOf[u] # NoKey
        <5>1. EndsAs(keyOf[u], data[u]) /\ keyOf[u] \in FileKeys /\ keyOf[u] # keyOf[s]
          BY <1>1, <1>4, <4>1, <4>4 DEF Settled, KeyMap, Key
        <5>2. files'[keyOf[u]] = files[keyOf[u]]
          BY <5>1
        <5>3. EndsAs(keyOf[u], data[u])'
          BY <1>e, <4>1, <5>1, <5>2 DEF EndsAs, OnDisk
        <5> QED
          BY <4>1, <4>4, <5>3 DEF Settled
      <4> QED
        BY <4>3, <4>4
    <3> QED
      BY <3>1, <3>2
  <2>2. \A u \in stale' : keyOf'[u] = NoKey
    <3>1. \A u \in stale : u \in Slots /\ keyOf[u] = NoKey
      BY SlotsAssumption DEF IInv, FinalInv, TypeOK
    <3> QED
      BY <1>4, <3>1 DEF Given
  <2>3. ASSUME ~mapChanged' PROVE \E m \in KeyMap : EndsAs(Map, m)' /\ Agrees(m)'
    <3>1. keyOf' = keyOf /\ ~mapChanged
      BY <2>3
    <3>2. PICK m \in KeyMap : EndsAs(Map, m) /\ Agrees(m)
      BY <3>1 DEF IInv, FinalInv
    <3>3. EndsAs(Map, m)'
      BY <1>e, <3>2
    <3>4. ASSUME NEW j, Dead(j) PROVE Dead(j)'
      BY <1>2, <3>1, <3>4 DEF Dead
    <3>5. Agrees(m)'
      BY <3>1, <3>2, <3>4 DEF Agrees
    <3> QED
      BY <3>3, <3>5
  <2> QED
    BY <2>1, <2>2, <2>3 DEF FinalInv
<1>c. ASSUME NEW u \in Slots, recent[u] \subseteq recent'[u], Wanted(u)' \in recent'[u]
      PROVE  Covers(recent[u], u)'
  <2>0. keyOf \in Maps /\ Covers(recent[u], u)
    BY DEF Maps, IInv, RecentInv
  <2>1. u = s => 0 \in recent'[u]
    BY <1>c DEF Wanted, Given
  <2>2. ASSUME NEW m \in Maps', m[u] = NoKey \/ m[u] # keyOf'[u] PROVE 0 \in recent'[u]
    <3>1. CASE u = s
      BY <2>1, <3>1
    <3>2. CASE u # s
      BY <1>3, <1>4, <1>c, <2>0, <2>2, <3>2 DEF Covers
    <3> QED
      BY <3>1, <3>2
  <2>3. ASSUME NEW m \in Maps', m[u] # NoKey
        PROVE  /\ files'[m[u]] \in recent'[u]
               /\ \A x \in OnTheWay : x.base = m[u] => x.content \in recent'[u]
    <3>1. PICK n \in Maps : m[u] = n[u]
      BY <1>5, <2>3
    <3>2. /\ files[m[u]] \in recent[u] /\ m[u] \in FileKeys
          /\ \A x \in OnTheWay : x.base = m[u] => x.content \in recent[u]
      BY <1>1, <2>0, <2>3, <3>1 DEF Covers, KeyMap, Key
    <3>3. ASSUME m[u] = keyOf[s] PROVE u = s
      <4>1. keyOf \in Maps /\ n[u] = keyOf[s] /\ n[u] # NoKey
        BY <1>1, <2>3, <3>1, <3>3
      <4> QED
        BY <3>1, <4>1 DEF IInv, KeysInv
    <3> QED
      BY <1>c, <2>1, <3>2, <3>3
  <2> QED
    BY <1>2, <1>c, <2>2, <2>3 DEF Covers
<1> QED
  BY <1>k, <1>f, <1>c

-------------------------------------------------------------------------------
(* A map is put on its way, and the rest of the steps of the main thread *)

\* The map in memory is the last one on its way from now on.
LEMMA MapKeeps ==
    ASSUME IInv, NEW map \in KeyMap, map = keyOf, Adds(Entry(Map, map)),
           UNCHANGED <<memory, files, mapFile, contested, stale>>,
           removing' = removing
    PROVE  /\ KeysInv' /\ FinalInv'
           /\ \A u \in Slots :
                recent[u] \subseteq recent'[u] /\ Wanted(u)' \in recent'[u] => Covers(recent[u], u)'
<1> DEFINE e == Entry(Map, map)
<1>1. /\ keyOf \in KeyMap /\ \A s \in Slots : keyOf[s] \in Key
      /\ OnTheWay \subseteq Entries /\ Maps \subseteq KeyMap /\ keyOf \in Maps
  BY TypeFacts DEF IInv, Maps
<1>2. /\ e.base = Map /\ e.content = map /\ IsEntry(e)
      /\ \A base : Writes(e, base) <=> base = Map
  BY <1>1, TaskFacts DEF Writes
<1>3. /\ OnTheWay' \subseteq OnTheWay \union {e}
      /\ \A base : Writes(e, base) => EndsAs(base, e.content)'
      /\ \A base, v : ~Writes(e, base) /\ EndsAs(base, v)
                        /\ (base = Map \/ files'[base] = files[base]) /\ mapFile' = mapFile
                      => EndsAs(base, v)'
  BY AddsFacts
<1>0. /\ keyOf' = keyOf /\ data' = data /\ dirty' = dirty /\ lastKey' = lastKey /\ stale' = stale
      /\ files' = files /\ mapFile' = mapFile /\ version' = version
      /\ contested' = contested /\ current' = current /\ removing' = removing
  BY DEF memory, Adds
<1> HIDE DEF e
<1>4. Maps' \subseteq Maps
  BY <1>0, <1>1, <1>2, <1>3 DEF Maps
<1>5. ASSUME NEW x \in OnTheWay', x.base # Map PROVE x \in OnTheWay
  BY <1>2, <1>3, <1>5
<1>k. KeysInv'
  <2>1. \A x \in OnTheWay' : x.base = Map \/ x.base <= lastKey'
    BY <1>0, <1>5 DEF IInv, KeysInv
  <2> QED
    BY <1>0, <1>4, <2>1 DEF IInv, KeysInv
<1>f. FinalInv'
  <2>1. ASSUME NEW s \in Slots \ dirty' PROVE Settled(s)'
    <3>1. s \notin dirty /\ Settled(s) /\ Wanted(s)' = Wanted(s)
      BY <1>0, <2>1 DEF IInv, FinalInv, Wanted
    <3>2. CASE keyOf[s] = NoKey
      BY <1>0, <3>1, <3>2 DEF Settled
    <3>3. CASE keyOf[s] # NoKey
      <4>1. EndsAs(keyOf[s], data[s]) /\ keyOf[s] # Map
        BY <1>1, <3>1, <3>3, MapAssumption DEF Settled, Key
      <4>2. EndsAs(keyOf[s], data[s])'
        BY <1>0, <1>2, <1>3, <4>1 DEF EndsAs, OnDisk
      <4> QED
        BY <1>0, <3>3, <4>2 DEF Settled
    <3> QED
      BY <3>2, <3>3
  <2>2. \A s \in stale' : keyOf'[s] = NoKey
    BY <1>0 DEF IInv, FinalInv
  <2>3. EndsAs(Map, map)' /\ Agrees(map)'
    BY <1>0, <1>2, <1>3 DEF Agrees
  <2>4. \E m \in KeyMap : EndsAs(Map, m)' /\ Agrees(m)'
    BY <2>3
  <2> QED
    BY <2>1, <2>2, <2>4 DEF FinalInv
<1>c. ASSUME NEW s \in Slots, recent[s] \subseteq recent'[s], Wanted(s)' \in recent'[s]
      PROVE  Covers(recent[s], s)'
  <2>1. Covers(recent[s], s)
    BY DEF IInv, RecentInv
  <2>2. ASSUME NEW m \in Maps' PROVE m[s] = NoKey \/ m[s] # keyOf'[s] => 0 \in recent'[s]
    BY <1>0, <1>4, <1>c, <2>1 DEF Covers
  <2>3. ASSUME NEW m \in Maps', m[s] # NoKey
        PROVE  /\ files'[m[s]] \in recent'[s]
               /\ \A x \in OnTheWay' : x.base = m[s] => x.content \in recent'[s]
    <3>1. m[s] # Map /\ m \in Maps
      BY <1>1, <1>4, <2>3, MapAssumption DEF KeyMap, Key
    <3> QED
      BY <1>0, <1>5, <1>c, <2>1, <2>3, <3>1 DEF Covers
  <2> QED
    BY <1>c, <2>2, <2>3 DEF Covers
<1> QED
  BY <1>k, <1>f, <1>c

\* Only tasks that write nothing are added.
LEMMA SyncGoesOn ==
    ASSUME NEW e, Adds(e), ~IsEntry(e), UNCHANGED <<keyOf, files, mapFile>>
    PROVE  GoesOn
<1>1. OnTheWay' \subseteq OnTheWay
  <2>1. OnTheWay' \subseteq OnTheWay \union {e}
    BY AddsFacts
  <2> QED
    BY <2>1 DEF OnTheWay
<1>2. Maps' \subseteq Maps
  BY <1>1 DEF Maps
<1>3. \A base : ~Writes(e, base)
  BY DEF Writes
<1>4. \A base, v : EndsAs(base, v) => EndsAs(base, v)'
  BY <1>3, AddsFacts
<1> QED
  BY <1>1, <1>2, <1>4 DEF GoesOn

LEMMA StillGoesOn ==
    ASSUME UNCHANGED <<keyOf, inbox, scheduled, current, mapFile>>,
           \A k \in FileKeys : files'[k] = files[k] \/ \A s \in Slots : keyOf[s] # k
    PROVE  GoesOn
<1>1. OnTheWay' = OnTheWay /\ Maps' = Maps
  BY DEF OnTheWay, Maps, Queued
<1>2. ASSUME NEW base, NEW v, Used(base), EndsAs(base, v) PROVE EndsAs(base, v)'
  <2>1. OnDisk(base)' = OnDisk(base)
    BY <1>2, MapAssumption DEF Used, OnDisk
  <2> QED
    BY <1>2, <2>1 DEF EndsAs
<1> QED
  BY <1>1, <1>2 DEF GoesOn

\* A change whose writing is due later: nothing but the slot changes.
LEMMA ChangePrefsKeeps ==
    ASSUME IInv, NEW s \in Slots, ChangePrefs(s)
    PROVE  /\ KeysInv' /\ FinalInv'
           /\ \A u \in Slots :
                recent[u] \subseteq recent'[u] /\ Wanted(u)' \in recent'[u] => Covers(recent[u], u)'
<1>1. /\ UNCHANGED <<lastKey, keyOf, mapChanged, inbox, scheduled, current, contested, files, mapFile,
                     removing, stale>>
      /\ dirty' = dirty \union {s}
      /\ \A u \in Slots : u # s => data'[u] = data[u]
  BY DEF ChangePrefs, Change, mapState, queue, disk, IInv, TypeOK
<1>2. OnTheWay' = OnTheWay /\ Maps' = Maps
  BY <1>1 DEF OnTheWay, Maps, Queued
<1>3. KeysInv'
  BY <1>1, <1>2 DEF IInv, KeysInv
<1>4. ASSUME NEW base, NEW v, EndsAs(base, v) PROVE EndsAs(base, v)'
  BY <1>1, <1>4 DEF EndsAs, OnDisk
<1>5. ASSUME NEW u \in Slots \ dirty' PROVE Settled(u)'
  <2>1. Settled(u) /\ data'[u] = data[u] /\ Wanted(u)' = Wanted(u)
    BY <1>1, <1>5 DEF IInv, FinalInv, Wanted
  <2> QED
    BY <1>1, <1>4, <2>1 DEF Settled, EndsAs, OnDisk
<1>6. FinalInv'
  <2>1. \A m : Agrees(m) => Agrees(m)'
    BY <1>1, <1>2 DEF Agrees, Dead
  <2>2. ~mapChanged => \E m \in KeyMap : EndsAs(Map, m)' /\ Agrees(m)'
    BY <1>4, <2>1 DEF IInv, FinalInv
  <2>3. \A u \in stale' : keyOf'[u] = NoKey
    BY <1>1 DEF IInv, FinalInv
  <2> QED
    BY <1>1, <1>5, <2>2, <2>3 DEF FinalInv
<1>7. ASSUME NEW u \in Slots, recent[u] \subseteq recent'[u], Wanted(u)' \in recent'[u]
      PROVE  Covers(recent[u], u)'
  BY <1>1, <1>2, <1>7 DEF IInv, RecentInv, Covers
<1> QED
  BY <1>3, <1>6, <1>7

-------------------------------------------------------------------------------
(* A log out and a start *)

LEMMA ResetKeeps == ASSUME IInv, Reset PROVE KeysInv' /\ FinalInv' /\ RecentInv'
<1> DEFINE e == Entry(Map, NoKeys)
<1>1. /\ keyOf \in KeyMap /\ \A s \in Slots : keyOf[s] \in Key /\ data[s] \in 0..MaxChanges
      /\ OnTheWay \subseteq Entries /\ Maps \subseteq KeyMap /\ keyOf \in Maps
      /\ lastKey \in Nat
      /\ contested => current \in OnTheWay
  BY TypeFacts, TaskFacts, OnTheWayFacts DEF IInv, Maps, TypeOK
<1>2. /\ NoKeys \in KeyMap /\ \A s \in Slots : NoKeys[s] = NoKey
  BY DEF NoKeys, KeyMap, Key
<1>3. /\ e.base = Map /\ e.content = NoKeys /\ IsEntry(e) /\ e \in Task
      /\ \A base : Writes(e, base) <=> base = Map
  BY <1>2, TaskFacts DEF Writes
<1>0. /\ keyOf' = NoKeys /\ lastKey' = lastKey /\ ~mapChanged' /\ dirty' = dirty
      /\ removing' = KeysOf(keyOf) /\ stale' = Delayed \ dirty
      /\ data' = [s \in Slots |-> IF s \in Delayed THEN data[s] ELSE 0]
      /\ files' = files /\ mapFile' = mapFile
      /\ contested' = contested /\ current' = current /\ scheduled' = scheduled
      /\ recent' = [s \in Slots |-> recent[s] \union {0, data[s]}]
      /\ inbox' = inbox \o <<e, Sync>>
  BY DEF Reset, disk
<1>4. Adds(e)
  BY <1>0, <1>3, SyncAdds DEF IInv, QueueInv
<1>5. /\ OnTheWay' \subseteq OnTheWay \union {e}
      /\ EndsAs(Map, NoKeys)'
  BY <1>3, <1>4, AddsFacts
<1> HIDE DEF e
<1>6. Maps' \subseteq Maps \union {NoKeys}
  BY <1>0, <1>3, <1>5 DEF Maps
<1>7. ASSUME NEW x \in OnTheWay', x.base # Map PROVE x \in OnTheWay
  BY <1>3, <1>5, <1>7
<1>k. KeysInv'
  <2>1. ASSUME NEW m \in Maps', NEW n \in Maps', NEW u \in Slots, NEW v \in Slots,
               m[u] = n[v], m[u] # NoKey
        PROVE  u = v
    BY <1>2, <1>6, <2>1 DEF IInv, KeysInv
  <2>2. ASSUME NEW m \in Maps', NEW u \in Slots PROVE m[u] <= lastKey'
    BY <1>0, <1>1, <1>2, <1>6, <2>2 DEF IInv, KeysInv
  <2>3. \A x \in OnTheWay' : x.base = Map \/ x.base <= lastKey'
    BY <1>0, <1>7 DEF IInv, KeysInv
  <2>4. \A k \in FileKeys : files'[k] # 0 => k <= lastKey'
    BY <1>0 DEF IInv, KeysInv
  <2>5. \A k \in removing' : k <= lastKey' /\ \A s \in Slots : keyOf'[s] # k
    BY <1>0, <1>1, <1>2 DEF IInv, KeysInv, KeysOf
  <2>6. ASSUME contested' PROVE current'.base # Map /\ \A s \in Slots : keyOf'[s] # current'.base
    <3>1. current.base # Map /\ current.base \in FileKeys
      BY <1>0, <1>1, <2>6, TaskFacts DEF IInv, KeysInv
    <3> QED
      BY <1>0, <1>2, <3>1 DEF FileKeys
  <2> QED
    BY <2>1, <2>2, <2>3, <2>4, <2>5, <2>6 DEF KeysInv
<1>f. FinalInv'
  <2>1. \A s \in Slots \ dirty' : Settled(s)'
    BY <1>0, <1>2 DEF Settled, Wanted
  <2>2. \A s \in stale' : keyOf'[s] = NoKey
    BY <1>0, <1>2, SlotsAssumption
  <2>3. Agrees(NoKeys)'
    BY <1>0, <1>2 DEF Agrees
  <2> QED
    BY <1>2, <1>5, <2>1, <2>2, <2>3 DEF FinalInv
<1>c. ASSUME NEW s \in Slots PROVE Covers(recent[s], s)'
  <2>0. recent[s] \subseteq recent'[s] /\ 0 \in recent'[s] /\ Wanted(s)' \in recent'[s]
    BY <1>0 DEF Wanted
  <2>1. Covers(recent[s], s)
    BY DEF IInv, RecentInv
  <2>2. ASSUME NEW m \in Maps', m[s] # NoKey
        PROVE  /\ files'[m[s]] \in recent'[s]
               /\ \A x \in OnTheWay' : x.base = m[s] => x.content \in recent'[s]
    <3>1. m[s] # Map /\ m \in Maps
      BY <1>1, <1>2, <1>6, <2>2, MapAssumption DEF KeyMap, Key
    <3> QED
      BY <1>0, <1>7, <2>0, <2>1, <2>2, <3>1 DEF Covers
  <2> QED
    BY <2>0, <2>2 DEF Covers
<1> QED
  BY <1>k, <1>f, <1>c DEF RecentInv

LEMMA StartKeeps ==
    ASSUME IInv, Start
    PROVE  /\ KeysInv' /\ FinalInv'
           /\ \A s \in Slots :
                recent[s] \subseteq recent'[s] /\ Wanted(s)' \in recent'[s] => Covers(recent[s], s)'
<1>1. /\ mapFile \in KeyMap /\ mapFile \in Maps /\ lastKey \in Nat
      /\ \A s \in Slots : mapFile[s] \in Key
  BY TypeFacts DEF IInv, Maps, KeyMap
<1>2. /\ \A s \in Slots : keyOf'[s] = IF Stored(s) = 0 THEN NoKey ELSE mapFile[s]
      /\ \A s \in Slots : data'[s] = Stored(s)
      /\ dirty' = {} /\ stale' = {} /\ removing' = {} /\ ~contested'
      /\ inbox' = <<>> /\ scheduled' = <<>> /\ current' = Nothing
      /\ files' = files /\ mapFile' = mapFile /\ lastKey' = lastKey
  BY DEF Start, Stored, disk
<1>3. OnTheWay' = {}
  <2>1. ~IsEntry(Nothing)
    BY TaskFacts
  <2> QED
    BY <1>2, <2>1 DEF OnTheWay, Queued, ToSet
<1>4. Maps' = {keyOf', mapFile}
  BY <1>2, <1>3 DEF Maps
<1>5. \A s \in Slots : keyOf'[s] # NoKey => keyOf'[s] = mapFile[s] /\ mapFile[s] # NoKey
  BY <1>2
<1>k. KeysInv'
  <2>1. ASSUME NEW m \in Maps', NEW n \in Maps', NEW u \in Slots, NEW v \in Slots,
               m[u] = n[v], m[u] # NoKey
        PROVE  u = v
    <3>1. m[u] = mapFile[u] /\ n[v] = mapFile[v]
      BY <1>4, <1>5, <2>1
    <3> QED
      BY <1>1, <2>1, <3>1 DEF IInv, KeysInv
  <2>2. ASSUME NEW m \in Maps', NEW u \in Slots PROVE m[u] <= lastKey'
    <3>1. m[u] = mapFile[u] \/ m[u] = NoKey
      BY <1>4, <1>5
    <3> QED
      BY <1>1, <1>2, <3>1 DEF IInv, KeysInv
  <2> QED
    BY <1>2, <1>3, <2>1, <2>2 DEF KeysInv, IInv
<1>6. \A base, v : OnDisk(base) = v => EndsAs(base, v)'
  <2>1. \A base : ~Writes(Nothing, base)
    BY TaskFacts DEF Writes
  <2> QED
    BY <1>2, <2>1 DEF EndsAs, OnDisk, HasWrite, LastIs
<1>7. \A s \in Slots : Stored(s) = 0 => mapFile[s] = NoKey \/ files[mapFile[s]] = 0
  BY DEF Stored
<1>f. FinalInv'
  <2>1. ASSUME NEW s \in Slots PROVE Settled(s)'
    <3>1. CASE keyOf'[s] = NoKey
      BY <1>2, <3>1 DEF Settled, Wanted, Stored
    <3>2. CASE keyOf'[s] # NoKey
      <4>1. keyOf'[s] = mapFile[s] /\ mapFile[s] \in FileKeys /\ data'[s] = files[mapFile[s]]
        BY <1>1, <1>2, <1>5, <3>2 DEF Stored, Key
      <4>2. EndsAs(mapFile[s], files[mapFile[s]])'
        BY <1>2, <1>6, <4>1, MapAssumption DEF OnDisk, EndsAs
      <4> QED
        BY <1>2, <3>2, <4>1, <4>2 DEF Settled, EndsAs, OnDisk
    <3> QED
      BY <3>1, <3>2
  <2>2. PICK m \in KeyMap : m = mapFile
    BY <1>1
  <2>3. EndsAs(Map, m)'
    BY <1>6, <2>2 DEF OnDisk
  <2>4. Agrees(m)'
    <3> SUFFICES ASSUME NEW s \in Slots, m[s] # keyOf'[s] PROVE keyOf'[s] = NoKey /\ Dead(m[s])'
      BY DEF Agrees
    <3>1. keyOf'[s] = NoKey /\ m[s] \in FileKeys /\ files[m[s]] = 0 /\ m[s] <= lastKey
      BY <1>1, <1>2, <1>7, <2>2 DEF Key, IInv, KeysInv
    <3>2. ASSUME NEW u \in Slots, keyOf'[u] = m[s] PROVE FALSE
      <4>1. mapFile[u] = m[s] /\ m[s] # NoKey
        BY <1>5, <3>1, <3>2 DEF FileKeys
      <4>2. u = s
        BY <1>1, <2>2, <4>1 DEF IInv, KeysInv
      <4> QED
        BY <3>1, <3>2, <4>1, <4>2
    <3> QED
      BY <1>2, <1>3, <3>1, <3>2 DEF Dead
  <2> QED
    BY <1>2, <2>1, <2>3, <2>4 DEF FinalInv
<1>c. ASSUME NEW s \in Slots, recent[s] \subseteq recent'[s], Wanted(s)' \in recent'[s]
      PROVE  Covers(recent[s], s)'
  <2>1. Covers(recent[s], s)
    BY DEF IInv, RecentInv
  <2>2. /\ mapFile[s] = NoKey => 0 \in recent'[s]
        /\ mapFile[s] # NoKey => files[mapFile[s]] \in recent'[s]
    BY <1>1, <1>c, <2>1 DEF Covers
  <2>3. keyOf'[s] = NoKey \/ mapFile[s] # keyOf'[s] => 0 \in recent'[s]
    BY <1>2, <1>7, <2>2
  <2> QED
    BY <1>2, <1>3, <1>4, <1>5, <1>c, <2>2, <2>3 DEF Covers
<1> QED
  BY <1>k, <1>f, <1>c

-------------------------------------------------------------------------------
(* What a step leaves to be shown: types, counts and the place of a sync *)

LEMMA RecentTyped ==
    ASSUME TypeOK, Remember, \A s \in Slots : data'[s] \in 0..MaxChanges
    PROVE  \A s \in Slots : recent'[s] \subseteq 0..MaxChanges
  BY BoundsAssumption DEF TypeOK, Remember, Wanted

LEMMA QueueTyped ==
    ASSUME QueueInv'
    PROVE  /\ \A t \in ToSet(inbox') : IsEntry(t) => t \in Entries
           /\ \A e \in ToSet(scheduled') : e \in Entries
<1>1. \A i \in DOMAIN inbox' : inbox'[i] \in Task
  BY ElementOfSeq DEF QueueInv
<1>2. \A i \in DOMAIN scheduled' : scheduled'[i] \in Entries
  BY ElementOfSeq DEF QueueInv
<1> QED
  BY <1>1, <1>2, TaskFacts DEF ToSet

LEMMA CountFacts ==
    ASSUME CountInv, lastKey \in Nat, version \in Nat, NEW s
    PROVE  /\ Cardinality(dirty) \in Nat /\ lastKey <= version
           /\ IsFiniteSet(dirty \union {s}) /\ Cardinality(dirty \union {s}) \in Nat
           /\ Cardinality(dirty \union {s}) <= Cardinality(dirty) + 1
           /\ IsFiniteSet(dirty \ {s}) /\ Cardinality(dirty \ {s}) \in Nat
           /\ s \in dirty => Cardinality(dirty \ {s}) = Cardinality(dirty) - 1
           /\ s \notin dirty => dirty \ {s} = dirty
           /\ IsFiniteSet({}) /\ Cardinality({}) = 0
<1>1. IsFiniteSet(dirty) /\ Cardinality(dirty) \in Nat
  BY FS_CardinalityType DEF CountInv
<1>2. /\ IsFiniteSet(dirty \union {s})
      /\ Cardinality(dirty \union {s}) = IF s \in dirty THEN Cardinality(dirty) ELSE Cardinality(dirty) + 1
  BY <1>1, FS_AddElement
<1>3. /\ IsFiniteSet(dirty \ {s})
      /\ Cardinality(dirty \ {s}) = IF s \in dirty THEN Cardinality(dirty) - 1 ELSE Cardinality(dirty)
  BY <1>1, FS_RemoveElement
<1>4. Cardinality(dirty \ {s}) \in Nat
  BY <1>3, FS_CardinalityType
<1>5. IsFiniteSet({}) /\ Cardinality({}) = 0
  BY FS_EmptySet
<1>6. lastKey + Cardinality(dirty) <= version
  BY DEF CountInv
<1> QED
  BY <1>1, <1>2, <1>3, <1>4, <1>5, <1>6

\* The inbox grows at its end while there is no sync in it.
LEMMA NoSyncYet ==
    ASSUME inbox \in Seq(Task), \A i \in DOMAIN inbox : inbox[i] # Sync,
           NEW e \in Task, e # Sync, inbox' = Append(inbox, e)
    PROVE  \A i \in DOMAIN inbox' : inbox'[i] # Sync
  BY AppendFacts

LEMMA SyncIsLast ==
    ASSUME NEW q \in Seq(Task), \A i \in DOMAIN q : q[i] # Sync, inbox' = Append(q, Sync)
    PROVE  /\ \E i \in DOMAIN inbox' :
                inbox'[i] = Sync /\ \A j \in DOMAIN inbox' : j > i => inbox'[j] = Scheduled
           /\ \A i, j \in DOMAIN inbox' : inbox'[i] = Sync /\ inbox'[j] = Sync => i = j
<1>1. Sync \in Task
  BY DEF Task
<1>2. /\ DOMAIN q = 1..Len(q) /\ DOMAIN inbox' = 1..(Len(q) + 1) /\ Len(q) \in Nat
      /\ inbox'[Len(q) + 1] = Sync /\ \A i \in DOMAIN q : inbox'[i] = q[i]
  BY <1>1, AppendFacts
<1>3. \A i \in DOMAIN inbox' : i = Len(q) + 1 \/ (i \in DOMAIN q /\ inbox'[i] # Sync)
  BY <1>2
<1>4. Len(q) + 1 \in DOMAIN inbox' /\ \A j \in DOMAIN inbox' : ~(j > Len(q) + 1)
  BY <1>2
<1> QED
  BY <1>2, <1>3, <1>4

\* A task other than a sync is taken, and perhaps scheduled again.
LEMMA SyncMovesUp ==
    ASSUME inbox \in Seq(Task), inbox # <<>>, SyncInv, UNCHANGED <<state, dirty, mapChanged, keyOf>>,
           \/ inbox' = inbox
           \/ Head(inbox) # Sync /\ (inbox' = Tail(inbox) \/ inbox' = Append(Tail(inbox), Scheduled))
    PROVE  SyncInv'
<1>1. CASE inbox' = inbox
  BY <1>1 DEF SyncInv
<1>2. CASE Head(inbox) # Sync /\ (inbox' = Tail(inbox) \/ inbox' = Append(Tail(inbox), Scheduled))
  <2> DEFINE t == Tail(inbox)
  <2>1. Scheduled \in Task /\ Scheduled # Sync
    BY TaskFacts DEF Task
  <2>2. /\ t \in Seq(Task) /\ Len(inbox) \in Nat /\ Len(inbox) > 0 /\ Head(inbox) = inbox[1]
        /\ DOMAIN inbox = 1..Len(inbox) /\ DOMAIN t = 1..(Len(inbox) - 1) /\ Len(t) = Len(inbox) - 1
        /\ \A i \in DOMAIN t : t[i] = inbox[i + 1]
    BY TailFacts
  <2> HIDE DEF t
  <2>3. /\ \A i \in DOMAIN t : i \in DOMAIN inbox' /\ inbox'[i] = t[i]
        /\ \A i \in DOMAIN inbox' : i \in Nat
        /\ \A i \in DOMAIN inbox' : i \in DOMAIN t \/ inbox'[i] = Scheduled
    <3>1. CASE inbox' = t
      <4>1. \A i \in DOMAIN t : i \in Nat
        BY <2>2
      <4> QED
        BY <3>1, <4>1
    <3>2. CASE inbox' = Append(t, Scheduled)
      <4>1. /\ DOMAIN t = 1..Len(t) /\ DOMAIN inbox' = 1..(Len(t) + 1) /\ Len(t) \in Nat
            /\ inbox'[Len(t) + 1] = Scheduled /\ \A i \in DOMAIN t : inbox'[i] = t[i]
        <5>1. t \in Seq(Task)
          BY <2>2
        <5> QED
          BY <2>1, <3>2, <5>1, AppendFacts
      <4> QED
        BY <4>1
    <3> QED
      BY <1>2, <3>1, <3>2 DEF t
  <2>4. \A i \in DOMAIN inbox' : inbox'[i] = Scheduled
                                 \/ (i + 1 \in DOMAIN inbox /\ inbox'[i] = inbox[i + 1])
    BY <2>2, <2>3
  <2>5. ASSUME NEW i \in DOMAIN inbox, inbox[i] = Sync,
               \A j \in DOMAIN inbox : j > i => inbox[j] = Scheduled
        PROVE  \E k \in DOMAIN inbox' :
                 inbox'[k] = Sync /\ \A j \in DOMAIN inbox' : j > k => inbox'[j] = Scheduled
    <3>1. i # 1 /\ i - 1 \in DOMAIN t /\ inbox'[i - 1] = Sync /\ i - 1 \in DOMAIN inbox'
      BY <1>2, <2>2, <2>3, <2>5
    <3>2. ASSUME NEW j \in DOMAIN inbox', j > i - 1 PROVE inbox'[j] = Scheduled
      <4>1. j \in Nat /\ j + 1 > i
        BY <2>2, <2>3, <3>2
      <4> QED
        BY <2>4, <2>5, <4>1
    <3> QED
      BY <3>1, <3>2
  <2>6. ASSUME NEW i \in DOMAIN inbox', NEW j \in DOMAIN inbox', inbox'[i] = Sync, inbox'[j] = Sync
        PROVE  i = j
    <3>1. i + 1 = j + 1
      BY <2>1, <2>4, <2>6 DEF SyncInv
    <3> QED
      BY <2>3, <3>1
  <2>7. (\A i \in DOMAIN inbox : inbox[i] # Sync) => \A i \in DOMAIN inbox' : inbox'[i] # Sync
    BY <2>1, <2>4
  <2> QED
    BY <2>5, <2>6, <2>7 DEF SyncInv
<1> QED
  BY <1>1, <1>2

-------------------------------------------------------------------------------
(* Every step keeps the invariant: the user and the main thread *)

LEMMA SlotWritten ==
    ASSUME IInv, NEW s \in Slots, NEW c \in 1..MaxChanges, Write(s, c), CountInv',
           version' \in 0..MaxChanges, lastKey' \in Nat,
           \A u \in Slots : data'[u] = IF u = s THEN c ELSE data[u],
           data' \in [Slots -> 0..MaxChanges],
           dirty' = dirty \ {s}, UNCHANGED <<state, scheduled, current, mapFile, removing, stops>>,
           state \in {"up", "exiting"}, Remember
    PROVE  IInv'
<1>0. lastKey' \in Key
  <2>1. Cardinality(dirty') \in Nat /\ lastKey' + Cardinality(dirty') <= version'
    BY FS_CardinalityType DEF CountInv
  <2> QED
    BY <2>1, BoundsAssumption DEF Key, FileKeys
<1>1. PICK k \in FileKeys :
        /\ Given(s, c, k) /\ Adds(Entry(k, c)) /\ Entry(k, c) \in Entries
        /\ inbox' = Append(inbox, Entry(k, c))
        /\ k <= lastKey' /\ lastKey <= lastKey'
        /\ UNCHANGED <<files, contested>>
        /\ \/ k = keyOf[s] /\ lastKey' = lastKey /\ mapChanged' = mapChanged
           \/ keyOf[s] = NoKey /\ lastKey < k /\ mapChanged'
  BY <1>0, WriteGiven
<1>2. /\ KeysInv' /\ FinalInv'
      /\ \A u \in Slots :
           recent[u] \subseteq recent'[u] /\ Wanted(u)' \in recent'[u] => Covers(recent[u], u)'
  BY <1>1, WriteKeeps
<1>3. QueueInv'
  <2>1. inbox' \in Seq(Task) /\ (inbox # <<>> => inbox' # <<>> /\ Head(inbox') = Head(inbox))
    BY <1>1 DEF Adds
  <2> QED
    BY <1>1, <2>1 DEF QueueInv, IInv
<1>4. TypeOK'
  <2>1. /\ \A t \in ToSet(inbox') : IsEntry(t) => t \in Entries
        /\ \A e \in ToSet(scheduled') : e \in Entries
    BY <1>3, QueueTyped
  <2>2. \A u \in Slots : recent'[u] \subseteq 0..MaxChanges
    BY RecentTyped DEF IInv
  <2>3. /\ mapChanged' \in BOOLEAN /\ mapTimer' \in BOOLEAN
    BY DEF IInv, TypeOK, Write
  <2>4. mapPosted' \in Nat
    BY DEF IInv, TypeOK, Write
  <2>5. keyOf' \in [Slots -> FileKeys \union {NoKey}]
    BY <1>1 DEF IInv, TypeOK, Given
  <2> QED
    BY <1>0, <1>1, <2>1, <2>2, <2>3, <2>4, <2>5 DEF IInv, TypeOK, Given, Key
<1>5. SyncInv'
  <2>1. \A i \in DOMAIN inbox : inbox[i] # Sync
    BY DEF IInv, SyncInv
  <2>2. Entry(k, c) # Sync
    BY <1>1, TaskFacts
  <2>3. inbox' = Append(inbox, Entry(k, c)) /\ Entry(k, c) \in Task /\ inbox \in Seq(Task)
    BY <1>1, TaskFacts DEF IInv, QueueInv
  <2>4. \A i \in DOMAIN inbox' : inbox'[i] # Sync
    BY <2>1, <2>2, <2>3, NoSyncYet
  <2> QED
    BY <2>4 DEF SyncInv
<1>6. RecentInv'
  BY <1>2, <1>3, <1>4, Remembered DEF LoggedOut
<1> QED
  BY <1>2, <1>3, <1>4, <1>5, <1>6 DEF IInv

LEMMA SlotRemoved ==
    ASSUME IInv, NEW s \in Slots, RemoveFile(s), CountInv', version' \in 0..MaxChanges,
           \A u \in Slots : data'[u] = IF u = s THEN 0 ELSE data[u],
           data' \in [Slots -> 0..MaxChanges],
           dirty' = dirty \ {s}, UNCHANGED <<state, scheduled, current, mapFile, removing, stops>>,
           state \in {"up", "exiting"}, Remember
    PROVE  IInv'
<1>1. /\ Given(s, 0, NoKey) /\ UNCHANGED <<lastKey, inbox>>
      /\ mapChanged' \/ (keyOf' = keyOf /\ mapChanged' = mapChanged)
      /\ \A j \in FileKeys : files'[j] = IF j = keyOf[s] THEN 0 ELSE files[j]
      /\ contested' => \/ contested
                       \/ current \in OnTheWay /\ current.base = keyOf[s] /\ keyOf[s] # NoKey
  BY RemoveGiven
<1>2. /\ KeysInv' /\ FinalInv'
      /\ \A u \in Slots :
           recent[u] \subseteq recent'[u] /\ Wanted(u)' \in recent'[u] => Covers(recent[u], u)'
  BY <1>1, RemoveKeeps
<1>3. QueueInv'
  <2>1. contested' \in BOOLEAN
    BY DEF RemoveFile, ClearKey, IInv, QueueInv
  <2> QED
    BY <1>1, <2>1 DEF QueueInv, IInv
<1>4. TypeOK'
  <2>2. \A u \in Slots : recent'[u] \subseteq 0..MaxChanges
    BY RecentTyped DEF IInv
  <2>3. /\ mapChanged' \in BOOLEAN /\ mapTimer' \in BOOLEAN /\ mapPosted' \in Nat
    BY DEF IInv, TypeOK, RemoveFile
  <2>4. keyOf' \in [Slots -> FileKeys \union {NoKey}]
    BY <1>1 DEF IInv, TypeOK, Given
  <2>5. files' \in [FileKeys -> 0..MaxChanges]
    BY BoundsAssumption DEF IInv, TypeOK, RemoveFile, ClearKey
  <2>6. contested' => current' # Nothing
    BY DEF IInv, TypeOK, RemoveFile, ClearKey
  <2> QED
    BY <1>1, <2>2, <2>3, <2>4, <2>5, <2>6 DEF IInv, TypeOK, Given
<1>5. SyncInv'
  BY <1>1 DEF IInv, SyncInv
<1>6. RecentInv'
  BY <1>2, <1>3, <1>4, Remembered DEF LoggedOut
<1> QED
  BY <1>2, <1>3, <1>4, <1>5, <1>6 DEF IInv

LEMMA SaveNowKeeps == ASSUME IInv, NEW s \in Slots, SaveNow(s) PROVE IInv'
<1>1. /\ lastKey \in Nat /\ version \in Nat /\ version < MaxChanges /\ version' = version + 1
      /\ s \notin dirty /\ dirty' = dirty /\ MaxChanges \in Nat
      /\ lastKey' = lastKey \/ lastKey' = lastKey + 1
  BY TypeFacts, BoundsAssumption DEF IInv, TypeOK, SaveNow, Change, Write
<1>2. CountInv' /\ lastKey' \in Nat
  <2>1. IsFiniteSet(dirty) /\ Cardinality(dirty) \in Nat /\ lastKey + Cardinality(dirty) <= version
    BY FS_CardinalityType DEF IInv, CountInv
  <2> QED
    BY <1>1, <2>1 DEF CountInv
<1>3. /\ version + 1 \in 1..MaxChanges /\ version' \in 0..MaxChanges
  BY <1>1
<1>4. /\ data' = [data EXCEPT ![s] = version + 1] /\ data \in [Slots -> 0..MaxChanges]
      /\ state = "up" /\ Write(s, version + 1) /\ Remember
      /\ UNCHANGED <<state, scheduled, current, mapFile, removing, stops>>
  BY DEF SaveNow, Change, IInv, TypeOK
<1>5. PICK c \in 1..MaxChanges : c = version + 1
  BY <1>3
<1>6. /\ \A u \in Slots : data'[u] = IF u = s THEN c ELSE data[u]
      /\ data' \in [Slots -> 0..MaxChanges] /\ Write(s, c)
  BY <1>4, <1>5
<1>7. dirty' = dirty \ {s}
  BY <1>1
<1> QED
  BY <1>2, <1>3, <1>4, <1>6, <1>7, SlotWritten

LEMMA ClearNowKeeps == ASSUME IInv, NEW s \in Slots, ClearNow(s) PROVE IInv'
<1>1. /\ lastKey \in Nat /\ version \in Nat /\ version < MaxChanges /\ version' = version + 1
      /\ s \notin dirty /\ dirty' = dirty /\ MaxChanges \in Nat
      /\ lastKey' = lastKey
  BY TypeFacts, BoundsAssumption DEF IInv, TypeOK, ClearNow, Change, RemoveFile
<1>2. CountInv' /\ version' \in 0..MaxChanges
  <2>1. IsFiniteSet(dirty) /\ Cardinality(dirty) \in Nat /\ lastKey + Cardinality(dirty) <= version
    BY FS_CardinalityType DEF IInv, CountInv
  <2> QED
    BY <1>1, <2>1 DEF CountInv
<1>3. /\ data' = [data EXCEPT ![s] = 0] /\ data \in [Slots -> 0..MaxChanges]
      /\ state = "up" /\ RemoveFile(s) /\ Remember
      /\ UNCHANGED <<state, scheduled, current, mapFile, removing, stops>>
  BY DEF ClearNow, Change, IInv, TypeOK
<1>4. /\ \A u \in Slots : data'[u] = IF u = s THEN 0 ELSE data[u]
      /\ data' \in [Slots -> 0..MaxChanges] /\ dirty' = dirty \ {s}
  BY <1>1, <1>3
<1> QED
  BY <1>2, <1>3, <1>4, SlotRemoved

LEMMA WritePrefsKeeps == ASSUME IInv, NEW s \in Slots, WritePrefs(s) PROVE IInv'
<1>1. /\ lastKey \in Nat /\ version \in Nat /\ version' = version /\ version \in 0..MaxChanges
      /\ s \in dirty /\ dirty' = dirty \ {s}
      /\ lastKey' = lastKey \/ lastKey' = lastKey + 1
      /\ data' = data /\ data \in [Slots -> 0..MaxChanges]
      /\ state \in {"up", "exiting"} /\ Remember
      /\ UNCHANGED <<state, scheduled, current, mapFile, removing, stops>>
  BY TypeFacts DEF IInv, TypeOK, WritePrefs, Write, RemoveFile
<1>2. CountInv' /\ lastKey' \in Nat
  <2>1. /\ Cardinality(dirty) \in Nat /\ IsFiniteSet(dirty')
        /\ Cardinality(dirty') = Cardinality(dirty) - 1
        /\ lastKey + Cardinality(dirty) <= version
    BY <1>1, CountFacts DEF IInv, CountInv
  <2> QED
    BY <1>1, <2>1 DEF CountInv
<1>3. CASE data[s] = 0
  <2>1. RemoveFile(s) /\ \A u \in Slots : data'[u] = IF u = s THEN 0 ELSE data[u]
    BY <1>1, <1>3 DEF WritePrefs
  <2> QED
    BY <1>1, <1>2, <2>1, SlotRemoved
<1>4. CASE data[s] # 0
  <2>1. PICK c \in 1..MaxChanges : c = data[s]
    BY <1>1, <1>4
  <2>2. Write(s, c) /\ \A u \in Slots : data'[u] = IF u = s THEN c ELSE data[u]
    BY <1>1, <1>4, <2>1 DEF WritePrefs
  <2> QED
    BY <1>1, <1>2, <2>2, SlotWritten
<1> QED
  BY <1>3, <1>4

LEMMA ChangePrefsKept == ASSUME IInv, NEW s \in Slots, ChangePrefs(s) PROVE IInv'
<1>1. /\ lastKey \in Nat /\ version \in Nat /\ version < MaxChanges /\ version' = version + 1
      /\ dirty' = dirty \union {s} /\ MaxChanges \in Nat /\ s \in Delayed
      /\ UNCHANGED <<state, lastKey, keyOf, mapState, queue, disk, removing, stops, stale>>
      /\ state = "up" /\ Remember
      /\ data' = [data EXCEPT ![s] = version + 1] \/ data' = [data EXCEPT ![s] = 0]
  BY TypeFacts, BoundsAssumption DEF IInv, ChangePrefs, Change
<1>2. CountInv'
  <2>1. /\ Cardinality(dirty) \in Nat /\ IsFiniteSet(dirty') /\ Cardinality(dirty') \in Nat
        /\ Cardinality(dirty') <= Cardinality(dirty) + 1
        /\ lastKey + Cardinality(dirty) <= version
    BY <1>1, CountFacts DEF IInv, CountInv
  <2> QED
    BY <1>1, <2>1 DEF CountInv
<1>3. /\ KeysInv' /\ FinalInv'
      /\ \A u \in Slots :
           recent[u] \subseteq recent'[u] /\ Wanted(u)' \in recent'[u] => Covers(recent[u], u)'
  BY ChangePrefsKeeps
<1>4. QueueInv'
  BY <1>1 DEF IInv, QueueInv, queue
<1>5. data' \in [Slots -> 0..MaxChanges]
  BY <1>1 DEF IInv, TypeOK
<1>6. TypeOK'
  <2>1. \A u \in Slots : recent'[u] \subseteq 0..MaxChanges
    BY <1>1, <1>5, RecentTyped DEF IInv
  <2> QED
    BY <1>1, <1>5, <2>1 DEF IInv, TypeOK, mapState, queue, disk
<1>7. SyncInv'
  BY <1>1 DEF IInv, SyncInv, mapState, queue
<1>8. RecentInv'
  BY <1>1, <1>3, <1>4, <1>6, Remembered DEF LoggedOut
<1> QED
  BY <1>2, <1>3, <1>4, <1>6, <1>7, <1>8 DEF IInv

LEMMA WriteMapKeeps == ASSUME IInv, WriteMap PROVE IInv'
<1>1. /\ state = "up" /\ state' = state /\ Remember /\ mapChanged' = FALSE /\ mapTimer' = FALSE
      /\ UNCHANGED <<memory, scheduled, current, contested, disk, removing, stops, stale>>
      /\ inbox' = IF mapChanged THEN Append(inbox, Entry(Map, keyOf)) ELSE inbox
  BY DEF WriteMap
<1>2. PICK map \in KeyMap : map = keyOf
  BY TypeFacts DEF IInv
<1>3. Entry(Map, map) \in Task /\ Entry(Map, map) # Sync /\ inbox \in Seq(Task)
  BY TaskFacts DEF IInv, QueueInv
<1>4. QueueInv'
  <2>1. inbox' \in Seq(Task) /\ (inbox # <<>> => inbox' # <<>> /\ Head(inbox') = Head(inbox))
    <3>1. /\ Append(inbox, Entry(Map, map)) \in Seq(Task)
          /\ Append(inbox, Entry(Map, map)) # <<>>
          /\ inbox # <<>> => Head(Append(inbox, Entry(Map, map))) = Head(inbox)
      BY <1>3, AppendFacts
    <3> QED
      BY <1>1, <1>2, <1>3, <3>1
  <2> QED
    BY <1>1, <2>1 DEF IInv, QueueInv
<1>5. TypeOK'
  <2>1. /\ \A t \in ToSet(inbox') : IsEntry(t) => t \in Entries
    BY <1>4, QueueTyped
  <2>2. \A s \in Slots : recent'[s] \subseteq 0..MaxChanges
    <3>1. \A s \in Slots : data'[s] \in 0..MaxChanges
      BY <1>1 DEF IInv, TypeOK, memory
    <3> QED
      BY <1>1, <3>1, RecentTyped DEF IInv
  <2>3. mapPosted' \in Nat
    BY DEF IInv, TypeOK, WriteMap
  <2> QED
    BY <1>1, <2>1, <2>2, <2>3 DEF IInv, TypeOK, memory, disk
<1>6. CountInv'
  BY <1>1 DEF IInv, CountInv, memory
<1>7. SyncInv'
  <2>1. \A i \in DOMAIN inbox : inbox[i] # Sync
    BY <1>1 DEF IInv, SyncInv
  <2>2. \A i \in DOMAIN inbox' : inbox'[i] # Sync
    <3>1. CASE mapChanged
      BY <1>1, <1>2, <1>3, <2>1, <3>1, NoSyncYet
    <3>2. CASE ~mapChanged
      BY <1>1, <2>1, <3>2
    <3> QED
      BY <3>1, <3>2
  <2> QED
    BY <1>1, <2>2 DEF SyncInv
<1>8. CASE mapChanged
  <2>1. Adds(Entry(Map, map))
    BY <1>1, <1>2, <1>3, <1>8, AppendAdds
  <2>2. /\ KeysInv' /\ FinalInv'
        /\ \A u \in Slots :
             recent[u] \subseteq recent'[u] /\ Wanted(u)' \in recent'[u] => Covers(recent[u], u)'
    BY <1>1, <1>2, <2>1, MapKeeps DEF disk
  <2>3. RecentInv'
    BY <1>1, <1>4, <1>5, <2>2, Remembered DEF LoggedOut
  <2> QED
    BY <1>4, <1>5, <1>6, <1>7, <2>2, <2>3 DEF IInv
<1>9. CASE ~mapChanged
  <2>1. GoesOn
    BY <1>1, <1>9, StillGoesOn DEF memory, disk
  <2>2. Quiet
    BY <1>1, <1>9, <2>1 DEF Quiet, memory, disk, IInv, TypeOK, KeysInv
  <2>3. /\ KeysInv' /\ FinalInv'
        /\ \A u \in Slots :
             recent[u] \subseteq recent'[u] /\ Wanted(u)' \in recent'[u] => Covers(recent[u], u)'
    BY <2>2, QuietKeys, QuietFinal, QuietCovers
  <2>4. RecentInv'
    BY <1>1, <1>4, <1>5, <2>3, Remembered DEF LoggedOut
  <2> QED
    BY <1>4, <1>5, <1>6, <1>7, <2>3, <2>4 DEF IInv
<1> QED
  BY <1>8, <1>9

LEMMA ExitWritesMapKeeps == ASSUME IInv, ExitWritesMap PROVE IInv'
<1>1. /\ state = "exiting" /\ state' = "finishing" /\ dirty = {}
      /\ mapChanged' = FALSE /\ mapTimer' = FALSE /\ mapPosted' = 0 /\ Remember
      /\ inbox' = inbox \o (IF mapChanged THEN <<Entry(Map, keyOf), Sync>> ELSE <<Sync>>)
      /\ UNCHANGED <<memory, scheduled, current, contested, disk, removing, stops, stale>>
  BY DEF ExitWritesMap
<1>2. PICK map \in KeyMap : map = keyOf
  BY TypeFacts DEF IInv
<1>3. /\ Entry(Map, map) \in Task /\ Entry(Map, map) # Sync /\ inbox \in Seq(Task)
      /\ Sync \in Task /\ ~IsEntry(Sync)
  BY TaskFacts DEF IInv, QueueInv, Task
<1>4. \A i \in DOMAIN inbox : inbox[i] # Sync
  BY <1>1 DEF IInv, SyncInv
<1> DEFINE q == Append(inbox, Entry(Map, map))
<1>5. q \in Seq(Task) /\ \A i \in DOMAIN q : q[i] # Sync
  BY <1>3, <1>4, AppendFacts
<1>6. mapChanged => inbox' = Append(q, Sync) /\ Adds(Entry(Map, map))
  BY <1>1, <1>2, <1>3, SyncAdds
<1>7. ~mapChanged => inbox' = Append(inbox, Sync) /\ Adds(Sync)
  BY <1>1, <1>3, AppendAdds
<1> HIDE DEF q
<1>8. QueueInv'
  BY <1>1, <1>6, <1>7 DEF IInv, QueueInv, Adds
<1>9. TypeOK'
  <2>1. /\ \A t \in ToSet(inbox') : IsEntry(t) => t \in Entries
    BY <1>8, QueueTyped
  <2>2. \A s \in Slots : recent'[s] \subseteq 0..MaxChanges
    <3>1. \A s \in Slots : data'[s] \in 0..MaxChanges
      BY <1>1 DEF IInv, TypeOK, memory
    <3> QED
      BY <1>1, <3>1, RecentTyped DEF IInv
  <2> QED
    BY <1>1, <2>1, <2>2 DEF IInv, TypeOK, memory, disk
<1>10. CountInv'
  BY <1>1 DEF IInv, CountInv, memory
<1>11. SyncInv'
  <2>1. /\ \E i \in DOMAIN inbox' :
             inbox'[i] = Sync /\ \A j \in DOMAIN inbox' : j > i => inbox'[j] = Scheduled
        /\ \A i, j \in DOMAIN inbox' : inbox'[i] = Sync /\ inbox'[j] = Sync => i = j
    <3>1. CASE mapChanged
      BY <1>5, <1>6, <3>1, SyncIsLast
    <3>2. CASE ~mapChanged
      BY <1>3, <1>4, <1>7, <3>2, SyncIsLast
    <3> QED
      BY <3>1, <3>2
  <2> QED
    BY <1>1, <2>1 DEF SyncInv, memory
<1>12. /\ KeysInv' /\ FinalInv'
       /\ \A u \in Slots :
            recent[u] \subseteq recent'[u] /\ Wanted(u)' \in recent'[u] => Covers(recent[u], u)'
  <2>1. CASE mapChanged
    BY <1>1, <1>2, <1>6, <2>1, MapKeeps DEF disk
  <2>2. CASE ~mapChanged
    <3>1. GoesOn
      BY <1>1, <1>3, <1>7, <2>2, SyncGoesOn DEF memory, disk
    <3>2. Quiet
      BY <1>1, <2>2, <3>1 DEF Quiet, memory, disk, IInv, TypeOK, KeysInv
    <3> QED
      BY <3>2, QuietKeys, QuietFinal, QuietCovers
  <2> QED
    BY <2>1, <2>2
<1>13. RecentInv'
  BY <1>1, <1>8, <1>9, <1>12, Remembered DEF LoggedOut
<1> QED
  BY <1>8, <1>9, <1>10, <1>11, <1>12, <1>13 DEF IInv

LEMMA ResetKept == ASSUME IInv, Reset PROVE IInv'
<1>1. /\ state = "up" /\ state' = "leaving" /\ stops' = stops + 1 /\ stops < MaxStops
      /\ mapChanged' = FALSE /\ mapTimer' = FALSE /\ keyOf' = NoKeys
      /\ removing' = KeysOf(keyOf) /\ stale' = Delayed \ dirty
      /\ data' = [s \in Slots |-> IF s \in Delayed THEN data[s] ELSE 0]
      /\ inbox' = inbox \o <<Entry(Map, NoKeys), Sync>>
      /\ UNCHANGED <<version, lastKey, dirty, mapPosted, scheduled, current, contested, disk>>
      /\ recent' = [s \in Slots |-> recent[s] \union {0, data[s]}]
  BY DEF Reset
<1>2. NoKeys \in KeyMap /\ \A s \in Slots : NoKeys[s] = NoKey
  BY DEF NoKeys, KeyMap, Key
<1>3. /\ Entry(Map, NoKeys) \in Task /\ Entry(Map, NoKeys) # Sync /\ inbox \in Seq(Task)
      /\ Sync \in Task /\ ~IsEntry(Sync)
  BY <1>2, TaskFacts DEF IInv, QueueInv, Task
<1>4. \A i \in DOMAIN inbox : inbox[i] # Sync
  BY <1>1 DEF IInv, SyncInv
<1> DEFINE q == Append(inbox, Entry(Map, NoKeys))
<1>5. q \in Seq(Task) /\ \A i \in DOMAIN q : q[i] # Sync
  BY <1>3, <1>4, AppendFacts
<1>6. inbox' = Append(q, Sync) /\ Adds(Entry(Map, NoKeys))
  BY <1>1, <1>3, SyncAdds
<1> HIDE DEF q
<1>7. QueueInv'
  BY <1>1, <1>6 DEF IInv, QueueInv, Adds
<1>8. TypeOK'
  <2>1. /\ \A t \in ToSet(inbox') : IsEntry(t) => t \in Entries
    BY <1>7, QueueTyped
  <2>2. removing' \subseteq FileKeys
    BY <1>1 DEF IInv, TypeOK, KeysOf
  <2>3. data' \in [Slots -> 0..MaxChanges]
    BY <1>1, BoundsAssumption DEF IInv, TypeOK
  <2>4. \A s \in Slots : recent'[s] \subseteq 0..MaxChanges
    BY <1>1, BoundsAssumption DEF IInv, TypeOK
  <2>5. stops' \in 0..MaxStops
    BY <1>1, BoundsAssumption DEF IInv, TypeOK
  <2>6. keyOf' \in [Slots -> FileKeys \union {NoKey}]
    BY <1>1, <1>2 DEF KeyMap, Key
  <2> QED
    BY <1>1, <2>1, <2>2, <2>3, <2>4, <2>5, <2>6 DEF IInv, TypeOK, disk
<1>9. CountInv'
  BY <1>1 DEF IInv, CountInv
<1>10. SyncInv'
  <2>1. /\ \E i \in DOMAIN inbox' :
             inbox'[i] = Sync /\ \A j \in DOMAIN inbox' : j > i => inbox'[j] = Scheduled
        /\ \A i, j \in DOMAIN inbox' : inbox'[i] = Sync /\ inbox'[j] = Sync => i = j
    BY <1>5, <1>6, SyncIsLast
  <2> QED
    BY <1>1, <1>2, <2>1 DEF SyncInv
<1> QED
  BY <1>7, <1>8, <1>9, <1>10, ResetKeeps DEF IInv

LEMMA StartKept == ASSUME IInv, Start PROVE IInv'
<1>1. /\ state = "down" /\ state' = "up" /\ Remember
      /\ dirty' = {} /\ stale' = {} /\ removing' = {} /\ mapPosted' = 0
      /\ inbox' = <<>> /\ scheduled' = <<>> /\ current' = Nothing /\ contested' = FALSE
      /\ data' = [s \in Slots |-> Stored(s)]
      /\ UNCHANGED <<version, lastKey, disk, stops>>
  BY DEF Start
<1>2. /\ mapFile \in KeyMap /\ files \in [FileKeys -> 0..MaxChanges]
      /\ \A s \in Slots : mapFile[s] \in Key
  BY TypeFacts DEF IInv, KeyMap
<1>3. QueueInv'
  <2>1. inbox' \in Seq(Task) /\ scheduled' \in Seq(Entries)
    BY <1>1, EmptySeq
  <2>2. contested' \in BOOLEAN
    BY <1>1
  <2> QED
    BY <1>1, <2>1, <2>2 DEF QueueInv
<1>4. data' \in [Slots -> 0..MaxChanges]
  <2>1. \A s \in Slots : Stored(s) \in 0..MaxChanges
    BY <1>2, BoundsAssumption DEF Stored, Key
  <2> QED
    BY <1>1, <2>1
<1>5. keyOf' \in [Slots -> FileKeys \union {NoKey}] /\ mapChanged' \in BOOLEAN /\ mapTimer' \in BOOLEAN
  BY <1>2 DEF Start, KeyMap, Key
<1>6. TypeOK'
  <2>1. /\ \A t \in ToSet(inbox') : IsEntry(t) => t \in Entries
        /\ \A e \in ToSet(scheduled') : e \in Entries
    BY <1>3, QueueTyped
  <2>2. \A s \in Slots : recent'[s] \subseteq 0..MaxChanges
    BY <1>1, <1>4, RecentTyped DEF IInv
  <2> QED
    BY <1>1, <1>4, <1>5, <2>1, <2>2 DEF IInv, TypeOK, disk
<1>7. CountInv'
  <2>1. lastKey \in Nat /\ version \in Nat
    BY TypeFacts DEF IInv
  <2>2. lastKey <= version /\ IsFiniteSet({}) /\ Cardinality({}) = 0
    BY <2>1, CountFacts DEF IInv
  <2> QED
    BY <1>1, <2>1, <2>2 DEF CountInv
<1>8. SyncInv'
  BY <1>1 DEF SyncInv
<1>9. /\ KeysInv' /\ FinalInv'
      /\ \A s \in Slots :
           recent[s] \subseteq recent'[s] /\ Wanted(s)' \in recent'[s] => Covers(recent[s], s)'
  BY StartKeeps
<1>10. RecentInv'
  BY <1>1, <1>3, <1>6, <1>9, Remembered DEF LoggedOut
<1> QED
  BY <1>3, <1>6, <1>7, <1>8, <1>9, <1>10 DEF IInv

-------------------------------------------------------------------------------
(* Every step keeps the invariant: the manager and what goes on behind it *)

LEMMA QuietTyped ==
    ASSUME IInv, QueueInv', Remember \/ recent' = recent,
           UNCHANGED <<memory, mapState, stale>>,
           state' \in {"up", "exiting", "finishing", "leaving", "down"},
           stops' \in 0..MaxStops, removing' \subseteq removing,
           files' \in [FileKeys -> 0..MaxChanges], mapFile' \in KeyMap,
           current' # Nothing => current' \in Entries,
           contested' => current' # Nothing,
           Unique(scheduled')
    PROVE  TypeOK'
<1>1. /\ \A t \in ToSet(inbox') : IsEntry(t) => t \in Entries
      /\ \A e \in ToSet(scheduled') : e \in Entries
  BY QueueTyped
<1>2. /\ data' \in [Slots -> 0..MaxChanges] /\ version' \in 0..MaxChanges
      /\ lastKey' \in FileKeys \union {NoKey} /\ dirty' \subseteq Delayed
      /\ keyOf' \in [Slots -> FileKeys \union {NoKey}]
      /\ stale' \subseteq Delayed /\ mapPosted' \in Nat
  BY DEF IInv, TypeOK, memory, mapState
<1>3. mapChanged' \in BOOLEAN /\ mapTimer' \in BOOLEAN
  BY DEF IInv, TypeOK, mapState
<1>4. \A s \in Slots : recent'[s] \subseteq 0..MaxChanges
  <2>1. \A s \in Slots : data'[s] \in 0..MaxChanges
    BY <1>2
  <2> QED
    BY <2>1, RecentTyped DEF IInv, TypeOK
<1>5. removing' \subseteq FileKeys
  BY DEF IInv, TypeOK
<1> QED
  BY <1>1, <1>2, <1>3, <1>4, <1>5 DEF TypeOK, KeyMap, Key, Unique

LEMMA QuietKept ==
    ASSUME IInv, Quiet, TypeOK', QueueInv', SyncInv', Remember \/ recent' = recent,
           LoggedOut => OnTheWay' = {} /\ ~mapChanged' /\ \A s \in Slots : keyOf'[s] = NoKey
    PROVE  IInv'
<1>1. CountInv' /\ KeysInv' /\ FinalInv'
  BY QuietKeys, QuietFinal
<1>2. CASE Remember
  <2>1. \A s \in Slots :
          recent[s] \subseteq recent'[s] /\ Wanted(s)' \in recent'[s] => Covers(recent[s], s)'
    BY QuietCovers
  <2>2. RecentInv'
    BY <1>1, <1>2, <2>1, Remembered
  <2> QED
    BY <1>1, <2>2 DEF IInv
<1>3. CASE recent' = recent
  <2>1. \A s \in Slots : Covers(recent[s], s)'
    BY <1>3, QuietCovers
  <2>2. RecentInv'
    BY <2>1 DEF RecentInv
  <2> QED
    BY <1>1, <2>2 DEF IInv
<1> QED
  BY <1>2, <1>3

LEMMA RemoveLeftKeeps == ASSUME IInv, RemoveLeft PROVE IInv'
<1>1. PICK k \in removing : ClearKey(k) /\ removing' = removing \ {k}
  BY DEF RemoveLeft
<1>2. /\ UNCHANGED <<state, memory, mapState, inbox, scheduled, current, mapFile, stops, stale>>
      /\ Remember
  BY DEF RemoveLeft
<1>3. k \in FileKeys /\ k # Map /\ \A s \in Slots : keyOf[s] # k
  BY MapAssumption DEF IInv, TypeOK, KeysInv
<1>4. /\ files \in [FileKeys -> 0..MaxChanges] /\ mapFile \in KeyMap /\ Unique(scheduled)
  BY TypeFacts DEF IInv
<1>5. /\ files' \in [FileKeys -> 0..MaxChanges]
      /\ \A j \in FileKeys : files'[j] = IF j = k THEN 0 ELSE files[j]
  <2>1. files' = [files EXCEPT ![k] = 0] /\ 0 \in 0..MaxChanges
    BY <1>1, BoundsAssumption DEF ClearKey
  <2> QED
    BY <1>4, <2>1
<1>6. GoesOn
  BY <1>2, <1>3, <1>5, StillGoesOn DEF memory
<1>7. contested' => current.base # Map /\ \A s \in Slots : keyOf[s] # current.base
  BY <1>1, <1>3 DEF ClearKey, IInv, KeysInv
<1>8. Quiet
  BY <1>1, <1>2, <1>3, <1>5, <1>6, <1>7 DEF Quiet, mapState
<1>9. QueueInv'
  <2>1. contested' \in BOOLEAN
    BY <1>1 DEF ClearKey, IInv, QueueInv
  <2> QED
    BY <1>2, <2>1 DEF IInv, QueueInv
<1>10. contested' => current' # Nothing
  BY <1>1, <1>2 DEF ClearKey, IInv, TypeOK
<1>11. TypeOK'
  BY <1>1, <1>2, <1>4, <1>5, <1>9, <1>10, QuietTyped DEF IInv, TypeOK
<1>12. SyncInv'
  BY <1>2 DEF IInv, SyncInv, memory, mapState
<1> QED
  BY <1>2, <1>8, <1>9, <1>11, <1>12, QuietKept DEF LoggedOut

LEMMA ClearLegacyFilesKeeps == ASSUME IInv, ClearLegacyFiles PROVE IInv'
<1>1. /\ contested' = (contested
           \/ (current # Nothing /\ current.base \notin KeysOf(keyOf) \union {Map}))
      /\ files' = [k \in FileKeys |-> IF k \in KeysOf(keyOf) THEN files[k] ELSE 0]
      /\ UNCHANGED <<state, memory, mapState, inbox, scheduled, current, mapFile,
                     removing, stops, stale>>
      /\ Remember
  BY DEF ClearLegacyFiles
<1>2. /\ files \in [FileKeys -> 0..MaxChanges] /\ mapFile \in KeyMap /\ Unique(scheduled)
  BY TypeFacts DEF IInv
<1>3. \A k \in FileKeys : k \in KeysOf(keyOf) <=> \E s \in Slots : keyOf[s] = k
  BY DEF KeysOf, FileKeys
<1>4. /\ files' \in [FileKeys -> 0..MaxChanges]
      /\ \A k \in FileKeys : files'[k] = files[k] \/ (files'[k] = 0 /\ \A s \in Slots : keyOf[s] # k)
  BY <1>1, <1>2, <1>3, BoundsAssumption
<1>5. GoesOn
  BY <1>1, <1>4, StillGoesOn DEF memory
<1>6. contested' => current.base # Map /\ \A s \in Slots : keyOf[s] # current.base
  <2>1. current # Nothing => current.base \in FileKeys \union {Map}
    BY TaskFacts DEF IInv, TypeOK
  <2> QED
    BY <1>1, <1>3, <2>1 DEF IInv, KeysInv
<1>7. Quiet
  BY <1>1, <1>4, <1>5, <1>6 DEF Quiet, mapState
<1>8. QueueInv'
  <2>1. contested' \in BOOLEAN
    BY <1>1 DEF IInv, QueueInv
  <2> QED
    BY <1>1, <2>1 DEF IInv, QueueInv
<1>9. contested' => current' # Nothing
  BY <1>1 DEF IInv, TypeOK
<1>10. TypeOK'
  BY <1>1, <1>2, <1>4, <1>8, <1>9, QuietTyped DEF IInv, TypeOK
<1>11. SyncInv'
  BY <1>1 DEF IInv, SyncInv, memory, mapState
<1> QED
  BY <1>1, <1>7, <1>8, <1>10, <1>11, QuietKept DEF LoggedOut

LEMMA ExitKeeps == ASSUME IInv, Exit PROVE IInv'
<1>1. /\ state = "up" /\ stops < MaxStops /\ stops' = stops + 1 /\ state' = "exiting"
      /\ UNCHANGED <<memory, mapState, queue, disk, removing, stale>>
      /\ Remember
  BY DEF Exit
<1>2. /\ files \in [FileKeys -> 0..MaxChanges] /\ mapFile \in KeyMap /\ Unique(scheduled)
  BY TypeFacts DEF IInv
<1>3. GoesOn
  BY <1>1, StillGoesOn DEF memory, queue, disk
<1>4. Quiet
  BY <1>1, <1>3 DEF Quiet, mapState, queue, disk, IInv, KeysInv
<1>5. QueueInv'
  BY <1>1 DEF IInv, QueueInv, queue
<1>6. stops' \in 0..MaxStops
  BY <1>1, BoundsAssumption DEF IInv, TypeOK
<1>7. TypeOK'
  BY <1>1, <1>2, <1>5, <1>6, QuietTyped DEF IInv, TypeOK, queue, disk
<1>8. SyncInv'
  BY <1>1 DEF IInv, SyncInv, memory, mapState, queue
<1> QED
  BY <1>1, <1>4, <1>5, <1>7, <1>8, QuietKept DEF LoggedOut

LEMMA CrashKeeps == ASSUME IInv, Crash PROVE IInv'
<1>1. /\ stops < MaxStops /\ stops' = stops + 1 /\ state' = "down"
      /\ UNCHANGED <<memory, mapState, queue, disk, removing, stale, recent>>
  BY DEF Crash
<1>2. /\ files \in [FileKeys -> 0..MaxChanges] /\ mapFile \in KeyMap /\ Unique(scheduled)
  BY TypeFacts DEF IInv
<1>3. GoesOn
  BY <1>1, StillGoesOn DEF memory, queue, disk
<1>4. Quiet
  BY <1>1, <1>3 DEF Quiet, mapState, queue, disk, IInv, KeysInv
<1>5. QueueInv'
  BY <1>1 DEF IInv, QueueInv, queue
<1>6. stops' \in 0..MaxStops
  BY <1>1, BoundsAssumption DEF IInv, TypeOK
<1>7. TypeOK'
  BY <1>1, <1>2, <1>5, <1>6, QuietTyped DEF IInv, TypeOK, queue, disk
<1>8. SyncInv'
  BY <1>1 DEF IInv, SyncInv, memory, mapState, queue
<1> QED
  BY <1>1, <1>4, <1>5, <1>7, <1>8, QuietKept DEF LoggedOut

LEMMA TakeWriteKeeps == ASSUME IInv, TakeWrite PROVE IInv'
<1>1. /\ current = Nothing /\ inbox # <<>> /\ IsEntry(Head(inbox))
      /\ scheduled' = Place(Head(inbox))
      /\ inbox' = Append(Tail(inbox), Scheduled)
      /\ UNCHANGED <<state, memory, mapState, current, contested, disk, removing, stops, stale>>
      /\ Remember
  BY DEF TakeWrite
<1>2. /\ files \in [FileKeys -> 0..MaxChanges] /\ mapFile \in KeyMap /\ Unique(scheduled)
      /\ inbox \in Seq(Task) /\ scheduled \in Seq(Entries)
  BY TypeFacts DEF IInv, QueueInv
<1>3. Tail(inbox) \in Seq(Task) /\ Head(inbox) \in Task
  BY <1>1, <1>2, TailFacts
<1>4. Head(inbox) \in Entries /\ Scheduled \in Task /\ Head(inbox) # Sync
  BY <1>1, <1>3, TaskFacts DEF Task
<1>5. scheduled' \in Seq(Entries) /\ Unique(scheduled')
  BY <1>1, <1>2, <1>4, PlaceFacts
<1>6. inbox' \in Seq(Task)
  BY <1>1, <1>3, <1>4, AppendFacts
<1>7. Quiet
  BY <1>1, TakeWriteGoesOn DEF Quiet, mapState, disk, memory, IInv, KeysInv
<1>8. QueueInv'
  BY <1>1, <1>5, <1>6 DEF IInv, QueueInv
<1>9. TypeOK'
  BY <1>1, <1>2, <1>5, <1>8, QuietTyped DEF IInv, TypeOK, disk
<1>10. SyncInv'
  BY <1>1, <1>2, <1>4, SyncMovesUp DEF IInv, memory, mapState
<1> QED
  BY <1>1, <1>7, <1>8, <1>9, <1>10, QuietKept DEF LoggedOut

LEMMA StartWritingKeeps == ASSUME IInv, StartWriting PROVE IInv'
<1>1. /\ current = Nothing /\ inbox # <<>> /\ ~IsEntry(Head(inbox)) /\ scheduled # <<>>
      /\ current' = Head(scheduled) /\ scheduled' = Tail(scheduled)
      /\ UNCHANGED <<state, memory, mapState, inbox, contested, disk, removing, stops, stale>>
      /\ Remember
  BY DEF StartWriting
<1>2. /\ files \in [FileKeys -> 0..MaxChanges] /\ mapFile \in KeyMap /\ Unique(scheduled)
      /\ inbox \in Seq(Task) /\ scheduled \in Seq(Entries)
  BY TypeFacts DEF IInv, QueueInv
<1>3. /\ scheduled' \in Seq(Entries) /\ current' \in Entries
      /\ \A i \in DOMAIN scheduled' : i \in Nat /\ i + 1 \in DOMAIN scheduled /\ scheduled'[i] = scheduled[i + 1]
  BY <1>1, <1>2, TailFacts
<1>4. Unique(scheduled')
  <2> SUFFICES ASSUME NEW i \in DOMAIN scheduled', NEW j \in DOMAIN scheduled',
                      scheduled'[i].base = scheduled'[j].base
               PROVE  i = j
    BY DEF Unique
  <2>1. i + 1 = j + 1
    BY <1>2, <1>3 DEF Unique
  <2> QED
    BY <1>3, <2>1
<1>5. ~contested
  BY <1>1 DEF IInv, TypeOK
<1>6. Quiet
  BY <1>1, <1>5, StartWritingGoesOn DEF Quiet, mapState, disk, memory
<1>7. QueueInv'
  BY <1>1, <1>3 DEF IInv, QueueInv
<1>8. TypeOK'
  BY <1>1, <1>2, <1>3, <1>4, <1>5, <1>7, QuietTyped DEF IInv, TypeOK, disk
<1>9. SyncInv'
  BY <1>1 DEF IInv, SyncInv, memory, mapState
<1> QED
  BY <1>1, <1>6, <1>7, <1>8, <1>9, QuietKept DEF LoggedOut

LEMMA FinishWritingKeeps == ASSUME IInv, FinishWriting PROVE IInv'
<1>1. /\ current # Nothing /\ current' = Nothing /\ contested' = FALSE
      /\ inbox' = IF Head(inbox) = Sync THEN inbox
                  ELSE IF scheduled = <<>> THEN Tail(inbox)
                  ELSE Append(Tail(inbox), Scheduled)
      /\ UNCHANGED <<state, memory, mapState, scheduled, removing, stops, stale>>
      /\ Remember
  BY DEF FinishWriting
<1>2. /\ files \in [FileKeys -> 0..MaxChanges] /\ mapFile \in KeyMap /\ Unique(scheduled)
      /\ inbox \in Seq(Task) /\ scheduled \in Seq(Entries)
      /\ inbox # <<>> /\ ~IsEntry(Head(inbox))
      /\ current \in Entries /\ current \in OnTheWay
  BY <1>1, TypeFacts, TaskFacts, OnTheWayFacts DEF IInv, QueueInv, TypeOK
<1>3. \/ files' = files /\ mapFile' \in KeyMap
      \/ /\ mapFile' = mapFile /\ current.base \in FileKeys
         /\ \E c \in {current.content} \union (IF contested THEN {0} ELSE {}) :
              files' = [files EXCEPT ![current.base] = c]
  <2>1. CASE current.base = Map
    <3>1. mapFile' = current.content /\ files' = files
      BY <2>1 DEF FinishWriting
    <3>2. current.content \in KeyMap
      BY <1>2, <2>1, TaskFacts, MapAssumption
    <3> QED
      BY <3>1, <3>2
  <2>2. CASE current.base # Map
    <3>1. current.base \in FileKeys
      BY <1>2, <2>2, TaskFacts
    <3> QED
      BY <2>2, <3>1 DEF FinishWriting
  <2> QED
    BY <2>1, <2>2
<1>4. /\ mapFile' \in KeyMap /\ files' \in [FileKeys -> 0..MaxChanges]
      /\ \A k \in FileKeys :
           \/ files'[k] = files[k]
           \/ files'[k] = 0 /\ \A s \in Slots : keyOf[s] # k
           \/ \E e \in OnTheWay : e.base = k /\ files'[k] = e.content
  <2>1. CASE files' = files /\ mapFile' \in KeyMap
    BY <1>2, <2>1
  <2>2. CASE /\ mapFile' = mapFile /\ current.base \in FileKeys
             /\ \E c \in {current.content} \union (IF contested THEN {0} ELSE {}) :
                  files' = [files EXCEPT ![current.base] = c]
    <3>1. PICK c \in {current.content} \union (IF contested THEN {0} ELSE {}) :
            files' = [files EXCEPT ![current.base] = c]
      BY <2>2
    <3>2. c \in 0..MaxChanges
      <4>1. current.content \in 0..MaxChanges
        BY <1>2, <2>2, TaskFacts, MapAssumption, BoundsAssumption
      <4> QED
        BY <4>1, BoundsAssumption
    <3>3. c = current.content \/ (c = 0 /\ \A s \in Slots : keyOf[s] # current.base)
      BY DEF IInv, KeysInv
    <3>4. \A k \in FileKeys : files'[k] = IF k = current.base THEN c ELSE files[k]
      BY <1>2, <3>1
    <3>5. files' \in [FileKeys -> 0..MaxChanges]
      BY <1>2, <3>1, <3>2
    <3> QED
      BY <1>2, <2>2, <3>3, <3>4, <3>5
  <2> QED
    BY <1>3, <2>1, <2>2
<1>5. Quiet
  BY <1>1, <1>4, FinishWritingGoesOn DEF Quiet, mapState
<1>6. QueueInv'
  <2>1. Tail(inbox) \in Seq(Task) /\ Scheduled \in Task
    BY <1>2, TailFacts DEF Task
  <2>2. Append(Tail(inbox), Scheduled) \in Seq(Task)
    BY <2>1, AppendFacts
  <2>3. inbox' \in Seq(Task)
    BY <1>1, <1>2, <2>1, <2>2
  <2> QED
    BY <1>1, <1>2, <2>3 DEF QueueInv
<1>7. TypeOK'
  BY <1>1, <1>2, <1>4, <1>6, QuietTyped DEF IInv, TypeOK
<1>8. SyncInv'
  BY <1>1, <1>2, SyncMovesUp DEF IInv, memory, mapState
<1> QED
  BY <1>1, <1>5, <1>6, <1>7, <1>8, QuietKept DEF LoggedOut

LEMMA NothingToWriteKeeps == ASSUME IInv, NothingToWrite PROVE IInv'
<1>1. /\ current = Nothing /\ inbox # <<>> /\ ~IsEntry(Head(inbox)) /\ scheduled = <<>>
      /\ inbox' = Tail(inbox)
      /\ state' = IF Head(inbox) # Sync THEN state
                  ELSE IF state = "leaving" THEN "up" ELSE "down"
      /\ UNCHANGED <<memory, mapState, scheduled, current, contested, disk, removing, stops, stale>>
      /\ Remember
  BY DEF NothingToWrite
<1>2. /\ files \in [FileKeys -> 0..MaxChanges] /\ mapFile \in KeyMap /\ Unique(scheduled)
      /\ inbox \in Seq(Task)
  BY TypeFacts DEF IInv, QueueInv
<1>3. /\ inbox' \in Seq(Task) /\ Head(inbox) = inbox[1] /\ 1 \in DOMAIN inbox
      /\ \A i \in DOMAIN inbox' : i \in Nat \ {0} /\ i + 1 \in DOMAIN inbox /\ inbox'[i] = inbox[i + 1]
  BY <1>1, <1>2, TailFacts
<1>4. Quiet
  BY <1>1, NothingToWriteGoesOn DEF Quiet, mapState, disk, memory, IInv, KeysInv
<1>5. QueueInv'
  BY <1>1, <1>3 DEF IInv, QueueInv
<1>6. state' \in {"up", "exiting", "finishing", "leaving", "down"}
  BY <1>1 DEF IInv, TypeOK
<1>7. TypeOK'
  BY <1>1, <1>2, <1>5, <1>6, QuietTyped DEF IInv, TypeOK, disk
<1>8. Head(inbox) = Sync => \A i \in DOMAIN inbox' : inbox'[i] # Sync
  BY <1>3 DEF IInv, SyncInv
<1>9. SyncInv'
  <2>1. CASE Head(inbox) # Sync
    BY <1>1, <1>2, <2>1, SyncMovesUp DEF IInv, memory, mapState
  <2>2. CASE Head(inbox) = Sync
    <3>1. state' \in {"up", "down"}
      BY <1>1, <2>2
    <3> QED
      BY <1>8, <2>2, <3>1 DEF SyncInv
  <2> QED
    BY <2>1, <2>2
<1>10. ASSUME LoggedOut PROVE OnTheWay' = {} /\ ~mapChanged' /\ \A s \in Slots : keyOf'[s] = NoKey
  <2>1. state = "leaving" /\ Head(inbox) = Sync
    BY <1>1, <1>10 DEF LoggedOut
  <2>2. ~mapChanged /\ \A s \in Slots : keyOf[s] = NoKey
    BY <2>1 DEF IInv, SyncInv
  <2>3. \A i \in DOMAIN inbox' : inbox'[i] = Scheduled
    <3>1. PICK i \in DOMAIN inbox : inbox[i] = Sync /\ \A j \in DOMAIN inbox : j > i => inbox[j] = Scheduled
      BY <2>1 DEF IInv, SyncInv
    <3>2. i = 1
      BY <1>3, <2>1, <3>1 DEF IInv, SyncInv
    <3> QED
      BY <1>3, <3>1, <3>2
  <2>4. ~IsEntry(Scheduled) /\ ~IsEntry(Nothing)
    BY TaskFacts
  <2>5. OnTheWay' = {}
    BY <1>1, <2>3, <2>4 DEF OnTheWay, Queued, ToSet
  <2> QED
    BY <1>1, <2>2, <2>5 DEF memory, mapState
<1> QED
  BY <1>1, <1>4, <1>5, <1>7, <1>9, <1>10, QuietKept

LEMMA InitHolds == Init => IInv
<1> SUFFICES ASSUME Init PROVE IInv
  OBVIOUS
<1>1. /\ state = "up" /\ data = [s \in Slots |-> 0] /\ version = 0 /\ lastKey = NoKey
      /\ dirty = {} /\ keyOf = NoKeys /\ mapChanged = FALSE /\ mapTimer = FALSE /\ mapPosted = 0
      /\ inbox = <<>> /\ scheduled = <<>> /\ current = Nothing /\ contested = FALSE
      /\ files = [k \in FileKeys |-> 0] /\ mapFile = NoKeys /\ removing = {} /\ stops = 0
      /\ stale = {} /\ recent = [s \in Slots |-> {0}]
  BY DEF Init
<1>2. NoKeys \in KeyMap /\ \A s \in Slots : NoKeys[s] = NoKey
  BY DEF NoKeys, KeyMap, Key
<1>3. /\ 0 \in 0..MaxChanges /\ 0 \in 0..MaxStops
      /\ \A e : ~IsEntry(Nothing) /\ ~Writes(Nothing, e)
  BY BoundsAssumption, TaskFacts DEF Writes
<1>4. QueueInv
  <2>1. inbox \in Seq(Task) /\ scheduled \in Seq(Entries)
    BY <1>1, EmptySeq
  <2>2. contested \in BOOLEAN
    BY <1>1
  <2> QED
    BY <1>1, <2>1, <2>2 DEF QueueInv
<1>5. TypeOK
  <2>1. mapChanged \in BOOLEAN /\ mapTimer \in BOOLEAN
    BY <1>1
  <2>2. ToSet(inbox) = {} /\ ToSet(scheduled) = {}
    BY <1>1 DEF ToSet
  <2>3. keyOf \in [Slots -> FileKeys \union {NoKey}] /\ mapFile \in [Slots -> FileKeys \union {NoKey}]
    BY <1>1, <1>2 DEF KeyMap, Key
  <2> QED
    BY <1>1, <1>3, <2>1, <2>2, <2>3 DEF TypeOK
<1>6. CountInv
  BY <1>1, FS_EmptySet DEF CountInv
<1>7. OnTheWay = {} /\ Maps = {NoKeys}
  <2>1. OnTheWay = {}
    BY <1>1, <1>3 DEF OnTheWay, Queued, ToSet
  <2> QED
    BY <1>1, <2>1 DEF Maps
<1>8. KeysInv
  BY <1>1, <1>2, <1>7 DEF KeysInv
<1>9. FinalInv
  <2>1. \A s \in Slots : Settled(s)
    BY <1>1, <1>2 DEF Settled, Wanted
  <2>2. EndsAs(Map, NoKeys)
    BY <1>1, <1>3 DEF EndsAs, LastIs, HasWrite, OnDisk
  <2>3. Agrees(NoKeys)
    BY <1>1 DEF Agrees
  <2> QED
    BY <1>1, <1>2, <2>1, <2>2, <2>3 DEF FinalInv
<1>10. SyncInv
  BY <1>1 DEF SyncInv
<1>11. RecentInv
  BY <1>1, <1>2, <1>7 DEF RecentInv, Covers, Wanted
<1> QED
  BY <1>4, <1>5, <1>6, <1>8, <1>9, <1>10, <1>11 DEF IInv

LEMMA StutterKeeps == ASSUME IInv, UNCHANGED vars PROVE IInv'
<1>1. /\ UNCHANGED <<state, data, version, lastKey, dirty, keyOf, mapChanged, mapTimer>>
      /\ UNCHANGED <<mapPosted, inbox, scheduled, current, contested, files, mapFile>>
      /\ UNCHANGED <<removing, stops, stale, recent>>
  BY DEF vars
<1>2. GoesOn
  BY <1>1, StillGoesOn
<1>3. Quiet
  BY <1>1, <1>2 DEF Quiet, memory, IInv, KeysInv
<1>4. QueueInv' /\ SyncInv'
  BY <1>1 DEF IInv, QueueInv, SyncInv
<1>5. TypeOK'
  BY <1>1 DEF IInv, TypeOK
<1> QED
  BY <1>1, <1>3, <1>4, <1>5, QuietKept DEF LoggedOut

LEMMA NextKeeps == IInv /\ [Next]_vars => IInv'
<1> SUFFICES ASSUME IInv, [Next]_vars PROVE IInv'
  OBVIOUS
<1>1. CASE UNCHANGED vars
  BY <1>1, StutterKeeps
<1>2. ASSUME NEW s \in Slots, SaveNow(s) \/ ClearNow(s) \/ ChangePrefs(s) \/ WritePrefs(s)
      PROVE  IInv'
  BY <1>2, SaveNowKeeps, ClearNowKeeps, ChangePrefsKept, WritePrefsKeeps
<1>3. CASE WriteMap \/ Reset \/ RemoveLeft \/ Exit \/ ExitWritesMap
  BY <1>3, WriteMapKeeps, ResetKept, RemoveLeftKeeps, ExitKeeps, ExitWritesMapKeeps
<1>4. CASE Manager
  BY <1>4, TakeWriteKeeps, StartWritingKeeps, FinishWritingKeeps, NothingToWriteKeeps DEF Manager
<1>5. CASE Crash \/ Start \/ ClearLegacyFiles
  BY <1>5, CrashKeeps, StartKept, ClearLegacyFilesKeeps
<1> QED
  BY <1>1, <1>2, <1>3, <1>4, <1>5 DEF Next

-------------------------------------------------------------------------------
(* The theorems *)

\* The invariant holds of every state that the storage can be in.
THEOREM StorageKept == Spec => []IInv
BY InitHolds, NextKeeps, PTL DEF Spec

\* Whatever is written, cleared, stopped and started: the maps and the files
\* have their shape, the manager's queue holds one entry of a file at most, and
\* there is always a key left for a slot that has to be written.
THEOREM TypeCorrect == Spec => []TypeOK
<1>1. IInv => TypeOK
  BY DEF IInv
<1> QED
  BY <1>1, StorageKept, PTL

\* A program that is killed at any time, in the middle of any write, finds at
\* its start, of each slot, what it held then or since it was last stored in
\* full: never an older content, another slot's, or one from before a log out.
THEOREM NothingReturns == Spec => []NothingOldReturns
<1>1. IInv => NothingOldReturns
  <2> SUFFICES ASSUME IInv, NEW s \in Slots PROVE Stored(s) \in recent[s]
    BY DEF NothingOldReturns
  <2>1. mapFile \in Maps /\ Covers(recent[s], s)
    BY DEF Maps, IInv, RecentInv
  <2> QED
    BY <2>1 DEF Covers, Stored
<1> QED
  BY <1>1, StorageKept, PTL

\* ~Account has every due write and the map in the queue before it waits for the
\* manager, and the manager lets it go on only when nothing is left of them: a
\* program that quits has stored what each slot held.
THEOREM ExitStores == Spec => ExitStoresAll
<1>1. IInv /\ IInv' /\ [Next]_vars =>
        [state = "finishing" /\ state' = "down" /\ stops' = stops
           => \A s \in Slots : Stored(s)' = Wanted(s)]_vars
  <2> SUFFICES ASSUME IInv, Next, state = "finishing", state' = "down", stops' = stops, NEW s \in Slots
               PROVE  Stored(s)' = Wanted(s)
    OBVIOUS
  <2>1. NothingToWrite /\ Head(inbox) = Sync
    <3>1. stops + 1 # stops
      BY BoundsAssumption DEF IInv, TypeOK
    <3>2. \A u \in Slots : ~SaveNow(u) /\ ~ClearNow(u) /\ ~ChangePrefs(u) /\ ~WritePrefs(u)
      BY DEF SaveNow, ClearNow, ChangePrefs, WritePrefs, Change
    <3>3. ~WriteMap /\ ~Reset /\ ~RemoveLeft /\ ~Exit /\ ~ExitWritesMap
      BY DEF WriteMap, Reset, RemoveLeft, Exit, ExitWritesMap
    <3>4. ~TakeWrite /\ ~StartWriting /\ ~FinishWriting
      BY DEF TakeWrite, StartWriting, FinishWriting
    <3>5. ~Crash /\ ~Start /\ ~ClearLegacyFiles
      BY <3>1 DEF Crash, Start, ClearLegacyFiles
    <3>6. NothingToWrite
      BY <3>2, <3>3, <3>4, <3>5 DEF Next, Manager
    <3> QED
      BY <3>6 DEF NothingToWrite
  <2>2. /\ current = Nothing /\ scheduled = <<>> /\ inbox \in Seq(Task) /\ inbox # <<>>
        /\ dirty = {} /\ ~mapChanged
        /\ UNCHANGED <<data, stale, disk>>
    BY <2>1 DEF NothingToWrite, IInv, SyncInv, QueueInv, memory
  <2>3. Head(inbox) = inbox[1] /\ 1 \in DOMAIN inbox /\ DOMAIN inbox \subseteq Nat \ {0}
    BY <2>2, TailFacts
  <2>4. \A i \in DOMAIN inbox : inbox[i] \in {Sync, Scheduled}
    <3>1. PICK i \in DOMAIN inbox : inbox[i] = Sync /\ \A j \in DOMAIN inbox : j > i => inbox[j] = Scheduled
      BY DEF IInv, SyncInv
    <3>2. i = 1
      BY <2>1, <2>3, <3>1 DEF IInv, SyncInv
    <3> QED
      BY <2>3, <3>1, <3>2
  <2>5. OnTheWay = {}
    <3>1. ~IsEntry(Sync) /\ ~IsEntry(Scheduled) /\ ~IsEntry(Nothing)
      BY TaskFacts
    <3> QED
      BY <2>2, <2>4, <3>1 DEF OnTheWay, Queued, ToSet
  <2>6. Stored(s) = Wanted(s)
    BY <2>2, <2>5, StoredCovers DEF IInv
  <2> QED
    BY <2>2, <2>6 DEF Stored, disk
<1> QED
  BY <1>1, StorageKept, PTL DEF Spec, ExitStoresAll

-------------------------------------------------------------------------------
(* StoredFile: the three names of a file behave as one file that is replaced *)
(* at once, for any set of values.                                           *)
(*                                                                           *)
(* The types are not enough. That the removal of a name never shows an older *)
(* content needs to know, at each step of writeNow and of ClearKey, which of *)
(* the other names may still be there, and what they may hold.               *)

Writing == pc \notin {"down", "idle"}

(* What holds of the two threads, and of the disk between a stop and a read. *)
ThreadsMeet ==
  /\ clearing # "no" /\ Writing => overlap
  /\ pc = "down" => clearing = "no" /\ ~overlap /\ ~short

(* Only one of the names that older versions wrote can still be read. *)
OneLegacy ==
  pc \notin {"down", "dropBackup"} /\ safe = Absent
    => simple \notin Values \/ backup \notin Values

PlainIsNewer ==
  pc \in {"fillPlain", "dropBackup"} /\ simple # Absent => simpleIsNewer

(* After the commit: the new content stays, or ClearKey has removed it all. *)
CommitStays ==
  /\ pc \in {"removeSimple", "removeBackup"} =>
       /\ overlap \/ safe = value
       /\ safe = Absent => backup = Absent
  /\ pc = "removeBackup" => simple = Absent

BackupIsGone ==
  clearing = "safe" \/ pc \in {"rename", "dropSafe"} => backup = Absent

SimpleIsGone ==
  clearing \in {"backup", "safe"} /\ ~overlap => simple = Absent

(* What the plain file holds while the fallback works on it. *)
PlainHolds ==
  /\ pc = "fillPlain" => simple = Torn \/ (overlap /\ simple = Absent)
  /\ pc \in {"dropBackup", "rename", "dropSafe"} =>
       \/ simple = value
       \/ simple = Torn /\ short
       \/ simple = Absent /\ overlap

(* A plain file that ClearKey finds after it has passed its name is the last *)
(* one that was written, or the only version there is.                       *)
LeftBehind ==
  clearing \in {"backup", "safe"} /\ simple \in Values =>
    /\ pc \in {"idle", "save", "openPlain"} => safe = Absent
    /\ Writing => simple \in {before, value}

BackupIsBefore ==
  Writing /\ safe = Absent /\ backup \in Values => before = backup

FileInv ==
  /\ FileTypeOK
  /\ ThreadsMeet
  /\ OneLegacy
  /\ PlainIsNewer
  /\ CommitStays
  /\ BackupIsGone
  /\ SimpleIsGone
  /\ PlainHolds
  /\ LeftBehind
  /\ BackupIsBefore

LEMMA InitFileInv == FileInit => FileInv
BY DEF FileInit, FileInv, FileTypeOK, Steps, FileBytes, ThreadsMeet, OneLegacy, PlainIsNewer,
       CommitStays, BackupIsGone, SimpleIsGone, PlainHolds, LeftBehind,
       BackupIsBefore, Writing

THEOREM StepFileInv == FileInv /\ [FileNext]_fileVars => FileInv'
<1> SUFFICES ASSUME FileInv, [FileNext]_fileVars PROVE FileInv'
    OBVIOUS
<1> USE DistinctMarks
    DEF FileInv, FileTypeOK, Steps, FileBytes, ThreadsMeet, OneLegacy, PlainIsNewer,
        CommitStays, BackupIsGone, SimpleIsGone, PlainHolds, LeftBehind,
        BackupIsBefore, Writing, names, history
<1>1. CASE Read
    BY <1>1 DEF Read, Readable, FirstValid
<1>2. CASE Commit
    BY <1>2 DEF Commit
<1>3. CASE SaveFails
    BY <1>3 DEF SaveFails
<1>4. CASE RemoveSimple
    BY <1>4 DEF RemoveSimple
<1>5. CASE RemoveBackup
    BY <1>5 DEF RemoveBackup, Return
<1>6. CASE OpenPlain
    BY <1>6 DEF OpenPlain
<1>7. CASE PlainFails
    BY <1>7 DEF PlainFails, Return
<1>8. CASE FillPlain
  <2>1. FileTypeOK'
    BY <1>8 DEF FillPlain
  <2>2. ThreadsMeet'
    BY <1>8 DEF FillPlain
  <2>3. OneLegacy'
    BY <1>8 DEF FillPlain
  <2>4. PlainIsNewer'
    BY <1>8 DEF FillPlain
  <2>5. CommitStays'
    BY <1>8 DEF FillPlain
  <2>6. BackupIsGone'
    BY <1>8 DEF FillPlain
  <2>7. SimpleIsGone'
    BY <1>8 DEF FillPlain
  <2>8. PlainHolds'
    BY <1>8 DEF FillPlain
  <2>9. LeftBehind'
    BY <1>8 DEF FillPlain
  <2>10. BackupIsBefore'
    BY <1>8 DEF FillPlain
  <2> QED
    BY <2>1, <2>2, <2>3, <2>4, <2>5, <2>6, <2>7, <2>8, <2>9, <2>10 DEF FileInv
<1>9. CASE DropBackup
    BY <1>9 DEF DropBackup
<1>10. CASE Rename
    BY <1>10 DEF Rename, Return
<1>11. CASE RenameFails
    BY <1>11 DEF RenameFails
<1>12. CASE DropSafe
    BY <1>12 DEF DropSafe, Return
<1>13. CASE ClearFile
  <2>1. FileTypeOK'
    BY <1>13 DEF ClearFile
  <2>2. ThreadsMeet'
    BY <1>13 DEF ClearFile
  <2>3. OneLegacy'
    BY <1>13 DEF ClearFile
  <2>4. PlainIsNewer'
    BY <1>13 DEF ClearFile
  <2>5. CommitStays'
    BY <1>13 DEF ClearFile
  <2>6. BackupIsGone'
    BY <1>13 DEF ClearFile
  <2>7. SimpleIsGone'
    BY <1>13 DEF ClearFile
  <2>8. PlainHolds'
    BY <1>13 DEF ClearFile
  <2>9. LeftBehind'
    BY <1>13 DEF ClearFile
  <2>10. BackupIsBefore'
    BY <1>13 DEF ClearFile
  <2> QED
    BY <2>1, <2>2, <2>3, <2>4, <2>5, <2>6, <2>7, <2>8, <2>9, <2>10 DEF FileInv
<1>14. CASE ClearSimple
    BY <1>14 DEF ClearSimple
<1>15. CASE ClearBackup
    BY <1>15 DEF ClearBackup
<1>16. CASE ClearSafe
    BY <1>16 DEF ClearSafe
<1>17. CASE Stop
    BY <1>17 DEF Stop
<1>18. CASE \E v \in Values : WriteNow(v)
    BY <1>18 DEF WriteNow, Readable, FirstValid
<1>19. CASE UNCHANGED fileVars
    BY <1>19 DEF fileVars
<1> QED
    BY <1>1, <1>2, <1>3, <1>4, <1>5, <1>6, <1>7, <1>8, <1>9, <1>10, <1>11, <1>12, <1>13, <1>14, <1>15, <1>16, <1>17, <1>18, <1>19 DEF FileNext, Writer

THEOREM AlwaysFileInv == FileSpec => []FileInv
BY InitFileInv, StepFileInv, PTL DEF FileSpec

(* Every variable keeps its type, and a value is there exactly while it is   *)
(* being written.                                                            *)
THEOREM FileTypeCorrect == FileSpec => []FileTypeOK
<1>1. FileInv => FileTypeOK
    BY DEF FileInv
<1> QED
    BY AlwaysFileInv, <1>1, PTL

-------------------------------------------------------------------------------
(* writeNow returns with its value stored. *)

THEOREM WritesAreStored == FileSpec => ReturnedIsStored
<1>1. FileInv /\ [FileNext]_fileVars =>
        [pc \notin {"idle", "openPlain"} /\ pc' = "idle" /\ value # NoValue
           => overlap \/ short \/ Readable' = value]_fileVars
  <2> SUFFICES ASSUME FileInv, FileNext,
                      pc \notin {"idle", "openPlain"}, pc' = "idle",
                      value # NoValue, ~overlap, ~short
               PROVE  Readable' = value
      BY DEF fileVars
  <2> USE DistinctMarks DEF FileInv, FileTypeOK, Steps, FileBytes, Readable, FirstValid
  <2>1. CASE RemoveBackup
      BY <2>1 DEF RemoveBackup, Return, CommitStays
  <2>2. CASE Rename
      BY <2>2 DEF Rename, Return, PlainHolds
  <2>3. CASE DropSafe
      BY <2>3 DEF DropSafe, Return, PlainHolds, BackupIsGone
  <2> QED
      BY <2>1, <2>2, <2>3
      DEF FileNext, Writer, Read, WriteNow, Commit, SaveFails, RemoveSimple,
          OpenPlain, PlainFails, FillPlain, DropBackup, RenameFails, ClearFile,
          ClearSimple, ClearBackup, ClearSafe, Stop, Return
<1> QED
    BY AlwaysFileInv, <1>1, PTL DEF FileSpec, ReturnedIsStored

-------------------------------------------------------------------------------
(* The refinement: each step is one of the file's, or none of it. *)

LEMMA ReadableIsContent == Readable \in Values \union {NoValue}
BY DEF Readable, FirstValid

LEMMA InitAtomic == FileInit => File!Init
BY ReadableIsContent DEF FileInit, File!Init, File!Contents, AtRisk

LEMMA StepAtomic == FileInv /\ [FileNext]_fileVars => [File!Next]_File!vars
<1> SUFFICES ASSUME FileInv, [FileNext]_fileVars PROVE [File!Next]_File!vars
    OBVIOUS
<1> USE DistinctMarks, ReadableIsContent
    DEF FileInv, FileTypeOK, Steps, FileBytes, names, history, Readable, FirstValid, AtRisk
<1>1. CASE Read
  <2>1. File!Take
      BY <1>1
      DEF Read, File!Take, File!MayBecome,
          ThreadsMeet, OneLegacy, PlainIsNewer, CommitStays, BackupIsGone, SimpleIsGone, PlainHolds, LeftBehind, BackupIsBefore, Writing
  <2> QED
      BY <2>1 DEF File!Next
<1>2. CASE Commit
  <2>1. File!Take
      BY <1>2
      DEF Commit, File!Take, File!MayBecome,
          ThreadsMeet, OneLegacy, PlainIsNewer, CommitStays, BackupIsGone, SimpleIsGone, PlainHolds, LeftBehind, BackupIsBefore, Writing
  <2> QED
      BY <2>1 DEF File!Next
<1>3. CASE SaveFails
  <2>1. File!Take
      BY <1>3
      DEF SaveFails, File!Take, File!MayBecome,
          ThreadsMeet, OneLegacy, PlainIsNewer, CommitStays, BackupIsGone, SimpleIsGone, PlainHolds, LeftBehind, BackupIsBefore, Writing
  <2> QED
      BY <2>1 DEF File!Next
<1>4. CASE RemoveSimple
  <2>1. File!Take
      BY <1>4
      DEF RemoveSimple, File!Take, File!MayBecome,
          ThreadsMeet, OneLegacy, PlainIsNewer, CommitStays, BackupIsGone, SimpleIsGone, PlainHolds, LeftBehind, BackupIsBefore, Writing
  <2> QED
      BY <2>1 DEF File!Next
<1>5. CASE RemoveBackup
  <2>1. File!Written
      BY <1>5
      DEF RemoveBackup, Return, File!Written, File!MayBecome,
          ThreadsMeet, OneLegacy, PlainIsNewer, CommitStays, BackupIsGone, SimpleIsGone, PlainHolds, LeftBehind, BackupIsBefore, Writing
  <2> QED
      BY <2>1 DEF File!Next
<1>6. CASE OpenPlain
  <2>1. File!Take
      BY <1>6
      DEF OpenPlain, File!Take, File!MayBecome,
          ThreadsMeet, OneLegacy, PlainIsNewer, CommitStays, BackupIsGone, SimpleIsGone, PlainHolds, LeftBehind, BackupIsBefore, Writing
  <2> QED
      BY <2>1 DEF File!Next
<1>7. CASE PlainFails
  <2>1. File!Written
      BY <1>7
      DEF PlainFails, Return, File!Written, File!MayBecome,
          ThreadsMeet, OneLegacy, PlainIsNewer, CommitStays, BackupIsGone, SimpleIsGone, PlainHolds, LeftBehind, BackupIsBefore, Writing
  <2> QED
      BY <2>1 DEF File!Next
<1>8. CASE FillPlain
  <2>1. File!Take
      BY <1>8
      DEF FillPlain, File!Take, File!MayBecome,
          ThreadsMeet, OneLegacy, PlainIsNewer, CommitStays, BackupIsGone, SimpleIsGone, PlainHolds, LeftBehind, BackupIsBefore, Writing
  <2> QED
      BY <2>1 DEF File!Next
<1>9. CASE DropBackup
  <2>1. File!Take
      BY <1>9
      DEF DropBackup, File!Take, File!MayBecome,
          ThreadsMeet, OneLegacy, PlainIsNewer, CommitStays, BackupIsGone, SimpleIsGone, PlainHolds, LeftBehind, BackupIsBefore, Writing
  <2> QED
      BY <2>1 DEF File!Next
<1>10. CASE Rename
  <2>1. File!Written
      BY <1>10
      DEF Rename, Return, File!Written, File!MayBecome,
          ThreadsMeet, OneLegacy, PlainIsNewer, CommitStays, BackupIsGone, SimpleIsGone, PlainHolds, LeftBehind, BackupIsBefore, Writing
  <2> QED
      BY <2>1 DEF File!Next
<1>11. CASE RenameFails
  <2>1. File!Take
      BY <1>11
      DEF RenameFails, File!Take, File!MayBecome,
          ThreadsMeet, OneLegacy, PlainIsNewer, CommitStays, BackupIsGone, SimpleIsGone, PlainHolds, LeftBehind, BackupIsBefore, Writing
  <2> QED
      BY <2>1 DEF File!Next
<1>12. CASE DropSafe
  <2>1. File!Written
      BY <1>12
      DEF DropSafe, Return, File!Written, File!MayBecome,
          ThreadsMeet, OneLegacy, PlainIsNewer, CommitStays, BackupIsGone, SimpleIsGone, PlainHolds, LeftBehind, BackupIsBefore, Writing
  <2> QED
      BY <2>1 DEF File!Next
<1>13. CASE ClearFile
  <2>1. File!Clear
      BY <1>13
      DEF ClearFile, File!Clear, File!MayBecome,
          ThreadsMeet, OneLegacy, PlainIsNewer, CommitStays, BackupIsGone, SimpleIsGone, PlainHolds, LeftBehind, BackupIsBefore, Writing
  <2> QED
      BY <2>1 DEF File!Next
<1>14. CASE ClearSimple
  <2>1. File!Take
      BY <1>14
      DEF ClearSimple, File!Take, File!MayBecome,
          ThreadsMeet, OneLegacy, PlainIsNewer, CommitStays, BackupIsGone, SimpleIsGone, PlainHolds, LeftBehind, BackupIsBefore, Writing
  <2> QED
      BY <2>1 DEF File!Next
<1>15. CASE ClearBackup
  <2>1. File!Take
      BY <1>15
      DEF ClearBackup, File!Take, File!MayBecome,
          ThreadsMeet, OneLegacy, PlainIsNewer, CommitStays, BackupIsGone, SimpleIsGone, PlainHolds, LeftBehind, BackupIsBefore, Writing
  <2> QED
      BY <2>1 DEF File!Next
<1>16. CASE ClearSafe
  <2>1. File!Cleared
      BY <1>16
      DEF ClearSafe, File!Cleared, File!MayBecome,
          ThreadsMeet, OneLegacy, PlainIsNewer, CommitStays, BackupIsGone, SimpleIsGone, PlainHolds, LeftBehind, BackupIsBefore, Writing
  <2> QED
      BY <2>1 DEF File!Next
<1>17. CASE Stop
  <2>1. File!Stop
      BY <1>17
      DEF Stop, File!Stop, File!MayBecome,
          ThreadsMeet, OneLegacy, PlainIsNewer, CommitStays, BackupIsGone, SimpleIsGone, PlainHolds, LeftBehind, BackupIsBefore, Writing
  <2> QED
      BY <2>1 DEF File!Next
<1>18. CASE \E v \in Values : WriteNow(v)
  <2>1. PICK v \in Values : WriteNow(v)
      BY <1>18
  <2>2. File!Write(v)
      BY <2>1 DEF WriteNow, File!Write
  <2> QED
      BY <2>2 DEF File!Next
<1>19. CASE UNCHANGED fileVars
    BY <1>19 DEF fileVars, File!vars
<1> QED
    BY <1>1, <1>2, <1>3, <1>4, <1>5, <1>6, <1>7, <1>8, <1>9, <1>10, <1>11, <1>12, <1>13, <1>14, <1>15, <1>16, <1>17, <1>18, <1>19 DEF FileNext, Writer

(* The three names implement one file that is replaced at once. *)
THEOREM FileIsAtomic == FileSpec => IsAtomic
BY InitAtomic, StepAtomic, AlwaysFileInv, PTL DEF FileSpec, IsAtomic, File!Spec
===============================================================================
