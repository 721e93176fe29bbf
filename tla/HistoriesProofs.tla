-------------------------- MODULE HistoriesProofs --------------------------
(***************************************************************************)
(* What holds of the requests about chats for all chats, messages and      *)
(* requests.                                                               *)
(*                                                                         *)
(* The methods of Histories are operators from a world to the next one,    *)
(* and each of them is shown to keep a world Sound: what a chat waits for  *)
(* is on its way, and what has been read is told in order.  A step is a    *)
(* few methods one after the other.                                        *)
(***************************************************************************)
EXTENDS Histories, FiniteSetTheorems, SequenceTheorems, TLAPS

Type == Types \cup {"Delete", "ReadInbox"}
State == [postponed: SUBSET Request, sent: SUBSET Request, will: 0 .. MaxTill,
          later: BOOLEAN, sentTill: 0 .. MaxTill, done: BOOLEAN, entry: BOOLEAN]
Local == [till: 0 .. MaxTill, known: BOOLEAN]
Entry == [there: BOOLEAN, calls: Seq(Callback)]
Worlds == [states: [History -> State], local: [History -> Local],
           pending: [History -> Entry], asked: [History -> Entry],
           posted: BOOLEAN, timer: BOOLEAN, told: [History -> 0 .. MaxTill],
           made: Nat, ok: BOOLEAN]

Reading(state) == {r \in state.sent : r.type = "ReadInbox"}

\* What is held back waits for something being deleted.
HoldSound(state) ==
    /\ IsFiniteSet(state.sent) /\ IsFiniteSet(state.postponed)
    /\ \A r \in state.postponed : r.type = "History"
    /\ state.postponed # {} => Deleting(state)
    /\ Deleting(state) => \A r \in state.sent : r.type # "History"

\* An entry that is asked for comes, or waits for a change of the chat.
EntrySound(state, pends, waits, comes) ==
    /\ pends => ~waits
    /\ waits => state.entry \/ comes
    /\ state.entry => waits /\ Changing(state)

\* What the server is asked to read goes up, and what it has been asked for
\* is not forgotten before it is read here.
ReadSound(state, read, known) ==
    /\ \A r \in Reading(state) :
        /\ r.till # 0
        /\ IF state.sentTill = 0 THEN r.till <= read ELSE r.till <= state.sentTill
        /\ state.will # 0 => r.till < state.will
    /\ state.will # 0 => state.sentTill < state.will
    /\ state.later => state.will # 0
    /\ known <= read \/ known <= state.sentTill

\* ... and waits for its answer, or for the entry.
WaitSound(state, pends, waits, confirms) ==
    state.sentTill # 0 =>
        IF state.done THEN pends \/ waits \/ confirms
        ELSE \E r \in Reading(state) : r.till = state.sentTill

\* coming: the chats whose entries come; confirming: those whose entry has.
ChatSound(w, h, coming, confirming) ==
    /\ HoldSound(w.states[h])
    /\ EntrySound(w.states[h], w.pending[h].there, w.asked[h].there, h \in coming)
    /\ ReadSound(w.states[h], w.local[h].till, w.told[h])
    /\ WaitSound(w.states[h], w.pending[h].there, w.asked[h].there, h \in confirming)

PostSound(w) == There(w.pending) # {} => w.posted

Sound(w, coming, confirming) ==
    /\ w \in Worlds
    /\ \A h \in History : ChatSound(w, h, coming, confirming)
    /\ PostSound(w)
    /\ w.ok

\* The timer runs for what is not to be read at once.
TimerSound(w) ==
    \A h \in History : w.states[h].will # 0 => w.states[h].later /\ w.timer

Timed(w) == switches = 0 => TimerSound(w)

Coming == ending \cup UNION {flights[k] : k \in DOMAIN flights}

\* Ghost mode leaves what is to be read without a timer.
GhostTold == ghost => switches # 0

AnswerInv ==
    /\ flights \in Seq(SUBSET History)
    /\ dialogs \subseteq ending /\ ending \subseteq History
    /\ current = {} \/ \E h \in History : current = {h}
    /\ calling \in Seq(Callback)
    /\ asks \in 0 .. MaxAsked /\ switches \in 0 .. MaxGhost
    /\ ghost \in BOOLEAN /\ GhostTold

IInv ==
    /\ Sound(World, Coming, current)
    /\ Timed(World)
    /\ AnswerInv

USE HistoryAssumption, TypesAssumption, BoundsAssumption

-----------------------------------------------------------------------------
(* The state of a chat.                                                    *)

LEMMA NewRequestType ==
    ASSUME NEW state \in State, HoldSound(state), NEW type \in Type, NEW till \in 0 .. MaxTill
    PROVE  /\ NewRequest(state, type, till) \in Request
           /\ NewRequest(state, type, till).type = type
           /\ NewRequest(state, type, till).till = till
<1> DEFINE like == {r \in state.sent \cup state.postponed : r.type = type}
           c == Cardinality(like)
           numbers == {r.number : r \in like}
<1>1. IsFiniteSet(like) /\ c \in Nat
  <2>1. IsFiniteSet(state.sent \cup state.postponed) BY FS_Union DEF HoldSound
  <2>2. like \in SUBSET (state.sent \cup state.postponed) OBVIOUS
  <2>3. IsFiniteSet(like) BY <2>1, <2>2, FS_Subset
  <2> QED BY <2>3, FS_CardinalityType
<1>2. \E n \in 1 .. c + 1 : n \notin numbers
  <2> SUFFICES ASSUME \A n \in 1 .. c + 1 : \E r \in like : r.number = n
               PROVE  FALSE
    OBVIOUS
  <2> HIDE DEF like
  <2> DEFINE f == [n \in 1 .. c + 1 |-> CHOOSE r \in like : r.number = n]
  <2>1. \A n \in 1 .. c + 1 : f[n] \in like /\ f[n].number = n OBVIOUS
  <2>2. f \in [1 .. c + 1 -> like] BY <2>1
  <2>3. IsFiniteSet(1 .. c + 1) /\ Cardinality(1 .. c + 1) = c + 1
    <3>1. 1 \in Int /\ c + 1 \in Int /\ ~(1 > c + 1) BY <1>1
    <3> HIDE DEF c
    <3>2. c + 1 - 1 + 1 = c + 1 BY <1>1
    <3> QED BY <3>1, <3>2, FS_Interval
  <2>4. c < c + 1 BY <1>1
  <2> HIDE DEF f
  <2>5. \E x, y \in 1 .. c + 1 : x # y /\ f[x] = f[y] BY <1>1, <2>2, <2>3, <2>4, FS_PigeonHole
  <2> QED BY <2>1, <2>5
<1> HIDE DEF c, numbers
<1>3. (CHOOSE n \in 1 .. c + 1 : n \notin numbers) \in Nat \ {0} BY <1>1, <1>2
<1> DEFINE n0 == CHOOSE n \in 1 .. c + 1 : n \notin numbers
<1>4. NewRequest(state, type, till) = [type |-> type, till |-> till, number |-> n0]
  BY DEF NewRequest, c, numbers
<1> HIDE DEF n0
<1> QED BY <1>3, <1>4 DEF Request, Type, n0

\* What a request does not change.
SameReads(s, t) ==
    t.will = s.will /\ t.later = s.later /\ t.sentTill = s.sentTill /\ t.done = s.done

IsRequested(s, state, type, till, waits) ==
    /\ s \in State /\ HoldSound(s) /\ SameReads(state, s)
    /\ s.entry => (state.entry \/ waits) /\ Changing(s)
    /\ state.entry => s.entry
    /\ type # "ReadInbox" => Reading(s) = Reading(state)
    /\ type = "ReadInbox" =>
         \E r : r.till = till /\ Reading(s) = Reading(state) \cup {r}

LEMMA RequestedFields ==
    ASSUME NEW state \in State, HoldSound(state), NEW type \in Type, NEW till \in 0 .. MaxTill,
           NEW waits \in BOOLEAN, NEW s, s = Requested(state, type, till, waits),
           state.entry => Changing(state)
    PROVE  IsRequested(s, state, type, till, waits)
<1> DEFINE r == NewRequest(state, type, till)
           sent == state.sent \cup {r}
           with == [state EXCEPT !.sent = @ \cup {r}]
           held == {q \in with.sent : Deleting(with) /\ q.type = "History"}
<1>1. r \in Request /\ r.type = type /\ r.till = till BY NewRequestType
<1> HIDE DEF r
<1>2. /\ with \in State /\ with.sent = sent /\ with.postponed = state.postponed
      /\ SameReads(state, with) /\ with.entry = state.entry
  BY <1>1 DEF State, SameReads
<1>3. IsFiniteSet(sent) /\ IsFiniteSet(state.postponed \cup {r})
  BY FS_AddElement DEF HoldSound
<1>4. CASE type = "History" /\ Deleting(state)
  <2>1. s = [state EXCEPT !.postponed = @ \cup {r}] BY <1>4 DEF Requested, r
  <2>2. /\ s \in State /\ s.sent = state.sent /\ s.postponed = state.postponed \cup {r}
        /\ SameReads(state, s) /\ s.entry = state.entry
    BY <2>1, <1>1 DEF State, SameReads
  <2>3. HoldSound(s)
    BY <2>2, <1>1, <1>3, <1>4 DEF HoldSound, Deleting
  <2> QED BY <2>2, <2>3, <1>4 DEF Reading, Changing, IsRequested
<1>5. CASE ~(type = "History" /\ Deleting(state))
  <2> DEFINE after == [with EXCEPT !.sent = @ \ held, !.postponed = @ \cup held,
                                   !.entry = @ \/ (Changing(with) /\ waits)]
  <2>1. s = after BY <1>5 DEF Requested, r
  <2>2. held \subseteq sent /\ IsFiniteSet(sent \ held) /\ IsFiniteSet(state.postponed \cup held)
    <3>1. held \in SUBSET sent /\ sent \ held \in SUBSET sent BY <1>2
    <3>2. IsFiniteSet(held) /\ IsFiniteSet(sent \ held) BY <3>1, <1>3, FS_Subset
    <3> QED BY <3>1, <3>2, FS_Union DEF HoldSound
  <2>3. /\ s.sent = sent \ held /\ s.postponed = state.postponed \cup held
        /\ SameReads(state, s)
        /\ s.entry = (state.entry \/ (Changing(with) /\ waits))
        /\ s \in State
    <3>1. held \subseteq Request BY <2>2, <1>2, <1>1 DEF State
    <3> HIDE DEF held
    <3> QED BY <2>1, <2>2, <3>1, <1>2, <1>1 DEF State, SameReads
  <2>4. \A q \in held : q.type = "History" OBVIOUS
  <2>5. Deleting(s) <=> Deleting(with) BY <2>3, <2>4, <1>2 DEF Deleting
  <2>6. Changing(s) <=> Changing(with) BY <2>3, <2>4, <1>2 DEF Changing
  <2>7. Changing(state) => Changing(with) BY <1>2 DEF Changing
  <2>8. Deleting(state) => Deleting(with) BY <1>2 DEF Deleting
  <2>9. HoldSound(s)
    <3>1. Deleting(s) => \A q \in s.sent : q.type # "History" BY <2>3, <2>5, <1>2
    <3>2. ~Deleting(with) => held = {} OBVIOUS
    <3>3. s.postponed # {} => Deleting(s)
      BY <3>2, <2>3, <2>5, <2>8 DEF HoldSound
    <3> QED BY <3>1, <3>3, <2>2, <2>3, <2>4 DEF HoldSound
  <2>10. Reading(s) = {q \in sent : q.type = "ReadInbox"} BY <2>3, <2>4 DEF Reading
  <2>11. type # "ReadInbox" => Reading(s) = Reading(state) BY <2>10, <1>1 DEF Reading
  <2>12. type = "ReadInbox" => Reading(s) = Reading(state) \cup {r} BY <2>10, <1>1 DEF Reading
  <2> QED BY <2>3, <2>6, <2>7, <2>9, <2>11, <2>12, <1>1 DEF IsRequested
<1> QED BY <1>4, <1>5

-----------------------------------------------------------------------------
(* Worlds.                                                                 *)

\* The chat g is the same in both worlds.
SameChat(w, v, g) ==
    /\ v.states[g] = w.states[g] /\ v.local[g] = w.local[g] /\ v.told[g] = w.told[g]
    /\ v.pending[g].there = w.pending[g].there /\ v.asked[g].there = w.asked[g].there

\* The messages to be read, and when, are the same.
KeepsTimes(w, v) ==
    /\ v.timer = w.timer
    /\ \A g \in History :
        /\ v.states[g].will = w.states[g].will
        /\ v.states[g].will # 0 => v.states[g].later = w.states[g].later

LEMMA TimesKept ==
    ASSUME NEW w, NEW v, TimerSound(w), KeepsTimes(w, v)
    PROVE  TimerSound(v)
BY DEF TimerSound, KeepsTimes

LEMMA WorldFields ==
    ASSUME NEW w \in Worlds, NEW h \in History
    PROVE  /\ w.states \in [History -> State] /\ w.states[h] \in State
           /\ w.local \in [History -> Local] /\ w.local[h] \in Local
           /\ w.pending \in [History -> Entry] /\ w.pending[h] \in Entry
           /\ w.asked \in [History -> Entry] /\ w.asked[h] \in Entry
           /\ w.posted \in BOOLEAN /\ w.timer \in BOOLEAN
           /\ w.told \in [History -> 0 .. MaxTill] /\ w.told[h] \in 0 .. MaxTill
           /\ w.made \in Nat /\ w.ok \in BOOLEAN
BY DEF Worlds

LEMMA SameChatSound ==
    ASSUME NEW w, NEW v, NEW g, NEW U, NEW C, ChatSound(w, g, U, C), SameChat(w, v, g)
    PROVE  ChatSound(v, g, U, C)
BY DEF ChatSound, SameChat

LEMMA PostKept ==
    ASSUME NEW w, NEW v, PostSound(w), v.posted = w.posted,
           \A g \in History : v.pending[g].there = w.pending[g].there
    PROVE  PostSound(v)
BY DEF PostSound, There

\* w with another state of the chat h.
WithState(w, h, s, n) == [w EXCEPT !.made = n, !.states[h] = s]

LEMMA StateChanged ==
    ASSUME NEW w \in Worlds, NEW h \in History, NEW s \in State, NEW n \in Nat,
           NEW v, v = WithState(w, h, s, n)
    PROVE  /\ v \in Worlds
           /\ v.states[h] = s
           /\ \A g \in History : g # h => SameChat(w, v, g)
           /\ v.local = w.local /\ v.pending = w.pending /\ v.asked = w.asked
           /\ v.posted = w.posted /\ v.timer = w.timer /\ v.told = w.told /\ v.ok = w.ok
<1>1. w.states \in [History -> State] BY DEF Worlds
<1>2. [w.states EXCEPT ![h] = s] \in [History -> State] BY <1>1
<1> QED BY <1>1, <1>2 DEF Worlds, SameChat, WithState

LEMMA StateChangedSound ==
    ASSUME NEW w, NEW U, NEW C, Sound(w, U, C), NEW h \in History, NEW s \in State, NEW n \in Nat,
           NEW v, v = WithState(w, h, s, n),
           HoldSound(s),
           EntrySound(s, w.pending[h].there, w.asked[h].there, h \in U),
           ReadSound(s, w.local[h].till, w.told[h]),
           WaitSound(s, w.pending[h].there, w.asked[h].there, h \in C)
    PROVE  Sound(v, U, C)
<1>0. w \in Worlds BY DEF Sound
<1>1. /\ v \in Worlds /\ v.states[h] = s
      /\ \A g \in History : g # h => SameChat(w, v, g)
      /\ v.local = w.local /\ v.pending = w.pending /\ v.asked = w.asked
      /\ v.posted = w.posted /\ v.told = w.told /\ v.ok = w.ok
  BY <1>0, StateChanged
<1>2. ChatSound(v, h, U, C) BY <1>1 DEF ChatSound
<1>3. ASSUME NEW g \in History PROVE ChatSound(v, g, U, C)
  BY <1>1, <1>2, SameChatSound DEF Sound
<1>4. PostSound(v) BY <1>1, PostKept DEF Sound
<1> QED BY <1>1, <1>3, <1>4 DEF Sound

LEMMA SendRequestSound ==
    ASSUME NEW w, NEW U, NEW C, Sound(w, U, C), NEW h \in History,
           NEW type \in Types \cup {"Delete"}, NEW till \in 0 .. MaxTill,
           NEW v, v = SendRequest(w, h, type, till)
    PROVE  Sound(v, U, C) /\ KeepsTimes(w, v)
<1> DEFINE waits == w.asked[h].there
           s == Requested(w.states[h], type, till, waits)
<1>0. w \in Worlds /\ w.states[h] \in State /\ w.made + 1 \in Nat /\ waits \in BOOLEAN
  BY WorldFields DEF Sound, Entry
<1>1. ChatSound(w, h, U, C) BY DEF Sound
<1>2. w.states[h].entry => waits /\ Changing(w.states[h]) BY <1>1 DEF ChatSound, EntrySound
<1>3. type \in Type /\ type # "ReadInbox" BY DEF Type
<1>4. /\ s \in State /\ HoldSound(s) /\ SameReads(w.states[h], s)
      /\ s.entry => (w.states[h].entry \/ waits) /\ Changing(s)
      /\ w.states[h].entry => s.entry
      /\ Reading(s) = Reading(w.states[h])
  <2> HIDE DEF s, waits
  <2>1. s = Requested(w.states[h], type, till, waits) BY DEF s
  <2>2. HoldSound(w.states[h]) BY <1>1 DEF ChatSound
  <2>3. w.states[h].entry => Changing(w.states[h]) BY <1>2
  <2>4. till \in 0 .. MaxTill OBVIOUS
  <2>5. IsRequested(s, w.states[h], type, till, waits)
    BY <2>1, <2>2, <2>3, <2>4, <1>0, <1>3, RequestedFields
  <2> QED BY <2>5, <1>3 DEF IsRequested
<1>5. v = WithState(w, h, s, w.made + 1) BY DEF SendRequest, WithState
<1> HIDE DEF s
<1>6. EntrySound(s, w.pending[h].there, waits, h \in U)
  BY <1>1, <1>2, <1>4 DEF ChatSound, EntrySound
<1>7. ReadSound(s, w.local[h].till, w.told[h])
  BY <1>1, <1>4 DEF ChatSound, ReadSound, SameReads
<1>8. WaitSound(s, w.pending[h].there, waits, h \in C)
  BY <1>1, <1>4 DEF ChatSound, WaitSound, SameReads
<1>9. Sound(v, U, C) BY <1>0, <1>4, <1>5, <1>6, <1>7, <1>8, StateChangedSound
<1>10. KeepsTimes(w, v)
  <2>1. /\ v.states[h] = s /\ v.timer = w.timer
        /\ \A g \in History : g # h => SameChat(w, v, g)
    BY <1>0, <1>4, <1>5, StateChanged
  <2> QED BY <2>1, <1>4 DEF KeepsTimes, SameReads, SameChat
<1> QED BY <1>9, <1>10

-----------------------------------------------------------------------------
(* Reading.                                                                *)

IsReadSent(s, state, pends, waits, g, U, C, read, known) ==
    /\ s \in State /\ HoldSound(s) /\ EntrySound(s, pends, waits, g \in U)
    /\ ReadSound(s, read, Higher(known, state.will))
    /\ WaitSound(s, pends, waits, g \in C)
    /\ s.will = 0 /\ s.sentTill = state.will

LEMMA ReadSentSound ==
    ASSUME NEW state \in State, state.will # 0,
           NEW pends \in BOOLEAN, NEW waits \in BOOLEAN, NEW g, NEW U, NEW C,
           NEW read \in 0 .. MaxTill, NEW known \in 0 .. MaxTill,
           HoldSound(state), EntrySound(state, pends, waits, g \in U), ReadSound(state, read, known),
           NEW s, s = ReadSent(state, waits)
    PROVE  IsReadSent(s, state, pends, waits, g, U, C, read, known)
<1> DEFINE till == state.will
           m1 == [state EXCEPT !.will = 0, !.later = FALSE]
           m == [state EXCEPT !.will = 0, !.later = FALSE, !.sentTill = till, !.done = FALSE]
<1>0. /\ m1 \in State /\ m1.will = 0 /\ m1.later = FALSE /\ m1.entry = state.entry
      /\ m1.sent = state.sent /\ m1.postponed = state.postponed
  <2>1. 0 \in 0 .. MaxTill OBVIOUS
  <2>2. m1 = [state EXCEPT !.will = 0, !.later = FALSE] OBVIOUS
  <2> HIDE DEF m1
  <2>3. m1 \in State BY <2>1, <2>2 DEF State
  <2>4. m1.will = 0 /\ m1.later = FALSE BY <2>2 DEF State
  <2>5. m1.entry = state.entry /\ m1.sent = state.sent /\ m1.postponed = state.postponed
    BY <2>2 DEF State
  <2> QED BY <2>3, <2>4, <2>5
<1>m. m = [m1 EXCEPT !.sentTill = till, !.done = FALSE] OBVIOUS
<1>t. till \in 1 .. MaxTill /\ till \in 0 .. MaxTill BY DEF State
<1>2. s = Requested(m, "ReadInbox", till, waits) BY DEF ReadSent
<1> HIDE DEF m, m1, till
<1>1. /\ m \in State /\ m.will = 0 /\ m.later = FALSE /\ m.sentTill = till /\ m.done = FALSE
      /\ m.sent = state.sent /\ m.postponed = state.postponed /\ m.entry = state.entry
  BY <1>0, <1>m, <1>t DEF State
<1>3. HoldSound(m) BY <1>1 DEF HoldSound, Deleting
<1>4. m.entry => Changing(m) BY <1>1 DEF EntrySound, Changing
<1>5. "ReadInbox" \in Type BY DEF Type
<1>6. IsRequested(s, m, "ReadInbox", till, waits)
  BY <1>1, <1>t, <1>2, <1>3, <1>4, <1>5, RequestedFields
<1>7. PICK r : r.till = till /\ Reading(s) = Reading(m) \cup {r} BY <1>6 DEF IsRequested
<1>8. Reading(m) = Reading(state) BY <1>1 DEF Reading
<1>9. EntrySound(s, pends, waits, g \in U) BY <1>1, <1>6 DEF EntrySound, IsRequested
<1>10. s.will = 0 /\ s.later = FALSE /\ s.sentTill = till /\ s.done = FALSE
  BY <1>1, <1>6 DEF SameReads, IsRequested
<1>11. ReadSound(s, read, Higher(known, till))
  <2>1. \A q \in Reading(s) : q.till # 0 /\ q.till <= till
    <3>0. \A q \in Reading(state) : q.till \in 0 .. MaxTill BY DEF Reading, State, Request
    <3>1. \A q \in Reading(state) : q.till # 0 /\ q.till < till BY <1>t DEF ReadSound, till
    <3> QED BY <3>0, <3>1, <1>1, <1>t, <1>7, <1>8
  <2>2. Higher(known, till) <= read \/ Higher(known, till) <= till
    <3>1. state.sentTill \in 0 .. MaxTill /\ state.sentTill < till BY DEF State, ReadSound, till
    <3>2. known <= read \/ known <= state.sentTill BY DEF ReadSound
    <3> QED BY <3>1, <3>2, <1>t DEF Higher
  <2>3. s.sentTill # 0 BY <1>t, <1>10
  <2> QED BY <2>1, <2>2, <2>3, <1>10 DEF ReadSound
<1>12. WaitSound(s, pends, waits, g \in C) BY <1>7, <1>10 DEF WaitSound
<1> QED BY <1>6, <1>9, <1>10, <1>11, <1>12 DEF IsReadSent, IsRequested, till

LEMMA HigherType ==
    ASSUME NEW a \in 0 .. MaxTill, NEW b \in 0 .. MaxTill
    PROVE  Higher(a, b) \in 0 .. MaxTill /\ a <= Higher(a, b) /\ b <= Higher(a, b)
BY DEF Higher

\* What is sent of the chat h by sendReadRequests.
LEMMA SendReadsFields ==
    ASSUME NEW w, NEW U, NEW C, Sound(w, U, C), NEW due, NEW v, v = SendReads(w, due)
    PROVE  /\ Sound(v, U, C)
           /\ \A g \in History :
                /\ v.local[g] = w.local[g]
                /\ v.pending[g] = w.pending[g] /\ v.asked[g] = w.asked[g]
                /\ \/ v.states[g] = w.states[g]
                   \/ w.states[g].will # 0 /\ v.states[g].sentTill = w.states[g].will
           /\ ~ghost => TimerSound(v)
<1> DEFINE will == {g \in History : w.states[g].will # 0}
           now == {g \in will : ~w.states[g].later \/ g \in due}
<1>0. w \in Worlds BY DEF Sound
<1>1. CASE \A g \in History : w.states[g] = EmptyState
  <2>1. v = w BY <1>1 DEF SendReads
  <2>2. TimerSound(v) BY <1>1, <2>1 DEF TimerSound, EmptyState
  <2> QED BY <2>1, <2>2
<1>2. CASE ghost /\ ~(\A g \in History : w.states[g] = EmptyState)
  <2>1. v = [w EXCEPT !.timer = FALSE] BY <1>2 DEF SendReads
  <2>2. /\ v \in Worlds /\ v.states = w.states /\ v.local = w.local /\ v.pending = w.pending
        /\ v.asked = w.asked /\ v.posted = w.posted /\ v.told = w.told /\ v.ok = w.ok
    BY <2>1, <1>0 DEF Worlds
  <2>3. Sound(v, U, C)
    BY <2>2, SameChatSound, PostKept DEF Sound, SameChat
  <2> QED BY <2>2, <2>3, <1>2
<1>3. CASE ~ghost /\ ~(\A g \in History : w.states[g] = EmptyState)
  <2> DEFINE states2 == [g \in History |-> IF g \in now THEN ReadSent(w.states[g], w.asked[g].there)
                                           ELSE w.states[g]]
             told2 == [g \in History |-> IF g \in now THEN Higher(w.told[g], w.states[g].will)
                                         ELSE w.told[g]]
             ok2 == w.ok /\ \A g \in now : w.states[g].will > w.states[g].sentTill
             made2 == w.made + Cardinality(now)
             timer2 == will # now
  <2>1. v = [w EXCEPT !.states = states2, !.told = told2, !.ok = ok2, !.made = made2, !.timer = timer2]
    BY <1>3, Zenon DEF SendReads
  <2>2. now \subseteq will /\ will \subseteq History OBVIOUS
  <2>3. \A g \in History : ChatSound(w, g, U, C) BY DEF Sound
  <2>4. \A g \in now :
          LET s == ReadSent(w.states[g], w.asked[g].there) IN
          /\ s \in State /\ HoldSound(s)
          /\ EntrySound(s, w.pending[g].there, w.asked[g].there, g \in U)
          /\ ReadSound(s, w.local[g].till, Higher(w.told[g], w.states[g].will))
          /\ WaitSound(s, w.pending[g].there, w.asked[g].there, g \in C)
          /\ s.will = 0 /\ s.sentTill = w.states[g].will
    <3> SUFFICES ASSUME NEW g \in History, w.states[g].will # 0
                 PROVE  LET s == ReadSent(w.states[g], w.asked[g].there) IN
                        /\ s \in State /\ HoldSound(s)
                        /\ EntrySound(s, w.pending[g].there, w.asked[g].there, g \in U)
                        /\ ReadSound(s, w.local[g].till, Higher(w.told[g], w.states[g].will))
                        /\ WaitSound(s, w.pending[g].there, w.asked[g].there, g \in C)
                        /\ s.will = 0 /\ s.sentTill = w.states[g].will
      OBVIOUS
    <3>1. /\ w.states[g] \in State /\ w.local[g].till \in 0 .. MaxTill /\ w.told[g] \in 0 .. MaxTill
          /\ w.pending[g].there \in BOOLEAN /\ w.asked[g].there \in BOOLEAN
      BY <1>0, WorldFields DEF Local, Entry
    <3>2. /\ HoldSound(w.states[g])
          /\ EntrySound(w.states[g], w.pending[g].there, w.asked[g].there, g \in U)
          /\ ReadSound(w.states[g], w.local[g].till, w.told[g])
      BY <2>3 DEF ChatSound
    <3> DEFINE s == ReadSent(w.states[g], w.asked[g].there)
    <3> HIDE DEF s
    <3>3. s = ReadSent(w.states[g], w.asked[g].there) BY DEF s
    <3>4. IsReadSent(s, w.states[g], w.pending[g].there, w.asked[g].there, g, U, C,
                     w.local[g].till, w.told[g])
      BY <3>1, <3>2, <3>3, ReadSentSound
    <3> QED BY <3>4 DEF IsReadSent, s
  <2>5. \A g \in now : w.states[g].will > w.states[g].sentTill
    <3>1. \A g \in History : w.states[g].will \in 0 .. MaxTill /\ w.states[g].sentTill \in 0 .. MaxTill
      BY <1>0, WorldFields DEF State
    <3>2. \A g \in now : w.states[g].sentTill < w.states[g].will BY <2>3 DEF ChatSound, ReadSound
    <3> QED BY <3>1, <3>2, <2>2
  <2>6. ok2 = TRUE BY <2>5 DEF Sound
  <2>7. made2 \in Nat
    <3>1. now \in SUBSET History BY <2>2
    <3>2. Cardinality(now) \in Nat BY <3>1, FS_Subset, FS_CardinalityType
    <3> QED BY <3>2, <1>0, WorldFields DEF Worlds
  <2>8. states2 \in [History -> State] BY <2>4, <1>0, WorldFields
  <2>9. told2 \in [History -> 0 .. MaxTill]
    <3>1. \A g \in History : w.told[g] \in 0 .. MaxTill /\ w.states[g].will \in 0 .. MaxTill
      BY <1>0, WorldFields DEF State
    <3> QED BY <3>1, HigherType
  <2>10. /\ v.states = states2 /\ v.told = told2 /\ v.ok = TRUE /\ v.made = made2 /\ v.timer = timer2
         /\ v.local = w.local /\ v.pending = w.pending /\ v.asked = w.asked /\ v.posted = w.posted
         /\ v \in Worlds
    <3> HIDE DEF states2, told2, ok2, made2, timer2
    <3>1. timer2 \in BOOLEAN BY DEF timer2
    <3> QED BY <2>1, <2>6, <2>7, <2>8, <2>9, <3>1, <1>0 DEF Worlds
  <2>11. ASSUME NEW g \in History PROVE ChatSound(v, g, U, C)
    <3>1. CASE g \in now
      <4>1. v.states[g] = ReadSent(w.states[g], w.asked[g].there)
            /\ v.told[g] = Higher(w.told[g], w.states[g].will)
        BY <3>1, <2>10
      <4> QED BY <4>1, <3>1, <2>4, <2>10 DEF ChatSound
    <3>2. CASE g \notin now
      <4>1. SameChat(w, v, g) BY <3>2, <2>10 DEF SameChat
      <4> QED BY <4>1, <2>3, SameChatSound
    <3> QED BY <3>1, <3>2
  <2>12. PostSound(v) BY <2>10, PostKept DEF Sound
  <2>13. Sound(v, U, C) BY <2>10, <2>11, <2>12 DEF Sound
  <2>14. TimerSound(v)
    <3> SUFFICES ASSUME NEW g \in History, v.states[g].will # 0
                 PROVE  v.states[g].later /\ v.timer
      BY DEF TimerSound
    <3>1. g \notin now BY <2>4, <2>10
    <3>2. v.states[g] = w.states[g] BY <3>1, <2>10
    <3>3. g \in will BY <3>2
    <3> QED BY <3>1, <3>2, <3>3, <2>10
  <2>15. \A g \in History : \/ v.states[g] = w.states[g]
                            \/ w.states[g].will # 0 /\ v.states[g].sentTill = w.states[g].will
    BY <2>4, <2>10, <2>2
  <2> QED BY <2>10, <2>13, <2>14, <2>15
<1> QED BY <1>1, <1>2, <1>3

-----------------------------------------------------------------------------
(* Entries and the end of a request.                                       *)

\* The chat h is another one; entries come and are confirmed as before for
\* the others.
LEMMA ChatChangedSound ==
    ASSUME NEW w, NEW v \in Worlds, NEW h \in History, NEW U, NEW C, NEW U2, NEW C2,
           Sound(w, U, C),
           \A g \in History : g # h => SameChat(w, v, g),
           \A g \in History : g # h /\ g \in U => g \in U2,
           \A g \in History : g # h /\ g \in C => g \in C2,
           ChatSound(v, h, U2, C2), PostSound(v), v.ok
    PROVE  Sound(v, U2, C2)
<1>1. ASSUME NEW g \in History, g # h PROVE ChatSound(v, g, U2, C2)
  <2>1. ChatSound(v, g, U, C) BY <1>1, SameChatSound DEF Sound
  <2>2. EntrySound(v.states[g], v.pending[g].there, v.asked[g].there, g \in U2)
    BY <2>1, <1>1 DEF ChatSound, EntrySound
  <2>3. WaitSound(v.states[g], v.pending[g].there, v.asked[g].there, g \in C2)
    BY <2>1, <1>1 DEF ChatSound, WaitSound
  <2> QED BY <2>1, <2>2, <2>3 DEF ChatSound
<1> QED BY <1>1 DEF Sound

\* The chat h is added to those pending.
LEMMA PostAdded ==
    ASSUME NEW w, NEW v, NEW h \in History, PostSound(w), ~w.pending[h].there,
           \A g \in History : g # h => v.pending[g].there = w.pending[g].there,
           v.posted = (w.posted \/ There(v.pending) = {h})
    PROVE  PostSound(v)
<1> SUFFICES ASSUME There(v.pending) # {}, There(v.pending) # {h} PROVE w.posted
  BY DEF PostSound
<1>1. PICK g \in History : g # h /\ v.pending[g].there BY DEF There
<1>2. g \in There(w.pending) BY <1>1 DEF There
<1> QED BY <1>2 DEF PostSound

LEMMA RequestEntrySound ==
    ASSUME NEW w, NEW U, NEW C, Sound(w, U, C), NEW h \in History, NEW calls \in Seq(Callback),
           NEW v, v = RequestEntry(w, h, calls)
    PROVE  /\ Sound(v, U, C) /\ KeepsTimes(w, v)
           /\ v.states = w.states /\ v.local = w.local
           /\ v.pending[h].there \/ v.asked[h].there
<1>0. w \in Worlds BY DEF Sound
<1>1. /\ w.pending \in [History -> Entry] /\ w.asked \in [History -> Entry]
      /\ w.asked[h] \in Entry /\ w.pending[h] \in Entry
  BY <1>0, WorldFields
<1>2. ChatSound(w, h, U, C) BY DEF Sound
<1>3. CASE w.asked[h].there
  <2> DEFINE e == [w.asked[h] EXCEPT !.calls = @ \o calls]
             asked2 == [w.asked EXCEPT ![h] = e]
  <2>1. v = [w EXCEPT !.asked = asked2] BY <1>3, <1>0, <1>1 DEF RequestEntry, Worlds
  <2>2. e \in Entry /\ e.there = TRUE
    <3>1. w.asked[h].calls \o calls \in Seq(Callback) BY <1>1, ConcatProperties DEF Entry
    <3> QED BY <3>1, <1>1, <1>3 DEF Entry
  <2> HIDE DEF e
  <2>3. asked2 \in [History -> Entry] /\ asked2[h] = e
        /\ \A g \in History : g # h => asked2[g] = w.asked[g]
    BY <1>1, <2>2
  <2> HIDE DEF asked2
  <2>4. /\ v \in Worlds /\ v.states = w.states /\ v.local = w.local /\ v.pending = w.pending
        /\ v.asked = asked2 /\ v.posted = w.posted /\ v.timer = w.timer /\ v.told = w.told
        /\ v.ok = w.ok
    BY <2>1, <2>3, <1>0 DEF Worlds
  <2>5. \A g \in History : SameChat(w, v, g) BY <2>2, <2>3, <2>4, <1>3 DEF SameChat
  <2>6. Sound(v, U, C)
    <3>1. \A g \in History : ChatSound(v, g, U, C) BY <2>5, SameChatSound DEF Sound
    <3>2. PostSound(v) BY <2>4, PostKept DEF Sound
    <3> QED BY <2>4, <3>1, <3>2 DEF Sound
  <2> QED BY <2>2, <2>3, <2>4, <2>6 DEF KeepsTimes
<1>4. CASE ~w.asked[h].there
  <2> DEFINE e == [there |-> TRUE, calls |-> w.pending[h].calls \o calls]
             pending2 == [w.pending EXCEPT ![h] = e]
             posted2 == w.posted \/ (~w.pending[h].there /\ There(pending2) = {h})
  <2>1. v = [w EXCEPT !.pending = pending2, !.posted = posted2]
    BY <1>4, <1>0, <1>1 DEF RequestEntry, Worlds
  <2>2. e \in Entry /\ e.there = TRUE
    <3>1. w.pending[h].calls \o calls \in Seq(Callback) BY <1>1, ConcatProperties DEF Entry
    <3> QED BY <3>1 DEF Entry
  <2> HIDE DEF e
  <2>3. pending2 \in [History -> Entry] /\ pending2[h] = e
        /\ \A g \in History : g # h => pending2[g] = w.pending[g]
    BY <1>1, <2>2
  <2>4. posted2 \in BOOLEAN BY <1>0, WorldFields
  <2>5. posted2 = (w.posted \/ (~w.pending[h].there /\ There(pending2) = {h})) OBVIOUS
  <2> HIDE DEF pending2, posted2
  <2>6. /\ v \in Worlds /\ v.states = w.states /\ v.local = w.local /\ v.pending = pending2
        /\ v.asked = w.asked /\ v.posted = posted2 /\ v.timer = w.timer /\ v.told = w.told
        /\ v.ok = w.ok
    BY <2>1, <2>3, <2>4, <1>0 DEF Worlds
  <2>7. \A g \in History : g # h => SameChat(w, v, g) BY <2>3, <2>6 DEF SameChat
  <2>8. PostSound(v)
    <3>1. CASE w.pending[h].there
      <4>1. \A g \in History : v.pending[g].there = w.pending[g].there
        BY <3>1, <2>2, <2>3, <2>6, <1>1 DEF Entry
      <4>2. v.posted = w.posted BY <3>1, <2>5, <2>6, <1>0, WorldFields
      <4> QED BY <4>1, <4>2, PostKept DEF Sound
    <3>2. CASE ~w.pending[h].there
      <4>1. v.posted = (w.posted \/ There(v.pending) = {h}) BY <3>2, <2>5, <2>6
      <4>2. \A g \in History : g # h => v.pending[g].there = w.pending[g].there BY <2>7 DEF SameChat
      <4> QED BY <3>2, <4>1, <4>2, PostAdded DEF Sound
    <3> QED BY <3>1, <3>2
  <2>9. ChatSound(v, h, U, C)
    <3>1. v.pending[h].there = TRUE BY <2>2, <2>3, <2>6
    <3>2. EntrySound(v.states[h], v.pending[h].there, v.asked[h].there, h \in U)
      BY <1>2, <1>4, <2>6 DEF ChatSound, EntrySound
    <3>3. WaitSound(v.states[h], v.pending[h].there, v.asked[h].there, h \in C)
      BY <1>2, <3>1, <2>6 DEF ChatSound, WaitSound
    <3> QED BY <1>2, <2>6, <3>2, <3>3 DEF ChatSound
  <2>10. Sound(v, U, C)
    <3>1. v.ok BY <2>6 DEF Sound
    <3> QED BY <2>6, <2>7, <2>8, <2>9, <3>1, ChatChangedSound
  <2> QED BY <2>2, <2>3, <2>6, <2>10 DEF KeepsTimes
<1> QED BY <1>3, <1>4

\* A state and the chat around it.
StateSound(s, pends, waits, g, U, C, read, known) ==
    /\ s \in State /\ HoldSound(s) /\ EntrySound(s, pends, waits, g \in U)
    /\ ReadSound(s, read, known) /\ WaitSound(s, pends, waits, g \in C)

LEMMA EmptyFields ==
    /\ EmptyState \in State /\ EmptyState.sent = {} /\ EmptyState.postponed = {}
    /\ EmptyState.will = 0 /\ EmptyState.later = FALSE /\ EmptyState.sentTill = 0
    /\ EmptyState.entry = FALSE
BY DEF EmptyState, State

LEMMA KeptSound ==
    ASSUME NEW s, NEW pends, NEW waits, NEW g, NEW U, NEW C, NEW read, NEW known,
           StateSound(s, pends, waits, g, U, C, read, known)
    PROVE  /\ StateSound(Kept(s), pends, waits, g, U, C, read, known)
           /\ Kept(s).will = s.will
           /\ s.will # 0 => Kept(s).later = s.later
<1>1. CASE /\ s.postponed = {} /\ s.sent = {} /\ ~s.entry /\ s.will = 0 /\ s.sentTill = 0
  <2>1. Kept(s) = EmptyState BY <1>1 DEF Kept
  <2>2. HoldSound(EmptyState) BY EmptyFields, FS_EmptySet DEF HoldSound, Deleting
  <2>3. EntrySound(EmptyState, pends, waits, g \in U)
    BY EmptyFields, <1>1 DEF StateSound, EntrySound
  <2>4. ReadSound(EmptyState, read, known)
    BY EmptyFields, <1>1 DEF StateSound, ReadSound, Reading
  <2>5. WaitSound(EmptyState, pends, waits, g \in C) BY EmptyFields DEF WaitSound
  <2> QED BY <2>1, <2>2, <2>3, <2>4, <2>5, <1>1, EmptyFields DEF StateSound
<1>2. CASE ~(/\ s.postponed = {} /\ s.sent = {} /\ ~s.entry /\ s.will = 0 /\ s.sentTill = 0)
  <2>1. Kept(s) = s BY <1>2 DEF Kept
  <2> QED BY <2>1
<1> QED BY <1>1, <1>2

\* The end of r is not what reading waits for.
NotAwaited(s, r) ==
    r.type = "ReadInbox" /\ s.sentTill # 0 /\ ~s.done => r.till # s.sentTill

\* The state of a chat without r, and with what waited for it.
Without(state, r) ==
    LET left == [state EXCEPT !.sent = @ \ {r}]
    IN IF ~Deleting(left) THEN [left EXCEPT !.sent = @ \cup left.postponed, !.postponed = {}]
       ELSE left

LEMMA WithoutFields ==
    ASSUME NEW state \in State, HoldSound(state), NEW r, NEW s, s = Without(state, r)
    PROVE  /\ s \in State /\ HoldSound(s) /\ SameReads(state, s) /\ s.entry = state.entry
           /\ Reading(s) = Reading(state) \ {r}
<1> DEFINE left == [state EXCEPT !.sent = @ \ {r}]
<1>1. /\ left \in State /\ left.sent = state.sent \ {r} /\ left.postponed = state.postponed
      /\ SameReads(state, left) /\ left.entry = state.entry
  BY DEF State, SameReads
<1>2. IsFiniteSet(left.sent)
  <2>1. IsFiniteSet(state.sent \ {r}) BY FS_RemoveElement DEF HoldSound
  <2> QED BY <2>1, <1>1
<1>3. CASE Deleting(left)
  <2>1. s = left BY <1>3 DEF Without
  <2> HIDE DEF left
  <2>2. HoldSound(left)
    <3>1. Deleting(state) BY <1>1, <1>3 DEF Deleting
    <3> QED BY <1>1, <1>2, <1>3, <3>1 DEF HoldSound
  <2> QED BY <2>1, <2>2, <1>1 DEF Reading
<1>4. CASE ~Deleting(left)
  <2> DEFINE all == left.sent \cup left.postponed
  <2>1. s = [left EXCEPT !.sent = all, !.postponed = {}]
    BY <1>4, <1>1 DEF Without, State
  <2> HIDE DEF left
  <2>2. all \in SUBSET Request /\ {} \in SUBSET Request BY <1>1 DEF State
  <2>3. IsFiniteSet(all) BY <1>1, <1>2, FS_Union DEF HoldSound
  <2> HIDE DEF all
  <2>4. /\ s \in State /\ s.sent = all /\ s.postponed = {}
        /\ SameReads(left, s) /\ s.entry = left.entry
    BY <2>1, <2>2, <1>1 DEF State, SameReads
  <2>5. \A q \in left.postponed : q.type = "History" BY <1>1 DEF HoldSound
  <2>6. ~Deleting(s) BY <1>4, <2>4, <2>5 DEF Deleting, all
  <2>7. HoldSound(s) BY <2>3, <2>4, <2>6, FS_EmptySet DEF HoldSound
  <2>8. Reading(s) = Reading(state) \ {r} BY <2>4, <2>5, <1>1 DEF Reading, all
  <2> QED BY <2>4, <2>7, <2>8, <1>1 DEF SameReads
<1> QED BY <1>3, <1>4

LEMMA SoundState ==
    ASSUME NEW w, NEW U, NEW C, Sound(w, U, C), NEW h \in History
    PROVE  StateSound(w.states[h], w.pending[h].there, w.asked[h].there, h, U, C,
                      w.local[h].till, w.told[h])
<1>1. w.states[h] \in State BY WorldFields DEF Sound
<1> QED BY <1>1 DEF Sound, ChatSound, StateSound

LEMMA ReadSoundLess ==
    ASSUME NEW state, NEW s, NEW read, NEW known, ReadSound(state, read, known),
           SameReads(state, s), Reading(s) \subseteq Reading(state)
    PROVE  ReadSound(s, read, known)
BY DEF ReadSound, SameReads

LEMMA FinishRequestSound ==
    ASSUME NEW w, NEW U, NEW C, Sound(w, U, C), NEW h \in History, NEW r,
           NotAwaited(w.states[h], r), NEW v, v = FinishRequest(w, h, r)
    PROVE  /\ Sound(v, U, C) /\ KeepsTimes(w, v)
<1> DEFINE pends == w.pending[h].there
           waits == w.asked[h].there
           read == w.local[h].till
           known == w.told[h]
           state == Without(w.states[h], r)
           moves == state.entry /\ ~Changing(state)
           k == Kept(state)
           after == WithState(w, h, k, w.made)
           idle == [state EXCEPT !.entry = FALSE]
           k2 == Kept(idle)
           pending2 == [w.pending EXCEPT ![h] = w.asked[h]]
           asked2 == [w.asked EXCEPT ![h] = Absent]
           states2 == [w.states EXCEPT ![h] = k2]
           ok2 == w.ok /\ waits /\ ~pends
           posted2 == w.posted \/ There(pending2) = {h}
<1>0. /\ w \in Worlds /\ w.states[h] \in State /\ w.states \in [History -> State]
      /\ w.pending \in [History -> Entry] /\ w.asked \in [History -> Entry]
      /\ w.asked[h] \in Entry /\ w.pending[h] \in Entry /\ w.made \in Nat
      /\ waits \in BOOLEAN /\ pends \in BOOLEAN
  BY WorldFields DEF Sound, Entry
<1>1. StateSound(w.states[h], pends, waits, h, U, C, read, known) BY SoundState
<1> DEFINE a == [w EXCEPT !.states[h] = Kept(state)]
           n == [w EXCEPT !.pending[h] = w.asked[h], !.asked[h] = Absent, !.states[h] = Kept(idle),
                          !.ok = @ /\ w.asked[h].there /\ ~w.pending[h].there]
           n2 == [w EXCEPT !.pending = pending2, !.asked = asked2, !.states = states2, !.ok = ok2]
<1>v1. v = IF ~moves THEN a ELSE [n EXCEPT !.posted = @ \/ There(n.pending) = {h}]
  BY DEF FinishRequest, Without
<1> HIDE DEF state
<1>v2. a = after
  <2> HIDE DEF k
  <2> QED BY <1>0 DEF WithState, Worlds, k
<1>v3. n = n2 /\ n2.pending = pending2 /\ n2.posted = w.posted
  <2> HIDE DEF idle
  <2> QED BY <1>0 DEF Worlds
<1>2. /\ state \in State /\ HoldSound(state) /\ SameReads(w.states[h], state)
      /\ state.entry = w.states[h].entry /\ Reading(state) = Reading(w.states[h]) \ {r}
  BY <1>0, <1>1, WithoutFields DEF StateSound, state
<1>3. ReadSound(state, read, known) BY <1>1, <1>2, ReadSoundLess DEF StateSound
<1>4. WaitSound(state, pends, waits, h \in C)
  BY <1>1, <1>2 DEF StateSound, WaitSound, SameReads, NotAwaited, Reading
<1>5. CASE ~moves
  <2>1. EntrySound(state, pends, waits, h \in U) BY <1>1, <1>2, <1>5 DEF StateSound, EntrySound
  <2>2. StateSound(state, pends, waits, h, U, C, read, known) BY <1>2, <1>3, <1>4, <2>1 DEF StateSound
  <2>3. /\ StateSound(k, pends, waits, h, U, C, read, known)
        /\ k.will = state.will /\ (state.will # 0 => k.later = state.later)
    BY <2>2, KeptSound
  <2>4. v = WithState(w, h, k, w.made) BY <1>v1, <1>v2, <1>5
  <2> HIDE DEF k, moves
  <2>5. Sound(v, U, C) BY <2>3, <2>4, <1>0, StateChangedSound DEF StateSound
  <2>6. /\ v.states[h] = k /\ v.timer = w.timer
        /\ \A g \in History : g # h => SameChat(w, v, g)
    BY <2>3, <2>4, <1>0, StateChanged DEF StateSound
  <2>7. KeepsTimes(w, v) BY <2>3, <2>6, <1>2 DEF KeepsTimes, SameChat, SameReads
  <2> QED BY <2>5, <2>7
<1>6. CASE moves
  <2>1. waits = TRUE /\ pends = FALSE
    BY <1>0, <1>1, <1>2, <1>6 DEF StateSound, EntrySound
  <2>2. /\ idle \in State /\ idle.entry = FALSE /\ idle.sent = state.sent
        /\ idle.postponed = state.postponed /\ SameReads(state, idle)
    BY <1>2 DEF State, SameReads
  <2>3. v = [n2 EXCEPT !.posted = posted2]
    <3> HIDE DEF n, n2, moves, pending2
    <3> QED BY <1>v1, <1>v3, <1>6
  <2> HIDE DEF idle, moves
  <2>4. StateSound(idle, TRUE, FALSE, h, U, C, read, known)
    <3>1. HoldSound(idle) BY <2>2, <1>2 DEF HoldSound, Deleting
    <3>2. EntrySound(idle, TRUE, FALSE, h \in U) BY <2>2 DEF EntrySound
    <3>3. Reading(idle) = Reading(state) BY <2>2 DEF Reading
    <3>4. ReadSound(idle, read, known) BY <2>2, <3>3, <1>3, ReadSoundLess
    <3>5. WaitSound(idle, TRUE, FALSE, h \in C) BY <2>1, <2>2, <3>3, <1>4 DEF WaitSound, SameReads
    <3> QED BY <2>2, <3>1, <3>2, <3>4, <3>5 DEF StateSound
  <2>5. /\ StateSound(k2, TRUE, FALSE, h, U, C, read, known)
        /\ k2.will = idle.will /\ (idle.will # 0 => k2.later = idle.later)
    BY <2>4, KeptSound
  <2> HIDE DEF k2
  <2>6. Absent \in Entry /\ Absent.there = FALSE BY EmptySeq DEF Absent, Entry
  <2>7. /\ pending2 \in [History -> Entry] /\ pending2[h] = w.asked[h]
        /\ \A g \in History : g # h => pending2[g] = w.pending[g]
    BY <1>0
  <2>8. /\ asked2 \in [History -> Entry] /\ asked2[h] = Absent
        /\ \A g \in History : g # h => asked2[g] = w.asked[g]
    BY <1>0, <2>6
  <2>9. /\ states2 \in [History -> State] /\ states2[h] = k2
        /\ \A g \in History : g # h => states2[g] = w.states[g]
    BY <1>0, <2>5 DEF StateSound
  <2>10. ok2 = TRUE BY <2>1 DEF Sound
  <2>11. posted2 \in BOOLEAN /\ posted2 = (w.posted \/ There(pending2) = {h})
    BY <1>0, WorldFields
  <2> HIDE DEF states2, pending2, asked2, ok2, posted2
  <2>12. /\ v \in Worlds /\ v.states = states2 /\ v.local = w.local /\ v.pending = pending2
         /\ v.asked = asked2 /\ v.posted = posted2 /\ v.timer = w.timer /\ v.told = w.told
         /\ v.ok = TRUE
    BY <2>3, <2>7, <2>8, <2>9, <2>10, <2>11, <1>0 DEF Worlds
  <2>13. \A g \in History : g # h => SameChat(w, v, g)
    BY <2>7, <2>8, <2>9, <2>12 DEF SameChat
  <2>14. PostSound(v)
    <3>1. \A g \in History : g # h => v.pending[g].there = w.pending[g].there BY <2>7, <2>12
    <3>2. v.posted = (w.posted \/ There(v.pending) = {h}) BY <2>11, <2>12
    <3>3. ~w.pending[h].there BY <2>1
    <3> QED BY <3>1, <3>2, <3>3, PostAdded DEF Sound
  <2>15. ChatSound(v, h, U, C)
    <3>1. v.pending[h].there = TRUE /\ v.asked[h].there = FALSE
      BY <2>1, <2>6, <2>7, <2>8, <2>12
    <3> QED BY <3>1, <2>5, <2>9, <2>12 DEF ChatSound, StateSound
  <2>16. Sound(v, U, C) BY <2>12, <2>13, <2>14, <2>15, ChatChangedSound
  <2>17. KeepsTimes(w, v)
    BY <2>2, <2>5, <2>9, <2>12, <2>13, <1>2 DEF KeepsTimes, SameChat, SameReads
  <2> QED BY <2>16, <2>17
<1> QED BY <1>5, <1>6

-----------------------------------------------------------------------------
(* Reading here.                                                           *)

\* w with what is known here of the chat h.
WithLocal(w, h, l) == [w EXCEPT !.local[h] = l]

LEMMA LocalChanged ==
    ASSUME NEW w, NEW U, NEW C, Sound(w, U, C), NEW h \in History, NEW l \in Local,
           w.local[h].till <= l.till, NEW v, v = WithLocal(w, h, l)
    PROVE  /\ Sound(v, U, C) /\ KeepsTimes(w, v)
           /\ v.states = w.states /\ v.pending = w.pending /\ v.asked = w.asked
           /\ v.told = w.told /\ v.timer = w.timer /\ v.local[h] = l
<1>0. w \in Worlds /\ w.local \in [History -> Local] BY WorldFields DEF Sound
<1> DEFINE local2 == [w.local EXCEPT ![h] = l]
<1>1. v = [w EXCEPT !.local = local2] BY <1>0 DEF WithLocal, Worlds
<1>2. local2 \in [History -> Local] /\ local2[h] = l
      /\ \A g \in History : g # h => local2[g] = w.local[g]
  BY <1>0
<1> HIDE DEF local2
<1>3. /\ v \in Worlds /\ v.states = w.states /\ v.local = local2 /\ v.pending = w.pending
      /\ v.asked = w.asked /\ v.posted = w.posted /\ v.timer = w.timer /\ v.told = w.told
      /\ v.ok = w.ok
  BY <1>0, <1>1, <1>2 DEF Worlds
<1>4. \A g \in History : g # h => SameChat(w, v, g) BY <1>2, <1>3 DEF SameChat
<1>5. PostSound(v) BY <1>3, PostKept DEF Sound
<1>6. ChatSound(v, h, U, C)
  <2>1. ChatSound(w, h, U, C) BY DEF Sound
  <2>2. /\ w.local[h].till \in 0 .. MaxTill /\ l.till \in 0 .. MaxTill /\ w.told[h] \in 0 .. MaxTill
        /\ w.states[h].sentTill \in 0 .. MaxTill
        /\ \A r \in Reading(w.states[h]) : r.till \in 0 .. MaxTill
    BY <1>0, WorldFields DEF Local, State, Reading, Request
  <2>3. ReadSound(w.states[h], w.local[h].till, w.told[h]) BY <2>1 DEF ChatSound
  <2>4. ReadSound(w.states[h], l.till, w.told[h])
    <3>1. \A r \in Reading(w.states[h]) :
            /\ r.till # 0
            /\ IF w.states[h].sentTill = 0 THEN r.till <= l.till ELSE r.till <= w.states[h].sentTill
            /\ w.states[h].will # 0 => r.till < w.states[h].will
      BY <2>2, <2>3 DEF ReadSound
    <3>2. w.told[h] <= l.till \/ w.told[h] <= w.states[h].sentTill BY <2>2, <2>3 DEF ReadSound
    <3> QED BY <2>3, <3>1, <3>2 DEF ReadSound
  <2> QED BY <2>1, <2>4, <1>2, <1>3 DEF ChatSound
<1>7. v.ok BY <1>3 DEF Sound
<1>8. Sound(v, U, C) BY <1>3, <1>4, <1>5, <1>6, <1>7, ChatChangedSound
<1> QED BY <1>2, <1>3, <1>8 DEF KeepsTimes

LEMMA ReadLocallySound ==
    ASSUME NEW w, NEW U, NEW C, Sound(w, U, C), NEW h \in History, NEW till \in 0 .. MaxTill,
           NEW v, v = ReadLocally(w, h, till)
    PROVE  /\ Sound(v, U, C) /\ KeepsTimes(w, v)
           /\ v.states = w.states /\ v.pending = w.pending /\ v.asked = w.asked
           /\ v.told = w.told /\ v.timer = w.timer
           /\ till <= v.local[h].till
<1> DEFINE l == [w.local[h] EXCEPT !.till = Higher(@, till)]
<1>0. w \in Worlds /\ w.local[h] \in Local /\ w.local \in [History -> Local]
  BY WorldFields DEF Sound
<1>1. Higher(w.local[h].till, till) \in 0 .. MaxTill
      /\ w.local[h].till <= Higher(w.local[h].till, till) /\ till <= Higher(w.local[h].till, till)
  BY <1>0, HigherType DEF Local
<1>2. l \in Local /\ l.till = Higher(w.local[h].till, till) BY <1>0, <1>1 DEF Local
<1>3. v = WithLocal(w, h, l) BY <1>0 DEF ReadLocally, WithLocal, Worlds, Local
<1> HIDE DEF l
<1> QED BY <1>1, <1>2, <1>3, LocalChanged

\* Marked of ReadTill: read till here, with the count of what is unread known.
MarkedRead(w, h, till) == [ReadLocally(w, h, till) EXCEPT !.local[h].known = TRUE]

LEMMA MarkedReadSound ==
    ASSUME NEW w, NEW U, NEW C, Sound(w, U, C), NEW h \in History, NEW till \in 0 .. MaxTill,
           NEW v, v = MarkedRead(w, h, till)
    PROVE  /\ Sound(v, U, C) /\ KeepsTimes(w, v)
           /\ v.states = w.states /\ v.told = w.told
<1> DEFINE u == ReadLocally(w, h, till)
           l == [u.local[h] EXCEPT !.known = TRUE]
<1>1. /\ Sound(u, U, C) /\ KeepsTimes(w, u) /\ u.states = w.states /\ u.told = w.told
      /\ u.timer = w.timer
  BY ReadLocallySound
<1> HIDE DEF u
<1>2. u \in Worlds /\ u.local[h] \in Local /\ u.local \in [History -> Local]
  BY <1>1, WorldFields DEF Sound
<1>3. l \in Local /\ l.till = u.local[h].till BY <1>2 DEF Local
<1>4. v = WithLocal(u, h, l) BY <1>2 DEF MarkedRead, WithLocal, u, Worlds, Local
<1>5. u.local[h].till <= l.till BY <1>2, <1>3 DEF Local
<1> HIDE DEF l
<1>6. /\ Sound(v, U, C) /\ KeepsTimes(u, v) /\ v.states = u.states /\ v.told = u.told
      /\ v.timer = u.timer
  BY <1>1, <1>3, <1>4, <1>5, LocalChanged
<1> QED BY <1>1, <1>6 DEF KeepsTimes

\* The chat is to be read till `till', now or later.
WillState(state, till, later) == [state EXCEPT !.will = till, !.later = later]

WillRead(state, till, later, pends, waits, g, U, C, read, known) ==
    LET s == WillState(state, till, later)
    IN /\ StateSound(s, pends, waits, g, U, C, read, known)
       /\ s.will = till /\ s.later = later

LEMMA WillReadSound ==
    ASSUME NEW state \in State, NEW pends, NEW waits, NEW g, NEW U, NEW C,
           NEW read \in 0 .. MaxTill, NEW known \in 0 .. MaxTill,
           StateSound(state, pends, waits, g, U, C, read, known),
           NEW till \in 1 .. MaxTill, NEW later \in BOOLEAN,
           state.sentTill < till, state.will < till, read < till \/ state.will # 0
    PROVE  WillRead(state, till, later, pends, waits, g, U, C, read, known)
<1> DEFINE s == WillState(state, till, later)
<1>t. till \in 0 .. MaxTill OBVIOUS
<1>1. s \in State /\ s.will = till /\ s.later = later
  <2>1. s \in State BY <1>t DEF State, WillState
  <2>2. s.will = till BY <1>t DEF State, WillState
  <2>3. s.later = later BY <1>t DEF State, WillState
  <2> QED BY <2>1, <2>2, <2>3
<1>2. /\ s.sentTill = state.sentTill /\ s.done = state.done
      /\ s.sent = state.sent /\ s.postponed = state.postponed /\ s.entry = state.entry
  BY DEF State, WillState
<1>3. HoldSound(s) BY <1>2 DEF StateSound, HoldSound, Deleting
<1>4. EntrySound(s, pends, waits, g \in U) BY <1>2 DEF StateSound, EntrySound, Changing
<1>5. Reading(s) = Reading(state) BY <1>2 DEF Reading
<1>6. WaitSound(s, pends, waits, g \in C) BY <1>2, <1>5 DEF StateSound, WaitSound
<1>7. ReadSound(s, read, known)
  <2>0. ReadSound(state, read, known) BY DEF StateSound
  <2>1. \A r \in Reading(state) : r.till \in 0 .. MaxTill BY DEF Reading, State, Request
  <2>2. state.sentTill \in 0 .. MaxTill /\ state.will \in 0 .. MaxTill BY DEF State
  <2>3. \A r \in Reading(state) : r.till < till
    BY <2>0, <2>1, <2>2 DEF ReadSound
  <2>4. till # 0 OBVIOUS
  <2>5. \A r \in Reading(state) :
          r.till # 0 /\ IF state.sentTill = 0 THEN r.till <= read ELSE r.till <= state.sentTill
    BY <2>0 DEF ReadSound
  <2>6. known <= read \/ known <= state.sentTill BY <2>0 DEF ReadSound
  <2> QED BY <2>3, <2>4, <2>5, <2>6, <1>1, <1>2, <1>5 DEF ReadSound
<1> QED BY <1>1, <1>3, <1>4, <1>6, <1>7 DEF StateSound, WillRead

LEMMA SendReadsTimes ==
    ASSUME NEW w, NEW U, NEW C, Sound(w, U, C), GhostTold, NEW due, NEW v, v = SendReads(w, due)
    PROVE  Sound(v, U, C) /\ Timed(v)
BY SendReadsFields DEF Timed, GhostTold

\* A chat that waits to be read is read at once.
Soon(w, h) == [w EXCEPT !.states[h].later = FALSE]

LEMMA SoonSound ==
    ASSUME NEW w, NEW U, NEW C, Sound(w, U, C), NEW h \in History
    PROVE  Sound(Soon(w, h), U, C)
<1> DEFINE s == [w.states[h] EXCEPT !.later = FALSE]
<1>0. /\ w \in Worlds /\ w.states[h] \in State /\ w.states \in [History -> State] /\ w.made \in Nat
  BY WorldFields DEF Sound
<1>1. Soon(w, h) = WithState(w, h, s, w.made) BY <1>0 DEF Soon, WithState, Worlds, State
<1>2. /\ s \in State /\ s.later = FALSE /\ s.will = w.states[h].will
      /\ s.sentTill = w.states[h].sentTill /\ s.done = w.states[h].done
      /\ s.sent = w.states[h].sent /\ s.postponed = w.states[h].postponed
      /\ s.entry = w.states[h].entry
  BY <1>0 DEF State
<1> HIDE DEF s
<1>3. ChatSound(w, h, U, C) BY DEF Sound
<1>4. HoldSound(s) BY <1>2, <1>3 DEF ChatSound, HoldSound, Deleting
<1>5. EntrySound(s, w.pending[h].there, w.asked[h].there, h \in U)
  BY <1>2, <1>3 DEF ChatSound, EntrySound, Changing
<1>6. ReadSound(s, w.local[h].till, w.told[h])
  BY <1>2, <1>3 DEF ChatSound, ReadSound, Reading
<1>7. WaitSound(s, w.pending[h].there, w.asked[h].there, h \in C)
  BY <1>2, <1>3 DEF ChatSound, WaitSound, Reading
<1>8. Sound(WithState(w, h, s, w.made), U, C)
  BY <1>0, <1>2, <1>4, <1>5, <1>6, <1>7, StateChangedSound
<1> QED BY <1>1, <1>8

\* ReadTill in two steps: what there is to do, and the guard at its end.
ReadResult(w, h, till, force, still, due) ==
    LET state == w.states[h]
        needs == w.local[h].till < till
        will == [w EXCEPT !.states[h].will = till]
        now == [will EXCEPT !.states[h].later = FALSE]
    IN IF (~needs /\ ~force) \/ state.sentTill >= till THEN w
       ELSE IF state.will >= till
            THEN IF force /\ state.later THEN SendReads(Soon(w, h), due) ELSE w
       ELSE IF ~needs /\ state.will = 0 THEN w
       ELSE IF ~force /\ still = "same" THEN ReadLocally(w, h, till)
       ELSE IF still = "unknown" THEN SendReads(now, due)
       ELSE IF force \/ still = "none" THEN MarkedRead(SendReads(now, due), h, till)
       ELSE MarkedRead([will EXCEPT !.states[h].later = TRUE, !.timer = @ \/ ~state.later], h, till)

LEMMA ReadTillIs ==
    ASSUME NEW w, NEW h, NEW till, NEW force, NEW still, NEW atEnd, NEW due
    PROVE  ReadTill(w, h, till, force, still, atEnd, due) =
             IF atEnd THEN MarkedRead(ReadResult(w, h, till, force, still, due), h, till)
             ELSE ReadResult(w, h, till, force, still, due)
BY Zenon DEF ReadTill, ReadResult, MarkedRead, Soon

LEMMA ReadResultSound ==
    ASSUME NEW w, NEW U, NEW C, Sound(w, U, C), Timed(w), GhostTold,
           NEW h \in History, NEW till \in 1 .. MaxTill,
           NEW force \in BOOLEAN, NEW still, NEW due,
           NEW v, v = ReadResult(w, h, till, force, still, due)
    PROVE  Sound(v, U, C) /\ Timed(v)
<1> DEFINE state == w.states[h]
           needs == w.local[h].till < till
           sNow == WillState(state, till, FALSE)
           sLater == WillState(state, till, TRUE)
           will == [w EXCEPT !.states[h].will = till]
           now == [will EXCEPT !.states[h].later = FALSE]
           later == [will EXCEPT !.states[h].later = TRUE, !.timer = @ \/ ~state.later]
<1>0. /\ w \in Worlds /\ state \in State /\ w.states \in [History -> State] /\ w.made \in Nat
      /\ w.local[h].till \in 0 .. MaxTill /\ w.told[h] \in 0 .. MaxTill /\ w.timer \in BOOLEAN
      /\ till \in 0 .. MaxTill
      /\ state.will \in 0 .. MaxTill /\ state.sentTill \in 0 .. MaxTill
  BY WorldFields DEF Sound, Local, State
<1>1. StateSound(state, w.pending[h].there, w.asked[h].there, h, U, C, w.local[h].till, w.told[h])
  BY SoundState
<1>2. CASE \/ (~needs /\ ~force) \/ state.sentTill >= till
           \/ state.will >= till /\ ~(force /\ state.later)
           \/ ~needs /\ state.will = 0 /\ ~(state.will >= till)
  <2>1. v = w BY <1>2 DEF ReadResult
  <2> QED BY <2>1
<1>3. CASE /\ ~((~needs /\ ~force) \/ state.sentTill >= till)
           /\ state.will >= till /\ force /\ state.later
  <2>1. v = SendReads(Soon(w, h), due) BY <1>3 DEF ReadResult
  <2>2. Sound(Soon(w, h), U, C) BY SoonSound
  <2> QED BY <2>1, <2>2, SendReadsTimes
<1>4. CASE /\ ~((~needs /\ ~force) \/ state.sentTill >= till)
           /\ ~(state.will >= till) /\ ~(~needs /\ state.will = 0)
  <2>1. state.sentTill < till /\ state.will < till /\ (w.local[h].till < till \/ state.will # 0)
    BY <1>0, <1>4
  <2>2. now = WithState(w, h, sNow, w.made) BY <1>0 DEF WithState, WillState, Worlds, State
  <2>3. later = [WithState(w, h, sLater, w.made) EXCEPT !.timer = w.timer \/ ~state.later]
    BY <1>0 DEF WithState, WillState, Worlds, State
  <2>4. CASE ~force /\ still = "same"
    <3>1. v = ReadLocally(w, h, till) BY <1>4, <2>4 DEF ReadResult
    <3> QED BY <3>1, <1>0, ReadLocallySound, TimesKept DEF Timed
  <2>5. Sound(now, U, C)
    <3>0. WillRead(state, till, FALSE, w.pending[h].there, w.asked[h].there, h, U, C,
                   w.local[h].till, w.told[h])
      <4> HIDE DEF state
      <4> QED BY <1>0, <1>1, <2>1, WillReadSound
    <3>1. StateSound(sNow, w.pending[h].there, w.asked[h].there, h, U, C, w.local[h].till, w.told[h])
      BY <3>0 DEF WillRead
    <3> HIDE DEF sNow
    <3> HIDE DEF sNow, now
    <3> QED BY <3>1, <2>2, <1>0, StateChangedSound DEF StateSound
  <2>6. CASE ~(~force /\ still = "same") /\ still = "unknown"
    <3>1. v = SendReads(now, due) BY <1>4, <2>6 DEF ReadResult
    <3> HIDE DEF now
    <3> QED BY <3>1, <2>5, SendReadsTimes
  <2>7. CASE ~(~force /\ still = "same") /\ still # "unknown" /\ (force \/ still = "none")
    <3> DEFINE u == SendReads(now, due)
    <3>1. v = MarkedRead(u, h, till) BY <1>4, <2>7 DEF ReadResult
    <3> HIDE DEF now
    <3>2. Sound(u, U, C) /\ Timed(u) BY <2>5, SendReadsTimes
    <3> HIDE DEF u
    <3>3. Sound(v, U, C) /\ KeepsTimes(u, v) BY <3>1, <3>2, <1>0, MarkedReadSound
    <3> QED BY <3>2, <3>3, TimesKept DEF Timed
  <2>8. CASE ~(~force /\ still = "same") /\ still # "unknown" /\ ~(force \/ still = "none")
    <3> DEFINE u0 == WithState(w, h, sLater, w.made)
               timer2 == w.timer \/ ~state.later
    <3>1. v = MarkedRead(later, h, till) BY <1>4, <2>8 DEF ReadResult
    <3>0. WillRead(state, till, TRUE, w.pending[h].there, w.asked[h].there, h, U, C,
                   w.local[h].till, w.told[h])
      <4> HIDE DEF state
      <4> QED BY <1>0, <1>1, <2>1, WillReadSound
    <3>2. /\ StateSound(sLater, w.pending[h].there, w.asked[h].there, h, U, C, w.local[h].till, w.told[h])
          /\ sLater.will = till /\ sLater.later = TRUE
      BY <3>0 DEF WillRead
    <3> HIDE DEF sLater
    <3>t. timer2 \in BOOLEAN BY <1>0
    <3>x. state.will = 0 => ~state.later BY <1>0, <1>1 DEF StateSound, ReadSound
    <3>y. timer2 = (w.timer \/ ~state.later) OBVIOUS
    <3> HIDE DEF later
    <3>3. /\ Sound(u0, U, C) /\ u0.states[h] = sLater /\ u0.timer = w.timer
          /\ \A g \in History : g # h => SameChat(w, u0, g)
      <4>1. Sound(u0, U, C) BY <3>2, <1>0, StateChangedSound DEF StateSound
      <4>2. /\ u0.states[h] = sLater /\ u0.timer = w.timer
            /\ \A g \in History : g # h => SameChat(w, u0, g)
        BY <3>2, <1>0, StateChanged DEF StateSound
      <4> QED BY <4>1, <4>2
    <3>4. later = [u0 EXCEPT !.timer = timer2] BY <2>3
    <3> HIDE DEF u0, timer2
    <3>5. /\ later \in Worlds /\ later.states = u0.states /\ later.local = u0.local
          /\ later.pending = u0.pending /\ later.asked = u0.asked /\ later.posted = u0.posted
          /\ later.told = u0.told /\ later.ok = u0.ok /\ later.timer = timer2
      BY <3>3, <3>4, <3>t DEF Worlds, Sound
    <3>6. Sound(later, U, C)
      <4>1. \A g \in History : ChatSound(later, g, U, C)
        BY <3>3, <3>5, SameChatSound DEF Sound, SameChat
      <4> QED BY <3>3, <3>5, <4>1, PostKept DEF Sound
    <3>7. Timed(later)
      <4> SUFFICES ASSUME TimerSound(w), NEW g \in History, later.states[g].will # 0
                   PROVE  later.states[g].later /\ later.timer
        BY DEF TimerSound, Timed
      <4>1. CASE g = h
        <5>1. w.timer \/ ~state.later BY <3>x DEF TimerSound
        <5> QED BY <5>1, <4>1, <3>2, <3>3, <3>5, <3>y
      <4>2. CASE g # h
        <5>1. later.states[g] = w.states[g] BY <4>2, <3>3, <3>5 DEF SameChat
        <5>2. w.states[g].later /\ w.timer BY <5>1 DEF TimerSound
        <5> QED BY <5>1, <5>2, <3>5, <3>y
      <4> QED BY <4>1, <4>2
    <3>8. Sound(v, U, C) /\ KeepsTimes(later, v) BY <3>1, <3>6, <1>0, MarkedReadSound
    <3> QED BY <3>7, <3>8, TimesKept DEF Timed
  <2> QED BY <2>4, <2>6, <2>7, <2>8
<1> QED BY <1>2, <1>3, <1>4

LEMMA ReadTillSound ==
    ASSUME NEW w, NEW U, NEW C, Sound(w, U, C), Timed(w), GhostTold,
           NEW h \in History, NEW till \in 1 .. MaxTill,
           NEW force \in BOOLEAN, NEW still, NEW atEnd \in BOOLEAN, NEW due,
           NEW v, v = ReadTill(w, h, till, force, still, atEnd, due)
    PROVE  Sound(v, U, C) /\ Timed(v)
<1> DEFINE u == ReadResult(w, h, till, force, still, due)
<1>1. Sound(u, U, C) /\ Timed(u) BY ReadResultSound
<1>2. v = IF atEnd THEN MarkedRead(u, h, till) ELSE u BY ReadTillIs
<1> HIDE DEF u
<1>3. till \in 0 .. MaxTill OBVIOUS
<1> QED BY <1>1, <1>2, <1>3, MarkedReadSound, TimesKept DEF Timed

-----------------------------------------------------------------------------
(* Steps.                                                                  *)

LEMMA Became ==
    ASSUME NEW w \in Worlds, Become(w)
    PROVE  World' = w
BY DEF Worlds, Become, BecomeOne, World

LEMMA StepKeeps ==
    ASSUME NEW w, Become(w), Sound(w, Coming', current'), switches' = 0 => TimerSound(w), AnswerInv'
    PROVE  IInv'
<1>1. World' = w BY Became DEF Sound
<1> QED BY <1>1 DEF IInv, Timed

LEMMA NoAnswerKeeps ==
    ASSUME AnswerInv, NoAnswer, UNCHANGED <<flights, ghost, switches>>, asks' \in 0 .. MaxAsked
    PROVE  AnswerInv' /\ Coming' = Coming /\ current' = current
BY DEF AnswerInv, NoAnswer, answerVars, Coming, GhostTold

\* An event that changes the world only.
LEMMA EventKeeps ==
    ASSUME AnswerInv, NoAnswer, UNCHANGED <<flights, ghost, switches>>, asks' \in 0 .. MaxAsked,
           NEW w, Become(w), Sound(w, Coming, current), Timed(w)
    PROVE  IInv'
<1>1. AnswerInv' /\ Coming' = Coming /\ current' = current BY NoAnswerKeeps
<1>2. Sound(w, Coming', current') BY <1>1
<1>3. switches' = 0 => TimerSound(w) BY DEF Timed
<1> QED BY <1>1, <1>2, <1>3, StepKeeps

LEMMA Now ==
    ASSUME IInv
    PROVE  /\ Sound(World, Coming, current) /\ Timed(World) /\ AnswerInv /\ GhostTold
           /\ World \in Worlds
           /\ World.states = states /\ World.local = local /\ World.pending = pending
           /\ World.asked = asked /\ World.posted = posted /\ World.timer = timer
           /\ World.told = told /\ World.made = made /\ World.ok = ok
BY DEF IInv, AnswerInv, World, Sound

LEMMA ChanceType ==
    ASSUME NEW h, NEW c \in Chance(h)
    PROVE  c.still \in Still /\ c.atEnd \in BOOLEAN
BY DEF Chance

LEMMA BecameOneOf ==
    ASSUME NEW S, BecomeOne(S)
    PROVE  \E w \in S : Become(w)
BY DEF Become, BecomeOne

LEMMA ReadInboxTillKeeps ==
    ASSUME IInv, NEW h \in Opened, NEW till \in Till, NEW force \in BOOLEAN,
           ReadInboxTill(h, till, force)
    PROVE  IInv'
<1>1. h \in History /\ till \in 1 .. MaxTill BY OpenedAssumption DEF Till
<1>2. PICK w \in {ReadTill(World, h, till, force, c.still, c.atEnd, c.due) : c \in Chance(h)} : Become(w)
  BY BecameOneOf DEF ReadInboxTill
<1>3. PICK c \in Chance(h) : w = ReadTill(World, h, till, force, c.still, c.atEnd, c.due) BY <1>2
<1>4. Sound(w, Coming, current) /\ Timed(w) BY <1>1, <1>3, Now, ChanceType, ReadTillSound
<1>5. NoAnswer /\ UNCHANGED <<flights, ghost, switches>> /\ asks' \in 0 .. MaxAsked
  BY Now DEF ReadInboxTill, AnswerInv
<1> QED BY <1>2, <1>4, <1>5, Now, EventKeeps

LEMMA SendPendingReadInboxKeeps ==
    ASSUME IInv, NEW h \in History, SendPendingReadInbox(h)
    PROVE  IInv'
<1>1. PICK w \in {SendReads([World EXCEPT !.states[h].later = FALSE], due) : due \in Due} : Become(w)
  BY BecameOneOf DEF SendPendingReadInbox
<1>2. PICK due : w = SendReads(Soon(World, h), due) BY <1>1 DEF Soon
<1>3. Sound(Soon(World, h), Coming, current) BY Now, SoonSound
<1>4. Sound(w, Coming, current) /\ Timed(w) BY <1>2, <1>3, Now, SendReadsTimes
<1>5. NoAnswer /\ UNCHANGED <<flights, ghost, switches>> /\ asks' \in 0 .. MaxAsked
  BY Now DEF SendPendingReadInbox, AnswerInv
<1> QED BY <1>1, <1>4, <1>5, Now, EventKeeps

LEMMA SendReadRequestsKeeps ==
    ASSUME IInv, SendReadRequests
    PROVE  IInv'
<1> DEFINE u == [World EXCEPT !.timer = FALSE]
<1>1. PICK w \in {SendReads(u, due) : due \in IF Due = {{}} THEN Due ELSE Due \ {{}}} : Become(w)
  BY BecameOneOf DEF SendReadRequests
<1>2. PICK due : w = SendReads(u, due) BY <1>1
<1>3. /\ u \in Worlds /\ u.states = World.states /\ u.local = World.local
      /\ u.pending = World.pending /\ u.asked = World.asked /\ u.posted = World.posted
      /\ u.told = World.told /\ u.ok = World.ok
  <2>1. World \in Worlds BY Now
  <2> QED BY <2>1 DEF Worlds
<1> HIDE DEF u
<1>4. Sound(u, Coming, current)
  <2>1. \A g \in History : ChatSound(u, g, Coming, current)
    BY <1>3, Now, SameChatSound DEF Sound, SameChat
  <2>2. PostSound(u) BY <1>3, Now, PostKept DEF Sound
  <2> QED BY <1>3, <2>1, <2>2, Now DEF Sound
<1>5. Sound(w, Coming, current) /\ Timed(w) BY <1>2, <1>4, Now, SendReadsTimes
<1>6. NoAnswer /\ UNCHANGED <<flights, ghost, switches>> /\ asks' \in 0 .. MaxAsked
  BY Now DEF SendReadRequests, AnswerInv
<1> QED BY <1>1, <1>5, <1>6, Now, EventKeeps

LEMMA SendReadsNotAwaited ==
    ASSUME NEW w, NEW U, NEW C, Sound(w, U, C), NEW due, NEW h \in History,
           NEW r \in Reading(w.states[h]), NotAwaited(w.states[h], r)
    PROVE  NotAwaited(SendReads(w, due).states[h], r)
<1> DEFINE v == SendReads(w, due)
<1>1. \/ v.states[h] = w.states[h]
      \/ w.states[h].will # 0 /\ v.states[h].sentTill = w.states[h].will
  BY SendReadsFields
<1>2. w.states[h].will # 0 => r.till < w.states[h].will
  BY DEF Sound, ChatSound, ReadSound
<1>3. r.till \in Nat /\ w.states[h].will \in Nat
  <2>1. w.states[h] \in State BY WorldFields DEF Sound
  <2> QED BY <2>1 DEF State, Reading, Request
<1> HIDE DEF v
<1>4. NotAwaited(v.states[h], r) BY <1>1, <1>2, <1>3 DEF NotAwaited
<1> QED BY <1>4 DEF v

Done(w, h) == [w EXCEPT !.states[h].done = TRUE]
Told(w, h) == [w EXCEPT !.states[h].sentTill = 0]

IsDone(v, w, h, U, C) ==
    /\ Sound(v, U, C \cup {h}) /\ KeepsTimes(w, v)
    /\ v.states[h].done = TRUE /\ v.states[h].sentTill = w.states[h].sentTill
    /\ v.states[h].will = w.states[h].will
    /\ Reading(v.states[h]) = Reading(w.states[h]) /\ v.local = w.local

\* A read request of the chat h has been answered: its entry is confirmed
\* unless it is asked for.
LEMMA DoneSound ==
    ASSUME NEW w, NEW U, NEW C, Sound(w, U, C), NEW h \in History,
           NEW v, v = Done(w, h)
    PROVE  IsDone(v, w, h, U, C)
<1> DEFINE s == [w.states[h] EXCEPT !.done = TRUE]
<1>0. /\ w \in Worlds /\ w.states[h] \in State /\ w.states \in [History -> State] /\ w.made \in Nat
  BY WorldFields DEF Sound
<1>1. v = WithState(w, h, s, w.made) BY <1>0 DEF WithState, Worlds, State, Done
<1>2. /\ s \in State /\ s.done = TRUE /\ s.later = w.states[h].later /\ s.will = w.states[h].will
      /\ s.sentTill = w.states[h].sentTill
      /\ s.sent = w.states[h].sent /\ s.postponed = w.states[h].postponed
      /\ s.entry = w.states[h].entry
  BY <1>0 DEF State
<1> HIDE DEF s
<1>3. /\ v \in Worlds /\ v.states[h] = s
      /\ \A g \in History : g # h => SameChat(w, v, g)
      /\ v.local = w.local /\ v.pending = w.pending /\ v.asked = w.asked
      /\ v.posted = w.posted /\ v.timer = w.timer /\ v.told = w.told /\ v.ok = w.ok
  BY <1>0, <1>1, <1>2, StateChanged
<1>4. ChatSound(w, h, U, C) BY DEF Sound
<1>5. Reading(s) = Reading(w.states[h]) BY <1>2 DEF Reading
<1>6. ChatSound(v, h, U, C \cup {h})
  <2>1. HoldSound(s) BY <1>2, <1>4 DEF ChatSound, HoldSound, Deleting
  <2>2. EntrySound(s, w.pending[h].there, w.asked[h].there, h \in U)
    BY <1>2, <1>4 DEF ChatSound, EntrySound, Changing
  <2>3. ReadSound(s, w.local[h].till, w.told[h])
    BY <1>2, <1>4, <1>5 DEF ChatSound, ReadSound
  <2>4. WaitSound(s, w.pending[h].there, w.asked[h].there, h \in C \cup {h})
    BY <1>2 DEF WaitSound
  <2> QED BY <1>3, <2>1, <2>2, <2>3, <2>4 DEF ChatSound
<1>7. PostSound(v) /\ v.ok BY <1>3, PostKept DEF Sound
<1>8. Sound(v, U, C \cup {h}) BY <1>3, <1>6, <1>7, ChatChangedSound
<1>9. KeepsTimes(w, v) BY <1>2, <1>3 DEF KeepsTimes, SameChat
<1> QED BY <1>2, <1>3, <1>5, <1>8, <1>9 DEF IsDone

\* The chat h is read here as far as it has been told.
LEMMA ToldSound ==
    ASSUME NEW w, NEW U, NEW C, NEW h \in History, Sound(w, U, C \cup {h}),
           w.states[h].sentTill <= w.local[h].till,
           NEW v, v = Told(w, h)
    PROVE  /\ Sound(v, U, C) /\ KeepsTimes(w, v)
           /\ v.states[h].sentTill = 0 /\ Reading(v.states[h]) = Reading(w.states[h])
<1> DEFINE s == [w.states[h] EXCEPT !.sentTill = 0]
<1>0. /\ w \in Worlds /\ w.states[h] \in State /\ w.states \in [History -> State] /\ w.made \in Nat
  BY WorldFields DEF Sound
<1>1. v = WithState(w, h, s, w.made) BY <1>0 DEF WithState, Worlds, State, Told
<1>2. /\ s \in State /\ s.done = w.states[h].done /\ s.later = w.states[h].later
      /\ s.will = w.states[h].will /\ s.sentTill = 0
      /\ s.sent = w.states[h].sent /\ s.postponed = w.states[h].postponed
      /\ s.entry = w.states[h].entry
  BY <1>0 DEF State
<1> HIDE DEF s
<1>3. /\ v \in Worlds /\ v.states[h] = s
      /\ \A g \in History : g # h => SameChat(w, v, g)
      /\ v.local = w.local /\ v.pending = w.pending /\ v.asked = w.asked
      /\ v.posted = w.posted /\ v.timer = w.timer /\ v.told = w.told /\ v.ok = w.ok
  BY <1>0, <1>1, <1>2, StateChanged
<1>4. ChatSound(w, h, U, C \cup {h}) BY DEF Sound
<1>5. Reading(s) = Reading(w.states[h]) BY <1>2 DEF Reading
<1>6. ChatSound(v, h, U, C)
  <2>1. HoldSound(s) BY <1>2, <1>4 DEF ChatSound, HoldSound, Deleting
  <2>2. EntrySound(s, w.pending[h].there, w.asked[h].there, h \in U)
    BY <1>2, <1>4 DEF ChatSound, EntrySound, Changing
  <2>3. ReadSound(s, w.local[h].till, w.told[h])
    <3>0. ReadSound(w.states[h], w.local[h].till, w.told[h]) BY <1>4 DEF ChatSound
    <3>1. /\ w.local[h].till \in Nat /\ w.told[h] \in Nat /\ w.states[h].will \in Nat
          /\ w.states[h].sentTill \in Nat
          /\ \A q \in Reading(w.states[h]) : q.till \in Nat
      BY <1>0, WorldFields DEF Local, State, Reading, Request
    <3>2. \A q \in Reading(s) :
            q.till # 0 /\ q.till <= w.local[h].till /\ (s.will # 0 => q.till < s.will)
      BY <3>0, <3>1, <1>2, <1>5 DEF ReadSound
    <3>3. s.will # 0 => s.sentTill < s.will BY <3>1, <1>2
    <3>4. w.told[h] <= w.local[h].till BY <3>0, <3>1 DEF ReadSound
    <3> QED BY <3>0, <3>2, <3>3, <3>4, <1>2 DEF ReadSound
  <2>4. WaitSound(s, w.pending[h].there, w.asked[h].there, h \in C)
    BY <1>2 DEF WaitSound
  <2> QED BY <1>3, <2>1, <2>2, <2>3, <2>4 DEF ChatSound
<1>7. PostSound(v) /\ v.ok BY <1>3, PostKept DEF Sound
<1>8. Sound(v, U, C) BY <1>3, <1>6, <1>7, ChatChangedSound
<1>9. KeepsTimes(w, v) BY <1>2, <1>3 DEF KeepsTimes, SameChat
<1> QED BY <1>2, <1>3, <1>5, <1>8, <1>9

\* The entry of the chat h is asked for, so that it will be confirmed.
LEMMA AskedSound ==
    ASSUME NEW w, NEW U, NEW C, NEW h \in History, Sound(w, U, C \cup {h}),
           w.pending[h].there \/ w.asked[h].there
    PROVE  Sound(w, U, C)
<1>1. ASSUME NEW g \in History PROVE ChatSound(w, g, U, C)
  <2>1. ChatSound(w, g, U, C \cup {h}) BY DEF Sound
  <2>2. WaitSound(w.states[g], w.pending[g].there, w.asked[g].there, g \in C)
    BY <2>1 DEF ChatSound, WaitSound
  <2> QED BY <2>1, <2>2 DEF ChatSound
<1> QED BY <1>1 DEF Sound

LEMMA ReadFinishedKeeps ==
    ASSUME IInv, NEW h \in History, NEW r, ReadFinished(h, r)
    PROVE  IInv'
<1> DEFINE last == states[h].sentTill = r.till
           refresh == ~local[h].known \/ local[h].till < r.till
           done == Done(World, h)
           told2 == Told(done, h)
           checked == [World EXCEPT !.ok = @ /\ states[h].sentTill \in {0} \cup r.till + 1 .. MaxTill]
           after == IF last /\ refresh THEN RequestEntry(done, h, <<>>)
                    ELSE IF last THEN told2 ELSE checked
<1>0. r \in Reading(states[h]) BY DEF ReadFinished, Reading
<1>w. /\ World \in Worlds /\ Sound(World, Coming, current) /\ World.states = states
      /\ World.local = local
  BY Now
<1>t. /\ r.till \in Nat /\ local[h].till \in Nat /\ states[h].sentTill \in 0 .. MaxTill
      /\ states[h] \in State
  BY <1>0, <1>w, WorldFields DEF Local, State, Reading, Request
<1>1. Sound(after, Coming, current) /\ Timed(after) /\ r \in Reading(after.states[h])
      /\ NotAwaited(after.states[h], r)
  <2>1. /\ Sound(done, Coming, current \cup {h}) /\ KeepsTimes(World, done)
        /\ done.states[h].done = TRUE /\ done.states[h].sentTill = states[h].sentTill
        /\ Reading(done.states[h]) = Reading(states[h]) /\ done.local = local
    <3>1. done = Done(World, h) OBVIOUS
    <3> HIDE DEF done
    <3>2. /\ Sound(done, Coming, current \cup {h}) /\ KeepsTimes(World, done)
          /\ done.states[h].done = TRUE /\ done.states[h].sentTill = World.states[h].sentTill
          /\ Reading(done.states[h]) = Reading(World.states[h]) /\ done.local = World.local
      <4>1. IsDone(done, World, h, Coming, current) BY <3>1, <1>w, DoneSound
      <4> QED BY <4>1 DEF IsDone
    <3> QED BY <3>2, <1>w
  <2>2. Timed(done) BY <2>1, Now, TimesKept DEF Timed
  <2>3. CASE last /\ refresh
    <3> HIDE DEF done
    <3> DEFINE none == <<>>
               v == RequestEntry(done, h, none)
    <3>1. none \in Seq(Callback) BY EmptySeq
    <3>2. /\ Sound(v, Coming, current \cup {h}) /\ KeepsTimes(done, v)
          /\ v.states = done.states /\ (v.pending[h].there \/ v.asked[h].there)
      <4> HIDE DEF none
      <4> QED BY <2>1, <3>1, RequestEntrySound
    <3>3. after = v BY <2>3
    <3> HIDE DEF v
    <3>4. Sound(v, Coming, current) BY <3>2, AskedSound
    <3>5. Timed(v) BY <2>2, <3>2, TimesKept DEF Timed
    <3>6. NotAwaited(v.states[h], r) BY <2>1, <3>2 DEF NotAwaited
    <3> HIDE DEF after
    <3> QED BY <3>2, <3>3, <3>4, <3>5, <3>6, <2>1, <1>0
  <2>4. CASE last /\ ~refresh
    <3> HIDE DEF done
    <3>1. done.states[h].sentTill <= done.local[h].till BY <2>1, <2>4, <1>t
    <3>2. /\ Sound(told2, Coming, current) /\ KeepsTimes(done, told2)
          /\ told2.states[h].sentTill = 0 /\ Reading(told2.states[h]) = Reading(done.states[h])
      BY <2>1, <3>1, ToldSound
    <3>3. after = told2 BY <2>4
    <3> HIDE DEF told2, after
    <3>4. Timed(told2) BY <2>2, <3>2, TimesKept DEF Timed
    <3>5. NotAwaited(told2.states[h], r) BY <3>2 DEF NotAwaited
    <3> QED BY <3>2, <3>3, <3>4, <3>5, <2>1, <1>0
  <2>5. CASE ~last
    <3> DEFINE ok2 == World.ok /\ states[h].sentTill \in {0} \cup r.till + 1 .. MaxTill
    <3>1. states[h].sentTill \in {0} \cup r.till + 1 .. MaxTill
      <4>1. states[h].sentTill # 0 => r.till <= states[h].sentTill
        BY <1>0, <1>w DEF Sound, ChatSound, ReadSound
      <4> QED BY <4>1, <2>5, <1>t
    <3>2. ok2 = World.ok BY <3>1, <1>w DEF Worlds
    <3>3. checked = [World EXCEPT !.ok = ok2] OBVIOUS
    <3> HIDE DEF ok2
    <3>4. checked = World BY <3>2, <3>3, <1>w DEF Worlds
    <3>5. after = checked BY <2>5
    <3> HIDE DEF checked, after
    <3>6. NotAwaited(states[h], r) BY <2>5 DEF NotAwaited
    <3> QED BY <3>4, <3>5, <3>6, <1>0, <1>w, Now
  <2> QED BY <2>3, <2>4, <2>5
<1>2. PICK w \in {FinishRequest(w, h, r) : w \in {SendReads(after, due) : due \in Due}} : Become(w)
  BY BecameOneOf, Zenon DEF ReadFinished, Done, Told
<1> HIDE DEF after
<1>3. PICK due : w = FinishRequest(SendReads(after, due), h, r) BY <1>2
<1> DEFINE u == SendReads(after, due)
<1>4. Sound(u, Coming, current) /\ Timed(u) BY <1>1, Now, SendReadsTimes
<1>5. NotAwaited(u.states[h], r) BY <1>1, SendReadsNotAwaited
<1>6. w = FinishRequest(u, h, r) BY <1>3
<1> HIDE DEF u
<1>7. Sound(w, Coming, current) /\ KeepsTimes(u, w) BY <1>4, <1>5, <1>6, FinishRequestSound
<1>8. Timed(w) BY <1>4, <1>7, TimesKept DEF Timed
<1>9. NoAnswer /\ UNCHANGED <<flights, ghost, switches>> /\ asks' \in 0 .. MaxAsked
  BY Now DEF ReadFinished, AnswerInv
<1> QED BY <1>2, <1>7, <1>8, <1>9, Now, EventKeeps

LEMMA OtherNotAwaited ==
    ASSUME NEW s, NEW r, r.type # "ReadInbox"
    PROVE  NotAwaited(s, r)
BY DEF NotAwaited

LEMMA TypeOther == \A type \in Types : type \in Types \cup {"Delete"} /\ type # "ReadInbox"
OBVIOUS

\* The end of a request that is not about reading.
LEMMA EndKeeps ==
    ASSUME NEW w, NEW U, NEW C, Sound(w, U, C), Timed(w), NEW h \in History, NEW r,
           r.type # "ReadInbox"
    PROVE  Sound(FinishRequest(w, h, r), U, C) /\ Timed(FinishRequest(w, h, r))
BY OtherNotAwaited, FinishRequestSound, TimesKept DEF Timed

LEMMA FinishedKeeps ==
    ASSUME IInv, NEW h \in History, NEW r, Finished(h, r)
    PROVE  IInv'
<1>1. /\ r.type # "ReadInbox" /\ Become(FinishRequest(World, h, r))
      /\ NoAnswer /\ UNCHANGED <<flights, ghost, switches>> /\ asks' \in 0 .. MaxAsked
  BY Now DEF Finished, AnswerInv
<1> QED BY <1>1, Now, EndKeeps, EventKeeps

LEMMA MakeRequestKeeps ==
    ASSUME IInv, NEW h \in History, NEW type \in Types, MakeRequest(h, type)
    PROVE  IInv'
<1> DEFINE w == SendRequest(World, h, type, 0)
<1>1. /\ Become(w)
      /\ NoAnswer /\ UNCHANGED <<flights, ghost, switches>> /\ asks' \in 0 .. MaxAsked
  BY Now DEF MakeRequest, AnswerInv
<1>2. type \in Types \cup {"Delete"} /\ 0 \in 0 .. MaxTill OBVIOUS
<1>3. Sound(w, Coming, current) /\ KeepsTimes(World, w) BY <1>2, Now, SendRequestSound
<1> HIDE DEF w
<1>4. Timed(w) BY <1>3, Now, TimesKept DEF Timed
<1> QED BY <1>1, <1>3, <1>4, Now, EventKeeps

LEMMA DeletedKeeps ==
    ASSUME IInv, NEW h \in History, NEW r, Deleted(h, r)
    PROVE  IInv'
<1>1. /\ r.type # "ReadInbox"
      /\ NoAnswer /\ UNCHANGED <<flights, ghost, switches>>
      /\ asks' \in 0 .. MaxAsked
  BY Now DEF Deleted, AnswerInv
<1>2. CASE Become(FinishRequest(World, h, r))
  BY <1>1, <1>2, Now, EndKeeps, EventKeeps
<1>3. CASE Become(FinishRequest(SendRequest(World, h, "Delete", 0), h, r))
  <2> DEFINE u == SendRequest(World, h, "Delete", 0)
             w == FinishRequest(u, h, r)
  <2>1. "Delete" \in Types \cup {"Delete"} /\ 0 \in 0 .. MaxTill OBVIOUS
  <2>2. Sound(u, Coming, current) /\ KeepsTimes(World, u) BY <2>1, Now, SendRequestSound
  <2>3. Become(w) BY <1>3
  <2> HIDE DEF u
  <2>4. Timed(u) BY <2>2, Now, TimesKept DEF Timed
  <2>5. Sound(w, Coming, current) /\ Timed(w) BY <1>1, <2>2, <2>4, EndKeeps
  <2> HIDE DEF w
  <2> QED BY <1>1, <2>3, <2>5, Now, EventKeeps
<1>4. CASE Become(RequestEntry(FinishRequest(World, h, r), h, <<>>))
  <2> DEFINE none == <<>>
             u == FinishRequest(World, h, r)
             w == RequestEntry(u, h, none)
  <2>1. none \in Seq(Callback) BY EmptySeq
  <2>2. Sound(u, Coming, current) /\ Timed(u) BY <1>1, Now, EndKeeps
  <2>3. Become(w) BY <1>4
  <2> HIDE DEF u, none
  <2>4. Sound(w, Coming, current) /\ KeepsTimes(u, w) BY <2>1, <2>2, RequestEntrySound
  <2> HIDE DEF w
  <2>5. Timed(w) BY <2>2, <2>4, TimesKept DEF Timed
  <2> QED BY <1>1, <2>3, <2>4, <2>5, Now, EventKeeps
<1> QED BY <1>2, <1>3, <1>4, Zenon DEF Deleted

\* A request that is held back is given up.
LetGo(w, h, r) == [w EXCEPT !.states[h].postponed = @ \ {r}]

LEMMA LetGoSound ==
    ASSUME NEW w, NEW U, NEW C, Sound(w, U, C), NEW h \in History, NEW r, NEW v, v = LetGo(w, h, r)
    PROVE  Sound(v, U, C) /\ KeepsTimes(w, v)
<1> DEFINE s == [w.states[h] EXCEPT !.postponed = @ \ {r}]
<1>0. /\ w \in Worlds /\ w.states[h] \in State /\ w.states \in [History -> State] /\ w.made \in Nat
  BY WorldFields DEF Sound
<1>1. v = WithState(w, h, s, w.made) BY <1>0 DEF WithState, Worlds, State, LetGo
<1>2. /\ s \in State /\ s.done = w.states[h].done /\ s.later = w.states[h].later
      /\ s.will = w.states[h].will /\ s.sentTill = w.states[h].sentTill
      /\ s.sent = w.states[h].sent /\ s.postponed = w.states[h].postponed \ {r}
      /\ s.entry = w.states[h].entry
  BY <1>0 DEF State
<1> HIDE DEF s
<1>3. ChatSound(w, h, U, C) BY DEF Sound
<1>4. HoldSound(s)
  <2>1. IsFiniteSet(w.states[h].postponed \ {r}) BY <1>3, FS_RemoveElement DEF ChatSound, HoldSound
  <2> QED BY <2>1, <1>2, <1>3 DEF ChatSound, HoldSound, Deleting
<1>5. EntrySound(s, w.pending[h].there, w.asked[h].there, h \in U)
  BY <1>2, <1>3 DEF ChatSound, EntrySound, Changing
<1>6. ReadSound(s, w.local[h].till, w.told[h])
  BY <1>2, <1>3 DEF ChatSound, ReadSound, Reading
<1>7. WaitSound(s, w.pending[h].there, w.asked[h].there, h \in C)
  BY <1>2, <1>3 DEF ChatSound, WaitSound, Reading
<1>8. Sound(v, U, C) BY <1>0, <1>1, <1>2, <1>4, <1>5, <1>6, <1>7, StateChangedSound
<1>9. /\ v.states[h] = s /\ v.timer = w.timer
      /\ \A g \in History : g # h => SameChat(w, v, g)
  BY <1>0, <1>1, <1>2, StateChanged
<1>10. KeepsTimes(w, v) BY <1>2, <1>9 DEF KeepsTimes, SameChat
<1> QED BY <1>8, <1>10

LEMMA CancelRequestKeeps ==
    ASSUME IInv, NEW h \in History, NEW r, CancelRequest(h, r)
    PROVE  IInv'
<1> DEFINE u == LetGo(World, h, r)
           w == FinishRequest(u, h, r)
<1>1. /\ r.type # "ReadInbox" /\ Become(w)
      /\ NoAnswer /\ UNCHANGED <<flights, ghost, switches>> /\ asks' \in 0 .. MaxAsked
  BY Now DEF CancelRequest, AnswerInv, LetGo
<1>2. Sound(u, Coming, current) /\ KeepsTimes(World, u) BY Now, LetGoSound
<1> HIDE DEF u
<1>3. Timed(u) BY <1>2, Now, TimesKept DEF Timed
<1>4. Sound(w, Coming, current) /\ Timed(w) BY <1>1, <1>2, <1>3, EndKeeps
<1> HIDE DEF w
<1> QED BY <1>1, <1>4, Now, EventKeeps

LEMMA AskForEntryKeeps ==
    ASSUME IInv, NEW h \in History, NEW calls \in Seq(Callback), AskForEntry(h, calls)
    PROVE  IInv'
<1> DEFINE w == RequestEntry(World, h, calls)
<1>1. /\ Become(w)
      /\ NoAnswer /\ UNCHANGED <<flights, ghost, switches>> /\ asks' \in 0 .. MaxAsked
  BY Now DEF AskForEntry, AnswerInv
<1>2. Sound(w, Coming, current) /\ KeepsTimes(World, w) BY Now, RequestEntrySound
<1> HIDE DEF w
<1>3. Timed(w) BY <1>2, Now, TimesKept DEF Timed
<1> QED BY <1>1, <1>2, <1>3, Now, EventKeeps

-----------------------------------------------------------------------------
(* The requests that are not answered.                                     *)

IsRemovedAt(p, E, q, k) ==
    /\ p \in Seq(E) /\ Len(p) = Len(q) - 1
    /\ \A i \in 1 .. Len(p) : p[i] = q[IF i < k THEN i ELSE i + 1]

LEMMA RemovedAt ==
    ASSUME NEW E, NEW q \in Seq(E), NEW k \in 1 .. Len(q), NEW p, p = RemoveAt(q, k)
    PROVE  IsRemovedAt(p, E, q, k)
<1> DEFINE a == SubSeq(q, 1, k - 1)
           c == SubSeq(q, k + 1, Len(q))
<1>0. Len(q) \in Nat /\ \A i \in 1 .. Len(q) : q[i] \in E BY ElementOfSeq
<1>1. a \in Seq(E) /\ Len(a) = k - 1 /\ \A i \in 1 .. k - 1 : a[i] = q[i]
  <2>1. \A i \in 1 .. k - 1 : q[i] \in E BY <1>0
  <2> QED BY <1>0, <2>1, SubSeqProperties
<1>2. c \in Seq(E) /\ Len(c) = Len(q) - k /\ \A i \in 1 .. Len(q) - k : c[i] = q[k + i]
  <2>1. \A i \in k + 1 .. Len(q) : q[i] \in E BY <1>0
  <2>2. k + 1 \in Int /\ Len(q) \in Int BY <1>0
  <2>3. /\ c \in Seq(E)
        /\ Len(c) = IF k + 1 <= Len(q) THEN Len(q) - (k + 1) + 1 ELSE 0
        /\ \A i \in 1 .. Len(q) - (k + 1) + 1 : c[i] = q[k + 1 + i - 1]
    BY <2>1, <2>2, SubSeqProperties
  <2> HIDE DEF c
  <2>4. Len(c) = Len(q) - k BY <2>3, <1>0
  <2>5. \A i \in 1 .. Len(q) - k : c[i] = q[k + i]
    <3> SUFFICES ASSUME NEW i \in 1 .. Len(q) - k PROVE c[i] = q[k + i] OBVIOUS
    <3>1. i \in 1 .. Len(q) - (k + 1) + 1 /\ k + 1 + i - 1 = k + i BY <1>0
    <3> QED BY <2>3, <3>1
  <2> QED BY <2>3, <2>4, <2>5
<1>3. p = a \o c BY DEF RemoveAt
<1> HIDE DEF a, c
<1>4. p \in Seq(E) /\ Len(p) = Len(a) + Len(c)
      /\ \A i \in 1 .. Len(a) + Len(c) : p[i] = IF i <= Len(a) THEN a[i] ELSE c[i - Len(a)]
  <2>1. a \in Seq(E) /\ c \in Seq(E) BY <1>1, <1>2
  <2> QED BY <2>1, <1>3, ConcatProperties
<1>5. Len(p) = Len(q) - 1 BY <1>0, <1>1, <1>2, <1>4
<1>6. \A i \in 1 .. Len(p) : p[i] = q[IF i < k THEN i ELSE i + 1]
  <2> SUFFICES ASSUME NEW i \in 1 .. Len(p) PROVE p[i] = q[IF i < k THEN i ELSE i + 1] OBVIOUS
  <2>1. p[i] = IF i <= Len(a) THEN a[i] ELSE c[i - Len(a)] BY <1>4
  <2>2. CASE i < k BY <2>1, <2>2, <1>0, <1>1, <1>5
  <2>3. CASE i >= k
    <3>1. p[i] = c[i - (k - 1)] BY <2>1, <2>3, <1>1
    <3>2. i - (k - 1) \in 1 .. Len(q) - k /\ k + (i - (k - 1)) = i + 1 BY <2>3, <1>0, <1>5
    <3>3. c[i - (k - 1)] = q[k + (i - (k - 1))] BY <1>2, <3>2
    <3> QED BY <3>1, <3>2, <3>3, <2>3
  <2> QED BY <2>2, <2>3, <1>0
<1> QED BY <1>4, <1>5, <1>6 DEF IsRemovedAt

LEMMA ComingAppended ==
    ASSUME NEW q \in Seq(SUBSET History), NEW S \in SUBSET History, NEW p, p = Append(q, S)
    PROVE  /\ p \in Seq(SUBSET History)
           /\ \A k \in DOMAIN q : q[k] \subseteq UNION {p[i] : i \in DOMAIN p}
           /\ S \subseteq UNION {p[i] : i \in DOMAIN p}
<1>1. /\ p \in Seq(SUBSET History) /\ Len(p) = Len(q) + 1
      /\ \A k \in 1 .. Len(q) : p[k] = q[k]
      /\ p[Len(q) + 1] = S
  BY AppendProperties
<1>2. DOMAIN p = 1 .. Len(q) + 1 /\ DOMAIN q = 1 .. Len(q) /\ Len(q) \in Nat
  BY <1>1, LenProperties
<1>3. ASSUME NEW k \in DOMAIN q PROVE q[k] \subseteq UNION {p[i] : i \in DOMAIN p}
  <2>1. k \in DOMAIN p /\ p[k] = q[k] BY <1>1, <1>2, <1>3
  <2> QED BY <2>1
<1>4. S \subseteq UNION {p[i] : i \in DOMAIN p}
  <2>1. Len(q) + 1 \in DOMAIN p BY <1>2
  <2> QED BY <2>1, <1>1
<1> QED BY <1>1, <1>3, <1>4

LEMMA ComingRemoved ==
    ASSUME NEW q \in Seq(SUBSET History), NEW k \in DOMAIN q, NEW p, p = RemoveAt(q, k)
    PROVE  /\ p \in Seq(SUBSET History) /\ q[k] \subseteq History
           /\ \A j \in DOMAIN q : j # k => q[j] \subseteq UNION {p[i] : i \in DOMAIN p}
<1>1. k \in 1 .. Len(q) /\ Len(q) \in Nat /\ DOMAIN q = 1 .. Len(q) BY LenProperties
<1>2. IsRemovedAt(p, SUBSET History, q, k) BY <1>1, RemovedAt
<1>3. /\ p \in Seq(SUBSET History) /\ Len(p) = Len(q) - 1
      /\ \A i \in 1 .. Len(p) : p[i] = q[IF i < k THEN i ELSE i + 1]
  BY <1>2 DEF IsRemovedAt
<1>4. DOMAIN p = 1 .. Len(q) - 1 BY <1>3, LenProperties
<1>5. ASSUME NEW j \in DOMAIN q, j # k PROVE q[j] \subseteq UNION {p[i] : i \in DOMAIN p}
  <2> DEFINE i == IF j < k THEN j ELSE j - 1
  <2>1. i \in 1 .. Len(p) /\ (IF i < k THEN i ELSE i + 1) = j BY <1>1, <1>3, <1>5
  <2>2. i \in DOMAIN p BY <2>1, <1>3, <1>4
  <2> HIDE DEF i
  <2>3. p[i] = q[j] BY <2>1, <1>3
  <2> QED BY <2>2, <2>3
<1>6. q[k] \in SUBSET History BY <1>1, ElementOfSeq
<1> QED BY <1>3, <1>5, <1>6

\* More entries come.
LEMMA ComingMore ==
    ASSUME NEW w, NEW U, NEW C, NEW U2, Sound(w, U, C), U \subseteq U2
    PROVE  Sound(w, U2, C)
<1>1. ASSUME NEW g \in History PROVE ChatSound(w, g, U2, C)
  <2>1. ChatSound(w, g, U, C) BY DEF Sound
  <2>2. EntrySound(w.states[g], w.pending[g].there, w.asked[g].there, g \in U2)
    BY <2>1 DEF ChatSound, EntrySound
  <2> QED BY <2>1, <2>2 DEF ChatSound
<1> QED BY <1>1 DEF Sound

LEMMA SameWorld ==
    ASSUME UNCHANGED worldVars
    PROVE  World' = World
BY DEF worldVars, World

LEMMA EntriesAnsweredKeeps ==
    ASSUME IInv, NEW k, NEW brought, brought = {} \/ brought = flights[k], EntriesAnswered(k, brought)
    PROVE  IInv'
<1>1. /\ k \in DOMAIN flights /\ Idle /\ flights' = RemoveAt(flights, k)
      /\ dialogs' = brought /\ ending' = flights[k]
      /\ UNCHANGED worldVars /\ UNCHANGED <<ghost, current, calling, asks, switches>>
  BY DEF EntriesAnswered
<1>2. AnswerInv BY Now
<1>3. flights \in Seq(SUBSET History) BY <1>2 DEF AnswerInv
<1>4. /\ flights' \in Seq(SUBSET History) /\ flights[k] \subseteq History
      /\ \A j \in DOMAIN flights : j # k => flights[j] \subseteq UNION {flights'[i] : i \in DOMAIN flights'}
  BY <1>1, <1>3, ComingRemoved
<1>5. Coming \subseteq Coming' BY <1>1, <1>4 DEF Coming, Idle
<1>6. AnswerInv' BY <1>1, <1>2, <1>4 DEF AnswerInv, GhostTold
<1>7. World' = World BY <1>1, SameWorld
<1>8. Sound(World, Coming', current') BY <1>1, <1>5, Now, ComingMore
<1>9. switches' = 0 => TimerSound(World) BY <1>1, Now DEF Timed
<1> QED BY <1>6, <1>7, <1>8, <1>9 DEF IInv, Timed

LEMMA SetGhostModeKeeps ==
    ASSUME IInv, SetGhostMode
    PROVE  IInv'
<1>1. /\ switches < MaxGhost /\ switches' = switches + 1 /\ ghost' = ~ghost
      /\ UNCHANGED answerVars /\ UNCHANGED worldVars /\ UNCHANGED <<flights, asks>>
  BY DEF SetGhostMode, NoAnswer
<1>2. switches' \in 0 .. MaxGhost /\ switches' # 0 /\ AnswerInv BY <1>1, Now DEF AnswerInv
<1>3. AnswerInv' BY <1>1, <1>2 DEF AnswerInv, answerVars, GhostTold
<1>4. Coming' = Coming /\ current' = current BY <1>1 DEF Coming, answerVars
<1>5. World' = World BY <1>1, SameWorld
<1> QED BY <1>2, <1>3, <1>4, <1>5, Now DEF IInv, Timed

\* The entry of the chat h has come: its callbacks are called next.
Taken(w, h) == [w EXCEPT !.pending[h] = Absent, !.asked[h] = Absent]

LEMMA AbsentType == Absent \in Entry /\ Absent.there = FALSE
BY EmptySeq DEF Absent, Entry

LEMMA TakenSound ==
    ASSUME NEW w, NEW U, NEW U2, Sound(w, U, {}), NEW h \in History, ~w.states[h].entry,
           \A g \in U : g # h => g \in U2,
           NEW v, v = Taken(w, h)
    PROVE  Sound(v, U2, {h}) /\ KeepsTimes(w, v)
<1> DEFINE pending2 == [w.pending EXCEPT ![h] = Absent]
           asked2 == [w.asked EXCEPT ![h] = Absent]
<1>0. /\ w \in Worlds /\ w.pending \in [History -> Entry] /\ w.asked \in [History -> Entry]
  BY WorldFields DEF Sound
<1>1. v = [w EXCEPT !.pending = pending2, !.asked = asked2] BY <1>0 DEF Taken, Worlds
<1>2. /\ pending2 \in [History -> Entry] /\ pending2[h] = Absent
      /\ \A g \in History : g # h => pending2[g] = w.pending[g]
  BY <1>0, AbsentType
<1>3. /\ asked2 \in [History -> Entry] /\ asked2[h] = Absent
      /\ \A g \in History : g # h => asked2[g] = w.asked[g]
  BY <1>0, AbsentType
<1> HIDE DEF pending2, asked2
<1>4. /\ v \in Worlds /\ v.states = w.states /\ v.local = w.local /\ v.pending = pending2
      /\ v.asked = asked2 /\ v.posted = w.posted /\ v.timer = w.timer /\ v.told = w.told
      /\ v.ok = w.ok
  BY <1>0, <1>1, <1>2, <1>3 DEF Worlds
<1>5. \A g \in History : g # h => SameChat(w, v, g) BY <1>2, <1>3, <1>4 DEF SameChat
<1>6. ChatSound(v, h, U2, {h})
  <2>1. ChatSound(w, h, U, {}) BY DEF Sound
  <2>2. v.pending[h].there = FALSE /\ v.asked[h].there = FALSE BY <1>2, <1>3, <1>4, AbsentType
  <2>3. EntrySound(v.states[h], v.pending[h].there, v.asked[h].there, h \in U2)
    BY <2>2, <1>4 DEF EntrySound
  <2>4. WaitSound(v.states[h], v.pending[h].there, v.asked[h].there, h \in {h})
    BY <2>1, <1>4 DEF ChatSound, WaitSound
  <2> QED BY <2>1, <2>3, <2>4, <1>4 DEF ChatSound
<1>7. PostSound(v)
  <2>1. There(v.pending) \subseteq There(w.pending)
    BY <1>2, <1>4, AbsentType DEF There
  <2>2. PostSound(w) BY DEF Sound
  <2> QED BY <2>1, <2>2, <1>4 DEF PostSound
<1>8. v.ok BY <1>4 DEF Sound
<1>9. Sound(v, U2, {h})
  <2>1. \A g \in History : g # h /\ g \in U => g \in U2 OBVIOUS
  <2>2. \A g \in History : g # h /\ g \in {} => g \in {h} OBVIOUS
  <2> QED BY <2>1, <2>2, <1>4, <1>5, <1>6, <1>7, <1>8, ChatChangedSound
<1>10. KeepsTimes(w, v) BY <1>4 DEF KeepsTimes
<1> QED BY <1>9, <1>10

\* The entry of the chat h comes, but is held back again.
LEMMA HeldSound ==
    ASSUME NEW w, NEW U, NEW U2, NEW C, Sound(w, U, C), NEW h \in History, w.states[h].entry,
           \A g \in U : g # h => g \in U2
    PROVE  Sound(w, U2, C)
<1>1. ASSUME NEW g \in History PROVE ChatSound(w, g, U2, C)
  <2>1. ChatSound(w, g, U, C) BY DEF Sound
  <2>2. EntrySound(w.states[g], w.pending[g].there, w.asked[g].there, g \in U2)
    BY <2>1 DEF ChatSound, EntrySound
  <2> QED BY <2>1, <2>2 DEF ChatSound
<1> QED BY <1>1 DEF Sound

LEMMA EntryAppliedKeeps ==
    ASSUME IInv, NEW w, Sound(w, Coming, {}), Timed(w), NEW h \in History, EntryApplied(w, h),
           current = {}, dialogs' \subseteq ending', ending' \subseteq History,
           \A g \in Coming : g # h => g \in Coming',
           UNCHANGED <<flights, ghost, asks, switches>>
    PROVE  IInv'
<1>1. AnswerInv BY Now
<1>2. CASE w.states[h].entry
  <2>1. Become(w) /\ UNCHANGED <<current, calling>> BY <1>2 DEF EntryApplied
  <2>2. Sound(w, Coming', {}) BY <1>2, HeldSound
  <2>3. Sound(w, Coming', current') BY <2>1, <2>2
  <2>4. AnswerInv' BY <1>1, <2>1 DEF AnswerInv, GhostTold
  <2>5. switches' = 0 => TimerSound(w) BY DEF Timed
  <2> QED BY <2>1, <2>3, <2>4, <2>5, StepKeeps
<1>3. CASE ~w.states[h].entry
  <2> DEFINE v == Taken(w, h)
  <2>1. Become(v) /\ current' = {h} /\ calling' = w.pending[h].calls \o w.asked[h].calls
    BY <1>3 DEF EntryApplied, Taken
  <2>2. Sound(v, Coming', {h}) /\ KeepsTimes(w, v) BY <1>3, TakenSound
  <2>3. calling' \in Seq(Callback)
    <3>1. w.pending[h].calls \in Seq(Callback) /\ w.asked[h].calls \in Seq(Callback)
      BY WorldFields DEF Sound, Entry
    <3> QED BY <3>1, <2>1, ConcatProperties
  <2>4. AnswerInv' BY <1>1, <2>1, <2>3 DEF AnswerInv, GhostTold
  <2> HIDE DEF v
  <2>5. Sound(v, Coming', current') BY <2>1, <2>2
  <2>6. switches' = 0 => TimerSound(v) BY <2>2, TimesKept DEF Timed
  <2> QED BY <2>1, <2>4, <2>5, <2>6, StepKeeps
<1> QED BY <1>2, <1>3

LEMMA FinalizeKeeps ==
    ASSUME IInv, NEW h \in History, Finalize(h)
    PROVE  IInv'
<1>1. /\ h \in ending /\ dialogs = {} /\ current = {} /\ ending' = ending \ {h}
      /\ EntryApplied(World, h) /\ UNCHANGED <<flights, ghost, dialogs, asks, switches>>
  BY DEF Finalize
<1>2. \A g \in Coming : g # h => g \in Coming' BY <1>1 DEF Coming
<1>3. Sound(World, Coming, {}) /\ Timed(World) /\ AnswerInv BY <1>1, Now
<1>4. dialogs' \subseteq ending' /\ ending' \subseteq History BY <1>1, <1>3 DEF AnswerInv
<1> QED BY <1>1, <1>2, <1>3, <1>4, EntryAppliedKeeps

LEMMA FieldsAppliedSound ==
    ASSUME NEW w, NEW U, NEW C, Sound(w, U, C), NEW h \in History, NEW till \in 0 .. MaxTill,
           NEW v, v = FieldsApplied(w, h, till)
    PROVE  Sound(v, U, C) /\ KeepsTimes(w, v)
<1>1. CASE till < w.local[h].till
  <2>1. v = w BY <1>1 DEF FieldsApplied
  <2> QED BY <2>1 DEF KeepsTimes
<1>2. CASE ~(till < w.local[h].till)
  <2> DEFINE l == [till |-> till, known |-> TRUE]
  <2>1. v = WithLocal(w, h, l) BY <1>2 DEF FieldsApplied, WithLocal
  <2>2. l \in Local /\ l.till = till BY DEF Local
  <2>3. w.local[h].till \in 0 .. MaxTill BY WorldFields DEF Sound, Local
  <2>4. w.local[h].till <= l.till BY <1>2, <2>2, <2>3
  <2> HIDE DEF l
  <2> QED BY <2>1, <2>2, <2>4, LocalChanged
<1> QED BY <1>1, <1>2

LEMMA ApplyDialogKeeps ==
    ASSUME IInv, NEW h \in History, NEW till \in 0 .. MaxTill, ApplyDialog(h, till)
    PROVE  IInv'
<1> DEFINE w == FieldsApplied(World, h, till)
<1>1. /\ h \in dialogs /\ current = {} /\ dialogs' = dialogs \ {h}
      /\ EntryApplied(w, h) /\ UNCHANGED <<flights, ghost, ending, asks, switches>>
  BY DEF ApplyDialog
<1>2. \A g \in Coming : g # h => g \in Coming' BY <1>1 DEF Coming
<1>3. Sound(World, Coming, {}) /\ Timed(World) /\ AnswerInv BY <1>1, Now
<1>4. dialogs' \subseteq ending' /\ ending' \subseteq History BY <1>1, <1>3 DEF AnswerInv
<1>5. Sound(w, Coming, {}) /\ KeepsTimes(World, w) BY <1>3, FieldsAppliedSound
<1> HIDE DEF w
<1>6. Timed(w) BY <1>3, <1>5, TimesKept DEF Timed
<1> QED BY <1>1, <1>2, <1>4, <1>5, <1>6, EntryAppliedKeeps

LEMMA CallBackKeeps ==
    ASSUME IInv, NEW h \in History, CallBack(h)
    PROVE  IInv'
<1>1. /\ calling # <<>> /\ calling' = Tail(calling)
      /\ UNCHANGED <<flights, ghost, dialogs, ending, current, asks, switches>>
      /\ \/ BecomeOne({ReadTill(World, h, MaxTill, FALSE, c.still, c.atEnd, c.due) : c \in Chance(h)})
         \/ Become(SendRequest(World, h, "Delete", 0))
  BY DEF CallBack
<1>2. AnswerInv BY Now
<1>3. AnswerInv'
  <2>1. calling' \in Seq(Callback) BY <1>1, <1>2, HeadTailProperties DEF AnswerInv
  <2> QED BY <2>1, <1>1, <1>2 DEF AnswerInv, GhostTold
<1>4. Coming' = Coming /\ current' = current BY <1>1 DEF Coming
<1>5. ASSUME NEW w, Become(w), Sound(w, Coming, current), Timed(w) PROVE IInv'
  <2>1. Sound(w, Coming', current') BY <1>4, <1>5
  <2>2. switches' = 0 => TimerSound(w) BY <1>1, <1>5 DEF Timed
  <2> QED BY <1>3, <1>5, <2>1, <2>2, StepKeeps
<1>6. CASE BecomeOne({ReadTill(World, h, MaxTill, FALSE, c.still, c.atEnd, c.due) : c \in Chance(h)})
  <2>1. PICK w \in {ReadTill(World, h, MaxTill, FALSE, c.still, c.atEnd, c.due) : c \in Chance(h)} : Become(w)
    BY <1>6, BecameOneOf
  <2>2. PICK c \in Chance(h) : w = ReadTill(World, h, MaxTill, FALSE, c.still, c.atEnd, c.due) BY <2>1
  <2> DEFINE till == MaxTill
             force == FALSE
             still == c.still
             atEnd == c.atEnd
             due == c.due
  <2>3. till \in 1 .. MaxTill /\ force \in BOOLEAN OBVIOUS
  <2>5. atEnd \in BOOLEAN BY ChanceType
  <2>6. w = ReadTill(World, h, till, force, still, atEnd, due) BY <2>2
  <2>7. Sound(World, Coming, current) /\ Timed(World) /\ GhostTold BY Now
  <2> HIDE DEF till, force, still, atEnd, due
  <2>4. Sound(w, Coming, current) /\ Timed(w) BY <2>3, <2>5, <2>6, <2>7, ReadTillSound
  <2> QED BY <1>5, <2>1, <2>4
<1>7. CASE Become(SendRequest(World, h, "Delete", 0))
  <2> DEFINE w == SendRequest(World, h, "Delete", 0)
  <2>1. "Delete" \in Types \cup {"Delete"} /\ 0 \in 0 .. MaxTill OBVIOUS
  <2>2. Sound(w, Coming, current) /\ KeepsTimes(World, w) BY <2>1, Now, SendRequestSound
  <2>3. Become(w) BY <1>7
  <2> HIDE DEF w
  <2>4. Timed(w) BY <2>2, Now, TimesKept DEF Timed
  <2> QED BY <1>5, <2>2, <2>3, <2>4
<1> QED BY <1>1, <1>6, <1>7

-----------------------------------------------------------------------------
(* What has been read, and entries that are asked for.                     *)

\* The callbacks of the chat h have been called.
LEMMA NotConfirmedSound ==
    ASSUME NEW w, NEW U, NEW h \in History, Sound(w, U, {h}),
           w.states[h].sentTill = 0 \/ ~w.states[h].done
    PROVE  Sound(w, U, {})
<1>1. ASSUME NEW g \in History PROVE ChatSound(w, g, U, {})
  <2>1. ChatSound(w, g, U, {h}) BY DEF Sound
  <2>2. WaitSound(w.states[g], w.pending[g].there, w.asked[g].there, g \in {})
    BY <2>1 DEF ChatSound, WaitSound
  <2> QED BY <2>1, <2>2 DEF ChatSound
<1> QED BY <1>1 DEF Sound

\* The chat h is read here as far as it has been told, and its state is
\* not kept when nothing is left in it.
Confirmed(w, h) ==
    [ReadLocally(w, h, w.states[h].sentTill) EXCEPT
        !.states[h] = Kept([w.states[h] EXCEPT !.sentTill = 0])]

LEMMA ConfirmedSound ==
    ASSUME NEW w, NEW U, NEW h \in History, Sound(w, U, {h}), NEW v, v = Confirmed(w, h)
    PROVE  Sound(v, U, {}) /\ KeepsTimes(w, v)
<1> DEFINE till == w.states[h].sentTill
           read == ReadLocally(w, h, till)
           told2 == Told(read, h)
           s == Kept(told2.states[h])
<1>1. till \in 0 .. MaxTill BY WorldFields DEF Sound, State
<1>2. /\ Sound(read, U, {h}) /\ KeepsTimes(w, read) /\ read.states = w.states
      /\ till <= read.local[h].till
  <2> HIDE DEF till
  <2> QED BY <1>1, ReadLocallySound
<1>3. /\ Sound(told2, U, {}) /\ KeepsTimes(read, told2)
  <2>1. read.states[h].sentTill <= read.local[h].till BY <1>2
  <2>2. Sound(read, U, {} \cup {h}) BY <1>2
  <2> HIDE DEF read, till
  <2> DEFINE C == {}
  <2>3. Sound(read, U, C \cup {h}) BY <2>2
  <2> HIDE DEF C
  <2>4. Sound(told2, U, C) /\ KeepsTimes(read, told2) BY <2>1, <2>3, ToldSound
  <2> QED BY <2>4 DEF C
<1>4. v = WithState(told2, h, s, told2.made)
  <2>1. read \in Worlds /\ read.states \in [History -> State] /\ read.states = w.states
    BY <1>2, WorldFields DEF Sound
  <2>2. v = [read EXCEPT !.states[h] = Kept([w.states[h] EXCEPT !.sentTill = 0])]
    BY DEF Confirmed
  <2> HIDE DEF read, till
  <2>3. told2.states[h] = [w.states[h] EXCEPT !.sentTill = 0] BY <2>1 DEF Told, Worlds
  <2>4. s = Kept([w.states[h] EXCEPT !.sentTill = 0]) BY <2>3
  <2> HIDE DEF s
  <2>5. v = [read EXCEPT !.states[h] = s] BY <2>2, <2>4
  <2>6. WithState(told2, h, s, told2.made) = [read EXCEPT !.states[h] = s]
    BY <2>1 DEF WithState, Told, Worlds
  <2> QED BY <2>5, <2>6
<1> HIDE DEF till, read, told2
<1>5. StateSound(told2.states[h], told2.pending[h].there, told2.asked[h].there, h, U, {},
                 told2.local[h].till, told2.told[h])
  BY <1>3, SoundState
<1>6. /\ StateSound(s, told2.pending[h].there, told2.asked[h].there, h, U, {},
                    told2.local[h].till, told2.told[h])
      /\ s.will = told2.states[h].will
      /\ s.will # 0 => s.later = told2.states[h].later
  BY <1>5, KeptSound
<1>7. told2 \in Worlds /\ told2.made \in Nat BY <1>3, WorldFields DEF Sound
<1> HIDE DEF s
<1>8. Sound(v, U, {}) BY <1>3, <1>4, <1>6, <1>7, StateChangedSound DEF StateSound
<1>9. KeepsTimes(told2, v)
  <2>1. /\ v.states[h] = s /\ \A g \in History : g # h => SameChat(told2, v, g)
        /\ v.timer = told2.timer
    BY <1>4, <1>6, <1>7, StateChanged DEF StateSound
  <2> QED BY <2>1, <1>6 DEF KeepsTimes, SameChat
<1>10. KeepsTimes(w, v) BY <1>2, <1>3, <1>9 DEF KeepsTimes
<1> QED BY <1>8, <1>10

LEMMA ReadConfirmedKeeps ==
    ASSUME IInv, NEW h \in History, ReadConfirmed(h)
    PROVE  IInv'
<1> DEFINE w == IF states[h].sentTill = 0 \/ ~states[h].done THEN World ELSE Confirmed(World, h)
<1>1. /\ h \in current /\ current' = {}
      /\ UNCHANGED <<flights, ghost, dialogs, ending, calling, asks, switches>>
  BY DEF ReadConfirmed
<1>2. Become(w) BY Now, Zenon DEF ReadConfirmed, Confirmed
<1>3. /\ Sound(World, Coming, current) /\ Timed(World) /\ AnswerInv /\ World.states = states
  BY Now
<1>4. current = {h} BY <1>1, <1>3 DEF AnswerInv
<1>5. Sound(w, Coming, {}) /\ Timed(w)
  <2>1. CASE states[h].sentTill = 0 \/ ~states[h].done
    <3>1. w = World BY <2>1
    <3> HIDE DEF w
    <3> QED BY <2>1, <3>1, <1>3, <1>4, NotConfirmedSound
  <2>2. CASE ~(states[h].sentTill = 0 \/ ~states[h].done)
    <3>1. w = Confirmed(World, h) BY <2>2
    <3> HIDE DEF w
    <3>2. Sound(w, Coming, {}) /\ KeepsTimes(World, w) BY <3>1, <1>3, <1>4, ConfirmedSound
    <3> QED BY <3>2, <1>3, TimesKept DEF Timed
  <2> QED BY <2>1, <2>2
<1> HIDE DEF w
<1>6. Coming' = Coming /\ AnswerInv' BY <1>1, <1>3 DEF Coming, AnswerInv, GhostTold
<1>7. Sound(w, Coming', current') /\ (switches' = 0 => TimerSound(w))
  BY <1>1, <1>5, <1>6 DEF Timed
<1> QED BY <1>2, <1>6, <1>7, StepKeeps

\* The chat h has been read till that message, which is read here too.
ReadByOther(w, h, till) == [w EXCEPT !.told[h] = Higher(@, till)]

LEMMA ReadByOtherSound ==
    ASSUME NEW w, NEW U, NEW C, Sound(w, U, C), NEW h \in History, NEW till \in 0 .. MaxTill,
           till <= w.local[h].till, NEW v, v = ReadByOther(w, h, till)
    PROVE  Sound(v, U, C) /\ KeepsTimes(w, v) /\ v.local = w.local
<1> DEFINE known == Higher(w.told[h], till)
           told2 == [w.told EXCEPT ![h] = known]
<1>0. /\ w \in Worlds /\ w.told \in [History -> 0 .. MaxTill] /\ w.told[h] \in 0 .. MaxTill
      /\ w.local[h].till \in 0 .. MaxTill /\ w.states[h].sentTill \in 0 .. MaxTill
  BY WorldFields DEF Sound, Local, State
<1>1. known \in 0 .. MaxTill BY <1>0, HigherType
<1>2. v = [w EXCEPT !.told = told2] BY <1>0 DEF ReadByOther, Worlds
<1>3. /\ told2 \in [History -> 0 .. MaxTill] /\ told2[h] = known
      /\ \A g \in History : g # h => told2[g] = w.told[g]
  <2> HIDE DEF known
  <2> QED BY <1>0, <1>1
<1>4. known = w.told[h] \/ known = till BY DEF Higher
<1> HIDE DEF told2, known
<1>5. /\ v \in Worlds /\ v.states = w.states /\ v.local = w.local /\ v.pending = w.pending
      /\ v.asked = w.asked /\ v.posted = w.posted /\ v.timer = w.timer /\ v.told = told2
      /\ v.ok = w.ok
  BY <1>0, <1>2, <1>3 DEF Worlds
<1>6. \A g \in History : g # h => SameChat(w, v, g) BY <1>3, <1>5 DEF SameChat
<1>7. ChatSound(v, h, U, C)
  <2>1. ChatSound(w, h, U, C) BY DEF Sound
  <2>2. ReadSound(v.states[h], v.local[h].till, known)
    BY <2>1, <1>0, <1>4, <1>5 DEF ChatSound, ReadSound
  <2> QED BY <2>1, <2>2, <1>3, <1>5 DEF ChatSound
<1>8. PostSound(v) /\ v.ok BY <1>5, PostKept DEF Sound
<1>9. Sound(v, U, C) BY <1>5, <1>6, <1>7, <1>8, ChatChangedSound
<1> QED BY <1>5, <1>9 DEF KeepsTimes

LEMMA ReadElsewhereKeeps ==
    ASSUME IInv, NEW h \in History, NEW till \in 0 .. MaxTill, ReadElsewhere(h, till)
    PROVE  IInv'
<1> DEFINE here == ReadLocally(World, h, till)
           read == ReadByOther(here, h, till)
           known == [read EXCEPT !.local[h].known = TRUE]
           none == <<>>
           asking == RequestEntry(read, h, none)
<1>1. /\ NoAnswer /\ UNCHANGED <<flights, ghost, switches>> /\ asks' \in 0 .. MaxAsked
      /\ Become(known) \/ Become(asking)
  BY Now DEF ReadElsewhere, AnswerInv, ReadByOther
<1>2. Sound(here, Coming, current) /\ KeepsTimes(World, here) /\ till <= here.local[h].till
  BY Now, ReadLocallySound
<1>3. Sound(read, Coming, current) /\ KeepsTimes(here, read)
  <2> HIDE DEF here
  <2> QED BY <1>2, ReadByOtherSound
<1>4. Timed(read)
  <2> HIDE DEF here, read
  <2> QED BY <1>2, <1>3, Now, TimesKept DEF Timed
<1> HIDE DEF here, read
<1>5. CASE Become(known)
  <2> DEFINE l == [read.local[h] EXCEPT !.known = TRUE]
  <2>1. /\ read \in Worlds /\ read.local \in [History -> Local] /\ read.local[h] \in Local
    BY <1>3, WorldFields DEF Sound
  <2>2. known = WithLocal(read, h, l) BY <2>1 DEF WithLocal, Worlds
  <2>3. l \in Local /\ read.local[h].till <= l.till
    <3>1. l \in Local BY <2>1 DEF Local
    <3>2. l.till = read.local[h].till BY <2>1 DEF Local
    <3>3. read.local[h].till \in Nat BY <2>1 DEF Local
    <3> HIDE DEF l
    <3> QED BY <3>1, <3>2, <3>3
  <2> HIDE DEF l, known
  <2>4. Sound(known, Coming, current) /\ KeepsTimes(read, known)
    BY <1>3, <2>2, <2>3, LocalChanged
  <2>5. Timed(known) BY <1>4, <2>4, TimesKept DEF Timed
  <2> QED BY <1>1, <1>5, <2>4, <2>5, Now, EventKeeps
<1>6. CASE Become(asking)
  <2>1. none \in Seq(Callback) BY EmptySeq
  <2> HIDE DEF none
  <2>2. Sound(asking, Coming, current) /\ KeepsTimes(read, asking)
    BY <1>3, <2>1, RequestEntrySound
  <2> HIDE DEF asking
  <2>3. Timed(asking) BY <1>4, <2>2, TimesKept DEF Timed
  <2> QED BY <1>1, <1>6, <2>2, <2>3, Now, EventKeeps
<1> QED BY <1>1, <1>5, <1>6

\* The entries that are pending are asked for, but those of the chats held.
AllSent(w, state, pends, waits, hs, held) ==
    [w EXCEPT !.posted = FALSE,
              !.pending = [h \in History |-> Absent],
              !.asked = [h \in History |-> IF h \in hs THEN pends[h] ELSE waits[h]],
              !.states = [h \in History |-> [state[h] EXCEPT !.entry = @ \/ h \in held]]]

LEMMA AllSentSound ==
    ASSUME NEW w, NEW U, NEW C, Sound(w, U, C), NEW U2, U \subseteq U2,
           NEW hs, hs = There(w.pending),
           NEW held, held = {h \in hs : Changing(w.states[h])}, hs \ held \subseteq U2,
           NEW v, v = AllSent(w, w.states, w.pending, w.asked, hs, held)
    PROVE  Sound(v, U2, C) /\ KeepsTimes(w, v)
<1> DEFINE pending2 == [h \in History |-> Absent]
           asked2 == [h \in History |-> IF h \in hs THEN w.pending[h] ELSE w.asked[h]]
           states2 == [h \in History |-> [w.states[h] EXCEPT !.entry = @ \/ h \in held]]
<1>1. /\ w \in Worlds /\ w.states \in [History -> State]
      /\ w.pending \in [History -> Entry] /\ w.asked \in [History -> Entry]
  BY DEF Sound, Worlds
<1>2. v = [w EXCEPT !.posted = FALSE, !.pending = pending2, !.asked = asked2, !.states = states2]
  BY DEF AllSent
<1>3. pending2 \in [History -> Entry] /\ \A h \in History : pending2[h].there = FALSE
  BY AbsentType
<1>4. /\ asked2 \in [History -> Entry]
      /\ \A h \in History : asked2[h] = IF h \in hs THEN w.pending[h] ELSE w.asked[h]
  BY <1>1
<1>5. ASSUME NEW h \in History
      PROVE  LET s == [w.states[h] EXCEPT !.entry = @ \/ h \in held] IN
             /\ s \in State /\ s.entry = (w.states[h].entry \/ h \in held)
             /\ s.sent = w.states[h].sent /\ s.postponed = w.states[h].postponed
             /\ s.will = w.states[h].will /\ s.later = w.states[h].later
             /\ s.sentTill = w.states[h].sentTill /\ s.done = w.states[h].done
  <2> DEFINE state == w.states[h]
             entry2 == state.entry \/ h \in held
  <2>1. state \in State /\ entry2 \in BOOLEAN BY <1>1
  <2> HIDE DEF state, entry2
  <2>2. [state EXCEPT !.entry = entry2] \in State BY <2>1 DEF State
  <2>3. LET s == [state EXCEPT !.entry = entry2] IN
        /\ s.entry = entry2
        /\ s.sent = state.sent /\ s.postponed = state.postponed
        /\ s.will = state.will /\ s.later = state.later
        /\ s.sentTill = state.sentTill /\ s.done = state.done
    BY <2>1 DEF State
  <2> QED BY <2>2, <2>3 DEF state, entry2
<1>6. /\ states2 \in [History -> State]
      /\ \A h \in History :
            /\ states2[h].entry = (w.states[h].entry \/ h \in held)
            /\ states2[h].sent = w.states[h].sent /\ states2[h].postponed = w.states[h].postponed
            /\ states2[h].will = w.states[h].will /\ states2[h].later = w.states[h].later
            /\ states2[h].sentTill = w.states[h].sentTill /\ states2[h].done = w.states[h].done
  BY <1>5
<1> HIDE DEF pending2, asked2, states2
<1>7. /\ v \in Worlds /\ v.states = states2 /\ v.local = w.local /\ v.pending = pending2
      /\ v.asked = asked2 /\ v.timer = w.timer /\ v.told = w.told /\ v.ok = w.ok
  BY <1>1, <1>2, <1>3, <1>4, <1>6 DEF Worlds
<1>8. ASSUME NEW h \in History PROVE ChatSound(v, h, U2, C)
  <2> DEFINE s == w.states[h]
             t == states2[h]
  <2>1. ChatSound(w, h, U, C) BY DEF Sound
  <2>2. /\ t.entry = (s.entry \/ h \in held) /\ t.sent = s.sent /\ t.postponed = s.postponed
        /\ t.will = s.will /\ t.later = s.later /\ t.sentTill = s.sentTill /\ t.done = s.done
    BY <1>6
  <2>3. v.states[h] = t /\ v.local[h] = w.local[h] /\ v.told[h] = w.told[h]
        /\ v.pending[h].there = FALSE
        /\ v.asked[h].there = (w.pending[h].there \/ w.asked[h].there)
    <3>1. h \in hs <=> w.pending[h].there = TRUE
      BY <1>1 DEF There, Entry
    <3>2. w.pending[h].there \in BOOLEAN /\ w.asked[h].there \in BOOLEAN BY <1>1 DEF Entry
    <3>3. ~(w.pending[h].there /\ w.asked[h].there) BY <2>1 DEF ChatSound, EntrySound
    <3> QED BY <3>1, <3>2, <3>3, <1>3, <1>4, <1>7
  <2> HIDE DEF s, t
  <2>4. HoldSound(t) BY <2>1, <2>2 DEF s, ChatSound, HoldSound, Deleting
  <2>5. Changing(t) <=> Changing(s) BY <2>2 DEF Changing
  <2>6. EntrySound(t, v.pending[h].there, v.asked[h].there, h \in U2)
    <3>1. EntrySound(s, w.pending[h].there, w.asked[h].there, h \in U)
      BY <2>1 DEF s, ChatSound
    <3>2. h \in held <=> w.pending[h].there /\ Changing(s) BY DEF s, There
    <3>3. w.pending[h].there /\ ~(h \in held) => h \in U2 BY DEF There
    <3>4. v.asked[h].there => t.entry \/ h \in U2 BY <3>1, <3>3, <2>2, <2>3 DEF EntrySound
    <3>5. t.entry => v.asked[h].there /\ Changing(t)
      BY <3>1, <3>2, <2>2, <2>3, <2>5 DEF EntrySound
    <3> QED BY <3>4, <3>5, <2>3 DEF EntrySound
  <2>7. Reading(t) = Reading(s) BY <2>2 DEF Reading
  <2>8. ReadSound(t, w.local[h].till, w.told[h])
    BY <2>1, <2>2, <2>7 DEF s, ChatSound, ReadSound
  <2>9. WaitSound(t, v.pending[h].there, v.asked[h].there, h \in C)
    BY <2>1, <2>2, <2>3, <2>7 DEF s, ChatSound, WaitSound
  <2> QED BY <2>3, <2>4, <2>6, <2>8, <2>9 DEF ChatSound
<1>9. PostSound(v) BY <1>3, <1>7 DEF PostSound, There
<1>10. v.ok BY <1>7 DEF Sound
<1>11. KeepsTimes(w, v) BY <1>6, <1>7 DEF KeepsTimes
<1> QED BY <1>7, <1>8, <1>9, <1>10, <1>11 DEF Sound

LEMMA SendDialogRequestsKeeps ==
    ASSUME IInv, SendDialogRequests
    PROVE  IInv'
<1> DEFINE hs == There(pending)
           held == {h \in hs : Changing(states[h])}
           w == AllSent(World, World.states, World.pending, World.asked, hs, held)
<1>1. /\ flights' = IF hs = held THEN flights ELSE Append(flights, hs \ held)
      /\ NoAnswer /\ UNCHANGED <<ghost, asks, switches>>
  BY DEF SendDialogRequests
<1>2. Become(w)
  <2>1. Become(AllSent(World, states, pending, asked, hs, held))
    BY Zenon DEF SendDialogRequests, AllSent
  <2> HIDE DEF hs, held
  <2>2. World.states = states /\ World.pending = pending /\ World.asked = asked BY Now
  <2> QED BY <2>1, <2>2
<1>3. /\ Sound(World, Coming, current) /\ Timed(World) /\ AnswerInv
      /\ World.pending = pending /\ World.states = states
  BY Now
<1>4. flights \in Seq(SUBSET History) /\ hs \ held \in SUBSET History
  BY <1>3 DEF AnswerInv, There
<1>5. hs = There(World.pending) /\ held = {h \in hs : Changing(World.states[h])} BY <1>3
<1> HIDE DEF hs, held
<1>6. /\ flights' \in Seq(SUBSET History)
      /\ \A k \in DOMAIN flights : flights[k] \subseteq UNION {flights'[i] : i \in DOMAIN flights'}
      /\ hs \ held \subseteq UNION {flights'[i] : i \in DOMAIN flights'}
  <2>1. CASE hs = held BY <2>1, <1>1, <1>4
  <2>2. CASE hs # held BY <2>2, <1>1, <1>4, ComingAppended
  <2> QED BY <2>1, <2>2
<1>7. ending' = ending /\ current' = current /\ AnswerInv'
  BY <1>1, <1>3, <1>6 DEF NoAnswer, answerVars, AnswerInv, GhostTold
<1>8. Coming \subseteq Coming' /\ hs \ held \subseteq Coming' BY <1>6, <1>7 DEF Coming
<1>9. Sound(w, Coming', current) /\ KeepsTimes(World, w)
  BY <1>3, <1>5, <1>8, AllSentSound
<1> HIDE DEF w
<1>10. switches' = 0 => TimerSound(w) BY <1>1, <1>3, <1>9, TimesKept DEF Timed
<1>11. Sound(w, Coming', current') BY <1>7, <1>9
<1> QED BY <1>2, <1>7, <1>10, <1>11, StepKeeps

LEMMA UnchangedKeeps ==
    ASSUME IInv, UNCHANGED vars
    PROVE  IInv'
<1>1. /\ UNCHANGED worldVars /\ UNCHANGED answerVars
      /\ UNCHANGED <<flights, ghost, asks, switches>>
  BY DEF vars
<1>2. Coming' = Coming /\ current' = current BY <1>1 DEF Coming, answerVars
<1>3. AnswerInv' BY <1>1, Now DEF AnswerInv, answerVars, GhostTold
<1>4. World' = World BY <1>1, SameWorld
<1> QED BY <1>1, <1>2, <1>3, <1>4, Now DEF IInv, Timed

-----------------------------------------------------------------------------
(* The invariant.                                                          *)

LEMMA Initially ==
    ASSUME Init
    PROVE  IInv
<1>1. /\ states = [h \in History |-> EmptyState]
      /\ local = [h \in History |-> [till |-> 0, known |-> FALSE]]
      /\ pending = [h \in History |-> Absent] /\ asked = [h \in History |-> Absent]
      /\ posted = FALSE /\ timer = FALSE /\ told = [h \in History |-> 0]
      /\ made = 0 /\ ok = TRUE
  BY DEF Init
<1>2. World \in Worlds
  <2>1. states \in [History -> State] BY <1>1, EmptyFields
  <2>2. local \in [History -> Local]
    <3>1. [till |-> 0, known |-> FALSE] \in Local BY DEF Local
    <3> QED BY <3>1, <1>1
  <2>3. pending \in [History -> Entry] /\ asked \in [History -> Entry] BY <1>1, AbsentType
  <2>4. told \in [History -> 0 .. MaxTill] BY <1>1
  <2>5. posted \in BOOLEAN /\ timer \in BOOLEAN /\ made \in Nat /\ ok \in BOOLEAN BY <1>1
  <2> QED BY <2>1, <2>2, <2>3, <2>4, <2>5 DEF Worlds, World
<1>3. ASSUME NEW h \in History PROVE ChatSound(World, h, Coming, current)
  <2> DEFINE s == EmptyState
  <2>1. /\ World.states[h] = s /\ World.local[h].till = 0 /\ World.told[h] = 0
        /\ World.pending[h].there = FALSE /\ World.asked[h].there = FALSE
    BY <1>1, AbsentType DEF World
  <2>2. HoldSound(s) BY EmptyFields, FS_EmptySet DEF HoldSound, Deleting
  <2>3. EntrySound(s, FALSE, FALSE, h \in Coming) BY EmptyFields DEF EntrySound
  <2>4. ReadSound(s, 0, 0) BY EmptyFields DEF ReadSound, Reading
  <2>5. WaitSound(s, FALSE, FALSE, h \in current) BY EmptyFields DEF WaitSound
  <2> QED BY <2>1, <2>2, <2>3, <2>4, <2>5 DEF ChatSound
<1>4. PostSound(World) BY <1>1, AbsentType DEF PostSound, There, World
<1>5. World.ok BY <1>1 DEF World
<1>6. Timed(World) BY <1>1, EmptyFields DEF Timed, TimerSound, World
<1>7. AnswerInv
  <2>1. /\ flights = <<>> /\ dialogs = {} /\ ending = {} /\ current = {} /\ calling = <<>>
        /\ asks = 0 /\ switches = 0 /\ ghost = FALSE
    BY DEF Init
  <2>2. flights \in Seq(SUBSET History) /\ calling \in Seq(Callback) BY <2>1, EmptySeq
  <2>3. asks \in 0 .. MaxAsked /\ switches \in 0 .. MaxGhost BY <2>1
  <2> QED BY <2>1, <2>2, <2>3 DEF AnswerInv, GhostTold
<1> QED BY <1>2, <1>3, <1>4, <1>5, <1>6, <1>7 DEF IInv, Sound

LEMMA Inductive ==
    ASSUME IInv, [Next]_vars
    PROVE  IInv'
<1>1. CASE SendReadRequests BY <1>1, SendReadRequestsKeeps
<1>2. CASE SendDialogRequests BY <1>2, SendDialogRequestsKeeps
<1>3. CASE SetGhostMode BY <1>3, SetGhostModeKeeps
<1>4. CASE HandleAnswer
  <2>1. PICK h \in History :
            \/ Finalize(h) \/ CallBack(h) \/ ReadConfirmed(h)
            \/ \E till \in 0 .. MaxTill : ApplyDialog(h, till)
    BY <1>4 DEF HandleAnswer
  <2> QED BY <2>1, FinalizeKeeps, CallBackKeeps, ReadConfirmedKeeps, ApplyDialogKeeps
<1>5. CASE \E k \in DOMAIN flights : EntriesCame(k) \/ EntriesFailed(k)
  <2>1. PICK k : EntriesAnswered(k, flights[k]) \/ EntriesAnswered(k, {})
    BY <1>5 DEF EntriesCame, EntriesFailed
  <2>2. CASE EntriesAnswered(k, flights[k])
    <3> DEFINE brought == flights[k]
    <3>1. EntriesAnswered(k, brought) BY <2>2
    <3>2. brought = {} \/ brought = flights[k] OBVIOUS
    <3> HIDE DEF brought
    <3> QED BY <3>1, <3>2, EntriesAnsweredKeeps
  <2>3. CASE EntriesAnswered(k, {})
    <3> DEFINE brought == {}
    <3>1. EntriesAnswered(k, brought) BY <2>3
    <3>2. brought = {} \/ brought = flights[k] OBVIOUS
    <3> HIDE DEF brought
    <3> QED BY <3>1, <3>2, EntriesAnsweredKeeps
  <2> QED BY <2>1, <2>2, <2>3
<1>6. ASSUME NEW h \in History,
             \/ SendPendingReadInbox(h) \/ AskForEntry(h, <<>>)
             \/ \E r \in states[h].sent : Answered(h, r)
             \/ \E r \in states[h].sent \cup states[h].postponed : CancelRequest(h, r)
      PROVE  IInv'
  <2>1. CASE SendPendingReadInbox(h) BY <2>1, SendPendingReadInboxKeeps
  <2>2. CASE AskForEntry(h, <<>>)
    <3> DEFINE calls == <<>>
    <3>1. AskForEntry(h, calls) /\ calls \in Seq(Callback) BY <2>2, EmptySeq
    <3> HIDE DEF calls
    <3> QED BY <3>1, AskForEntryKeeps
  <2>3. CASE \E r \in states[h].sent : Answered(h, r)
    <3>1. PICK r : ReadFinished(h, r) \/ Finished(h, r) \/ Deleted(h, r)
      BY <2>3 DEF Answered
    <3> QED BY <3>1, ReadFinishedKeeps, FinishedKeeps, DeletedKeeps
  <2>4. CASE \E r \in states[h].sent \cup states[h].postponed : CancelRequest(h, r)
    BY <2>4, CancelRequestKeeps
  <2> QED BY <1>6, <2>1, <2>2, <2>3, <2>4
<1>7. ASSUME NEW h \in Opened,
             \/ \E callback \in Callback : AskForEntry(h, <<callback>>)
             \/ \E type \in Types : MakeRequest(h, type)
             \/ \E till \in Till :
                 ReadElsewhere(h, till) \/ \E force \in BOOLEAN : ReadInboxTill(h, till, force)
      PROVE  IInv'
  <2>0. h \in History BY OpenedAssumption
  <2>1. CASE \E callback \in Callback : AskForEntry(h, <<callback>>)
    <3>1. PICK callback \in Callback : AskForEntry(h, <<callback>>) BY <2>1
    <3> DEFINE calls == <<callback>>
    <3>2. AskForEntry(h, calls) /\ calls \in Seq(Callback) BY <3>1
    <3> HIDE DEF calls
    <3> QED BY <3>2, <2>0, AskForEntryKeeps
  <2>2. CASE \E type \in Types : MakeRequest(h, type) BY <2>0, <2>2, MakeRequestKeeps
  <2>3. CASE \E till \in Till : ReadElsewhere(h, till)
    <3>1. PICK till \in Till : ReadElsewhere(h, till) BY <2>3
    <3>2. till \in 0 .. MaxTill BY DEF Till
    <3> QED BY <3>1, <3>2, <2>0, ReadElsewhereKeeps
  <2>4. CASE \E till \in Till : \E force \in BOOLEAN : ReadInboxTill(h, till, force)
    BY <2>4, ReadInboxTillKeeps
  <2> QED BY <1>7, <2>1, <2>2, <2>3, <2>4
<1>8. CASE UNCHANGED vars BY <1>8, UnchangedKeeps
<1> QED BY <1>1, <1>2, <1>3, <1>4, <1>5, <1>6, <1>7, <1>8 DEF Next

LEMMA InvHolds == Spec => []IInv
<1>1. Init => IInv BY Initially
<1>2. IInv /\ [Next]_vars => IInv' BY Inductive
<1> QED BY <1>1, <1>2, PTL DEF Spec

LEMMA Typed ==
    ASSUME IInv
    PROVE  TypeOK
<1>1. /\ World \in Worlds /\ AnswerInv
      /\ World.states = states /\ World.local = local /\ World.pending = pending
      /\ World.asked = asked /\ World.posted = posted /\ World.timer = timer
      /\ World.told = told /\ World.made = made /\ World.ok = ok
  BY Now
<1>2. /\ states \in [History -> State] /\ local \in [History -> Local]
      /\ pending \in [History -> Entry] /\ asked \in [History -> Entry]
      /\ posted \in BOOLEAN /\ timer \in BOOLEAN /\ told \in [History -> 0 .. MaxTill]
      /\ made \in Nat /\ ok \in BOOLEAN
  BY <1>1 DEF Worlds
<1>3. current \subseteq History BY <1>1 DEF AnswerInv
<1> QED BY <1>1, <1>2, <1>3 DEF TypeOK, AnswerInv, State, Local, Entry

LEMMA NotForgotten ==
    ASSUME IInv
    PROVE  NothingForgotten
<1>1. /\ Sound(World, Coming, current) /\ Timed(World)
      /\ World.states = states /\ World.pending = pending /\ World.asked = asked
      /\ World.posted = posted /\ World.timer = timer
  BY Now
<1> DEFINE state(h) == states[h]
<1>2. ASSUME NEW h \in History
      PROVE  /\ state(h).postponed # {} => Deleting(state(h))
             /\ Deleting(state(h)) => \A r \in state(h).sent : r.type # "History"
             /\ pending[h].there => posted /\ ~asked[h].there
             /\ asked[h].there =>
                   state(h).entry \/ h \in ending \/ \E k \in DOMAIN flights : h \in flights[k]
             /\ state(h).entry => asked[h].there /\ Changing(state(h))
             /\ state(h).sentTill # 0 =>
                   IF state(h).done THEN pending[h].there \/ asked[h].there \/ h \in current
                   ELSE \E r \in state(h).sent : r.type = "ReadInbox" /\ r.till = state(h).sentTill
             /\ state(h).will # 0 /\ switches = 0 => state(h).later /\ timer
  <2>1. ChatSound(World, h, Coming, current) BY <1>1 DEF Sound
  <2>2. HoldSound(state(h)) BY <1>1, <2>1 DEF ChatSound
  <2>3. EntrySound(state(h), pending[h].there, asked[h].there, h \in Coming)
    BY <1>1, <2>1 DEF ChatSound
  <2>4. WaitSound(state(h), pending[h].there, asked[h].there, h \in current)
    BY <1>1, <2>1 DEF ChatSound
  <2>5. h \in Coming => h \in ending \/ \E k \in DOMAIN flights : h \in flights[k]
    BY DEF Coming
  <2>6. pending[h].there => posted BY <1>1 DEF Sound, PostSound, There
  <2>7. state(h).will # 0 /\ switches = 0 => state(h).later /\ timer
    BY <1>1 DEF Timed, TimerSound
  <2> HIDE DEF state
  <2>8. /\ state(h).postponed # {} => Deleting(state(h))
        /\ Deleting(state(h)) => \A r \in state(h).sent : r.type # "History"
    BY <2>2 DEF HoldSound
  <2>9. /\ pending[h].there => ~asked[h].there
        /\ asked[h].there =>
              state(h).entry \/ h \in ending \/ \E k \in DOMAIN flights : h \in flights[k]
        /\ state(h).entry => asked[h].there /\ Changing(state(h))
    BY <2>3, <2>5 DEF EntrySound
  <2>10. state(h).sentTill # 0 =>
            IF state(h).done THEN pending[h].there \/ asked[h].there \/ h \in current
            ELSE \E r \in state(h).sent : r.type = "ReadInbox" /\ r.till = state(h).sentTill
    BY <2>4 DEF WaitSound, Reading
  <2> QED BY <2>6, <2>7, <2>8, <2>9, <2>10
<1> QED BY <1>2, Zenon DEF NothingForgotten

LEMMA AsToldAtRest ==
    ASSUME IInv
    PROVE  ReadAsToldAtRest
<1>1. /\ Sound(World, Coming, current) /\ World \in Worlds
      /\ World.states = states /\ World.local = local /\ World.pending = pending
      /\ World.asked = asked /\ World.told = told
  BY Now
<1>2. ASSUME NEW h \in History, ~Waits(h) PROVE local[h].till >= told[h]
  <2>1. ChatSound(World, h, Coming, current) BY <1>1 DEF Sound
  <2>2. /\ states[h].sent = {} /\ ~pending[h].there /\ ~asked[h].there /\ ~(h \in current)
    BY <1>2 DEF Waits
  <2>3. states[h].sentTill = 0
    BY <1>1, <2>1, <2>2 DEF ChatSound, WaitSound, Reading
  <2>4. told[h] <= local[h].till \/ told[h] <= 0
    BY <1>1, <2>1, <2>3 DEF ChatSound, ReadSound
  <2>5. local[h].till \in Nat /\ told[h] \in Nat BY <1>1, WorldFields DEF Local
  <2> QED BY <2>4, <2>5
<1> QED BY <1>2 DEF ReadAsToldAtRest

(* What an event, an answer or a callback leaves in Histories has its type:
   no chat reads past the last message, and an answer that is handled is
   about chats that are still to be applied or finalized. *)
THEOREM TypeCorrect == Spec => []TypeOK
BY InvHolds, Typed, PTL

(* No Assert or Expects of Histories fails: sendReadRequest is called for
   more than what is sent, the answer to a read request is never for more
   than what is awaited, and an entry that has been held back is still in
   _dialogRequests, and not pending again, when the change of its chat ends
   (data_histories.cpp: sendReadRequest, finishSentRequest). *)
THEOREM AssertsAlwaysHold == Spec => []AssertsHold
<1>1. IInv => AssertsHold BY Now DEF Sound, AssertsHold
<1> QED BY <1>1, InvHolds, PTL

(* What a chat waits for is on its way, whatever comes between: requests for
   messages held back wait for something being deleted, an entry for the
   posted call, an answer or a change of the chat, what has been read for
   its answer or for the entry, and what will be for the timer
   (data_histories.cpp: finishSentRequest, sendDialogRequests,
   sendReadRequests). *)
THEOREM NothingIsForgotten == Spec => []NothingForgotten
BY InvHolds, NotForgotten, PTL

(* A chat about which nothing is under way is read here as far as the server
   has been told, by this device or by another (data_histories.cpp:
   sendReadRequest and dialogEntryApplied). *)
THEOREM AtRestReadAsTold == Spec => []ReadAsToldAtRest
BY InvHolds, AsToldAtRest, PTL
=============================================================================
