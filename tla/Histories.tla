------------------------------ MODULE Histories ------------------------------
(***************************************************************************)
(* The requests about chats (data/data_histories.cpp): reading till a      *)
(* message, requests for messages held back while something is deleted,    *)
(* and the entries of the chats list, asked for once for several chats and *)
(* not while anything of the chat changes.                                 *)
(*                                                                         *)
(* All of it runs on the main thread, one event at a time.  A world is the *)
(* record of what an event may change: the operators below are the         *)
(* methods of Histories, from a world to the next one.  The api is         *)
(* external: it answers each request once unless it is cancelled.          *)
(*                                                                         *)
(* An answer about entries is handled chat by chat and callback by         *)
(* callback, in any order of the chats: a step for each, with no event     *)
(* between them.                                                           *)
(*                                                                         *)
(* A State of no request and no message to read till is not kept by the    *)
(* code (checkEmptyState); here it is EmptyState.  How many messages are   *)
(* unread is abstracted to what countStillUnreadLocal may say of it.       *)
(***************************************************************************)
EXTENDS Integers, Sequences, FiniteSets, SequencesExt

CONSTANTS
    History,    \* the chats
    Opened,     \* bound: those the user opens, entries are asked for all
    MaxTill,    \* bound: the ids of the messages
    MaxMade,    \* bound: requests sent
    MaxAsked,   \* bound: how often something asks for an entry
    MaxGhost,   \* bound: how often ghost mode is switched
    Types       \* the types of the requests of the run, but ReadInbox

ASSUME HistoryAssumption == IsFiniteSet(History)
ASSUME OpenedAssumption == Opened \subseteq History
ASSUME TypesAssumption ==
    Types \subseteq {"History", "Send", "Delete", "DeleteChannel"}
ASSUME BoundsAssumption ==
    /\ MaxTill \in Nat \ {0} /\ MaxMade \in Nat /\ MaxAsked \in Nat /\ MaxGhost \in Nat

VARIABLES
    states,    \* _states
    local,     \* of each History: inboxReadTillId() and unreadCountKnown()
    pending,   \* _dialogRequestsPending
    asked,     \* _dialogRequests
    posted,    \* sendDialogRequests is posted
    timer,     \* _readRequestsTimer is active
    flights,   \* the requests for entries that are not answered
    ghost,     \* ghostMode() with ghostHideReadMessages()
    \* the answer that is handled, see Idle
    dialogs,   \* chats whose dialogs it brings, that are not applied yet
    ending,    \* chats that it was asked for, that are not finalized yet
    current,   \* the chat whose callbacks are called, if any
    calling,   \* those that are not called yet
    \* history and bounds
    told,      \* the message the server has been told each chat is read till
    made,      \* _requestAutoincrement
    asks,
    switches,
    ok         \* every Assert and Expects has held

worldVars == <<states, local, pending, asked, posted, timer, told, made, ok>>
answerVars == <<dialogs, ending, current, calling>>
vars == <<worldVars, flights, ghost, answerVars, asks, switches>>

Till == 1 .. MaxTill
Callback == {"read", "delete"}
Absent == [there |-> FALSE, calls |-> <<>>]
EmptyState == [postponed |-> {}, sent |-> {}, will |-> 0, later |-> FALSE,
               sentTill |-> 0, done |-> FALSE, entry |-> FALSE]

Init ==
    /\ states = [h \in History |-> EmptyState]
    /\ local = [h \in History |-> [till |-> 0, known |-> FALSE]]
    /\ pending = [h \in History |-> Absent] /\ asked = [h \in History |-> Absent]
    /\ posted = FALSE /\ timer = FALSE
    /\ flights = <<>>
    /\ ghost = FALSE
    /\ dialogs = {} /\ ending = {} /\ current = {} /\ calling = <<>>
    /\ told = [h \in History |-> 0]
    /\ made = 0 /\ asks = 0 /\ switches = 0
    /\ ok = TRUE

World == [states |-> states, local |-> local, pending |-> pending, asked |-> asked,
          posted |-> posted, timer |-> timer, told |-> told, made |-> made, ok |-> ok]

BecomeOne(worlds) ==
    \E w \in worlds :
        /\ states' = w.states /\ local' = w.local
        /\ pending' = w.pending /\ asked' = w.asked
        /\ posted' = w.posted /\ timer' = w.timer
        /\ told' = w.told /\ made' = w.made /\ ok' = w.ok

Become(w) == BecomeOne({w})

\* No answer is being handled: an event may come.
Idle == dialogs = {} /\ ending = {} /\ current = {}
NoAnswer == Idle /\ UNCHANGED answerVars

Higher(a, b) == IF a < b THEN b ELSE a

There(map) == {h \in History : map[h].there}

\* checkEmptyState.
Kept(state) ==
    IF /\ state.postponed = {} /\ state.sent = {} /\ ~state.entry
       /\ state.will = 0 /\ state.sentTill = 0
    THEN EmptyState ELSE state

-----------------------------------------------------------------------------
(* Requests.                                                               *)

\* postponeHistoryRequest and postponeEntryRequest.
Deleting(state) == \E r \in state.sent : r.type \in {"Delete", "DeleteChannel"}
Changing(state) == \E r \in state.sent : r.type # "History"

\* A new request of a chat: the number tells it from those like it.
NewRequest(state, type, till) ==
    LET like == {r \in state.sent \cup state.postponed : r.type = type}
    IN [type |-> type, till |-> till,
        number |-> CHOOSE n \in 1 .. Cardinality(like) + 1 : n \notin {r.number : r \in like}]

\* Mutant: a request that is held back is not cancelled.
SentAnyway(state, type, till, waits) ==
    LET with == [state EXCEPT !.sent = @ \cup {NewRequest(state, type, till)}]
    IN [with EXCEPT !.entry = @ \/ (Changing(with) /\ waits)]

\* The state of a chat after a request for messages that waits for what is
\* being deleted, or one that is cancelled and waits when something is
\* deleted.  waits: the chat is in _dialogRequests.
Requested(state, type, till, waits) ==
    LET r == NewRequest(state, type, till)
        with == [state EXCEPT !.sent = @ \cup {r}]
        held == {q \in with.sent : Deleting(with) /\ q.type = "History"}
    IN IF type = "History" /\ Deleting(state) THEN [state EXCEPT !.postponed = @ \cup {r}]
       ELSE [with EXCEPT !.sent = @ \ held, !.postponed = @ \cup held,
                         !.entry = @ \/ (Changing(with) /\ waits)]

\* sendRequest.
SendRequest(w, h, type, till) ==
    [w EXCEPT !.made = @ + 1,
              !.states[h] = Requested(@, type, till, w.asked[h].there)]

\* requestDialogEntry, with the callbacks calls.
RequestEntry(w, h, calls) ==
    IF w.asked[h].there THEN [w EXCEPT !.asked[h].calls = @ \o calls]
    ELSE LET new == [w EXCEPT !.pending[h] = [there |-> TRUE, calls |-> @.calls \o calls]]
         IN [new EXCEPT !.posted = @ \/ (~w.pending[h].there /\ There(new.pending) = {h})]

\* Mutant: the entry that was held back is not asked for again.
FinishRequestOnly(w, h, r) ==
    LET left == [w.states[h] EXCEPT !.sent = @ \ {r}]
        free == ~Deleting(left)
        state == IF free THEN [left EXCEPT !.sent = @ \cup left.postponed, !.postponed = {}]
                 ELSE left
    IN [w EXCEPT !.states[h] = state]

\* finishSentRequest: what waited for the request is sent again, or posted.
FinishRequest(w, h, r) ==
    LET left == [w.states[h] EXCEPT !.sent = @ \ {r}]
        free == ~Deleting(left)
        state == IF free THEN [left EXCEPT !.sent = @ \cup left.postponed, !.postponed = {}]
                 ELSE left
        moves == state.entry /\ ~Changing(state)
    IN IF ~moves THEN [w EXCEPT !.states[h] = Kept(state)]
       ELSE LET new == [w EXCEPT !.pending[h] = w.asked[h], !.asked[h] = Absent,
                                 !.states[h] = Kept([state EXCEPT !.entry = FALSE]),
                                 !.ok = @ /\ w.asked[h].there /\ ~w.pending[h].there]
            IN [new EXCEPT !.posted = @ \/ There(new.pending) = {h}]

-----------------------------------------------------------------------------
(* Reading.                                                                *)

\* Mutant: the id after the last one read is taken for the last one.
ReadLocallyPast(w, h, till) == [w EXCEPT !.local[h].till = Higher(@, till + 1)]

\* setInboxReadTill.
ReadLocally(w, h, till) == [w EXCEPT !.local[h].till = Higher(@, till)]

\* sendReadRequest, of the state of a chat.
ReadSent(state, waits) ==
    LET till == state.will
    IN Requested([state EXCEPT !.will = 0, !.later = FALSE, !.sentTill = till, !.done = FALSE],
                 "ReadInbox", till, waits)

\* sendReadRequests, when the time of the chats due has come.
SendReads(w, due) ==
    LET will == {h \in History : w.states[h].will # 0}
        now == {h \in will : ~w.states[h].later \/ h \in due}
    IN IF \A h \in History : w.states[h] = EmptyState THEN w
       ELSE IF ghost THEN [w EXCEPT !.timer = FALSE]
       ELSE [w EXCEPT
                !.states = [h \in History |-> IF h \in now THEN ReadSent(@[h], w.asked[h].there) ELSE @[h]],
                !.told = [h \in History |-> IF h \in now THEN Higher(@[h], w.states[h].will) ELSE @[h]],
                !.ok = @ /\ \A h \in now : w.states[h].will > w.states[h].sentTill,
                !.made = @ + Cardinality(now),
                !.timer = will # now]

\* What countStillUnreadLocal may say: nothing, that all is read, that the
\* count does not change, or that some messages are left.
Still == {"unknown", "none", "same", "some"}

\* readInboxTill.  atEnd: till is the last message and some are unread.
ReadTill(w, h, till, force, still, atEnd, due) ==
    LET state == w.states[h]
        needs == w.local[h].till < till
        will == [w EXCEPT !.states[h].will = till]
        soon == [w EXCEPT !.states[h].later = FALSE]
        Marked(v) == [ReadLocally(v, h, till) EXCEPT !.local[h].known = TRUE]
        result ==
            IF (~needs /\ ~force) \/ state.sentTill >= till THEN w
            ELSE IF state.will >= till
                 THEN IF force /\ state.later THEN SendReads(soon, due) ELSE w
            ELSE IF ~needs /\ state.will = 0 THEN w
            ELSE IF ~force /\ still = "same" THEN ReadLocally(w, h, till)
            ELSE IF still = "unknown"
                 THEN SendReads([will EXCEPT !.states[h].later = FALSE], due)
            ELSE IF force \/ still = "none"
                 THEN Marked(SendReads([will EXCEPT !.states[h].later = FALSE], due))
            ELSE Marked([will EXCEPT !.states[h].later = TRUE, !.timer = @ \/ ~state.later])
    IN IF atEnd THEN Marked(result) ELSE result

\* The chats whose time has come, and what an event finds in a chat.
Due == SUBSET {h \in History : states[h].later}

Chance(h) ==
    {c \in [still: Still, atEnd: BOOLEAN, due: Due] :
        c.still = "same" \/ c.atEnd => local[h].known}

\* readInboxTill by the user, or by a message that comes into an open chat.
ReadInboxTill(h, till, force) ==
    /\ BecomeOne({ReadTill(World, h, till, force, c.still, c.atEnd, c.due) : c \in Chance(h)})
    /\ NoAnswer /\ UNCHANGED <<flights, ghost, asks, switches>>

\* sendPendingReadInbox: the user leaves the chat.
SendPendingReadInbox(h) ==
    /\ states[h].will # 0 /\ states[h].later
    /\ BecomeOne({SendReads([World EXCEPT !.states[h].later = FALSE], due) : due \in Due})
    /\ NoAnswer /\ UNCHANGED <<flights, ghost, asks, switches>>

\* The timer: the time has come of one of the chats that wait for it.
SendReadRequests ==
    /\ timer
    /\ BecomeOne({SendReads([World EXCEPT !.timer = FALSE], due) :
                     due \in IF Due = {{}} THEN Due ELSE Due \ {{}}})
    /\ NoAnswer /\ UNCHANGED <<flights, ghost, asks, switches>>

\* Mutant: what has been read is not remembered until the entry comes.
ReadFinishedAtOnce(h, r) ==
    /\ r \in states[h].sent /\ r.type = "ReadInbox"
    /\ LET last == states[h].sentTill = r.till
           after == IF last THEN [World EXCEPT !.states[h].sentTill = 0] ELSE World
       IN BecomeOne({FinishRequest(w, h, r) : w \in {SendReads(after, due) : due \in Due}})
    /\ NoAnswer /\ UNCHANGED <<flights, ghost, asks, switches>>

\* `finished' of sendReadRequest.
ReadFinished(h, r) ==
    /\ r \in states[h].sent /\ r.type = "ReadInbox"
    /\ LET last == states[h].sentTill = r.till
           refresh == ~local[h].known \/ local[h].till < r.till
           done == [World EXCEPT !.states[h].done = TRUE]
           after == IF last /\ refresh THEN RequestEntry(done, h, <<>>)
                    ELSE IF last THEN [done EXCEPT !.states[h].sentTill = 0]
                    ELSE [World EXCEPT !.ok = @ /\ states[h].sentTill \in {0} \cup r.till + 1 .. MaxTill]
       IN BecomeOne({FinishRequest(w, h, r) : w \in {SendReads(after, due) : due \in Due}})
    /\ NoAnswer /\ UNCHANGED <<flights, ghost, asks, switches>>

-----------------------------------------------------------------------------
(* Other requests.                                                         *)

MakeRequest(h, type) ==
    /\ made < MaxMade
    /\ Become(SendRequest(World, h, type, 0))
    /\ NoAnswer /\ UNCHANGED <<flights, ghost, asks, switches>>

\* The answer to a request for messages or of a message sent.
Finished(h, r) ==
    /\ r \in states[h].sent /\ r.type \in {"History", "Send"}
    /\ Become(FinishRequest(World, h, r))
    /\ NoAnswer /\ UNCHANGED <<flights, ghost, asks, switches>>

\* Something has been deleted: there may be more of it, or a last message
\* to be asked for.
Deleted(h, r) ==
    /\ r \in states[h].sent /\ r.type = "Delete"
    /\ \/ Become(FinishRequest(World, h, r)) /\ UNCHANGED asks
       \/ /\ made < MaxMade
          /\ Become(FinishRequest(SendRequest(World, h, "Delete", 0), h, r))
          /\ UNCHANGED asks
       \/ /\ asks < MaxAsked /\ asks' = asks + 1
          /\ Become(RequestEntry(FinishRequest(World, h, r), h, <<>>))
    /\ NoAnswer /\ UNCHANGED <<flights, ghost, switches>>

\* cancelRequest.
CancelRequest(h, r) ==
    /\ r \in states[h].sent \cup states[h].postponed /\ r.type \in {"History", "Send"}
    /\ Become(FinishRequest([World EXCEPT !.states[h].postponed = @ \ {r}], h, r))
    /\ NoAnswer /\ UNCHANGED <<flights, ghost, asks, switches>>

-----------------------------------------------------------------------------
(* Entries.                                                                *)

\* requestDialogEntry, by an update, readInbox or deleteHistory.
AskForEntry(h, calls) ==
    /\ asks < MaxAsked /\ asks' = asks + 1
    /\ Become(RequestEntry(World, h, calls))
    /\ NoAnswer /\ UNCHANGED <<flights, ghost, switches>>

\* sendDialogRequests.  An empty request is sent as well, its answer
\* changes nothing.
SendDialogRequests ==
    /\ posted
    /\ LET hs == There(pending)
           held == {h \in hs : Changing(states[h])}
       IN /\ flights' = IF hs = held THEN flights ELSE Append(flights, hs \ held)
          /\ Become([World EXCEPT
                !.posted = FALSE,
                !.pending = [h \in History |-> Absent],
                !.asked = [h \in History |-> IF h \in hs THEN pending[h] ELSE asked[h]],
                !.states = [h \in History |-> [states[h] EXCEPT !.entry = @ \/ h \in held]]])
    /\ NoAnswer /\ UNCHANGED <<ghost, asks, switches>>

\* The answer to a request for entries, or none.
EntriesAnswered(k, brought) ==
    /\ k \in DOMAIN flights /\ Idle
    /\ flights' = RemoveAt(flights, k)
    /\ dialogs' = brought /\ ending' = flights[k]
    /\ UNCHANGED <<worldVars, ghost, current, calling, asks, switches>>

EntriesCame(k) == EntriesAnswered(k, flights[k])
EntriesFailed(k) == EntriesAnswered(k, {})

\* Mutant: an entry counts while a request may still change it.
EntryAppliedAnyway(w, h) ==
    /\ Become([w EXCEPT !.pending[h] = Absent, !.asked[h] = Absent])
    /\ current' = {h} /\ calling' = w.pending[h].calls \o w.asked[h].calls

\* dialogEntryApplied, up to its callbacks.
EntryApplied(w, h) ==
    IF w.states[h].entry THEN Become(w) /\ UNCHANGED <<current, calling>>
    ELSE /\ Become([w EXCEPT !.pending[h] = Absent, !.asked[h] = Absent])
         /\ current' = {h} /\ calling' = w.pending[h].calls \o w.asked[h].calls

\* applyDialogFields: the server says till where the chat is read.
FieldsApplied(w, h, till) ==
    IF till < w.local[h].till THEN w
    ELSE [w EXCEPT !.local[h] = [till |-> till, known |-> TRUE]]

\* applyPeerDialogs, of one dialog.
ApplyDialog(h, till) ==
    /\ h \in dialogs /\ current = {} /\ till <= told[h]
    /\ dialogs' = dialogs \ {h}
    /\ EntryApplied(FieldsApplied(World, h, till), h)
    /\ UNCHANGED <<flights, ghost, ending, asks, switches>>

\* `finalize' of sendDialogRequests, of one chat.
Finalize(h) ==
    /\ h \in ending /\ dialogs = {} /\ current = {}
    /\ ending' = ending \ {h}
    /\ EntryApplied(World, h)
    /\ UNCHANGED <<flights, ghost, dialogs, asks, switches>>

\* The next callback: of readInbox, or of deleteHistory.
CallBack(h) ==
    /\ h \in current /\ calling # <<>>
    /\ calling' = Tail(calling)
    /\ IF Head(calling) = "read"
       THEN BecomeOne({ReadTill(World, h, MaxTill, FALSE, c.still, c.atEnd, c.due) : c \in Chance(h)})
       ELSE Become(SendRequest(World, h, "Delete", 0))
    /\ UNCHANGED <<flights, ghost, dialogs, ending, current, asks, switches>>

\* ... and the rest of dialogEntryApplied: what has been read counts as read
\* here when the entry comes.
ReadConfirmed(h) ==
    /\ h \in current /\ calling = <<>>
    /\ current' = {}
    /\ LET state == states[h]
       IN Become(IF state.sentTill = 0 \/ ~state.done THEN World
                 ELSE [ReadLocally(World, h, state.sentTill) EXCEPT
                          !.states[h] = Kept([state EXCEPT !.sentTill = 0])])
    /\ UNCHANGED <<flights, ghost, dialogs, ending, calling, asks, switches>>

HandleAnswer ==
    \E h \in History :
        \/ Finalize(h) \/ CallBack(h) \/ ReadConfirmed(h)
        \/ \E till \in 0 .. MaxTill : ApplyDialog(h, till)

-----------------------------------------------------------------------------
\* applyInboxReadUpdate: the chat has been read by another device.
ReadElsewhere(h, till) ==
    /\ local[h].till < till /\ asks < MaxAsked /\ asks' = asks + 1
    /\ LET read == [ReadLocally(World, h, till) EXCEPT !.told[h] = Higher(@, till)]
       IN \/ Become([read EXCEPT !.local[h].known = TRUE])
          \/ Become(RequestEntry(read, h, <<>>))
    /\ NoAnswer /\ UNCHANGED <<flights, ghost, switches>>

SetGhostMode ==
    /\ switches < MaxGhost /\ switches' = switches + 1
    /\ ghost' = ~ghost
    /\ NoAnswer /\ UNCHANGED <<worldVars, flights, asks>>

Answered(h, r) == ReadFinished(h, r) \/ Finished(h, r) \/ Deleted(h, r)

Next ==
    \/ SendReadRequests \/ SendDialogRequests \/ SetGhostMode \/ HandleAnswer
    \/ \E k \in DOMAIN flights : EntriesCame(k) \/ EntriesFailed(k)
    \/ \E h \in History :
        \/ SendPendingReadInbox(h) \/ AskForEntry(h, <<>>)
        \/ \E r \in states[h].sent : Answered(h, r)
        \/ \E r \in states[h].sent \cup states[h].postponed : CancelRequest(h, r)
    \/ \E h \in Opened :
        \/ \E callback \in Callback : AskForEntry(h, <<callback>>)
        \/ \E type \in Types : MakeRequest(h, type)
        \/ \E till \in Till :
            ReadElsewhere(h, till) \/ \E force \in BOOLEAN : ReadInboxTill(h, till, force)

Spec == Init /\ [][Next]_vars

\* One of the requests of a chat whose answer ends them.
First(h) ==
    LET open == {r \in states[h].sent : r.type # "DeleteChannel"}
    IN IF open = {} THEN {} ELSE {CHOOSE r \in open : TRUE}

\* Timers and posted calls run, and the api answers every request: none
\* is first for ever.
FairSpec ==
    /\ Spec
    /\ WF_vars(SendReadRequests) /\ WF_vars(SendDialogRequests) /\ WF_vars(HandleAnswer)
    /\ WF_vars(flights # <<>> /\ (EntriesCame(1) \/ EntriesFailed(1)))
    /\ \A h \in History : WF_vars(\E r \in First(h) : Answered(h, r))

-----------------------------------------------------------------------------
Request == [number: Nat \ {0}, type: Types \cup {"Delete", "ReadInbox"}, till: 0 .. MaxTill]

TypeOK ==
    /\ states \in [History ->
          [postponed: SUBSET Request, sent: SUBSET Request, will: 0 .. MaxTill,
           later: BOOLEAN, sentTill: 0 .. MaxTill, done: BOOLEAN, entry: BOOLEAN]]
    /\ local \in [History -> [till: 0 .. MaxTill, known: BOOLEAN]]
    /\ {pending, asked} \subseteq [History -> [there: BOOLEAN, calls: Seq(Callback)]]
    /\ posted \in BOOLEAN /\ timer \in BOOLEAN /\ ghost \in BOOLEAN /\ ok \in BOOLEAN
    /\ flights \in Seq(SUBSET History)
    /\ dialogs \subseteq ending /\ ending \subseteq History /\ current \subseteq History
    /\ calling \in Seq(Callback)
    /\ told \in [History -> 0 .. MaxTill]
    /\ made \in Nat /\ asks \in 0 .. MaxAsked /\ switches \in 0 .. MaxGhost

(* Every Assert and Expects of Histories holds: a read request is for more
   than what is sent, its answer is not for more, and an entry that is held
   back is in _dialogRequests and not pending. *)
AssertsHold == ok

(* What a chat waits for is on its way: a request that is held back waits
   for something being deleted, an entry for a posted call, an answer or a
   change of the chat, what has been read for its answer or the entry, and
   what will be for the timer, unless ghost mode has been switched. *)
NothingForgotten ==
    \A h \in History :
        LET state == states[h] IN
        /\ state.postponed # {} => Deleting(state)
        /\ Deleting(state) => \A r \in state.sent : r.type # "History"
        /\ pending[h].there => posted /\ ~asked[h].there
        /\ asked[h].there =>
              state.entry \/ h \in ending \/ \E k \in DOMAIN flights : h \in flights[k]
        /\ state.entry => asked[h].there /\ Changing(state)
        /\ state.sentTill # 0 =>
              IF state.done THEN pending[h].there \/ asked[h].there \/ h \in current
              ELSE \E r \in state.sent : r.type = "ReadInbox" /\ r.till = state.sentTill
        /\ state.will # 0 /\ switches = 0 => state.later /\ timer

Waits(h) ==
    \/ states[h].sent # {} \/ states[h].postponed # {}
    \/ pending[h].there \/ asked[h].there \/ h \in current

(* Once nothing about a chat is under way, it is read here as far as the
   server has been told. *)
ReadAsToldAtRest ==
    \A h \in History :
        ~Waits(h) /\ states[h].will = 0 => local[h].till >= told[h]

DeletingChannel(h) == \E r \in states[h].sent : r.type = "DeleteChannel"

(* Every request about a chat ends, also those held back, every entry comes
   or fails, and all that has been read is sent.  Not so for a channel being
   deleted, whose request the code never finishes, and for what is read
   while ghost mode is on. *)
EverythingEnds ==
    \A h \in History :
        /\ []<>(~Waits(h) \/ DeletingChannel(h))
        /\ []<>(states[h].will = 0 \/ switches > 0)
=============================================================================
