------------------------------ MODULE Downloads ------------------------------
(***************************************************************************)
(* Downloading the parts of files from one data centre over several        *)
(* sessions (storage/download_manager_mtproto.cpp), with the file loader   *)
(* as the task (storage/file_download_mtproto.cpp).                        *)
(*                                                                         *)
(* All of it runs on the main thread.  `calls' is what the event being     *)
(* handled has still to do, one turn of a loop of the code at a time;      *)
(* while it is not empty no other event is handled.  `posted' holds the    *)
(* calls made with crl::on_main.  MTP::Instance is external: it answers    *)
(* each request once unless it is cancelled first.                         *)
(*                                                                         *)
(* Amounts and offsets are counted in parts (kDownloadPartSize), sessions  *)
(* from 1: session i here has the index i - 1 in the code.                 *)
(***************************************************************************)
EXTENDS Integers, Sequences, FiniteSets, FiniteSetsExt, SequencesExt

CONSTANTS
    Task,           \* the files
    Priority,       \* of each task in the queue
    Parts,          \* how many parts a file has
    StartWaited,    \* kStartWaitedInSession
    MaxWaited,      \* kMaxWaitedInSession
    MaxSessions,    \* kMaxSessionsCount
    AddSuccesses,   \* kRetryAddSessionSuccesses
    RemoveTimeouts, \* kRemoveSessionAfterTimeouts
    MaxRemoves,     \* kMaxTrackedSessionRemoves
    MaxFaults,      \* bound: faults of the network, the server and the user
    Faults          \* the kinds of fault of the run

\* "token": a CDN token is refused; "staleToken": the same while hashes are
\* asked for with it.
FaultKind == {"slow", "restart", "redirect", "nohash", "reupload", "token",
              "staleToken", "reference", "fatal", "cancel"}
ASSUME FaultsAssumption == Faults \subseteq FaultKind
ASSUME PriorityAssumption == Priority \in [Task -> Nat]
ASSUME SizesAssumption ==
    /\ Parts \in Nat \ {0} /\ MaxFaults \in Nat
    /\ StartWaited \in Nat \ {0} /\ MaxWaited \in Nat /\ StartWaited <= MaxWaited
    /\ MaxSessions \in Nat \ {0} /\ AddSuccesses \in Nat \ {0}
    /\ RemoveTimeouts \in Nat \ {0} /\ MaxRemoves \in Nat \ {0}

StartSessions == 1          \* kStartSessionsCount
BaseDownloadDcShift == 16   \* kBaseDownloadDcShift
Offset == 0 .. Parts - 1
Index == 1 .. MaxSessions
None == 0

VARIABLES
    balance,     \* _balanceData, and whether the dc is in _killSessionsWhen
    queue,       \* _queues: the tasks and their priorities
    resetTimer,  \* _resetGenerationTimer is active
    sent,        \* _sentRequests of all tasks
    status,      \* of each task
    next,        \* _nextRequestOffset
    fed,         \* the offsets written to the file
    cdn,         \* whether _cdnDcId is set
    hashes,      \* the offsets in _cdnFileHashes
    unchecked,   \* _cdnUncheckedParts: offset -> session, None if not in it
    calls,
    posted,
    \* history and bounds
    failed,      \* an Assert or Ensures has failed
    faults

taskVars == <<status, next, fed, cdn, hashes, unchecked>>
vars == <<balance, queue, resetTimer, sent, taskVars, calls, posted, failed,
          faults>>

Request == [task: Task, offset: Offset, kind: {"part", "cdn", "reupload", "hashes"},
            session: Index, amount: Int, old: BOOLEAN, refreshing: BOOLEAN]

NewSession == [requested |-> 0, successes |-> 0, maxWaited |-> StartWaited]
NewBalance == [sessions |-> <<NewSession>>, total |-> 0, timeouts |-> 0,
               removeTimes |-> 0, removeIndex |-> None, removed |-> FALSE,
               kill |-> FALSE]

Init ==
    /\ balance = NewBalance
    /\ queue = <<>> /\ resetTimer = FALSE
    /\ sent = {}
    /\ status = [t \in Task |-> "new"]
    /\ next = [t \in Task |-> 0]
    /\ fed = [t \in Task |-> {}]
    /\ cdn = [t \in Task |-> FALSE]
    /\ hashes = [t \in Task |-> {}]
    /\ unchecked = [t \in Task |-> [o \in Offset |-> None]]
    /\ calls = <<>> /\ posted = <<>>
    /\ failed = FALSE
    /\ faults = 0

Idle == calls = <<>> /\ ~failed
Fault(kind) == kind \in Faults /\ faults < MaxFaults /\ faults' = faults + 1
Unchecked(t) == {o \in Offset : unchecked[t][o] # None}
Of(t) == {r \in sent : r.task = t}
HashesRequest(S, t) == {r \in S : r.task = t /\ r.kind = "hashes"}

-----------------------------------------------------------------------------
(* The amounts.  A load is the pair of the balance and the sent requests,  *)
(* ok is FALSE once an Assert or Ensures of the code does not hold.        *)

Load == [balance |-> balance, sent |-> sent, ok |-> TRUE]

\* DownloadManagerMtproto::changeRequestedAmount.
Changed(b, i, delta) ==
    LET ss == [b.sessions EXCEPT ![i].requested = @ + delta]
    IN [b EXCEPT !.sessions = ss, !.total = @ + delta,
                 !.kill = IF delta > 0 THEN FALSE
                          ELSE @ \/ \A j \in DOMAIN ss : ss[j].requested <= 0]

\* makeRequest with placeSentRequest.
Placed(load, t, o, i, kind) ==
    IF i \notin DOMAIN load.balance.sessions THEN [load EXCEPT !.ok = FALSE]
    ELSE LET b == Changed(load.balance, i, 1)
             r == [task |-> t, offset |-> o, kind |-> kind, session |-> i,
                   amount |-> b.sessions[i].requested, old |-> FALSE,
                   refreshing |-> FALSE]
         IN [balance |-> b, sent |-> load.sent \cup {r},
             ok |-> load.ok /\ \A q \in load.sent : q.task # t \/ q.offset # o]

\* finishSentRequest, but for requestSucceeded.
Finished(load, r) ==
    IF r.session \notin DOMAIN load.balance.sessions THEN [load EXCEPT !.ok = FALSE]
    ELSE [load EXCEPT !.balance = Changed(@, r.session, -1), !.sent = @ \ {r}]

PartKind(t) == IF cdn[t] THEN "cdn" ELSE "part"

\* requestMoreCdnFileHashes, with the unchecked parts u.
MoreHashes(load, t, u) ==
    LET waiting == {o \in Offset : u[o] # None}
    IN IF waiting = {} \/ HashesRequest(load.sent, t) # {} THEN load
       ELSE Placed(load, t, Min(waiting), u[Min(waiting)], "hashes")

SetLoad(load) ==
    /\ balance' = load.balance /\ sent' = load.sent
    /\ failed' = (failed \/ ~load.ok)

\* The first session with the smallest amount.
Smallest(amount) ==
    CHOOSE i \in DOMAIN amount : \A j \in DOMAIN amount :
        amount[i] < amount[j] \/ (amount[i] = amount[j] /\ i <= j)

ChooseSessionIndex(b) == Smallest([i \in DOMAIN b.sessions |-> b.sessions[i].requested])

\* requestSucceeded, after a request that was neither slow nor overloaded:
\* the session may take more, and when all sessions have had enough
\* successes a time out is forgiven or a session added.  late: enough time
\* has passed since a session was removed.
Grown(b, r) ==
    LET s == b.sessions[r.session]
    IN [b EXCEPT !.sessions[r.session] =
          [s EXCEPT !.maxWaited = IF r.amount = @ /\ @ < MaxWaited THEN @ + 1 ELSE @,
                    !.successes = Min({@ + 1, AddSuccesses * MaxRemoves})]]

NotEnough(b) ==
    \E i \in DOMAIN b.sessions :
        b.sessions[i].successes < (b.removeTimes + 1) * AddSuccesses

NoSuccesses(b) ==
    [b EXCEPT !.sessions = [i \in DOMAIN @ |-> [@[i] EXCEPT !.successes = 0]]]

Rewarded(b, late) ==
    IF NotEnough(b) THEN b
    ELSE LET c == NoSuccesses(b)
         IN IF c.timeouts > 0 THEN [c EXCEPT !.timeouts = @ - 1]
            ELSE IF Len(c.sessions) = MaxSessions \/ (c.removed /\ ~late) THEN c
            ELSE [c EXCEPT !.sessions = Append(@, NewSession)]

Overloaded(b, r) == r.old \/ r.amount > b.sessions[r.session].maxWaited

\* finishSentRequest with the reason Success.
Succeed(r, late) ==
    LET load == Finished(Load, r)
        over == Overloaded(load.balance, r)
    IN [load EXCEPT !.balance = IF over THEN @ ELSE Rewarded(Grown(@, r), late)]

\* What an answer does before it is looked at.  One that took
\* kBadRequestDurationThreshold posts a time out of the session instead.
Answers(r) ==
    {[load |-> Succeed(r, late), posted |-> posted, faults |-> faults] : late \in BOOLEAN}
    \cup {a \in {[load |-> Finished(Load, r), faults |-> faults + 1,
                 posted |-> Append(posted, [op |-> "timedOut", index |-> r.session])]} :
            "slow" \in Faults /\ faults < MaxFaults /\ ~Overloaded(a.load.balance, r)}

-----------------------------------------------------------------------------
(* The queue.                                                              *)

\* Queue::remove: a task is in the queue once.
Without(q, t) ==
    LET at == {k \in DOMAIN q : q[k].task = t}
    IN IF at = {} THEN q ELSE RemoveAt(q, Min(at))

\* Queue::enqueue: before the first task whose priority is not higher.
Enqueued(q, t, p) ==
    LET others == Without(q, t)
        lower == {k \in DOMAIN others : others[k].priority <= p}
    IN InsertAt(others, Min(lower \cup {Len(others) + 1}), [task |-> t, priority |-> p])

ReadyToRequest(t) == status[t] = "loading" /\ next[t] < Parts

\* Queue::nextTask: None if there is no task to ask for a part.
NextTasks(onlyHighest) ==
    {k \in DOMAIN queue :
        /\ ReadyToRequest(queue[k].task)
        /\ onlyHighest /\ queue[1].priority > 0 => queue[k].priority = queue[1].priority}

Send == <<[op |-> "send"]>>

\* trySendNextPart: the session to use, None if all have enough to do.
BestIndex ==
    LET ss == balance.sessions
        best == Smallest([i \in DOMAIN ss |->
            IF ss[i].requested < ss[i].maxWaited THEN ss[i].requested ELSE MaxWaited])
    IN IF ss[best].requested + 1 <= ss[best].maxWaited THEN best ELSE None

\* One turn of the loop of checkSendNext, with loadPart.
SendNextPart ==
    /\ ~failed /\ calls # <<>> /\ Head(calls).op = "send"
    /\ LET tasks == NextTasks(balance.total > 0)
           t == queue[Min(tasks)].task
       IN IF BestIndex = None \/ tasks = {}
          THEN /\ calls' = Tail(calls)
               /\ UNCHANGED <<balance, sent, next, failed>>
          ELSE /\ SetLoad(Placed(Load, t, next[t], BestIndex, PartKind(t)))
               /\ next' = [next EXCEPT ![t] = @ + 1]
               /\ UNCHANGED calls
    /\ UNCHANGED <<queue, resetTimer, status, fed, cdn, hashes, unchecked, posted, faults>>

\* startLoading: addToQueue and DownloadManagerMtproto::enqueue.
Start(t) ==
    /\ Idle /\ status[t] = "new"
    /\ status' = [status EXCEPT ![t] = "loading"]
    /\ queue' = Enqueued(queue, t, Priority[t])
    /\ resetTimer' = TRUE
    /\ calls' = Send
    /\ UNCHANGED <<balance, sent, next, fed, cdn, hashes, unchecked, posted, failed, faults>>

\* resetGeneration: the tasks of this generation are older than new ones.
ResetGeneration ==
    /\ Idle /\ resetTimer
    /\ resetTimer' = FALSE
    /\ queue' = [k \in DOMAIN queue |->
          [queue[k] EXCEPT !.priority = IF @ = 0 THEN -1 ELSE @]]
    /\ failed' = (\E j, k \in DOMAIN queue :
          j < k /\ queue[j].priority = 0 /\ queue[k].priority > 0)
    /\ UNCHANGED <<balance, sent, taskVars, calls, posted, faults>>

-----------------------------------------------------------------------------
(* The answers.                                                            *)

Data(r) == [task |-> r.task, offset |-> r.offset, session |-> r.session]
Asked(r) == Idle /\ r \in sent /\ ~r.refreshing

\* finishSentRequest for all of the requests S, one after another.
FinishAll(load, S) ==
    LET b == load.balance
        ss == [i \in DOMAIN b.sessions |->
                  [b.sessions[i] EXCEPT !.requested = @ - Cardinality({r \in S : r.session = i})]]
        nothing == S # {} /\ \A i \in DOMAIN ss : ss[i].requested <= 0
    IN IF \E r \in S : r.session \notin DOMAIN ss THEN [load EXCEPT !.ok = FALSE]
       ELSE [load EXCEPT !.sent = @ \ S,
                         !.balance = [b EXCEPT !.sessions = ss, !.total = @ - Cardinality(S),
                                               !.kill = @ \/ nothing]]

\* feedPart of mtpFileLoader for the parts os: the last one finishes the
\* file and removes the task from the queue.
Feed(t, os, load, u) ==
    LET done == /\ \A r \in load.sent : r.task # t
                /\ \A o \in Offset : u[o] = None
                /\ next[t] = Parts
    IN /\ fed' = [fed EXCEPT ![t] = @ \cup os]
       /\ status' = IF done THEN [status EXCEPT ![t] = "finished"] ELSE status
       /\ queue' = IF done THEN Without(queue, t) ELSE queue

\* cancelOnFail and cancelHook: cancelAllRequests, after the request for the
\* hashes has posted that they are asked for again.
CancelAll(t, load, later) ==
    /\ SetLoad(FinishAll(load, {r \in load.sent : r.task = t}))
    /\ posted' = IF HashesRequest(load.sent, t) # {} /\ Unchecked(t) # {}
                 THEN Append(later, [op |-> "moreHashes", task |-> t]) ELSE later
    /\ unchecked' = [unchecked EXCEPT ![t] = [o \in Offset |-> None]]
    /\ status' = [status EXCEPT ![t] = "failed"]

\* Mutant: a part that has come does not let the next one be asked for.
PartLoadedOnly(r) ==
    /\ Asked(r) /\ r.kind = "part"
    /\ \E a \in Answers(r) :
        /\ SetLoad(a.load) /\ posted' = a.posted /\ faults' = a.faults
        /\ Feed(r.task, {r.offset}, a.load, unchecked[r.task])
    /\ UNCHANGED <<resetTimer, next, cdn, hashes, unchecked, calls>>

\* normalPartLoaded or webPartLoaded with the bytes of the part.
PartLoaded(r) ==
    /\ Asked(r) /\ r.kind = "part"
    /\ \E a \in Answers(r) :
        /\ SetLoad(a.load) /\ posted' = a.posted /\ faults' = a.faults
        /\ Feed(r.task, {r.offset}, a.load, unchecked[r.task])
    /\ calls' = Send
    /\ UNCHANGED <<resetTimer, next, cdn, hashes, unchecked>>

\* The hashes a server may send along.
GivenHashes == IF "nohash" \in Faults THEN {{}, Offset} ELSE {Offset}

\* changeCDNParams, after the request r has been finished: the other
\* requests are cancelled, then sent again, then the one of r.
ChangeCDNParams(r, load, isCdn, hs, after) ==
    LET others == {q \in load.sent : q.task = r.task}
    IN /\ SetLoad(FinishAll(load, others))
       /\ cdn' = [cdn EXCEPT ![r.task] = isCdn]
       /\ hashes' = [hashes EXCEPT ![r.task] = @ \cup hs]
       /\ calls' = <<[op |-> "resend", todo |-> {Data(q) : q \in others}],
                     [op |-> "resend", todo |-> {Data(r)}]>> \o after

\* normalPartLoaded with upload.fileCdnRedirect.
Redirected(r) ==
    /\ Asked(r) /\ r.kind = "part" /\ Fault("redirect")
    /\ \E a \in Answers(r), hs \in GivenHashes :
        /\ a.faults = faults /\ posted' = a.posted
        /\ ChangeCDNParams(r, a.load, TRUE, hs, Send)
    /\ UNCHANGED <<queue, resetTimer, status, next, fed, unchecked>>

\* One turn of the loop that sends again, in the order of the old ids.
Resend ==
    /\ ~failed /\ calls # <<>> /\ Head(calls).op = "resend"
    /\ \E d \in Head(calls).todo :
        /\ SetLoad(Placed(Load, d.task, d.offset, d.session, PartKind(d.task)))
        /\ calls' = [calls EXCEPT ![1].todo = @ \ {d}]
    /\ UNCHANGED <<queue, resetTimer, taskVars, posted, faults>>

ResendEnds ==
    /\ ~failed /\ calls # <<>> /\ Head(calls).op = "resend" /\ Head(calls).todo = {}
    /\ calls' = Tail(calls)
    /\ UNCHANGED <<balance, sent, queue, resetTimer, taskVars, posted, failed, faults>>

\* cdnPartLoaded with the bytes of a part whose hash is known and agrees.
CdnPartGood(r) ==
    /\ Asked(r) /\ r.kind = "cdn" /\ r.offset \in hashes[r.task]
    /\ \E a \in Answers(r) :
        /\ SetLoad(a.load) /\ posted' = a.posted /\ faults' = a.faults
        /\ Feed(r.task, {r.offset}, a.load, unchecked[r.task])
    /\ calls' = Send
    /\ UNCHANGED <<resetTimer, next, cdn, hashes, unchecked>>

\* The hash does not agree.
CdnPartInvalid(r) ==
    /\ Asked(r) /\ r.kind = "cdn" /\ r.offset \in hashes[r.task] /\ Fault("fatal")
    /\ \E a \in Answers(r) : a.faults = faults /\ CancelAll(r.task, a.load, a.posted)
    /\ calls' = Send
    /\ UNCHANGED <<queue, resetTimer, next, fed, cdn, hashes>>

\* The hash is not known: the part is kept until it is.
CdnPartUnchecked(r) ==
    /\ Asked(r) /\ r.kind = "cdn" /\ r.offset \notin hashes[r.task]
    /\ LET kept == IF unchecked[r.task][r.offset] # None THEN unchecked[r.task]
                   ELSE [unchecked[r.task] EXCEPT ![r.offset] = r.session]
       IN /\ unchecked' = [unchecked EXCEPT ![r.task] = kept]
          /\ \E a \in Answers(r) :
              /\ SetLoad(MoreHashes(a.load, r.task, kept))
              /\ posted' = a.posted /\ faults' = a.faults
    /\ calls' = Send
    /\ UNCHANGED <<queue, resetTimer, status, next, fed, cdn, hashes>>

\* cdnPartLoaded with upload.cdnFileReuploadNeeded.
ReuploadNeeded(r) ==
    /\ Asked(r) /\ r.kind = "cdn" /\ Fault("reupload")
    /\ SetLoad(Placed(Finished(Load, r), r.task, r.offset, r.session, "reupload"))
    /\ UNCHANGED <<queue, resetTimer, taskVars, calls, posted>>

\* reuploadDone.
ReuploadDone(r) ==
    /\ Asked(r) /\ r.kind = "reupload"
    /\ \E hs \in GivenHashes : hashes' = [hashes EXCEPT ![r.task] = @ \cup hs]
    /\ SetLoad(Placed(Finished(Load, r), r.task, r.offset, r.session, PartKind(r.task)))
    /\ UNCHANGED <<queue, resetTimer, status, next, fed, cdn, unchecked, calls, posted, faults>>

\* getCdnFileHashesDone: the parts whose hashes have come are written.  No
\* other part is asked for unless the file is finished.
HashesDone(r) ==
    /\ Asked(r) /\ r.kind = "hashes"
    /\ \E hs \in {{r.offset}, Offset} :
        LET t == r.task
            known == hashes[t] \cup hs
            good == Unchecked(t) \cap known
            left == [o \in Offset |-> IF o \in known THEN None ELSE unchecked[t][o]]
        IN /\ hashes' = [hashes EXCEPT ![t] = known]
           /\ unchecked' = [unchecked EXCEPT ![t] = left]
           /\ SetLoad(MoreHashes(Finished(Load, r), t, left))
           /\ Feed(t, good, Finished(Load, r), left)
           /\ calls' = IF status'[t] = "finished" THEN Send ELSE <<>>
    /\ UNCHANGED <<resetTimer, next, cdn, posted, faults>>

\* normalPartFailed with FILE_REFERENCE_*: the request stays in
\* _sentRequests until the reference is refreshed.
RefuseReference(r) ==
    /\ Asked(r) /\ r.kind = "part" /\ Fault("reference")
    /\ sent' = (sent \ {r}) \cup {[r EXCEPT !.refreshing = TRUE]}
    /\ UNCHANGED <<balance, queue, resetTimer, taskVars, calls, posted, failed>>

\* refreshFileReferenceFrom.
Refreshed(r) ==
    /\ Idle /\ r \in sent /\ r.refreshing
    /\ SetLoad(Placed(Finished(Load, r), r.task, r.offset, r.session, PartKind(r.task)))
    /\ UNCHANGED <<queue, resetTimer, taskVars, calls, posted, faults>>

\* cdnPartFailed with FILE_TOKEN_INVALID or REQUEST_TOKEN_INVALID.
RefuseToken(r) ==
    /\ Asked(r) /\ r.kind # "part"
    /\ Fault(IF HashesRequest(sent, r.task) = {} THEN "token" ELSE "staleToken")
    /\ ChangeCDNParams(r, Finished(Load, r), FALSE, {}, <<>>)
    /\ UNCHANGED <<queue, resetTimer, status, next, fed, unchecked, posted>>

\* partFailed, and hashes that do not cover any unchecked part.
Refuse(r) ==
    /\ Asked(r) /\ Fault("fatal")
    /\ CancelAll(r.task, Load, posted)
    /\ UNCHANGED <<queue, resetTimer, next, fed, cdn, hashes, calls>>

\* FileLoader::cancel by its owner.
Cancel(t) ==
    /\ Idle /\ status[t] = "loading" /\ Fault("cancel")
    /\ CancelAll(t, Load, posted)
    /\ UNCHANGED <<queue, resetTimer, next, fed, cdn, hashes, calls>>

\* The owner of a loader that failed deletes it.
Destroy(t) ==
    /\ Idle /\ status[t] = "failed"
    /\ status' = [status EXCEPT ![t] = "gone"]
    /\ queue' = Without(queue, t)
    /\ calls' = Send
    /\ UNCHANGED <<balance, resetTimer, sent, next, fed, cdn, hashes, unchecked, posted,
                   failed, faults>>

-----------------------------------------------------------------------------
(* The sessions.                                                           *)

LastIndex == Len(balance.sessions)
Big == MaxWaited * MaxSessions

\* Mutant: a session being removed may be chosen for what it gives away.
RemovingAtOnce(b) ==
    [b EXCEPT !.timeouts = 0,
              !.removeTimes = IF b.removeIndex = LastIndex THEN Min({@ + 1, MaxRemoves}) ELSE 1,
              !.removeIndex = LastIndex]

\* removeSession up to Queue::removeSession, which the calls are for.
Removing(b) ==
    [b EXCEPT !.timeouts = 0,
              !.removeTimes = IF b.removeIndex = LastIndex THEN Min({@ + 1, MaxRemoves}) ELSE 1,
              !.removeIndex = LastIndex,
              !.sessions[LastIndex].requested = @ + Big]

RemovalCalls ==
    [k \in 1 .. 2 * Len(queue) + 1 |->
        IF k > 2 * Len(queue) THEN [op |-> "pop"]
        ELSE [op |-> IF k % 2 = 1 THEN "recheck" ELSE "redirect",
              task |-> queue[(k + 1) \div 2].task]]

\* Mutant: the last session is removed as well.
SessionTimedOutLast(i) ==
    LET b == NoSuccesses(balance)
    IN IF i \notin DOMAIN balance.sessions THEN UNCHANGED <<balance, calls>>
       ELSE IF b.timeouts + 1 < RemoveTimeouts
            THEN balance' = [b EXCEPT !.timeouts = @ + 1] /\ UNCHANGED calls
       ELSE balance' = Removing(b) /\ calls' = RemovalCalls

\* sessionTimedOut.
SessionTimedOut(i) ==
    LET b == NoSuccesses(balance)
    IN IF i \notin DOMAIN balance.sessions THEN UNCHANGED <<balance, calls>>
       ELSE IF LastIndex = StartSessions THEN balance' = b /\ UNCHANGED calls
       ELSE IF b.timeouts + 1 < RemoveTimeouts
            THEN balance' = [b EXCEPT !.timeouts = @ + 1] /\ UNCHANGED calls
       ELSE balance' = Removing(b) /\ calls' = RemovalCalls

\* The connection of a session restarts because the server does not answer:
\* the shift of its data centre id is passed as the index.
RestartedByTimeout(i) ==
    /\ Idle /\ i \in DOMAIN balance.sessions /\ Fault("restart")
    /\ SessionTimedOut(BaseDownloadDcShift + i)
    /\ UNCHANGED <<queue, resetTimer, sent, taskVars, posted, failed>>

RunPosted ==
    /\ Idle /\ posted # <<>>
    /\ posted' = Tail(posted)
    /\ LET p == Head(posted)
       IN \/ /\ p.op = "timedOut"
             /\ SessionTimedOut(p.index)
             /\ UNCHANGED <<sent, failed>>
          \/ /\ p.op = "moreHashes" /\ status[p.task] # "gone"
             /\ SetLoad(MoreHashes(Load, p.task, unchecked[p.task]))
             /\ UNCHANGED calls
          \/ /\ p.op = "moreHashes" /\ status[p.task] = "gone"
             /\ UNCHANGED <<balance, sent, failed, calls>>
    /\ UNCHANGED <<queue, resetTimer, taskVars, faults>>

\* DownloadMtprotoTask::removeSession, the unchecked parts.
Recheck ==
    /\ ~failed /\ calls # <<>> /\ Head(calls).op = "recheck"
    /\ LET t == Head(calls).task
           new == ChooseSessionIndex(balance)
           moved == {o \in Offset : unchecked[t][o] = LastIndex}
       IN /\ unchecked' = [unchecked EXCEPT ![t] =
                [o \in Offset |-> IF o \in moved THEN new ELSE @[o]]]
          /\ failed' = (moved # {} /\ new >= LastIndex)
    /\ calls' = Tail(calls)
    /\ UNCHANGED <<balance, sent, queue, resetTimer, status, next, fed, cdn, hashes,
                   posted, faults>>

\* Mutant: a request for hashes is cancelled and never made again.
RedirectSilently ==
    /\ ~failed /\ calls # <<>> /\ Head(calls).op = "redirect"
    /\ \E r \in Of(Head(calls).task) :
        LET load == Finished(Load, r)
            new == ChooseSessionIndex(load.balance)
        IN /\ r.session = LastIndex
           /\ IF r.kind = "hashes" THEN SetLoad(load)
              ELSE SetLoad([Placed(load, r.task, r.offset, new, PartKind(r.task))
                            EXCEPT !.ok = @ /\ new < LastIndex])
    /\ UNCHANGED <<queue, resetTimer, taskVars, calls, posted, faults>>

\* The requests, in the order of their ids: each is cancelled, and sent in
\* another session unless it asks for hashes.
Redirect ==
    /\ ~failed /\ calls # <<>> /\ Head(calls).op = "redirect"
    /\ \E r \in Of(Head(calls).task) :
        LET load == Finished(Load, r)
            new == ChooseSessionIndex(load.balance)
        IN /\ r.session = LastIndex
           /\ IF r.kind = "hashes"
              THEN /\ SetLoad(load)
                   /\ posted' = IF Unchecked(r.task) = {} THEN posted
                                ELSE Append(posted, [op |-> "moreHashes", task |-> r.task])
              ELSE /\ SetLoad([Placed(load, r.task, r.offset, new, PartKind(r.task))
                                EXCEPT !.ok = @ /\ new < LastIndex])
                   /\ UNCHANGED posted
    /\ UNCHANGED <<queue, resetTimer, taskVars, calls, faults>>

RedirectEnds ==
    /\ ~failed /\ calls # <<>> /\ Head(calls).op = "redirect"
    /\ \A r \in Of(Head(calls).task) : r.session # LastIndex
    /\ calls' = Tail(calls)
    /\ UNCHANGED <<balance, sent, queue, resetTimer, taskVars, posted, failed, faults>>

\* The end of removeSession: what was sent before counts as overloaded.
PopSession ==
    /\ ~failed /\ calls # <<>> /\ Head(calls).op = "pop"
    /\ failed' = (balance.sessions[LastIndex].requested # Big)
    /\ balance' = [balance EXCEPT !.sessions = Front(@), !.removed = TRUE]
    /\ sent' = {[r EXCEPT !.old = TRUE] : r \in sent}
    /\ calls' = Tail(calls)
    /\ UNCHANGED <<queue, resetTimer, taskVars, posted, faults>>

\* killSessions, kKillSessionTimeout after the last request has ended.
KillSessions ==
    /\ Idle /\ balance.kill
    /\ failed' = (\/ balance.total # 0
                  \/ \E i \in 1 .. LastIndex : balance.sessions[i].requested # 0)
    /\ balance' = [NewBalance EXCEPT !.sessions = [i \in 1 .. LastIndex |-> NewSession]]
    /\ UNCHANGED <<queue, resetTimer, sent, taskVars, calls, posted, faults>>

-----------------------------------------------------------------------------
GoodAnswer(r) ==
    \/ PartLoaded(r) \/ CdnPartGood(r) \/ CdnPartUnchecked(r)
    \/ ReuploadDone(r) \/ HashesDone(r) \/ Refreshed(r)

BadAnswer(r) ==
    \/ Redirected(r) \/ CdnPartInvalid(r) \/ ReuploadNeeded(r)
    \/ RefuseReference(r) \/ RefuseToken(r) \/ Refuse(r)

\* The main thread goes on with the event it is handling.
Continue ==
    SendNextPart \/ Resend \/ ResendEnds \/ Recheck \/ Redirect \/ RedirectEnds \/ PopSession

Next ==
    \/ Continue \/ RunPosted \/ ResetGeneration \/ KillSessions
    \/ \E t \in Task : Start(t) \/ Cancel(t) \/ Destroy(t)
    \/ \E r \in sent : GoodAnswer(r) \/ BadAnswer(r)
    \/ \E i \in Index : RestartedByTimeout(i)

Spec == Init /\ [][Next]_vars

\* Events are handled, the owner deletes what failed, and MTP::Instance
\* answers each request.
FairSpec ==
    /\ Spec
    /\ WF_vars(Continue) /\ WF_vars(RunPosted)
    /\ \A t \in Task : WF_vars(Destroy(t))
    /\ \A t \in Task, o \in Offset :
          WF_vars(\E r \in sent : r.task = t /\ r.offset = o /\ GoodAnswer(r))

-----------------------------------------------------------------------------
TypeOK ==
    /\ balance.sessions \in Seq([requested: Nat, successes: 0 .. AddSuccesses * MaxRemoves,
                                 maxWaited: StartWaited .. MaxWaited])
    /\ Len(balance.sessions) \in StartSessions .. MaxSessions
    /\ balance.total \in Nat /\ balance.timeouts \in 0 .. RemoveTimeouts - 1
    /\ balance.removeTimes \in 0 .. MaxRemoves /\ balance.removeIndex \in 0 .. MaxSessions
    /\ balance.removed \in BOOLEAN /\ balance.kill \in BOOLEAN
    /\ queue \in Seq([task: Task, priority: Int]) /\ resetTimer \in BOOLEAN
    /\ sent \subseteq Request
    /\ status \in [Task -> {"new", "loading", "finished", "failed", "gone"}]
    /\ next \in [Task -> 0 .. Parts] /\ fed \in [Task -> SUBSET Offset]
    /\ cdn \in [Task -> BOOLEAN] /\ hashes \in [Task -> SUBSET Offset]
    /\ unchecked \in [Task -> [Offset -> {None} \cup Index]]
    /\ failed \in BOOLEAN /\ faults \in 0 .. MaxFaults

(* Every Assert and Ensures of the manager and of the task holds: a request
   is placed in a session there is and at an offset nothing is asked for,
   a removed session has given all its requests to the others, and sessions
   are only killed when nothing is asked for. *)
AssertsHold == ~failed

(* The amounts the balance of the sessions is based on are those of the
   requests that are sent, in a session that has not been removed, and of
   tasks the removal of a session reaches through the queue. *)
AmountsAgree ==
    Idle =>
        /\ \A i \in 1 .. LastIndex : balance.sessions[i].requested =
              Cardinality({r \in sent : r.session = i})
        /\ balance.total = Cardinality(sent)
        /\ \A r \in sent : r.session <= LastIndex
        /\ {r.task : r \in sent} \subseteq {queue[k].task : k \in DOMAIN queue}

(* Each part a task has taken to be loaded is in the file, asked for, or
   kept until its hash is known, and then the hash is asked for or about to
   be; a file is finished only with all its parts. *)
PartsAccounted ==
    Idle => \A t \in Task :
        /\ status[t] = "loading" => 0 .. next[t] - 1 \subseteq
              fed[t] \cup Unchecked(t) \cup {r.offset : r \in Of(t)}
        /\ Unchecked(t) # {} =>
              \/ HashesRequest(sent, t) # {}
              \/ \E k \in DOMAIN posted : posted[k] = [op |-> "moreHashes", task |-> t]
        /\ status[t] = "finished" => fed[t] = Offset

(* Both: what the sessions and the tasks count is what is asked for. *)
RequestsAccounted == AmountsAgree /\ PartsAccounted

(* A download that has begun is finished, or fails and is deleted. *)
EveryDownloadEnds ==
    \A t \in Task : status[t] = "loading" ~> status[t] \in {"finished", "gone"}
=============================================================================
