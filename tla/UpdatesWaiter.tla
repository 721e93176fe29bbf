---------------------------- MODULE UpdatesWaiter ----------------------------
(***************************************************************************)
(* How the client keeps up with the server's numbered updates: a PtsWaiter *)
(* (data/data_pts_waiter.cpp) and the parts of Api::Updates that load a    *)
(* difference for it (api/api_updates.cpp).  There is one waiter for the   *)
(* account and one for each channel; `kind' says which of the two this is. *)
(*                                                                         *)
(* All of it runs on the main thread, so each handler is one step.  What   *)
(* is hard is what comes between: updates overtake each other, are lost    *)
(* or arrive while a difference is on its way.                             *)
(*                                                                         *)
(* The server is external: its log is a series of updates, each of which   *)
(* moves its pts on by a count, and it tells the client each of them once. *)
(***************************************************************************)
EXTENDS Naturals, FiniteSets

CONSTANTS
    Kinds,       \* whose waiter: "account" or "channel"
    Sources,     \* where updates come from, see Source
    Counts,      \* how many events one update may stand for
    MaxPts,      \* bound: the last pts of the server
    MaxFaults    \* bound: failed and forced differences

Source ==
    {"push",       \* sent by the server
     "result",     \* in the result of a request of this client
     "affected",   \* what a request of this client did, as pts and count only
     "received"}   \* the pts of a channel, that came with other data
ASSUME KindsAssumption == Kinds # {} /\ Kinds \subseteq {"account", "channel"}
ASSUME SourcesAssumption == Sources \subseteq Source
ASSUME CountsAssumption == Counts \subseteq Nat
ASSUME BoundsAssumption == MaxPts \in Nat \ {0} /\ MaxFaults \in Nat

VARIABLES
    kind,
    \* PtsWaiter
    good,        \* _good, 0 until inited
    last,        \* _last
    count,       \* _count
    queue,       \* _queue, _updateQueue and _updatesQueue
    requesting,  \* _requesting
    waiting,     \* _waitingForSkipped
    shortPoll,   \* _waitingForShortPoll
    \* Api::Updates
    byPts,       \* _getDifferenceTimeByPts or the entry of _whenGetDiffByPts is set
    afterFail,   \* the same of _getDifferenceTimeAfterFail, _whenGetDiffAfterFail
    active,      \* the channel is in _activeChats
    diff,        \* the request of a difference, or of the first state
    \* the server and the network
    log,         \* all updates of the server
    serverPts,
    net,         \* updates on their way, in any order
    faults,
    \* history
    start,       \* the pts the waiter was inited with
    applied,     \* updates that were applied
    again        \* updates that were applied more than once

gapVars == <<good, last, count, queue>>
timerVars == <<waiting, shortPoll, byPts>>
historyVars == <<start, applied, again>>
serverVars == <<log, serverPts, faults>>
vars == <<kind, gapVars, requesting, timerVars, afterFail, active, diff, serverVars, net, historyVars>>

Update == [pts : Nat, count : Nat, source : Source]
NoDiff == [stage |-> "none", from |-> 0, to |-> 0]

Fault == faults < MaxFaults /\ faults' = faults + 1

-----------------------------------------------------------------------------
(* PtsWaiter. *)

Inited == good > 0
Max2(a, b) == IF a < b THEN b ELSE a

Apply(S) ==
    /\ applied' = applied \cup S
    /\ again' = again \cup (applied \cap S)

\* init(): what was before is loaded with the history, not by updates.
InitPts(pts) ==
    /\ good' = pts /\ last' = pts /\ count' = pts
    /\ queue' = {}
    /\ start' = IF Inited THEN start ELSE pts

\* Mutants of IsOld: the update is not compared, or one that counts nothing is.
NeverOld(pts, n) == FALSE
\* updated(): an update that was counted already.
IsOld(pts, n) == pts <= good /\ n > 0

\* Mutant of NoGap: an update that goes beyond the count is taken for the next.
GapIgnored(pts, n) == Max2(last, pts) >= count + n
\* check(): with this update all up to _last have come.
NoGap(pts, n) == Max2(last, pts) = count + n

QueueAfterApply == {}

\* Mutant of StartWaiting: no timer is started.
WaitingWithoutTimer == waiting' = TRUE /\ byPts' = byPts
\* setWaitingForSkipped with a delay, and with -1.
StartWaiting == waiting' = TRUE /\ byPts' = TRUE
StopWaiting(armed) == waiting' = FALSE /\ byPts' = (armed /\ shortPoll)

Counted(pts, n) == last' = Max2(last, pts) /\ count' = count + n

\* updateAndApply(pts, count, update), both kinds.
UpdateAndApply(u) ==
    \/ requesting
       /\ Apply({u})
       /\ UNCHANGED <<gapVars, timerVars, start>>
    \/ ~requesting /\ IsOld(u.pts, u.count)
       /\ UNCHANGED <<gapVars, timerVars, historyVars>>
    \/ /\ ~requesting /\ ~Inited /\ ~IsOld(u.pts, u.count)
       /\ InitPts(u.pts)
       /\ Apply({u})
       /\ UNCHANGED timerVars
    \/ /\ ~requesting /\ Inited /\ ~IsOld(u.pts, u.count) /\ NoGap(u.pts, u.count)
       /\ Counted(u.pts, u.count) /\ good' = last'
       /\ IF waiting /\ queue # {}
          THEN Apply(queue \cup {u}) /\ queue' = QueueAfterApply /\ StopWaiting(byPts)
          ELSE Apply({u}) /\ UNCHANGED <<queue, waiting, byPts>>
       /\ UNCHANGED <<shortPoll, start>>
    \/ /\ ~requesting /\ Inited /\ ~IsOld(u.pts, u.count) /\ ~NoGap(u.pts, u.count)
       /\ Counted(u.pts, u.count) /\ UNCHANGED good
       /\ IF u.count > 0
          THEN queue' = queue \cup {u} /\ StartWaiting /\ UNCHANGED <<applied, again>>
          ELSE IF queue = {}
          THEN Apply({u}) /\ UNCHANGED queue /\ StartWaiting
          ELSE Apply(queue \cup {u}) /\ queue' = QueueAfterApply /\ StopWaiting(TRUE)
       /\ UNCHANGED <<shortPoll, start>>

\* applySkippedUpdates(), with nothing else to apply but `done'.
ApplySkipped(done) ==
    IF waiting
    THEN Apply(queue \cup done) /\ queue' = QueueAfterApply /\ StopWaiting(byPts)
    ELSE Apply(done) /\ UNCHANGED <<queue, waiting, byPts>>

\* updateAndApply(pts, count): `done' is what the request has changed already.
UpdateAndApplyCount(pts, n, done) ==
    \/ requesting
       /\ ApplySkipped(done)
       /\ UNCHANGED <<good, last, count, shortPoll, start>>
    \/ ~requesting /\ IsOld(pts, n)
       /\ Apply(done)
       /\ UNCHANGED <<gapVars, timerVars, start>>
    \/ /\ ~requesting /\ ~Inited /\ ~IsOld(pts, n)
       /\ InitPts(pts)
       /\ Apply(done)
       /\ IF waiting THEN StopWaiting(byPts) ELSE UNCHANGED <<waiting, byPts>>
       /\ UNCHANGED shortPoll
    \/ /\ ~requesting /\ Inited /\ ~IsOld(pts, n) /\ NoGap(pts, n)
       /\ Counted(pts, n) /\ good' = last'
       /\ ApplySkipped(done)
       /\ UNCHANGED <<shortPoll, start>>
    \/ /\ ~requesting /\ Inited /\ ~IsOld(pts, n) /\ ~NoGap(pts, n)
       /\ Counted(pts, n) /\ UNCHANGED good
       /\ IF n > 0
          THEN Apply(done) /\ UNCHANGED queue /\ StartWaiting
          ELSE Apply(queue \cup done) /\ queue' = QueueAfterApply /\ StopWaiting(TRUE)
       /\ UNCHANGED <<shortPoll, start>>

-----------------------------------------------------------------------------
(* Api::Updates: updates. *)

DiffFrame == UNCHANGED <<requesting, afterFail, diff>>

\* Mutant of InRequest: a difference is asked for and updates go on.
NotInRequest == FALSE
\* setRequesting(true).
InRequest == TRUE

\* getDifference and getChannelDifference, up to the early return: a channel
\* that is not inited asks for nothing.
AskForDifference ==
    /\ byPts' = FALSE
    /\ IF requesting \/ ~Inited
       THEN UNCHANGED <<queue, requesting, afterFail, diff>>
       ELSE /\ requesting' = InRequest
            /\ queue' = {}
            /\ afterFail' = FALSE
            /\ diff' = [stage |-> "sent", from |-> good, to |-> good]

Took(u) == u \in net /\ net' = net \ {u}

\* mtpUpdateReceived and feedUpdate: updates are ignored while a difference is
\* loaded, except those in a result, which only a channel ignores.
Ignored(u) == requesting /\ ~(kind = "account" /\ u.source = "result")

ReceiveUpdate(u) ==
    /\ u.source \in {"push", "result"} /\ Took(u)
    /\ IF Ignored(u) THEN UNCHANGED <<gapVars, timerVars, historyVars>>
       ELSE UpdateAndApply(u)
    /\ DiffFrame
    /\ UNCHANGED <<kind, active, serverVars>>

\* An update about somebody who is not loaded.
UnknownPeer(u) ==
    /\ kind = "account" /\ u.source \in {"push", "result"} /\ Took(u) /\ ~requesting
    /\ Fault
    /\ AskForDifference
    /\ UNCHANGED <<kind, good, last, count, waiting, shortPoll, active, log, serverPts, historyVars>>

\* ApiWrap::applyAffectedMessages and applyAffectedHistory.
ApplyAffected(u) ==
    /\ u.source = "affected" /\ Took(u)
    /\ UpdateAndApplyCount(u.pts, u.count, {u})
    /\ DiffFrame
    /\ UNCHANGED <<kind, active, serverVars>>

\* ChannelData::ptsReceived, with a part of the history or the dialog.
PtsReceived ==
    /\ kind = "channel"
    /\ Inited => "received" \in Sources
    /\ UpdateAndApplyCount(serverPts, 0, {})
    /\ DiffFrame
    /\ UNCHANGED <<kind, active, serverVars, net>>

\* new_session_created, updatesTooLong, updateChannelTooLong.
TooLong ==
    /\ Fault
    /\ AskForDifference
    /\ UNCHANGED <<kind, good, last, count, waiting, shortPoll, active, log, serverPts, net, historyVars>>

-----------------------------------------------------------------------------
(* Api::Updates: differences. *)

\* getDifferenceByPts, when its time has come.
GetDifferenceByPts ==
    /\ byPts
    /\ AskForDifference
    /\ UNCHANGED <<kind, good, last, count, waiting, shortPoll, active, serverVars, net, historyVars>>

\* getDifferenceAfterFail: _requesting is cleared and set again.
GetDifferenceAfterFail ==
    /\ afterFail
    /\ afterFail' = FALSE
    /\ byPts' = FALSE
    /\ queue' = {}
    /\ diff' = [stage |-> "sent", from |-> good, to |-> good]
    /\ UNCHANGED <<kind, good, last, count, requesting, waiting, shortPoll, active, serverVars, net,
                   historyVars>>

\* Mutant of TryAgain: a difference that failed is given up.
GiveUp == FALSE
\* failDifferenceStartTimerFor.
TryAgain == TRUE

\* differenceFail, channelDifferenceFail.
DifferenceFail ==
    /\ diff.stage = "sent" /\ Fault
    /\ diff' = NoDiff
    /\ afterFail' = TryAgain
    /\ UNCHANGED <<kind, gapVars, requesting, timerVars, active, log, serverPts, net, historyVars>>

\* The updates a difference brings.
Brought == {u \in log : u.count > 0 /\ diff.from < u.pts /\ u.pts <= diff.to}

\* stateDone: the answer to the request the account starts with.
StateDone ==
    /\ diff.stage = "state"
    /\ InitPts(diff.to)
    /\ requesting' = FALSE
    /\ diff' = NoDiff
    /\ UNCHANGED <<kind, timerVars, afterFail, active, serverVars, net, applied, again>>

\* differenceDone and channelDifferenceDone: a slice is followed by the next.
DifferenceSlice ==
    /\ diff.stage = "slice"
    /\ Apply(Brought)
    /\ InitPts(diff.to)
    /\ byPts' = FALSE /\ afterFail' = FALSE
    /\ diff' = [stage |-> "sent", from |-> diff.to, to |-> diff.to]
    /\ UNCHANGED <<kind, requesting, waiting, shortPoll, active, serverVars, net>>

DifferenceDone ==
    /\ diff.stage = "final"
    /\ Apply(Brought)
    /\ InitPts(diff.to)
    /\ requesting' = FALSE
    /\ diff' = NoDiff
    /\ IF kind = "account" THEN UNCHANGED <<shortPoll, byPts>>
       ELSE /\ shortPoll' = active
            /\ byPts' = (active \/ (waiting /\ byPts))
    /\ UNCHANGED <<kind, waiting, afterFail, active, serverVars, net>>

\* addActiveChat: an open channel is asked about from time to time.
ToggleChat ==
    /\ kind = "channel"
    /\ active' = ~active
    /\ shortPoll' = ~active
    /\ byPts' = (~active \/ (waiting /\ byPts))
    /\ UNCHANGED <<kind, gapVars, requesting, waiting, afterFail, diff, serverVars, net, historyVars>>

-----------------------------------------------------------------------------
(* The server, external. *)

\* Something happens; zero counts are what the server sends with an unchanged pts.
ServerAdds(n, source) ==
    /\ serverPts + n <= MaxPts
    /\ LET u == [pts |-> serverPts + n, count |-> n, source |-> source] IN
       /\ u \notin log
       /\ log' = log \cup {u}
       /\ net' = net \cup {u}
    /\ serverPts' = serverPts + n
    /\ UNCHANGED <<kind, gapVars, requesting, timerVars, afterFail, active, diff, faults, historyVars>>

\* It answers with all there is, or with a part that ends where an update does.
ServerAnswers ==
    /\ diff.stage = "sent"
    /\ \/ diff' = [diff EXCEPT !.stage = "final", !.to = serverPts]
       \/ \E u \in log :
            /\ u.count > 0 /\ diff.from < u.pts /\ u.pts < serverPts
            /\ diff' = [diff EXCEPT !.stage = "slice", !.to = u.pts]
    /\ UNCHANGED <<kind, gapVars, requesting, timerVars, afterFail, active, serverVars, net, historyVars>>

ServerAnswersState ==
    /\ diff.stage = "sentState"
    /\ diff' = [diff EXCEPT !.stage = "state", !.to = serverPts]
    /\ UNCHANGED <<kind, gapVars, requesting, timerVars, afterFail, active, serverVars, net, historyVars>>

-----------------------------------------------------------------------------
Init ==
    /\ kind \in Kinds
    /\ good = 0 /\ last = 0 /\ count = 0 /\ queue = {}
    /\ requesting = (kind = "account")
    /\ waiting = FALSE /\ shortPoll = FALSE /\ byPts = FALSE /\ afterFail = FALSE
    /\ active = FALSE
    /\ diff = IF kind = "account" THEN [NoDiff EXCEPT !.stage = "sentState"] ELSE NoDiff
    /\ log = {} /\ serverPts = 1 /\ net = {} /\ faults = 0
    /\ start = 0 /\ applied = {} /\ again = {}

Next ==
    \/ \E u \in net : ReceiveUpdate(u) \/ UnknownPeer(u) \/ ApplyAffected(u)
    \/ PtsReceived \/ TooLong \/ GetDifferenceByPts \/ GetDifferenceAfterFail \/ DifferenceFail
    \/ StateDone \/ DifferenceSlice \/ DifferenceDone \/ ToggleChat
    \/ \E n \in Counts, source \in Sources \ {"received"} : ServerAdds(n, source)
    \/ ServerAnswers \/ ServerAnswersState

Spec == Init /\ [][Next]_vars

\* Timers fire, requests are answered and answers are handled.  An update need
\* never arrive.
Fairness ==
    /\ WF_vars(GetDifferenceByPts) /\ WF_vars(GetDifferenceAfterFail)
    /\ WF_vars(ServerAnswers) /\ WF_vars(ServerAnswersState)
    /\ WF_vars(StateDone) /\ WF_vars(DifferenceSlice) /\ WF_vars(DifferenceDone)
FairSpec == Spec /\ Fairness

-----------------------------------------------------------------------------
(* Properties. *)

\* Each variable has its type; no counter runs ahead of the server.
TypeOK ==
    /\ kind \in Kinds
    /\ good \in 0 .. MaxPts /\ last \in 0 .. MaxPts /\ count \in 0 .. MaxPts
    /\ queue \subseteq Update
    /\ requesting \in BOOLEAN /\ waiting \in BOOLEAN /\ shortPoll \in BOOLEAN
    /\ byPts \in BOOLEAN /\ afterFail \in BOOLEAN /\ active \in BOOLEAN
    /\ diff \in [stage : {"none", "sentState", "state", "sent", "slice", "final"},
                 from : Nat, to : Nat]
    /\ log \subseteq Update /\ net \subseteq log
    /\ serverPts \in 1 .. MaxPts /\ faults \in 0 .. MaxFaults
    /\ start \in 0 .. MaxPts /\ applied \subseteq log /\ again \subseteq applied

\* What the server did between two states of its pts.
Between(from, to) == {u \in log : u.count > 0 /\ from < u.pts /\ u.pts <= to}

\* The comparison of two sums tells that nothing is missing: what the client
\* believes to have (PtsWaiter::current, where the next difference starts) was
\* applied, however updates and differences overtook each other.
NoUpdateMissed == Between(start, good) \subseteq applied

\* The order of the log: an update that was sent is applied after all before it.
AppliedInOrder == \A u \in applied : u.source = "push" =>
    Between(start, u.pts) \subseteq applied

\* ... and not again, by the queue and a difference both.
AppliedOnce == \A u \in again : u.source # "push"

\* The three: the log is applied without a hole, in its order and once.
LogIsApplied == NoUpdateMissed /\ AppliedInOrder /\ AppliedOnce

\* Updates are kept only behind a gap that is waited for, and are not applied yet.
QueueIsBehindGap == queue # {} =>
    /\ waiting /\ ~requesting /\ count < last
    /\ \A u \in queue : good < u.pts /\ u \notin applied

\* "1s wait for skipped seq or pts in updates." (data_pts_waiter.h:23): while
\* the client knows that something is missing, a difference is asked for or a
\* timer will ask.
GapIsWatched == Inited /\ count # last => byPts \/ requesting

\* A gap keeps what comes behind it and is waited for.
GapIsHandled == QueueIsBehindGap /\ GapIsWatched

\* The pts is never set back, by an update or by a difference that was asked for
\* earlier.
GoodNeverGoesBack == [][good' >= good]_vars

\* What the client knows to have happened it applies in the end, though neither
\* the missing update nor any other need ever arrive.
GapCloses == \A k \in 1 .. MaxPts : (Inited /\ last >= k) ~> (good >= k)
=============================================================================
