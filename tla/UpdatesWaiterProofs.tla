------------------------ MODULE UpdatesWaiterProofs ------------------------
(***************************************************************************)
(* What holds of a PtsWaiter and its differences for every series of       *)
(* updates and every number of faults.                                     *)
(*                                                                         *)
(* The argument is about who may move _good.  While no difference is asked *)
(* for it is an update, that takes _good to _last, and _last only grows.   *)
(* While one is, updates leave the counts alone (_requesting), so that the *)
(* difference ends at or after the pts it was asked from.                  *)
(***************************************************************************)
EXTENDS UpdatesWaiter, FiniteSetTheorems, TLAPS

Stages == {"none", "sentState", "state", "sent", "slice", "final"}
Diff == [stage : Stages, from : Nat, to : Nat]

\* The counts are bounded by the server's, and so is all it has sent.
CountsInv ==
    /\ kind \in Kinds
    /\ good \in Nat /\ last \in Nat /\ count \in Nat /\ serverPts \in Nat
    /\ good <= last /\ last <= serverPts
    /\ log \subseteq Update /\ net \subseteq log
    /\ \A u \in log : u.pts <= serverPts /\ u.count \in Counts

\* A difference is loaded with _requesting set, and ends no earlier than it starts.
DiffInv ==
    /\ requesting \in BOOLEAN /\ afterFail \in BOOLEAN
    /\ diff \in Diff
    /\ diff.stage # "none" => requesting
    /\ diff.stage \in {"sent", "slice", "final"} => diff.from = good
    /\ diff.stage \in {"slice", "final"} => good <= diff.to
    /\ diff.stage \in {"sentState", "state"} => good = 0
    /\ diff.to <= serverPts
    /\ afterFail => requesting /\ diff.stage = "none"

\* Nobody but the timer that is waited for has to ask for what is missing.
WatchInv ==
    /\ waiting \in BOOLEAN /\ byPts \in BOOLEAN
    /\ Inited /\ count # last => requesting \/ (byPts /\ waiting)

IInv == CountsInv /\ DiffInv

\* What a step of the waiter may do to the counts.
GoodMoves ==
    /\ good' \in Nat /\ last' \in Nat /\ count' \in Nat
    /\ good <= good' /\ good' <= last'
    /\ last' <= serverPts
    /\ requesting => good' = good

-----------------------------------------------------------------------------
\* A request or an answer, field by field.
IsDiff(d, stage, from, to) ==
    d \in Diff /\ d.stage = stage /\ d.from = from /\ d.to = to

LEMMA NewDiff ==
    ASSUME NEW stage \in Stages, NEW from \in Nat, NEW to \in Nat
    PROVE  IsDiff([stage |-> stage, from |-> from, to |-> to], stage, from, to)
BY DEF IsDiff, Diff

LEMMA AnsweredDiff ==
    ASSUME NEW d \in Diff, NEW stage \in Stages, NEW to \in Nat
    PROVE  IsDiff([d EXCEPT !.stage = stage, !.to = to], stage, d.from, to)
BY DEF IsDiff, Diff

LEMMA DiffType ==
    ASSUME NEW d \in Diff
    PROVE  d.stage \in Stages /\ d.from \in Nat /\ d.to \in Nat
BY DEF Diff

\* After a request and with none.
LEMMA SentDiff ==
    ASSUME requesting' = TRUE, afterFail' = FALSE, IsDiff(diff', "sent", good', good'),
           good' <= serverPts'
    PROVE  DiffInv'
BY DEF IsDiff, DiffInv

LEMMA NoneDiff ==
    ASSUME requesting' \in BOOLEAN, afterFail' \in BOOLEAN, afterFail' => requesting',
           IsDiff(diff', "none", 0, 0), serverPts' \in Nat
    PROVE  DiffInv'
BY DEF IsDiff, DiffInv

LEMMA CountedFact ==
    ASSUME CountsInv, NEW p \in Nat, p <= serverPts, NEW n \in Nat, Counted(p, n)
    PROVE  last' \in Nat /\ count' \in Nat /\ last <= last' /\ last' <= serverPts
<1>1. last' = Max2(last, p) /\ count' = count + n
  BY DEF Counted
<1> QED
  BY <1>1 DEF Max2, CountsInv

\* An update, with or without itself, never takes the waiter back.
LEMMA UpdateMoves ==
    ASSUME CountsInv, NEW u \in Update, u.pts <= serverPts, UpdateAndApply(u)
    PROVE  GoodMoves
<1>0. u.pts \in Nat /\ u.count \in Nat
  BY DEF Update
<1>1. CASE UNCHANGED gapVars
  BY <1>1 DEF gapVars, GoodMoves, CountsInv
<1>2. CASE ~requesting /\ ~Inited /\ InitPts(u.pts)
  BY <1>0, <1>2 DEF InitPts, Inited, GoodMoves, CountsInv
<1>3. CASE ~requesting /\ Counted(u.pts, u.count) /\ good' \in {good, last'}
  <2>1. last' \in Nat /\ count' \in Nat /\ last <= last' /\ last' <= serverPts
    BY <1>0, <1>3, CountedFact
  <2> QED
    BY <1>3, <2>1 DEF GoodMoves, CountsInv
<1> QED
  BY <1>1, <1>2, <1>3 DEF UpdateAndApply

LEMMA CountMoves ==
    ASSUME CountsInv, NEW p \in Nat, NEW n \in Nat, p <= serverPts, NEW done,
           UpdateAndApplyCount(p, n, done)
    PROVE  GoodMoves
<1>1. CASE UNCHANGED <<good, last, count>>
  BY <1>1 DEF GoodMoves, CountsInv
<1>2. CASE ~requesting /\ ~Inited /\ InitPts(p)
  BY <1>2 DEF InitPts, Inited, GoodMoves, CountsInv
<1>3. CASE ~requesting /\ Counted(p, n) /\ good' \in {good, last'}
  <2>1. last' \in Nat /\ count' \in Nat /\ last <= last' /\ last' <= serverPts
    BY <1>3, CountedFact
  <2> QED
    BY <1>3, <2>1 DEF GoodMoves, CountsInv
<1> QED
  BY <1>1, <1>2, <1>3 DEF UpdateAndApplyCount, gapVars

\* So a step that lets the waiter move and the difference alone keeps both.
LEMMA MoveKeeps ==
    ASSUME IInv, GoodMoves, DiffFrame, UNCHANGED <<kind, serverPts, log>>,
           net' \subseteq net
    PROVE  IInv' /\ good' >= good
<1>1. CountsInv'
  BY DEF IInv, CountsInv, GoodMoves
<1>2. DiffInv'
  BY DEF IInv, CountsInv, DiffInv, GoodMoves, DiffFrame
<1> QED
  BY <1>1, <1>2 DEF IInv, CountsInv, GoodMoves

\* Asking for a difference, which an uninited or a busy waiter does not do.
LEMMA AskKeeps ==
    ASSUME IInv, AskForDifference, UNCHANGED <<kind, good, last, count, serverPts, log>>,
           net' \subseteq net
    PROVE  IInv' /\ good' >= good
<1>1. CountsInv'
  BY DEF IInv, CountsInv
<1>2. DiffInv'
  <2>1. CASE requesting \/ ~Inited
    BY <2>1 DEF IInv, DiffInv, AskForDifference
  <2>2. CASE ~(requesting \/ ~Inited)
    <3>1. IsDiff(diff', "sent", good, good)
      <4>1. diff' = [stage |-> "sent", from |-> good, to |-> good]
        BY <2>2 DEF AskForDifference
      <4> QED
        BY <4>1, NewDiff DEF Stages, IInv, CountsInv
    <3>2. requesting' = TRUE /\ afterFail' = FALSE
      BY <2>2 DEF AskForDifference, InRequest
    <3> QED
      <4>1. IsDiff(diff', "sent", good', good')
        BY <3>1, <3>2
      <4>2. good' <= serverPts'
        BY <3>1, <3>2 DEF IInv, CountsInv
      <4> QED
        BY <4>1, <4>2, <3>2, SentDiff
  <2> QED
    BY <2>1, <2>2
<1> QED
  BY <1>1, <1>2 DEF IInv, CountsInv

LEMMA NextKeeps ==
    ASSUME IInv, [Next]_vars
    PROVE  IInv' /\ good' >= good
<1> USE CountsAssumption
<1>0. UNCHANGED vars => IInv' /\ good' >= good
  BY DEF vars, gapVars, timerVars, serverVars, historyVars, IInv, CountsInv, DiffInv
<1>1. ASSUME NEW u \in net, ReceiveUpdate(u) PROVE IInv' /\ good' >= good
  <2>1. u \in Update /\ u.pts <= serverPts
    BY DEF IInv, CountsInv
  <2>2. DiffFrame /\ UNCHANGED <<kind, serverPts, log>> /\ net' \subseteq net
    BY <1>1 DEF ReceiveUpdate, Took, serverVars
  <2>3. CASE Ignored(u)
    BY <1>1, <2>2, <2>3 DEF ReceiveUpdate, gapVars, DiffFrame, IInv, CountsInv, DiffInv
  <2>4. CASE ~Ignored(u)
    <3>1. GoodMoves
      BY <1>1, <2>1, <2>4, UpdateMoves DEF ReceiveUpdate, IInv
    <3> QED
      BY <2>2, <3>1, MoveKeeps
  <2> QED
    BY <2>3, <2>4
<1>2. ASSUME NEW u \in net, UnknownPeer(u) PROVE IInv' /\ good' >= good
  <2>1. AskForDifference /\ UNCHANGED <<kind, good, last, count, serverPts, log>>
        /\ net' \subseteq net
    BY <1>2 DEF UnknownPeer, Took
  <2> QED
    BY <2>1, AskKeeps
<1>3. ASSUME NEW u \in net, ApplyAffected(u) PROVE IInv' /\ good' >= good
  <2>1. u.pts \in Nat /\ u.count \in Nat /\ u.pts <= serverPts
    BY DEF IInv, CountsInv, Update
  <2>2. DiffFrame /\ UNCHANGED <<kind, serverPts, log>> /\ net' \subseteq net
        /\ UpdateAndApplyCount(u.pts, u.count, {u})
    BY <1>3 DEF ApplyAffected, Took, serverVars
  <2>3. GoodMoves
    BY <2>1, <2>2, CountMoves DEF IInv
  <2> QED
    BY <2>2, <2>3, MoveKeeps
<1>4. CASE PtsReceived
  <2>1. DiffFrame /\ UNCHANGED <<kind, serverPts, log>> /\ net' \subseteq net
        /\ UpdateAndApplyCount(serverPts, 0, {})
    BY <1>4 DEF PtsReceived, serverVars
  <2>2. serverPts \in Nat /\ serverPts <= serverPts
    BY DEF IInv, CountsInv
  <2>3. GoodMoves
    BY <2>1, <2>2, CountMoves DEF IInv
  <2> QED
    BY <2>1, <2>3, MoveKeeps
<1>5. CASE TooLong \/ GetDifferenceByPts
  <2>1. AskForDifference /\ UNCHANGED <<kind, good, last, count, serverPts, log>>
        /\ net' \subseteq net
    BY <1>5 DEF TooLong, GetDifferenceByPts, serverVars
  <2> QED
    BY <2>1, AskKeeps
<1>6. CASE GetDifferenceAfterFail
  <2>1. CountsInv'
    BY <1>6 DEF GetDifferenceAfterFail, serverVars, IInv, CountsInv
  <2>2. DiffInv'
    <3>1. diff' = [stage |-> "sent", from |-> good, to |-> good]
      BY <1>6 DEF GetDifferenceAfterFail
    <3>2. IsDiff(diff', "sent", good, good)
      BY <3>1, NewDiff DEF Stages, IInv, CountsInv
    <3>3. afterFail' = FALSE /\ requesting' = TRUE
          /\ good' = good /\ serverPts' = serverPts
      BY <1>6 DEF GetDifferenceAfterFail, serverVars, IInv, DiffInv
    <3> QED
      <4>1. IsDiff(diff', "sent", good', good')
        BY <3>2, <3>3
      <4>2. good' <= serverPts'
        BY <2>1 DEF CountsInv
      <4> QED
        BY <3>3, <4>1, <4>2, SentDiff
  <2> QED
    BY <1>6, <2>1, <2>2 DEF GetDifferenceAfterFail, IInv, CountsInv
<1>7. CASE DifferenceFail
  <2>1. CountsInv' /\ good' = good
    BY <1>7 DEF DifferenceFail, gapVars, IInv, CountsInv
  <2>2. DiffInv'
    <3>1. IsDiff(diff', "none", 0, 0)
      BY <1>7, NewDiff DEF DifferenceFail, NoDiff, Stages
    <3>2. requesting' = TRUE /\ afterFail' \in BOOLEAN
          /\ serverPts' = serverPts
      BY <1>7 DEF DifferenceFail, TryAgain, IInv, DiffInv
    <3> QED
      BY <3>1, <3>2, NoneDiff DEF IInv, CountsInv
  <2> QED
    BY <2>1, <2>2 DEF IInv, CountsInv
<1>8. CASE StateDone
  <2>1. CountsInv' /\ good' >= good
    BY <1>8, DiffType DEF StateDone, InitPts, serverVars, IInv, CountsInv, DiffInv
  <2>2. DiffInv'
    <3>1. IsDiff(diff', "none", 0, 0)
      BY <1>8, NewDiff DEF StateDone, NoDiff, Stages
    <3>2. requesting' = FALSE /\ afterFail' = FALSE /\ serverPts' = serverPts
      BY <1>8 DEF StateDone, serverVars, IInv, DiffInv
    <3> QED
      BY <3>1, <3>2, NoneDiff DEF IInv, CountsInv
  <2> QED
    BY <2>1, <2>2 DEF IInv
<1>9. CASE DifferenceSlice
  <2>1. CountsInv' /\ good' >= good
    BY <1>9, DiffType DEF DifferenceSlice, InitPts, serverVars, IInv, CountsInv, DiffInv
  <2>2. DiffInv'
    <3>1. IsDiff(diff', "sent", diff.to, diff.to) /\ good' = diff.to
      <4>1. diff' = [stage |-> "sent", from |-> diff.to, to |-> diff.to]
        BY <1>9 DEF DifferenceSlice
      <4>2. diff.to \in Nat
        BY DiffType DEF IInv, DiffInv
      <4> QED
        BY <1>9, <4>1, <4>2, NewDiff DEF DifferenceSlice, InitPts, Stages
    <3>2. requesting' = TRUE /\ afterFail' = FALSE
          /\ serverPts' = serverPts
      BY <1>9 DEF DifferenceSlice, serverVars, IInv, DiffInv
    <3> QED
      <4>1. IsDiff(diff', "sent", good', good')
        BY <3>1
      <4>2. good' <= serverPts'
        BY <2>1 DEF CountsInv
      <4> QED
        BY <3>2, <4>1, <4>2, SentDiff
  <2> QED
    BY <2>1, <2>2 DEF IInv
<1>10. CASE DifferenceDone
  <2>1. CountsInv' /\ good' >= good
    BY <1>10, DiffType DEF DifferenceDone, InitPts, serverVars, IInv, CountsInv, DiffInv
  <2>2. DiffInv'
    <3>1. IsDiff(diff', "none", 0, 0)
      BY <1>10, NewDiff DEF DifferenceDone, NoDiff, Stages
    <3>2. requesting' = FALSE /\ afterFail' = FALSE /\ serverPts' = serverPts
      BY <1>10 DEF DifferenceDone, serverVars, IInv, DiffInv
    <3> QED
      BY <3>1, <3>2, NoneDiff DEF IInv, CountsInv
  <2> QED
    BY <2>1, <2>2 DEF IInv
<1>11. CASE ToggleChat
  BY <1>11 DEF ToggleChat, gapVars, serverVars, IInv, CountsInv, DiffInv
<1>12. ASSUME NEW n \in Counts, NEW source, ServerAdds(n, source), source \in Sources
       PROVE  IInv' /\ good' >= good
  <2> DEFINE u == [pts |-> serverPts + n, count |-> n, source |-> source]
  <2>1. n \in Nat /\ serverPts' = serverPts + n /\ log' = log \cup {u} /\ net' = net \cup {u}
    BY <1>12 DEF ServerAdds
  <2>2. u \in Update
    BY <1>12, <2>1, SourcesAssumption DEF Update, Source, IInv, CountsInv
  <2>3. CountsInv' /\ good' = good
    <3>1. \A v \in log' : v.pts <= serverPts' /\ v.count \in Counts
      <4> SUFFICES ASSUME NEW v \in log' PROVE v.pts <= serverPts' /\ v.count \in Counts
        OBVIOUS
      <4>1. CASE v = u
        BY <2>1, <4>1 DEF IInv, CountsInv
      <4>2. CASE v \in log
        BY <2>1, <4>2 DEF IInv, CountsInv, Update
      <4> QED
        BY <2>1, <4>1, <4>2
    <3> QED
      BY <1>12, <2>1, <2>2, <3>1 DEF ServerAdds, gapVars, IInv, CountsInv
  <2>4. DiffInv'
    BY <1>12, <2>1, DiffType DEF ServerAdds, gapVars, IInv, CountsInv, DiffInv
  <2> QED
    BY <2>3, <2>4 DEF IInv, CountsInv
<1>13. CASE ServerAnswers
  <2>1. CountsInv' /\ good' = good
    BY <1>13 DEF ServerAnswers, gapVars, serverVars, IInv, CountsInv
  <2>2. PICK stage \in {"slice", "final"}, to \in Nat :
           IsDiff(diff', stage, diff.from, to) /\ diff.from <= to /\ to <= serverPts
    <3>1. CASE diff' = [diff EXCEPT !.stage = "final", !.to = serverPts]
      <4>1. IsDiff(diff', "final", diff.from, serverPts)
        BY <3>1, AnsweredDiff DEF Stages, IInv, CountsInv, DiffInv
      <4>2. diff.from = good /\ serverPts \in Nat /\ good <= serverPts /\ serverPts <= serverPts
        <5>1. diff.stage = "sent"
          BY <1>13 DEF ServerAnswers
        <5>2. diff.from = good
          BY <5>1 DEF IInv, DiffInv
        <5>3. serverPts \in Nat /\ good <= serverPts /\ serverPts <= serverPts
          BY DEF IInv, CountsInv
        <5> QED
          BY <5>2, <5>3
      <4> QED
        BY <4>1, <4>2
    <3>2. ASSUME NEW u \in log, diff.from < u.pts,
                 diff' = [diff EXCEPT !.stage = "slice", !.to = u.pts]
          PROVE  u.pts \in Nat /\ diff.from <= u.pts /\ u.pts <= serverPts
                 /\ IsDiff(diff', "slice", diff.from, u.pts)
      <4>1. u.pts \in Nat /\ u.pts <= serverPts /\ diff.from \in Nat
        BY DiffType DEF IInv, CountsInv, DiffInv, Update
      <4>2. IsDiff(diff', "slice", diff.from, u.pts)
        BY <3>2, <4>1, AnsweredDiff DEF Stages, IInv, DiffInv
      <4> QED
        BY <3>2, <4>1, <4>2
    <3> QED
      BY <1>13, <3>1, <3>2 DEF ServerAnswers
  <2>3. diff.stage = "sent" /\ UNCHANGED <<good, requesting, afterFail, serverPts>>
    BY <1>13 DEF ServerAnswers, gapVars, serverVars
  <2>4. DiffInv'
    BY <2>2, <2>3 DEF IsDiff, IInv, CountsInv, DiffInv
  <2> QED
    BY <2>1, <2>4 DEF IInv, CountsInv
<1>14. CASE ServerAnswersState
  <2>1. CountsInv' /\ good' = good
    BY <1>14 DEF ServerAnswersState, gapVars, serverVars, IInv, CountsInv
  <2>2. IsDiff(diff', "state", diff.from, serverPts)
    BY <1>14, AnsweredDiff DEF ServerAnswersState, Stages, IInv, CountsInv, DiffInv
  <2>3. diff.stage = "sentState" /\ UNCHANGED <<good, requesting, afterFail, serverPts>>
    BY <1>14 DEF ServerAnswersState, gapVars, serverVars
  <2>4. DiffInv'
    BY <2>2, <2>3 DEF IsDiff, IInv, CountsInv, DiffInv
  <2> QED
    BY <2>1, <2>4 DEF IInv, CountsInv
<1> QED
  BY <1>0, <1>1, <1>2, <1>3, <1>4, <1>5, <1>6, <1>7, <1>8, <1>9, <1>10, <1>11, <1>12,
     <1>13, <1>14 DEF Next

LEMMA InitHolds == Init => IInv
<1> SUFFICES ASSUME Init PROVE IInv
  OBVIOUS
<1>1. CountsInv
  BY DEF Init, CountsInv
<1>2. DiffInv
  <2>1. requesting \in BOOLEAN /\ afterFail = FALSE /\ good = 0 /\ serverPts = 1
    BY DEF Init
  <2>2. CASE kind = "account"
    <3>1. diff = [stage |-> "sentState", from |-> 0, to |-> 0]
      BY <2>2 DEF Init, NoDiff
    <3>2. IsDiff(diff, "sentState", 0, 0) /\ requesting
      BY <2>2, <3>1, NewDiff DEF Init, Stages
    <3> QED
      <4>1. requesting \in BOOLEAN /\ afterFail \in BOOLEAN /\ (diff.stage # "none" => requesting)
        BY <2>1, <3>2
      <4>2. diff \in Diff /\ diff.stage = "sentState"  /\ diff.to = 0
        BY <3>2 DEF IsDiff
      <4>3. diff.to <= serverPts
        BY <2>1, <4>2
      <4>4. afterFail => requesting /\ diff.stage = "none"
        BY <2>1
      <4> QED
        BY <2>1, <4>1, <4>2, <4>3, <4>4 DEF DiffInv
  <2>3. CASE kind # "account"
    <3>1. IsDiff(diff, "none", 0, 0)
      BY <2>3, NewDiff DEF Init, NoDiff, Stages
    <3> QED
      <4>1. diff \in Diff /\ diff.stage = "none" /\ diff.to = 0
        BY <3>1 DEF IsDiff
      <4>2. diff.to <= serverPts
        BY <2>1, <4>1
      <4>3. requesting \in BOOLEAN /\ afterFail \in BOOLEAN /\ ~afterFail
        BY <2>1
      <4> QED
        BY <4>1, <4>2, <4>3 DEF DiffInv
  <2> QED
    BY <2>2, <2>3
<1> QED
  BY <1>1, <1>2 DEF IInv

\* A difference is loaded with updates shut out and ends at or after the pts it
\* was asked from, so that what it brings can be taken as the new state
\* (differenceDone and channelDifferenceDone do not compare).
THEOREM DifferencesFit == Spec => []IInv
<1>1. IInv /\ [Next]_vars => IInv'
  BY NextKeeps
<1> QED
  BY InitHolds, <1>1, PTL DEF Spec

\* PtsWaiter's pts is never set back, by an update or by a difference.
THEOREM NeverGoesBack == Spec => GoodNeverGoesBack
<1>1. IInv /\ [Next]_vars => [good' >= good]_vars
  BY NextKeeps
<1> QED
  BY DifferencesFit, <1>1, PTL DEF Spec, GoodNeverGoesBack

-----------------------------------------------------------------------------
(* The timer of a gap, where a count of zero does not stop it. *)

\* While updates keep their counts, only a waiter without a gap stops waiting.
WatchMoves ==
    /\ waiting' \in BOOLEAN /\ byPts' \in BOOLEAN
    /\ Inited' /\ count' # last' => requesting \/ (byPts' /\ waiting')

LEMMA UpdateWatched ==
    ASSUME IInv, WatchInv, NEW u \in Update, u.count # 0, UpdateAndApply(u)
    PROVE  WatchMoves
<1>0. u.pts \in Nat /\ u.count \in Nat /\ u.count > 0
  BY DEF Update
<1> USE DEF WatchMoves, WatchInv, Inited
<1>1. CASE requesting
  BY <1>1 DEF UpdateAndApply, timerVars, StopWaiting
<1>2. CASE ~requesting /\ IsOld(u.pts, u.count) /\ UNCHANGED <<gapVars, timerVars>>
  BY <1>2 DEF gapVars, timerVars
<1>3. CASE ~requesting /\ InitPts(u.pts) /\ UNCHANGED timerVars
  BY <1>3 DEF InitPts, timerVars
<1>4. CASE /\ ~requesting /\ NoGap(u.pts, u.count) /\ Counted(u.pts, u.count)
           /\ (StopWaiting(byPts) \/ UNCHANGED <<waiting, byPts>>)
  BY <1>4 DEF NoGap, Counted, StopWaiting
<1>5. CASE ~requesting /\ StartWaiting
  BY <1>5 DEF StartWaiting
<1> QED
  BY <1>0, <1>1, <1>2, <1>3, <1>4, <1>5 DEF UpdateAndApply, timerVars

LEMMA CountWatched ==
    ASSUME IInv, WatchInv, NEW p \in Nat, NEW n \in Nat, n # 0 \/ ~Inited, NEW done,
           UpdateAndApplyCount(p, n, done)
    PROVE  WatchMoves
<1> USE DEF WatchMoves, WatchInv, Inited
<1>0. Inited => n > 0
  OBVIOUS
<1>1. CASE requesting
  BY <1>1 DEF UpdateAndApplyCount, ApplySkipped, timerVars, StopWaiting
<1>2. CASE ~requesting /\ IsOld(p, n) /\ UNCHANGED <<gapVars, timerVars>>
  BY <1>2 DEF gapVars, timerVars
<1>3. CASE ~requesting /\ InitPts(p) /\ (StopWaiting(byPts) \/ UNCHANGED <<waiting, byPts>>)
  BY <1>3 DEF InitPts, StopWaiting
<1>4. CASE ~requesting /\ NoGap(p, n) /\ Counted(p, n) /\ ApplySkipped(done)
  BY <1>4 DEF NoGap, Counted, ApplySkipped, StopWaiting
<1>5. CASE ~requesting /\ Inited /\ n > 0 /\ StartWaiting
  BY <1>5 DEF StartWaiting
<1> QED
  BY <1>0, <1>1, <1>2, <1>3, <1>4, <1>5 DEF UpdateAndApplyCount

\* A step that asks for a difference if it can.
LEMMA AskWatched ==
    ASSUME IInv, WatchInv, AskForDifference, UNCHANGED <<good, last, count, waiting>>
    PROVE  WatchInv'
BY DEF WatchInv, Inited, AskForDifference, InRequest, IInv, DiffInv

LEMMA NextWatched ==
    ASSUME 0 \notin Counts, "received" \notin Sources, IInv, WatchInv, [Next]_vars
    PROVE  WatchInv'
<1> USE CountsAssumption
<1>0. UNCHANGED vars => WatchInv'
  BY DEF vars, gapVars, timerVars, WatchInv, Inited
<1>1. WatchMoves /\ requesting' = requesting => WatchInv'
  BY DEF WatchMoves, WatchInv
<1>2. ASSUME NEW u \in net, ReceiveUpdate(u) PROVE WatchInv'
  <2>1. u \in Update /\ u.count # 0
    BY DEF IInv, CountsInv
  <2>2. CASE Ignored(u)
    BY <1>2, <2>2 DEF ReceiveUpdate, DiffFrame, gapVars, timerVars, WatchInv, Inited
  <2>3. CASE ~Ignored(u)
    BY <1>1, <1>2, <2>1, <2>3, UpdateWatched DEF ReceiveUpdate, DiffFrame
  <2> QED
    BY <2>2, <2>3
<1>3. ASSUME NEW u \in net, UnknownPeer(u) PROVE WatchInv'
  BY <1>3, AskWatched DEF UnknownPeer
<1>4. ASSUME NEW u \in net, ApplyAffected(u) PROVE WatchInv'
  <2>1. u.pts \in Nat /\ u.count \in Nat /\ u.count # 0
    BY DEF IInv, CountsInv, Update
  <2> QED
    BY <1>1, <1>4, <2>1, CountWatched DEF ApplyAffected, DiffFrame
<1>5. CASE PtsReceived
  <2>1. ~Inited /\ serverPts \in Nat
    BY <1>5 DEF PtsReceived, IInv, CountsInv
  <2> QED
    BY <1>1, <1>5, <2>1, CountWatched DEF PtsReceived, DiffFrame
<1>6. CASE TooLong \/ GetDifferenceByPts
  BY <1>6, AskWatched DEF TooLong, GetDifferenceByPts
<1>7. CASE GetDifferenceAfterFail
  BY <1>7 DEF GetDifferenceAfterFail, WatchInv, IInv, DiffInv
<1>8. CASE DifferenceFail
  BY <1>8 DEF DifferenceFail, gapVars, timerVars, WatchInv, Inited
<1>9. CASE StateDone
  BY <1>9 DEF StateDone, InitPts, timerVars, WatchInv
<1>10. CASE DifferenceSlice
  BY <1>10 DEF DifferenceSlice, InitPts, WatchInv
<1>11. CASE DifferenceDone
  <2>1. count' = last' /\ waiting' = waiting
    BY <1>11 DEF DifferenceDone, InitPts
  <2>2. byPts' \in BOOLEAN
    BY <1>11 DEF DifferenceDone, WatchInv
  <2> QED
    BY <2>1, <2>2 DEF WatchInv
<1>12. CASE ToggleChat
  <2>1. byPts' = (~active \/ (waiting /\ byPts))
        /\ UNCHANGED <<good, last, count, requesting, waiting>>
    BY <1>12 DEF ToggleChat, gapVars
  <2> QED
    BY <2>1 DEF WatchInv, Inited
<1>13. ASSUME NEW n, NEW source, ServerAdds(n, source) PROVE WatchInv'
  BY <1>13 DEF ServerAdds, gapVars, timerVars, WatchInv, Inited
<1>14. CASE ServerAnswers \/ ServerAnswersState
  BY <1>14 DEF ServerAnswers, ServerAnswersState, gapVars, timerVars, WatchInv, Inited
<1> QED
  BY <1>0, <1>2, <1>3, <1>4, <1>5, <1>6, <1>7, <1>8, <1>9, <1>10, <1>11, <1>12, <1>13,
     <1>14 DEF Next

\* PtsWaiter: as long as no update counts nothing and no pts comes with other
\* data, a waiter that knows of a gap asks for a difference or has a timer that
\* will (setWaitingForSkipped), whatever overtakes what.
THEOREM GapAlwaysWatched ==
    ASSUME 0 \notin Counts, "received" \notin Sources
    PROVE  Spec => []GapIsWatched
<1>1. Init => WatchInv
  BY DEF Init, WatchInv, Inited
<1>2. IInv /\ WatchInv /\ [Next]_vars => WatchInv'
  BY NextWatched
<1>3. WatchInv => GapIsWatched
  BY DEF WatchInv, GapIsWatched
<1> QED
  BY DifferencesFit, <1>1, <1>2, <1>3, PTL DEF Spec

-----------------------------------------------------------------------------
(***************************************************************************)
(* A PtsWaiter knows what it has by comparing two sums.  For every series  *)
(* of updates, of whatever counts, that is enough: up to _good the log was *)
(* applied without a hole.                                                 *)
(*                                                                         *)
(* An update stands for the `count' values of the pts up to its own, and   *)
(* those of two updates do not meet.  So _count - _good is how many values *)
(* after _good were received, and as they all lie between _good and _last, *)
(* _count reaches _last only when every one of them was.                   *)
(***************************************************************************)

\* No update stands for values on both sides of p.
Boundary(p) == \A v \in log : v.count > 0 /\ p < v.pts => p + v.count <= v.pts

LogInv ==
    /\ \A u \in log : Boundary(u.pts) /\ u.count <= u.pts
    /\ \A u, v \in log : u.count > 0 /\ v.count > 0 /\ u.pts = v.pts => u = v
    /\ Boundary(good) /\ Boundary(last)
    /\ diff.stage \in {"state", "slice", "final"} => Boundary(diff.to)

\* The values of the pts that updates stand for.
Covered(C) == {k \in 1 .. MaxPts : \E u \in C : u.pts < k + u.count /\ k <= u.pts}

\* C are the updates that were counted since _good.
CountedSince(C) ==
    /\ C \subseteq log \ net
    /\ \A u \in C : u.count > 0 /\ good < u.pts /\ u.pts <= last
    /\ requesting \/ C \subseteq queue \cup applied
    /\ count = good + Cardinality(Covered(C))

CountInv == \E C \in SUBSET log : CountedSince(C)

QueueInv ==
    /\ queue \subseteq log \ net
    /\ \A u \in queue : u.count > 0 /\ good < u.pts /\ u.pts <= last /\ u \notin applied
    /\ queue # {} => waiting /\ ~requesting /\ count # last

\* What was applied before it came was brought by a difference.
AppliedInv ==
    /\ applied \subseteq log /\ again \subseteq applied
    /\ \A u \in applied \cap net : u.pts <= good

FlagsInv ==
    /\ serverPts \in 1 .. MaxPts /\ faults \in 0 .. MaxFaults
    /\ waiting \in BOOLEAN /\ byPts \in BOOLEAN /\ shortPoll \in BOOLEAN /\ active \in BOOLEAN
    /\ start \in Nat /\ start <= good

OrderInv == LogInv /\ CountInv /\ QueueInv /\ AppliedInv /\ NoUpdateMissed

-----------------------------------------------------------------------------
(* Sums and what they count. *)

LEMMA UpdateFields ==
    ASSUME CountsInv, NEW u \in log
    PROVE  u \in Update /\ u.pts \in Nat /\ u.count \in Nat /\ u.pts <= serverPts
BY DEF CountsInv, Update

LEMMA CoveredFinite == ASSUME NEW C PROVE IsFiniteSet(Covered(C)) /\ Cardinality(Covered(C)) \in Nat
<1>1. IsFiniteSet(1 .. MaxPts)
  BY FS_Interval, BoundsAssumption
<1>2. Covered(C) \in SUBSET (1 .. MaxPts)
  BY DEF Covered
<1>3. IsFiniteSet(Covered(C))
  BY <1>1, <1>2, FS_Subset
<1> QED
  BY <1>3, FS_CardinalityType

\* An update stands for as many values as it counts.
LEMMA CoveredByOne ==
    ASSUME CountsInv, NEW u \in log, u.count <= u.pts, serverPts <= MaxPts
    PROVE  Cardinality(Covered({u})) = u.count
<1>0. u.pts \in Nat /\ u.count \in Nat /\ u.pts <= MaxPts /\ MaxPts \in Nat
  BY UpdateFields, BoundsAssumption DEF CountsInv
<1>1. Covered({u}) = (u.pts - u.count + 1) .. u.pts
  <2>1. ASSUME NEW k PROVE k \in Covered({u}) <=> k \in (u.pts - u.count + 1) .. u.pts
    <3>1. k \in Covered({u}) <=> k \in 1 .. MaxPts /\ u.pts < k + u.count /\ k <= u.pts
      BY DEF Covered
    <3> HIDE DEF Covered
    <3> QED
      BY <1>0, <3>1
  <2> QED
    BY <2>1
<1>2. u.pts - u.count + 1 \in Int /\ u.pts \in Int
  BY <1>0
<1>3. Cardinality((u.pts - u.count + 1) .. u.pts)
        = IF u.pts - u.count + 1 > u.pts THEN 0 ELSE u.pts - (u.pts - u.count + 1) + 1
  BY <1>2, FS_Interval
<1> QED
  BY <1>0, <1>1, <1>3

\* The next update adds its count to the sum.
LEMMA CoveredMore ==
    ASSUME CountsInv, LogInv, serverPts <= MaxPts,
           NEW C \in SUBSET log, \A v \in C : v.count > 0,
           NEW u \in log \ C, u.count > 0, good < u.pts
    PROVE  Cardinality(Covered(C \cup {u})) = Cardinality(Covered(C)) + u.count
<1>0. u.pts \in Nat /\ u.count \in Nat /\ good \in Nat
  BY UpdateFields DEF CountsInv
<1>1. Covered(C \cup {u}) = Covered(C) \cup Covered({u})
  BY DEF Covered
<1>2. Covered(C) \cap Covered({u}) = {}
  <2> SUFFICES ASSUME NEW k \in Covered(C), k \in Covered({u}) PROVE FALSE
    OBVIOUS
  <2>1. PICK v \in C : v.pts < k + v.count /\ k <= v.pts
    BY DEF Covered
  <2>2. k \in Nat /\ u.pts < k + u.count /\ k <= u.pts
    BY DEF Covered
  <2>3. v.pts \in Nat /\ v.count \in Nat /\ v.count > 0
    BY UpdateFields
  <2>4. v.pts # u.pts
    BY <2>3 DEF LogInv
  <2>5. u.pts < v.pts => u.pts + v.count <= v.pts
    BY <2>3 DEF LogInv, Boundary
  <2>6. v.pts < u.pts => v.pts + u.count <= u.pts
    BY <2>3 DEF LogInv, Boundary
  <2> QED
    BY <1>0, <2>1, <2>2, <2>3, <2>4, <2>5, <2>6
<1>3. u.count <= u.pts
  BY <1>0 DEF LogInv, Boundary
<1>4. Cardinality(Covered({u})) = u.count
  BY <1>3, CoveredByOne
<1>5. Cardinality(Covered(C) \cup Covered({u}))
        = Cardinality(Covered(C)) + Cardinality(Covered({u})) - Cardinality(Covered(C) \cap Covered({u}))
  BY CoveredFinite, FS_Union
<1>6. Cardinality(Covered(C) \cap Covered({u})) = 0
  BY <1>2, FS_EmptySet
<1>7. Cardinality(Covered(C)) \in Nat
  BY CoveredFinite
<1>8. Cardinality(Covered(C) \cup Covered({u})) = Cardinality(Covered(C)) + u.count
  <2> HIDE DEF Covered
  <2> QED
    BY <1>0, <1>4, <1>5, <1>6, <1>7
<1> QED
  BY <1>1, <1>8

\* All of it lies between _good and the last update; a sum as large as that
\* leaves nothing out.
LEMMA CoveredAll ==
    ASSUME CountsInv, LogInv, serverPts <= MaxPts,
           NEW top \in Nat, good <= top, top <= serverPts, NEW D \in SUBSET log,
           \A v \in D : v.count > 0 /\ good < v.pts /\ v.pts <= top
    PROVE  /\ good + Cardinality(Covered(D)) <= top
           /\ good + Cardinality(Covered(D)) = top => Between(good, top) \subseteq D
<1>0. good \in Nat /\ serverPts \in Nat /\ MaxPts \in Nat
  BY BoundsAssumption DEF CountsInv
<1>1. Covered(D) \in SUBSET ((good + 1) .. top)
  <2> SUFFICES ASSUME NEW k \in Covered(D) PROVE k \in (good + 1) .. top
    OBVIOUS
  <2>1. PICK v \in D : v.pts < k + v.count /\ k <= v.pts
    BY DEF Covered
  <2>2. v.pts \in Nat /\ v.count \in Nat /\ v.count > 0 /\ good < v.pts /\ v.pts <= top
    BY UpdateFields
  <2>3. good + v.count <= v.pts
    BY <2>2 DEF LogInv, Boundary
  <2>4. k \in Nat
    BY DEF Covered
  <2> QED
    BY <1>0, <2>1, <2>2, <2>3, <2>4
<1>2. IsFiniteSet((good + 1) .. top) /\ Cardinality((good + 1) .. top) = top - good
  <2>1. good + 1 \in Int /\ top \in Int
    BY <1>0
  <2>2. IsFiniteSet((good + 1) .. top)
        /\ Cardinality((good + 1) .. top)
             = IF good + 1 > top THEN 0 ELSE top - (good + 1) + 1
    BY <2>1, FS_Interval
  <2> QED
    BY <1>0, <2>2
<1>3. /\ Cardinality(Covered(D)) <= top - good
      /\ Cardinality(Covered(D)) = top - good => Covered(D) = (good + 1) .. top
  BY <1>1, <1>2, FS_Subset
<1>4. Cardinality(Covered(D)) \in Nat
  BY CoveredFinite
<1>5. ASSUME Covered(D) = (good + 1) .. top PROVE Between(good, top) \subseteq D
  <2> SUFFICES ASSUME NEW v \in log, v.count > 0, good < v.pts, v.pts <= top PROVE v \in D
    BY DEF Between
  <2>1. v.pts \in Nat /\ v.count \in Nat
    BY UpdateFields
  <2>2. v.pts \in Covered(D)
    BY <1>0, <1>5, <2>1
  <2>3. PICK w \in D : w.pts < v.pts + w.count /\ v.pts <= w.pts
    BY <2>2 DEF Covered
  <2>4. w \in log /\ w.pts \in Nat /\ w.count \in Nat /\ w.count > 0
    BY UpdateFields
  <2>5. v.pts < w.pts => v.pts + w.count <= w.pts
    BY <2>4 DEF LogInv, Boundary
  <2>6. v.pts = w.pts
    BY <2>1, <2>3, <2>4, <2>5
  <2> QED
    BY <2>4, <2>6 DEF LogInv
<1> QED
  BY <1>0, <1>3, <1>4, <1>5

-----------------------------------------------------------------------------
(* What a step of the waiter may be, with an update of A that says p and n. *)

Arrives(p, n, A) ==
    /\ A \subseteq net /\ net' = net \ A
    /\ p \in Nat /\ p <= serverPts /\ Boundary(p) /\ n \in Nat
    /\ n > 0 => \E u \in net : A = {u} /\ u.pts = p /\ u.count = n

\* It is ignored, old, or applied without being counted.
Rests(A) ==
    /\ UNCHANGED <<good, last, count, queue, start>>
    /\ queue # {} => waiting' = waiting
    /\ Apply(A)

\* It is the first.
Starts(p, A) == ~requesting /\ ~Inited /\ InitPts(p) /\ Apply(A)

Counts1(p, n) == ~requesting /\ Inited /\ ~IsOld(p, n) /\ Counted(p, n) /\ start' = start

\* It closes the gap, if there was one.
Joins(p, n, A) ==
    /\ Counts1(p, n)
    /\ good' = last' /\ count' = last'
    /\ queue' = {} /\ Apply(queue \cup A)

\* It leaves a gap, and is kept or applied.
Waits(p, n, Q, A) ==
    /\ Counts1(p, n) /\ n > 0
    /\ good' = good /\ count' # last' /\ waiting' = TRUE
    /\ queue' = queue \cup Q /\ Apply(A)

\* It counts nothing, and what was kept is applied with it.
Opens(p, n, A) ==
    /\ Counts1(p, n) /\ n = 0
    /\ good' = good /\ queue' = {} /\ Apply(queue \cup A)

FlagsMove == waiting' \in BOOLEAN /\ byPts' \in BOOLEAN /\ shortPoll' = shortPoll

LEMMA UpdateShapes ==
    ASSUME FlagsInv, QueueInv, NEW u \in Update, UpdateAndApply(u)
    PROVE  /\ \/ requesting /\ Rests({u})
              \/ ~requesting /\ IsOld(u.pts, u.count) /\ Rests({})
              \/ Starts(u.pts, {u})
              \/ Joins(u.pts, u.count, {u})
              \/ Waits(u.pts, u.count, {u}, {})
              \/ Opens(u.pts, u.count, {u})
           /\ FlagsMove
<1>0. u.pts \in Nat /\ u.count \in Nat
  BY DEF Update
<1> USE DEF Rests, Starts, Counts1, Joins, Waits, Opens, FlagsMove, FlagsInv, QueueInv, Apply
<1>1. CASE requesting /\ Apply({u}) /\ UNCHANGED <<gapVars, timerVars, start>>
  BY <1>1 DEF gapVars, timerVars
<1>2. CASE ~requesting /\ IsOld(u.pts, u.count) /\ UNCHANGED <<gapVars, timerVars, historyVars>>
  BY <1>2 DEF gapVars, timerVars, historyVars
<1>3. CASE ~requesting /\ ~Inited /\ InitPts(u.pts) /\ Apply({u}) /\ UNCHANGED timerVars
  BY <1>3 DEF timerVars
<1>4. CASE /\ ~requesting /\ Inited /\ ~IsOld(u.pts, u.count) /\ NoGap(u.pts, u.count)
           /\ Counted(u.pts, u.count) /\ good' = last'
           /\ IF waiting /\ queue # {}
              THEN Apply(queue \cup {u}) /\ queue' = QueueAfterApply /\ StopWaiting(byPts)
              ELSE Apply({u}) /\ UNCHANGED <<queue, waiting, byPts>>
           /\ UNCHANGED <<shortPoll, start>>
  <2>1. count' = last'
    BY <1>4 DEF NoGap, Counted
  <2>2. queue' = {} /\ Apply(queue \cup {u}) /\ waiting' \in BOOLEAN /\ byPts' \in BOOLEAN
    BY <1>4 DEF QueueAfterApply, StopWaiting
  <2> QED
    BY <1>4, <2>1, <2>2
<1>5. CASE /\ ~requesting /\ Inited /\ ~IsOld(u.pts, u.count) /\ ~NoGap(u.pts, u.count)
           /\ Counted(u.pts, u.count) /\ UNCHANGED good
           /\ u.count > 0
           /\ queue' = queue \cup {u} /\ StartWaiting /\ UNCHANGED <<applied, again>>
           /\ UNCHANGED <<shortPoll, start>>
  <2>1. count' # last'
    BY <1>5 DEF NoGap, Counted
  <2> QED
    BY <1>5, <2>1 DEF StartWaiting
<1>6. CASE /\ ~requesting /\ Inited /\ ~IsOld(u.pts, u.count)
           /\ Counted(u.pts, u.count) /\ UNCHANGED good
           /\ ~(u.count > 0)
           /\ IF queue = {}
              THEN Apply({u}) /\ UNCHANGED queue /\ StartWaiting
              ELSE Apply(queue \cup {u}) /\ queue' = QueueAfterApply /\ StopWaiting(TRUE)
           /\ UNCHANGED <<shortPoll, start>>
  <2>1. queue' = {} /\ Apply(queue \cup {u}) /\ waiting' \in BOOLEAN /\ byPts' \in BOOLEAN
    BY <1>6 DEF QueueAfterApply, StopWaiting, StartWaiting
  <2> QED
    BY <1>0, <1>6, <2>1
<1> QED
  BY <1>1, <1>2, <1>3, <1>4, <1>5, <1>6 DEF UpdateAndApply

LEMMA CountShapes ==
    ASSUME FlagsInv, QueueInv, NEW p \in Nat, NEW n \in Nat, NEW A,
           UpdateAndApplyCount(p, n, A)
    PROVE  /\ \/ (requesting \/ IsOld(p, n)) /\ Rests(A)
              \/ Starts(p, A)
              \/ Joins(p, n, A)
              \/ Waits(p, n, {}, A)
              \/ Opens(p, n, A)
           /\ FlagsMove
<1> USE DEF Rests, Starts, Counts1, Joins, Waits, Opens, FlagsMove, FlagsInv, QueueInv, Apply
<1>1. CASE requesting /\ ApplySkipped(A) /\ UNCHANGED <<good, last, count, shortPoll, start>>
  BY <1>1 DEF ApplySkipped, QueueAfterApply, StopWaiting
<1>2. CASE ~requesting /\ IsOld(p, n) /\ Apply(A) /\ UNCHANGED <<gapVars, timerVars, start>>
  BY <1>2 DEF gapVars, timerVars
<1>3. CASE /\ ~requesting /\ ~Inited /\ InitPts(p) /\ Apply(A)
           /\ IF waiting THEN StopWaiting(byPts) ELSE UNCHANGED <<waiting, byPts>>
           /\ UNCHANGED shortPoll
  BY <1>3 DEF StopWaiting
<1>4. CASE /\ ~requesting /\ Inited /\ ~IsOld(p, n) /\ NoGap(p, n)
           /\ Counted(p, n) /\ good' = last'
           /\ ApplySkipped(A)
           /\ UNCHANGED <<shortPoll, start>>
  <2>1. count' = last'
    BY <1>4 DEF NoGap, Counted
  <2>2. queue' = {} /\ Apply(queue \cup A) /\ waiting' \in BOOLEAN /\ byPts' \in BOOLEAN
    BY <1>4 DEF QueueAfterApply, StopWaiting, ApplySkipped
  <2> QED
    BY <1>4, <2>1, <2>2
<1>5. CASE /\ ~requesting /\ Inited /\ ~IsOld(p, n) /\ ~NoGap(p, n)
           /\ Counted(p, n) /\ UNCHANGED good /\ n > 0
           /\ Apply(A) /\ UNCHANGED queue /\ StartWaiting
           /\ UNCHANGED <<shortPoll, start>>
  <2>1. count' # last'
    BY <1>5 DEF NoGap, Counted
  <2> QED
    BY <1>5, <2>1 DEF StartWaiting
<1>6. CASE /\ ~requesting /\ Inited /\ ~IsOld(p, n)
           /\ Counted(p, n) /\ UNCHANGED good /\ ~(n > 0)
           /\ Apply(queue \cup A) /\ queue' = QueueAfterApply /\ StopWaiting(TRUE)
           /\ UNCHANGED <<shortPoll, start>>
  <2>1. queue' = {} /\ waiting' = FALSE /\ byPts' = shortPoll /\ shortPoll' = shortPoll
    BY <1>6 DEF StopWaiting, QueueAfterApply
  <2>2. n = 0
    BY <1>6
  <2> QED
    BY <1>6, <2>1, <2>2
<1> QED
  BY <1>1, <1>2, <1>3, <1>4, <1>5, <1>6 DEF UpdateAndApplyCount

-----------------------------------------------------------------------------
(* Each of them keeps the invariant. *)

\* What was counted with the update that has come.
LEMMA CountedStep ==
    ASSUME CountsInv, LogInv, serverPts <= MaxPts, NEW C \in SUBSET log, CountedSince(C),
           NEW p, NEW n, NEW A, Arrives(p, n, A), Counts1(p, n)
    PROVE  /\ last' \in Nat /\ good <= last' /\ last' <= serverPts /\ last <= last'
           /\ last' \in {last, p}
           /\ \E D \in SUBSET log :
                /\ C \subseteq D /\ D \subseteq C \cup A
                /\ \A v \in D : v.count > 0 /\ good < v.pts /\ v.pts <= last'
                /\ count' = good + Cardinality(Covered(D))
                /\ n > 0 => D = C \cup A
<1>0. /\ p \in Nat /\ p <= serverPts /\ n \in Nat
      /\ good \in Nat /\ last \in Nat /\ count \in Nat /\ serverPts \in Nat
      /\ good <= last /\ last <= serverPts
  BY DEF Arrives, CountsInv
<1>1. last' = Max2(last, p) /\ count' = count + n
  BY DEF Counts1, Counted
<1>2. last' \in Nat /\ last <= last' /\ p <= last' /\ last' <= serverPts /\ last' \in {last, p}
  BY <1>0, <1>1 DEF Max2
<1>3. Cardinality(Covered(C)) \in Nat /\ count = good + Cardinality(Covered(C))
  BY CoveredFinite DEF CountedSince
<1>4. ASSUME NEW v \in C PROVE v.count > 0 /\ good < v.pts /\ v.pts <= last'
  <2>1. v.count > 0 /\ good < v.pts /\ v.pts <= last /\ v.pts \in Nat
    BY UpdateFields DEF CountedSince
  <2> QED
    BY <1>0, <1>2, <2>1
<1>5. CASE n = 0
  <2>1. count' = good + Cardinality(Covered(C))
    BY <1>0, <1>1, <1>3, <1>5
  <2> QED
    BY <1>0, <1>2, <1>4, <1>5, <2>1
<1>6. CASE n > 0
  <2>1. PICK u \in net : A = {u} /\ u.pts = p /\ u.count = n
    BY <1>6 DEF Arrives
  <2>2. u \in log \ C /\ u.pts \in Nat
    BY <1>0, <2>1 DEF CountsInv, CountedSince
  <2>3. good < u.pts
    BY <1>0, <1>6, <2>1 DEF Counts1, IsOld
  <2>4. Cardinality(Covered(C \cup {u})) = Cardinality(Covered(C)) + n
    BY <1>6, <2>1, <2>2, <2>3, CoveredMore DEF CountedSince
  <2>5. count' = good + Cardinality(Covered(C \cup {u}))
    BY <1>0, <1>1, <1>3, <2>4
  <2>6. C \cup {u} \in SUBSET log
    BY <2>2
  <2>7. \A v \in C \cup {u} : v.count > 0 /\ good < v.pts /\ v.pts <= last'
    BY <1>2, <1>4, <1>6, <2>1, <2>3
  <2>8. good <= last'
    BY <1>0, <1>2
  <2> QED
    BY <1>2, <2>1, <2>5, <2>6, <2>7, <2>8
<1> QED
  BY <1>0, <1>5, <1>6

\* The log and the difference are as they were.
Stands == UNCHANGED <<log, serverPts, diff, requesting>>

LEMMA BoundaryStands == ASSUME Stands, NEW p, Boundary(p) PROVE Boundary(p)'
BY DEF Stands, Boundary

LEMMA LogStands ==
    ASSUME LogInv, Stands, Boundary(good'), Boundary(last')
    PROVE  LogInv'
BY DEF LogInv, Stands, Boundary

LEMMA RestsKeeps ==
    ASSUME CountsInv, OrderInv, Stands, NEW A, A \subseteq net, net' \subseteq net \ A, Rests(A)
    PROVE  OrderInv'
<1> USE DEF Rests, Stands, Apply
<1>1. LogInv'
  BY LogStands DEF OrderInv, LogInv
<1>2. CountInv'
  <2>1. PICK C \in SUBSET log : CountedSince(C)
    BY DEF OrderInv, CountInv
  <2>2. Covered(C)' = Covered(C)
    BY DEF Covered
  <2>3. CountedSince(C)'
    BY <2>1, <2>2 DEF CountedSince
  <2> QED
    BY <2>3 DEF CountInv
<1>3. QueueInv'
  BY DEF OrderInv, QueueInv
<1>4. AppliedInv'
  BY DEF OrderInv, AppliedInv, CountsInv
<1>5. NoUpdateMissed'
  BY DEF OrderInv, NoUpdateMissed, Between
<1> QED
  BY <1>1, <1>2, <1>3, <1>4, <1>5 DEF OrderInv

\* A waiter that is not inited has nothing before its first pts.
LEMMA InitKeeps ==
    ASSUME CountsInv, OrderInv, NEW p \in Nat, Boundary(p), InitPts(p), Inited => good <= p,
           UNCHANGED <<log, serverPts>>, net' \subseteq net,
           applied' \subseteq log, applied \subseteq applied', again' \subseteq applied',
           \A u \in (applied' \ applied) \cap net' : u.pts <= p,
           Inited => Between(good, p) \subseteq applied',
           diff'.stage \in {"state", "slice", "final"} => Boundary(diff'.to)
    PROVE  OrderInv'
<1>0. /\ good' = p /\ last' = p /\ count' = p /\ queue' = {}
      /\ start' = IF Inited THEN start ELSE p
      /\ good \in Nat
  BY DEF InitPts, CountsInv
<1>1. LogInv'
  BY <1>0 DEF OrderInv, LogInv, Boundary
<1>2. CountInv'
  <2>1. Covered({})' = {}
    BY DEF Covered
  <2>2. Cardinality(Covered({}))' = 0
    BY <2>1, FS_EmptySet
  <2>3. CountedSince({})'
    BY <1>0, <2>2 DEF CountedSince
  <2> QED
    BY <2>3 DEF CountInv
<1>3. QueueInv'
  BY <1>0 DEF QueueInv
<1>4. AppliedInv'
  <2> SUFFICES ASSUME NEW u \in applied' \cap net' PROVE u.pts <= p
    BY <1>0 DEF AppliedInv
  <2>1. CASE u \in applied
    <3>1. u.pts <= good /\ u.pts \in Nat
      BY <2>1, UpdateFields DEF OrderInv, AppliedInv
    <3>2. good <= p
      BY <1>0 DEF Inited
    <3> QED
      BY <1>0, <3>1, <3>2
  <2> QED
    BY <2>1
<1>5. NoUpdateMissed'
  <2>1. CASE ~Inited
    <3>1. ASSUME NEW u \in log, p < u.pts, u.pts <= p PROVE FALSE
      BY <3>1, UpdateFields
    <3> QED
      BY <1>0, <2>1, <3>1 DEF NoUpdateMissed, Between
  <2>2. CASE Inited
    <3> SUFFICES ASSUME NEW u \in log, u.count > 0, start < u.pts, u.pts <= p
                 PROVE  u \in applied'
      BY <1>0, <2>2 DEF NoUpdateMissed, Between
    <3>1. u.pts <= good \/ good < u.pts
      BY <1>0, UpdateFields
    <3> QED
      BY <2>2, <3>1 DEF OrderInv, NoUpdateMissed, Between
  <2> QED
    BY <2>1, <2>2
<1> QED
  BY <1>1, <1>2, <1>3, <1>4, <1>5 DEF OrderInv

LEMMA StartsKeeps ==
    ASSUME CountsInv, OrderInv, Stands, NEW p, NEW n, NEW A, Arrives(p, n, A), Starts(p, A)
    PROVE  OrderInv'
<1>1. p \in Nat /\ Boundary(p) /\ A \subseteq net /\ net' = net \ A
  BY DEF Arrives
<1>2. /\ ~Inited /\ InitPts(p)
      /\ applied' = applied \cup A /\ again' = again \cup (applied \cap A)
  BY DEF Starts, Apply
<1>3. applied \subseteq log /\ again \subseteq applied /\ net \subseteq log
  BY DEF OrderInv, AppliedInv, CountsInv
<1>4. diff'.stage \in {"state", "slice", "final"} => Boundary(diff'.to)
  BY DEF Stands, OrderInv, LogInv
<1>5. \A u \in (applied' \ applied) \cap net' : u.pts <= p
  BY <1>1, <1>2
<1>6. applied' \subseteq log /\ applied \subseteq applied' /\ again' \subseteq applied'
  BY <1>1, <1>2, <1>3
<1>7. UNCHANGED <<log, serverPts>> /\ net' \subseteq net
  BY <1>1 DEF Stands
<1> QED
  BY <1>1, <1>2, <1>4, <1>5, <1>6, <1>7, InitKeeps

LEMMA JoinsKeeps ==
    ASSUME CountsInv, OrderInv, serverPts <= MaxPts, Stands,
           NEW p, NEW n, NEW A, Arrives(p, n, A), Joins(p, n, A)
    PROVE  OrderInv'
<1>0. /\ good' = last' /\ count' = last' /\ queue' = {} /\ start' = start
      /\ applied' = applied \cup queue \cup A /\ Counts1(p, n) /\ ~requesting
      /\ again' = again \cup (applied \cap (queue \cup A))
      /\ A \subseteq net /\ net' = net \ A /\ Boundary(p)
  BY DEF Joins, Apply, Arrives, Counts1
<1>1. PICK C \in SUBSET log : CountedSince(C)
  BY DEF OrderInv, CountInv
<1>2. PICK D \in SUBSET log :
        /\ C \subseteq D /\ D \subseteq C \cup A
        /\ \A v \in D : v.count > 0 /\ good < v.pts /\ v.pts <= last'
        /\ count' = good + Cardinality(Covered(D))
  BY <1>0, <1>1, CountedStep DEF OrderInv
<1>3. last' \in Nat /\ good <= last' /\ last' <= serverPts /\ last <= last' /\ last' \in {last, p}
  BY <1>0, <1>1, CountedStep DEF OrderInv
<1>4. Between(good, last') \subseteq D
  BY <1>0, <1>2, <1>3, CoveredAll DEF OrderInv
<1>5. LogInv'
  <2>1. Boundary(last')
    BY <1>0, <1>3 DEF OrderInv, LogInv
  <2> QED
    BY <1>0, <2>1, LogStands DEF OrderInv
<1>6. CountInv'
  <2>1. Covered({})' = {}
    BY DEF Covered
  <2>2. Cardinality(Covered({}))' = 0
    BY <2>1, FS_EmptySet
  <2>3. CountedSince({})'
    BY <1>0, <1>3, <2>2 DEF CountedSince
  <2> QED
    BY <2>3 DEF CountInv
<1>7. QueueInv'
  BY <1>0 DEF QueueInv
<1>8. AppliedInv'
  <2>1. applied' \subseteq log' /\ again' \subseteq applied'
    BY <1>0 DEF OrderInv, AppliedInv, QueueInv, CountsInv, Stands
  <2>2. ASSUME NEW u \in applied' \cap net' PROVE u.pts <= good'
    <3>1. u \in applied \cap net
      BY <1>0, <2>2 DEF OrderInv, QueueInv
    <3>2. u.pts <= good /\ u.pts \in Nat /\ good \in Nat
      BY <3>1, UpdateFields DEF OrderInv, AppliedInv, CountsInv
    <3> QED
      BY <1>0, <1>3, <3>2
  <2> QED
    BY <2>1, <2>2 DEF AppliedInv
<1>9. NoUpdateMissed'
  <2> SUFFICES ASSUME NEW u \in log, u.count > 0, start < u.pts, u.pts <= last'
               PROVE  u \in applied'
    BY <1>0 DEF NoUpdateMissed, Between, Stands
  <2>1. u.pts <= good \/ good < u.pts
    BY UpdateFields DEF CountsInv
  <2>2. CASE u.pts <= good
    BY <1>0, <2>2 DEF OrderInv, NoUpdateMissed, Between
  <2>3. CASE good < u.pts
    <3>1. u \in C \cup A
      BY <1>2, <1>4, <2>3 DEF Between
    <3> QED
      BY <1>0, <1>1, <3>1 DEF CountedSince
  <2> QED
    BY <2>1, <2>2, <2>3
<1> QED
  BY <1>5, <1>6, <1>7, <1>8, <1>9 DEF OrderInv

LEMMA WaitsKeeps ==
    ASSUME CountsInv, OrderInv, serverPts <= MaxPts, Stands,
           NEW p, NEW n, NEW Q, NEW A, Arrives(p, n, Q \cup A), Q \cap A = {}, Waits(p, n, Q, A)
    PROVE  OrderInv'
<1>0. /\ good' = good /\ count' # last' /\ queue' = queue \cup Q /\ start' = start /\ waiting'
      /\ applied' = applied \cup A /\ Counts1(p, n) /\ ~requesting /\ n > 0
      /\ again' = again \cup (applied \cap A)
      /\ Q \cup A \subseteq net /\ net' = net \ (Q \cup A) /\ Boundary(p)
  BY DEF Waits, Apply, Arrives, Counts1
<1>1. PICK C \in SUBSET log : CountedSince(C)
  BY DEF OrderInv, CountInv
<1>2. PICK D \in SUBSET log :
        /\ C \subseteq D /\ D = C \cup (Q \cup A)
        /\ \A v \in D : v.count > 0 /\ good < v.pts /\ v.pts <= last'
        /\ count' = good + Cardinality(Covered(D))
  BY <1>0, <1>1, CountedStep DEF OrderInv
<1>3. last' \in Nat /\ good <= last' /\ last' <= serverPts /\ last <= last' /\ last' \in {last, p}
  BY <1>0, <1>1, CountedStep DEF OrderInv
<1>4. good \in Nat /\ last \in Nat /\ queue \subseteq log /\ net \subseteq log /\ applied \subseteq log
  BY DEF OrderInv, QueueInv, AppliedInv, CountsInv
<1>5. LogInv'
  <2>1. Boundary(last')
    BY <1>0, <1>3 DEF OrderInv, LogInv
  <2> QED
    BY <1>0, <2>1, LogStands DEF OrderInv, LogInv
<1>6. CountInv'
  <2>1. Covered(D)' = Covered(D)
    BY DEF Covered
  <2>2. D \subseteq log' \ net'
    BY <1>0, <1>1, <1>2 DEF CountedSince, Stands
  <2>3. D \subseteq queue' \cup applied'
    BY <1>0, <1>1, <1>2 DEF CountedSince
  <2>4. CountedSince(D)'
    BY <1>0, <1>2, <2>1, <2>2, <2>3 DEF CountedSince
  <2> QED
    BY <2>4 DEF CountInv, Stands
<1>7. QueueInv'
  <2>1. queue' \subseteq log' \ net'
    BY <1>0, <1>4 DEF OrderInv, QueueInv, Stands
  <2>2. ASSUME NEW u \in queue'
        PROVE  u.count > 0 /\ good' < u.pts /\ u.pts <= last' /\ u \notin applied'
    <3>1. CASE u \in queue
      <4>1. u.count > 0 /\ good < u.pts /\ u.pts <= last /\ u \notin applied /\ u.pts \in Nat
            /\ u \notin net
        BY <1>4, <3>1, UpdateFields DEF OrderInv, QueueInv
      <4> QED
        BY <1>0, <1>3, <1>4, <4>1
    <3>2. CASE u \in Q
      <4>1. u.count > 0 /\ good < u.pts /\ u.pts <= last' /\ u \in net /\ u \notin A
        BY <1>0, <1>2, <3>2
      <4>2. u.pts \in Nat
        BY <1>4, <4>1, UpdateFields
      <4>3. u \notin applied
        BY <1>4, <4>1, <4>2 DEF OrderInv, AppliedInv
      <4> QED
        BY <1>0, <4>1, <4>3
    <3> QED
      BY <1>0, <2>2, <3>1, <3>2
  <2> QED
    BY <1>0, <2>1, <2>2 DEF QueueInv, Stands
<1>8. AppliedInv'
  BY <1>0, <1>4 DEF OrderInv, AppliedInv, Stands
<1>9. NoUpdateMissed'
  BY <1>0 DEF OrderInv, NoUpdateMissed, Between, Stands
<1> QED
  BY <1>5, <1>6, <1>7, <1>8, <1>9 DEF OrderInv

LEMMA OpensKeeps ==
    ASSUME CountsInv, OrderInv, serverPts <= MaxPts, Stands,
           NEW p, NEW n, NEW A, Arrives(p, n, A), Opens(p, n, A)
    PROVE  OrderInv'
<1>0. /\ good' = good /\ queue' = {} /\ start' = start
      /\ applied' = applied \cup queue \cup A /\ Counts1(p, n) /\ ~requesting
      /\ again' = again \cup (applied \cap (queue \cup A))
      /\ A \subseteq net /\ net' = net \ A /\ Boundary(p)
  BY DEF Opens, Apply, Arrives, Counts1
<1>1. PICK C \in SUBSET log : CountedSince(C)
  BY DEF OrderInv, CountInv
<1>2. PICK D \in SUBSET log :
        /\ C \subseteq D /\ D \subseteq C \cup A
        /\ \A v \in D : v.count > 0 /\ good < v.pts /\ v.pts <= last'
        /\ count' = good + Cardinality(Covered(D))
  BY <1>0, <1>1, CountedStep DEF OrderInv
<1>3. last' \in Nat /\ good <= last' /\ last' \in {last, p}
  BY <1>0, <1>1, CountedStep DEF OrderInv
<1>5. LogInv'
  <2>1. Boundary(last')
    BY <1>0, <1>3 DEF OrderInv, LogInv
  <2> QED
    BY <1>0, <2>1, LogStands DEF OrderInv, LogInv
<1>6. CountInv'
  <2>1. Covered(D)' = Covered(D)
    BY DEF Covered
  <2>2. D \subseteq log' \ net'
    BY <1>0, <1>1, <1>2 DEF CountedSince, Stands
  <2>3. D \subseteq queue' \cup applied'
    BY <1>0, <1>1, <1>2 DEF CountedSince
  <2>4. CountedSince(D)'
    BY <1>0, <1>2, <2>1, <2>2, <2>3 DEF CountedSince
  <2> QED
    BY <2>4 DEF CountInv, Stands
<1>7. QueueInv'
  BY <1>0 DEF QueueInv
<1>8. AppliedInv'
  BY <1>0 DEF OrderInv, AppliedInv, QueueInv, CountsInv, Stands
<1>9. NoUpdateMissed'
  BY <1>0 DEF OrderInv, NoUpdateMissed, Between, Stands
<1> QED
  BY <1>5, <1>6, <1>7, <1>8, <1>9 DEF OrderInv

\* Nothing is received: a difference is asked for, comes or fails.
LEMMA OthersKeep ==
    ASSUME CountsInv, OrderInv, UNCHANGED <<good, last, count, log, historyVars>>, net' \subseteq net,
           \/ UNCHANGED <<queue, requesting, waiting>>
           \/ queue' = {} /\ requesting',
           diff'.stage \in {"state", "slice", "final"} => Boundary(diff'.to)
    PROVE  OrderInv'
<1> USE DEF historyVars
<1>1. LogInv'
  BY DEF OrderInv, LogInv, Boundary
<1>2. CountInv'
  <2>1. PICK C \in SUBSET log : CountedSince(C)
    BY DEF OrderInv, CountInv
  <2>2. Covered(C)' = Covered(C)
    BY DEF Covered
  <2>3. requesting' \/ C \subseteq queue' \cup applied'
    BY <2>1 DEF CountedSince
  <2>4. CountedSince(C)'
    BY <2>1, <2>2, <2>3 DEF CountedSince
  <2> QED
    BY <2>4 DEF CountInv
<1>3. QueueInv'
  <2>1. CASE queue' = queue /\ requesting' = requesting /\ waiting' = waiting
    BY <2>1 DEF OrderInv, QueueInv
  <2>2. CASE queue' = {}
    BY <2>2 DEF QueueInv
  <2> QED
    BY <2>1, <2>2
<1>4. AppliedInv'
  BY DEF OrderInv, AppliedInv
<1>5. NoUpdateMissed'
  BY DEF OrderInv, NoUpdateMissed, Between
<1> QED
  BY <1>1, <1>2, <1>3, <1>4, <1>5 DEF OrderInv

LEMMA AskOrder ==
    ASSUME IInv, OrderInv, AskForDifference, net' \subseteq net,
           UNCHANGED <<good, last, count, waiting, log, historyVars>>
    PROVE  OrderInv'
<1>1. CASE requesting \/ ~Inited
  BY <1>1, OthersKeep DEF IInv, OrderInv, LogInv, AskForDifference
<1>2. CASE ~(requesting \/ ~Inited)
  <2>1. diff' = [stage |-> "sent", from |-> good, to |-> good]
    BY <1>2 DEF AskForDifference
  <2>2. diff'.stage = "sent"
    BY <2>1
  <2>3. queue' = {} /\ requesting'
    BY <1>2 DEF AskForDifference, InRequest
  <2> QED
    BY <2>2, <2>3, OthersKeep DEF IInv
<1> QED
  BY <1>1, <1>2

\* A difference brings all up to where the waiter is set.
LEMMA BroughtKeeps ==
    ASSUME IInv, OrderInv, diff.stage \in {"slice", "final"}, Apply(Brought), InitPts(diff.to),
           UNCHANGED <<log, serverPts, net>>, diff'.stage \in {"sent", "none"}
    PROVE  OrderInv'
<1>1. diff.to \in Nat /\ diff.from = good /\ good <= diff.to /\ Boundary(diff.to)
  BY DiffType DEF IInv, DiffInv, OrderInv, LogInv
<1>2. applied' = applied \cup Brought /\ again' = again \cup (applied \cap Brought)
  BY DEF Apply
<1>3. \A u \in Brought : u \in log /\ u.pts <= diff.to
  BY DEF Brought
<1>4. Between(good, diff.to) \subseteq Brought
  BY <1>1 DEF Between, Brought
<1>5. applied' \subseteq log /\ applied \subseteq applied' /\ again' \subseteq applied'
  BY <1>2, <1>3 DEF OrderInv, AppliedInv
<1>6. \A u \in (applied' \ applied) \cap net' : u.pts <= diff.to
  BY <1>2, <1>3
<1>7. Between(good, diff.to) \subseteq applied'
  BY <1>2, <1>4
<1>8. ~(diff'.stage \in {"state", "slice", "final"})
  OBVIOUS
<1> QED
  BY <1>1, <1>5, <1>6, <1>7, <1>8, InitKeeps DEF IInv

LEMMA ServerKeeps ==
    ASSUME CountsInv, DiffInv, OrderInv, NEW n \in Counts, NEW source, ServerAdds(n, source)
    PROVE  OrderInv'
<1> DEFINE u == [pts |-> serverPts + n, count |-> n, source |-> source]
<1>1. /\ n \in Nat /\ log' = log \cup {u} /\ net' = net \cup {u} /\ u \notin log
      /\ UNCHANGED <<good, last, count, queue, requesting, waiting, diff, start, applied, again>>
  BY CountsAssumption DEF ServerAdds, gapVars, timerVars, historyVars
<1>2. u.pts = serverPts + n /\ u.count = n
  OBVIOUS
<1>3. good \in Nat /\ last \in Nat /\ serverPts \in Nat /\ good <= serverPts /\ last <= serverPts
  BY DEF CountsInv
<1> HIDE DEF u
<1>4. ASSUME NEW p \in Nat, p <= serverPts, Boundary(p) PROVE Boundary(p)'
  <2> SUFFICES ASSUME NEW v \in log', v.count > 0, p < v.pts PROVE p + v.count <= v.pts
    BY DEF Boundary
  <2>1. CASE v = u
    BY <1>1, <1>2, <1>3, <1>4, <2>1
  <2>2. CASE v \in log
    BY <1>4, <2>2 DEF Boundary
  <2> QED
    BY <1>1, <2>1, <2>2
<1>5. LogInv'
  <2>0. ASSUME NEW v \in log' PROVE v.count <= v.pts
    BY <1>1, <1>2, <1>3 DEF OrderInv, LogInv
  <2>1. ASSUME NEW v \in log' PROVE Boundary(v.pts)'
    <3>1. CASE v \in log
      BY <1>4, <3>1, UpdateFields DEF OrderInv, LogInv
    <3>2. CASE v = u
      <4> SUFFICES ASSUME NEW w \in log', w.count > 0, v.pts < w.pts PROVE FALSE
        BY DEF Boundary
      <4>1. CASE w \in log
        BY <1>1, <1>2, <1>3, <3>2, <4>1, UpdateFields
      <4> QED
        BY <1>1, <1>2, <1>3, <3>2, <4>1
    <3> QED
      BY <1>1, <3>1, <3>2
  <2>2. ASSUME NEW v \in log', NEW w \in log', v.count > 0, w.count > 0, v.pts = w.pts
        PROVE  v = w
    <3>1. \A x \in log : x.pts \in Nat /\ x.pts <= serverPts
      BY UpdateFields
    <3>2. CASE v \in log /\ w \in log
      BY <2>2, <3>2 DEF OrderInv, LogInv
    <3>3. CASE v = u /\ w \in log
      BY <1>1, <1>2, <1>3, <2>2, <3>1, <3>3
    <3>4. CASE w = u /\ v \in log
      BY <1>1, <1>2, <1>3, <2>2, <3>1, <3>4
    <3> QED
      BY <1>1, <3>2, <3>3, <3>4
  <2>3. Boundary(good') /\ Boundary(last')
    BY <1>1 DEF OrderInv, LogInv
  <2>4. Boundary(good)' /\ Boundary(last)'
    BY <1>1, <1>3, <1>4, <2>3 DEF Boundary
  <2>5. diff.to \in Nat /\ diff.to <= serverPts
    BY DiffType DEF DiffInv
  <2>6. diff'.stage \in {"state", "slice", "final"} => Boundary(diff.to)'
    BY <1>1, <1>4, <2>5 DEF OrderInv, LogInv, Boundary
  <2> QED
    BY <2>0, <2>1, <2>2, <2>4, <2>6 DEF LogInv
<1>6. CountInv'
  <2>1. PICK C \in SUBSET log : CountedSince(C)
    BY DEF OrderInv, CountInv
  <2>2. Covered(C)' = Covered(C)
    BY DEF Covered
  <2>3. C \subseteq log' \ net'
    BY <1>1, <2>1 DEF CountedSince
  <2>4. CountedSince(C)'
    BY <1>1, <2>1, <2>2, <2>3 DEF CountedSince
  <2> QED
    BY <2>3, <2>4 DEF CountInv
<1>7. QueueInv'
  BY <1>1 DEF OrderInv, QueueInv
<1>8. AppliedInv'
  BY <1>1 DEF OrderInv, AppliedInv
<1>9. NoUpdateMissed'
  BY <1>1, <1>2, <1>3 DEF OrderInv, NoUpdateMissed, Between
<1> QED
  BY <1>5, <1>6, <1>7, <1>8, <1>9 DEF OrderInv

-----------------------------------------------------------------------------
(* Every step. *)

WInv == OrderInv /\ FlagsInv

LEMMA ArrivesOne ==
    ASSUME IInv, OrderInv, NEW u \in net, net' = net \ {u}
    PROVE  u \in Update /\ Arrives(u.pts, u.count, {u})
<1>1. u \in log /\ u \in Update /\ u.pts \in Nat /\ u.count \in Nat /\ u.pts <= serverPts
  BY UpdateFields DEF IInv, CountsInv
<1>2. Boundary(u.pts)
  BY <1>1 DEF OrderInv, LogInv
<1> QED
  BY <1>1, <1>2 DEF Arrives

\* A step of the waiter keeps the flags and where the log starts.
LEMMA FlagsKeep ==
    ASSUME IInv, FlagsInv, GoodMoves, FlagsMove, UNCHANGED <<serverPts, faults, active>>,
           start' = start \/ (start' = good' /\ ~Inited)
    PROVE  FlagsInv'
BY DEF FlagsInv, FlagsMove, GoodMoves, IInv, CountsInv

LEMMA WaiterKeeps ==
    ASSUME IInv, WInv, Stands, GoodMoves, FlagsMove, UNCHANGED <<faults, active>>,
           NEW p, NEW n, NEW A, Arrives(p, n, A),
           \/ Rests({}) \/ Rests(A) \/ Starts(p, A) \/ Joins(p, n, A)
           \/ Waits(p, n, A, {}) \/ Waits(p, n, {}, A) \/ Opens(p, n, A)
    PROVE  WInv'
<1>0. CountsInv /\ OrderInv /\ serverPts <= MaxPts
  BY BoundsAssumption DEF IInv, WInv, FlagsInv
<1>1. A \subseteq net /\ net' = net \ A
  BY DEF Arrives
<1>2. OrderInv'
  <2>1. CASE Rests({}) \/ Rests(A)
    <3>1. {} \subseteq net /\ net' \subseteq net \ {} /\ net' \subseteq net \ A
      BY <1>1
    <3> QED
      BY <1>0, <1>1, <2>1, <3>1, RestsKeeps
  <2>2. CASE Starts(p, A)
    BY <1>0, <2>2, StartsKeeps
  <2>3. CASE Joins(p, n, A)
    BY <1>0, <2>3, JoinsKeeps
  <2>4. CASE Waits(p, n, A, {}) \/ Waits(p, n, {}, A)
    <3>1. Arrives(p, n, A \cup {}) /\ Arrives(p, n, {} \cup A) /\ A \cap {} = {} /\ {} \cap A = {}
      <4>1. A \cup {} = A /\ {} \cup A = A
        OBVIOUS
      <4> QED
        BY <4>1
    <3> QED
      BY <1>0, <2>4, <3>1, WaitsKeeps
  <2>5. CASE Opens(p, n, A)
    BY <1>0, <2>5, OpensKeeps
  <2> QED
    BY <2>1, <2>2, <2>3, <2>4, <2>5
<1>3. start' = start \/ (start' = good' /\ ~Inited)
  <2>1. Starts(p, A) => start' = good' /\ ~Inited
    BY DEF Starts, InitPts
  <2> QED
    BY <2>1 DEF Rests, Joins, Waits, Opens, Counts1
<1>4. FlagsInv'
  BY <1>3, FlagsKeep DEF WInv, Stands
<1> QED
  BY <1>2, <1>4 DEF WInv

\* The same of a step in which nothing is received.
LEMMA FlagsOther ==
    ASSUME IInv, FlagsInv, start' = start, good' = good, serverPts' = serverPts,
           faults' = faults \/ Fault,
           waiting' \in BOOLEAN, byPts' \in BOOLEAN, shortPoll' \in BOOLEAN, active' \in BOOLEAN
    PROVE  FlagsInv'
<1>1. faults' \in 0 .. MaxFaults
  BY BoundsAssumption DEF FlagsInv, Fault
<1> QED
  BY <1>1 DEF FlagsInv

LEMMA FlagsAsked ==
    ASSUME IInv, WInv, AskForDifference, net' \subseteq net, faults' = faults \/ Fault,
           UNCHANGED <<good, last, count, waiting, shortPoll, active, log, serverPts, historyVars>>
    PROVE  WInv'
<1>1. OrderInv'
  BY AskOrder DEF WInv
<1>2. FlagsInv'
  <2>1. byPts' \in BOOLEAN
    BY DEF AskForDifference
  <2> QED
    BY <2>1, FlagsOther DEF WInv, FlagsInv, historyVars
<1> QED
  BY <1>1, <1>2 DEF WInv

LEMMA NextOrder == ASSUME IInv, WInv, [Next]_vars PROVE WInv'
<1> USE DEF WInv
<1>0. CASE UNCHANGED vars
  <2>1. OrderInv'
    BY <1>0, OthersKeep DEF vars, gapVars, timerVars, serverVars, IInv, OrderInv, LogInv
  <2> QED
    BY <1>0, <2>1, FlagsOther DEF vars, gapVars, timerVars, serverVars, historyVars, FlagsInv
<1>1. ASSUME NEW u \in net, ReceiveUpdate(u) PROVE WInv'
  <2>1. net' = net \ {u} /\ Stands /\ UNCHANGED <<faults, active>>
    BY <1>1 DEF ReceiveUpdate, Took, serverVars, DiffFrame, Stands
  <2>2. u \in Update /\ Arrives(u.pts, u.count, {u}) /\ u.pts <= serverPts
    BY <2>1, ArrivesOne DEF Arrives
  <2>3. CASE Ignored(u)
    <3>1. UNCHANGED <<gapVars, timerVars, historyVars>>
      BY <1>1, <2>3 DEF ReceiveUpdate
    <3>2. Rests({}) /\ FlagsMove /\ GoodMoves
      BY <3>1 DEF gapVars, timerVars, historyVars, Rests, Apply, FlagsMove, FlagsInv, GoodMoves,
                  IInv, CountsInv
    <3> QED
      BY <2>1, <2>2, <3>2, WaiterKeeps
  <2>4. CASE ~Ignored(u)
    <3>1. UpdateAndApply(u)
      BY <1>1, <2>4 DEF ReceiveUpdate
    <3>2. GoodMoves
      BY <2>2, <3>1, UpdateMoves DEF IInv
    <3>3. /\ FlagsMove
          /\ \/ Rests({}) \/ Rests({u}) \/ Starts(u.pts, {u}) \/ Joins(u.pts, u.count, {u})
             \/ Waits(u.pts, u.count, {u}, {}) \/ Waits(u.pts, u.count, {}, {u})
             \/ Opens(u.pts, u.count, {u})
      BY <2>2, <3>1, UpdateShapes DEF OrderInv
    <3> QED
      BY <2>1, <2>2, <3>2, <3>3, WaiterKeeps
  <2> QED
    BY <2>3, <2>4
<1>2. ASSUME NEW u \in net, UnknownPeer(u) PROVE WInv'
  BY <1>2, FlagsAsked DEF UnknownPeer, Took
<1>3. ASSUME NEW u \in net, ApplyAffected(u) PROVE WInv'
  <2>1. net' = net \ {u} /\ Stands /\ UNCHANGED <<faults, active>>
        /\ UpdateAndApplyCount(u.pts, u.count, {u})
    BY <1>3 DEF ApplyAffected, Took, serverVars, DiffFrame, Stands
  <2>2. u \in Update /\ Arrives(u.pts, u.count, {u})
    BY <2>1, ArrivesOne
  <2>3. u.pts \in Nat /\ u.count \in Nat /\ u.pts <= serverPts
    BY <2>2 DEF Arrives
  <2>4. GoodMoves
    BY <2>1, <2>3, CountMoves DEF IInv
  <2>5. /\ FlagsMove
        /\ \/ Rests({}) \/ Rests({u}) \/ Starts(u.pts, {u}) \/ Joins(u.pts, u.count, {u})
           \/ Waits(u.pts, u.count, {u}, {}) \/ Waits(u.pts, u.count, {}, {u})
           \/ Opens(u.pts, u.count, {u})
    BY <2>1, <2>3, CountShapes DEF OrderInv
  <2> QED
    BY <2>1, <2>2, <2>4, <2>5, WaiterKeeps
<1>4. CASE PtsReceived
  <2>1. net' = net /\ Stands /\ UNCHANGED <<faults, active>>
        /\ UpdateAndApplyCount(serverPts, 0, {})
    BY <1>4 DEF PtsReceived, serverVars, DiffFrame, Stands
  <2>2. serverPts \in Nat /\ serverPts <= serverPts /\ 0 \in Nat
    BY DEF IInv, CountsInv
  <2>3. Boundary(serverPts)
    <3> SUFFICES ASSUME NEW v \in log, serverPts < v.pts PROVE FALSE
      BY DEF Boundary
    <3> QED
      BY <2>2, UpdateFields DEF IInv
  <2>4. Arrives(serverPts, 0, {})
    BY <2>1, <2>2, <2>3 DEF Arrives
  <2>5. GoodMoves
    BY <2>1, <2>2, CountMoves DEF IInv
  <2>6. /\ FlagsMove
        /\ \/ Rests({}) \/ Starts(serverPts, {}) \/ Joins(serverPts, 0, {})
           \/ Waits(serverPts, 0, {}, {}) \/ Opens(serverPts, 0, {})
    BY <2>1, <2>2, CountShapes DEF OrderInv
  <2> QED
    BY <2>1, <2>4, <2>5, <2>6, WaiterKeeps
<1>5. CASE TooLong
  BY <1>5, FlagsAsked DEF TooLong
<1>6. CASE GetDifferenceByPts
  BY <1>6, FlagsAsked DEF GetDifferenceByPts, serverVars
<1>7. CASE GetDifferenceAfterFail
  <2>1. diff' = [stage |-> "sent", from |-> good, to |-> good]
        /\ UNCHANGED <<good, last, count, requesting, waiting, shortPoll, active, log, serverPts,
                       faults, net, historyVars>>
        /\ queue' = {} /\ byPts' = FALSE /\ requesting'
    BY <1>7 DEF GetDifferenceAfterFail, serverVars, IInv, DiffInv
  <2>2. diff'.stage = "sent"
    BY <2>1
  <2>3. OrderInv'
    BY <2>1, <2>2, OthersKeep DEF IInv
  <2> QED
    BY <2>1, <2>3, FlagsOther DEF historyVars, FlagsInv
<1>8. CASE DifferenceFail
  <2>1. diff' = NoDiff /\ Fault
        /\ UNCHANGED <<good, last, count, queue, requesting, waiting, byPts, shortPoll, active, log,
                       serverPts, net, historyVars>>
    BY <1>8 DEF DifferenceFail, gapVars, timerVars
  <2>2. diff'.stage = "none"
    BY <2>1 DEF NoDiff
  <2>3. OrderInv'
    BY <2>1, <2>2, OthersKeep DEF IInv
  <2> QED
    BY <2>1, <2>3, FlagsOther DEF historyVars, FlagsInv
<1>9. CASE StateDone
  <2>1. diff.stage = "state" /\ diff' = NoDiff /\ InitPts(diff.to)
        /\ UNCHANGED <<waiting, byPts, shortPoll, active, log, serverPts, faults, net, applied, again>>
    BY <1>9 DEF StateDone, timerVars, serverVars
  <2>2. diff'.stage = "none"
    BY <2>1 DEF NoDiff
  <2>3. diff.to \in Nat /\ Boundary(diff.to) /\ ~Inited
    BY <2>1, DiffType DEF IInv, DiffInv, OrderInv, LogInv, Inited
  <2>4. applied' \subseteq log /\ applied \subseteq applied' /\ again' \subseteq applied'
        /\ \A u \in (applied' \ applied) \cap net' : u.pts <= diff.to
    BY <2>1 DEF OrderInv, AppliedInv
  <2>5. OrderInv'
    BY <2>1, <2>2, <2>3, <2>4, InitKeeps DEF IInv
  <2>6. start' = diff.to /\ good' = diff.to
    BY <2>1, <2>3 DEF InitPts
  <2>7. FlagsInv'
    BY <2>1, <2>3, <2>6 DEF FlagsInv
  <2> QED
    BY <2>5, <2>7
<1>10. CASE DifferenceSlice
  <2>1. diff.stage = "slice" /\ diff' = [stage |-> "sent", from |-> diff.to, to |-> diff.to]
        /\ Apply(Brought) /\ InitPts(diff.to) /\ byPts' = FALSE
        /\ UNCHANGED <<waiting, shortPoll, active, log, serverPts, faults, net>>
    BY <1>10 DEF DifferenceSlice, serverVars
  <2>2. diff'.stage = "sent"
    BY <2>1
  <2>3. OrderInv'
    BY <2>1, <2>2, BroughtKeeps
  <2>4. start' \in Nat /\ start' <= good'
    BY <2>1, DiffType DEF InitPts, IInv, DiffInv, CountsInv, FlagsInv
  <2>5. FlagsInv'
    BY <2>1, <2>4 DEF FlagsInv
  <2> QED
    BY <2>3, <2>5
<1>11. CASE DifferenceDone
  <2>1. diff.stage = "final" /\ diff' = NoDiff
        /\ Apply(Brought) /\ InitPts(diff.to)
        /\ UNCHANGED <<waiting, active, log, serverPts, faults, net>>
    BY <1>11 DEF DifferenceDone, serverVars
  <2>2. diff'.stage = "none"
    BY <2>1 DEF NoDiff
  <2>3. OrderInv'
    BY <2>1, <2>2, BroughtKeeps
  <2>4. start' \in Nat /\ start' <= good'
    BY <2>1, DiffType DEF InitPts, IInv, DiffInv, CountsInv, FlagsInv
  <2>5. byPts' \in BOOLEAN /\ shortPoll' \in BOOLEAN
    BY <1>11 DEF DifferenceDone, FlagsInv
  <2>6. FlagsInv'
    BY <2>1, <2>4, <2>5 DEF FlagsInv
  <2> QED
    BY <2>3, <2>6
<1>12. CASE ToggleChat
  <2>1. UNCHANGED <<good, last, count, queue, requesting, waiting, diff, log, serverPts, faults, net,
                    historyVars>>
    BY <1>12 DEF ToggleChat, gapVars, serverVars
  <2>2. OrderInv'
    BY <2>1, OthersKeep DEF IInv, OrderInv, LogInv
  <2>3. active' \in BOOLEAN /\ shortPoll' \in BOOLEAN /\ byPts' \in BOOLEAN
    BY <1>12 DEF ToggleChat
  <2> QED
    BY <2>1, <2>2, <2>3, FlagsOther DEF historyVars, FlagsInv
<1>13. ASSUME NEW n \in Counts, NEW source, ServerAdds(n, source) PROVE WInv'
  <2>1. OrderInv'
    BY <1>13, ServerKeeps DEF IInv
  <2>2. n \in Nat /\ serverPts' = serverPts + n /\ serverPts + n <= MaxPts
        /\ UNCHANGED <<good, start, faults, waiting, byPts, shortPoll, active>>
    BY <1>13, CountsAssumption DEF ServerAdds, gapVars, timerVars, historyVars
  <2>3. serverPts' \in 1 .. MaxPts
    BY <2>2, BoundsAssumption DEF FlagsInv
  <2>4. FlagsInv'
    BY <2>2, <2>3 DEF FlagsInv
  <2> QED
    BY <2>1, <2>4
<1>14. CASE ServerAnswers
  <2>1. UNCHANGED <<good, last, count, queue, requesting, waiting, byPts, shortPoll, active, log,
                    serverPts, faults, net, historyVars>>
    BY <1>14 DEF ServerAnswers, gapVars, timerVars, serverVars
  <2>2. Boundary(diff'.to)
    <3>1. CASE diff' = [diff EXCEPT !.stage = "final", !.to = serverPts]
      <4>1. diff'.to = serverPts
        BY <3>1, AnsweredDiff DEF Stages, IsDiff, IInv, CountsInv, DiffInv
      <4> SUFFICES ASSUME NEW v \in log, serverPts < v.pts PROVE FALSE
        BY <4>1 DEF Boundary
      <4> QED
        BY UpdateFields DEF IInv, CountsInv
    <3>2. ASSUME NEW u \in log, diff' = [diff EXCEPT !.stage = "slice", !.to = u.pts]
          PROVE  Boundary(diff'.to)
      <4>1. diff'.to = u.pts
        BY <3>2, UpdateFields, AnsweredDiff DEF Stages, IsDiff, IInv, DiffInv
      <4> QED
        BY <4>1 DEF OrderInv, LogInv
    <3> QED
      BY <1>14, <3>1, <3>2 DEF ServerAnswers
  <2>3. OrderInv'
    BY <2>1, <2>2, OthersKeep DEF IInv
  <2> QED
    BY <2>1, <2>3, FlagsOther DEF historyVars, FlagsInv
<1>15. CASE ServerAnswersState
  <2>1. UNCHANGED <<good, last, count, queue, requesting, waiting, byPts, shortPoll, active, log,
                    serverPts, faults, net, historyVars>>
    BY <1>15 DEF ServerAnswersState, gapVars, timerVars, serverVars
  <2>2. Boundary(diff'.to)
    <3>1. diff'.to = serverPts
      <4>1. diff' = [diff EXCEPT !.stage = "state", !.to = serverPts]
        BY <1>15 DEF ServerAnswersState
      <4>2. IsDiff(diff', "state", diff.from, serverPts)
        BY <4>1, AnsweredDiff DEF Stages, IInv, CountsInv, DiffInv
      <4> QED
        BY <4>2 DEF IsDiff
    <3> SUFFICES ASSUME NEW v \in log, serverPts < v.pts PROVE FALSE
      BY <3>1 DEF Boundary
    <3> QED
      BY UpdateFields DEF IInv, CountsInv
  <2>3. OrderInv'
    BY <2>1, <2>2, OthersKeep DEF IInv
  <2> QED
    BY <2>1, <2>3, FlagsOther DEF historyVars, FlagsInv
<1> QED
  BY <1>0, <1>1, <1>2, <1>3, <1>4, <1>5, <1>6, <1>7, <1>8, <1>9, <1>10, <1>11, <1>12,
     <1>13, <1>14, <1>15 DEF Next

LEMMA InitOrder == Init => WInv
<1> SUFFICES ASSUME Init PROVE WInv
  OBVIOUS
<1>1. /\ good = 0 /\ last = 0 /\ count = 0 /\ queue = {} /\ log = {} /\ net = {}
      /\ applied = {} /\ again = {} /\ start = 0 /\ serverPts = 1 /\ faults = 0
      /\ waiting = FALSE /\ byPts = FALSE /\ shortPoll = FALSE /\ active = FALSE
  BY DEF Init
<1>2. LogInv
  BY <1>1 DEF LogInv, Boundary
<1>3. CountInv
  <2>1. Covered({}) = {}
    BY DEF Covered
  <2>2. Cardinality(Covered({})) = 0
    BY <2>1, FS_EmptySet
  <2>3. CountedSince({})
    BY <1>1, <2>2 DEF CountedSince
  <2> QED
    BY <2>3 DEF CountInv
<1>4. QueueInv /\ AppliedInv /\ NoUpdateMissed
  BY <1>1 DEF QueueInv, AppliedInv, NoUpdateMissed, Between
<1>5. FlagsInv
  <2>1. serverPts \in 1 .. MaxPts /\ faults \in 0 .. MaxFaults
    BY <1>1, BoundsAssumption
  <2>2. start \in Nat /\ start <= good
    BY <1>1
  <2> QED
    BY <1>1, <2>1, <2>2 DEF FlagsInv
<1> QED
  BY <1>2, <1>3, <1>4, <1>5 DEF WInv, OrderInv

-----------------------------------------------------------------------------
(* The order, where a count of zero does not open a gap. *)

\* What the server pushed is applied up to _good and no further, and once.
PushInv ==
    /\ \A u \in applied : u.source = "push" => u.pts <= good
    /\ AppliedOnce

\* A step that applies A, none of it pushed before its turn or again.
LEMMA AppliesInTurn ==
    ASSUME IInv, WInv, PushInv, good' >= good, good' \in Nat, NEW A, A \subseteq log, Apply(A),
           \A u \in A : u.source = "push" => u.pts <= good' /\ u \notin applied
    PROVE  PushInv'
<1>1. applied' = applied \cup A /\ again' = again \cup (applied \cap A)
  BY DEF Apply
<1>2. ASSUME NEW u \in applied, u.source = "push" PROVE u.pts <= good'
  <2>1. u.pts <= good /\ u \in log
    BY <1>2 DEF PushInv, WInv, OrderInv, AppliedInv
  <2> QED
    BY <2>1, UpdateFields DEF IInv, CountsInv
<1>3. AppliedOnce'
  BY <1>1 DEF PushInv, AppliedOnce
<1> QED
  BY <1>1, <1>2, <1>3 DEF PushInv

LEMMA WaiterInTurn ==
    ASSUME IInv, WInv, PushInv, GoodMoves, NEW p, NEW n, NEW A, Arrives(p, n, A), n > 0,
           \/ Rests({})
           \/ Rests(A) /\ (\A u \in A : u.source # "push")
           \/ Starts(p, A) \/ Joins(p, n, A) \/ Waits(p, n, A, {})
           \/ Waits(p, n, {}, A) /\ (\A u \in A : u.source # "push")
    PROVE  PushInv'
<1>1. good' >= good /\ good' \in Nat /\ last' \in Nat /\ good \in Nat /\ last \in Nat
  BY DEF GoodMoves, IInv, CountsInv
<1>2. PICK u \in net : A = {u} /\ u.pts = p /\ u.count = n
  BY DEF Arrives
<1>3. A \subseteq log /\ u \in log /\ u.pts \in Nat /\ queue \subseteq log
  BY <1>2, UpdateFields DEF IInv, CountsInv, WInv, OrderInv, QueueInv
<1>4. CASE Rests({}) \/ Waits(p, n, A, {})
  <2>1. Apply({})
    BY <1>4 DEF Rests, Waits
  <2> QED
    BY <1>1, <2>1, AppliesInTurn
<1>5. CASE (Rests(A) \/ Waits(p, n, {}, A)) /\ (\A v \in A : v.source # "push")
  <2>1. Apply(A)
    BY <1>5 DEF Rests, Waits
  <2> QED
    BY <1>1, <1>3, <1>5, <2>1, AppliesInTurn
<1>6. CASE Starts(p, A)
  <2>1. Apply(A) /\ good' = p /\ good = 0
    BY <1>1, <1>6 DEF Starts, InitPts, Inited
  <2>2. u.source = "push" => u \notin applied
    <3>1. u.count \in Nat /\ u.count <= u.pts
      BY <1>3, UpdateFields DEF IInv, WInv, OrderInv, LogInv
    <3>2. u.pts > 0
      BY <1>2, <1>3, <3>1
    <3> QED
      BY <1>3, <2>1, <3>2 DEF PushInv
  <2> QED
    BY <1>1, <1>2, <1>3, <2>1, <2>2, AppliesInTurn
<1>7. CASE Joins(p, n, A)
  <2>1. Apply(queue \cup A) /\ good' = last' /\ Counts1(p, n)
    BY <1>7 DEF Joins
  <2>2. last' = Max2(last, p) /\ p \in Nat /\ good < p
    BY <1>1, <1>2, <1>3, <2>1 DEF Counts1, Counted, IsOld, Arrives
  <2>3. \A v \in queue : v.pts <= last' /\ v \notin applied
    <3>1. \A v \in queue : v.pts \in Nat /\ v.pts <= last /\ v \notin applied
      BY <1>3, UpdateFields DEF IInv, WInv, OrderInv, QueueInv
    <3> QED
      BY <1>1, <2>2, <3>1 DEF Max2
  <2>4. u.pts <= last' /\ u \notin applied
    BY <1>1, <1>2, <2>2 DEF Max2, WInv, OrderInv, AppliedInv
  <2>5. queue \cup A \subseteq log
    BY <1>3
  <2> QED
    BY <1>1, <1>2, <2>1, <2>3, <2>4, <2>5, AppliesInTurn
<1> QED
  BY <1>4, <1>5, <1>6, <1>7

LEMMA PushStands ==
    ASSUME PushInv, UNCHANGED <<good, applied, again>>
    PROVE  PushInv'
BY DEF PushInv, AppliedOnce

LEMMA BroughtInTurn ==
    ASSUME IInv, WInv, PushInv, diff.stage \in {"slice", "final"}, Apply(Brought), InitPts(diff.to)
    PROVE  PushInv'
<1>1. diff.to \in Nat /\ diff.from = good /\ good <= diff.to /\ good \in Nat /\ good' = diff.to
  BY DiffType DEF IInv, DiffInv, CountsInv, InitPts
<1>2. \A u \in Brought : u.pts <= good' /\ (u.source = "push" => u \notin applied)
  <2> SUFFICES ASSUME NEW u \in log, good < u.pts, u.pts <= diff.to
               PROVE  u.source = "push" => u \notin applied
    BY <1>1 DEF Brought
  <2>1. u.pts \in Nat
    BY UpdateFields DEF IInv
  <2> QED
    BY <1>1, <2>1 DEF PushInv
<1>3. Brought \subseteq log
  BY DEF Brought
<1> QED
  BY <1>1, <1>2, <1>3, AppliesInTurn

LEMMA NextInTurn ==
    ASSUME 0 \notin Counts, "received" \notin Sources, IInv, WInv, PushInv, [Next]_vars
    PROVE  PushInv'
<1> USE CountsAssumption
<1>0. CASE UNCHANGED vars
  BY <1>0, PushStands DEF vars, gapVars, historyVars
<1>1. ASSUME NEW u \in net, ReceiveUpdate(u) PROVE PushInv'
  <2>1. net' = net \ {u} /\ u.source \in {"push", "result"}
    BY <1>1 DEF ReceiveUpdate, Took
  <2>2. u \in Update /\ Arrives(u.pts, u.count, {u}) /\ u.count > 0 /\ u.pts <= serverPts
    <3>1. u \in Update /\ Arrives(u.pts, u.count, {u}) /\ u.count \in Counts
      BY <2>1, ArrivesOne DEF IInv, CountsInv, WInv
    <3> QED
      BY <3>1 DEF Arrives
  <2>3. CASE Ignored(u)
    BY <1>1, <2>3, PushStands DEF ReceiveUpdate, gapVars, historyVars
  <2>4. CASE ~Ignored(u)
    <3>1. UpdateAndApply(u)
      BY <1>1, <2>4 DEF ReceiveUpdate
    <3>2. GoodMoves
      BY <2>2, <3>1, UpdateMoves DEF IInv
    <3>3. requesting => u.source # "push"
      BY <2>4 DEF Ignored
    <3>4. u.count # 0
      BY <2>2
    <3>5. \/ requesting /\ Rests({u})
          \/ Rests({}) \/ Starts(u.pts, {u}) \/ Joins(u.pts, u.count, {u})
          \/ Waits(u.pts, u.count, {u}, {})
      BY <2>2, <3>1, <3>4, UpdateShapes DEF WInv, OrderInv, Opens
    <3> QED
      BY <2>2, <3>2, <3>3, <3>5, WaiterInTurn
  <2> QED
    BY <2>3, <2>4
<1>2. ASSUME NEW u \in net, UnknownPeer(u) PROVE PushInv'
  BY <1>2, PushStands DEF UnknownPeer, historyVars
<1>3. ASSUME NEW u \in net, ApplyAffected(u) PROVE PushInv'
  <2>1. net' = net \ {u} /\ u.source = "affected" /\ UpdateAndApplyCount(u.pts, u.count, {u})
    BY <1>3 DEF ApplyAffected, Took
  <2>2. Arrives(u.pts, u.count, {u}) /\ u.count \in Counts
    BY <2>1, ArrivesOne DEF IInv, CountsInv, WInv
  <2>3. u.pts \in Nat /\ u.count \in Nat /\ u.pts <= serverPts /\ u.count > 0
    BY <2>2 DEF Arrives
  <2>4. GoodMoves
    BY <2>1, <2>3, CountMoves DEF IInv
  <2>5. \/ Rests({u}) \/ Starts(u.pts, {u}) \/ Joins(u.pts, u.count, {u})
        \/ Waits(u.pts, u.count, {}, {u})
    <3>1. ~Opens(u.pts, u.count, {u})
      BY <2>3 DEF Opens
    <3> QED
      BY <2>1, <2>3, <3>1, CountShapes DEF WInv, OrderInv
  <2>6. \A v \in {u} : v.source # "push"
    BY <2>1
  <2> QED
    BY <2>2, <2>3, <2>4, <2>5, <2>6, WaiterInTurn
<1>4. CASE PtsReceived
  <2>1. ~Inited /\ UpdateAndApplyCount(serverPts, 0, {})
    BY <1>4 DEF PtsReceived
  <2>2. serverPts \in Nat /\ 0 \in Nat
    BY DEF IInv, CountsInv
  <2>3. Rests({}) \/ Starts(serverPts, {})
    BY <2>1, <2>2, CountShapes DEF WInv, OrderInv, Joins, Waits, Opens, Counts1
  <2>4. GoodMoves
    BY <2>1, <2>2, CountMoves DEF IInv
  <2>5. Apply({}) /\ good' >= good /\ good' \in Nat
    BY <2>3, <2>4 DEF Rests, Starts, GoodMoves, IInv, CountsInv
  <2> QED
    BY <2>5, AppliesInTurn
<1>5. CASE TooLong \/ GetDifferenceByPts \/ GetDifferenceAfterFail \/ DifferenceFail
  BY <1>5, PushStands DEF TooLong, GetDifferenceByPts, GetDifferenceAfterFail, DifferenceFail,
                          gapVars, historyVars
<1>6. CASE StateDone
  <2>1. InitPts(diff.to) /\ UNCHANGED <<applied, again>>
    BY <1>6 DEF StateDone
  <2>2. good' >= good /\ good' \in Nat
    BY <1>6, NextKeeps DEF Next, IInv, CountsInv
  <2>3. Apply({})
    BY <2>1 DEF Apply
  <2> QED
    BY <2>2, <2>3, AppliesInTurn
<1>7. CASE DifferenceSlice \/ DifferenceDone
  BY <1>7, BroughtInTurn DEF DifferenceSlice, DifferenceDone
<1>8. CASE ToggleChat
  BY <1>8, PushStands DEF ToggleChat, gapVars, historyVars
<1>9. ASSUME NEW n, NEW source, ServerAdds(n, source) PROVE PushInv'
  BY <1>9, PushStands DEF ServerAdds, gapVars, historyVars
<1>10. CASE ServerAnswers \/ ServerAnswersState
  BY <1>10, PushStands DEF ServerAnswers, ServerAnswersState, gapVars, historyVars
<1> QED
  BY <1>0, <1>1, <1>2, <1>3, <1>4, <1>5, <1>6, <1>7, <1>8, <1>9, <1>10 DEF Next

-----------------------------------------------------------------------------
(* The theorems. *)

\* With the pts of all that was counted between _good and _last, _count is
\* never beyond _last.
LEMMA CountBelowLast == ASSUME IInv, WInv PROVE count <= last
<1>1. PICK C \in SUBSET log : CountedSince(C)
  BY DEF WInv, OrderInv, CountInv
<1>2. last \in Nat /\ good <= last /\ last <= serverPts /\ serverPts <= MaxPts
  BY BoundsAssumption DEF IInv, CountsInv, WInv, FlagsInv
<1>3. good + Cardinality(Covered(C)) <= last
  BY <1>1, <1>2, CoveredAll DEF IInv, WInv, OrderInv, CountedSince
<1> QED
  BY <1>1, <1>3 DEF CountedSince

\* The invariant of the order of updates, for any counts and sources.
THEOREM OrderKept == Spec => [](IInv /\ WInv)
<1>1. IInv /\ WInv /\ [Next]_vars => IInv' /\ WInv'
  BY NextKeeps, NextOrder
<1> QED
  BY InitHolds, InitOrder, <1>1, PTL DEF Spec

\* Each variable of the waiter has its type, and none of its three counters runs
\* ahead of the server: in particular _count, the sum of what was received.
THEOREM TypeCorrect == Spec => []TypeOK
<1>1. IInv /\ WInv => TypeOK
  <2> SUFFICES ASSUME IInv, WInv PROVE TypeOK
    OBVIOUS
  <2>1. /\ kind \in Kinds /\ log \subseteq Update /\ net \subseteq log
        /\ good \in Nat /\ last \in Nat /\ count \in Nat
        /\ good <= last /\ last <= serverPts /\ count <= last
    BY CountBelowLast DEF IInv, CountsInv
  <2>2. serverPts \in 1 .. MaxPts /\ faults \in 0 .. MaxFaults /\ start \in Nat /\ start <= good
    BY DEF WInv, FlagsInv
  <2>3. good \in 0 .. MaxPts /\ last \in 0 .. MaxPts /\ count \in 0 .. MaxPts /\ start \in 0 .. MaxPts
    BY <2>1, <2>2, BoundsAssumption
  <2>4. queue \subseteq Update /\ applied \subseteq log /\ again \subseteq applied
    BY <2>1 DEF WInv, OrderInv, QueueInv, AppliedInv
  <2>5. requesting \in BOOLEAN /\ afterFail \in BOOLEAN /\ diff \in Diff
    BY DEF IInv, DiffInv
  <2>6. waiting \in BOOLEAN /\ byPts \in BOOLEAN /\ shortPoll \in BOOLEAN /\ active \in BOOLEAN
    BY DEF WInv, FlagsInv
  <2> QED
    BY <2>1, <2>2, <2>3, <2>4, <2>5, <2>6 DEF TypeOK, Diff, Stages
<1> QED
  BY OrderKept, <1>1, PTL

\* The comparison of two sums (PtsWaiter::check) tells that nothing is missing:
\* up to _good the log was applied without a hole, whatever was lost, overtaken
\* or counted nothing.
THEOREM NothingMissed == Spec => []NoUpdateMissed
<1>1. IInv /\ WInv => NoUpdateMissed
  BY DEF WInv, OrderInv
<1> QED
  BY OrderKept, <1>1, PTL

\* And where no update counts nothing and no pts comes with other data, what the
\* server pushed is applied in the order of the log and once, by the waiter's
\* queue and by differences together.
THEOREM LogApplied ==
    ASSUME 0 \notin Counts, "received" \notin Sources
    PROVE  Spec => []LogIsApplied
<1>1. Init => PushInv
  BY DEF Init, PushInv, AppliedOnce
<1>2. IInv /\ WInv /\ PushInv /\ [Next]_vars => PushInv'
  BY NextInTurn
<1>3. IInv /\ WInv /\ PushInv => LogIsApplied
  <2> SUFFICES ASSUME IInv, WInv, PushInv PROVE LogIsApplied
    OBVIOUS
  <2>1. ASSUME NEW u \in applied, u.source = "push", NEW v \in Between(start, u.pts)
        PROVE  v \in applied
    <3>1. u.pts <= good /\ u \in log /\ v \in log /\ v.pts <= u.pts
      BY <2>1 DEF PushInv, WInv, OrderInv, AppliedInv, Between
    <3>2. v.pts <= good
      BY <3>1, UpdateFields DEF IInv, CountsInv
    <3> QED
      BY <2>1, <3>2 DEF WInv, OrderInv, NoUpdateMissed, Between
  <2> QED
    BY <2>1 DEF LogIsApplied, AppliedInOrder, PushInv, WInv, OrderInv
<1> QED
  BY OrderKept, <1>1, <1>2, <1>3, PTL DEF Spec

\* What is kept is kept behind a gap that is waited for, with no difference on
\* its way, and is not applied yet, for any counts and sources.
THEOREM QueueBehindGap == Spec => []QueueIsBehindGap
<1>1. IInv /\ WInv => QueueIsBehindGap
  <2> SUFFICES ASSUME IInv, WInv, queue # {} PROVE QueueIsBehindGap
    BY DEF QueueIsBehindGap
  <2>1. count < last
    BY CountBelowLast DEF WInv, OrderInv, QueueInv, IInv, CountsInv
  <2> QED
    BY <2>1 DEF QueueIsBehindGap, WInv, OrderInv, QueueInv
<1> QED
  BY OrderKept, <1>1, PTL

\* A gap keeps what comes behind it, and somebody will ask for what is missing
\* (the timer of setWaitingForSkipped or the difference itself).
THEOREM GapHandled ==
    ASSUME 0 \notin Counts, "received" \notin Sources
    PROVE  Spec => []GapIsHandled
<1>1. QueueIsBehindGap /\ GapIsWatched => GapIsHandled
  BY DEF GapIsHandled
<1>2. Spec => []GapIsWatched
  BY GapAlwaysWatched
<1> QED
  BY QueueBehindGap, <1>1, <1>2, PTL

=============================================================================
