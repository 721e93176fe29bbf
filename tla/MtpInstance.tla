----------------------------- MODULE MtpInstance -----------------------------
(***************************************************************************)
(* The requests of an MTP::Instance (mtproto/mtp_instance.cpp): in which   *)
(* session each is, which wait for another request, for a delay or for the *)
(* authorization in another data centre, and what an error does to them.   *)
(*                                                                         *)
(* Everything here happens on the main thread, one event after another.    *)
(* A session is what it holds: requests to send, and requests sent and not *)
(* answered.  It starts when it is first used and has no other state; what *)
(* happens between it and the server is the module MtpSession.  The        *)
(* answers of the servers are external and come in the order in which the  *)
(* requests were handled.                                                  *)
(*                                                                         *)
(* A session is named by its data centre and its shift.  A request sent to *)
(* the main data centre is registered with minus its number.               *)
(***************************************************************************)
EXTENDS Integers, FiniteSets, SequencesExt

CONSTANTS
    Dc,         \* the data centres, positive numbers
    FirstMain,  \* the main one at the start
    Targets,    \* where the user's requests go; the data centre 0 is the main one
    MaxUser,    \* bound: requests of the user
    MaxExports, \* bound: exports of the authorization
    MaxFaults,  \* bound: errors of the servers and cancellations
    Faults      \* the kinds of fault of the run

FaultKind == {"later", "fatal", "exportFail", "importFail", "migrate",
              "unauthorized", "timeout", "notInited", "cancel"}
ASSUME DcAssumption == Dc \subseteq Nat \ {0} /\ FirstMain \in Dc
ASSUME TargetsAssumption == Targets \subseteq [dc: Nat, shift: Nat]
ASSUME FaultsAssumption == Faults \subseteq FaultKind
ASSUME BoundsAssumption == MaxUser \in Nat /\ MaxExports \in Nat /\ MaxFaults \in Nat

Null == 0
MaxId == MaxUser + 2 * MaxExports
Id == 1 .. MaxId
ToMain == [dc |-> 0, shift |-> 0]

VARIABLES
    main,       \* the data centre of _mainSession, _mainDcId
    byDc,       \* _requestsByDc
    stored,     \* _requestMap
    parsers,    \* _parserMap
    after,      \* request->after
    dependent,  \* _dependentRequests
    delayed,    \* _delayedRequests
    waiters,    \* _authWaiters
    exports,    \* _authExportRequests: the target
    toSend,     \* the requests in the sessions that are not sent
    sent,       \* and those that are and have no answer
    order,      \* of a sent request: "waits" for the one it is after, which
                \* "failed", or "none" if the server does not know of it
    kind,       \* of each request made so far
    dropped,    \* history: requests nothing is done about any more
    broken,     \* history: data centres an import has failed in
    faults

tables == <<main, byDc, stored, parsers, after, dependent, delayed, waiters,
            exports, toSend, sent, order, kind, dropped, broken>>
vars == <<tables, faults>>

Nowhere == [dc |-> 0, shift |-> 0]

Init ==
    /\ main = FirstMain
    /\ byDc = [id \in Id |-> Nowhere]
    /\ stored = {} /\ parsers = {}
    /\ after = [id \in Id |-> Null]
    /\ dependent = [id \in Id |-> Null]
    /\ delayed = {}
    /\ waiters = [d \in Dc |-> <<>>]
    /\ exports = [id \in Id |-> Nowhere]
    /\ toSend = {} /\ sent = {}
    /\ order = [id \in Id |-> "none"]
    /\ kind = <<>>
    /\ dropped = {} /\ broken = {}
    /\ faults = 0

Fault(k) == k \in Faults /\ faults < MaxFaults /\ faults' = faults + 1

\* The tables as one value, for handlers that call each other.
World ==
    [main |-> main, byDc |-> byDc, stored |-> stored, parsers |-> parsers,
     after |-> after, dependent |-> dependent, delayed |-> delayed,
     waiters |-> waiters, exports |-> exports, toSend |-> toSend, sent |-> sent,
     order |-> order, kind |-> kind, dropped |-> dropped, broken |-> broken]

SetWorld(world) ==
    \E w \in {world} :
        /\ main' = w.main /\ byDc' = w.byDc /\ stored' = w.stored
        /\ parsers' = w.parsers /\ after' = w.after /\ dependent' = w.dependent
        /\ delayed' = w.delayed /\ waiters' = w.waiters /\ exports' = w.exports
        /\ toSend' = w.toSend /\ sent' = w.sent /\ order' = w.order
        /\ kind' = w.kind /\ dropped' = w.dropped /\ broken' = w.broken

-----------------------------------------------------------------------------
(* The sessions.                                                           *)

Abs(s) == [s EXCEPT !.dc = IF @ < 0 THEN -@ ELSE @]
Place(s, id) == [session |-> s, id |-> id]

\* getSession.
SessionOf(w, target) == IF target.dc = 0 THEN [target EXCEPT !.dc = w.main] ELSE target

\* Session::sendPrepared.
SendPrepared(w, s, id) == [w EXCEPT !.toSend = @ \cup {Place(s, id)}]

\* scheduleSessionDestroy: what the session holds goes with it.
SessionDestroyed(w, s) ==
    LET held == {p \in w.toSend \cup w.sent : p.session = s}
    IN [w EXCEPT !.toSend = @ \ held, !.sent = @ \ held,
                 !.dropped = @ \cup {p.id : p \in held}]

SetMainDcId(w, d) ==
    LET old == [dc |-> w.main, shift |-> 0]
        new == [dc |-> d, shift |-> 0]
    IN IF d = w.main THEN w
       ELSE [SessionDestroyed(SessionDestroyed(w, old), new) EXCEPT !.main = d]

-----------------------------------------------------------------------------
(* Sending and forgetting requests.                                        *)

\* sendRequest, with storeRequest and registerRequest.
Requesting(w, k, target, afterId) ==
    LET id == Len(w.kind) + 1
        s == SessionOf(w, target)
        known == afterId # Null /\ afterId \in w.stored
        u == [w EXCEPT
                 !.kind = Append(@, k),
                 !.stored = @ \cup {id}, !.parsers = @ \cup {id},
                 !.byDc[id] = IF target = ToMain THEN [s EXCEPT !.dc = -@] ELSE s,
                 !.after[id] = IF known THEN afterId ELSE Null]
    IN IF known /\ w.dependent[afterId] # Null
       THEN [u EXCEPT !.dependent[id] = afterId]
       ELSE SendPrepared(u, s, id)

\* The requests that wait for id in _dependentRequests, directly or not: the
\* loop adds what waits for those it has until there is nothing to add.
Dependents(w, id) ==
    LET waiting == {x \in Id : w.dependent[x] # Null}
        closed(S) == \A x \in waiting : w.dependent[x] \in S \cup {id} => x \in S
    IN {x \in waiting : \A S \in SUBSET waiting : closed(S) => x \in S}

\* Mutant: the requests that wait for id are forgotten with it.
UnregisteredQuietly(w, id) ==
    LET freed == Dependents(w, id)
    IN [w EXCEPT !.stored = @ \ {id}, !.byDc[id] = Nowhere,
                 !.dependent = [x \in Id |-> IF x \in freed \cup {id} THEN Null ELSE @[x]]]

\* unregisterRequest: those that wait for id are sent, up to the first one
\* that is registered but not stored.
Unregistered(w, id) ==
    LET freed == Dependents(w, id)
        registered == {x \in freed \ {id} : w.byDc[x] # Nowhere}
        resent == {x \in registered : \A y \in registered : y <= x => y \in w.stored}
    IN [w EXCEPT !.stored = @ \ {id}, !.byDc[id] = Nowhere,
                 !.dependent = [x \in Id |-> IF x \in freed \cup {id} THEN Null ELSE @[x]],
                 !.toSend = @ \cup {Place(Abs(w.byDc[x]), x) : x \in resent}]

\* The server has handled the request at p: those after it may go on or
\* have failed.
HandledOrder(p, good) ==
    [id \in Id |->
        IF id = p.id THEN "none"
        ELSE IF order[id] = "waits" /\ after[id] = p.id /\ Place(p.session, id) \in sent
        THEN IF good THEN "none" ELSE "failed"
        ELSE order[id]]

Requests(k) == {id \in DOMAIN kind : kind[id] = k}

\* The user sends a request, perhaps after another one.
SendRequest(target, afterId) ==
    /\ Cardinality(Requests("user")) < MaxUser
    /\ SetWorld(Requesting(World, "user", target, afterId))
    /\ UNCHANGED faults

\* cancel.  The server handles the request all the same if it was sent.
Cancel(id) ==
    /\ id \in Requests("user") \cap parsers /\ Fault("cancel")
    /\ LET p == Place(Abs(byDc[id]), id)
           w == Unregistered([World EXCEPT !.stored = @ \ {id}], id)
       IN \E good \in BOOLEAN :
           SetWorld([w EXCEPT !.toSend = @ \ {p}, !.sent = @ \ {p}, !.parsers = @ \ {id},
                              !.order = HandledOrder(p, good)])

\* Mutant: what is sent again stays in the list.
ResentStillDelayed(w, due) ==
    LET found == {id \in due : w.byDc[id] # Nowhere /\ id \in w.stored}
    IN [w EXCEPT !.toSend = @ \cup {Place(Abs(w.byDc[id]), id) : id \in found}]

\* checkDelayedRequests, when those of `due' may be sent again.
ResentDelayed(w, due) ==
    LET found == {id \in due : w.byDc[id] # Nowhere /\ id \in w.stored}
    IN [w EXCEPT !.delayed = @ \ due,
                 !.toSend = @ \cup {Place(Abs(w.byDc[id]), id) : id \in found}]

CheckDelayedRequests ==
    /\ \E due \in SUBSET delayed \ {{}} : SetWorld(ResentDelayed(World, due))
    /\ UNCHANGED faults

\* SessionPrivate::tryToSend with WrapInvokeAfter: a request after another
\* one tells the server so if the session has sent that one.
SendAll(s) ==
    LET ready == {p \in toSend : p.session = s}
        known(p) == after[p.id] # Null /\ Place(s, after[p.id]) \in sent \cup ready
    IN /\ ready # {}
       /\ toSend' = toSend \ ready
       /\ sent' = sent \cup ready
       /\ order' = [id \in Id |->
             IF Place(s, id) \notin ready THEN order[id]
             ELSE IF known(Place(s, id)) THEN "waits" ELSE "none"]
       /\ UNCHANGED <<main, byDc, stored, parsers, after, dependent, delayed, waiters,
                      exports, kind, dropped, broken, faults>>

-----------------------------------------------------------------------------
(* Answers.                                                                *)

\* The request at p is answered.
Answered(p, good) == [World EXCEPT !.sent = @ \ {p}, !.order = HandledOrder(p, good)]

\* The server handles a request when it need not wait for another one.
\* A session for a data centre there is not never gets an answer.
Answers(p) == p \in sent /\ p.session.dc \in Dc /\ order[p.id] = "none"

\* The requests that wait for an authorization in the data centre d and can be
\* sent there, and those of them that were sent to the main data centre.
Found(w, d) ==
    {x \in w.stored : w.byDc[x] # Nowhere /\ \E k \in DOMAIN w.waiters[d] : w.waiters[d][k] = x}
FoundToMain(w, d) == {x \in Found(w, d) : w.byDc[x].dc < 0}
SessionIn(w, d, x) ==
    IF x \in FoundToMain(w, d) THEN [dc |-> -d, shift |-> 0] ELSE [w.byDc[x] EXCEPT !.dc = d]

\* Those sent before the first of these changes the main data centre: the
\* change destroys the session they were given to.
FoundLost(w, d) ==
    {x \in Found(w, d) \ FoundToMain(w, d) :
        /\ d # w.main /\ w.byDc[x].shift = 0
        /\ FoundToMain(w, d) # {}
        /\ \A y \in FoundToMain(w, d) : \E k, l \in DOMAIN w.waiters[d] :
              k < l /\ w.waiters[d][k] = x /\ w.waiters[d][l] = y}

\* importDone: the requests that waited are sent to the data centre d.  One that
\* was sent to the main data centre changes it, and is given to the session of
\* minus d.
ResumedIn(w, d) ==
    [IF FoundToMain(w, d) = {} THEN w ELSE SetMainDcId(w, d)
     EXCEPT !.byDc = [x \in Id |-> IF x \in Found(w, d) THEN SessionIn(w, d, x) ELSE @[x]],
            !.toSend = @ \cup {Place(SessionIn(w, d, x), x) : x \in Found(w, d) \ FoundLost(w, d)},
            !.dropped = @ \cup FoundToMain(w, d) \cup FoundLost(w, d),
            !.waiters[d] = <<>>]

Resumed(w, id) == ResumedIn(w, w.byDc[id].dc)

\* exportDone.
Exported(w, id) ==
    [Requesting(w, "import", w.exports[id], Null) EXCEPT !.exports[id] = Nowhere]

\* The done handler of a request.
Handled(w, id) ==
    LET v == [w EXCEPT !.parsers = @ \ {id}]
    IN CASE v.kind[id] = "user" -> v
         [] v.kind[id] = "export" -> Exported(v, id)
         [] v.kind[id] = "import" -> Resumed(v, id)

\* The fail handler.  A failed export forgets the requests that wait for it, a
\* failed import leaves them where they are.
Failed(w, id) ==
    LET v == [w EXCEPT !.parsers = @ \ {id}]
        d == IF v.kind[id] = "export" THEN v.exports[id].dc ELSE Abs(v.byDc[id]).dc
        waiting == {v.waiters[d][k] : k \in DOMAIN v.waiters[d]} \cap v.stored
    IN CASE v.kind[id] = "user" -> v
         [] v.kind[id] = "export" -> [v EXCEPT !.waiters[d] = <<>>,
                                               !.dropped = @ \cup waiting]
         [] v.kind[id] = "import" -> [v EXCEPT !.broken = @ \cup {d}]

\* processCallback for a result.
Done(p) ==
    /\ Answers(p)
    /\ \E w \in {IF p.id \in parsers THEN Handled(Answered(p, TRUE), p.id)
                 ELSE Answered(p, TRUE)} : SetWorld(Unregistered(w, p.id))
    /\ UNCHANGED faults

\* An error that onErrorDefault does not handle, or a result that is not
\* understood.
FailsWith(k) == CASE kind[k] = "user" -> "fatal"
                  [] kind[k] = "export" -> "exportFail"
                  [] kind[k] = "import" -> "importFail"

Fails(p) ==
    /\ Answers(p) /\ Fault(FailsWith(p.id))
    /\ \E w \in {IF p.id \in parsers THEN Failed(Answered(p, FALSE), p.id)
                 ELSE Answered(p, FALSE)} : SetWorld(Unregistered(w, p.id))

Refused(p, k) == Answers(p) /\ p.id \in parsers /\ Fault(k)

\* An internal error or FLOOD_WAIT: the request is sent again later.
Later(p) ==
    /\ Refused(p, "later")
    /\ \E due \in SUBSET delayed :
          LET w == Answered(p, FALSE)
          IN SetWorld(ResentDelayed([w EXCEPT !.delayed = @ \cup {p.id}], due))

\* PHONE_MIGRATE and the like: the main session moves to another data
\* centre, a request that is not for the main one moves alone.
Migrate(p) ==
    /\ Refused(p, "migrate") /\ kind[p.id] = "user"
    /\ \E d \in Dc \ {p.session.dc} :
        LET w == Answered(p, FALSE)
            toMain == byDc[p.id].dc < 0
            s == [dc |-> d, shift |-> byDc[p.id].shift]
            u == IF toMain THEN SetMainDcId(w, d) ELSE w
        IN SetWorld(SendPrepared(
               [u EXCEPT !.byDc[p.id] = IF toMain THEN [s EXCEPT !.dc = -d] ELSE s],
               s, p.id))

\* Mutant: the other request waits for this one.
AfterFailedSwapped(w, id) ==
    IF w.byDc[w.after[id]] = w.byDc[id]
    THEN [w EXCEPT !.dependent[w.after[id]] = id]
    ELSE SendPrepared([w EXCEPT !.after[id] = Null], Abs(w.byDc[id]), id)

\* What MSG_WAIT_FAILED and MSG_WAIT_TIMEOUT do: the request waits here while
\* the other one is registered with the same session.
AfterFailed(w, id) ==
    IF w.byDc[w.after[id]] = w.byDc[id]
    THEN [w EXCEPT !.dependent[id] = w.after[id]]
    ELSE SendPrepared([w EXCEPT !.after[id] = Null], Abs(w.byDc[id]), id)

WaitFailed(p) ==
    /\ p \in sent /\ p.session.dc \in Dc /\ p.id \in parsers /\ order[p.id] = "failed"
    /\ SetWorld(AfterFailed(Answered(p, FALSE), p.id))
    /\ UNCHANGED faults

WaitTimeout(p) ==
    /\ p \in sent /\ p.session.dc \in Dc /\ p.id \in parsers
    /\ order[p.id] = "waits" /\ Fault("timeout")
    /\ SetWorld(AfterFailed(Answered(p, FALSE), p.id))

\* 401, or FILE_ID_INVALID for the first time: fatal in the main data
\* centre, in another one the authorization is exported from the main one
\* and imported there.
Unauthorized(p) ==
    /\ Refused(p, "unauthorized") /\ kind[p.id] = "user"
    /\ LET w == Answered(p, FALSE)
           d == Abs(byDc[p.id]).dc
           id == Len(kind) + 1
       IN \/ d = main /\ SetWorld(Unregistered(Failed(w, p.id), p.id))
          \/ /\ d # main /\ waiters[d] # <<>>
             /\ SetWorld([w EXCEPT !.waiters[d] = Append(@, p.id)])
          \/ /\ d # main /\ waiters[d] = <<>> /\ Cardinality(Requests("export")) < MaxExports
             /\ SetWorld([Requesting(w, "export", ToMain, Null)
                          EXCEPT !.exports[id] = Abs(byDc[p.id]),
                                 !.waiters[d] = <<p.id>>])

\* CONNECTION_NOT_INITED.
NotInited(p) ==
    /\ Refused(p, "notInited")
    /\ SetWorld(SendPrepared(Answered(p, FALSE), Abs(byDc[p.id]), p.id))

-----------------------------------------------------------------------------
Sessions == {p.session : p \in toSend}

Next ==
    \/ \E t \in Targets, a \in {Null} \cup Requests("user") : SendRequest(t, a)
    \/ \E id \in Id : Cancel(id)
    \/ CheckDelayedRequests
    \/ \E s \in Sessions : SendAll(s)
    \/ \E p \in sent :
          \/ Done(p) \/ Fails(p) \/ Later(p) \/ Migrate(p) \/ WaitFailed(p)
          \/ WaitTimeout(p) \/ Unauthorized(p) \/ NotInited(p)

Spec == Init /\ [][Next]_vars

\* Sessions send, servers answer, the timer of the delayed requests fires.
\* The bounds let no other event go on for ever, so it is enough that the
\* system does one of these while it can.
Progress ==
    \/ CheckDelayedRequests
    \/ \E s \in Sessions : SendAll(s)
    \/ \E p \in sent : Done(p) \/ WaitFailed(p)

FairSpec == Spec /\ WF_vars(Progress)

-----------------------------------------------------------------------------
Session == [dc: Int, shift: Nat]

TypeOK ==
    /\ main \in Dc
    /\ byDc \in [Id -> Session] /\ exports \in [Id -> Session]
    /\ stored \subseteq Id /\ parsers \subseteq Id /\ delayed \subseteq Id
    /\ after \in [Id -> {Null} \cup Id]
    /\ \A id \in Id : dependent[id] \in {Null, after[id]}
    /\ waiters \in [Dc -> Seq(Id)]
    /\ toSend \subseteq [session: Session, id: Id]
    /\ sent \subseteq [session: Session, id: Id]
    /\ order \in [Id -> {"none", "waits", "failed"}]
    /\ kind \in Seq({"user", "export", "import"}) /\ Len(kind) <= MaxId
    /\ dropped \subseteq Id /\ broken \subseteq Dc /\ faults \in 0 .. MaxFaults

Registered == {id \in Id : byDc[id] # Nowhere}
HeldAt(id) == {p \in toSend \cup sent : p.id = id}
Waiting(d) == {waiters[d][k] : k \in DOMAIN waiters[d]}
Places(id) ==
    Cardinality(HeldAt(id)) + Cardinality({id} \cap delayed)
    + (IF dependent[id] = Null THEN 0 ELSE 1)
    + Cardinality({e \in Dc \X (1 .. MaxId) :
                        e[2] <= Len(waiters[e[1]]) /\ waiters[e[1]][e[2]] = id})

(* A request is registered while it has a handler and can be sent again, and
   then at most one of the sessions, the delayed requests, the requests that
   wait for another one and those that wait for an authorization has it: it
   is not executed for two of them.  A session has it only if it is the one
   that cancel would look in. *)
OnePlace ==
    /\ parsers = Registered /\ stored = Registered
    /\ \A id \in Registered : Places(id) <= 1
    /\ \A p \in toSend \cup sent :
          p.id \in dropped \/ (p.id \in Registered /\ p.session = Abs(byDc[p.id]))

\* The requests an authorization in the data centre d is waited for with.
AuthRequests(d) ==
    {id \in Registered :
        \/ kind[id] = "export" /\ exports[id].dc = d
        \/ kind[id] = "import" /\ byDc[id].dc = d}

\* Waiting for what will not come: the session was destroyed, or the export
\* or import of the authorization has failed.
Stuck(id) ==
    \/ id \in dropped
    \/ \E d \in Dc :
          /\ id \in Waiting(d)
          /\ d \in broken \/ \E x \in AuthRequests(d) : x \in dropped

(* Something will be done about every request that has not been answered:
   it is in a session or delayed, or it waits for a request that is itself
   registered, or for an authorization that is asked for.  The exceptions
   are the requests the code drops. *)
NobodyForgotten ==
    \A id \in Registered :
        \/ Stuck(id)
        \/ HeldAt(id) # {} \/ id \in delayed
        \/ dependent[id] \in Registered
        \/ \E d \in Dc : id \in Waiting(d) /\ AuthRequests(d) # {}

(* Both: a request has one place, where something will be done about it. *)
EveryRequestHasItsPlace == OnePlace /\ NobodyForgotten

\* A request that waits for a stuck one is stuck with it.
StuckBehind[id \in Id] ==
    Stuck(id) \/ (dependent[id] # Null /\ StuckBehind[dependent[id]])

(* Every request gets its answer or its error, or is cancelled, unless it or
   one it waits for is stuck. *)
EveryRequestAnswered ==
    \A id \in Id : id \in parsers ~> id \notin parsers \/ StuckBehind[id]
=============================================================================
