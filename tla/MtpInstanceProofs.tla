--------------------------- MODULE MtpInstanceProofs ---------------------------
(***************************************************************************)
(* The tables of the instance agree, whatever the servers answer and the   *)
(* user cancels.                                                           *)
(*                                                                         *)
(* The invariant is Fits.  It is stated of worlds (records of the tables)  *)
(* and not of the variables, since the handlers call each other: an error  *)
(* unregisters a request, which sends those behind it, and an import that  *)
(* is done resumes the requests that wait, so what an operator is given is *)
(* seldom the tables of a state.  Two sets say how far a handler has come: *)
(* hand has the request that processCallback took out of its session, which*)
(* has no place until the handler gives it one, and done the requests whose*)
(* handler has ended and which are still registered.                       *)
(*                                                                         *)
(* First come the fields of what each operator returns, then what each     *)
(* operator preserves of Fits, then the steps, and at the end what Fits    *)
(* says of the variables.                                                  *)
(***************************************************************************)
EXTENDS MtpInstance, FiniteSetTheorems, TLAPS

USE DcAssumption, TargetsAssumption, BoundsAssumption DEF Null

\* The worlds the operators of the instance are given and return.
Kind == {"user", "export", "import"}
Worlds ==
    [main: Dc, byDc: [Id -> Session], stored: SUBSET Id, parsers: SUBSET Id,
     after: [Id -> {Null} \cup Id], dependent: [Id -> {Null} \cup Id],
     delayed: SUBSET Id, waiters: [Dc -> Seq(Id)], exports: [Id -> Session],
     toSend: SUBSET [session: Session, id: Id], sent: SUBSET [session: Session, id: Id],
     order: [Id -> {"none", "waits", "failed"}], kind: Seq(Kind),
     dropped: SUBSET Id, broken: SUBSET Dc]

\* The requests of a world that are registered, and those its sessions hold.
Reg(w) == {x \in Id : w.byDc[x] # Nowhere}
Held(w) == w.toSend \cup w.sent
HeldId(w, x) == \E p \in Held(w) : p.id = x
\* x waits for an authorization: at a place of a queue, in some queue.
WaitsAt(w, d, k, x) == k \in DOMAIN w.waiters[d] /\ w.waiters[d][k] = x
WaitsIn(w, x) == \E d \in Dc : \E k \in DOMAIN w.waiters[d] : w.waiters[d][k] = x
\* The requests made so far of one kind.
KindOf(w, k) == {x \in DOMAIN w.kind : w.kind[x] = k}

\* Nothing will be done about x.
NoPlace(w, x) ==
    ~HeldId(w, x) /\ x \notin w.delayed /\ w.dependent[x] = Null /\ ~WaitsIn(w, x)

\* The handlers, the stored requests and the data centres are of the same
\* requests, but for those in the hand of a handler.
Tables(w, hand) ==
    w.stored \ hand = Reg(w) \ hand /\ w.parsers \ hand = Reg(w) \ hand
\* A session holds a request where cancel would look for it, unless the
\* request was lost: then it is in the session of a data centre that is none.
HeldRight(w, hand) ==
    \A p \in Held(w) :
        \/ p.id \in w.dropped /\ p.session.dc < 0
        \/ p.id \in hand
        \/ p.id \in Reg(w) /\ p.session = Abs(w.byDc[p.id])
\* A request is in one session, to be sent or sent.
HeldOnce(w) ==
    w.toSend \cap w.sent = {} /\ \A p, q \in Held(w) : p.id = q.id => p = q
\* A request waits for one authorization, and once.
WaitsOnce(w) ==
    \A d, e \in Dc : \A k \in DOMAIN w.waiters[d], l \in DOMAIN w.waiters[e] :
        w.waiters[d][k] = w.waiters[e][l] => d = e /\ k = l
\* A request is in one kind of place: a session, the delayed requests, behind
\* another request, or the queue of an authorization.
Apart(w) ==
    \A x \in Id :
        /\ HeldId(w, x) => x \notin w.delayed /\ w.dependent[x] = Null /\ ~WaitsIn(w, x)
        /\ x \in w.delayed => w.dependent[x] = Null /\ ~WaitsIn(w, x)
        /\ w.dependent[x] # Null => ~WaitsIn(w, x)
\* What is in a table was made, and only requests of the user wait.
Made(w) ==
    /\ Reg(w) \subseteq DOMAIN w.kind /\ w.dropped \subseteq DOMAIN w.kind
    /\ w.delayed \subseteq DOMAIN w.kind
    /\ \A p \in Held(w) : p.id \in DOMAIN w.kind
    /\ \A x \in Id : WaitsIn(w, x) => x \in KindOf(w, "user")
    /\ \A x \in Id : w.after[x] # Null => x \in DOMAIN w.kind
    /\ \A x \in Id : w.order[x] # "none" => w.after[x] # Null
\* A request that waits for another is registered, and so is the other, which
\* is the one it was to be invoked after.
Behind(w) ==
    \A x \in Id : w.dependent[x] # Null =>
        x \in Reg(w) /\ w.dependent[x] \in Reg(w) /\ w.dependent[x] = w.after[x]
\* The exports and imports under way for the data centre d.
AuthOf(w, d) ==
    {x \in Reg(w) : \/ w.kind[x] = "export" /\ w.exports[x].dc = d
                    \/ w.kind[x] = "import" /\ w.byDc[x].dc = d}
\* They are for data centres there are.
AuthInDc(w, done) ==
    \A x \in Reg(w) \ done :
        /\ w.kind[x] = "export" => w.exports[x].dc \in Dc
        /\ w.kind[x] = "import" => w.byDc[x].dc \in Dc
\* While requests wait for an authorization it is being asked for, unless an
\* import failed.
AuthAsked(w, done) ==
    \A d \in Dc : w.waiters[d] # <<>> => d \in w.broken \/ AuthOf(w, d) \ done # {}
\* A registered request has a place, or the code dropped it.
Somewhere(w, hand) ==
    \A x \in Reg(w) \ hand :
        x \in w.dropped \/ HeldId(w, x) \/ x \in w.delayed \/ w.dependent[x] # Null \/ WaitsIn(w, x)
\* There is an id left for each request that may still be made: an export under
\* way has one for its import.
Counts(w, done) ==
    /\ Cardinality(KindOf(w, "user")) <= MaxUser
    /\ Cardinality(KindOf(w, "export")) <= MaxExports
    /\ Cardinality(KindOf(w, "import")) + Cardinality((KindOf(w, "export") \cap Reg(w)) \ done)
            <= Cardinality(KindOf(w, "export"))
\* The invariant of the tables.
Fits(w, hand, done) ==
    /\ w \in Worlds
    /\ Tables(w, hand) /\ HeldRight(w, hand) /\ HeldOnce(w) /\ WaitsOnce(w) /\ Apart(w)
    /\ Made(w) /\ Behind(w) /\ AuthInDc(w, done) /\ AuthAsked(w, done) /\ Somewhere(w, hand)
    /\ Counts(w, done)
\* x is in the hand of its handler, in tables that are right otherwise.
InHand(w, x) ==
    Fits(w, {x}, {}) /\ NoPlace(w, x) /\ x \in Reg(w) /\ x \in w.stored /\ x \in w.parsers
\* The fields of a world, and the worlds that agree but for some of them.
Fields == {"main", "byDc", "stored", "parsers", "after", "dependent", "delayed", "waiters",
           "exports", "toSend", "sent", "order", "kind", "dropped", "broken"}
Same(v, w, changed) == \A f \in Fields \ changed : v[f] = w[f]

-----------------------------------------------------------------------------
(* What each operator makes of a world, field by field.                      *)

\* Abs gives a session, the same for a data centre that is not negated.
LEMMA AbsIsSession ==
    ASSUME NEW s \in Session
    PROVE  /\ Abs(s) \in Session /\ Abs(s).shift = s.shift
           /\ Abs(s).dc = IF s.dc < 0 THEN -s.dc ELSE s.dc
           /\ s.dc >= 0 => Abs(s) = s
<1>1. Abs(s) \in Session BY DEF Abs, Session
<1>2. Abs(s).shift = s.shift BY DEF Abs, Session
<1>3. Abs(s).dc = IF s.dc < 0 THEN -s.dc ELSE s.dc BY DEF Abs, Session
<1>4. s.dc >= 0 => Abs(s) = s BY DEF Abs, Session
<1> QED BY <1>1, <1>2, <1>3, <1>4

\* A place in a session is the session and the id.
LEMMA PlaceFields ==
    ASSUME NEW s, NEW x
    PROVE  Place(s, x).session = s /\ Place(s, x).id = x
  BY DEF Place

\* The type of a place.
LEMMA PlaceType ==
    ASSUME NEW s \in Session, NEW x \in Id
    PROVE  Place(s, x) \in [session: Session, id: Id]
  BY DEF Place

\* The types of the fields of a world.
LEMMA WorldTypes ==
    ASSUME NEW w \in Worlds
    PROVE  /\ w.main \in Dc /\ w.byDc \in [Id -> Session] /\ w.exports \in [Id -> Session]
           /\ w.stored \subseteq Id /\ w.parsers \subseteq Id /\ w.delayed \subseteq Id
           /\ w.after \in [Id -> {Null} \cup Id] /\ w.dependent \in [Id -> {Null} \cup Id]
           /\ w.waiters \in [Dc -> Seq(Id)] /\ w.kind \in Seq(Kind)
           /\ w.toSend \subseteq [session: Session, id: Id] /\ w.sent \subseteq [session: Session, id: Id]
           /\ w.order \in [Id -> {"none", "waits", "failed"}]
           /\ w.dropped \subseteq Id /\ w.broken \subseteq Dc
  BY DEF Worlds

\* sendPrepared puts one request in one session.
LEMMA SendPreparedFields ==
    ASSUME NEW w \in Worlds, NEW s \in Session, NEW x \in Id, NEW v, v = SendPrepared(w, s, x)
    PROVE  v \in Worlds /\ Same(v, w, {"toSend"}) /\ v.toSend = w.toSend \cup {Place(s, x)}
<1>1. PICK S \in SUBSET [session: Session, id: Id] : S = w.toSend \cup {Place(s, x)}
  BY PlaceType, WorldTypes
<1>2. v = [w EXCEPT !.toSend = S] BY <1>1 DEF SendPrepared, Worlds
<1>3. v \in Worlds BY <1>2 DEF Worlds
<1>4. Same(v, w, {"toSend"}) BY <1>2 DEF Worlds, Same, Fields
<1>5. v.toSend = S BY <1>2 DEF Worlds
<1> QED BY <1>1, <1>3, <1>4, <1>5

\* unregisterRequest: the request goes, and those behind it are sent.
LEMMA UnregisteredFields ==
    ASSUME NEW w \in Worlds, NEW id \in Id, NEW v, v = Unregistered(w, id)
    PROVE  /\ v \in Worlds /\ Same(v, w, {"byDc", "stored", "dependent", "toSend"})
           /\ v.byDc = [w.byDc EXCEPT ![id] = Nowhere]
           /\ v.stored = w.stored \ {id}
           /\ v.dependent = [x \in Id |-> IF x \in Dependents(w, id) \cup {id} THEN Null ELSE w.dependent[x]]
           /\ \E resent \in SUBSET (Dependents(w, id) \ {id}) :
                  /\ v.toSend = w.toSend \cup {Place(Abs(w.byDc[x]), x) : x \in resent}
                  /\ Reg(w) \ {id} = w.stored \ {id} => resent = Reg(w) \cap (Dependents(w, id) \ {id})
<1> DEFINE freed == Dependents(w, id)
           reg == {x \in freed \ {id} : w.byDc[x] # Nowhere}
           resent == {x \in reg : \A y \in reg : y <= x => y \in w.stored}
           left == w.stored \ {id}
           byDcs == [w.byDc EXCEPT ![id] = Nowhere]
           dep == [x \in Id |-> IF x \in freed \cup {id} THEN Null ELSE w.dependent[x]]
           send == w.toSend \cup {Place(Abs(w.byDc[x]), x) : x \in resent}
<1>1. freed \subseteq Id BY DEF Dependents
<1>2. v = [w EXCEPT !.stored = left, !.byDc = byDcs, !.dependent = dep, !.toSend = send]
  BY DEF Unregistered, Worlds
<1>3. /\ left \in SUBSET Id /\ byDcs \in [Id -> Session] /\ dep \in [Id -> {Null} \cup Id]
  BY DEF Worlds, Nowhere, Session
<1>4. send \in SUBSET [session : Session, id : Id]
  <2>1. \A x \in resent : Place(Abs(w.byDc[x]), x) \in [session : Session, id : Id]
    BY <1>1, AbsIsSession, PlaceType DEF Worlds
  <2> QED BY <2>1 DEF Worlds
<1>5. reg = Reg(w) \cap (freed \ {id}) BY <1>1 DEF Reg
<1>6. Reg(w) \ {id} = w.stored \ {id} => resent = reg BY <1>5
<1>10. resent \in SUBSET (freed \ {id}) OBVIOUS
<1>11. send = w.toSend \cup {Place(Abs(w.byDc[x]), x) : x \in resent} OBVIOUS
<1>12. PICK again : again = resent OBVIOUS
<1>13. /\ left = w.stored \ {id} /\ byDcs = [w.byDc EXCEPT ![id] = Nowhere]
       /\ dep = [x \in Id |-> IF x \in freed \cup {id} THEN Null ELSE w.dependent[x]]
  OBVIOUS
<1> HIDE DEF left, byDcs, dep, send, resent
<1>7. v \in Worlds BY <1>2, <1>3, <1>4 DEF Worlds
<1>8. Same(v, w, {"byDc", "stored", "dependent", "toSend"}) BY <1>2 DEF Worlds, Same, Fields
<1>9. v.stored = left /\ v.byDc = byDcs /\ v.dependent = dep /\ v.toSend = send
  BY <1>2 DEF Worlds
<1>14. /\ again \in SUBSET (freed \ {id})
       /\ v.toSend = w.toSend \cup {Place(Abs(w.byDc[x]), x) : x \in again}
       /\ Reg(w) \ {id} = w.stored \ {id} => again = Reg(w) \cap (freed \ {id})
  BY <1>5, <1>6, <1>9, <1>10, <1>11, <1>12
<1> QED BY <1>7, <1>8, <1>9, <1>13, <1>14

\* A destroyed session drops the requests it holds, and no others.
LEMMA SessionDestroyedFields ==
    ASSUME NEW w \in Worlds, NEW s, NEW v, v = SessionDestroyed(w, s)
    PROVE  /\ v \in Worlds /\ Same(v, w, {"toSend", "sent", "dropped"})
           /\ v.toSend = {p \in w.toSend : p.session # s}
           /\ v.sent = {p \in w.sent : p.session # s}
           /\ v.dropped = w.dropped \cup {p.id : p \in {q \in Held(w) : q.session = s}}
<1> DEFINE gone == {p \in w.toSend \cup w.sent : p.session = s}
           lost == w.dropped \cup {p.id : p \in gone}
<1>1. v = [w EXCEPT !.toSend = w.toSend \ gone, !.sent = w.sent \ gone, !.dropped = lost]
  BY DEF SessionDestroyed, Worlds
<1>2. lost \in SUBSET Id BY WorldTypes
<1>9. w.toSend \ gone \in SUBSET [session: Session, id: Id] /\ w.sent \ gone \in SUBSET [session: Session, id: Id]
  BY WorldTypes
<1>3. w.toSend \ gone = {p \in w.toSend : p.session # s} OBVIOUS
<1>4. w.sent \ gone = {p \in w.sent : p.session # s} OBVIOUS
<1>5. lost = w.dropped \cup {p.id : p \in {q \in Held(w) : q.session = s}} BY DEF Held
<1> HIDE DEF gone, lost
<1>10. PICK T, U : T = w.toSend \ gone /\ U = w.sent \ gone OBVIOUS
<1>6. v \in Worlds BY <1>1, <1>2, <1>9, <1>10 DEF Worlds
<1>7. Same(v, w, {"toSend", "sent", "dropped"}) BY <1>1 DEF Worlds, Same, Fields
<1>8. v.toSend = w.toSend \ gone /\ v.sent = w.sent \ gone /\ v.dropped = lost BY <1>1 DEF Worlds
<1> QED BY <1>3, <1>4, <1>5, <1>6, <1>7, <1>8

\* A new main data centre may destroy the session of the old one.
LEMMA SetMainDcIdFields ==
    ASSUME NEW w \in Worlds, NEW d \in Dc, NEW v, v = SetMainDcId(w, d)
    PROVE  /\ v \in Worlds /\ Same(v, w, {"main", "toSend", "sent", "dropped"})
           /\ v.main = d /\ v.toSend \subseteq w.toSend /\ v.sent \subseteq w.sent
           /\ w.dropped \subseteq v.dropped
           /\ v.dropped \subseteq w.dropped \cup {p.id : p \in Held(w)}
           /\ \A p \in Held(w) : p \in Held(v) \/ p.id \in v.dropped
<1>1. CASE d = w.main
  <2>1. v = w BY <1>1 DEF SetMainDcId
  <2>2. Same(v, w, {"main", "toSend", "sent", "dropped"}) BY <2>1 DEF Same
  <2> QED BY <1>1, <2>1, <2>2 DEF Held
<1>2. CASE d # w.main
  <2> DEFINE old == [dc |-> w.main, shift |-> 0]
             new == [dc |-> d, shift |-> 0]
  <2>1. PICK u : u = SessionDestroyed(w, old) OBVIOUS
  <2>2. /\ u \in Worlds /\ Same(u, w, {"toSend", "sent", "dropped"})
        /\ u.toSend = {p \in w.toSend : p.session # old}
        /\ u.sent = {p \in w.sent : p.session # old}
        /\ u.dropped = w.dropped \cup {p.id : p \in {q \in Held(w) : q.session = old}}
    BY <2>1, SessionDestroyedFields
  <2>3. PICK t : t = SessionDestroyed(u, new) OBVIOUS
  <2>4. /\ t \in Worlds /\ Same(t, u, {"toSend", "sent", "dropped"})
        /\ t.toSend = {p \in u.toSend : p.session # new}
        /\ t.sent = {p \in u.sent : p.session # new}
        /\ t.dropped = u.dropped \cup {p.id : p \in {q \in Held(u) : q.session = new}}
    BY <2>2, <2>3, SessionDestroyedFields
  <2>5. v = [t EXCEPT !.main = d] BY <1>2, <2>1, <2>3 DEF SetMainDcId
  <2>6. v \in Worlds BY <2>4, <2>5 DEF Worlds
  <2>7. v.main = d /\ v.toSend = t.toSend /\ v.sent = t.sent /\ v.dropped = t.dropped
    BY <2>4, <2>5 DEF Worlds
  <2>8. Same(v, t, {"main"}) BY <2>4, <2>5 DEF Worlds, Same, Fields
  <2>9. Same(v, w, {"main", "toSend", "sent", "dropped"}) BY <2>2, <2>4, <2>8 DEF Same
  <2>10. \A p \in Held(w) : p \in Held(v) \/ p.id \in v.dropped
    BY <2>2, <2>4, <2>7 DEF Held
  <2>11. v.dropped \subseteq w.dropped \cup {p.id : p \in Held(w)}
    BY <2>2, <2>4, <2>7 DEF Held
  <2>12. v.toSend \subseteq w.toSend /\ v.sent \subseteq w.sent /\ w.dropped \subseteq v.dropped
    BY <2>2, <2>4, <2>7
  <2> QED BY <2>6, <2>7, <2>9, <2>10, <2>11, <2>12
<1> QED BY <1>1, <1>2

\* checkDelayedRequests gives delayed requests to sessions.
LEMMA ResentDelayedFields ==
    ASSUME NEW w \in Worlds, NEW due, NEW v, v = ResentDelayed(w, due), due \subseteq Id
    PROVE  /\ v \in Worlds /\ Same(v, w, {"delayed", "toSend"})
           /\ v.delayed = w.delayed \ due
           /\ v.toSend = w.toSend \cup {Place(Abs(w.byDc[x]), x) : x \in due \cap Reg(w) \cap w.stored}
<1> DEFINE found == {x \in due : w.byDc[x] # Nowhere /\ x \in w.stored}
           send == w.toSend \cup {Place(Abs(w.byDc[x]), x) : x \in found}
           left == w.delayed \ due
<1>1. v = [w EXCEPT !.delayed = left, !.toSend = send] BY DEF ResentDelayed, Worlds
<1>2. found = due \cap Reg(w) \cap w.stored BY DEF Reg
<1>3. \A x \in found : Place(Abs(w.byDc[x]), x) \in [session: Session, id: Id]
  BY AbsIsSession, PlaceType, WorldTypes
<1>4. send \in SUBSET [session: Session, id: Id] BY <1>3, WorldTypes
<1>5. left \in SUBSET Id BY WorldTypes
<1>6. PICK S, T : S = send /\ T = left OBVIOUS
<1>7. /\ T = w.delayed \ due
      /\ S = w.toSend \cup {Place(Abs(w.byDc[x]), x) : x \in due \cap Reg(w) \cap w.stored}
  BY <1>2, <1>6
<1>8. v = [w EXCEPT !.delayed = T, !.toSend = S] BY <1>1, <1>6
<1>9. S \in SUBSET [session: Session, id: Id] /\ T \in SUBSET Id BY <1>4, <1>5, <1>6
<1> HIDE DEF found, send, left
<1>10. v \in Worlds BY <1>8, <1>9 DEF Worlds
<1>11. Same(v, w, {"delayed", "toSend"}) BY <1>8 DEF Worlds, Same, Fields
<1>12. v.delayed = T /\ v.toSend = S BY <1>8 DEF Worlds
<1> QED BY <1>7, <1>10, <1>11, <1>12

\* A request refused for the one before it waits behind that one, or is sent
\* again without it when that one is of another data centre.
LEMMA AfterFailedFields ==
    ASSUME NEW w \in Worlds, NEW x \in Id, w.after[x] \in Id, NEW v, v = AfterFailed(w, x)
    PROVE  /\ v \in Worlds
           /\ \/ /\ w.byDc[w.after[x]] = w.byDc[x] /\ Same(v, w, {"dependent"})
                 /\ v.dependent = [w.dependent EXCEPT ![x] = w.after[x]]
              \/ /\ Same(v, w, {"after", "toSend"}) /\ v.after = [w.after EXCEPT ![x] = Null]
                 /\ v.toSend = w.toSend \cup {Place(Abs(w.byDc[x]), x)}
<1>1. CASE w.byDc[w.after[x]] = w.byDc[x]
  <2>1. PICK dep : dep = [w.dependent EXCEPT ![x] = w.after[x]] OBVIOUS
  <2>2. v = [w EXCEPT !.dependent = dep] BY <1>1, <2>1 DEF AfterFailed, Worlds
  <2>3. dep \in [Id -> {Null} \cup Id] BY <2>1, WorldTypes
  <2>4. v \in Worlds BY <2>2, <2>3 DEF Worlds
  <2>5. Same(v, w, {"dependent"}) BY <2>2 DEF Worlds, Same, Fields
  <2>6. v.dependent = dep BY <2>2 DEF Worlds
  <2> QED BY <1>1, <2>1, <2>4, <2>5, <2>6
<1>2. CASE w.byDc[w.after[x]] # w.byDc[x]
  <2>1. PICK aft : aft = [w.after EXCEPT ![x] = Null] OBVIOUS
  <2>2. PICK u : u = [w EXCEPT !.after = aft] OBVIOUS
  <2>3. aft \in [Id -> {Null} \cup Id] BY <2>1, WorldTypes
  <2>4. u \in Worlds BY <2>2, <2>3 DEF Worlds
  <2>5. Same(u, w, {"after"}) BY <2>2 DEF Worlds, Same, Fields
  <2>6. u.after = aft BY <2>2 DEF Worlds
  <2>7. Abs(w.byDc[x]) \in Session BY AbsIsSession, WorldTypes
  <2>8. v = SendPrepared(u, Abs(w.byDc[x]), x)
    BY <1>2, <2>1, <2>2 DEF AfterFailed, Worlds
  <2>9. /\ v \in Worlds /\ Same(v, u, {"toSend"})
        /\ v.toSend = u.toSend \cup {Place(Abs(w.byDc[x]), x)}
    BY <2>4, <2>7, <2>8, SendPreparedFields
  <2>10. u.toSend = w.toSend BY <2>5 DEF Same, Fields
  <2>11. Same(v, w, {"after", "toSend"}) BY <2>5, <2>9 DEF Same
  <2>12. v.after = aft BY <2>6, <2>9 DEF Same, Fields
  <2> QED BY <2>1, <2>9, <2>10, <2>11, <2>12
<1> QED BY <1>1, <1>2

\* A request goes to a session that there is.
LEMMA SessionOfType ==
    ASSUME NEW w \in Worlds, NEW target \in Session, target.dc >= 0
    PROVE  /\ SessionOf(w, target) \in Session /\ SessionOf(w, target).dc > 0
           /\ target.dc # 0 => SessionOf(w, target) = target
<1>1. w.main \in Nat \ {0} BY WorldTypes
<1>2. SessionOf(w, target) \in Session BY <1>1 DEF SessionOf, Session
<1>3. SessionOf(w, target).dc > 0 BY <1>1 DEF SessionOf, Session
<1>4. target.dc # 0 => SessionOf(w, target) = target BY DEF SessionOf
<1> QED BY <1>2, <1>3, <1>4

(* A request made: where it is registered, what it is after, and where it is. *)
NewRequest(v, w, k, target, x, b, a) ==
    /\ Same(v, w, {"kind", "stored", "parsers", "byDc", "after", "dependent", "toSend"})
    /\ v.kind = Append(w.kind, k)
    /\ v.stored = w.stored \cup {x} /\ v.parsers = w.parsers \cup {x}
    /\ b \in Session /\ b.dc # 0 /\ (target.dc # 0 => b = target)
    /\ v.byDc = [w.byDc EXCEPT ![x] = b]
    /\ a \in {Null} \cup w.stored /\ v.after = [w.after EXCEPT ![x] = a]
    /\ \/ /\ a # Null /\ v.toSend = w.toSend
          /\ v.dependent = [w.dependent EXCEPT ![x] = a]
       \/ /\ v.dependent = w.dependent
          /\ v.toSend = w.toSend \cup {Place(Abs(b), x)}

\* What sendRequest and registerRequest make of the tables.
LEMMA RequestingFields ==
    ASSUME NEW w \in Worlds, NEW k \in Kind, NEW target \in Session, target.dc >= 0, NEW afterId,
           NEW x \in Id, x = Len(w.kind) + 1, NEW v, v = Requesting(w, k, target, afterId)
    PROVE  v \in Worlds /\ \E a, b : NewRequest(v, w, k, target, x, b, a)
<1>1. PICK s : s = SessionOf(w, target) OBVIOUS
<1>2. s \in Session /\ s.dc > 0 /\ (target.dc # 0 => s = target) BY <1>1, SessionOfType
<1>3. PICK b : b = IF target = ToMain THEN [s EXCEPT !.dc = -@] ELSE s OBVIOUS
<1>4. b \in Session /\ b.dc # 0 BY <1>2, <1>3 DEF Session
<1>5. Abs(b) = s BY <1>2, <1>3 DEF Abs, Session
<1>6. target.dc # 0 => b = target BY <1>2, <1>3 DEF ToMain
<1>7. PICK a : a = IF afterId # Null /\ afterId \in w.stored THEN afterId ELSE Null OBVIOUS
<1>8. a \in {Null} \cup w.stored /\ w.stored \subseteq Id BY <1>7, WorldTypes
<1>9. PICK kinds, st, ps, by, af :
        /\ kinds = Append(w.kind, k) /\ st = w.stored \cup {x} /\ ps = w.parsers \cup {x}
        /\ by = [w.byDc EXCEPT ![x] = b] /\ af = [w.after EXCEPT ![x] = a]
  OBVIOUS
<1>10. /\ kinds \in Seq(Kind) /\ st \in SUBSET Id /\ ps \in SUBSET Id
       /\ by \in [Id -> Session] /\ af \in [Id -> {Null} \cup Id]
  <2>1. kinds \in Seq(Kind) BY <1>9, WorldTypes
  <2>2. st \in SUBSET Id /\ ps \in SUBSET Id BY <1>9, WorldTypes
  <2>3. by \in [Id -> Session] /\ af \in [Id -> {Null} \cup Id] BY <1>4, <1>8, <1>9, WorldTypes
  <2> QED BY <2>1, <2>2, <2>3
<1>11. PICK u : u = [w EXCEPT !.kind = kinds, !.stored = st, !.parsers = ps, !.byDc = by, !.after = af]
  OBVIOUS
<1>12. u \in Worlds BY <1>10, <1>11 DEF Worlds
<1>13. Same(u, w, {"kind", "stored", "parsers", "byDc", "after"}) BY <1>11 DEF Worlds, Same, Fields
<1>14. /\ u.kind = kinds /\ u.stored = st /\ u.parsers = ps /\ u.byDc = by /\ u.after = af
  BY <1>11 DEF Worlds
<1>15. u = [w EXCEPT
              !.kind = Append(@, k),
              !.stored = @ \cup {Len(w.kind) + 1}, !.parsers = @ \cup {Len(w.kind) + 1},
              !.byDc[Len(w.kind) + 1] = IF target = ToMain THEN [s EXCEPT !.dc = -@] ELSE s,
              !.after[Len(w.kind) + 1] = IF afterId # Null /\ afterId \in w.stored THEN afterId ELSE Null]
  BY <1>3, <1>7, <1>9, <1>11 DEF Worlds
<1>16. CASE afterId # Null /\ afterId \in w.stored /\ w.dependent[afterId] # Null
  <2>1. v = [u EXCEPT !.dependent[x] = afterId] BY <1>1, <1>15, <1>16 DEF Requesting
  <2>2. PICK dep : dep = [u.dependent EXCEPT ![x] = afterId] OBVIOUS
  <2>3. v = [u EXCEPT !.dependent = dep] BY <1>12, <2>1, <2>2 DEF Worlds
  <2>4. a = afterId /\ afterId \in Id BY <1>7, <1>8, <1>16
  <2>5. dep \in [Id -> {Null} \cup Id] BY <1>12, <2>2, <2>4, WorldTypes
  <2>6. v \in Worlds BY <1>12, <2>3, <2>5 DEF Worlds
  <2>7. Same(v, u, {"dependent"}) BY <1>12, <2>3 DEF Worlds, Same, Fields
  <2>8. v.dependent = dep BY <1>12, <2>3 DEF Worlds
  <2>9. u.dependent = w.dependent /\ u.toSend = w.toSend BY <1>13 DEF Same, Fields
  <2>10. /\ v.kind = kinds /\ v.stored = st /\ v.parsers = ps /\ v.byDc = by /\ v.after = af
         /\ v.toSend = w.toSend
    BY <1>14, <2>7, <2>9 DEF Same, Fields
  <2>11. Same(v, w, {"kind", "stored", "parsers", "byDc", "after", "dependent", "toSend"})
    BY <1>13, <2>7 DEF Same
  <2>12. NewRequest(v, w, k, target, x, b, a)
    BY <1>4, <1>6, <1>8, <1>9, <1>16, <2>2, <2>4, <2>8, <2>9, <2>10, <2>11 DEF NewRequest
  <2> QED BY <2>6, <2>12
<1>17. CASE ~(afterId # Null /\ afterId \in w.stored /\ w.dependent[afterId] # Null)
  <2>1. v = SendPrepared(u, s, x) BY <1>1, <1>15, <1>17 DEF Requesting
  <2>2. /\ v \in Worlds /\ Same(v, u, {"toSend"}) /\ v.toSend = u.toSend \cup {Place(s, x)}
    BY <1>2, <1>12, <2>1, SendPreparedFields
  <2>3. u.dependent = w.dependent /\ u.toSend = w.toSend BY <1>13 DEF Same, Fields
  <2>4. /\ v.kind = kinds /\ v.stored = st /\ v.parsers = ps /\ v.byDc = by /\ v.after = af
        /\ v.dependent = w.dependent
    BY <1>14, <2>2, <2>3 DEF Same, Fields
  <2>5. Same(v, w, {"kind", "stored", "parsers", "byDc", "after", "dependent", "toSend"})
    BY <1>13, <2>2 DEF Same
  <2>6. NewRequest(v, w, k, target, x, b, a)
    BY <1>4, <1>5, <1>6, <1>8, <1>9, <2>2, <2>3, <2>4, <2>5 DEF NewRequest
  <2> QED BY <2>2, <2>6
<1> QED BY <1>16, <1>17

\* An export that is done makes one import, in the data centre it is for.
LEMMA ExportedFields ==
    ASSUME NEW w \in Worlds, NEW e \in Id, w.exports[e].dc > 0,
           NEW x \in Id, x = Len(w.kind) + 1, NEW v, v = Exported(w, e)
    PROVE  /\ v \in Worlds
           /\ \E u \in Worlds : \E a, b :
                 /\ NewRequest(u, w, "import", w.exports[e], x, b, a)
                 /\ Same(v, u, {"exports"}) /\ v.exports = [w.exports EXCEPT ![e] = Nowhere]
<1>1. w.exports[e] \in Session BY WorldTypes
<1>2. PICK u : u = Requesting(w, "import", w.exports[e], Null) OBVIOUS
<1>3. "import" \in Kind BY DEF Kind
<1>4. u \in Worlds /\ \E a, b : NewRequest(u, w, "import", w.exports[e], x, b, a)
  BY <1>1, <1>2, <1>3, RequestingFields DEF Session
<1>5. u.exports = w.exports BY <1>4 DEF NewRequest, Same, Fields
<1>6. PICK ex : ex = [w.exports EXCEPT ![e] = Nowhere] OBVIOUS
<1>7. ex \in [Id -> Session] BY <1>6, WorldTypes DEF Nowhere, Session
<1>8. v = [u EXCEPT !.exports = ex] BY <1>2, <1>4, <1>5, <1>6 DEF Exported, Worlds
<1>9. v \in Worlds BY <1>4, <1>7, <1>8 DEF Worlds
<1>10. Same(v, u, {"exports"}) BY <1>4, <1>8 DEF Worlds, Same, Fields
<1>11. v.exports = ex BY <1>4, <1>8 DEF Worlds
<1> QED BY <1>4, <1>6, <1>9, <1>10, <1>11

ResumedTypes(u, B, S, D, W) ==
    /\ u \in Worlds /\ B \in [Id -> Session] /\ S \in SUBSET [session: Session, id: Id]
    /\ D \in SUBSET Id /\ W \in [Dc -> Seq(Id)]

\* An import that is done gives the requests that wait to sessions.
LEMMA ResumedType ==
    ASSUME NEW u, NEW B, NEW S, NEW D, NEW W, ResumedTypes(u, B, S, D, W)
    PROVE  [u EXCEPT !.byDc = B, !.toSend = S, !.dropped = D, !.waiters = W] \in Worlds
  BY DEF Worlds, ResumedTypes

(* What an import that is done makes of the world w: first u, then v. *)
IsResumed(v, u, w, d) ==
    /\ u \in Worlds /\ (u = w \/ u = SetMainDcId(w, d))
    /\ v \in Worlds /\ Same(v, u, {"byDc", "toSend", "dropped", "waiters"})
    /\ v.byDc = [x \in Id |-> IF x \in Found(w, d) THEN SessionIn(w, d, x) ELSE w.byDc[x]]
    /\ v.toSend = u.toSend
          \cup {Place(SessionIn(w, d, x), x) : x \in Found(w, d) \ FoundLost(w, d)}
    /\ v.dropped = u.dropped \cup FoundToMain(w, d) \cup FoundLost(w, d)
    /\ v.waiters = [w.waiters EXCEPT ![d] = <<>>]

\* Those that wait in the queue leave it, and no other request moves.
LEMMA ResumedFields ==
    ASSUME NEW w \in Worlds, NEW i \in Id, NEW d \in Dc, w.byDc[i].dc = d,
           NEW v, v = Resumed(w, i),
           NEW u, u = IF FoundToMain(w, d) = {} THEN w ELSE SetMainDcId(w, d)
    PROVE  IsResumed(v, u, w, d)
<1>1. /\ u \in Worlds /\ Same(u, w, {"main", "toSend", "sent", "dropped"})
      /\ u = w \/ u = SetMainDcId(w, d)
  <2>1. CASE u = w BY <2>1 DEF Same
  <2>2. CASE u = SetMainDcId(w, d) BY <2>2, SetMainDcIdFields
  <2> QED BY <2>1, <2>2
<1>2. u.byDc = w.byDc /\ u.waiters = w.waiters BY <1>1 DEF Same, Fields
<1>3. d \in Int /\ Found(w, d) \subseteq Id
  <2>1. d \in Int OBVIOUS
  <2>2. Found(w, d) \subseteq Id BY WorldTypes DEF Found
  <2> QED BY <2>1, <2>2
<1>4. ASSUME NEW x \in Id PROVE SessionIn(w, d, x) \in Session
  <2>1. w.byDc[x] \in Session BY WorldTypes
  <2>2. [w.byDc[x] EXCEPT !.dc = d] \in Session BY <1>3, <2>1 DEF Session
  <2>3. [dc |-> -d, shift |-> 0] \in Session BY <1>3 DEF Session
  <2> QED BY <2>2, <2>3 DEF SessionIn
<1>5. PICK B, S, D, W :
        /\ B = [x \in Id |-> IF x \in Found(w, d) THEN SessionIn(w, d, x) ELSE w.byDc[x]]
        /\ S = u.toSend \cup {Place(SessionIn(w, d, x), x) : x \in Found(w, d) \ FoundLost(w, d)}
        /\ D = u.dropped \cup FoundToMain(w, d) \cup FoundLost(w, d)
        /\ W = [w.waiters EXCEPT ![d] = <<>>]
  OBVIOUS
<1>6. B \in [Id -> Session] BY <1>4, <1>5, WorldTypes
<1>7. \A x \in Found(w, d) : Place(SessionIn(w, d, x), x) \in [session: Session, id: Id]
  BY <1>3, <1>4, PlaceType
<1>8. S \in SUBSET [session: Session, id: Id]
  <2>1. u.toSend \subseteq [session: Session, id: Id] BY <1>1, WorldTypes
  <2> QED BY <1>5, <1>7, <2>1
<1>9. D \in SUBSET Id
  <2>1. u.dropped \subseteq Id BY <1>1, WorldTypes
  <2>2. FoundToMain(w, d) \subseteq Id /\ FoundLost(w, d) \subseteq Id
    BY <1>3 DEF FoundToMain, FoundLost
  <2> QED BY <1>5, <2>1, <2>2
<1>10. W \in [Dc -> Seq(Id)] BY <1>5, WorldTypes
<1>16. v = ResumedIn(w, d) BY DEF Resumed
<1>17. B = [x \in Id |-> IF x \in Found(w, d) THEN SessionIn(w, d, x) ELSE u.byDc[x]]
  BY <1>2, <1>5
<1>18. W = [u.waiters EXCEPT ![d] = <<>>] BY <1>2, <1>5
<1>19. v = [u EXCEPT !.byDc = [x \in Id |-> IF x \in Found(w, d) THEN SessionIn(w, d, x) ELSE u.byDc[x]],
                     !.toSend = u.toSend \cup {Place(SessionIn(w, d, x), x) :
                                        x \in Found(w, d) \ FoundLost(w, d)},
                     !.dropped = u.dropped \cup FoundToMain(w, d) \cup FoundLost(w, d),
                     !.waiters = [u.waiters EXCEPT ![d] = <<>>]]
  BY <1>1, <1>16 DEF ResumedIn, Worlds
<1>20. v.byDc = B BY <1>1, <1>17, <1>19 DEF Worlds
<1>21. v.toSend = S BY <1>1, <1>5, <1>19 DEF Worlds
<1>22. v.dropped = D BY <1>1, <1>5, <1>19 DEF Worlds
<1>23. v.waiters = W BY <1>1, <1>18, <1>19 DEF Worlds
<1>14. Same(v, u, {"byDc", "toSend", "dropped", "waiters"}) BY <1>1, <1>19 DEF Worlds, Same, Fields
<1>24. S = u.toSend \cup {Place(SessionIn(w, d, x), x) : x \in Found(w, d) \ FoundLost(w, d)}
  BY <1>5
<1>25. D = u.dropped \cup FoundToMain(w, d) \cup FoundLost(w, d) BY <1>5
<1>26. v = [u EXCEPT !.byDc = B, !.toSend = S, !.dropped = D, !.waiters = W]
  BY <1>17, <1>18, <1>19, <1>24, <1>25, Zenon
<1>27. ResumedTypes(u, B, S, D, W) BY <1>1, <1>6, <1>8, <1>9, <1>10 DEF ResumedTypes
<1>13. v \in Worlds
  <2>1. [u EXCEPT !.byDc = B, !.toSend = S, !.dropped = D, !.waiters = W] \in Worlds
    BY <1>27, ResumedType, Zenon
  <2> QED BY <1>26, <2>1, Zenon
<1> QED BY <1>1, <1>5, <1>13, <1>14, <1>20, <1>21, <1>22, <1>23 DEF IsResumed

-----------------------------------------------------------------------------
(* What each operator preserves.                                             *)

\* A new main data centre loses requests, but keeps the tables right.
LEMMA SetMainDcIdKeeps ==
    ASSUME NEW w, NEW hand, NEW done, Fits(w, hand, done), NEW d \in Dc,
           NEW v, v = SetMainDcId(w, d)
    PROVE  Fits(v, hand, done) /\ \A x \in Id : NoPlace(w, x) => NoPlace(v, x)
<1>1. w \in Worlds BY DEF Fits
<1>2. /\ v \in Worlds /\ Same(v, w, {"main", "toSend", "sent", "dropped"})
      /\ v.toSend \subseteq w.toSend /\ v.sent \subseteq w.sent
      /\ w.dropped \subseteq v.dropped
      /\ v.dropped \subseteq w.dropped \cup {p.id : p \in Held(w)}
      /\ \A p \in Held(w) : p \in Held(v) \/ p.id \in v.dropped
  BY <1>1, SetMainDcIdFields
<1>3. /\ v.byDc = w.byDc /\ v.stored = w.stored /\ v.parsers = w.parsers /\ v.after = w.after
      /\ v.dependent = w.dependent /\ v.delayed = w.delayed /\ v.waiters = w.waiters
      /\ v.exports = w.exports /\ v.order = w.order /\ v.kind = w.kind /\ v.broken = w.broken
  BY <1>2 DEF Same, Fields
<1>4. Held(v) \subseteq Held(w) BY <1>2 DEF Held
<1>5. Reg(v) = Reg(w) BY <1>3 DEF Reg
<1>6. Tables(v, hand) BY <1>3, <1>5 DEF Fits, Tables
<1>7. HeldRight(v, hand) BY <1>2, <1>3, <1>4, <1>5 DEF Fits, HeldRight
<1>8. HeldOnce(v) BY <1>2, <1>4 DEF Fits, HeldOnce
<1>9. WaitsOnce(v) BY <1>3 DEF Fits, WaitsOnce
<1>10. \A x \in Id : HeldId(v, x) => HeldId(w, x) BY <1>4 DEF HeldId
<1>11. \A x \in Id : WaitsIn(v, x) <=> WaitsIn(w, x) BY <1>3 DEF WaitsIn
<1>12. Apart(v) BY <1>3, <1>10, <1>11 DEF Fits, Apart
<1>13. Made(v)
  <2>1. v.dropped \subseteq DOMAIN v.kind BY <1>2, <1>3 DEF Fits, Made
  <2>2. \A p \in Held(v) : p.id \in DOMAIN v.kind BY <1>3, <1>4 DEF Fits, Made
  <2>3. KindOf(v, "user") = KindOf(w, "user") BY <1>3 DEF KindOf
  <2> QED BY <1>3, <1>5, <1>11, <2>1, <2>2, <2>3 DEF Fits, Made
<1>14. Behind(v) BY <1>3, <1>5 DEF Fits, Behind
<1>15. AuthInDc(v, done) BY <1>3, <1>5 DEF Fits, AuthInDc
<1>16. AuthAsked(v, done)
  <2>1. \A d2 \in Dc : AuthOf(v, d2) = AuthOf(w, d2) BY <1>3, <1>5 DEF AuthOf
  <2> QED BY <1>3, <2>1 DEF Fits, AuthAsked
<1>17. Somewhere(v, hand)
  <2>1. ASSUME NEW x \in Id, HeldId(w, x) PROVE HeldId(v, x) \/ x \in v.dropped
    <3>1. PICK p \in Held(w) : p.id = x BY <2>1 DEF HeldId
    <3> QED BY <1>2, <3>1 DEF HeldId
  <2> QED BY <1>2, <1>3, <1>5, <1>11, <2>1 DEF Fits, Somewhere, Reg
<1>18. Counts(v, done) BY <1>3, <1>5 DEF Fits, Counts, KindOf
<1>19. \A x \in Id : NoPlace(w, x) => NoPlace(v, x) BY <1>3, <1>10, <1>11 DEF NoPlace
<1> QED BY <1>2, <1>6, <1>7, <1>8, <1>9, <1>12, <1>13, <1>14, <1>15, <1>16, <1>17, <1>18, <1>19 DEF Fits

\* A request in the hand that is given one place leaves the tables right.
LEMMA PutBack ==
    ASSUME NEW w, NEW x \in Id, InHand(w, x), NEW v, v = SendPrepared(w, Abs(w.byDc[x]), x)
    PROVE  Fits(v, {}, {})
<1>1. w \in Worlds /\ Fits(w, {x}, {}) /\ NoPlace(w, x) BY DEF InHand, Fits
<1>2. PICK s \in Session : s = Abs(w.byDc[x])
  BY <1>1, AbsIsSession, WorldTypes
<1>3. v \in Worlds /\ Same(v, w, {"toSend"}) /\ v.toSend = w.toSend \cup {Place(s, x)}
  BY <1>1, <1>2, SendPreparedFields
<1>4. /\ v.byDc = w.byDc /\ v.stored = w.stored /\ v.parsers = w.parsers /\ v.after = w.after
      /\ v.dependent = w.dependent /\ v.delayed = w.delayed /\ v.waiters = w.waiters
      /\ v.exports = w.exports /\ v.order = w.order /\ v.kind = w.kind /\ v.broken = w.broken
      /\ v.dropped = w.dropped /\ v.sent = w.sent
  BY <1>3 DEF Same, Fields
<1>5. PICK q : q = Place(s, x) OBVIOUS
<1>6. q.session = s /\ q.id = x BY <1>5, PlaceFields
<1>7. Held(v) = Held(w) \cup {q} BY <1>3, <1>4, <1>5 DEF Held
<1>8. Reg(v) = Reg(w) BY <1>4 DEF Reg
<1>9. x \in Reg(v) /\ x \in w.stored /\ x \in w.parsers BY <1>8 DEF InHand
<1>10. Tables(v, {}) BY <1>1, <1>4, <1>8, <1>9 DEF Fits, Tables
<1>11. \A p \in Held(w) : p.id # x BY <1>1 DEF NoPlace, HeldId
<1>12. HeldRight(v, {})
  <2>1. ASSUME NEW p \in Held(w)
        PROVE  \/ p.id \in v.dropped /\ p.session.dc < 0
               \/ p.id \in Reg(v) /\ p.session = Abs(v.byDc[p.id])
    BY <1>1, <1>4, <1>8, <1>11 DEF Fits, HeldRight
  <2>2. q.id \in Reg(v) /\ q.session = Abs(v.byDc[q.id]) BY <1>2, <1>4, <1>6, <1>9
  <2> QED BY <1>7, <2>1, <2>2 DEF HeldRight
<1>13. HeldOnce(v)
  <2>1. v.toSend \cap v.sent = {} BY <1>1, <1>3, <1>4, <1>5, <1>6, <1>11 DEF Fits, HeldOnce, Held
  <2> QED BY <1>1, <1>6, <1>7, <1>11, <2>1 DEF Fits, HeldOnce
<1>14. WaitsOnce(v) BY <1>1, <1>4 DEF Fits, WaitsOnce
<1>15. \A y \in Id : HeldId(v, y) <=> y = x \/ HeldId(w, y) BY <1>6, <1>7 DEF HeldId
<1>16. \A y \in Id : WaitsIn(v, y) <=> WaitsIn(w, y) BY <1>4 DEF WaitsIn
<1>17. Apart(v)
  <2>1. /\ x \notin w.delayed /\ w.dependent[x] = Null /\ ~WaitsIn(w, x) BY <1>1 DEF NoPlace
  <2> QED BY <1>1, <1>4, <1>15, <1>16, <2>1 DEF Fits, Apart
<1>18. Made(v)
  <2>1. KindOf(v, "user") = KindOf(w, "user") BY <1>4 DEF KindOf
  <2>2. x \in DOMAIN w.kind BY <1>1, <1>8, <1>9 DEF Fits, Made
  <2> QED BY <1>1, <1>4, <1>6, <1>7, <1>8, <1>16, <2>1, <2>2 DEF Fits, Made
<1>19. Behind(v) BY <1>1, <1>4, <1>8 DEF Fits, Behind
<1>20. AuthInDc(v, {}) BY <1>1, <1>4, <1>8 DEF Fits, AuthInDc
<1>21. AuthAsked(v, {})
  <2>1. \A d \in Dc : AuthOf(v, d) = AuthOf(w, d) BY <1>4, <1>8 DEF AuthOf
  <2> QED BY <1>1, <1>4, <2>1 DEF Fits, AuthAsked
<1>22. Somewhere(v, {}) BY <1>1, <1>4, <1>8, <1>15, <1>16 DEF Fits, Somewhere, Reg
<1>23. Counts(v, {}) BY <1>1, <1>4, <1>8 DEF Fits, Counts, KindOf
<1> QED BY <1>3, <1>10, <1>12, <1>13, <1>14, <1>17, <1>18, <1>19, <1>20, <1>21, <1>22, <1>23 DEF Fits

(* An answer takes a request from its session: it is in the hand of
   processCallback. *)
LEMMA AnsweredTakes ==
    ASSUME Fits(World, {}, {}), NEW p \in sent, p.session.dc \in Dc, NEW good \in BOOLEAN,
           NEW v, v = Answered(p, good)
    PROVE  /\ InHand(v, p.id) /\ p.id \in Id /\ p.session = Abs(byDc[p.id])
           /\ v.order[p.id] = "none"
           /\ Same(v, World, {"sent", "order"})
<1> DEFINE w == World
<1>1. w \in Worlds BY DEF Fits
<1>2. /\ w.byDc = byDc /\ w.sent = sent /\ w.order = order /\ w.after = after
      /\ w.dropped = dropped
  BY DEF World
<1>3. PICK o, S : o = HandledOrder(p, good) /\ S = sent \ {p} OBVIOUS
<1>4. v = [w EXCEPT !.sent = S, !.order = o] BY <1>3 DEF Answered, World
<1>5. o \in [Id -> {"none", "waits", "failed"}]
      /\ \A x \in Id : o[x] # "none" => order[x] # "none"
  <2>1. order \in [Id -> {"none", "waits", "failed"}] BY <1>1, <1>2, WorldTypes
  <2> QED BY <1>3, <2>1 DEF HandledOrder
<1>6. p \in [session: Session, id: Id] /\ S \in SUBSET [session: Session, id: Id]
  BY <1>1, <1>2, <1>3, WorldTypes
<1>7. p.id \in Id BY <1>6
<1>8. o[p.id] = "none" BY <1>3, <1>7 DEF HandledOrder
<1>9. p \in Held(w) BY <1>2 DEF Held
<1>10. p.id \in Reg(w) /\ p.session = Abs(byDc[p.id])
  <2>1. ~(p.session.dc < 0)
    <3>1. PICK d \in Dc : d = p.session.dc OBVIOUS
    <3>2. d \in Nat BY DcAssumption
    <3> QED BY <3>1, <3>2
  <2>2. HeldRight(w, {}) BY DEF Fits
  <2> HIDE DEF w
  <2> QED BY <1>2, <1>9, <2>1, <2>2 DEF HeldRight
<1> HIDE DEF w
<1>11. v \in Worlds BY <1>1, <1>4, <1>5, <1>6 DEF Worlds
<1>12. Same(v, w, {"sent", "order"}) BY <1>1, <1>4 DEF Worlds, Same, Fields
<1>13. v.sent = S /\ v.order = o BY <1>1, <1>4 DEF Worlds
<1>14. /\ v.byDc = w.byDc /\ v.stored = w.stored /\ v.parsers = w.parsers /\ v.after = w.after
       /\ v.dependent = w.dependent /\ v.delayed = w.delayed /\ v.waiters = w.waiters
       /\ v.exports = w.exports /\ v.kind = w.kind /\ v.broken = w.broken
       /\ v.dropped = w.dropped /\ v.toSend = w.toSend
  BY <1>12 DEF Same, Fields
<1>15. Fits(w, {}, {}) BY DEF w
<1>16. Reg(v) = Reg(w) BY <1>14 DEF Reg
<1>17. Held(v) \subseteq Held(w) /\ p \in Held(w) /\ Held(w) \ {p} \subseteq Held(v)
  BY <1>2, <1>3, <1>9, <1>13, <1>14 DEF Held
<1>18. \A q \in Held(v) : q.id # p.id
  <2>1. ASSUME NEW q \in Held(v), q.id = p.id PROVE FALSE
    <3>1. q = p BY <1>15, <1>17, <2>1 DEF Fits, HeldOnce
    <3>2. q \in v.toSend BY <1>3, <1>13, <2>1, <3>1 DEF Held
    <3> QED BY <1>2, <1>14, <1>15, <3>1, <3>2 DEF Fits, HeldOnce
  <2> QED BY <2>1
<1>19. \A x \in Id : HeldId(v, x) => x # p.id /\ HeldId(w, x) BY <1>17, <1>18 DEF HeldId
<1>20. \A x \in Id : x # p.id /\ HeldId(w, x) => HeldId(v, x) BY <1>17 DEF HeldId
<1>21. HeldId(w, p.id) BY <1>17 DEF HeldId
<1>22. \A x \in Id : WaitsIn(v, x) <=> WaitsIn(w, x) BY <1>14 DEF WaitsIn
<1>23. NoPlace(v, p.id)
  <2>1. ~HeldId(v, p.id) BY <1>7, <1>19
  <2> QED BY <1>7, <1>14, <1>15, <1>21, <1>22, <2>1 DEF Fits, Apart, NoPlace
<1>24. Tables(v, {p.id}) BY <1>14, <1>15, <1>16 DEF Fits, Tables
<1>25. HeldRight(v, {p.id}) BY <1>14, <1>15, <1>16, <1>17 DEF Fits, HeldRight
<1>26. HeldOnce(v) 
  <2>1. v.toSend \cap v.sent = {} BY <1>2, <1>3, <1>13, <1>14, <1>15 DEF Fits, HeldOnce
  <2> QED BY <1>15, <1>17, <2>1 DEF Fits, HeldOnce
<1>27. WaitsOnce(v) BY <1>14, <1>15 DEF Fits, WaitsOnce
<1>28. Apart(v) BY <1>14, <1>15, <1>19, <1>22 DEF Fits, Apart
<1>29. Made(v)
  <2>1. KindOf(v, "user") = KindOf(w, "user") BY <1>14 DEF KindOf
  <2>2. \A x \in Id : v.order[x] # "none" => w.order[x] # "none" BY <1>2, <1>5, <1>13
  <2> QED BY <1>14, <1>15, <1>16, <1>17, <1>22, <2>1, <2>2 DEF Fits, Made
<1>30. Behind(v) BY <1>14, <1>15, <1>16 DEF Fits, Behind
<1>31. AuthInDc(v, {}) BY <1>14, <1>15, <1>16 DEF Fits, AuthInDc
<1>32. AuthAsked(v, {})
  <2>1. \A d \in Dc : AuthOf(v, d) = AuthOf(w, d) BY <1>14, <1>16 DEF AuthOf
  <2> QED BY <1>14, <1>15, <2>1 DEF Fits, AuthAsked
<1>33. Somewhere(v, {p.id}) BY <1>14, <1>15, <1>16, <1>20, <1>22 DEF Fits, Somewhere, Reg
<1>34. Counts(v, {}) BY <1>14, <1>15, <1>16 DEF Fits, Counts, KindOf
<1>35. Fits(v, {p.id}, {})
  BY <1>11, <1>24, <1>25, <1>26, <1>27, <1>28, <1>29, <1>30, <1>31, <1>32, <1>33, <1>34 DEF Fits
<1>36. p.id \in v.stored /\ p.id \in v.parsers BY <1>10, <1>14, <1>15 DEF Fits, Tables
<1>37. InHand(v, p.id) BY <1>10, <1>16, <1>23, <1>35, <1>36 DEF InHand
<1> QED BY <1>7, <1>8, <1>10, <1>12, <1>13, <1>37 DEF w

\* Requests that leave the delayed ones for sessions.
LEMMA ResentDelayedKeeps ==
    ASSUME NEW w, Fits(w, {}, {}), NEW due \in SUBSET w.delayed, NEW v, v = ResentDelayed(w, due)
    PROVE  Fits(v, {}, {})
<1>1. w \in Worlds /\ w.delayed \subseteq Id BY WorldTypes DEF Fits
<1> DEFINE again == due \cap Reg(w) \cap w.stored
<1>2. /\ v \in Worlds /\ Same(v, w, {"delayed", "toSend"})
      /\ v.delayed = w.delayed \ due
      /\ v.toSend = w.toSend \cup {Place(Abs(w.byDc[x]), x) : x \in again}
  BY <1>1, ResentDelayedFields
<1>3. /\ v.byDc = w.byDc /\ v.stored = w.stored /\ v.parsers = w.parsers /\ v.after = w.after
      /\ v.dependent = w.dependent /\ v.sent = w.sent /\ v.waiters = w.waiters
      /\ v.exports = w.exports /\ v.order = w.order /\ v.kind = w.kind /\ v.broken = w.broken
      /\ v.dropped = w.dropped
  BY <1>2 DEF Same, Fields
<1>4. Reg(v) = Reg(w) BY <1>3 DEF Reg
<1>5. again = due \cap Reg(w) /\ again \subseteq Id BY <1>1 DEF Fits, Tables
<1>6. \A q \in {Place(Abs(w.byDc[x]), x) : x \in again} :
         q.id \in again /\ q.session = Abs(w.byDc[q.id])
  BY PlaceFields
<1>7. \A x \in again : \E q \in Held(v) : q.id = x BY <1>2, PlaceFields DEF Held
<1> HIDE DEF again
<1>8. \A q \in Held(v) : q \in Held(w) \/ (q \in v.toSend /\ q.id \in again /\ q.session = Abs(w.byDc[q.id]))
  BY <1>2, <1>3, <1>6 DEF Held
<1>9. Held(w) \subseteq Held(v) BY <1>2, <1>3 DEF Held
<1>10. \A x \in Id : HeldId(v, x) <=> HeldId(w, x) \/ x \in again BY <1>7, <1>8, <1>9 DEF HeldId
<1>11. \A x \in again : ~HeldId(w, x) /\ w.dependent[x] = Null /\ ~WaitsIn(w, x)
  BY <1>1, <1>5 DEF Fits, Apart
<1>12. \A p \in Held(w) : p.id \notin again BY <1>11 DEF HeldId
<1>13. Tables(v, {}) BY <1>3, <1>4 DEF Fits, Tables
<1>14. HeldRight(v, {}) BY <1>3, <1>4, <1>5, <1>8 DEF Fits, HeldRight
<1>15. HeldOnce(v)
  <2>1. v.toSend \cap v.sent = {}
    <3>1. \A q \in v.toSend : q \in w.toSend \/ q.id \in again BY <1>2, <1>6
    <3>2. \A q \in v.sent : q \in w.sent /\ q.id \notin again BY <1>3, <1>12 DEF Held
    <3> QED BY <3>1, <3>2 DEF Fits, HeldOnce
  <2>2. ASSUME NEW p \in Held(v), NEW q \in Held(v), p.id = q.id PROVE p = q
    <3>1. CASE p.id \in again
      <4>1. p \notin Held(w) /\ q \notin Held(w) BY <1>12, <2>2, <3>1
      <4>2. \A r \in Held(v) : r \notin Held(w) => r = Place(Abs(w.byDc[r.id]), r.id)
        <5>1. \A r \in {Place(Abs(w.byDc[x]), x) : x \in again} : r = Place(Abs(w.byDc[r.id]), r.id)
          BY PlaceFields
        <5> QED BY <1>2, <1>3, <5>1 DEF Held
      <4> QED BY <2>2, <4>1, <4>2
    <3>2. CASE p.id \notin again BY <1>8, <2>2, <3>2 DEF Fits, HeldOnce
    <3> QED BY <3>1, <3>2
  <2> QED BY <2>1, <2>2 DEF HeldOnce
<1>16. WaitsOnce(v) BY <1>3 DEF Fits, WaitsOnce
<1>17. \A x \in Id : WaitsIn(v, x) <=> WaitsIn(w, x) BY <1>3 DEF WaitsIn
<1>18. Apart(v) BY <1>2, <1>3, <1>5, <1>10, <1>11, <1>17 DEF Fits, Apart
<1>19. Made(v)
  <2>1. KindOf(v, "user") = KindOf(w, "user") BY <1>3 DEF KindOf
  <2>2. v.delayed \subseteq DOMAIN w.kind BY <1>2 DEF Fits, Made
  <2>3. \A q \in Held(v) : q.id \in DOMAIN w.kind BY <1>5, <1>8 DEF Fits, Made
  <2> QED BY <1>3, <1>4, <1>17, <2>1, <2>2, <2>3 DEF Fits, Made
<1>20. Behind(v) BY <1>3, <1>4 DEF Fits, Behind
<1>21. AuthInDc(v, {}) BY <1>3, <1>4 DEF Fits, AuthInDc
<1>22. AuthAsked(v, {})
  <2>1. \A d \in Dc : AuthOf(v, d) = AuthOf(w, d) BY <1>3, <1>4 DEF AuthOf
  <2> QED BY <1>3, <2>1 DEF Fits, AuthAsked
<1>23. Somewhere(v, {}) BY <1>2, <1>3, <1>4, <1>5, <1>10, <1>17 DEF Fits, Somewhere, Reg
<1>24. Counts(v, {}) BY <1>3, <1>4 DEF Fits, Counts, KindOf
<1> QED BY <1>2, <1>13, <1>14, <1>15, <1>16, <1>18, <1>19, <1>20, <1>21, <1>22, <1>23, <1>24 DEF Fits

\* A request in the hand that is delayed.
LEMMA DelayedKeeps ==
    ASSUME NEW w, NEW x \in Id, InHand(w, x), NEW v, v = [w EXCEPT !.delayed = @ \cup {x}]
    PROVE  Fits(v, {}, {})
<1>1. w \in Worlds /\ Fits(w, {x}, {}) /\ NoPlace(w, x) BY DEF InHand, Fits
<1>2. PICK S \in SUBSET Id : S = w.delayed \cup {x} BY <1>1, WorldTypes
<1>3. v = [w EXCEPT !.delayed = S] BY <1>1, <1>2 DEF Worlds
<1>4. v \in Worlds BY <1>1, <1>3 DEF Worlds
<1>5. Same(v, w, {"delayed"}) BY <1>1, <1>3 DEF Worlds, Same, Fields
<1>6. v.delayed = w.delayed \cup {x} BY <1>1, <1>2, <1>3 DEF Worlds
<1>7. /\ v.byDc = w.byDc /\ v.stored = w.stored /\ v.parsers = w.parsers /\ v.after = w.after
      /\ v.dependent = w.dependent /\ v.toSend = w.toSend /\ v.waiters = w.waiters
      /\ v.exports = w.exports /\ v.order = w.order /\ v.kind = w.kind /\ v.broken = w.broken
      /\ v.dropped = w.dropped /\ v.sent = w.sent
  BY <1>5 DEF Same, Fields
<1>8. Reg(v) = Reg(w) BY <1>7 DEF Reg
<1>9. Held(v) = Held(w) BY <1>7 DEF Held
<1>10. x \in Reg(v) /\ x \in w.stored /\ x \in w.parsers BY <1>8 DEF InHand
<1>11. \A y \in Id : HeldId(v, y) <=> HeldId(w, y) BY <1>9 DEF HeldId
<1>12. \A y \in Id : WaitsIn(v, y) <=> WaitsIn(w, y) BY <1>7 DEF WaitsIn
<1>13. ~HeldId(w, x) /\ w.dependent[x] = Null /\ ~WaitsIn(w, x) BY <1>1 DEF NoPlace
<1>14. Tables(v, {}) BY <1>1, <1>7, <1>8, <1>10 DEF Fits, Tables
<1>15. HeldRight(v, {})
  <2>1. \A p \in Held(w) : p.id # x BY <1>13 DEF HeldId
  <2> QED BY <1>1, <1>7, <1>8, <1>9, <2>1 DEF Fits, HeldRight
<1>16. HeldOnce(v) BY <1>1, <1>7, <1>9 DEF Fits, HeldOnce
<1>17. WaitsOnce(v) BY <1>1, <1>7 DEF Fits, WaitsOnce
<1>18. Apart(v) BY <1>1, <1>6, <1>7, <1>11, <1>12, <1>13 DEF Fits, Apart
<1>19. Made(v)
  <2>1. KindOf(v, "user") = KindOf(w, "user") BY <1>7 DEF KindOf
  <2>2. x \in DOMAIN w.kind BY <1>1, <1>8, <1>10 DEF Fits, Made
  <2> QED BY <1>1, <1>6, <1>7, <1>8, <1>9, <1>12, <2>1, <2>2 DEF Fits, Made
<1>20. Behind(v) BY <1>1, <1>7, <1>8 DEF Fits, Behind
<1>21. AuthInDc(v, {}) BY <1>1, <1>7, <1>8 DEF Fits, AuthInDc
<1>22. AuthAsked(v, {})
  <2>1. \A d \in Dc : AuthOf(v, d) = AuthOf(w, d) BY <1>7, <1>8 DEF AuthOf
  <2> QED BY <1>1, <1>7, <2>1 DEF Fits, AuthAsked
<1>23. Somewhere(v, {}) BY <1>1, <1>6, <1>7, <1>8, <1>11, <1>12 DEF Fits, Somewhere, Reg
<1>24. Counts(v, {}) BY <1>1, <1>7, <1>8 DEF Fits, Counts, KindOf
<1> QED BY <1>4, <1>14, <1>15, <1>16, <1>17, <1>18, <1>19, <1>20, <1>21, <1>22, <1>23, <1>24 DEF Fits

\* A request in the hand that waits for no other any more.
LEMMA ForgottenAfterKeeps ==
    ASSUME NEW w, NEW x \in Id, InHand(w, x), w.order[x] = "none",
           NEW v, v = [w EXCEPT !.after[x] = Null]
    PROVE  InHand(v, x)
<1>1. w \in Worlds /\ Fits(w, {x}, {}) /\ NoPlace(w, x) BY DEF InHand, Fits
<1>2. PICK aft : aft = [w.after EXCEPT ![x] = Null] OBVIOUS
<1>3. aft \in [Id -> {Null} \cup Id] BY <1>1, <1>2, WorldTypes
<1>4. v = [w EXCEPT !.after = aft] BY <1>1, <1>2 DEF Worlds
<1>5. v \in Worlds BY <1>1, <1>3, <1>4 DEF Worlds
<1>6. Same(v, w, {"after"}) BY <1>1, <1>4 DEF Worlds, Same, Fields
<1>7. v.after = aft BY <1>1, <1>4 DEF Worlds
<1>8. /\ v.byDc = w.byDc /\ v.stored = w.stored /\ v.parsers = w.parsers /\ v.delayed = w.delayed
      /\ v.dependent = w.dependent /\ v.toSend = w.toSend /\ v.waiters = w.waiters
      /\ v.exports = w.exports /\ v.order = w.order /\ v.kind = w.kind /\ v.broken = w.broken
      /\ v.dropped = w.dropped /\ v.sent = w.sent
  BY <1>6 DEF Same, Fields
<1>9. \A y \in Id : y # x => v.after[y] = w.after[y] BY <1>1, <1>2, <1>7, WorldTypes
<1>10. v.after[x] = Null BY <1>1, <1>2, <1>7, WorldTypes
<1>11. Reg(v) = Reg(w) BY <1>8 DEF Reg
<1>12. Held(v) = Held(w) BY <1>8 DEF Held
<1>13. \A y \in Id : HeldId(v, y) <=> HeldId(w, y) BY <1>12 DEF HeldId
<1>14. \A y \in Id : WaitsIn(v, y) <=> WaitsIn(w, y) BY <1>8 DEF WaitsIn
<1>15. Tables(v, {x}) /\ HeldRight(v, {x}) BY <1>1, <1>8, <1>11, <1>12 DEF Fits, Tables, HeldRight
<1>16. HeldOnce(v) /\ WaitsOnce(v) BY <1>1, <1>8, <1>12 DEF Fits, HeldOnce, WaitsOnce
<1>17. Apart(v) BY <1>1, <1>8, <1>13, <1>14 DEF Fits, Apart
<1>18. Made(v)
  <2>1. KindOf(v, "user") = KindOf(w, "user") BY <1>8 DEF KindOf
  <2>2. \A y \in Id : v.after[y] # Null => y \in DOMAIN v.kind
    BY <1>1, <1>8, <1>9, <1>10 DEF Fits, Made
  <2>3. \A y \in Id : v.order[y] # "none" => v.after[y] # Null
    BY <1>1, <1>8, <1>9 DEF Fits, Made
  <2> QED BY <1>1, <1>8, <1>11, <1>12, <1>14, <2>1, <2>2, <2>3 DEF Fits, Made
<1>19. Behind(v)
  <2>1. w.dependent[x] = Null BY <1>1 DEF NoPlace
  <2> QED BY <1>1, <1>8, <1>9, <1>11, <2>1 DEF Fits, Behind
<1>20. AuthInDc(v, {}) BY <1>1, <1>8, <1>11 DEF Fits, AuthInDc
<1>21. AuthAsked(v, {})
  <2>1. \A d \in Dc : AuthOf(v, d) = AuthOf(w, d) BY <1>8, <1>11 DEF AuthOf
  <2> QED BY <1>1, <1>8, <2>1 DEF Fits, AuthAsked
<1>22. Somewhere(v, {x}) BY <1>1, <1>8, <1>11, <1>13, <1>14 DEF Fits, Somewhere, Reg
<1>23. Counts(v, {}) BY <1>1, <1>8, <1>11 DEF Fits, Counts, KindOf
<1>24. NoPlace(v, x) BY <1>1, <1>8, <1>13, <1>14 DEF NoPlace
<1>25. Fits(v, {x}, {})
  BY <1>5, <1>15, <1>16, <1>17, <1>18, <1>19, <1>20, <1>21, <1>22, <1>23 DEF Fits
<1> QED BY <1>8, <1>11, <1>24, <1>25 DEF InHand

(* A request that moves to another data centre is registered there. *)
Moved(w, x, b) == [w EXCEPT !.byDc[x] = b]

\* A request in the hand that gets another data centre.
LEMMA MovedKeeps ==
    ASSUME NEW w, NEW x \in Id, InHand(w, x), w.kind[x] = "user",
           NEW b \in Session, b # Nowhere, NEW v, v = Moved(w, x, b)
    PROVE  InHand(v, x) /\ v.byDc[x] = b
<1>1. w \in Worlds /\ Fits(w, {x}, {}) /\ NoPlace(w, x) BY DEF InHand, Fits
<1>2. PICK by : by = [w.byDc EXCEPT ![x] = b] OBVIOUS
<1>3. by \in [Id -> Session] BY <1>1, <1>2, WorldTypes
<1>4. v = [w EXCEPT !.byDc = by] BY <1>1, <1>2 DEF Worlds, Moved
<1>5. v \in Worlds BY <1>1, <1>3, <1>4 DEF Worlds
<1>6. Same(v, w, {"byDc"}) BY <1>1, <1>4 DEF Worlds, Same, Fields
<1>7. v.byDc = by BY <1>1, <1>4 DEF Worlds
<1>8. /\ v.after = w.after /\ v.stored = w.stored /\ v.parsers = w.parsers /\ v.delayed = w.delayed
      /\ v.dependent = w.dependent /\ v.toSend = w.toSend /\ v.waiters = w.waiters
      /\ v.exports = w.exports /\ v.order = w.order /\ v.kind = w.kind /\ v.broken = w.broken
      /\ v.dropped = w.dropped /\ v.sent = w.sent
  BY <1>6 DEF Same, Fields
<1>9. \A y \in Id : y # x => v.byDc[y] = w.byDc[y] BY <1>1, <1>2, <1>7, WorldTypes
<1>10. v.byDc[x] = b BY <1>1, <1>2, <1>7, WorldTypes
<1>11. Reg(v) = Reg(w) BY <1>9, <1>10 DEF Reg, InHand
<1>12. Held(v) = Held(w) BY <1>8 DEF Held
<1>13. \A y \in Id : HeldId(v, y) <=> HeldId(w, y) BY <1>12 DEF HeldId
<1>14. \A y \in Id : WaitsIn(v, y) <=> WaitsIn(w, y) BY <1>8 DEF WaitsIn
<1>15. Tables(v, {x}) BY <1>1, <1>8, <1>11 DEF Fits, Tables
<1>16. HeldRight(v, {x})
  <2>1. \A p \in Held(w) : p.id # x BY <1>1 DEF NoPlace, HeldId
  <2>2. Reg(w) \subseteq Id BY DEF Reg
  <2> QED BY <1>1, <1>8, <1>9, <1>11, <1>12, <2>1, <2>2 DEF Fits, HeldRight
<1>17. HeldOnce(v) /\ WaitsOnce(v) BY <1>1, <1>8, <1>12 DEF Fits, HeldOnce, WaitsOnce
<1>18. Apart(v) BY <1>1, <1>8, <1>13, <1>14 DEF Fits, Apart
<1>19. Made(v)
  <2>1. KindOf(v, "user") = KindOf(w, "user") BY <1>8 DEF KindOf
  <2> QED BY <1>1, <1>8, <1>11, <1>12, <1>14, <2>1 DEF Fits, Made
<1>20. Behind(v) BY <1>1, <1>8, <1>11 DEF Fits, Behind
<1>21. \A y \in Reg(v) : v.kind[y] = "import" => v.byDc[y] = w.byDc[y] BY <1>8, <1>9 DEF Reg
<1>22. AuthInDc(v, {}) BY <1>1, <1>8, <1>11, <1>21 DEF Fits, AuthInDc
<1>23. AuthAsked(v, {})
  <2>1. \A d \in Dc : AuthOf(v, d) = AuthOf(w, d) BY <1>8, <1>11, <1>21 DEF AuthOf
  <2> QED BY <1>1, <1>8, <2>1 DEF Fits, AuthAsked
<1>24. Somewhere(v, {x}) BY <1>1, <1>8, <1>11, <1>13, <1>14 DEF Fits, Somewhere, Reg
<1>25. Counts(v, {}) BY <1>1, <1>8, <1>11 DEF Fits, Counts, KindOf
<1>26. NoPlace(v, x) BY <1>1, <1>8, <1>13, <1>14 DEF NoPlace
<1>27. Fits(v, {x}, {})
  BY <1>5, <1>15, <1>16, <1>17, <1>18, <1>19, <1>20, <1>22, <1>23, <1>24, <1>25 DEF Fits
<1> QED BY <1>8, <1>10, <1>11, <1>26, <1>27 DEF InHand

\* A request in the hand that was refused since the one before it failed.
LEMMA AfterFailedKeeps ==
    ASSUME NEW w, NEW x \in Id, InHand(w, x), w.order[x] = "none", w.after[x] # Null,
           NEW v, v = AfterFailed(w, x)
    PROVE  Fits(v, {}, {})
<1>1. w \in Worlds /\ Fits(w, {x}, {}) /\ NoPlace(w, x) BY DEF InHand, Fits
<1>2. w.after[x] \in Id BY <1>1, WorldTypes
<1>3. CASE w.byDc[w.after[x]] # w.byDc[x]
  <2>1. PICK u : u = [w EXCEPT !.after[x] = Null] OBVIOUS
  <2>2. InHand(u, x) BY <2>1, ForgottenAfterKeeps
  <2>3. u.byDc = w.byDc BY <1>1, <2>1 DEF Worlds
  <2>4. v = SendPrepared(u, Abs(u.byDc[x]), x) BY <1>3, <2>1, <2>3 DEF AfterFailed
  <2> QED BY <2>2, <2>4, PutBack
<1>4. CASE w.byDc[w.after[x]] = w.byDc[x]
  <2>1. PICK y \in Id : y = w.after[x] BY <1>2
  <2>2. PICK dep : dep = [w.dependent EXCEPT ![x] = y] OBVIOUS
  <2>3. dep \in [Id -> {Null} \cup Id] BY <1>1, <2>1, <2>2, WorldTypes
  <2>4. v = [w EXCEPT !.dependent = dep] BY <1>1, <1>4, <2>1, <2>2 DEF AfterFailed, Worlds
  <2>5. v \in Worlds BY <1>1, <2>3, <2>4 DEF Worlds
  <2>6. Same(v, w, {"dependent"}) BY <1>1, <2>4 DEF Worlds, Same, Fields
  <2>7. v.dependent = dep BY <1>1, <2>4 DEF Worlds
  <2>8. /\ v.byDc = w.byDc /\ v.after = w.after /\ v.stored = w.stored /\ v.parsers = w.parsers
        /\ v.delayed = w.delayed /\ v.toSend = w.toSend /\ v.waiters = w.waiters
        /\ v.exports = w.exports /\ v.order = w.order /\ v.kind = w.kind /\ v.broken = w.broken
        /\ v.dropped = w.dropped /\ v.sent = w.sent
    BY <2>6 DEF Same, Fields
  <2>9. \A z \in Id : z # x => v.dependent[z] = w.dependent[z] BY <1>1, <2>2, <2>7, WorldTypes
  <2>10. v.dependent[x] = y /\ y # Null BY <1>1, <2>1, <2>2, <2>7, WorldTypes
  <2>11. Reg(v) = Reg(w) BY <2>8 DEF Reg
  <2>12. Held(v) = Held(w) BY <2>8 DEF Held
  <2>13. \A z \in Id : HeldId(v, z) <=> HeldId(w, z) BY <2>12 DEF HeldId
  <2>14. \A z \in Id : WaitsIn(v, z) <=> WaitsIn(w, z) BY <2>8 DEF WaitsIn
  <2>15. x \in Reg(v) /\ x \in w.stored /\ x \in w.parsers BY <2>11 DEF InHand
  <2>16. y \in Reg(v) BY <1>4, <2>1, <2>8, <2>15 DEF Reg
  <2>17. ~HeldId(w, x) /\ x \notin w.delayed /\ ~WaitsIn(w, x) BY <1>1 DEF NoPlace
  <2>18. Tables(v, {}) BY <1>1, <2>8, <2>11, <2>15 DEF Fits, Tables
  <2>19. HeldRight(v, {})
    <3>1. \A p \in Held(w) : p.id # x BY <2>17 DEF HeldId
    <3> QED BY <1>1, <2>8, <2>11, <2>12, <3>1 DEF Fits, HeldRight
  <2>20. HeldOnce(v) /\ WaitsOnce(v) BY <1>1, <2>8, <2>12 DEF Fits, HeldOnce, WaitsOnce
  <2>21. Apart(v) BY <1>1, <2>8, <2>9, <2>13, <2>14, <2>17 DEF Fits, Apart
  <2>22. Made(v)
    <3>1. KindOf(v, "user") = KindOf(w, "user") BY <2>8 DEF KindOf
    <3> QED BY <1>1, <2>8, <2>11, <2>12, <2>14, <3>1 DEF Fits, Made
  <2>23. Behind(v) BY <1>1, <2>1, <2>8, <2>9, <2>10, <2>11, <2>15, <2>16 DEF Fits, Behind
  <2>24. AuthInDc(v, {}) BY <1>1, <2>8, <2>11 DEF Fits, AuthInDc
  <2>25. AuthAsked(v, {})
    <3>1. \A d \in Dc : AuthOf(v, d) = AuthOf(w, d) BY <2>8, <2>11 DEF AuthOf
    <3> QED BY <1>1, <2>8, <3>1 DEF Fits, AuthAsked
  <2>26. Somewhere(v, {}) BY <1>1, <2>8, <2>9, <2>10, <2>11, <2>13, <2>14 DEF Fits, Somewhere, Reg
  <2>27. Counts(v, {}) BY <1>1, <2>8, <2>11 DEF Fits, Counts, KindOf
  <2> QED BY <2>5, <2>18, <2>19, <2>20, <2>21, <2>22, <2>23, <2>24, <2>25, <2>26, <2>27 DEF Fits
<1> QED BY <1>3, <1>4

(* What waits for a request directly is among its dependents, and so is what
   waits for one of them. *)
LEMMA DependentsClosed ==
    ASSUME NEW w, NEW id
    PROVE  /\ Dependents(w, id) \subseteq {x \in Id : w.dependent[x] # Null}
           /\ \A x \in Id : w.dependent[x] # Null /\ w.dependent[x] \in Dependents(w, id) \cup {id}
                  => x \in Dependents(w, id)
<1> DEFINE waiting == {x \in Id : w.dependent[x] # Null}
           closed(S) == \A x \in waiting : w.dependent[x] \in S \cup {id} => x \in S
<1>1. Dependents(w, id) = {x \in waiting : \A S \in SUBSET waiting : closed(S) => x \in S}
  BY DEF Dependents
<1>2. ASSUME NEW x \in waiting, w.dependent[x] \in Dependents(w, id) \cup {id}
      PROVE  x \in Dependents(w, id)
  <2>1. ASSUME NEW S \in SUBSET waiting, closed(S) PROVE x \in S
    <3>1. w.dependent[x] \in S \cup {id} BY <1>1, <1>2, <2>1
    <3> QED BY <2>1, <3>1
  <2> QED BY <1>1, <2>1
<1> QED BY <1>1, <1>2

\* Unregistering a request leaves the tables right, and none of them has it.
LEMMA UnregisteredKeeps ==
    ASSUME NEW w, NEW id \in Id, Fits(w, {id}, {id}), NEW v, v = Unregistered(w, id)
    PROVE  /\ Fits(v, {id}, {id}) /\ id \notin Reg(v) /\ id \notin v.stored
           /\ v.parsers = w.parsers /\ Same(v, w, {"byDc", "stored", "dependent", "toSend"})
           /\ \A q \in Held(v) : q.id = id => q \in Held(w)
<1>1. w \in Worlds /\ Fits(w, {id}, {id}) BY DEF Fits
<1> DEFINE freed == Dependents(w, id)
<1>2. /\ v \in Worlds /\ Same(v, w, {"byDc", "stored", "dependent", "toSend"})
      /\ v.byDc = [w.byDc EXCEPT ![id] = Nowhere]
      /\ v.stored = w.stored \ {id}
      /\ v.dependent = [x \in Id |-> IF x \in freed \cup {id} THEN Null ELSE w.dependent[x]]
      /\ \E resent \in SUBSET (freed \ {id}) :
             /\ v.toSend = w.toSend \cup {Place(Abs(w.byDc[x]), x) : x \in resent}
             /\ Reg(w) \ {id} = w.stored \ {id} => resent = Reg(w) \cap (freed \ {id})
  BY <1>1, UnregisteredFields
<1>3. PICK resent \in SUBSET (freed \ {id}) :
         /\ v.toSend = w.toSend \cup {Place(Abs(w.byDc[x]), x) : x \in resent}
         /\ Reg(w) \ {id} = w.stored \ {id} => resent = Reg(w) \cap (freed \ {id})
  BY <1>2
<1>4. /\ \A x \in freed : x \in Id /\ w.dependent[x] # Null
      /\ \A x \in Id : w.dependent[x] # Null /\ w.dependent[x] \in freed \cup {id} => x \in freed
  BY DependentsClosed
<1>5. resent = Reg(w) \cap (freed \ {id}) BY <1>1, <1>3 DEF Fits, Tables
<1>6. /\ v.parsers = w.parsers /\ v.after = w.after /\ v.delayed = w.delayed
      /\ v.sent = w.sent /\ v.waiters = w.waiters
      /\ v.exports = w.exports /\ v.order = w.order /\ v.kind = w.kind /\ v.broken = w.broken
      /\ v.dropped = w.dropped
  BY <1>2 DEF Same, Fields
<1>7. \A x \in Id : x # id => v.byDc[x] = w.byDc[x] BY <1>1, <1>2, WorldTypes
<1>8. v.byDc[id] = Nowhere BY <1>1, <1>2, WorldTypes
<1>9. Reg(v) = Reg(w) \ {id} BY <1>7, <1>8 DEF Reg
<1>10. freed \ {id} \subseteq Reg(w) BY <1>1, <1>4 DEF Fits, Behind
<1>11. resent = freed \ {id} /\ id \notin resent BY <1>5, <1>10
<1>12. \A x \in resent : /\ x \in Id /\ x \in Reg(w) /\ w.dependent[x] # Null
                         /\ ~HeldId(w, x) /\ x \notin w.delayed /\ ~WaitsIn(w, x)
  BY <1>1, <1>4, <1>10, <1>11 DEF Fits, Apart
<1>13. \A x \in resent : v.dependent[x] = Null BY <1>2, <1>4, <1>11
<1>14. \A x \in Id : v.dependent[x] # Null => v.dependent[x] = w.dependent[x] /\ x \notin freed \cup {id}
  BY <1>2
<1>15. \A x \in Id : x \notin freed \cup {id} => v.dependent[x] = w.dependent[x] BY <1>2
<1> HIDE DEF freed
<1>16. \A q \in {Place(Abs(w.byDc[x]), x) : x \in resent} :
          q.id \in resent /\ q = Place(Abs(w.byDc[q.id]), q.id) /\ q.session = Abs(w.byDc[q.id])
  BY PlaceFields
<1>17. \A x \in resent : \E q \in Held(v) : q.id = x BY <1>3, PlaceFields DEF Held
<1>18. \A q \in Held(v) : \/ q \in Held(w)
                          \/ /\ q \in v.toSend /\ q.id \in resent /\ q.session = Abs(w.byDc[q.id])
                             /\ q = Place(Abs(w.byDc[q.id]), q.id)
  BY <1>3, <1>6, <1>16 DEF Held
<1>19. Held(w) \subseteq Held(v) BY <1>3, <1>6 DEF Held
<1>20. \A x \in Id : HeldId(v, x) <=> HeldId(w, x) \/ x \in resent
  BY <1>17, <1>18, <1>19 DEF HeldId
<1>21. \A p \in Held(w) : p.id \notin resent BY <1>12 DEF HeldId
<1>22. Tables(v, {id}) BY <1>1, <1>2, <1>6, <1>9 DEF Fits, Tables
<1>23. HeldRight(v, {id})
  <2>1. ASSUME NEW q \in Held(v)
        PROVE  \/ q.id \in v.dropped /\ q.session.dc < 0
               \/ q.id \in {id}
               \/ q.id \in Reg(v) /\ q.session = Abs(v.byDc[q.id])
    <3>1. CASE q \in Held(w)
      <4>1. \/ q.id \in w.dropped /\ q.session.dc < 0
            \/ q.id \in {id}
            \/ q.id \in Reg(w) /\ q.session = Abs(w.byDc[q.id])
        BY <1>1, <3>1 DEF Fits, HeldRight
      <4> QED BY <1>6, <1>7, <1>9, <4>1 DEF Reg
    <3>2. CASE q.id \in resent /\ q.session = Abs(w.byDc[q.id])
      BY <1>7, <1>9, <1>11, <1>12, <3>2
    <3> QED BY <1>18, <2>1, <3>1, <3>2
  <2> QED BY <2>1 DEF HeldRight
<1>24. HeldOnce(v)
  <2>1. v.toSend \cap v.sent = {}
    <3>1. \A q \in v.toSend : q \in w.toSend \/ q.id \in resent BY <1>3, <1>16
    <3>2. \A q \in v.sent : q \in w.sent /\ q.id \notin resent BY <1>6, <1>21 DEF Held
    <3> QED BY <1>1, <3>1, <3>2 DEF Fits, HeldOnce
  <2>2. ASSUME NEW p \in Held(v), NEW q \in Held(v), p.id = q.id PROVE p = q
    <3>1. CASE p.id \in resent
      <4>1. p \notin Held(w) /\ q \notin Held(w) BY <1>21, <2>2, <3>1
      <4> QED BY <1>18, <2>2, <4>1
    <3>2. CASE p.id \notin resent
      <4>1. p \in Held(w) /\ q \in Held(w) BY <1>18, <2>2, <3>2
      <4> QED BY <1>1, <2>2, <4>1 DEF Fits, HeldOnce
    <3> QED BY <3>1, <3>2
  <2> QED BY <2>1, <2>2 DEF HeldOnce
<1>25. WaitsOnce(v) BY <1>1, <1>6 DEF Fits, WaitsOnce
<1>26. \A x \in Id : WaitsIn(v, x) <=> WaitsIn(w, x) BY <1>6 DEF WaitsIn
<1>27. Apart(v)
  <2>1. ASSUME NEW x \in Id, HeldId(v, x)
        PROVE  x \notin v.delayed /\ v.dependent[x] = Null /\ ~WaitsIn(v, x)
    <3>1. CASE x \in resent BY <1>6, <1>12, <1>13, <1>26, <3>1
    <3>2. CASE HeldId(w, x) BY <1>1, <1>6, <1>14, <1>26, <3>2 DEF Fits, Apart
    <3> QED BY <1>20, <2>1, <3>1, <3>2
  <2>2. ASSUME NEW x \in Id, x \in v.delayed PROVE v.dependent[x] = Null /\ ~WaitsIn(v, x)
    BY <1>1, <1>6, <1>14, <1>26, <2>2 DEF Fits, Apart
  <2>3. ASSUME NEW x \in Id, v.dependent[x] # Null PROVE ~WaitsIn(v, x)
    BY <1>1, <1>14, <1>26, <2>3 DEF Fits, Apart
  <2> QED BY <2>1, <2>2, <2>3 DEF Apart
<1>28. Made(v)
  <2>1. KindOf(v, "user") = KindOf(w, "user") BY <1>6 DEF KindOf
  <2>2. \A q \in Held(v) : q.id \in DOMAIN v.kind BY <1>1, <1>6, <1>12, <1>18 DEF Fits, Made
  <2> QED BY <1>1, <1>6, <1>9, <1>26, <2>1, <2>2 DEF Fits, Made
<1>29. Behind(v)
  <2>1. ASSUME NEW x \in Id, v.dependent[x] # Null
        PROVE  x \in Reg(v) /\ v.dependent[x] \in Reg(v) /\ v.dependent[x] = v.after[x]
    <3>1. v.dependent[x] = w.dependent[x] /\ x \notin freed \cup {id} BY <1>14, <2>1
    <3>2. w.dependent[x] \notin freed \cup {id} BY <1>4, <2>1, <3>1
    <3>3. x \in Reg(w) /\ w.dependent[x] \in Reg(w) /\ w.dependent[x] = w.after[x]
      BY <1>1, <2>1, <3>1 DEF Fits, Behind
    <3> QED BY <1>6, <1>9, <3>1, <3>2, <3>3
  <2> QED BY <2>1 DEF Behind
<1>30. AuthInDc(v, {id}) BY <1>1, <1>6, <1>7, <1>9 DEF Fits, AuthInDc, Reg
<1>31. AuthAsked(v, {id})
  <2>1. \A d \in Dc : AuthOf(w, d) \ {id} \subseteq AuthOf(v, d) \ {id}
    BY <1>6, <1>7, <1>9 DEF AuthOf, Reg
  <2>2. \A d \in Dc : v.waiters[d] # <<>> => d \in v.broken \/ AuthOf(w, d) \ {id} # {}
    BY <1>1, <1>6 DEF Fits, AuthAsked
  <2> QED BY <2>1, <2>2 DEF AuthAsked
<1>32. Somewhere(v, {id})
  <2>1. ASSUME NEW x \in Reg(v) \ {id}
        PROVE  x \in v.dropped \/ HeldId(v, x) \/ x \in v.delayed \/ v.dependent[x] # Null \/ WaitsIn(v, x)
    <3>1. x \in Id /\ x \in Reg(w) \ {id} BY <1>9 DEF Reg
    <3>2. CASE x \in freed BY <1>11, <1>20, <3>1, <3>2
    <3>3. CASE x \notin freed
      <4>1. v.dependent[x] = w.dependent[x] BY <1>15, <3>1, <3>3
      <4> QED BY <1>1, <1>6, <1>20, <1>26, <3>1, <4>1 DEF Fits, Somewhere
    <3> QED BY <3>2, <3>3
  <2> QED BY <2>1 DEF Somewhere
<1>33. Counts(v, {id})
  <2>1. \A k : KindOf(v, k) = KindOf(w, k) BY <1>6 DEF KindOf
  <2>2. (KindOf(v, "export") \cap Reg(v)) \ {id} = (KindOf(w, "export") \cap Reg(w)) \ {id}
    BY <1>9, <2>1
  <2> QED BY <1>1, <2>1, <2>2 DEF Fits, Counts
<1>34. \A q \in Held(v) : q.id = id => q \in Held(w) BY <1>11, <1>18
<1>35. Fits(v, {id}, {id})
  BY <1>2, <1>22, <1>23, <1>24, <1>25, <1>27, <1>28, <1>29, <1>30, <1>31, <1>32, <1>33 DEF Fits
<1> QED BY <1>2, <1>6, <1>9, <1>34, <1>35

(* Nothing is left of a request that is in no table; what a session has of it
   was lost before. *)
LEMMA Closed ==
    ASSUME NEW v, NEW id \in Id, Fits(v, {id}, {id}), id \notin Reg(v), id \notin v.stored,
           id \notin v.parsers, HeldRight(v, {})
    PROVE  Fits(v, {}, {})
<1>1. Tables(v, {}) BY DEF Fits, Tables
<1>2. HeldRight(v, {}) OBVIOUS
<1>3. AuthAsked(v, {})
  <2>1. \A d \in Dc : AuthOf(v, d) \ {id} = AuthOf(v, d) \ {} BY DEF AuthOf
  <2> QED BY <2>1 DEF Fits, AuthAsked
<1>4. Somewhere(v, {}) BY DEF Fits, Somewhere
<1>6. AuthInDc(v, {}) BY DEF Fits, AuthInDc
<1>5. Counts(v, {})
  <2>1. (KindOf(v, "export") \cap Reg(v)) \ {id} = (KindOf(v, "export") \cap Reg(v)) \ {} OBVIOUS
  <2> QED BY <2>1 DEF Fits, Counts
<1> QED BY <1>1, <1>2, <1>3, <1>4, <1>5, <1>6 DEF Fits

-----------------------------------------------------------------------------
(* The requests made are counted by their kind, so that there is an id for   *)
(* the next one while its kind has room.                                     *)

\* Requests are counted by their kinds.
LEMMA KindsCounted ==
    ASSUME NEW w \in Worlds
    PROVE  /\ Len(w.kind) \in Nat /\ DOMAIN w.kind = 1 .. Len(w.kind)
           /\ \A k : IsFiniteSet(KindOf(w, k)) /\ Cardinality(KindOf(w, k)) \in Nat
           /\ Len(w.kind) = Cardinality(KindOf(w, "user")) + Cardinality(KindOf(w, "export"))
                               + Cardinality(KindOf(w, "import"))
<1> DEFINE U == KindOf(w, "user") E == KindOf(w, "export") I == KindOf(w, "import")
           n == Len(w.kind)
<1>1. n \in Nat /\ DOMAIN w.kind = 1 .. n /\ \A x \in 1 .. n : w.kind[x] \in Kind
  BY WorldTypes
<1>2. IsFiniteSet(1 .. n) /\ Cardinality(1 .. n) = n BY <1>1, FS_Interval
<1>3. \A k : KindOf(w, k) \in SUBSET (1 .. n) BY <1>1 DEF KindOf
<1>4. \A k : IsFiniteSet(KindOf(w, k)) /\ Cardinality(KindOf(w, k)) \in Nat
  BY <1>2, <1>3, FS_Subset, FS_CardinalityType
<1>5. U \cap E = {} /\ (U \cup E) \cap I = {} BY DEF KindOf
<1>6. (U \cup E) \cup I = 1 .. n BY <1>1, <1>3 DEF KindOf, Kind
<1> HIDE DEF U, E, I, n
<1>7. IsFiniteSet(U) /\ IsFiniteSet(E) /\ IsFiniteSet(I) BY <1>4 DEF U, E, I
<1>8. IsFiniteSet(U \cup E) /\ Cardinality(U \cup E) = Cardinality(U) + Cardinality(E) - Cardinality(U \cap E)
  BY <1>7, FS_Union
<1>9. Cardinality((U \cup E) \cup I)
        = Cardinality(U \cup E) + Cardinality(I) - Cardinality((U \cup E) \cap I)
  BY <1>7, <1>8, FS_Union
<1>10. Cardinality(U) \in Nat /\ Cardinality(E) \in Nat /\ Cardinality(I) \in Nat
  BY <1>4 DEF U, E, I
<1>11. Cardinality(U \cap E) = 0 /\ Cardinality((U \cup E) \cap I) = 0 BY <1>5, FS_EmptySet
<1>13. Cardinality((U \cup E) \cup I) = n BY <1>2, <1>6
<1>14. PICK u, e, i \in Nat : u = Cardinality(U) /\ e = Cardinality(E) /\ i = Cardinality(I)
  BY <1>10
<1>15. Cardinality(U \cup E) = u + e BY <1>8, <1>11, <1>14
<1>16. n = u + e + i BY <1>9, <1>11, <1>13, <1>14, <1>15
<1>12. n = Cardinality(U) + Cardinality(E) + Cardinality(I) BY <1>14, <1>16
<1> QED BY <1>1, <1>4, <1>12 DEF U, E, I, n

\* While there is room for a kind there is an id.
LEMMA RoomForOne ==
    ASSUME NEW w \in Worlds, NEW done, Counts(w, done),
           \/ Cardinality(KindOf(w, "user")) < MaxUser
           \/ Cardinality(KindOf(w, "export")) < MaxExports
           \/ (KindOf(w, "export") \cap Reg(w)) \ done # {}
    PROVE  Len(w.kind) + 1 \in Id
<1> DEFINE open == (KindOf(w, "export") \cap Reg(w)) \ done
<1>1. open \in SUBSET KindOf(w, "export") OBVIOUS
<1>2. IsFiniteSet(open) BY <1>1, KindsCounted, FS_Subset
<1>3. Cardinality(open) \in Nat /\ (open # {} => Cardinality(open) # 0)
  BY <1>2, FS_CardinalityType, FS_EmptySet
<1>4. PICK u, e, i \in Nat : /\ u = Cardinality(KindOf(w, "user")) /\ e = Cardinality(KindOf(w, "export"))
                             /\ i = Cardinality(KindOf(w, "import"))
  BY KindsCounted
<1>5. PICK o \in Nat : o = Cardinality(open) BY <1>3
<1>6. Len(w.kind) = u + e + i BY <1>4, KindsCounted
<1>7. u <= MaxUser /\ e <= MaxExports /\ i + o <= e BY <1>4, <1>5 DEF Counts
<1>8. u < MaxUser \/ e < MaxExports \/ o # 0 BY <1>3, <1>4, <1>5
<1>9. u + e + i + 1 \in 1 .. (MaxUser + 2 * MaxExports) BY <1>7, <1>8, BoundsAssumption
<1> QED BY <1>6, <1>9 DEF Id, MaxId

(* What a request made does not disturb; the authorizations and the counts
   depend on its kind. *)
RequestMade(v, w, hand, k, x, b) ==
    /\ Tables(v, hand) /\ HeldRight(v, hand) /\ HeldOnce(v) /\ WaitsOnce(v)
    /\ Apart(v) /\ Made(v) /\ Behind(v) /\ Somewhere(v, hand)
    /\ x \notin DOMAIN w.kind /\ x \notin Reg(w) /\ Reg(v) = Reg(w) \cup {x}
    /\ v.kind[x] = k /\ DOMAIN v.kind = DOMAIN w.kind \cup {x}
    /\ \A y \in DOMAIN w.kind : v.kind[y] = w.kind[y]
    /\ v.byDc[x] = b /\ \A y \in Id : y # x => v.byDc[y] = w.byDc[y]
    /\ KindOf(v, k) = KindOf(w, k) \cup {x}
    /\ \A k2 : k2 # k => KindOf(v, k2) = KindOf(w, k2)
    /\ \A y \in Id : y # x /\ NoPlace(w, y) => NoPlace(v, y)
    /\ ~WaitsIn(v, x)

\* One more request, in one session, leaves the tables right.
LEMMA NewRequestKeeps ==
    ASSUME NEW w, NEW hand, NEW done, Fits(w, hand, done), w.stored = Reg(w),
           NEW k \in Kind, NEW target, NEW x \in Id, x = Len(w.kind) + 1,
           NEW v \in Worlds, NEW b, NEW a, NewRequest(v, w, k, target, x, b, a)
    PROVE  RequestMade(v, w, hand, k, x, b)
<1>1. w \in Worlds BY DEF Fits
<1>2. /\ v.main = w.main /\ v.delayed = w.delayed /\ v.waiters = w.waiters /\ v.exports = w.exports
      /\ v.sent = w.sent /\ v.order = w.order /\ v.dropped = w.dropped /\ v.broken = w.broken
  BY DEF NewRequest, Same, Fields
<1>3. /\ v.kind = Append(w.kind, k) /\ v.stored = w.stored \cup {x} /\ v.parsers = w.parsers \cup {x}
      /\ b \in Session /\ b # Nowhere /\ v.byDc = [w.byDc EXCEPT ![x] = b]
      /\ a \in {Null} \cup w.stored /\ v.after = [w.after EXCEPT ![x] = a]
  BY DEF NewRequest, Nowhere
<1>4. \/ /\ a # Null /\ v.toSend = w.toSend /\ v.dependent = [w.dependent EXCEPT ![x] = a]
      \/ v.dependent = w.dependent /\ v.toSend = w.toSend \cup {Place(Abs(b), x)}
  BY DEF NewRequest
<1>5. /\ Len(w.kind) \in Nat /\ DOMAIN w.kind = 1 .. Len(w.kind) /\ w.kind \in Seq(Kind)
  BY <1>1, WorldTypes
<1>6. /\ x \notin DOMAIN w.kind /\ v.kind[x] = k /\ DOMAIN v.kind = DOMAIN w.kind \cup {x}
      /\ \A y \in DOMAIN w.kind : v.kind[y] = w.kind[y]
  <2>1. DOMAIN v.kind = 1 .. (Len(w.kind) + 1) BY <1>3, <1>5
  <2>2. \A y \in 1 .. Len(w.kind) : v.kind[y] = w.kind[y] BY <1>3, <1>5
  <2>3. v.kind[x] = k BY <1>3, <1>5
  <2> QED BY <1>5, <2>1, <2>2, <2>3
<1>7. v.byDc[x] = b /\ v.after[x] = a /\ \A y \in Id : y # x => v.byDc[y] = w.byDc[y] /\ v.after[y] = w.after[y]
  BY <1>1, <1>3, WorldTypes
<1>8. Made(w) BY DEF Fits
<1>9. /\ x \notin Reg(w) /\ x \notin w.dropped /\ x \notin w.delayed /\ ~WaitsIn(w, x)
      /\ w.after[x] = Null /\ w.order[x] = "none" /\ ~HeldId(w, x)
  BY <1>6, <1>8 DEF Made, KindOf, HeldId
<1>10. w.dependent[x] = Null BY <1>9 DEF Fits, Behind
<1>11. \A y \in Id : w.dependent[y] # x BY <1>9 DEF Fits, Behind, Reg
<1>12. Reg(v) = Reg(w) \cup {x} BY <1>3, <1>7, <1>9 DEF Reg
<1>13. KindOf(v, k) = KindOf(w, k) \cup {x} BY <1>6 DEF KindOf
<1>14. \A k2 : k2 # k => KindOf(v, k2) = KindOf(w, k2) BY <1>6 DEF KindOf
<1>15. \A y \in Id : y # x => v.dependent[y] = w.dependent[y] BY <1>1, <1>4, WorldTypes
<1>16. v.dependent[x] = Null \/ (v.dependent[x] = a /\ a # Null /\ v.toSend = w.toSend)
  BY <1>1, <1>4, <1>10, WorldTypes
<1>17. PICK q : q = Place(Abs(b), x) OBVIOUS
<1>18. q.session = Abs(b) /\ q.id = x BY <1>17, PlaceFields
<1>19. \/ /\ Held(v) = Held(w) /\ v.toSend = w.toSend /\ v.dependent[x] = a /\ a # Null
       \/ Held(v) = Held(w) \cup {q} /\ v.toSend = w.toSend \cup {q} /\ v.dependent[x] = Null
  BY <1>1, <1>2, <1>4, <1>10, <1>17, WorldTypes DEF Held
<1>20. \A p \in Held(w) : p.id # x BY <1>9 DEF HeldId
<1>21. \A p \in Held(v) : p \in Held(w) \/ p = q BY <1>19
<1>22. \A y \in Id : y # x => (HeldId(v, y) <=> HeldId(w, y)) BY <1>18, <1>19 DEF HeldId
<1>23. HeldId(v, x) \/ v.dependent[x] # Null
  <2>1. CASE v.dependent[x] = a /\ a # Null BY <2>1
  <2>2. CASE Held(v) = Held(w) \cup {q} BY <1>18, <2>2 DEF HeldId
  <2> QED BY <1>19, <2>1, <2>2
<1>24. HeldId(v, x) => v.dependent[x] = Null
  <2>1. CASE Held(v) = Held(w) BY <1>20, <2>1 DEF HeldId
  <2>2. CASE v.dependent[x] = Null BY <2>2
  <2> QED BY <1>19, <2>1, <2>2
<1>25. \A y \in Id : WaitsIn(v, y) <=> WaitsIn(w, y) BY <1>2 DEF WaitsIn
<1>26. Tables(v, hand) BY <1>3, <1>12 DEF Fits, Tables
<1>27. HeldRight(v, hand)
  <2>1. ASSUME NEW p \in Held(w)
        PROVE  \/ p.id \in v.dropped /\ p.session.dc < 0
               \/ p.id \in hand
               \/ p.id \in Reg(v) /\ p.session = Abs(v.byDc[p.id])
    <3>1. \/ p.id \in w.dropped /\ p.session.dc < 0
          \/ p.id \in hand
          \/ p.id \in Reg(w) /\ p.session = Abs(w.byDc[p.id])
      BY DEF Fits, HeldRight
    <3> QED BY <1>2, <1>7, <1>12, <1>20, <3>1 DEF Reg
  <2>2. q.id \in Reg(v) /\ q.session = Abs(v.byDc[q.id]) BY <1>7, <1>12, <1>18
  <2> QED BY <1>21, <2>1, <2>2 DEF HeldRight
<1>28. HeldOnce(v)
  <2>1. v.toSend \cap v.sent = {}
    <3>1. q \notin w.sent BY <1>18, <1>20 DEF Held
    <3> QED BY <1>2, <1>19, <3>1 DEF Fits, HeldOnce
  <2>2. \A p, r \in Held(v) : p.id = r.id => p = r
    BY <1>18, <1>20, <1>21 DEF Fits, HeldOnce
  <2> QED BY <2>1, <2>2 DEF HeldOnce
<1>29. WaitsOnce(v) BY <1>2 DEF Fits, WaitsOnce
<1>30. Apart(v)
  <2>1. ASSUME NEW y \in Id, y # x
        PROVE  /\ HeldId(v, y) => y \notin v.delayed /\ v.dependent[y] = Null /\ ~WaitsIn(v, y)
               /\ y \in v.delayed => v.dependent[y] = Null /\ ~WaitsIn(v, y)
               /\ v.dependent[y] # Null => ~WaitsIn(v, y)
    BY <1>2, <1>15, <1>22, <1>25, <2>1 DEF Fits, Apart
  <2>2. x \notin v.delayed /\ ~WaitsIn(v, x) BY <1>2, <1>9, <1>25
  <2> QED BY <1>24, <2>1, <2>2 DEF Apart
<1>31. Made(v)
  <2>1. KindOf(w, "user") \subseteq KindOf(v, "user") BY <1>13, <1>14
  <2>2. \A p \in Held(v) : p.id \in DOMAIN v.kind BY <1>6, <1>8, <1>18, <1>21 DEF Made
  <2>3. Reg(v) \subseteq DOMAIN v.kind BY <1>6, <1>8, <1>12 DEF Made
  <2>4. v.dropped \subseteq DOMAIN v.kind /\ v.delayed \subseteq DOMAIN v.kind BY <1>2, <1>6, <1>8 DEF Made
  <2>5. \A y \in Id : WaitsIn(v, y) => y \in KindOf(v, "user") BY <1>8, <1>25, <2>1 DEF Made
  <2>6. \A y \in Id : v.after[y] # Null => y \in DOMAIN v.kind BY <1>6, <1>7, <1>8 DEF Made
  <2>7. \A y \in Id : v.order[y] # "none" => v.after[y] # Null BY <1>2, <1>7, <1>8, <1>9 DEF Made
  <2> QED BY <2>2, <2>3, <2>4, <2>5, <2>6, <2>7 DEF Made
<1>32. Behind(v)
  <2>1. ASSUME NEW y \in Id, y # x, v.dependent[y] # Null
        PROVE  y \in Reg(v) /\ v.dependent[y] \in Reg(v) /\ v.dependent[y] = v.after[y]
    BY <1>7, <1>12, <1>15, <2>1 DEF Fits, Behind
  <2>2. ASSUME v.dependent[x] # Null
        PROVE  x \in Reg(v) /\ v.dependent[x] \in Reg(v) /\ v.dependent[x] = v.after[x]
    <3>1. v.dependent[x] = a /\ a # Null BY <1>16, <2>2
    <3>2. a \in Reg(v) BY <1>3, <1>12, <3>1
    <3> QED BY <1>7, <1>12, <3>1, <3>2
  <2> QED BY <2>1, <2>2 DEF Behind
<1>33. Somewhere(v, hand)
  <2>1. ASSUME NEW y \in Reg(v) \ hand
        PROVE  y \in v.dropped \/ HeldId(v, y) \/ y \in v.delayed \/ v.dependent[y] # Null \/ WaitsIn(v, y)
    <3>1. CASE y = x BY <1>23, <3>1
    <3>2. CASE y # x
      <4>1. y \in Reg(w) \ hand /\ y \in Id BY <1>12, <3>2 DEF Reg
      <4> QED BY <1>2, <1>15, <1>22, <1>25, <3>2, <4>1 DEF Fits, Somewhere
    <3> QED BY <3>1, <3>2
  <2> QED BY <2>1 DEF Somewhere
<1>34. \A y \in Id : y # x /\ NoPlace(w, y) => NoPlace(v, y)
  BY <1>2, <1>15, <1>22, <1>25 DEF NoPlace
<1>35. ~WaitsIn(v, x) BY <1>9, <1>25
<1> QED BY <1>6, <1>7, <1>9, <1>12, <1>13, <1>14, <1>26, <1>27, <1>28, <1>29, <1>30, <1>31,
           <1>32, <1>33, <1>34, <1>35 DEF RequestMade

\* sendRequest for the user.
LEMMA SendRequestKeeps ==
    ASSUME NEW w, Fits(w, {}, {}), Cardinality(KindOf(w, "user")) < MaxUser,
           NEW target \in Targets, NEW afterId, NEW v, v = Requesting(w, "user", target, afterId)
    PROVE  Fits(v, {}, {})
<1>1. w \in Worlds /\ Counts(w, {}) /\ w.stored = Reg(w) BY DEF Fits, Tables
<1>2. PICK x \in Id : x = Len(w.kind) + 1 BY <1>1, RoomForOne
<1>3. target \in Session /\ target.dc >= 0 /\ "user" \in Kind BY TargetsAssumption DEF Session, Kind
<1>4. v \in Worlds /\ \E a, b : NewRequest(v, w, "user", target, x, b, a)
  BY <1>1, <1>2, <1>3, RequestingFields
<1>5. PICK a, b : NewRequest(v, w, "user", target, x, b, a) BY <1>4
<1>6. /\ Tables(v, {}) /\ HeldRight(v, {}) /\ HeldOnce(v) /\ WaitsOnce(v)
      /\ Apart(v) /\ Made(v) /\ Behind(v) /\ Somewhere(v, {})
      /\ x \notin DOMAIN w.kind /\ x \notin Reg(w) /\ Reg(v) = Reg(w) \cup {x}
      /\ v.kind[x] = "user"
      /\ \A y \in DOMAIN w.kind : v.kind[y] = w.kind[y]
      /\ \A y \in Id : y # x => v.byDc[y] = w.byDc[y]
      /\ KindOf(v, "user") = KindOf(w, "user") \cup {x}
      /\ \A k2 : k2 # "user" => KindOf(v, k2) = KindOf(w, k2)
  <2>1. RequestMade(v, w, {}, "user", x, b)
    BY <1>1, <1>2, <1>3, <1>4, <1>5, NewRequestKeeps, Zenon
  <2> QED BY <2>1 DEF RequestMade
<1>7. v.exports = w.exports /\ v.waiters = w.waiters /\ v.broken = w.broken
  BY <1>5 DEF NewRequest, Same, Fields
<1>8. \A y \in Reg(w) : y \in Id /\ y # x /\ v.kind[y] = w.kind[y] /\ v.byDc[y] = w.byDc[y]
  BY <1>6 DEF Fits, Made, Reg
<1>9. AuthInDc(v, {}) BY <1>6, <1>7, <1>8 DEF Fits, AuthInDc
<1>10. AuthAsked(v, {})
  <2>1. \A d \in Dc : AuthOf(w, d) \subseteq AuthOf(v, d) BY <1>6, <1>7, <1>8 DEF AuthOf
  <2> QED BY <1>7, <2>1 DEF Fits, AuthAsked
<1>11. Counts(v, {})
  <2>1. IsFiniteSet(KindOf(w, "user")) /\ Cardinality(KindOf(w, "user")) \in Nat BY <1>1, KindsCounted
  <2>2. Cardinality(KindOf(v, "user")) <= MaxUser
    <3>1. Cardinality(KindOf(v, "user")) \in {Cardinality(KindOf(w, "user")), Cardinality(KindOf(w, "user")) + 1}
      <4>1. KindOf(v, "user") = KindOf(w, "user") \cup {x} BY <1>6
      <4>2. PICK S : S = KindOf(w, "user") OBVIOUS
      <4>3. Cardinality(S \cup {x}) = IF x \in S THEN Cardinality(S) ELSE Cardinality(S) + 1
        BY <2>1, <4>2, FS_AddElement, Zenon
      <4> QED BY <4>1, <4>2, <4>3
    <3> QED BY <2>1, <3>1, BoundsAssumption
  <2>3. KindOf(v, "export") = KindOf(w, "export") /\ KindOf(v, "import") = KindOf(w, "import") BY <1>6
  <2>4. (KindOf(v, "export") \cap Reg(v)) \ {} = (KindOf(w, "export") \cap Reg(w)) \ {}
    <3>1. x \notin KindOf(w, "export") BY <1>6 DEF KindOf
    <3> QED BY <1>6, <2>3, <3>1
  <2> QED BY <1>1, <2>2, <2>3, <2>4 DEF Counts
<1> QED BY <1>4, <1>6, <1>9, <1>10, <1>11 DEF Fits

(* The handler of a request has it in its hand, and has done with it. *)
InHandler(w, x) ==
    Fits(w, {x}, {}) /\ NoPlace(w, x) /\ x \in Reg(w) /\ x \in w.stored /\ x \notin w.parsers
Ended(w, x) == Fits(w, {x}, {x}) /\ NoPlace(w, x) /\ x \notin w.parsers

\* A request taken from a session is in the hand of its handler.
LEMMA HandlerTaken ==
    ASSUME NEW w, NEW x \in Id, InHand(w, x), NEW v, v = [w EXCEPT !.parsers = @ \ {x}]
    PROVE  InHandler(v, x) /\ Same(v, w, {"parsers"})
<1>1. w \in Worlds /\ Fits(w, {x}, {}) /\ NoPlace(w, x) /\ x \in Reg(w) /\ x \in w.stored
  BY DEF InHand, Fits
<1>2. PICK S \in SUBSET Id : S = w.parsers \ {x} BY <1>1, WorldTypes
<1>3. v = [w EXCEPT !.parsers = S] BY <1>1, <1>2 DEF Worlds
<1>4. v \in Worlds BY <1>1, <1>3 DEF Worlds
<1>5. Same(v, w, {"parsers"}) BY <1>1, <1>3 DEF Worlds, Same, Fields
<1>6. v.parsers = w.parsers \ {x} BY <1>1, <1>2, <1>3 DEF Worlds
<1>7. /\ v.byDc = w.byDc /\ v.stored = w.stored /\ v.delayed = w.delayed /\ v.after = w.after
      /\ v.dependent = w.dependent /\ v.toSend = w.toSend /\ v.waiters = w.waiters
      /\ v.exports = w.exports /\ v.order = w.order /\ v.kind = w.kind /\ v.broken = w.broken
      /\ v.dropped = w.dropped /\ v.sent = w.sent
  BY <1>5 DEF Same, Fields
<1>8. Reg(v) = Reg(w) BY <1>7 DEF Reg
<1>9. Held(v) = Held(w) BY <1>7 DEF Held
<1>10. \A y \in Id : HeldId(v, y) <=> HeldId(w, y) BY <1>9 DEF HeldId
<1>11. \A y \in Id : WaitsIn(v, y) <=> WaitsIn(w, y) BY <1>7 DEF WaitsIn
<1>12. Tables(v, {x}) BY <1>1, <1>6, <1>7, <1>8 DEF Fits, Tables
<1>13. HeldRight(v, {x}) BY <1>1, <1>7, <1>8, <1>9 DEF Fits, HeldRight
<1>14. HeldOnce(v) /\ WaitsOnce(v)
  <2>1. HeldOnce(v) BY <1>1, <1>7, <1>9 DEF Fits, HeldOnce
  <2>2. WaitsOnce(v) BY <1>1, <1>7 DEF Fits, WaitsOnce
  <2> QED BY <2>1, <2>2
<1>15. Apart(v) BY <1>1, <1>7, <1>10, <1>11 DEF Fits, Apart
<1>16. Made(v)
  <2>1. KindOf(v, "user") = KindOf(w, "user") BY <1>7 DEF KindOf
  <2> QED BY <1>1, <1>7, <1>8, <1>9, <1>11, <2>1 DEF Fits, Made
<1>17. Behind(v) BY <1>1, <1>7, <1>8 DEF Fits, Behind
<1>18. AuthInDc(v, {}) BY <1>1, <1>7, <1>8 DEF Fits, AuthInDc
<1>19. AuthAsked(v, {})
  <2>1. \A d \in Dc : AuthOf(v, d) = AuthOf(w, d) BY <1>7, <1>8 DEF AuthOf
  <2> QED BY <1>1, <1>7, <2>1 DEF Fits, AuthAsked
<1>20. Somewhere(v, {x}) BY <1>1, <1>7, <1>8, <1>10, <1>11 DEF Fits, Somewhere, Reg
<1>21. Counts(v, {}) BY <1>1, <1>7, <1>8 DEF Fits, Counts, KindOf
<1>22. NoPlace(v, x) BY <1>1, <1>7, <1>10, <1>11 DEF NoPlace
<1>23. Fits(v, {x}, {})
  BY <1>4, <1>12, <1>13, <1>14, <1>15, <1>16, <1>17, <1>18, <1>19, <1>20, <1>21 DEF Fits
<1>24. x \in Reg(v) /\ x \in v.stored /\ x \notin v.parsers BY <1>1, <1>6, <1>7, <1>8
<1> QED BY <1>5, <1>22, <1>23, <1>24 DEF InHandler

\* The handler of a request of the user does nothing to the tables.
LEMMA UserEnds ==
    ASSUME NEW w, NEW x \in Id, InHandler(w, x), w.kind[x] = "user"
    PROVE  Ended(w, x)
<1>1. Fits(w, {x}, {}) BY DEF InHandler
<1>2. AuthAsked(w, {x})
  <2>1. \A d \in Dc : AuthOf(w, d) \ {x} = AuthOf(w, d) \ {} BY DEF AuthOf
  <2> QED BY <1>1, <2>1 DEF Fits, AuthAsked
<1>3. AuthInDc(w, {x}) BY <1>1 DEF Fits, AuthInDc
<1>4. Counts(w, {x})
  <2>1. (KindOf(w, "export") \cap Reg(w)) \ {x} = (KindOf(w, "export") \cap Reg(w)) \ {} BY DEF KindOf
  <2> QED BY <1>1, <2>1 DEF Fits, Counts
<1>5. Fits(w, {x}, {x}) BY <1>1, <1>2, <1>3, <1>4 DEF Fits
<1> QED BY <1>5 DEF InHandler, Ended

\* The handler of an export has the import made before it ends.
LEMMA ExportedEnds ==
    ASSUME NEW w, NEW e \in Id, InHandler(w, e), w.kind[e] = "export", NEW v, v = Exported(w, e)
    PROVE  Ended(v, e)
<1>1. /\ w \in Worlds /\ Fits(w, {e}, {}) /\ NoPlace(w, e) /\ e \in Reg(w) /\ e \in w.stored
      /\ e \notin w.parsers /\ Counts(w, {}) /\ Made(w)
  BY DEF InHandler, Fits
<1>2. w.stored = Reg(w) BY <1>1 DEF Fits, Tables
<1>3. e \in (KindOf(w, "export") \cap Reg(w)) \ {} BY <1>1 DEF KindOf, Made
<1>4. PICK x \in Id : x = Len(w.kind) + 1 BY <1>1, <1>3, RoomForOne
<1>5. w.exports[e].dc \in Dc /\ w.exports[e] \in Session BY <1>1, WorldTypes DEF Fits, AuthInDc
<1>6. w.exports[e].dc > 0
  <2>1. PICK d \in Dc : d = w.exports[e].dc BY <1>5
  <2>2. d \in Nat \ {0} BY DcAssumption
  <2> QED BY <2>1, <2>2
<1>7. /\ v \in Worlds
      /\ \E u \in Worlds : \E a, b :
            /\ NewRequest(u, w, "import", w.exports[e], x, b, a)
            /\ Same(v, u, {"exports"}) /\ v.exports = [w.exports EXCEPT ![e] = Nowhere]
  BY <1>1, <1>4, <1>6, ExportedFields
<1>8. PICK u \in Worlds : \E a, b :
            /\ NewRequest(u, w, "import", w.exports[e], x, b, a)
            /\ Same(v, u, {"exports"}) /\ v.exports = [w.exports EXCEPT ![e] = Nowhere]
  BY <1>7
<1>9. PICK a, b :
            /\ NewRequest(u, w, "import", w.exports[e], x, b, a)
            /\ Same(v, u, {"exports"}) /\ v.exports = [w.exports EXCEPT ![e] = Nowhere]
  BY <1>8
<1>10. "import" \in Kind BY DEF Kind
<1>11. /\ Tables(u, {e}) /\ HeldRight(u, {e}) /\ HeldOnce(u) /\ WaitsOnce(u)
       /\ Apart(u) /\ Made(u) /\ Behind(u) /\ Somewhere(u, {e})
       /\ x \notin DOMAIN w.kind /\ x \notin Reg(w) /\ Reg(u) = Reg(w) \cup {x}
       /\ u.kind[x] = "import" /\ u.byDc[x] = b
       /\ \A y \in DOMAIN w.kind : u.kind[y] = w.kind[y]
       /\ \A y \in Id : y # x => u.byDc[y] = w.byDc[y]
       /\ KindOf(u, "import") = KindOf(w, "import") \cup {x}
       /\ \A k2 : k2 # "import" => KindOf(u, k2) = KindOf(w, k2)
       /\ \A y \in Id : y # x /\ NoPlace(w, y) => NoPlace(u, y)
  <2>1. RequestMade(u, w, {e}, "import", x, b)
    BY <1>1, <1>2, <1>4, <1>9, <1>10, NewRequestKeeps, Zenon
  <2> QED BY <2>1 DEF RequestMade
<1>12. b = w.exports[e] /\ u.parsers = w.parsers \cup {x} BY <1>6, <1>9 DEF NewRequest
<1>13. u.waiters = w.waiters /\ u.broken = w.broken BY <1>9 DEF NewRequest, Same, Fields
<1>14. /\ v.byDc = u.byDc /\ v.stored = u.stored /\ v.delayed = u.delayed /\ v.after = u.after
       /\ v.dependent = u.dependent /\ v.toSend = u.toSend /\ v.waiters = u.waiters
       /\ v.parsers = u.parsers /\ v.order = u.order /\ v.kind = u.kind /\ v.broken = u.broken
       /\ v.dropped = u.dropped /\ v.sent = u.sent
  BY <1>9 DEF Same, Fields
<1>15. \A y \in Id : y # e => v.exports[y] = w.exports[y] BY <1>1, <1>9, WorldTypes
<1>16. \A y \in Reg(w) : y \in Id /\ y # x /\ v.kind[y] = w.kind[y] /\ v.byDc[y] = w.byDc[y]
  BY <1>1, <1>11, <1>14 DEF Made, Reg
<1>17. Reg(v) = Reg(u) /\ Held(v) = Held(u) BY <1>14 DEF Reg, Held
<1>18. \A y \in Id : HeldId(v, y) <=> HeldId(u, y) BY <1>17 DEF HeldId
<1>19. \A y \in Id : WaitsIn(v, y) <=> WaitsIn(u, y) BY <1>14 DEF WaitsIn
<1>20. e # x BY <1>1, <1>11
<1>21. Tables(v, {e}) /\ HeldRight(v, {e}) BY <1>11, <1>14, <1>17 DEF Tables, HeldRight
<1>22. HeldOnce(v) /\ WaitsOnce(v) BY <1>11, <1>14, <1>17 DEF HeldOnce, WaitsOnce
<1>23. Apart(v) BY <1>11, <1>14, <1>18, <1>19 DEF Apart
<1>24. Made(v)
  <2>1. KindOf(v, "user") = KindOf(u, "user") BY <1>14 DEF KindOf
  <2> QED BY <1>11, <1>14, <1>17, <1>19, <2>1 DEF Made
<1>25. Behind(v) BY <1>11, <1>14, <1>17 DEF Behind
<1>26. Somewhere(v, {e}) BY <1>11, <1>14, <1>17, <1>18, <1>19 DEF Somewhere, Reg
<1>27. v.kind[x] = "import" /\ v.byDc[x] = w.exports[e] BY <1>11, <1>12, <1>14
<1>28. AuthInDc(v, {e})
  <2>1. ASSUME NEW y \in Reg(v) \ {e}
        PROVE  /\ v.kind[y] = "export" => v.exports[y].dc \in Dc
               /\ v.kind[y] = "import" => v.byDc[y].dc \in Dc
    <3>1. CASE y = x BY <1>5, <1>27, <3>1
    <3>2. CASE y # x
      <4>1. y \in Reg(w) BY <1>11, <1>17, <2>1, <3>2
      <4> QED BY <1>1, <1>15, <1>16, <2>1, <4>1 DEF Fits, AuthInDc
    <3> QED BY <3>1, <3>2
  <2> QED BY <2>1 DEF AuthInDc
<1>29. AuthAsked(v, {e})
  <2>1. ASSUME NEW d \in Dc, v.waiters[d] # <<>>, d \notin v.broken PROVE AuthOf(v, d) \ {e} # {}
    <3>1. AuthOf(w, d) # {} BY <1>1, <1>13, <1>14, <2>1 DEF Fits, AuthAsked
    <3>2. PICK y \in AuthOf(w, d) : TRUE BY <3>1
    <3>3. y \in Reg(w) BY DEF AuthOf
    <3>4. CASE y = e
      <4>1. w.exports[e].dc = d BY <3>2, <3>4 DEF AuthOf
      <4>2. x \in Reg(v) BY <1>11, <1>17
      <4>3. x \in AuthOf(v, d) BY <1>27, <4>1, <4>2 DEF AuthOf
      <4> QED BY <1>20, <4>3
    <3>5. CASE y # e
      <4>1. y \in AuthOf(v, d) BY <1>11, <1>15, <1>16, <1>17, <3>2, <3>3, <3>5 DEF AuthOf
      <4> QED BY <3>5, <4>1
    <3> QED BY <3>4, <3>5
  <2> QED BY <2>1 DEF AuthAsked
<1>30. Counts(v, {e})
  <2>1. \A k : KindOf(v, k) = KindOf(u, k) BY <1>14 DEF KindOf
  <2>2. KindOf(v, "user") = KindOf(w, "user") /\ KindOf(v, "export") = KindOf(w, "export")
    BY <1>11, <2>1
  <2>3. KindOf(v, "import") = KindOf(w, "import") \cup {x} BY <1>11, <2>1
  <2>4. x \notin KindOf(w, "import") /\ x \notin KindOf(w, "export") BY <1>11 DEF KindOf
  <2> DEFINE I == KindOf(w, "import") E == KindOf(w, "export") open == (E \cap Reg(w)) \ {}
             open2 == (KindOf(v, "export") \cap Reg(v)) \ {e}
  <2>5. open2 = open \ {e} /\ e \in open BY <1>3, <1>11, <1>17, <2>2, <2>4
  <2>6. IsFiniteSet(I) /\ IsFiniteSet(E) /\ Cardinality(E) \in Nat BY <1>1, KindsCounted
  <2>7. open \in SUBSET E OBVIOUS
  <2>8. IsFiniteSet(open) BY <2>6, <2>7, FS_Subset
  <2>9. Cardinality(I) + Cardinality(open) <= Cardinality(E) BY <1>1 DEF Counts
  <2> HIDE DEF I, E, open, open2
  <2>10. Cardinality(open \ {e}) = Cardinality(open) - 1 BY <2>5, <2>8, FS_RemoveElement
  <2>11. Cardinality(I \cup {x}) = Cardinality(I) + 1 BY <2>4, <2>6, FS_AddElement DEF I
  <2>12. Cardinality(I) \in Nat /\ Cardinality(open) \in Nat BY <2>6, <2>8, FS_CardinalityType
  <2>13. Cardinality(I \cup {x}) + Cardinality(open2) <= Cardinality(E)
    BY <2>5, <2>6, <2>9, <2>10, <2>11, <2>12
  <2>14. Cardinality(KindOf(v, "import")) + Cardinality((KindOf(v, "export") \cap Reg(v)) \ {e})
            <= Cardinality(KindOf(v, "export"))
    BY <2>2, <2>3, <2>13 DEF I, E, open2
  <2> QED BY <1>1, <2>2, <2>14 DEF Counts
<1>31. NoPlace(v, e)
  <2>1. NoPlace(u, e) BY <1>1, <1>11, <1>20
  <2> QED BY <1>14, <1>18, <1>19, <2>1 DEF NoPlace
<1>32. e \notin v.parsers BY <1>1, <1>12, <1>14, <1>20
<1>33. Fits(v, {e}, {e})
  BY <1>7, <1>21, <1>22, <1>23, <1>24, <1>25, <1>26, <1>28, <1>29, <1>30 DEF Fits
<1> QED BY <1>31, <1>32, <1>33 DEF Ended

\* The handler of an import leaves none waiting for what it was for.
LEMMA ResumedEnds ==
    ASSUME NEW w, NEW i \in Id, InHandler(w, i), w.kind[i] = "import", NEW v, v = Resumed(w, i)
    PROVE  Ended(v, i)
<1>1. /\ w \in Worlds /\ Fits(w, {i}, {}) /\ NoPlace(w, i) /\ i \in Reg(w) /\ i \notin w.parsers
      /\ Made(w)
  BY DEF InHandler, Fits
<1>2. PICK d \in Dc : d = w.byDc[i].dc BY <1>1 DEF Fits, AuthInDc
<1>3. d \in Nat \ {0} BY DcAssumption
<1>4. PICK u : u = IF FoundToMain(w, d) = {} THEN w ELSE SetMainDcId(w, d) OBVIOUS
<1> DEFINE F == Found(w, d) lost == FoundLost(w, d)
<1>5. /\ u \in Worlds /\ (u = w \/ u = SetMainDcId(w, d))
      /\ v \in Worlds /\ Same(v, u, {"byDc", "toSend", "dropped", "waiters"})
      /\ v.byDc = [x \in Id |-> IF x \in F THEN SessionIn(w, d, x) ELSE w.byDc[x]]
      /\ v.toSend = u.toSend \cup {Place(SessionIn(w, d, x), x) : x \in F \ lost}
      /\ v.dropped = u.dropped \cup FoundToMain(w, d) \cup lost
      /\ v.waiters = [w.waiters EXCEPT ![d] = <<>>]
  <2>1. w.byDc[i].dc = d BY <1>2
  <2>2. IsResumed(v, u, w, d) BY <1>1, <1>4, <2>1, ResumedFields, Zenon
  <2> QED BY <2>2 DEF IsResumed
<1>6. Fits(u, {i}, {}) /\ NoPlace(u, i)
  BY <1>1, <1>4, SetMainDcIdKeeps
<1>7. /\ u.byDc = w.byDc /\ u.waiters = w.waiters /\ u.parsers = w.parsers /\ u.kind = w.kind
      /\ u.stored = w.stored
  <2>1. CASE u = w BY <2>1
  <2>2. CASE u = SetMainDcId(w, d) BY <1>1, <2>2, SetMainDcIdFields DEF Same, Fields
  <2> QED BY <1>5, <2>1, <2>2
<1>8. /\ v.stored = u.stored /\ v.delayed = u.delayed /\ v.after = u.after
      /\ v.dependent = u.dependent /\ v.parsers = u.parsers /\ v.order = u.order
      /\ v.kind = u.kind /\ v.broken = u.broken /\ v.exports = u.exports /\ v.sent = u.sent
  BY <1>5 DEF Same, Fields
<1>9. \A x \in F : /\ x \in Id /\ x \in w.stored /\ x \in Reg(w) /\ x \in KindOf(w, "user") /\ x # i
                   /\ WaitsIn(w, x) /\ \E k \in DOMAIN w.waiters[d] : w.waiters[d][k] = x
  BY <1>1, WorldTypes DEF Found, Reg, WaitsIn, Made, NoPlace
<1>10. \A x \in F : /\ x \in Id /\ x \in Reg(u) /\ ~HeldId(u, x) /\ x \notin u.delayed
                    /\ u.dependent[x] = Null
  <2>1. \A x \in F : x \in Reg(u) BY <1>7, <1>9 DEF Reg
  <2>2. \A x \in F : WaitsIn(u, x) BY <1>7, <1>9 DEF WaitsIn
  <2> QED BY <1>6, <1>9, <2>1, <2>2 DEF Fits, Apart
<1>11. \A x \in F : v.byDc[x] = SessionIn(w, d, x) BY <1>5, <1>9
<1>12. \A x \in Id : x \notin F => v.byDc[x] = u.byDc[x] BY <1>5, <1>7
<1>13. ASSUME NEW x \in F
       PROVE  /\ SessionIn(w, d, x) # Nowhere
              /\ x \in FoundToMain(w, d) => SessionIn(w, d, x).dc < 0
              /\ x \notin FoundToMain(w, d) => Abs(SessionIn(w, d, x)) = SessionIn(w, d, x)
  <2>1. w.byDc[x] \in Session BY <1>1, <1>9, WorldTypes
  <2>2. CASE x \in FoundToMain(w, d)
    <3>1. SessionIn(w, d, x).dc = -d BY <2>2 DEF SessionIn
    <3>2. -d < 0 /\ -d # 0 BY <1>3
    <3> QED BY <2>2, <3>1, <3>2 DEF Nowhere
  <2>3. CASE x \notin FoundToMain(w, d)
    <3>1. PICK s : s = SessionIn(w, d, x) OBVIOUS
    <3>2. s = [w.byDc[x] EXCEPT !.dc = d] BY <2>3, <3>1 DEF SessionIn
    <3>3. s \in Session /\ s.dc = d BY <1>3, <2>1, <3>2 DEF Session
    <3>4. Abs(s) = s BY <1>3, <3>3, AbsIsSession
    <3>5. s # Nowhere BY <1>3, <3>3 DEF Nowhere
    <3> QED BY <2>3, <3>1, <3>4, <3>5
  <2> QED BY <2>2, <2>3
<1>14. Reg(v) = Reg(u) BY <1>10, <1>11, <1>12, <1>13 DEF Reg
<1>15. FoundToMain(w, d) \subseteq F /\ lost \subseteq F BY DEF FoundToMain, FoundLost
<1>16. \A q \in {Place(SessionIn(w, d, x), x) : x \in F \ lost} :
          /\ q.id \in F \ lost /\ q.session = SessionIn(w, d, q.id)
          /\ q = Place(SessionIn(w, d, q.id), q.id)
  BY PlaceFields
<1>17. \A x \in F \ lost : \E q \in Held(v) : q.id = x
  <2>1. \A x \in F \ lost : Place(SessionIn(w, d, x), x) \in v.toSend BY <1>5
  <2> QED BY <2>1, PlaceFields DEF Held
<1> HIDE DEF F, lost
<1>18. \A q \in Held(v) : \/ q \in Held(u)
                          \/ /\ q \in v.toSend /\ q.id \in F \ lost
                             /\ q.session = SessionIn(w, d, q.id)
                             /\ q = Place(SessionIn(w, d, q.id), q.id)
  BY <1>5, <1>8, <1>16 DEF Held
<1>19. Held(u) \subseteq Held(v) BY <1>5, <1>8 DEF Held
<1>20. \A x \in Id : HeldId(v, x) <=> HeldId(u, x) \/ x \in F \ lost
  BY <1>17, <1>18, <1>19 DEF HeldId
<1>21. \A p \in Held(u) : p.id \notin F BY <1>10 DEF HeldId
<1>22. \A e \in Dc : e # d => v.waiters[e] = u.waiters[e] BY <1>1, <1>5, <1>7, WorldTypes
<1>23. v.waiters[d] = <<>> BY <1>1, <1>5, WorldTypes
<1>24. \A x \in Id : WaitsIn(v, x) => WaitsIn(u, x) /\ x \notin F
  <2>1. ASSUME NEW x \in Id, WaitsIn(v, x) PROVE WaitsIn(u, x) /\ x \notin F
    <3>1. PICK e \in Dc : \E k \in DOMAIN v.waiters[e] : v.waiters[e][k] = x BY <2>1 DEF WaitsIn
    <3>2. e # d BY <1>23, <3>1
    <3>3. PICK k \in DOMAIN u.waiters[e] : u.waiters[e][k] = x BY <1>22, <3>1, <3>2
    <3>4. x \notin F
      <4>1. SUFFICES ASSUME x \in F PROVE FALSE OBVIOUS
      <4>2. PICK l \in DOMAIN u.waiters[d] : u.waiters[d][l] = x BY <1>7, <1>9, <4>1
      <4>3. WaitsOnce(u) BY <1>6 DEF Fits
      <4> QED BY <3>2, <3>3, <4>2, <4>3 DEF WaitsOnce
    <3> QED BY <3>3, <3>4 DEF WaitsIn
  <2> QED BY <2>1
<1>25. \A x \in Id : WaitsIn(u, x) /\ x \in Reg(u) \ {i} => WaitsIn(v, x) \/ x \in F
  <2>1. ASSUME NEW x \in Id, WaitsIn(u, x), x \in Reg(u), x # i PROVE WaitsIn(v, x) \/ x \in F
    <3>1. PICK e \in Dc : \E k \in DOMAIN u.waiters[e] : u.waiters[e][k] = x BY <2>1 DEF WaitsIn
    <3>2. CASE e # d BY <1>22, <3>1, <3>2 DEF WaitsIn
    <3>3. CASE e = d
      <4>1. x \in u.stored BY <1>6, <2>1 DEF Fits, Tables
      <4> QED BY <1>7, <2>1, <3>1, <3>3, <4>1 DEF F, Found, Reg
    <3> QED BY <3>2, <3>3
  <2> QED BY <2>1
<1>26. Tables(v, {i}) BY <1>6, <1>8, <1>14 DEF Fits, Tables
<1>27. HeldRight(v, {i})
  <2>1. ASSUME NEW q \in Held(v)
        PROVE  \/ q.id \in v.dropped /\ q.session.dc < 0
               \/ q.id \in {i}
               \/ q.id \in Reg(v) /\ q.session = Abs(v.byDc[q.id])
    <3>1. CASE q \in Held(u)
      <4>1. \/ q.id \in u.dropped /\ q.session.dc < 0
            \/ q.id \in {i}
            \/ q.id \in Reg(u) /\ q.session = Abs(u.byDc[q.id])
        BY <1>6, <3>1 DEF Fits, HeldRight
      <4> QED BY <1>5, <1>12, <1>14, <1>21, <3>1, <4>1 DEF Reg
    <3>2. CASE q.id \in F \ lost /\ q.session = SessionIn(w, d, q.id)
      <4>1. CASE q.id \in FoundToMain(w, d) BY <1>5, <1>13, <3>2, <4>1
      <4>2. CASE q.id \notin FoundToMain(w, d) BY <1>10, <1>11, <1>13, <1>14, <3>2, <4>2
      <4> QED BY <4>1, <4>2
    <3> QED BY <1>18, <2>1, <3>1, <3>2
  <2> QED BY <2>1 DEF HeldRight
<1>28. HeldOnce(v)
  <2>1. v.toSend \cap v.sent = {}
    <3>1. \A q \in v.toSend : q \in u.toSend \/ q.id \in F BY <1>5, <1>16
    <3>2. \A q \in v.sent : q \in u.sent /\ q.id \notin F BY <1>8, <1>21 DEF Held
    <3> QED BY <1>6, <3>1, <3>2 DEF Fits, HeldOnce
  <2>2. ASSUME NEW p \in Held(v), NEW q \in Held(v), p.id = q.id PROVE p = q
    <3>1. CASE p.id \in F
      <4>1. p \notin Held(u) /\ q \notin Held(u) BY <1>21, <2>2, <3>1
      <4> QED BY <1>18, <2>2, <4>1
    <3>2. CASE p.id \notin F
      <4>1. p \in Held(u) /\ q \in Held(u) BY <1>18, <2>2, <3>2
      <4> QED BY <1>6, <2>2, <4>1 DEF Fits, HeldOnce
    <3> QED BY <3>1, <3>2
  <2> QED BY <2>1, <2>2 DEF HeldOnce
<1>29. WaitsOnce(v)
  <2>1. ASSUME NEW e \in Dc, NEW f \in Dc, NEW k \in DOMAIN v.waiters[e], NEW l \in DOMAIN v.waiters[f],
               v.waiters[e][k] = v.waiters[f][l]
        PROVE  e = f /\ k = l
    <3>1. e # d /\ f # d BY <1>23, <2>1
    <3> QED BY <1>6, <1>22, <2>1, <3>1 DEF Fits, WaitsOnce
  <2> QED BY <2>1 DEF WaitsOnce
<1>30. Apart(v)
  <2>1. ASSUME NEW x \in Id, HeldId(v, x)
        PROVE  x \notin v.delayed /\ v.dependent[x] = Null /\ ~WaitsIn(v, x)
    <3>1. CASE x \in F BY <1>8, <1>10, <1>24, <3>1
    <3>2. CASE HeldId(u, x) BY <1>6, <1>8, <1>24, <3>2 DEF Fits, Apart
    <3> QED BY <1>20, <2>1, <3>1, <3>2
  <2>2. ASSUME NEW x \in Id, x \in v.delayed PROVE v.dependent[x] = Null /\ ~WaitsIn(v, x)
    BY <1>6, <1>8, <1>24, <2>2 DEF Fits, Apart
  <2>3. ASSUME NEW x \in Id, v.dependent[x] # Null PROVE ~WaitsIn(v, x)
    BY <1>6, <1>8, <1>24, <2>3 DEF Fits, Apart
  <2> QED BY <2>1, <2>2, <2>3 DEF Apart
<1>31. Made(v)
  <2>1. KindOf(v, "user") = KindOf(u, "user") BY <1>8 DEF KindOf
  <2>2. Made(u) BY <1>6 DEF Fits
  <2>3. \A x \in F : x \in DOMAIN v.kind BY <1>8, <1>10, <2>2 DEF Made
  <2>4. \A q \in Held(v) : q.id \in DOMAIN v.kind BY <1>8, <1>18, <2>2, <2>3 DEF Made
  <2>5. v.dropped \subseteq DOMAIN v.kind BY <1>5, <1>8, <1>15, <2>2, <2>3 DEF Made
  <2>6. \A x \in Id : WaitsIn(v, x) => x \in KindOf(v, "user") BY <1>24, <2>1, <2>2 DEF Made
  <2> QED BY <1>8, <1>14, <2>2, <2>4, <2>5, <2>6 DEF Made
<1>32. Behind(v) BY <1>6, <1>8, <1>14 DEF Fits, Behind
<1>33. \A x \in Reg(v) : v.kind[x] = "import" \/ v.kind[x] = "export" => v.byDc[x] = u.byDc[x]
  <2>1. \A x \in F : v.kind[x] = "user" BY <1>7, <1>8, <1>9 DEF KindOf
  <2> QED BY <1>12, <2>1 DEF Reg
<1>34. AuthInDc(v, {i}) BY <1>6, <1>8, <1>14, <1>33 DEF Fits, AuthInDc
<1>35. AuthAsked(v, {i})
  <2>1. ASSUME NEW e \in Dc, v.waiters[e] # <<>>, e \notin v.broken PROVE AuthOf(v, e) \ {i} # {}
    <3>1. e # d BY <1>23, <2>1
    <3>2. PICK y \in AuthOf(u, e) : TRUE BY <1>6, <1>8, <1>22, <2>1, <3>1 DEF Fits, AuthAsked
    <3>3. y # i
      <4>1. u.kind[i] = "import" /\ u.byDc[i].dc = d BY <1>2, <1>7
      <4> QED BY <3>1, <3>2, <4>1 DEF AuthOf
    <3>4. y \in AuthOf(v, e) BY <1>8, <1>14, <1>33, <3>2 DEF AuthOf
    <3> QED BY <3>3, <3>4
  <2> QED BY <2>1 DEF AuthAsked
<1>36. Somewhere(v, {i})
  <2>1. ASSUME NEW x \in Reg(v) \ {i}
        PROVE  x \in v.dropped \/ HeldId(v, x) \/ x \in v.delayed \/ v.dependent[x] # Null \/ WaitsIn(v, x)
    <3>1. x \in Id /\ x \in Reg(u) \ {i} BY <1>14 DEF Reg
    <3>2. CASE x \in F BY <1>5, <1>20, <3>1, <3>2
    <3>3. CASE x \notin F
      <4>1. x \in u.dropped \/ HeldId(u, x) \/ x \in u.delayed \/ u.dependent[x] # Null \/ WaitsIn(u, x)
        BY <1>6, <3>1 DEF Fits, Somewhere
      <4> QED BY <1>5, <1>8, <1>20, <1>25, <3>1, <3>3, <4>1
    <3> QED BY <3>2, <3>3
  <2> QED BY <2>1 DEF Somewhere
<1>37. Counts(v, {i})
  <2>1. \A k : KindOf(v, k) = KindOf(u, k) BY <1>8 DEF KindOf
  <2>2. i \notin KindOf(u, "export") BY <1>7 DEF KindOf
  <2>3. (KindOf(v, "export") \cap Reg(v)) \ {i} = (KindOf(u, "export") \cap Reg(u)) \ {}
    BY <1>14, <2>1, <2>2
  <2> QED BY <1>6, <2>1, <2>3 DEF Fits, Counts
<1>38. NoPlace(v, i)
  <2>1. i \notin F BY <1>9
  <2> QED BY <1>6, <1>8, <1>20, <1>24, <2>1 DEF NoPlace
<1>39. i \notin v.parsers BY <1>1, <1>7, <1>8
<1>40. Fits(v, {i}, {i})
  BY <1>5, <1>26, <1>27, <1>28, <1>29, <1>30, <1>31, <1>32, <1>34, <1>35, <1>36, <1>37 DEF Fits
<1> QED BY <1>38, <1>39, <1>40 DEF Ended

\* The done handler of any request.
LEMMA HandledEnds ==
    ASSUME NEW w, NEW x \in Id, InHand(w, x), NEW v, v = Handled(w, x)
    PROVE  Ended(v, x)
<1>1. PICK u : u = [w EXCEPT !.parsers = @ \ {x}] OBVIOUS
<1>2. InHandler(u, x) /\ u.kind = w.kind BY <1>1, HandlerTaken DEF Same, Fields
<1>3. u.kind[x] \in Kind
  <2>1. u \in Worlds /\ x \in DOMAIN u.kind BY <1>2 DEF InHandler, Fits, Made
  <2> QED BY <2>1, WorldTypes
<1>4. v = CASE u.kind[x] = "user" -> u
            [] u.kind[x] = "export" -> Exported(u, x)
            [] u.kind[x] = "import" -> Resumed(u, x)
  BY <1>1 DEF Handled
<1>5. CASE u.kind[x] = "user" BY <1>2, <1>4, <1>5, UserEnds
<1>6. CASE u.kind[x] = "export"
  <2>1. v = Exported(u, x) BY <1>4, <1>6
  <2> QED BY <1>2, <1>6, <2>1, ExportedEnds
<1>7. CASE u.kind[x] = "import"
  <2>1. v = Resumed(u, x) BY <1>4, <1>7
  <2> QED BY <1>2, <1>7, <2>1, ResumedEnds
<1> QED BY <1>3, <1>5, <1>6, <1>7 DEF Kind

(* What the handler of a failed export does with those that wait. *)
WaitersLost(w, d) ==
    [w EXCEPT !.waiters[d] = <<>>,
              !.dropped = @ \cup ({w.waiters[d][k] : k \in DOMAIN w.waiters[d]} \cap w.stored)]

\* After an export that failed those that wait are lost.
LEMMA ExportFailedEnds ==
    ASSUME NEW w, NEW x \in Id, InHandler(w, x), w.kind[x] = "export",
           NEW d, d = w.exports[x].dc,
           NEW v, v = WaitersLost(w, d)
    PROVE  Ended(v, x)
<1>1. w \in Worlds /\ Fits(w, {x}, {}) /\ NoPlace(w, x) /\ x \in Reg(w) /\ x \notin w.parsers
  BY DEF InHandler, Fits
<1>2. d \in Dc BY <1>1 DEF Fits, AuthInDc
<1>3. PICK lost : lost = {w.waiters[d][k] : k \in DOMAIN w.waiters[d]} \cap w.stored OBVIOUS
<1>4. lost \subseteq Id BY <1>1, <1>3, WorldTypes
<1>5. PICK W, D : W = [w.waiters EXCEPT ![d] = <<>>] /\ D = w.dropped \cup lost OBVIOUS
<1>6. W \in [Dc -> Seq(Id)] BY <1>1, <1>2, <1>5, WorldTypes
<1>7. D \in SUBSET Id BY <1>1, <1>4, <1>5, WorldTypes
<1>8. v = [w EXCEPT !.waiters = W, !.dropped = D] BY <1>1, <1>3, <1>5 DEF Worlds, WaitersLost
<1>9. v \in Worlds BY <1>1, <1>6, <1>7, <1>8 DEF Worlds
<1>10. Same(v, w, {"waiters", "dropped"}) BY <1>1, <1>8 DEF Worlds, Same, Fields
<1>11. v.waiters = W /\ v.dropped = D BY <1>1, <1>8 DEF Worlds
<1>12. /\ v.byDc = w.byDc /\ v.stored = w.stored /\ v.delayed = w.delayed /\ v.after = w.after
       /\ v.dependent = w.dependent /\ v.toSend = w.toSend /\ v.parsers = w.parsers
       /\ v.exports = w.exports /\ v.order = w.order /\ v.kind = w.kind /\ v.broken = w.broken
       /\ v.sent = w.sent
  BY <1>10 DEF Same, Fields
<1>13. \A e \in Dc : e # d => v.waiters[e] = w.waiters[e] BY <1>1, <1>5, <1>11, WorldTypes
<1>14. v.waiters[d] = <<>> BY <1>1, <1>2, <1>5, <1>11, WorldTypes
<1>15. Reg(v) = Reg(w) BY <1>12 DEF Reg
<1>16. Held(v) = Held(w) BY <1>12 DEF Held
<1>17. \A y \in Id : HeldId(v, y) <=> HeldId(w, y) BY <1>16 DEF HeldId
<1>18. \A y \in Id : WaitsIn(v, y) => WaitsIn(w, y)
  <2>1. ASSUME NEW y \in Id, NEW e \in Dc, NEW k \in DOMAIN v.waiters[e], v.waiters[e][k] = y
        PROVE  WaitsIn(w, y)
    <3>1. e # d BY <1>14, <2>1
    <3> QED BY <1>13, <2>1, <3>1 DEF WaitsIn
  <2> QED BY <2>1 DEF WaitsIn
<1>19. \A y \in Id : WaitsIn(w, y) /\ y \in w.stored => WaitsIn(v, y) \/ y \in v.dropped
  <2>1. ASSUME NEW y \in Id, y \in w.stored, NEW e \in Dc, NEW k \in DOMAIN w.waiters[e],
               w.waiters[e][k] = y
        PROVE  WaitsIn(v, y) \/ y \in v.dropped
    <3>1. CASE e = d BY <1>3, <1>5, <1>11, <2>1, <3>1
    <3>2. CASE e # d BY <1>13, <2>1, <3>2 DEF WaitsIn
    <3> QED BY <3>1, <3>2
  <2> QED BY <2>1 DEF WaitsIn
<1>20. w.dropped \subseteq v.dropped BY <1>5, <1>11
<1>21. Tables(v, {x}) BY <1>1, <1>12, <1>15 DEF Fits, Tables
<1>22. HeldRight(v, {x}) BY <1>1, <1>12, <1>15, <1>16, <1>20 DEF Fits, HeldRight
<1>23. HeldOnce(v) BY <1>1, <1>12, <1>16 DEF Fits, HeldOnce
<1>24. WaitsOnce(v)
  <2>1. ASSUME NEW e \in Dc, NEW f \in Dc, NEW k \in DOMAIN v.waiters[e], NEW l \in DOMAIN v.waiters[f],
               v.waiters[e][k] = v.waiters[f][l]
        PROVE  e = f /\ k = l
    <3>1. e # d /\ f # d BY <1>14, <2>1
    <3> QED BY <1>1, <1>13, <2>1, <3>1 DEF Fits, WaitsOnce
  <2> QED BY <2>1 DEF WaitsOnce
<1>25. Apart(v) BY <1>1, <1>12, <1>17, <1>18 DEF Fits, Apart
<1>26. Made(v)
  <2>1. KindOf(v, "user") = KindOf(w, "user") BY <1>12 DEF KindOf
  <2>2. Made(w) BY <1>1 DEF Fits
  <2>3. \A y \in lost : y \in DOMAIN w.kind
    <3>1. \A y \in lost : y \in Id /\ WaitsIn(w, y) BY <1>2, <1>3, <1>4 DEF WaitsIn
    <3> QED BY <2>2, <3>1 DEF Made, KindOf
  <2>4. v.dropped \subseteq DOMAIN v.kind BY <1>5, <1>11, <1>12, <2>2, <2>3 DEF Made
  <2> QED BY <1>12, <1>15, <1>16, <1>18, <2>1, <2>2, <2>4 DEF Made
<1>27. Behind(v) BY <1>1, <1>12, <1>15 DEF Fits, Behind
<1>28. AuthInDc(v, {x}) BY <1>1, <1>12, <1>15 DEF Fits, AuthInDc
<1>29. AuthAsked(v, {x})
  <2>1. ASSUME NEW e \in Dc, v.waiters[e] # <<>>, e \notin v.broken PROVE AuthOf(v, e) \ {x} # {}
    <3>1. e # d BY <1>14, <2>1
    <3>2. PICK y \in AuthOf(w, e) : TRUE BY <1>1, <1>12, <1>13, <2>1, <3>1 DEF Fits, AuthAsked
    <3>3. y # x BY <3>1, <3>2 DEF AuthOf
    <3>4. y \in AuthOf(v, e) BY <1>12, <1>15, <3>2 DEF AuthOf
    <3> QED BY <3>3, <3>4
  <2> QED BY <2>1 DEF AuthAsked
<1>30. Somewhere(v, {x})
  <2>1. ASSUME NEW y \in Reg(v) \ {x}
        PROVE  y \in v.dropped \/ HeldId(v, y) \/ y \in v.delayed \/ v.dependent[y] # Null \/ WaitsIn(v, y)
    <3>1. y \in Id /\ y \in Reg(w) \ {x} BY <1>15 DEF Reg
    <3>2. y \in w.stored BY <1>1, <3>1 DEF Fits, Tables
    <3>3. y \in w.dropped \/ HeldId(w, y) \/ y \in w.delayed \/ w.dependent[y] # Null \/ WaitsIn(w, y)
      BY <1>1, <3>1 DEF Fits, Somewhere
    <3> QED BY <1>12, <1>17, <1>19, <1>20, <3>1, <3>2, <3>3
  <2> QED BY <2>1 DEF Somewhere
<1>31. Counts(v, {x})
  <2>1. \A k : KindOf(v, k) = KindOf(w, k) BY <1>12 DEF KindOf
  <2> DEFINE E == KindOf(w, "export") open == (E \cap Reg(w)) \ {}
  <2>2. IsFiniteSet(E) /\ Cardinality(E) \in Nat /\ Cardinality(KindOf(w, "import")) \in Nat
    BY <1>1, KindsCounted
  <2>3. open \in SUBSET E OBVIOUS
  <2>4. IsFiniteSet(open) /\ Cardinality(open) \in Nat BY <2>2, <2>3, FS_Subset, FS_CardinalityType
  <2>5. (KindOf(v, "export") \cap Reg(v)) \ {x} = open \ {x} BY <1>15, <2>1
  <2>6. Counts(w, {}) BY <1>1 DEF Fits
  <2>7. Cardinality(KindOf(w, "import")) + Cardinality(open) <= Cardinality(E) BY <2>6 DEF Counts
  <2> HIDE DEF E, open
  <2>8. Cardinality(open \ {x}) \in {Cardinality(open), Cardinality(open) - 1}
    BY <2>4, FS_RemoveElement
  <2>9. Cardinality(KindOf(w, "import")) + Cardinality(open \ {x}) <= Cardinality(E)
    BY <2>2, <2>4, <2>7, <2>8
  <2>10. Cardinality(KindOf(v, "import")) + Cardinality((KindOf(v, "export") \cap Reg(v)) \ {x})
            <= Cardinality(KindOf(v, "export"))
    BY <2>1, <2>5, <2>9 DEF E
  <2> QED BY <2>1, <2>6, <2>10 DEF Counts
<1>32. NoPlace(v, x) BY <1>1, <1>12, <1>17, <1>18 DEF NoPlace
<1>33. Fits(v, {x}, {x})
  BY <1>9, <1>21, <1>22, <1>23, <1>24, <1>25, <1>26, <1>27, <1>28, <1>29, <1>30, <1>31 DEF Fits
<1> QED BY <1>1, <1>12, <1>32, <1>33 DEF Ended

\* After an import that failed those that wait are left where they are.
LEMMA ImportFailedEnds ==
    ASSUME NEW w, NEW x \in Id, InHandler(w, x), w.kind[x] = "import",
           NEW d, d = Abs(w.byDc[x]).dc, NEW v, v = [w EXCEPT !.broken = @ \cup {d}]
    PROVE  Ended(v, x)
<1>1. w \in Worlds /\ Fits(w, {x}, {}) /\ NoPlace(w, x) /\ x \in Reg(w) /\ x \notin w.parsers
  BY DEF InHandler, Fits
<1>2. PICK e \in Dc : e = w.byDc[x].dc BY <1>1 DEF Fits, AuthInDc
<1>3. e \in Nat BY DcAssumption
<1>4. w.byDc[x] \in Session BY <1>1, WorldTypes
<1>5. d = e BY <1>2, <1>3, <1>4, AbsIsSession
<1>6. PICK B \in SUBSET Dc : B = w.broken \cup {d} BY <1>1, <1>5, WorldTypes
<1>7. v = [w EXCEPT !.broken = B] BY <1>1, <1>6 DEF Worlds
<1>8. v \in Worlds BY <1>1, <1>7 DEF Worlds
<1>9. Same(v, w, {"broken"}) BY <1>1, <1>7 DEF Worlds, Same, Fields
<1>10. v.broken = w.broken \cup {e} BY <1>1, <1>5, <1>6, <1>7 DEF Worlds
<1>11. /\ v.byDc = w.byDc /\ v.stored = w.stored /\ v.delayed = w.delayed /\ v.after = w.after
       /\ v.dependent = w.dependent /\ v.toSend = w.toSend /\ v.parsers = w.parsers
       /\ v.exports = w.exports /\ v.order = w.order /\ v.kind = w.kind /\ v.waiters = w.waiters
       /\ v.sent = w.sent /\ v.dropped = w.dropped
  BY <1>9 DEF Same, Fields
<1>15. Reg(v) = Reg(w) BY <1>11 DEF Reg
<1>16. Held(v) = Held(w) BY <1>11 DEF Held
<1>17. \A y \in Id : HeldId(v, y) <=> HeldId(w, y) BY <1>16 DEF HeldId
<1>18. \A y \in Id : WaitsIn(v, y) <=> WaitsIn(w, y) BY <1>11 DEF WaitsIn
<1>21. Tables(v, {x}) BY <1>1, <1>11, <1>15 DEF Fits, Tables
<1>22. HeldRight(v, {x}) BY <1>1, <1>11, <1>15, <1>16 DEF Fits, HeldRight
<1>23. HeldOnce(v) BY <1>1, <1>11, <1>16 DEF Fits, HeldOnce
<1>24. WaitsOnce(v) BY <1>1, <1>11 DEF Fits, WaitsOnce
<1>25. Apart(v) BY <1>1, <1>11, <1>17, <1>18 DEF Fits, Apart
<1>26. Made(v)
  <2>1. KindOf(v, "user") = KindOf(w, "user") BY <1>11 DEF KindOf
  <2> QED BY <1>1, <1>11, <1>15, <1>16, <1>18, <2>1 DEF Fits, Made
<1>27. Behind(v) BY <1>1, <1>11, <1>15 DEF Fits, Behind
<1>28. AuthInDc(v, {x}) BY <1>1, <1>11, <1>15 DEF Fits, AuthInDc
<1>29. AuthAsked(v, {x})
  <2>1. ASSUME NEW f \in Dc, v.waiters[f] # <<>>, f \notin v.broken PROVE AuthOf(v, f) \ {x} # {}
    <3>1. f # e /\ f \notin w.broken BY <1>10, <2>1
    <3>2. PICK y \in AuthOf(w, f) : TRUE BY <1>1, <1>11, <2>1, <3>1 DEF Fits, AuthAsked
    <3>3. y # x BY <1>2, <3>1, <3>2 DEF AuthOf
    <3>4. y \in AuthOf(v, f) BY <1>11, <1>15, <3>2 DEF AuthOf
    <3> QED BY <3>3, <3>4
  <2> QED BY <2>1 DEF AuthAsked
<1>30. Somewhere(v, {x}) BY <1>1, <1>11, <1>15, <1>17, <1>18 DEF Fits, Somewhere, Reg
<1>31. Counts(v, {x})
  <2>1. \A k : KindOf(v, k) = KindOf(w, k) BY <1>11 DEF KindOf
  <2>2. x \notin KindOf(w, "export") BY DEF KindOf
  <2>3. (KindOf(v, "export") \cap Reg(v)) \ {x} = (KindOf(w, "export") \cap Reg(w)) \ {}
    BY <1>15, <2>1, <2>2
  <2> QED BY <1>1, <2>1, <2>3 DEF Fits, Counts
<1>32. NoPlace(v, x) BY <1>1, <1>11, <1>17, <1>18 DEF NoPlace
<1>33. Fits(v, {x}, {x})
  BY <1>8, <1>21, <1>22, <1>23, <1>24, <1>25, <1>26, <1>27, <1>28, <1>29, <1>30, <1>31 DEF Fits
<1> QED BY <1>1, <1>11, <1>32, <1>33 DEF Ended

\* The fail handler of any request.
LEMMA FailedEnds ==
    ASSUME NEW w, NEW x \in Id, InHand(w, x), NEW v, v = Failed(w, x)
    PROVE  Ended(v, x)
<1>1. PICK u : u = [w EXCEPT !.parsers = @ \ {x}] OBVIOUS
<1>2. InHandler(u, x) /\ u.kind = w.kind BY <1>1, HandlerTaken DEF Same, Fields
<1>3. u.kind[x] \in Kind
  <2>1. u \in Worlds /\ x \in DOMAIN u.kind BY <1>2 DEF InHandler, Fits, Made
  <2> QED BY <2>1, WorldTypes
<1>4. PICK d : d = IF u.kind[x] = "export" THEN u.exports[x].dc ELSE Abs(u.byDc[x]).dc OBVIOUS
<1>5. v = CASE u.kind[x] = "user" -> u
            [] u.kind[x] = "export" -> WaitersLost(u, d)
            [] u.kind[x] = "import" -> [u EXCEPT !.broken = @ \cup {d}]
  BY <1>1, <1>4 DEF Failed, WaitersLost
<1>6. CASE u.kind[x] = "user" BY <1>2, <1>5, <1>6, UserEnds
<1>7. CASE u.kind[x] = "export"
  <2>1. v = WaitersLost(u, d) BY <1>5, <1>7
  <2>2. d = u.exports[x].dc BY <1>4, <1>7
  <2> QED BY <1>2, <1>7, <2>1, <2>2, ExportFailedEnds
<1>8. CASE u.kind[x] = "import"
  <2>1. v = [u EXCEPT !.broken = @ \cup {d}] BY <1>5, <1>8
  <2>2. d = Abs(u.byDc[x]).dc BY <1>4, <1>8
  <2> QED BY <1>2, <1>8, <2>1, <2>2, ImportFailedEnds
<1> QED BY <1>3, <1>6, <1>7, <1>8 DEF Kind

\* A handler that has ended is followed by unregisterRequest.
LEMMA EndedIsClosed ==
    ASSUME NEW w, NEW x \in Id, Ended(w, x), NEW v, v = Unregistered(w, x)
    PROVE  Fits(v, {}, {})
<1>1. Fits(w, {x}, {x}) /\ NoPlace(w, x) /\ x \notin w.parsers BY DEF Ended
<1>2. /\ Fits(v, {x}, {x}) /\ x \notin Reg(v) /\ x \notin v.stored /\ v.parsers = w.parsers
      /\ \A q \in Held(v) : q.id = x => q \in Held(w)
  BY <1>1, UnregisteredKeeps
<1>3. \A q \in Held(v) : q.id # x BY <1>1, <1>2 DEF NoPlace, HeldId
<1>4. HeldRight(v, {}) BY <1>2, <1>3 DEF Fits, HeldRight
<1>5. x \notin v.parsers BY <1>1, <1>2
<1> QED BY <1>2, <1>4, <1>5, Closed

\* The stored request may go before its handler and its data centre.
LEMMA NotStoredKeeps ==
    ASSUME NEW w, Fits(w, {}, {}), NEW x \in Id, w.kind[x] = "user",
           NEW v, v = [w EXCEPT !.stored = @ \ {x}]
    PROVE  Fits(v, {x}, {x}) /\ Same(v, w, {"stored"})
<1>1. w \in Worlds BY DEF Fits
<1>2. PICK S \in SUBSET Id : S = w.stored \ {x} BY <1>1, WorldTypes
<1>3. v = [w EXCEPT !.stored = S] BY <1>1, <1>2 DEF Worlds
<1>4. v \in Worlds BY <1>1, <1>3 DEF Worlds
<1>5. Same(v, w, {"stored"}) BY <1>1, <1>3 DEF Worlds, Same, Fields
<1>6. v.stored = w.stored \ {x} BY <1>1, <1>2, <1>3 DEF Worlds
<1>7. /\ v.byDc = w.byDc /\ v.parsers = w.parsers /\ v.delayed = w.delayed /\ v.after = w.after
      /\ v.dependent = w.dependent /\ v.toSend = w.toSend /\ v.waiters = w.waiters
      /\ v.exports = w.exports /\ v.order = w.order /\ v.kind = w.kind /\ v.broken = w.broken
      /\ v.dropped = w.dropped /\ v.sent = w.sent
  BY <1>5 DEF Same, Fields
<1>8. Reg(v) = Reg(w) BY <1>7 DEF Reg
<1>9. Held(v) = Held(w) BY <1>7 DEF Held
<1>10. \A y \in Id : HeldId(v, y) <=> HeldId(w, y) BY <1>9 DEF HeldId
<1>11. \A y \in Id : WaitsIn(v, y) <=> WaitsIn(w, y) BY <1>7 DEF WaitsIn
<1>12. Tables(v, {x}) BY <1>6, <1>7, <1>8 DEF Fits, Tables
<1>13. HeldRight(v, {x}) BY <1>7, <1>8, <1>9 DEF Fits, HeldRight
<1>14. HeldOnce(v) BY <1>7, <1>9 DEF Fits, HeldOnce
<1>15. WaitsOnce(v) BY <1>7 DEF Fits, WaitsOnce
<1>16. Apart(v) BY <1>7, <1>10, <1>11 DEF Fits, Apart
<1>17. Made(v)
  <2>1. KindOf(v, "user") = KindOf(w, "user") BY <1>7 DEF KindOf
  <2> QED BY <1>7, <1>8, <1>9, <1>11, <2>1 DEF Fits, Made
<1>18. Behind(v) BY <1>7, <1>8 DEF Fits, Behind
<1>19. AuthInDc(v, {x}) BY <1>7, <1>8 DEF Fits, AuthInDc
<1>20. AuthAsked(v, {x})
  <2>1. \A d \in Dc : AuthOf(v, d) \ {x} = AuthOf(w, d) \ {} BY <1>7, <1>8 DEF AuthOf
  <2> QED BY <1>7, <2>1 DEF Fits, AuthAsked
<1>21. Somewhere(v, {x}) BY <1>7, <1>8, <1>10, <1>11 DEF Fits, Somewhere, Reg
<1>22. Counts(v, {x})
  <2>1. \A k : KindOf(v, k) = KindOf(w, k) BY <1>7 DEF KindOf
  <2>2. x \notin KindOf(w, "export") BY DEF KindOf
  <2>3. (KindOf(v, "export") \cap Reg(v)) \ {x} = (KindOf(w, "export") \cap Reg(w)) \ {}
    BY <1>8, <2>1, <2>2
  <2> QED BY <2>1, <2>3 DEF Fits, Counts
<1> QED
  BY <1>4, <1>5, <1>12, <1>13, <1>14, <1>15, <1>16, <1>17, <1>18, <1>19, <1>20, <1>21, <1>22 DEF Fits

(* What cancel takes away at last: the session has the request no more, unless
   it is the session of minus a data centre. *)
LEMMA CancelledKeeps ==
    ASSUME NEW w, NEW x \in Id, Fits(w, {x}, {x}), x \notin Reg(w), x \notin w.stored,
           NEW p, \A q \in Held(w) : q.id = x => q = p \/ (x \in w.dropped /\ q.session.dc < 0),
           p.id = x,
           NEW o \in [Id -> {"none", "waits", "failed"}],
           \A y \in Id : o[y] # "none" => w.order[y] # "none",
           NEW v, v = [w EXCEPT !.toSend = @ \ {p}, !.sent = @ \ {p}, !.parsers = @ \ {x}, !.order = o]
    PROVE  Fits(v, {}, {})
<1>1. w \in Worlds BY DEF Fits
<1>2. PICK T, S, P : T = w.toSend \ {p} /\ S = w.sent \ {p} /\ P = w.parsers \ {x} OBVIOUS
<1>3. /\ T \in SUBSET [session: Session, id: Id] /\ S \in SUBSET [session: Session, id: Id]
      /\ P \in SUBSET Id
  BY <1>1, <1>2, WorldTypes
<1>4. v = [w EXCEPT !.toSend = T, !.sent = S, !.parsers = P, !.order = o] BY <1>1, <1>2 DEF Worlds
<1>5. v \in Worlds BY <1>1, <1>3, <1>4 DEF Worlds
<1>6. Same(v, w, {"toSend", "sent", "parsers", "order"}) BY <1>1, <1>4 DEF Worlds, Same, Fields
<1>7. v.toSend = T /\ v.sent = S /\ v.parsers = P /\ v.order = o BY <1>1, <1>4 DEF Worlds
<1>8. /\ v.byDc = w.byDc /\ v.stored = w.stored /\ v.delayed = w.delayed /\ v.after = w.after
      /\ v.dependent = w.dependent /\ v.waiters = w.waiters /\ v.exports = w.exports
      /\ v.kind = w.kind /\ v.broken = w.broken /\ v.dropped = w.dropped
  BY <1>6 DEF Same, Fields
<1>9. Reg(v) = Reg(w) BY <1>8 DEF Reg
<1>10. Held(v) = Held(w) \ {p} BY <1>2, <1>7 DEF Held
<1>11. \A y \in Id : HeldId(v, y) => HeldId(w, y) BY <1>10 DEF HeldId
<1>12. \A y \in Id : y # x /\ HeldId(w, y) => HeldId(v, y) BY <1>10 DEF HeldId
<1>13. \A y \in Id : WaitsIn(v, y) <=> WaitsIn(w, y) BY <1>8 DEF WaitsIn
<1>14. Tables(v, {x}) BY <1>2, <1>7, <1>8, <1>9 DEF Fits, Tables
<1>15. HeldRight(v, {})
  <2>1. ASSUME NEW q \in Held(v)
        PROVE  \/ q.id \in v.dropped /\ q.session.dc < 0
               \/ q.id \in Reg(v) /\ q.session = Abs(v.byDc[q.id])
    <3>1. CASE q.id = x BY <1>8, <1>10, <2>1, <3>1
    <3>2. CASE q.id # x BY <1>8, <1>9, <1>10, <2>1, <3>2 DEF Fits, HeldRight
    <3> QED BY <3>1, <3>2
  <2> QED BY <2>1 DEF HeldRight
<1>16. HeldOnce(v)
  <2>1. v.toSend \cap v.sent = {} BY <1>2, <1>7 DEF Fits, HeldOnce
  <2> QED BY <1>10, <2>1 DEF Fits, HeldOnce
<1>17. WaitsOnce(v) BY <1>8 DEF Fits, WaitsOnce
<1>18. Apart(v) BY <1>8, <1>11, <1>13 DEF Fits, Apart
<1>19. Made(v)
  <2>1. KindOf(v, "user") = KindOf(w, "user") BY <1>8 DEF KindOf
  <2>2. \A y \in Id : v.order[y] # "none" => v.after[y] # Null BY <1>7, <1>8 DEF Fits, Made
  <2> QED BY <1>8, <1>9, <1>10, <1>13, <2>1, <2>2 DEF Fits, Made
<1>20. Behind(v) BY <1>8, <1>9 DEF Fits, Behind
<1>21. AuthInDc(v, {x}) BY <1>8, <1>9 DEF Fits, AuthInDc
<1>22. AuthAsked(v, {x})
  <2>1. \A d \in Dc : AuthOf(v, d) = AuthOf(w, d) BY <1>8, <1>9 DEF AuthOf
  <2> QED BY <1>8, <2>1 DEF Fits, AuthAsked
<1>23. Somewhere(v, {x})
  <2>1. ASSUME NEW y \in Reg(v) \ {x}
        PROVE  y \in v.dropped \/ HeldId(v, y) \/ y \in v.delayed \/ v.dependent[y] # Null \/ WaitsIn(v, y)
    <3>1. y \in Id /\ y \in Reg(w) \ {x} BY <1>9 DEF Reg
    <3> QED BY <1>8, <1>12, <1>13, <3>1 DEF Fits, Somewhere
  <2> QED BY <2>1 DEF Somewhere
<1>24. Counts(v, {x}) BY <1>8, <1>9 DEF Fits, Counts, KindOf
<1>25. HeldRight(v, {x}) BY <1>15 DEF HeldRight
<1>26. Fits(v, {x}, {x})
  BY <1>5, <1>14, <1>16, <1>17, <1>18, <1>19, <1>20, <1>21, <1>22, <1>23, <1>24, <1>25 DEF Fits
<1>27. x \notin Reg(v) /\ x \notin v.stored /\ x \notin v.parsers BY <1>2, <1>7, <1>8, <1>9
<1> QED BY <1>15, <1>26, <1>27, Closed

\* A session sends a request that it holds.
LEMMA SentKeeps ==
    ASSUME NEW w, Fits(w, {}, {}), NEW ready \in SUBSET w.toSend,
           NEW o \in [Id -> {"none", "waits", "failed"}],
           \A y \in Id : o[y] # "none" => w.after[y] # Null,
           NEW v, v = [w EXCEPT !.toSend = @ \ ready, !.sent = @ \cup ready, !.order = o]
    PROVE  Fits(v, {}, {})
<1>1. w \in Worlds BY DEF Fits
<1>2. PICK T, S : T = w.toSend \ ready /\ S = w.sent \cup ready OBVIOUS
<1>3. T \in SUBSET [session: Session, id: Id] /\ S \in SUBSET [session: Session, id: Id]
  BY <1>1, <1>2, WorldTypes
<1>4. v = [w EXCEPT !.toSend = T, !.sent = S, !.order = o] BY <1>1, <1>2 DEF Worlds
<1>5. v \in Worlds BY <1>1, <1>3, <1>4 DEF Worlds
<1>6. Same(v, w, {"toSend", "sent", "order"}) BY <1>1, <1>4 DEF Worlds, Same, Fields
<1>7. v.toSend = T /\ v.sent = S /\ v.order = o BY <1>1, <1>4 DEF Worlds
<1>8. /\ v.byDc = w.byDc /\ v.stored = w.stored /\ v.delayed = w.delayed /\ v.after = w.after
      /\ v.dependent = w.dependent /\ v.waiters = w.waiters /\ v.exports = w.exports
      /\ v.kind = w.kind /\ v.broken = w.broken /\ v.dropped = w.dropped /\ v.parsers = w.parsers
  BY <1>6 DEF Same, Fields
<1>9. Reg(v) = Reg(w) BY <1>8 DEF Reg
<1>10. Held(v) = Held(w) BY <1>2, <1>7 DEF Held
<1>11. \A y \in Id : HeldId(v, y) <=> HeldId(w, y) BY <1>10 DEF HeldId
<1>12. \A y \in Id : WaitsIn(v, y) <=> WaitsIn(w, y) BY <1>8 DEF WaitsIn
<1>13. Tables(v, {}) BY <1>8, <1>9 DEF Fits, Tables
<1>14. HeldRight(v, {}) BY <1>8, <1>9, <1>10 DEF Fits, HeldRight
<1>15. HeldOnce(v)
  <2>1. v.toSend \cap v.sent = {} BY <1>2, <1>7 DEF Fits, HeldOnce
  <2> QED BY <1>10, <2>1 DEF Fits, HeldOnce
<1>16. WaitsOnce(v) BY <1>8 DEF Fits, WaitsOnce
<1>17. Apart(v) BY <1>8, <1>11, <1>12 DEF Fits, Apart
<1>18. Made(v)
  <2>1. KindOf(v, "user") = KindOf(w, "user") BY <1>8 DEF KindOf
  <2>2. \A y \in Id : v.order[y] # "none" => v.after[y] # Null BY <1>7, <1>8
  <2> QED BY <1>8, <1>9, <1>10, <1>12, <2>1, <2>2 DEF Fits, Made
<1>19. Behind(v) BY <1>8, <1>9 DEF Fits, Behind
<1>20. AuthInDc(v, {}) BY <1>8, <1>9 DEF Fits, AuthInDc
<1>21. AuthAsked(v, {})
  <2>1. \A d \in Dc : AuthOf(v, d) = AuthOf(w, d) BY <1>8, <1>9 DEF AuthOf
  <2> QED BY <1>8, <2>1 DEF Fits, AuthAsked
<1>22. Somewhere(v, {}) BY <1>8, <1>9, <1>11, <1>12 DEF Fits, Somewhere, Reg
<1>23. Counts(v, {}) BY <1>8, <1>9 DEF Fits, Counts, KindOf
<1> QED BY <1>5, <1>13, <1>14, <1>15, <1>16, <1>17, <1>18, <1>19, <1>20, <1>21, <1>22, <1>23 DEF Fits

(* x waits as well, for the authorization in the data centre d. *)
OneMore(v, w, x, d) ==
    /\ WaitsOnce(v) /\ v.waiters \in [Dc -> Seq(Id)]
    /\ \A y \in Id : WaitsIn(v, y) <=> y = x \/ WaitsIn(w, y)
    /\ \A e \in Dc : e # d => v.waiters[e] = w.waiters[e]

\* What waits after one request has joined a queue.
LEMMA OneMoreWaits ==
    ASSUME NEW w \in Worlds, NEW x \in Id, ~WaitsIn(w, x), WaitsOnce(w), NEW d \in Dc,
           NEW W, W = [w.waiters EXCEPT ![d] = Append(@, x)], NEW v, v.waiters = W
    PROVE  OneMore(v, w, x, d)
<1>1. w.waiters \in [Dc -> Seq(Id)] BY WorldTypes
<1>2. \A e \in Dc : e # d => v.waiters[e] = w.waiters[e] BY <1>1
<1>3. PICK s \in Seq(Id) : s = w.waiters[d] BY <1>1
<1>4. v.waiters[d] = Append(s, x) BY <1>1, <1>3
<1>5. v.waiters \in [Dc -> Seq(Id)] BY <1>1, <1>3, <1>4
<1>6. /\ DOMAIN Append(s, x) = DOMAIN s \cup {Len(s) + 1} /\ Len(s) + 1 \notin DOMAIN s
      /\ Append(s, x)[Len(s) + 1] = x /\ \A k \in DOMAIN s : Append(s, x)[k] = s[k]
  BY <1>3
<1>7. \A e \in Dc : \A k \in DOMAIN w.waiters[e] :
         w.waiters[e][k] # x /\ k \in DOMAIN v.waiters[e] /\ v.waiters[e][k] = w.waiters[e][k]
  BY <1>2, <1>3, <1>4, <1>6 DEF WaitsIn
<1>8. ASSUME NEW e \in Dc, NEW k \in DOMAIN v.waiters[e]
      PROVE  \/ k \in DOMAIN w.waiters[e] /\ v.waiters[e][k] = w.waiters[e][k] /\ v.waiters[e][k] # x
             \/ e = d /\ k = Len(s) + 1 /\ v.waiters[e][k] = x
  <2>1. CASE e # d BY <1>2, <1>7, <1>8, <2>1
  <2>2. CASE e = d
    <3>1. v.waiters[e] = Append(s, x) /\ w.waiters[e] = s BY <1>3, <1>4, <2>2
    <3>2. k \in DOMAIN s \cup {Len(s) + 1} BY <1>6, <3>1
    <3>3. CASE k \in DOMAIN s BY <1>7, <3>1, <3>3
    <3>4. CASE k = Len(s) + 1 BY <1>6, <2>2, <3>1, <3>4
    <3> QED BY <3>2, <3>3, <3>4
  <2> QED BY <2>1, <2>2
<1>9. WaitsOnce(v) BY <1>8 DEF WaitsOnce
<1>10. ASSUME NEW y \in Id PROVE WaitsIn(v, y) <=> y = x \/ WaitsIn(w, y)
  <2>1. ASSUME WaitsIn(v, y) PROVE y = x \/ WaitsIn(w, y) BY <1>8, <2>1 DEF WaitsIn
  <2>2. ASSUME WaitsIn(w, y) PROVE WaitsIn(v, y) BY <1>7, <2>2 DEF WaitsIn
  <2>3. WaitsIn(v, x) BY <1>4, <1>6 DEF WaitsIn
  <2> QED BY <2>1, <2>2, <2>3
<1> QED BY <1>2, <1>5, <1>9, <1>10 DEF OneMore

\* A request in the hand that joins a queue in which others wait.
LEMMA JoinedKeeps ==
    ASSUME NEW w, NEW x \in Id, InHand(w, x), w.kind[x] = "user", NEW d \in Dc, w.waiters[d] # <<>>,
           NEW v, v = [w EXCEPT !.waiters[d] = Append(@, x)]
    PROVE  Fits(v, {}, {})
<1>1. w \in Worlds /\ Fits(w, {x}, {}) /\ NoPlace(w, x) /\ WaitsOnce(w) BY DEF InHand, Fits
<1>2. PICK W : W = [w.waiters EXCEPT ![d] = Append(@, x)] OBVIOUS
<1>3. v = [w EXCEPT !.waiters = W] BY <1>1, <1>2 DEF Worlds
<1>4. v.waiters = W BY <1>1, <1>3 DEF Worlds
<1>5. ~WaitsIn(w, x) /\ ~HeldId(w, x) /\ x \notin w.delayed /\ w.dependent[x] = Null
  BY <1>1 DEF NoPlace
<1>6. /\ WaitsOnce(v) /\ v.waiters \in [Dc -> Seq(Id)]
      /\ \A y \in Id : WaitsIn(v, y) <=> y = x \/ WaitsIn(w, y)
      /\ \A e \in Dc : e # d => v.waiters[e] = w.waiters[e]
  <2>1. OneMore(v, w, x, d) BY <1>1, <1>2, <1>4, <1>5, OneMoreWaits, Zenon
  <2> QED BY <2>1 DEF OneMore
<1>7. W \in [Dc -> Seq(Id)] BY <1>2, <1>4, <1>6
<1>8. v \in Worlds BY <1>1, <1>3, <1>7 DEF Worlds
<1>9. Same(v, w, {"waiters"}) BY <1>1, <1>3 DEF Worlds, Same, Fields
<1>10. /\ v.byDc = w.byDc /\ v.stored = w.stored /\ v.parsers = w.parsers /\ v.after = w.after
       /\ v.dependent = w.dependent /\ v.toSend = w.toSend /\ v.delayed = w.delayed
       /\ v.exports = w.exports /\ v.order = w.order /\ v.kind = w.kind /\ v.broken = w.broken
       /\ v.dropped = w.dropped /\ v.sent = w.sent
  BY <1>9 DEF Same, Fields
<1>11. Reg(v) = Reg(w) BY <1>10 DEF Reg
<1>12. Held(v) = Held(w) BY <1>10 DEF Held
<1>13. \A y \in Id : HeldId(v, y) <=> HeldId(w, y) BY <1>12 DEF HeldId
<1>14. x \in Reg(v) /\ x \in w.stored /\ x \in w.parsers BY <1>11 DEF InHand
<1>15. Tables(v, {}) BY <1>1, <1>10, <1>11, <1>14 DEF Fits, Tables
<1>16. HeldRight(v, {})
  <2>1. \A p \in Held(w) : p.id # x BY <1>5 DEF HeldId
  <2> QED BY <1>1, <1>10, <1>11, <1>12, <2>1 DEF Fits, HeldRight
<1>17. HeldOnce(v) BY <1>1, <1>10, <1>12 DEF Fits, HeldOnce
<1>18. Apart(v) BY <1>1, <1>5, <1>6, <1>10, <1>13 DEF Fits, Apart
<1>19. Made(v)
  <2>1. KindOf(v, "user") = KindOf(w, "user") BY <1>10 DEF KindOf
  <2>2. x \in KindOf(w, "user") BY <1>1, <1>11, <1>14 DEF Fits, Made, KindOf
  <2> QED BY <1>1, <1>6, <1>10, <1>11, <1>12, <2>1, <2>2 DEF Fits, Made
<1>20. Behind(v) BY <1>1, <1>10, <1>11 DEF Fits, Behind
<1>21. AuthInDc(v, {}) BY <1>1, <1>10, <1>11 DEF Fits, AuthInDc
<1>22. AuthAsked(v, {})
  <2>1. \A e \in Dc : AuthOf(v, e) = AuthOf(w, e) BY <1>10, <1>11 DEF AuthOf
  <2>2. \A e \in Dc : v.waiters[e] # <<>> => w.waiters[e] # <<>> BY <1>6
  <2> QED BY <1>1, <1>10, <2>1, <2>2 DEF Fits, AuthAsked
<1>23. Somewhere(v, {})
  <2>1. \A y \in Reg(v) : y \in Id BY DEF Reg
  <2> QED BY <1>1, <1>6, <1>10, <1>11, <1>13, <2>1 DEF Fits, Somewhere
<1>24. Counts(v, {}) BY <1>1, <1>10, <1>11 DEF Fits, Counts, KindOf
<1> QED BY <1>6, <1>8, <1>15, <1>16, <1>17, <1>18, <1>19, <1>20, <1>21, <1>22, <1>23, <1>24 DEF Fits

(* The first request that is refused in the data centre d: an export is asked for. *)
ExportAsked(w, x, n, s) ==
    [Requesting(w, "export", ToMain, Null) EXCEPT !.exports[n] = s, !.waiters[s.dc] = <<x>>]

\* The export has the place of a request made, and x waits.
LEMMA ExportAskedKeeps ==
    ASSUME NEW w, NEW x \in Id, InHand(w, x), w.kind[x] = "user",
           Cardinality(KindOf(w, "export")) < MaxExports,
           NEW s \in Session, s.dc \in Dc, w.waiters[s.dc] = <<>>,
           NEW n, n = Len(w.kind) + 1, NEW v, v = ExportAsked(w, x, n, s)
    PROVE  Fits(v, {}, {})
<1>1. /\ w \in Worlds /\ Fits(w, {x}, {}) /\ NoPlace(w, x) /\ x \in Reg(w) /\ x \in w.stored
      /\ x \in w.parsers /\ Counts(w, {}) /\ Made(w)
  BY DEF InHand, Fits
<1>2. PICK d \in Dc : d = s.dc OBVIOUS
<1>3. n \in Id BY <1>1, RoomForOne
<1>4. ToMain \in Session /\ ToMain.dc >= 0 /\ "export" \in Kind BY DEF ToMain, Session, Kind
<1>5. PICK u : u = Requesting(w, "export", ToMain, Null) OBVIOUS
<1>6. u \in Worlds /\ \E a, b : NewRequest(u, w, "export", ToMain, n, b, a)
  BY <1>1, <1>3, <1>4, <1>5, RequestingFields
<1>7. PICK a, b : NewRequest(u, w, "export", ToMain, n, b, a) BY <1>6
<1>8. w.stored = Reg(w)
  <2>1. w.stored \ {x} = Reg(w) \ {x} BY <1>1 DEF Fits, Tables
  <2>2. ASSUME NEW y PROVE y \in w.stored <=> y \in Reg(w)
    <3>1. CASE y = x BY <1>1, <3>1
    <3>2. CASE y # x BY <2>1, <3>2
    <3> QED BY <3>1, <3>2
  <2> QED BY <2>2
<1>9. RequestMade(u, w, {x}, "export", n, b)
  BY <1>1, <1>3, <1>4, <1>6, <1>7, <1>8, NewRequestKeeps, Zenon
<1>10. /\ Tables(u, {x}) /\ HeldRight(u, {x}) /\ HeldOnce(u) /\ WaitsOnce(u)
       /\ Apart(u) /\ Made(u) /\ Behind(u) /\ Somewhere(u, {x})
       /\ n \notin DOMAIN w.kind /\ n \notin Reg(w) /\ Reg(u) = Reg(w) \cup {n}
       /\ u.kind[n] = "export" /\ \A y \in DOMAIN w.kind : u.kind[y] = w.kind[y]
       /\ \A y \in Id : y # n => u.byDc[y] = w.byDc[y]
       /\ KindOf(u, "export") = KindOf(w, "export") \cup {n}
       /\ \A k2 : k2 # "export" => KindOf(u, k2) = KindOf(w, k2)
       /\ \A y \in Id : y # n /\ NoPlace(w, y) => NoPlace(u, y)
  BY <1>9 DEF RequestMade
<1>11. /\ u.exports = w.exports /\ u.waiters = w.waiters /\ u.broken = w.broken
       /\ u.stored = w.stored \cup {n} /\ u.parsers = w.parsers \cup {n}
  BY <1>7 DEF NewRequest, Same, Fields
<1>12. x # n /\ NoPlace(u, x) BY <1>1, <1>10
<1>13. PICK E, W : /\ E = [u.exports EXCEPT ![n] = s]
                   /\ W = [u.waiters EXCEPT ![d] = Append(@, x)]
  OBVIOUS
<1>14. E \in [Id -> Session] BY <1>3, <1>6, <1>13, WorldTypes
<1>15. W = [u.waiters EXCEPT ![d] = <<x>>]
  <2>1. u.waiters[d] = <<>> BY <1>2, <1>11
  <2>2. Append(<<>>, x) = <<x>> OBVIOUS
  <2> QED BY <1>13, <2>1, <2>2
<1>16. v = [u EXCEPT !.exports = E, !.waiters = W] BY <1>2, <1>5, <1>6, <1>13, <1>15 DEF ExportAsked, Worlds
<1>17. v.waiters = W /\ v.exports = E BY <1>6, <1>16 DEF Worlds
<1>18. Same(v, u, {"waiters", "exports"}) BY <1>6, <1>16 DEF Worlds, Same, Fields
<1>19. ~WaitsIn(u, x) /\ ~HeldId(u, x) /\ x \notin u.delayed /\ u.dependent[x] = Null
  BY <1>12 DEF NoPlace
<1>20. /\ WaitsOnce(v) /\ v.waiters \in [Dc -> Seq(Id)]
       /\ \A y \in Id : WaitsIn(v, y) <=> y = x \/ WaitsIn(u, y)
       /\ \A e \in Dc : e # d => v.waiters[e] = u.waiters[e]
  <2>1. OneMore(v, u, x, d) BY <1>6, <1>10, <1>13, <1>17, <1>19, OneMoreWaits, Zenon
  <2> QED BY <2>1 DEF OneMore
<1>21. v \in Worlds BY <1>6, <1>14, <1>16, <1>17, <1>20 DEF Worlds
<1>22. /\ v.byDc = u.byDc /\ v.stored = u.stored /\ v.parsers = u.parsers /\ v.after = u.after
       /\ v.dependent = u.dependent /\ v.toSend = u.toSend /\ v.delayed = u.delayed
       /\ v.order = u.order /\ v.kind = u.kind /\ v.broken = u.broken
       /\ v.dropped = u.dropped /\ v.sent = u.sent
  BY <1>18 DEF Same, Fields
<1>23. v.exports[n] = s /\ \A y \in Id : y # n => v.exports[y] = w.exports[y]
  BY <1>3, <1>6, <1>11, <1>13, <1>17, WorldTypes
<1>24. Reg(v) = Reg(u) BY <1>22 DEF Reg
<1>25. Held(v) = Held(u) BY <1>22 DEF Held
<1>26. \A y \in Id : HeldId(v, y) <=> HeldId(u, y) BY <1>25 DEF HeldId
<1>27. x \in Reg(v) /\ x \in v.stored /\ x \in v.parsers BY <1>1, <1>10, <1>11, <1>22, <1>24
<1>28. Tables(v, {})
  <2>1. u.stored \ {x} = Reg(u) \ {x} /\ u.parsers \ {x} = Reg(u) \ {x} BY <1>10 DEF Tables
  <2>2. v.stored = u.stored /\ v.parsers = u.parsers BY <1>22
  <2>3. ASSUME NEW y PROVE (y \in v.stored <=> y \in Reg(v)) /\ (y \in v.parsers <=> y \in Reg(v))
    <3>1. CASE y = x BY <1>27, <3>1
    <3>2. CASE y # x BY <1>24, <2>1, <2>2, <3>2
    <3> QED BY <3>1, <3>2
  <2>4. v.stored = Reg(v) /\ v.parsers = Reg(v) BY <2>3
  <2> QED BY <2>4 DEF Tables
<1>29. HeldRight(v, {})
  <2>1. \A p \in Held(u) : p.id # x BY <1>19 DEF HeldId
  <2> QED BY <1>10, <1>22, <1>24, <1>25, <2>1 DEF HeldRight
<1>30. HeldOnce(v) BY <1>10, <1>22, <1>25 DEF HeldOnce
<1>31. Apart(v) BY <1>10, <1>19, <1>20, <1>22, <1>26 DEF Apart
<1>32. Made(v)
  <2>1. KindOf(v, "user") = KindOf(u, "user") BY <1>22 DEF KindOf
  <2>2. x \in KindOf(u, "user")
    <3>1. x \in KindOf(w, "user") BY <1>1 DEF Made, KindOf
    <3> QED BY <1>10, <3>1
  <2> QED BY <1>10, <1>20, <1>22, <1>24, <1>25, <2>1, <2>2 DEF Made
<1>33. Behind(v) BY <1>10, <1>22, <1>24 DEF Behind
<1>34. \A y \in Reg(w) : y \in Id /\ y # n /\ v.kind[y] = w.kind[y] /\ v.byDc[y] = w.byDc[y]
                         /\ v.exports[y] = w.exports[y]
  BY <1>1, <1>10, <1>22, <1>23 DEF Made, Reg
<1>35. n \in Reg(v) /\ v.kind[n] = "export" /\ v.exports[n].dc = d
  BY <1>2, <1>10, <1>22, <1>23, <1>24
<1>36. AuthInDc(v, {})
  <2>1. ASSUME NEW y \in Reg(v)
        PROVE  /\ v.kind[y] = "export" => v.exports[y].dc \in Dc
               /\ v.kind[y] = "import" => v.byDc[y].dc \in Dc
    <3>1. CASE y = n BY <1>35, <3>1
    <3>2. CASE y # n
      <4>1. y \in Reg(w) BY <1>10, <1>24, <3>2
      <4> QED BY <1>1, <1>34, <4>1 DEF Fits, AuthInDc
    <3> QED BY <3>1, <3>2
  <2> QED BY <2>1 DEF AuthInDc
<1>37. AuthAsked(v, {})
  <2>1. ASSUME NEW e \in Dc, v.waiters[e] # <<>>, e \notin v.broken PROVE AuthOf(v, e) \ {} # {}
    <3>1. CASE e = d
      <4>1. n \in AuthOf(v, e) BY <1>35, <3>1 DEF AuthOf
      <4> QED BY <4>1
    <3>2. CASE e # d
      <4>1. PICK y \in AuthOf(w, e) : TRUE
        BY <1>1, <1>11, <1>20, <1>22, <2>1, <3>2 DEF Fits, AuthAsked
      <4>2. y \in AuthOf(v, e) BY <1>10, <1>24, <1>34, <4>1 DEF AuthOf
      <4> QED BY <4>2
    <3> QED BY <3>1, <3>2
  <2> QED BY <2>1 DEF AuthAsked
<1>38. Somewhere(v, {})
  <2>1. \A y \in Reg(v) : y \in Id BY DEF Reg
  <2> QED BY <1>10, <1>20, <1>22, <1>24, <1>26, <2>1 DEF Somewhere
<1>39. Counts(v, {})
  <2>1. \A k : KindOf(v, k) = KindOf(u, k) BY <1>22 DEF KindOf
  <2> DEFINE I == KindOf(w, "import") X == KindOf(w, "export") open == (X \cap Reg(w)) \ {}
             open2 == (KindOf(v, "export") \cap Reg(v)) \ {}
  <2>2. KindOf(v, "user") = KindOf(w, "user") /\ KindOf(v, "import") = I /\ KindOf(v, "export") = X \cup {n}
    BY <1>10, <2>1
  <2>3. n \notin X BY <1>10 DEF KindOf
  <2>4. open2 = open \cup {n} /\ n \notin open BY <1>10, <1>24, <2>2, <2>3
  <2>5. IsFiniteSet(I) /\ IsFiniteSet(X) /\ Cardinality(X) \in Nat /\ Cardinality(I) \in Nat
    BY <1>1, KindsCounted
  <2>6. open \in SUBSET X OBVIOUS
  <2>7. IsFiniteSet(open) /\ Cardinality(open) \in Nat BY <2>5, <2>6, FS_Subset, FS_CardinalityType
  <2>8. Cardinality(I) + Cardinality(open) <= Cardinality(X) BY <1>1 DEF Counts
  <2>9. Cardinality(X) < MaxExports OBVIOUS
  <2> HIDE DEF I, X, open, open2
  <2>10. Cardinality(open \cup {n}) = Cardinality(open) + 1 BY <2>4, <2>7, FS_AddElement
  <2>11. Cardinality(X \cup {n}) = Cardinality(X) + 1 BY <2>3, <2>5, FS_AddElement
  <2>12. Cardinality(X \cup {n}) <= MaxExports BY <2>5, <2>9, <2>11, BoundsAssumption
  <2>13. Cardinality(I) + Cardinality(open2) <= Cardinality(X \cup {n})
    BY <2>4, <2>5, <2>7, <2>8, <2>10, <2>11
  <2>14. Cardinality(KindOf(v, "import")) + Cardinality((KindOf(v, "export") \cap Reg(v)) \ {})
            <= Cardinality(KindOf(v, "export"))
    BY <2>2, <2>13 DEF open2
  <2>15. Cardinality(KindOf(v, "export")) <= MaxExports BY <2>2, <2>12
  <2>16. Cardinality(KindOf(v, "user")) <= MaxUser BY <1>1, <2>2 DEF Counts
  <2> QED BY <2>14, <2>15, <2>16 DEF Counts
<1> QED BY <1>20, <1>21, <1>28, <1>29, <1>30, <1>31, <1>32, <1>33, <1>36, <1>37, <1>38, <1>39 DEF Fits

-----------------------------------------------------------------------------
(* The steps.                                                                *)

\* The world after SetWorld is the one it was given.
LEMMA WorldSet ==
    ASSUME NEW w \in Worlds, SetWorld(w)
    PROVE  World' = w
<1>1. /\ main' = w.main /\ byDc' = w.byDc /\ stored' = w.stored
      /\ parsers' = w.parsers /\ after' = w.after /\ dependent' = w.dependent
      /\ delayed' = w.delayed /\ waiters' = w.waiters /\ exports' = w.exports
      /\ toSend' = w.toSend /\ sent' = w.sent /\ order' = w.order
      /\ kind' = w.kind /\ dropped' = w.dropped /\ broken' = w.broken
  BY DEF SetWorld
<1> QED BY <1>1 DEF World, Worlds

\* So a step that sets a right world keeps the tables right.
LEMMA FitsAfter ==
    ASSUME NEW w, Fits(w, {}, {}), SetWorld(w)
    PROVE  Fits(World, {}, {})'
<1>1. w \in Worlds BY DEF Fits
<1>2. World' = w BY <1>1, WorldSet
<1> QED BY <1>2

\* The answer to a request in a session finds its handler and moves nothing else.
LEMMA AnswersIn ==
    ASSUME Fits(World, {}, {}), NEW p \in sent, p.session.dc \in Dc, NEW good \in BOOLEAN,
           NEW v, v = Answered(p, good)
    PROVE  /\ p.id \in parsers /\ v.kind = kind /\ v.byDc = byDc /\ v.waiters = waiters
           /\ v.after = after /\ v.main = main
<1>1. InHand(v, p.id) /\ Same(v, World, {"sent", "order"}) BY AnsweredTakes
<1>2. v.parsers = parsers /\ v.kind = kind /\ v.byDc = byDc /\ v.waiters = waiters
      /\ v.after = after /\ v.main = main
  BY <1>1 DEF Same, Fields, World
<1> QED BY <1>1, <1>2 DEF InHand

\* The step in which a request is done.
LEMMA DoneFits ==
    ASSUME Fits(World, {}, {}), NEW p \in sent, Done(p)
    PROVE  Fits(World, {}, {})'
<1>1. p.session.dc \in Dc BY DEF Done, Answers
<1>2. PICK a : a = Answered(p, TRUE) OBVIOUS
<1>3. InHand(a, p.id) /\ p.id \in Id /\ p.id \in parsers BY <1>1, <1>2, AnsweredTakes, AnswersIn
<1>4. PICK w : w = Handled(a, p.id) OBVIOUS
<1>5. Ended(w, p.id) BY <1>3, <1>4, HandledEnds
<1>6. PICK v : v = Unregistered(w, p.id) OBVIOUS
<1>7. Fits(v, {}, {}) BY <1>3, <1>5, <1>6, EndedIsClosed
<1>8. SetWorld(v) BY <1>2, <1>3, <1>4, <1>6 DEF Done
<1> QED BY <1>7, <1>8, FitsAfter

\* The step in which a request fails.
LEMMA FailsFits ==
    ASSUME Fits(World, {}, {}), NEW p \in sent, Fails(p)
    PROVE  Fits(World, {}, {})'
<1>1. p.session.dc \in Dc BY DEF Fails, Answers
<1>2. PICK a : a = Answered(p, FALSE) OBVIOUS
<1>3. InHand(a, p.id) /\ p.id \in Id /\ p.id \in parsers BY <1>1, <1>2, AnsweredTakes, AnswersIn
<1>4. PICK w : w = Failed(a, p.id) OBVIOUS
<1>5. Ended(w, p.id) BY <1>3, <1>4, FailedEnds
<1>6. PICK v : v = Unregistered(w, p.id) OBVIOUS
<1>7. Fits(v, {}, {}) BY <1>3, <1>5, <1>6, EndedIsClosed
<1>8. SetWorld(v) BY <1>2, <1>3, <1>4, <1>6 DEF Fails
<1> QED BY <1>7, <1>8, FitsAfter

\* The step in which a request is to be sent later.
LEMMA LaterFits ==
    ASSUME Fits(World, {}, {}), NEW p \in sent, Later(p)
    PROVE  Fits(World, {}, {})'
<1>1. p.session.dc \in Dc BY DEF Later, Refused, Answers
<1>2. PICK a : a = Answered(p, FALSE) OBVIOUS
<1>3. InHand(a, p.id) /\ p.id \in Id /\ Same(a, World, {"sent", "order"})
  BY <1>1, <1>2, AnsweredTakes
<1>4. PICK w : w = [a EXCEPT !.delayed = @ \cup {p.id}] OBVIOUS
<1>5. Fits(w, {}, {}) BY <1>3, <1>4, DelayedKeeps
<1>6. PICK due \in SUBSET delayed : SetWorld(ResentDelayed(w, due)) BY <1>2, <1>4 DEF Later
<1>7. due \in SUBSET w.delayed
  <2>1. a.delayed = delayed BY <1>3 DEF Same, Fields, World
  <2>2. a \in Worlds BY <1>3 DEF InHand, Fits
  <2> QED BY <1>4, <1>6, <2>1, <2>2 DEF Worlds
<1>8. PICK v : v = ResentDelayed(w, due) OBVIOUS
<1>9. Fits(v, {}, {}) BY <1>5, <1>7, <1>8, ResentDelayedKeeps
<1> QED BY <1>6, <1>8, <1>9, FitsAfter

\* The step in which a request moves to another data centre.
LEMMA MigrateFits ==
    ASSUME Fits(World, {}, {}), NEW p \in sent, Migrate(p)
    PROVE  Fits(World, {}, {})'
<1>1. p.session.dc \in Dc /\ kind[p.id] = "user" BY DEF Migrate, Refused, Answers
<1>2. PICK a : a = Answered(p, FALSE) OBVIOUS
<1>3. InHand(a, p.id) /\ p.id \in Id BY <1>1, <1>2, AnsweredTakes
<1>4. a.kind = kind /\ a.byDc = byDc BY <1>1, <1>2, AnswersIn
<1>5. a \in Worlds /\ Fits(a, {p.id}, {}) /\ NoPlace(a, p.id) BY <1>3 DEF InHand, Fits
<1>6. PICK d \in Dc \ {p.session.dc} :
        SetWorld(SendPrepared(
           [(IF byDc[p.id].dc < 0 THEN SetMainDcId(a, d) ELSE a)
            EXCEPT !.byDc[p.id] = IF byDc[p.id].dc < 0
                                  THEN [[dc |-> d, shift |-> byDc[p.id].shift] EXCEPT !.dc = -d]
                                  ELSE [dc |-> d, shift |-> byDc[p.id].shift]],
           [dc |-> d, shift |-> byDc[p.id].shift], p.id))
  BY <1>2 DEF Migrate
<1>7. PICK s : s = [dc |-> d, shift |-> byDc[p.id].shift] OBVIOUS
<1>8. PICK b : b = IF byDc[p.id].dc < 0 THEN [s EXCEPT !.dc = -d] ELSE s OBVIOUS
<1>9. PICK u : u = IF byDc[p.id].dc < 0 THEN SetMainDcId(a, d) ELSE a OBVIOUS
<1>10. PICK t : t = Moved(u, p.id, b) OBVIOUS
<1>11. d \in Nat \ {0} BY DcAssumption
<1>12. s \in Session /\ b \in Session /\ b # Nowhere /\ Abs(b) = s
  <2>1. byDc[p.id] \in Session BY <1>3, <1>4, <1>5, WorldTypes
  <2>2. s \in Session /\ s.dc = d BY <1>7, <1>11, <2>1 DEF Session
  <2>3. CASE byDc[p.id].dc < 0
    <3>1. b = [s EXCEPT !.dc = -d] BY <1>8, <2>3
    <3>2. b \in Session /\ b.dc = -d BY <1>11, <2>2, <3>1 DEF Session
    <3>3. [b EXCEPT !.dc = d] = s BY <2>2, <3>1 DEF Session
    <3>4. Abs(b) = [b EXCEPT !.dc = d] BY <1>11, <3>2 DEF Abs, Session
    <3>5. b # Nowhere BY <1>11, <3>2 DEF Nowhere
    <3> QED BY <2>2, <3>2, <3>3, <3>4, <3>5
  <2>4. CASE ~(byDc[p.id].dc < 0)
    <3>1. b = s BY <1>8, <2>4
    <3>2. Abs(s) = s BY <1>11, <2>2, AbsIsSession
    <3>3. b # Nowhere BY <1>11, <2>2, <3>1 DEF Nowhere
    <3> QED BY <2>2, <3>1, <3>2, <3>3
  <2> QED BY <2>3, <2>4
<1>13. InHand(u, p.id) /\ u.kind = kind
  <2>1. CASE u = a BY <1>3, <1>4, <2>1
  <2>2. CASE u = SetMainDcId(a, d)
    <3>1. Fits(u, {p.id}, {}) /\ NoPlace(u, p.id) BY <1>3, <1>5, <2>2, SetMainDcIdKeeps
    <3>2. Same(u, a, {"main", "toSend", "sent", "dropped"}) BY <1>5, <2>2, SetMainDcIdFields
    <3>3. u.byDc = a.byDc /\ u.stored = a.stored /\ u.parsers = a.parsers /\ u.kind = a.kind
      BY <3>2 DEF Same, Fields
    <3> QED BY <1>3, <1>4, <3>1, <3>3 DEF InHand, Reg
  <2> QED BY <1>9, <2>1, <2>2
<1>14. InHand(t, p.id) /\ t.byDc[p.id] = b
  <2>1. u.kind[p.id] = "user" BY <1>1, <1>13
  <2> QED BY <1>3, <1>10, <1>12, <1>13, <2>1, MovedKeeps
<1>15. PICK v : v = SendPrepared(t, s, p.id) OBVIOUS
<1>16. v = SendPrepared(t, Abs(t.byDc[p.id]), p.id) BY <1>12, <1>14, <1>15
<1>17. Fits(v, {}, {}) BY <1>3, <1>14, <1>16, PutBack
<1>18. SetWorld(v) BY <1>6, <1>7, <1>8, <1>9, <1>10, <1>15 DEF Moved
<1> QED BY <1>17, <1>18, FitsAfter

\* The steps in which the request before this one failed, or is not there yet.
LEMMA WaitsForOtherFits ==
    ASSUME Fits(World, {}, {}), NEW p \in sent, WaitFailed(p) \/ WaitTimeout(p)
    PROVE  Fits(World, {}, {})'
<1>1. /\ p.session.dc \in Dc /\ order[p.id] # "none" /\ SetWorld(AfterFailed(Answered(p, FALSE), p.id))
  BY DEF WaitFailed, WaitTimeout
<1>2. PICK a : a = Answered(p, FALSE) OBVIOUS
<1>3. InHand(a, p.id) /\ p.id \in Id /\ a.order[p.id] = "none" BY <1>1, <1>2, AnsweredTakes
<1>4. after[p.id] # Null
  <2>1. World.order = order /\ World.after = after BY DEF World
  <2>2. Made(World) BY DEF Fits
  <2> QED BY <1>1, <1>3, <2>1, <2>2 DEF Made
<1>5. a.after[p.id] # Null BY <1>1, <1>2, <1>4, AnswersIn
<1>6. PICK v : v = AfterFailed(a, p.id) OBVIOUS
<1>7. Fits(v, {}, {}) BY <1>3, <1>5, <1>6, AfterFailedKeeps
<1> QED BY <1>1, <1>2, <1>6, <1>7, FitsAfter

\* The step in which a connection was not inited.
LEMMA NotInitedFits ==
    ASSUME Fits(World, {}, {}), NEW p \in sent, NotInited(p)
    PROVE  Fits(World, {}, {})'
<1>1. p.session.dc \in Dc BY DEF NotInited, Refused, Answers
<1>2. PICK a : a = Answered(p, FALSE) OBVIOUS
<1>3. InHand(a, p.id) /\ p.id \in Id BY <1>1, <1>2, AnsweredTakes
<1>4. a.byDc = byDc BY <1>1, <1>2, AnswersIn
<1>5. PICK v : v = SendPrepared(a, Abs(a.byDc[p.id]), p.id) OBVIOUS
<1>6. Fits(v, {}, {}) BY <1>3, <1>5, PutBack
<1>7. SetWorld(v) BY <1>2, <1>4, <1>5 DEF NotInited
<1> QED BY <1>6, <1>7, FitsAfter

\* The step in which a request is refused for want of an authorization.
LEMMA UnauthorizedFits ==
    ASSUME Fits(World, {}, {}), NEW p \in sent, Unauthorized(p)
    PROVE  Fits(World, {}, {})'
<1>1. p.session.dc \in Dc /\ kind[p.id] = "user" BY DEF Unauthorized, Refused, Answers
<1>2. PICK a : a = Answered(p, FALSE) OBVIOUS
<1>3. InHand(a, p.id) /\ p.id \in Id /\ p.session = Abs(byDc[p.id]) BY <1>1, <1>2, AnsweredTakes
<1>4. a.kind = kind /\ a.byDc = byDc /\ a.waiters = waiters BY <1>1, <1>2, AnswersIn
<1>5. PICK s : s = Abs(byDc[p.id]) OBVIOUS
<1>6. s \in Session /\ s.dc \in Dc
  <2>1. a \in Worlds BY <1>3 DEF InHand, Fits
  <2>2. byDc[p.id] \in Session BY <1>3, <1>4, <2>1, WorldTypes
  <2> QED BY <1>1, <1>3, <1>5, <2>2, AbsIsSession
<1>7. CASE SetWorld(Unregistered(Failed(a, p.id), p.id))
  <2>1. PICK w : w = Failed(a, p.id) OBVIOUS
  <2>2. Ended(w, p.id) BY <1>3, <2>1, FailedEnds
  <2>3. PICK v : v = Unregistered(w, p.id) OBVIOUS
  <2>4. Fits(v, {}, {}) BY <1>3, <2>2, <2>3, EndedIsClosed
  <2> QED BY <1>7, <2>1, <2>3, <2>4, FitsAfter
<1>8. CASE waiters[s.dc] # <<>> /\ SetWorld([a EXCEPT !.waiters[s.dc] = Append(@, p.id)])
  <2>1. PICK v : v = [a EXCEPT !.waiters[s.dc] = Append(@, p.id)] OBVIOUS
  <2>2. Fits(v, {}, {}) BY <1>1, <1>3, <1>4, <1>6, <1>8, <2>1, JoinedKeeps
  <2> QED BY <1>8, <2>1, <2>2, FitsAfter
<1>9. CASE /\ waiters[s.dc] = <<>> /\ Cardinality(Requests("export")) < MaxExports
           /\ SetWorld([Requesting(a, "export", ToMain, Null)
                        EXCEPT !.exports[Len(kind) + 1] = s, !.waiters[s.dc] = <<p.id>>])
  <2>1. PICK n : n = Len(a.kind) + 1 OBVIOUS
  <2>2. PICK v : v = ExportAsked(a, p.id, n, s) OBVIOUS
  <2>3. SetWorld(v) BY <1>4, <1>9, <2>1, <2>2 DEF ExportAsked
  <2>4. KindOf(a, "export") = Requests("export") BY <1>4 DEF KindOf, Requests
  <2>5. Fits(v, {}, {}) BY <1>1, <1>3, <1>4, <1>6, <1>9, <2>1, <2>2, <2>4, ExportAskedKeeps
  <2> QED BY <2>3, <2>5, FitsAfter
<1> QED BY <1>2, <1>5, <1>7, <1>8, <1>9 DEF Unauthorized

\* The step in which the user sends a request.
LEMMA SendRequestFits ==
    ASSUME Fits(World, {}, {}), NEW t \in Targets, NEW a, SendRequest(t, a)
    PROVE  Fits(World, {}, {})'
<1>1. KindOf(World, "user") = Requests("user") BY DEF KindOf, Requests, World
<1>2. PICK v : v = Requesting(World, "user", t, a) OBVIOUS
<1>3. Cardinality(KindOf(World, "user")) < MaxUser BY <1>1 DEF SendRequest
<1>4. Fits(v, {}, {}) BY <1>2, <1>3, SendRequestKeeps
<1>5. SetWorld(v) BY <1>2 DEF SendRequest
<1> QED BY <1>4, <1>5, FitsAfter

\* The step in which delayed requests are sent.
LEMMA CheckDelayedFits ==
    ASSUME Fits(World, {}, {}), CheckDelayedRequests
    PROVE  Fits(World, {}, {})'
<1>1. PICK due \in SUBSET delayed \ {{}} : SetWorld(ResentDelayed(World, due))
  BY DEF CheckDelayedRequests
<1>2. due \in SUBSET World.delayed BY <1>1 DEF World
<1>3. PICK v : v = ResentDelayed(World, due) OBVIOUS
<1>4. Fits(v, {}, {}) BY <1>2, <1>3, ResentDelayedKeeps
<1> QED BY <1>1, <1>3, <1>4, FitsAfter

\* What the server knows of a request says what it does with it.
LEMMA HandledOrderType ==
    ASSUME Fits(World, {}, {}), NEW p, NEW good \in BOOLEAN
    PROVE  /\ HandledOrder(p, good) \in [Id -> {"none", "waits", "failed"}]
           /\ \A x \in Id : HandledOrder(p, good)[x] # "none" => order[x] # "none"
<1>1. World \in Worlds /\ World.order = order BY DEF Fits, World
<1>2. order \in [Id -> {"none", "waits", "failed"}] BY <1>1, WorldTypes
<1> QED BY <1>2 DEF HandledOrder

\* The step in which the user cancels a request.
LEMMA CancelFits ==
    ASSUME Fits(World, {}, {}), NEW x \in Id, Cancel(x)
    PROVE  Fits(World, {}, {})'
<1>1. World \in Worlds BY DEF Fits
<1>2. /\ World.byDc = byDc /\ World.kind = kind /\ World.dropped = dropped
      /\ World.order = order
  BY DEF World
<1>3. kind[x] = "user" BY DEF Cancel, Requests
<1>4. PICK p : p = Place(Abs(byDc[x]), x) OBVIOUS
<1>5. PICK s : s = [World EXCEPT !.stored = @ \ {x}] OBVIOUS
<1>6. Fits(s, {x}, {x}) /\ Same(s, World, {"stored"}) BY <1>2, <1>3, <1>5, NotStoredKeeps
<1>7. PICK u : u = Unregistered(s, x) OBVIOUS
<1>8. /\ Fits(u, {x}, {x}) /\ x \notin Reg(u) /\ x \notin u.stored
      /\ Same(u, s, {"byDc", "stored", "dependent", "toSend"})
      /\ \A q \in Held(u) : q.id = x => q \in Held(s)
  BY <1>6, <1>7, UnregisteredKeeps
<1>9. u.dropped = dropped /\ u.order = order BY <1>2, <1>6, <1>8 DEF Same, Fields
<1>10. Held(s) = Held(World) BY <1>6 DEF Same, Fields, Held
<1>11. p.id = x /\ p.session = Abs(byDc[x]) BY <1>4, PlaceFields
<1>12. \A q \in Held(u) : q.id = x => q = p \/ (x \in u.dropped /\ q.session.dc < 0)
  <2>1. ASSUME NEW q \in Held(u), q.id = x PROVE q = p \/ (x \in u.dropped /\ q.session.dc < 0)
    <3>1. q \in Held(World) BY <1>8, <1>10, <2>1
    <3>2. q \in [session: Session, id: Id] BY <1>1, <3>1, WorldTypes DEF Held
    <3>3. \/ q.id \in World.dropped /\ q.session.dc < 0
          \/ q.session = Abs(World.byDc[q.id])
      BY <3>1 DEF Fits, HeldRight
    <3>4. CASE q.session = Abs(byDc[x])
      <4>1. q = [session |-> q.session, id |-> q.id] BY <3>2
      <4> QED BY <1>4, <2>1, <3>4, <4>1 DEF Place
    <3> QED BY <1>2, <1>9, <2>1, <3>3, <3>4
  <2> QED BY <2>1
<1>13. PICK good \in BOOLEAN :
          SetWorld([u EXCEPT !.toSend = @ \ {p}, !.sent = @ \ {p}, !.parsers = @ \ {x},
                             !.order = HandledOrder(p, good)])
  BY <1>4, <1>5, <1>7 DEF Cancel
<1>14. PICK o : o = HandledOrder(p, good) OBVIOUS
<1>15. o \in [Id -> {"none", "waits", "failed"}] /\ \A y \in Id : o[y] # "none" => u.order[y] # "none"
  BY <1>9, <1>14, HandledOrderType
<1>16. PICK v : v = [u EXCEPT !.toSend = @ \ {p}, !.sent = @ \ {p}, !.parsers = @ \ {x}, !.order = o]
  OBVIOUS
<1>17. Fits(v, {}, {}) BY <1>8, <1>11, <1>12, <1>15, <1>16, CancelledKeeps
<1> QED BY <1>13, <1>14, <1>16, <1>17, FitsAfter

\* The step in which a session sends what it has.
LEMMA SendAllFits ==
    ASSUME Fits(World, {}, {}), NEW s, SendAll(s)
    PROVE  Fits(World, {}, {})'
<1>1. World \in Worlds BY DEF Fits
<1>2. /\ World.toSend = toSend /\ World.sent = sent /\ World.order = order /\ World.after = after
  BY DEF World
<1>3. PICK ready : ready = {p \in toSend : p.session = s} OBVIOUS
<1>4. PICK o : o = [x \in Id |->
             IF Place(s, x) \notin ready THEN order[x]
             ELSE IF after[Place(s, x).id] # Null /\ Place(s, after[Place(s, x).id]) \in sent \cup ready
                  THEN "waits" ELSE "none"]
  OBVIOUS
<1>5. toSend' = toSend \ ready /\ sent' = sent \cup ready /\ order' = o BY <1>3, <1>4 DEF SendAll
<1>6. order \in [Id -> {"none", "waits", "failed"}] BY <1>1, <1>2, WorldTypes
<1>7. o \in [Id -> {"none", "waits", "failed"}] BY <1>4, <1>6
<1>8. \A x \in Id : order[x] # "none" => after[x] # Null BY <1>2 DEF Fits, Made
<1>9. \A x \in Id : o[x] # "none" => World.after[x] # Null
  <2>1. \A x \in Id : Place(s, x).id = x BY PlaceFields
  <2> QED BY <1>2, <1>4, <1>8, <2>1
<1>10. PICK v : v = [World EXCEPT !.toSend = @ \ ready, !.sent = @ \cup ready, !.order = o] OBVIOUS
<1>11. ready \in SUBSET World.toSend BY <1>2, <1>3
<1>12. Fits(v, {}, {}) BY <1>7, <1>9, <1>10, <1>11, SentKeeps
<1>13. World' = v
  <2>1. /\ main' = main /\ byDc' = byDc /\ stored' = stored /\ parsers' = parsers /\ after' = after
        /\ dependent' = dependent /\ delayed' = delayed /\ waiters' = waiters /\ exports' = exports
        /\ kind' = kind /\ dropped' = dropped /\ broken' = broken
    BY DEF SendAll
  <2> QED BY <1>5, <1>10, <2>1 DEF World
<1> QED BY <1>12, <1>13

\* The inductive invariant: the tables of the instance are right.
Inv == Fits(World, {}, {}) /\ faults \in 0 .. MaxFaults

\* The tables are right at the start.
LEMMA InitInv == Init => Inv
<1> SUFFICES ASSUME Init PROVE Inv OBVIOUS
<1>1. PICK w : w = World OBVIOUS
<1>2. /\ w.main = FirstMain /\ w.byDc = [id \in Id |-> Nowhere] /\ w.stored = {} /\ w.parsers = {}
      /\ w.after = [id \in Id |-> Null] /\ w.dependent = [id \in Id |-> Null] /\ w.delayed = {}
      /\ w.waiters = [d \in Dc |-> <<>>] /\ w.exports = [id \in Id |-> Nowhere]
      /\ w.toSend = {} /\ w.sent = {} /\ w.order = [id \in Id |-> "none"] /\ w.kind = <<>>
      /\ w.dropped = {} /\ w.broken = {}
  BY <1>1 DEF Init, World
<1>3. w \in Worlds
  <2>1. Nowhere \in Session BY DEF Nowhere, Session
  <2>2. /\ FirstMain \in Dc /\ [id \in Id |-> Nowhere] \in [Id -> Session]
        /\ [id \in Id |-> Null] \in [Id -> {Null} \cup Id]
        /\ [id \in Id |-> "none"] \in [Id -> {"none", "waits", "failed"}]
    BY <2>1, DcAssumption
  <2>3. [d \in Dc |-> <<>>] \in [Dc -> Seq(Id)] /\ <<>> \in Seq(Kind) OBVIOUS
  <2> QED BY <1>1, <2>2, <2>3 DEF Init, World, Worlds
<1>4. /\ Reg(w) = {} /\ Held(w) = {} /\ \A x \in Id : w.dependent[x] = Null
      /\ \A d \in Dc : w.waiters[d] = <<>>
  BY <1>2 DEF Reg, Held
<1>5. \A x \in Id : ~WaitsIn(w, x) /\ ~HeldId(w, x) BY <1>4 DEF WaitsIn, HeldId
<1>6. Tables(w, {}) /\ HeldRight(w, {}) BY <1>2, <1>4 DEF Tables, HeldRight
<1>7. HeldOnce(w) BY <1>2, <1>4 DEF HeldOnce
<1>8. WaitsOnce(w) BY <1>4 DEF WaitsOnce
<1>9. Apart(w) BY <1>2, <1>4, <1>5 DEF Apart
<1>10. Made(w) BY <1>2, <1>4, <1>5 DEF Made
<1>11. Behind(w) /\ AuthInDc(w, {}) BY <1>4 DEF Behind, AuthInDc
<1>12. AuthAsked(w, {}) /\ Somewhere(w, {}) BY <1>4 DEF AuthAsked, Somewhere
<1>13. Counts(w, {})
  <2>1. \A k : KindOf(w, k) = {} BY <1>2 DEF KindOf
  <2>2. Cardinality({}) = 0 BY FS_EmptySet
  <2>3. (KindOf(w, "export") \cap Reg(w)) \ {} = {} BY <2>1
  <2>4. 0 <= MaxUser /\ 0 <= MaxExports /\ 0 + 0 <= 0 BY BoundsAssumption
  <2> QED BY <2>1, <2>2, <2>3, <2>4 DEF Counts
<1>14. Fits(w, {}, {})
  BY <1>3, <1>6, <1>7, <1>8, <1>9, <1>10, <1>11, <1>12, <1>13 DEF Fits
<1>15. faults \in 0 .. MaxFaults BY BoundsAssumption DEF Init
<1> QED BY <1>1, <1>14, <1>15 DEF Inv

\* Every step leaves them right.
LEMMA StepInv == Inv /\ [Next]_vars => Inv'
<1> SUFFICES ASSUME Inv, [Next]_vars PROVE Inv' OBVIOUS
<1>1. Fits(World, {}, {}) /\ faults \in 0 .. MaxFaults BY DEF Inv
<1>2. CASE UNCHANGED vars
  <2>1. World' = World BY <1>2 DEF vars, tables, World
  <2>2. faults' = faults BY <1>2 DEF vars
  <2> QED BY <1>1, <2>1, <2>2 DEF Inv
<1>3. CASE Next
  <2>1. faults' = faults \/ (faults < MaxFaults /\ faults' = faults + 1)
    BY <1>3 DEF Next, SendRequest, Cancel, CheckDelayedRequests, SendAll, Done, Fails, Later, Migrate,
                WaitFailed, WaitTimeout, Unauthorized, NotInited, Refused, Fault
  <2>2. faults' \in 0 .. MaxFaults BY <1>1, <2>1, BoundsAssumption
  <2>3. Fits(World, {}, {})'
    BY <1>1, <1>3, SendRequestFits, CancelFits, CheckDelayedFits, SendAllFits, DoneFits, FailsFits,
       LaterFits, MigrateFits, WaitsForOtherFits, UnauthorizedFits, NotInitedFits
       DEF Next
  <2> QED BY <2>2, <2>3 DEF Inv
<1> QED BY <1>2, <1>3

\* The tables are right in every state.
THEOREM InvHolds == Spec => []Inv
<1>1. Init => Inv BY InitInv
<1>2. Inv /\ [Next]_vars => Inv' BY StepInv
<1> QED BY <1>1, <1>2, PTL DEF Spec

-----------------------------------------------------------------------------
(* What the tables being right says of the variables.                        *)

\* The world of a state has the variables for its fields.
LEMMA InvWorld ==
    ASSUME Inv
    PROVE  /\ World \in Worlds /\ Tables(World, {}) /\ HeldRight(World, {}) /\ HeldOnce(World)
           /\ WaitsOnce(World) /\ Apart(World) /\ Made(World) /\ Behind(World)
           /\ AuthAsked(World, {}) /\ Somewhere(World, {}) /\ Counts(World, {})
           /\ faults \in 0 .. MaxFaults
           /\ World.main = main /\ World.byDc = byDc /\ World.stored = stored
           /\ World.parsers = parsers /\ World.after = after /\ World.dependent = dependent
           /\ World.delayed = delayed /\ World.waiters = waiters /\ World.exports = exports
           /\ World.toSend = toSend /\ World.sent = sent /\ World.order = order
           /\ World.kind = kind /\ World.dropped = dropped /\ World.broken = broken
<1>1. /\ World.main = main /\ World.byDc = byDc /\ World.stored = stored
      /\ World.parsers = parsers /\ World.after = after /\ World.dependent = dependent
      /\ World.delayed = delayed /\ World.waiters = waiters /\ World.exports = exports
      /\ World.toSend = toSend /\ World.sent = sent /\ World.order = order
      /\ World.kind = kind /\ World.dropped = dropped /\ World.broken = broken
  BY DEF World
<1> QED BY <1>1 DEF Inv, Fits

\* The type invariant.
LEMMA InvTypeOK == Inv => TypeOK
<1> SUFFICES ASSUME Inv PROVE TypeOK OBVIOUS
<1>1. World \in Worlds /\ Behind(World) /\ Counts(World, {}) /\ faults \in 0 .. MaxFaults BY InvWorld
<1>2. /\ main \in Dc /\ byDc \in [Id -> Session] /\ exports \in [Id -> Session]
      /\ stored \subseteq Id /\ parsers \subseteq Id /\ delayed \subseteq Id
      /\ after \in [Id -> {Null} \cup Id] /\ dependent \in [Id -> {Null} \cup Id]
      /\ waiters \in [Dc -> Seq(Id)] /\ kind \in Seq(Kind)
      /\ toSend \subseteq [session: Session, id: Id] /\ sent \subseteq [session: Session, id: Id]
      /\ order \in [Id -> {"none", "waits", "failed"}] /\ dropped \subseteq Id /\ broken \subseteq Dc
  <2>1. PICK w \in Worlds : w = World BY <1>1
  <2>2. /\ w.main \in Dc /\ w.byDc \in [Id -> Session] /\ w.exports \in [Id -> Session]
        /\ w.stored \subseteq Id /\ w.parsers \subseteq Id /\ w.delayed \subseteq Id
        /\ w.after \in [Id -> {Null} \cup Id] /\ w.dependent \in [Id -> {Null} \cup Id]
        /\ w.waiters \in [Dc -> Seq(Id)] /\ w.kind \in Seq(Kind)
        /\ w.toSend \subseteq [session: Session, id: Id] /\ w.sent \subseteq [session: Session, id: Id]
        /\ w.order \in [Id -> {"none", "waits", "failed"}]
        /\ w.dropped \subseteq Id /\ w.broken \subseteq Dc
    BY WorldTypes
  <2> QED BY <2>1, <2>2, InvWorld
<1>3. \A id \in Id : dependent[id] \in {Null, after[id]} BY <1>1, InvWorld DEF Behind
<1>4. Len(kind) <= MaxId
  <2>1. PICK u, e, i \in Nat :
           /\ u = Cardinality(KindOf(World, "user")) /\ e = Cardinality(KindOf(World, "export"))
           /\ i = Cardinality(KindOf(World, "import"))
    BY <1>1, KindsCounted
  <2>2. PICK o \in Nat : o = Cardinality((KindOf(World, "export") \cap Reg(World)) \ {})
    <3>1. (KindOf(World, "export") \cap Reg(World)) \ {} \in SUBSET KindOf(World, "export") OBVIOUS
    <3>2. IsFiniteSet((KindOf(World, "export") \cap Reg(World)) \ {})
      BY <1>1, <3>1, KindsCounted, FS_Subset
    <3> QED BY <3>2, FS_CardinalityType
  <2>3. u <= MaxUser /\ e <= MaxExports /\ i + o <= e BY <1>1, <2>1, <2>2 DEF Counts
  <2>4. Len(World.kind) = u + e + i BY <1>1, <2>1, KindsCounted
  <2>5. u + e + i <= MaxUser + 2 * MaxExports BY <2>3, BoundsAssumption
  <2> QED BY <2>4, <2>5, InvWorld DEF MaxId
<1>5. kind \in Seq({"user", "export", "import"}) BY <1>2 DEF Kind
<1> QED BY <1>1, <1>2, <1>3, <1>4, <1>5 DEF TypeOK

\* A set of which any two members are one.
LEMMA AtMostOne ==
    ASSUME NEW S, \A a, b \in S : a = b
    PROVE  Cardinality(S) = IF S = {} THEN 0 ELSE 1
<1>1. CASE S = {} BY <1>1, FS_EmptySet
<1>2. CASE S # {}
  <2>1. PICK a \in S : TRUE BY <1>2
  <2>2. S = {a} BY <2>1
  <2> QED BY <1>2, <2>2, FS_Singleton
<1> QED BY <1>1, <1>2

\* The places of a request are counted: one kind, and one in it.
LEMMA InvOnePlace == Inv => OnePlace
<1> SUFFICES ASSUME Inv PROVE OnePlace OBVIOUS
<1>1. Registered = Reg(World) BY InvWorld DEF Registered, Reg
<1>2. parsers = Registered /\ stored = Registered BY <1>1, InvWorld DEF Tables
<1>3. Held(World) = toSend \cup sent BY InvWorld DEF Held
<1>4. \A p \in toSend \cup sent :
         p.id \in dropped \/ (p.id \in Registered /\ p.session = Abs(byDc[p.id]))
  BY <1>1, <1>3, InvWorld DEF HeldRight
<1>5. ASSUME NEW id \in Id PROVE Places(id) <= 1
  <2> DEFINE at == {e \in Dc \X (1 .. MaxId) :
                        e[2] <= Len(waiters[e[1]]) /\ waiters[e[1]][e[2]] = id}
             late == {id} \cap delayed
             behind == IF dependent[id] = Null THEN 0 ELSE 1
  <2>1. Cardinality(HeldAt(id)) = IF HeldAt(id) = {} THEN 0 ELSE 1
    <3>1. \A p, q \in HeldAt(id) : p = q BY <1>3, InvWorld DEF HeldOnce, HeldAt
    <3> QED BY <3>1, AtMostOne
  <2>2. Cardinality(late) = IF late = {} THEN 0 ELSE 1
    <3>1. \A p, q \in late : p = q OBVIOUS
    <3> QED BY <3>1, AtMostOne
  <2>3. \A e \in at : e[1] \in Dc /\ e[2] \in DOMAIN World.waiters[e[1]]
                      /\ World.waiters[e[1]][e[2]] = id /\ e = <<e[1], e[2]>>
    <3>1. \A e \in at : e[1] \in Dc /\ e[2] \in 1 .. MaxId /\ e = <<e[1], e[2]>> OBVIOUS
    <3>2. \A d \in Dc : waiters[d] \in Seq(Id) BY InvTypeOK DEF TypeOK
    <3>3. \A e \in at : e[2] \in 1 .. Len(waiters[e[1]])
      <4>1. MaxId \in Nat BY BoundsAssumption DEF MaxId
      <4> QED BY <3>1, <3>2, <4>1
    <3> QED BY <3>1, <3>2, <3>3, InvWorld
  <2>4. Cardinality(at) = IF at = {} THEN 0 ELSE 1
    <3>1. ASSUME NEW e \in at, NEW f \in at PROVE e = f
      <4>5. PICK d, c \in Dc : d = e[1] /\ c = f[1] BY <2>3, <3>1
      <4>1. PICK k \in DOMAIN World.waiters[d], l \in DOMAIN World.waiters[c] : k = e[2] /\ l = f[2]
        BY <2>3, <3>1, <4>5
      <4>3. World.waiters[d][k] = World.waiters[c][l] BY <2>3, <3>1, <4>1, <4>5
      <4>4. WaitsOnce(World) BY InvWorld
      <4>2. d = c /\ k = l BY <4>3, <4>4 DEF WaitsOnce
      <4> QED BY <2>3, <3>1, <4>1, <4>2, <4>5
    <3> QED BY <3>1, AtMostOne
  <2>5. at # {} => WaitsIn(World, id) BY <2>3 DEF WaitsIn
  <2>6. HeldAt(id) # {} => HeldId(World, id) BY <1>3 DEF HeldAt, HeldId
  <2>7. /\ HeldAt(id) # {} => late = {} /\ behind = 0 /\ at = {}
        /\ late # {} => behind = 0 /\ at = {}
        /\ behind # 0 => at = {}
    BY <2>5, <2>6, InvWorld DEF Apart
  <2>8. Places(id) = Cardinality(HeldAt(id)) + Cardinality(late) + behind + Cardinality(at)
    BY DEF Places
  <2>9. behind \in {0, 1} OBVIOUS
  <2> HIDE DEF at, late, behind
  <2> QED BY <2>1, <2>2, <2>4, <2>7, <2>8, <2>9
<1> QED BY <1>1, <1>2, <1>4, <1>5 DEF OnePlace, Registered

\* Something will be done about each request that was not dropped.
LEMMA InvNobodyForgotten == Inv => NobodyForgotten
<1> SUFFICES ASSUME Inv, NEW id \in Registered
             PROVE  \/ Stuck(id)
                    \/ HeldAt(id) # {} \/ id \in delayed
                    \/ dependent[id] \in Registered
                    \/ \E d \in Dc : id \in Waiting(d) /\ AuthRequests(d) # {}
  BY DEF NobodyForgotten
<1>1. Registered = Reg(World) BY InvWorld DEF Registered, Reg
<1>2. \/ id \in dropped \/ HeldId(World, id) \/ id \in delayed \/ dependent[id] # Null
      \/ WaitsIn(World, id)
  BY <1>1, InvWorld DEF Somewhere
<1>3. CASE id \in dropped BY <1>3 DEF Stuck
<1>4. CASE HeldId(World, id) BY <1>4, InvWorld DEF HeldId, Held, HeldAt
<1>5. CASE dependent[id] # Null BY <1>1, <1>5, InvWorld DEF Behind, Registered
<1>6. CASE WaitsIn(World, id)
  <2>1. PICK d \in Dc : \E k \in DOMAIN waiters[d] : waiters[d][k] = id
    BY <1>6, InvWorld DEF WaitsIn
  <2>2. id \in Waiting(d) /\ waiters[d] # <<>> BY <2>1 DEF Waiting
  <2>3. AuthOf(World, d) = AuthRequests(d) BY <1>1, InvWorld DEF AuthOf, AuthRequests
  <2>4. d \in broken \/ AuthRequests(d) # {} BY <2>2, <2>3, InvWorld DEF AuthAsked
  <2> QED BY <2>2, <2>4 DEF Stuck
<1> QED BY <1>2, <1>3, <1>4, <1>5, <1>6

(* Every variable of the tables of the instance keeps its type, and no more
   requests are ever made than there are ids for: a request that is made has
   room (sendRequest, exportDone, the export in onErrorDefault). *)
THEOREM TypeCorrect == Spec => []TypeOK
<1>1. Spec => []Inv BY InvHolds
<1>2. Inv => TypeOK BY InvTypeOK
<1> QED BY <1>1, <1>2, PTL

(* Whatever the servers answer and the user cancels, for any data centres,
   targets and bounds: a request that is registered has its handler and can be
   sent again, it is in one place at most, in a session only if it was lost or
   cancel would find it there, and it is in a place where something will be done
   about it unless the code dropped it. *)
THEOREM RequestsHaveTheirPlace == Spec => []EveryRequestHasItsPlace
<1>1. Spec => []Inv BY InvHolds
<1>2. Inv => EveryRequestHasItsPlace
  BY InvOnePlace, InvNobodyForgotten DEF EveryRequestHasItsPlace
<1> QED BY <1>1, <1>2, PTL
==============================================================================
