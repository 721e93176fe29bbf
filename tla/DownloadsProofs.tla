--------------------------- MODULE DownloadsProofs ---------------------------
(***************************************************************************)
(* What the sessions and the files count is what is asked for, and the     *)
(* assertions of the code hold.                                            *)
(*                                                                         *)
(* The first invariant is Inv, for every fault: the balance of the         *)
(* sessions agrees with the requests sent, but for the session that is     *)
(* being removed, which has Big more (Agrees); the queue has each file     *)
(* that loads once (GoodQueue, QueuedAre); and the calls that are left are *)
(* those of one event in the order of the code (GoodCalls).  The second is *)
(* PartsInPlace: each part a file has taken is in one place only, in the   *)
(* file, asked for, about to be asked for again, or kept for its hash      *)
(* (Accounted), and the hash of a part that is kept is asked for or about  *)
(* to be (HashesComing).  It is inductive under TokensFresh.               *)
(*                                                                         *)
(* Once an assertion has failed the model stops, so both are stated of the *)
(* states before that.  AssertsHold follows from them when the requests    *)
(* sent are fewer than Big: only then is the session being removed never   *)
(* the one with the fewest.                                                *)
(***************************************************************************)
EXTENDS Downloads, FiniteSetTheorems, SequenceTheorems, NaturalsInduction,
        WellFoundedInduction, TLAPS

-----------------------------------------------------------------------------
(* Least elements and the operators on sequences.                            *)

Smaller == {ss \in Nat \X Nat : ss[1] < ss[2]}

LEMMA SmallerWellFounded == IsWellFoundedOn(Smaller, Nat)
  BY NatLessThanWellFounded DEF OpToRel, Smaller

\* A set of numbers has a least one.
LEMMA NothingSmaller ==
    ASSUME NEW S, S \subseteq Nat, S # {}
    PROVE  \E x \in S : \A y \in S : ~ (<<y, x>> \in Smaller)
  BY SmallerWellFounded, WFMin, Zenon

LEMMA Least ==
    ASSUME NEW S, S \subseteq Nat, S # {}
    PROVE  \E x \in S : \A y \in S : x <= y
<1>1. PICK x \in S : \A y \in S : ~ (<<y, x>> \in Smaller) BY NothingSmaller
<1>2. \A y \in S : x <= y
  <2> SUFFICES ASSUME NEW y \in S PROVE x <= y OBVIOUS
  <2>1. x \in Nat /\ y \in Nat /\ ~ (<<y, x>> \in Smaller) BY <1>1
  <2>2. y < x => <<y, x>> \in Smaller BY <2>1 DEF Smaller
  <2> QED BY <2>1, <2>2
<1> QED BY <1>2

LEMMA MinIsLeast ==
    ASSUME NEW S, S \subseteq Nat, S # {}
    PROVE  Min(S) \in S /\ \A y \in S : Min(S) <= y
  BY Least DEF Min

\* The first of the smallest numbers of a sequence.
LEMMA SmallestIsLeast ==
    ASSUME NEW n \in Nat \ {0}, NEW a, DOMAIN a = 1 .. n, \A i \in 1 .. n : a[i] \in Nat
    PROVE  Smallest(a) \in 1 .. n /\ \A j \in 1 .. n : a[Smallest(a)] <= a[j]
<1>1. PICK m : m \in {a[i] : i \in 1 .. n} /\ \A y \in {a[i] : i \in 1 .. n} : m <= y
  <2>1. {a[i] : i \in 1 .. n} \subseteq Nat OBVIOUS
  <2>2. a[1] \in {a[i] : i \in 1 .. n} OBVIOUS
  <2> QED BY <2>1, <2>2, Least
<1>2. PICK k : k \in {i \in 1 .. n : a[i] = m} /\ \A y \in {i \in 1 .. n : a[i] = m} : k <= y
  <2>1. {i \in 1 .. n : a[i] = m} \subseteq Nat OBVIOUS
  <2>2. {i \in 1 .. n : a[i] = m} # {} BY <1>1
  <2> QED BY <2>1, <2>2, Least
<1>3. \A j \in 1 .. n : a[k] < a[j] \/ (a[k] = a[j] /\ k <= j)
  <2> SUFFICES ASSUME NEW j \in 1 .. n PROVE a[k] < a[j] \/ (a[k] = a[j] /\ k <= j) OBVIOUS
  <2>1. a[k] = m /\ k \in 1 .. n BY <1>2
  <2>2. m <= a[j] /\ m \in Nat BY <1>1
  <2>3. a[j] = m => k <= j BY <1>2
  <2>4. a[j] \in Nat OBVIOUS
  <2> QED BY <2>1, <2>2, <2>3, <2>4
<1>4. k \in DOMAIN a BY <1>2
<1>5. \E i \in DOMAIN a : \A j \in DOMAIN a : a[i] < a[j] \/ (a[i] = a[j] /\ i <= j)
  BY <1>3, <1>4
<1>6. /\ Smallest(a) \in DOMAIN a
      /\ \A j \in DOMAIN a : a[Smallest(a)] < a[j] \/ (a[Smallest(a)] = a[j] /\ Smallest(a) <= j)
  BY <1>5 DEF Smallest
<1> QED BY <1>6

IsRemovedAt(p, E, q, k) ==
    /\ p \in Seq(E) /\ Len(p) = Len(q) - 1
    /\ \A i \in 1 .. Len(p) : p[i] = q[IF i < k THEN i ELSE i + 1]

LEMMA RemovedAt ==
    ASSUME NEW E, NEW q \in Seq(E), NEW k \in 1 .. Len(q), NEW p, p = RemoveAt(q, k)
    PROVE  IsRemovedAt(p, E, q, k)
<1> DEFINE a == SubSeq(q, 1, k - 1)
           c == SubSeq(q, k + 1, Len(q))
<1>0. Len(q) \in Nat /\ \A i \in 1 .. Len(q) : q[i] \in E BY ElementOfSeq
<1>1. a \in Seq(E) /\ Len(a) = k - 1 /\ \A i \in 1 .. k - 1 : a[i] = q[i]
  <2>1. \A i \in 1 .. k - 1 : q[i] \in E BY <1>0
  <2> QED BY <1>0, <2>1, SubSeqProperties
<1>2. c \in Seq(E) /\ Len(c) = Len(q) - k /\ \A i \in 1 .. Len(q) - k : c[i] = q[k + i]
  <2>1. \A i \in k + 1 .. Len(q) : q[i] \in E BY <1>0
  <2>2. k + 1 \in Int /\ Len(q) \in Int BY <1>0
  <2>3. /\ c \in Seq(E)
        /\ Len(c) = IF k + 1 <= Len(q) THEN Len(q) - (k + 1) + 1 ELSE 0
        /\ \A i \in 1 .. Len(q) - (k + 1) + 1 : c[i] = q[k + 1 + i - 1]
    BY <2>1, <2>2, SubSeqProperties
  <2> HIDE DEF c
  <2>4. Len(c) = Len(q) - k BY <2>3, <1>0
  <2>5. \A i \in 1 .. Len(q) - k : c[i] = q[k + i]
    <3> SUFFICES ASSUME NEW i \in 1 .. Len(q) - k PROVE c[i] = q[k + i] OBVIOUS
    <3>1. i \in 1 .. Len(q) - (k + 1) + 1 /\ k + 1 + i - 1 = k + i BY <1>0
    <3> QED BY <2>3, <3>1
  <2> QED BY <2>3, <2>4, <2>5
<1>3. p = a \o c BY DEF RemoveAt
<1> HIDE DEF a, c
<1>4. p \in Seq(E) /\ Len(p) = Len(a) + Len(c)
      /\ \A i \in 1 .. Len(a) + Len(c) : p[i] = IF i <= Len(a) THEN a[i] ELSE c[i - Len(a)]
  <2>1. a \in Seq(E) /\ c \in Seq(E) BY <1>1, <1>2
  <2> QED BY <2>1, <1>3, ConcatProperties
<1>5. Len(p) = Len(q) - 1 BY <1>0, <1>1, <1>2, <1>4
<1>6. \A i \in 1 .. Len(p) : p[i] = q[IF i < k THEN i ELSE i + 1]
  <2> SUFFICES ASSUME NEW i \in 1 .. Len(p) PROVE p[i] = q[IF i < k THEN i ELSE i + 1] OBVIOUS
  <2>1. p[i] = IF i <= Len(a) THEN a[i] ELSE c[i - Len(a)] BY <1>4
  <2>2. CASE i < k BY <2>1, <2>2, <1>0, <1>1, <1>5
  <2>3. CASE i >= k
    <3>1. p[i] = c[i - (k - 1)] BY <2>1, <2>3, <1>1
    <3>2. i - (k - 1) \in 1 .. Len(q) - k /\ k + (i - (k - 1)) = i + 1 BY <2>3, <1>0, <1>5
    <3>3. c[i - (k - 1)] = q[k + (i - (k - 1))] BY <1>2, <3>2
    <3> QED BY <3>1, <3>2, <3>3, <2>3
  <2> QED BY <2>2, <2>3, <1>0
<1> QED BY <1>4, <1>5, <1>6 DEF IsRemovedAt

IsInsertedAt(p, E, q, k, e) ==
    /\ p \in Seq(E) /\ Len(p) = Len(q) + 1
    /\ \A i \in 1 .. Len(p) : p[i] = IF i < k THEN q[i] ELSE IF i = k THEN e ELSE q[i - 1]

LEMMA InsertedAt ==
    ASSUME NEW E, NEW q \in Seq(E), NEW k \in 1 .. Len(q) + 1, NEW e \in E,
           NEW p, p = InsertAt(q, k, e)
    PROVE  IsInsertedAt(p, E, q, k, e)
<1> DEFINE a == SubSeq(q, 1, k - 1)
           c == SubSeq(q, k, Len(q))
           m == a \o <<e>>
<1>0. Len(q) \in Nat /\ \A i \in 1 .. Len(q) : q[i] \in E BY ElementOfSeq
<1>1. a \in Seq(E) /\ Len(a) = k - 1 /\ \A i \in 1 .. k - 1 : a[i] = q[i]
  <2>1. \A i \in 1 .. k - 1 : q[i] \in E BY <1>0
  <2> QED BY <1>0, <2>1, SubSeqProperties
<1>2. c \in Seq(E) /\ Len(c) = Len(q) - k + 1 /\ \A i \in 1 .. Len(q) - k + 1 : c[i] = q[k + i - 1]
  <2>1. \A i \in k .. Len(q) : q[i] \in E BY <1>0
  <2>2. k \in Int /\ Len(q) \in Int BY <1>0
  <2>3. /\ c \in Seq(E)
        /\ Len(c) = IF k <= Len(q) THEN Len(q) - k + 1 ELSE 0
        /\ \A i \in 1 .. Len(q) - k + 1 : c[i] = q[k + i - 1]
    BY <2>1, <2>2, SubSeqProperties
  <2> HIDE DEF c
  <2>4. Len(c) = Len(q) - k + 1 BY <2>3, <1>0
  <2> QED BY <2>3, <2>4
<1>3. p = m \o c BY DEF InsertAt
<1> HIDE DEF a, c
<1>4. m \in Seq(E) /\ Len(m) = k
      /\ \A i \in 1 .. k : m[i] = IF i < k THEN a[i] ELSE e
  <2>1. <<e>> \in Seq(E) /\ Len(<<e>>) = 1 /\ <<e>>[1] = e OBVIOUS
  <2> DEFINE one == <<e>>
  <2>2. one \in Seq(E) /\ Len(one) = 1 /\ one[1] = e BY <2>1
  <2>3. m = a \o one OBVIOUS
  <2> HIDE DEF one, m
  <2>4. m \in Seq(E) /\ Len(m) = Len(a) + Len(one)
        /\ \A i \in 1 .. Len(a) + Len(one) : m[i] = IF i <= Len(a) THEN a[i] ELSE one[i - Len(a)]
    BY <2>2, <2>3, <1>1, ConcatProperties
  <2>5. Len(a) + Len(one) = k BY <1>1, <2>2
  <2>6. ASSUME NEW i \in 1 .. k PROVE m[i] = IF i < k THEN a[i] ELSE e
    <3>1. m[i] = IF i <= k - 1 THEN a[i] ELSE one[i - (k - 1)] BY <2>4, <2>5, <1>1
    <3>2. CASE i < k BY <3>1, <3>2
    <3>3. CASE i = k BY <3>1, <3>3, <2>2
    <3> QED BY <3>2, <3>3
  <2> QED BY <2>4, <2>5, <2>6
<1> HIDE DEF m
<1>5. p \in Seq(E) /\ Len(p) = Len(m) + Len(c)
      /\ \A i \in 1 .. Len(m) + Len(c) : p[i] = IF i <= Len(m) THEN m[i] ELSE c[i - Len(m)]
  <2>1. m \in Seq(E) /\ c \in Seq(E) BY <1>4, <1>2
  <2> QED BY <2>1, <1>3, ConcatProperties
<1>6. Len(p) = Len(q) + 1 BY <1>0, <1>4, <1>2, <1>5
<1>7. \A i \in 1 .. Len(p) : p[i] = IF i < k THEN q[i] ELSE IF i = k THEN e ELSE q[i - 1]
  <2> SUFFICES ASSUME NEW i \in 1 .. Len(p)
               PROVE p[i] = IF i < k THEN q[i] ELSE IF i = k THEN e ELSE q[i - 1] OBVIOUS
  <2>1. p[i] = IF i <= k THEN m[i] ELSE c[i - k] BY <1>5, <1>4
  <2>2. CASE i <= k BY <2>1, <2>2, <1>0, <1>1, <1>4, <1>6
  <2>3. CASE i > k
    <3>1. i - k \in 1 .. Len(q) - k + 1 /\ k + (i - k) - 1 = i - 1 BY <2>3, <1>0, <1>6
    <3>2. c[i - k] = q[k + (i - k) - 1] BY <1>2, <3>1
    <3> QED BY <2>1, <3>1, <3>2, <2>3
  <2> QED BY <2>2, <2>3, <1>0
<1> QED BY <1>5, <1>6, <1>7 DEF IsInsertedAt

-----------------------------------------------------------------------------
(* The amounts of a load: the sessions of its balance agree with its sent    *)
(* requests, where the session x that is being removed has Big more.         *)

SessionData == [requested: Nat, successes: 0 .. AddSuccesses * MaxRemoves,
                maxWaited: StartWaited .. MaxWaited]
Balance == [sessions: Seq(SessionData), total: Nat, timeouts: 0 .. RemoveTimeouts - 1,
            removeTimes: 0 .. MaxRemoves, removeIndex: 0 .. MaxSessions,
            removed: BOOLEAN, kill: BOOLEAN]

GoodBalance(b) == b \in Balance /\ Len(b.sessions) \in 1 .. MaxSessions
GoodSent(S) == S \subseteq Request /\ IsFiniteSet(S)

In(S, i) == {r \in S : r.session = i}
Owing(x, i) == IF i = x THEN Big ELSE 0
OnePerOffset(S) == \A q, r \in S : q.task = r.task /\ q.offset = r.offset => q = r

Counted(ss, S, x) ==
    \A i \in 1 .. Len(ss) : ss[i].requested = Cardinality(In(S, i)) + Owing(x, i)

Agrees(b, S, x) ==
    /\ GoodBalance(b) /\ GoodSent(S)
    /\ Counted(b.sessions, S, x)
    /\ b.total = Cardinality(S)
    /\ \A r \in S : r.session \in 1 .. Len(b.sessions)
    /\ b.kill => S = {}
    /\ OnePerOffset(S)

LEMMA BigIsPositive == Big \in Nat /\ Big > 0
<1>1. MaxWaited \in Nat /\ MaxWaited > 0 /\ MaxSessions \in Nat /\ MaxSessions > 0
  BY SizesAssumption
<1>2. \A a, b \in Nat : a > 0 /\ b > 0 => a * b \in Nat /\ a * b > 0 OBVIOUS
<1> QED BY <1>1, <1>2 DEF Big

LEMMA CappedSuccesses == AddSuccesses * MaxRemoves \in Nat
<1>1. AddSuccesses \in Nat /\ MaxRemoves \in Nat BY SizesAssumption
<1> QED BY <1>1

LEMMA SessionsOf ==
    ASSUME NEW b, GoodBalance(b)
    PROVE  /\ b.sessions \in Seq(SessionData) /\ Len(b.sessions) \in Nat /\ Len(b.sessions) > 0
           /\ DOMAIN b.sessions = 1 .. Len(b.sessions) /\ 1 .. Len(b.sessions) \subseteq Index
           /\ \A i \in 1 .. Len(b.sessions) : b.sessions[i] \in SessionData /\ b.sessions[i].requested \in Nat
<1>1. b.sessions \in Seq(SessionData) /\ Len(b.sessions) \in 1 .. MaxSessions
  BY DEF GoodBalance, Balance
<1>2. DOMAIN b.sessions = 1 .. Len(b.sessions) BY <1>1
<1>3. \A i \in 1 .. Len(b.sessions) : b.sessions[i] \in SessionData BY <1>1
<1>4. \A i \in 1 .. Len(b.sessions) : b.sessions[i].requested \in Nat
  <2> SUFFICES ASSUME NEW i \in 1 .. Len(b.sessions) PROVE b.sessions[i].requested \in Nat OBVIOUS
  <2>1. b.sessions[i] \in SessionData BY <1>3
  <2> QED BY <2>1 DEF SessionData
<1>5. Len(b.sessions) \in Nat /\ Len(b.sessions) > 0 /\ 1 .. Len(b.sessions) \subseteq Index
  BY <1>1, SizesAssumption DEF Index
<1> QED BY <1>1, <1>2, <1>3, <1>4, <1>5

LEMMA InIsFinite ==
    ASSUME NEW S, IsFiniteSet(S), NEW i
    PROVE  IsFiniteSet(In(S, i)) /\ Cardinality(In(S, i)) \in Nat /\ Cardinality(S) \in Nat
<1>1. In(S, i) \in SUBSET S BY DEF In
<1> QED BY <1>1, FS_Subset, FS_CardinalityType

IsChanged(b, i, delta, c) ==
    /\ GoodBalance(c) /\ Len(c.sessions) = Len(b.sessions)
    /\ \A j \in 1 .. Len(b.sessions) :
          c.sessions[j].requested =
             IF j = i THEN b.sessions[j].requested + delta ELSE b.sessions[j].requested
    /\ c.total = b.total + delta
    /\ c.kill = IF delta > 0 THEN FALSE
                ELSE b.kill \/ \A j \in 1 .. Len(b.sessions) : c.sessions[j].requested <= 0

LEMMA ChangedBalance ==
    ASSUME NEW b, GoodBalance(b), NEW i \in 1 .. Len(b.sessions), NEW delta \in Int,
           b.sessions[i].requested + delta >= 0, b.total + delta >= 0,
           NEW c, c = Changed(b, i, delta)
    PROVE  IsChanged(b, i, delta, c)
<1> DEFINE n == b.sessions[i].requested + delta
           s == [b.sessions[i] EXCEPT !.requested = n]
           ss == [b.sessions EXCEPT ![i].requested = @ + delta]
           k == IF delta > 0 THEN FALSE ELSE b.kill \/ \A j \in DOMAIN ss : ss[j].requested <= 0
<1>0. /\ b.sessions \in Seq(SessionData) /\ b.sessions[i] \in SessionData
      /\ b.sessions[i].requested \in Nat /\ b.total \in Nat /\ b.kill \in BOOLEAN
      /\ Len(b.sessions) \in 1 .. MaxSessions /\ b \in Balance
  BY SessionsOf DEF GoodBalance, Balance
<1>1. n \in Nat BY <1>0
<1>2. s \in SessionData /\ s.requested = n
  <2> HIDE DEF n
  <2> QED BY <1>0, <1>1 DEF SessionData
<1>3. ss = [b.sessions EXCEPT ![i] = s] BY <1>0
<1>4. ss \in Seq(SessionData) /\ Len(ss) = Len(b.sessions) /\ DOMAIN ss = 1 .. Len(b.sessions)
      /\ \A j \in 1 .. Len(b.sessions) : ss[j] = IF j = i THEN s ELSE b.sessions[j]
  <2> HIDE DEF s, ss
  <2>1. ss \in Seq(SessionData) /\ Len(ss) = Len(b.sessions)
        /\ \A j \in 1 .. Len(b.sessions) : ss[j] = IF j = i THEN s ELSE b.sessions[j]
    BY <1>0, <1>2, <1>3, ExceptSeq
  <2> QED BY <2>1
<1>5. \A j \in 1 .. Len(b.sessions) :
         ss[j].requested = IF j = i THEN n ELSE b.sessions[j].requested
  <2> HIDE DEF s, ss, n
  <2> QED BY <1>2, <1>4
<1>6. c = [b EXCEPT !.sessions = ss, !.total = @ + delta, !.kill = k]
  BY <1>0 DEF Changed
<1>7. k \in BOOLEAN OBVIOUS
<1>8. c \in Balance /\ c.sessions = ss /\ c.total = b.total + delta /\ c.kill = k
  <2> HIDE DEF ss, k
  <2>1. b.total + delta \in Nat BY <1>0
  <2> QED BY <1>0, <1>4, <1>6, <1>7, <2>1 DEF Balance
<1>9. k = IF delta > 0 THEN FALSE
          ELSE b.kill \/ \A j \in 1 .. Len(b.sessions) : ss[j].requested <= 0
  <2> HIDE DEF ss
  <2> QED BY <1>4
<1> HIDE DEF ss, k
<1> QED BY <1>0, <1>4, <1>5, <1>8, <1>9 DEF GoodBalance, IsChanged

LEMMA InWithout ==
    ASSUME NEW S, IsFiniteSet(S), NEW R, R \in SUBSET S, NEW D, D = S \ R, NEW n
    PROVE  /\ Cardinality(In(D, n)) = Cardinality(In(S, n)) - Cardinality(In(R, n))
           /\ Cardinality(D) = Cardinality(S) - Cardinality(R)
<1>1. \A A, C : IsFiniteSet(A) /\ C \subseteq A => Cardinality(A \ C) = Cardinality(A) - Cardinality(C)
  <2> SUFFICES ASSUME NEW A, NEW C, IsFiniteSet(A), C \subseteq A
               PROVE Cardinality(A \ C) = Cardinality(A) - Cardinality(C) OBVIOUS
  <2>1. IsFiniteSet(C) /\ IsFiniteSet(A \ C) BY FS_Subset
  <2>2. (A \ C) \cup C = A /\ (A \ C) \cap C = {} OBVIOUS
  <2>3. Cardinality(A) = Cardinality(A \ C) + Cardinality(C) - Cardinality({})
    BY <2>1, <2>2, FS_Union
  <2>4. Cardinality({}) = 0 BY FS_EmptySet
  <2>5. Cardinality(A) \in Nat /\ Cardinality(C) \in Nat /\ Cardinality(A \ C) \in Nat
    BY <2>1, FS_CardinalityType
  <2> QED BY <2>3, <2>4, <2>5
<1>2. In(D, n) = In(S, n) \ In(R, n) BY DEF In
<1>3. IsFiniteSet(In(S, n)) BY InIsFinite
<1>4. In(R, n) \subseteq In(S, n) BY DEF In
<1>5. Cardinality(In(S, n) \ In(R, n)) = Cardinality(In(S, n)) - Cardinality(In(R, n))
  BY <1>1, <1>3, <1>4
<1>6. Cardinality(D) = Cardinality(S) - Cardinality(R) BY <1>1
<1> QED BY <1>2, <1>5, <1>6

LEMMA InEachWithout ==
    ASSUME NEW S, IsFiniteSet(S), NEW R, R \in SUBSET S, NEW D, D = S \ R
    PROVE  \A n : Cardinality(In(D, n)) = Cardinality(In(S, n)) - Cardinality(In(R, n))
  BY InWithout

\* A session with a request has an amount, and so has the total.
LEMMA HasAmount ==
    ASSUME NEW b, NEW S, NEW x, Agrees(b, S, x), NEW r \in S
    PROVE  /\ r.session \in 1 .. Len(b.sessions) /\ b.sessions[r.session].requested >= 1
           /\ b.total >= 1
<1>1. IsFiniteSet(S) /\ r.session \in 1 .. Len(b.sessions) /\ b.total = Cardinality(S)
  BY DEF Agrees, GoodSent
<1>2. b.sessions[r.session].requested = Cardinality(In(S, r.session)) + Owing(x, r.session)
  BY <1>1 DEF Agrees, Counted
<1>3. r \in In(S, r.session) BY DEF In
<1>4. IsFiniteSet(In(S, r.session)) /\ Cardinality(In(S, r.session)) \in Nat /\ Cardinality(S) \in Nat
  BY <1>1, InIsFinite
<1>5. Cardinality(In(S, r.session)) # 0 /\ Cardinality(S) # 0
  BY <1>1, <1>3, <1>4, FS_EmptySet
<1>6. Owing(x, r.session) \in Nat BY BigIsPositive DEF Owing
<1> QED BY <1>1, <1>2, <1>4, <1>5, <1>6

\* When no session is asked for anything, nothing is sent.
LEMMA NothingRequested ==
    ASSUME NEW b, NEW S, NEW x, GoodSent(S), Len(b.sessions) \in Nat,
           Counted(b.sessions, S, x),
           \A r \in S : r.session \in 1 .. Len(b.sessions),
           \A j \in 1 .. Len(b.sessions) : b.sessions[j].requested <= 0
    PROVE  S = {}
<1> SUFFICES ASSUME NEW r \in S PROVE FALSE OBVIOUS
<1>1. IsFiniteSet(S) /\ r.session \in 1 .. Len(b.sessions) BY DEF GoodSent
<1>2. b.sessions[r.session].requested = Cardinality(In(S, r.session)) + Owing(x, r.session)
  BY <1>1 DEF Counted
<1>3. r \in In(S, r.session) BY DEF In
<1>4. IsFiniteSet(In(S, r.session)) /\ Cardinality(In(S, r.session)) \in Nat BY <1>1, InIsFinite
<1>5. Cardinality(In(S, r.session)) # 0 BY <1>3, <1>4, FS_EmptySet
<1>6. Owing(x, r.session) \in Nat BY BigIsPositive DEF Owing
<1>7. b.sessions[r.session].requested <= 0 BY <1>1
<1> QED BY <1>2, <1>4, <1>5, <1>6, <1>7

LoadOf(b, S, ok) == [balance |-> b, sent |-> S, ok |-> ok]

\* A load of T, with n sessions, whose amounts agree.
IsLoad(l, T, x, n) ==
    \E c : l = LoadOf(c, T, TRUE) /\ Agrees(c, T, x) /\ Len(c.sessions) = n

LEMMA FinishedAgrees ==
    ASSUME NEW b, NEW S, NEW x, Agrees(b, S, x), NEW r \in S,
           NEW T, T = S \ {r}
    PROVE  IsLoad(Finished(LoadOf(b, S, TRUE), r), T, x, Len(b.sessions))
<1> DEFINE l == LoadOf(b, S, TRUE)
           c == Changed(b, r.session, -1)
<1>1. /\ r.session \in 1 .. Len(b.sessions) /\ b.sessions[r.session].requested >= 1 /\ b.total >= 1
      /\ GoodBalance(b) /\ GoodSent(S) /\ DOMAIN b.sessions = 1 .. Len(b.sessions)
  BY HasAmount, SessionsOf DEF Agrees
<1>2. Finished(l, r) = [l EXCEPT !.balance = c, !.sent = T] BY <1>1 DEF Finished, LoadOf
<1>3. Finished(l, r) = LoadOf(c, T, TRUE)
  <2> HIDE DEF c
  <2> QED BY <1>2 DEF LoadOf
<1>4. b.sessions[r.session].requested \in Nat /\ b.total \in Nat /\ b.kill \in BOOLEAN
  BY <1>1, SessionsOf DEF GoodBalance, Balance
<1>5. /\ GoodBalance(c) /\ Len(c.sessions) = Len(b.sessions)
      /\ \A j \in 1 .. Len(b.sessions) :
            c.sessions[j].requested = IF j = r.session THEN b.sessions[j].requested + -1
                                      ELSE b.sessions[j].requested
      /\ c.total = b.total + -1
      /\ c.kill = (b.kill \/ \A j \in 1 .. Len(b.sessions) : c.sessions[j].requested <= 0)
  <2> DEFINE d == -1
  <2>1. d \in Int /\ ~(d > 0) /\ b.sessions[r.session].requested + d >= 0 /\ b.total + d >= 0
    BY <1>1, <1>4
  <2>2. c = Changed(b, r.session, d) OBVIOUS
  <2> HIDE DEF c, d
  <2>3. IsChanged(b, r.session, d, c) BY <1>1, <2>1, <2>2, ChangedBalance
  <2>4. c.kill = (b.kill \/ \A j \in 1 .. Len(b.sessions) : c.sessions[j].requested <= 0)
    BY <2>1, <2>3, Zenon DEF IsChanged
  <2>5. d = -1 BY DEF d
  <2> QED BY <2>3, <2>4, <2>5 DEF IsChanged
<1> HIDE DEF c
<1>6. GoodSent(T)
  <2>1. IsFiniteSet(T) BY <1>1, FS_Subset DEF GoodSent
  <2> QED BY <1>1, <2>1 DEF GoodSent
<1>7. PICK R : R = {r} OBVIOUS
<1>8. /\ IsFiniteSet(S) /\ R \in SUBSET S /\ T = S \ R
      /\ Cardinality(R) = 1 /\ Cardinality({}) = 0
  BY <1>1, <1>7, FS_Singleton, FS_EmptySet DEF GoodSent
<1>9. ASSUME NEW i \in 1 .. Len(b.sessions)
      PROVE  Cardinality(In(T, i)) = Cardinality(In(S, i)) - (IF i = r.session THEN 1 ELSE 0)
  <2>1. Cardinality(In(T, i)) = Cardinality(In(S, i)) - Cardinality(In(R, i))
    BY <1>8, InEachWithout
  <2>2. In(R, i) = IF i = r.session THEN R ELSE {} BY <1>7 DEF In
  <2> QED BY <2>1, <2>2, <1>8
<1>10. Counted(c.sessions, T, x)
  <2> SUFFICES ASSUME NEW i \in 1 .. Len(b.sessions)
               PROVE c.sessions[i].requested = Cardinality(In(T, i)) + Owing(x, i)
    BY <1>5 DEF Counted
  <2>1. b.sessions[i].requested = Cardinality(In(S, i)) + Owing(x, i) BY DEF Agrees, Counted
  <2>2. Cardinality(In(S, i)) \in Nat /\ Owing(x, i) \in Nat
    BY <1>8, InIsFinite, BigIsPositive DEF Owing
  <2>3. Cardinality(In(T, i)) = Cardinality(In(S, i)) - (IF i = r.session THEN 1 ELSE 0) BY <1>9
  <2>4. c.sessions[i].requested = b.sessions[i].requested - (IF i = r.session THEN 1 ELSE 0)
    BY <1>5, <2>1, <2>2
  <2> QED BY <2>1, <2>2, <2>3, <2>4
<1>11. c.total = Cardinality(T)
  <2>1. Cardinality(T) = Cardinality(S) - 1 BY <1>8, InWithout
  <2>2. b.total = Cardinality(S) BY DEF Agrees
  <2> QED BY <1>4, <1>5, <2>1, <2>2
<1>12. \A q \in T : q.session \in 1 .. Len(c.sessions) BY <1>5, <1>8 DEF Agrees
<1>13. c.kill => T = {}
  <2>1. CASE b.kill BY <2>1, <1>8 DEF Agrees
  <2>2. CASE \A j \in 1 .. Len(b.sessions) : c.sessions[j].requested <= 0
    <3>1. Len(c.sessions) \in Nat BY <1>5, SessionsOf
    <3> QED BY <1>5, <1>6, <1>10, <1>12, <2>2, <3>1, NothingRequested
  <2> QED BY <1>5, <2>1, <2>2
<1>14. OnePerOffset(T) BY <1>8 DEF OnePerOffset, Agrees
<1>15. Agrees(c, T, x) BY <1>5, <1>6, <1>10, <1>11, <1>12, <1>13, <1>14 DEF Agrees
<1> QED BY <1>3, <1>5, <1>15 DEF IsLoad

LEMMA FinishAllAgrees ==
    ASSUME NEW b, NEW S, NEW x, Agrees(b, S, x), NEW X, X \in SUBSET S,
           NEW T, T = S \ X
    PROVE  IsLoad(FinishAll(LoadOf(b, S, TRUE), X), T, x, Len(b.sessions))
<1> DEFINE l == LoadOf(b, S, TRUE)
           n == Len(b.sessions)
           of(i) == [b.sessions[i] EXCEPT !.requested = @ - Cardinality(In(X, i))]
           ss == [i \in DOMAIN b.sessions |-> of(i)]
           k == b.kill \/ (X # {} /\ \A i \in DOMAIN ss : ss[i].requested <= 0)
           c == [b EXCEPT !.sessions = ss, !.total = @ - Cardinality(X), !.kill = k]
<1>1. /\ GoodBalance(b) /\ GoodSent(S) /\ DOMAIN b.sessions = 1 .. n /\ n \in 1 .. MaxSessions
      /\ \A i \in 1 .. n : b.sessions[i] \in SessionData
      /\ IsFiniteSet(S) /\ IsFiniteSet(X) /\ IsFiniteSet(T)
  <2>1. GoodBalance(b) /\ GoodSent(S) BY DEF Agrees
  <2>2. IsFiniteSet(S) /\ IsFiniteSet(X) /\ IsFiniteSet(T) BY <2>1, FS_Subset DEF GoodSent
  <2> QED BY <2>1, <2>2, SessionsOf DEF GoodBalance
<1>2. \A r \in X : r.session \in 1 .. n BY DEF Agrees
<1>3. ASSUME NEW i
      PROVE  Cardinality(In(T, i)) = Cardinality(In(S, i)) - Cardinality(In(X, i))
  <2>1. \A j : Cardinality(In(T, j)) = Cardinality(In(S, j)) - Cardinality(In(X, j))
    BY <1>1, InEachWithout
  <2> QED BY <2>1
<1>4. Cardinality(T) = Cardinality(S) - Cardinality(X) BY <1>1, InWithout
<1>5. Cardinality(T) \in Nat /\ Cardinality(S) \in Nat /\ Cardinality(X) \in Nat
  BY <1>1, FS_CardinalityType
<1>6. ASSUME NEW i \in 1 .. n
      PROVE  /\ of(i) \in SessionData
             /\ of(i).requested = Cardinality(In(T, i)) + Owing(x, i)
  <2>1. b.sessions[i] \in SessionData BY <1>1
  <2>2. b.sessions[i].requested = Cardinality(In(S, i)) + Owing(x, i) BY DEF Agrees, Counted
  <2>3. Cardinality(In(S, i)) \in Nat /\ Cardinality(In(X, i)) \in Nat
        /\ Cardinality(In(T, i)) \in Nat /\ Owing(x, i) \in Nat
    BY <1>1, InIsFinite, BigIsPositive DEF Owing
  <2>4. Cardinality(In(T, i)) = Cardinality(In(S, i)) - Cardinality(In(X, i)) BY <1>3
  <2>5. b.sessions[i].requested - Cardinality(In(X, i)) = Cardinality(In(T, i)) + Owing(x, i)
    BY <2>2, <2>3, <2>4
  <2>6. b.sessions[i].requested - Cardinality(In(X, i)) \in Nat BY <2>3, <2>5
  <2> QED BY <2>1, <2>5, <2>6 DEF SessionData
<1>7. FinishAll(l, X) = [l EXCEPT !.sent = T, !.balance = c]
  <2>1. ~ \E r \in X : r.session \notin DOMAIN ss BY <1>1, <1>2
  <2> QED BY <2>1 DEF FinishAll, LoadOf, In
<1>8. /\ ss \in Seq(SessionData) /\ Len(ss) = n /\ DOMAIN ss = 1 .. n
      /\ \A i \in 1 .. n : ss[i] = of(i)
  <2>1. \A i \in 1 .. n : of(i) \in SessionData BY <1>6
  <2>2. DOMAIN ss = 1 .. n /\ \A i \in 1 .. n : ss[i] = of(i) BY <1>1
  <2>3. ss \in [1 .. n -> SessionData]
    <3> HIDE DEF of
    <3> QED BY <1>1, <2>1
  <2> HIDE DEF ss, of
  <2>4. n \in Nat BY <1>1
  <2>5. ss \in Seq(SessionData) BY <2>3, <2>4, SeqDef
  <2>6. Len(ss) = n BY <2>2, <2>4, <2>5
  <2> QED BY <2>2, <2>5, <2>6
<1>9. Counted(ss, T, x)
  <2>1. \A i \in 1 .. n : ss[i].requested = Cardinality(In(T, i)) + Owing(x, i) BY <1>6, <1>8, Zenon
  <2> QED BY <1>8, <2>1 DEF Counted
<1> HIDE DEF ss
<1>10. k \in BOOLEAN /\ b.total - Cardinality(X) = Cardinality(T)
  BY <1>4, <1>5 DEF Agrees
<1>11. c \in Balance /\ c.sessions = ss /\ c.total = Cardinality(T) /\ c.kill = k
  <2> HIDE DEF k
  <2>1. b \in Balance BY <1>1 DEF GoodBalance
  <2> QED BY <1>5, <1>8, <1>10, <2>1 DEF Balance
<1>12. FinishAll(l, X) = LoadOf(c, T, TRUE)
  <2> HIDE DEF c
  <2> QED BY <1>7 DEF LoadOf
<1>13. c.kill => T = {}
  <2>1. CASE b.kill BY <2>1 DEF Agrees
  <2>2. CASE \A i \in 1 .. n : ss[i].requested <= 0
    <3>1. GoodSent(T) /\ n \in Nat /\ \A r \in T : r.session \in 1 .. n
      BY <1>1 DEF GoodSent, Agrees
    <3> HIDE DEF c
    <3>2. c.sessions = ss /\ Len(c.sessions) = n BY <1>8, <1>11
    <3> QED BY <1>9, <2>2, <3>1, <3>2, NothingRequested
  <2> HIDE DEF c
  <2> QED BY <1>8, <1>11, <2>1, <2>2
<1> HIDE DEF c
<1>14. GoodBalance(c) /\ GoodSent(T) /\ OnePerOffset(T)
  BY <1>1, <1>8, <1>11 DEF GoodBalance, GoodSent, OnePerOffset, Agrees
<1>15. Agrees(c, T, x)
  <2>1. \A r \in T : r.session \in 1 .. Len(c.sessions) BY <1>8, <1>11 DEF Agrees
  <2> QED BY <1>9, <1>11, <1>13, <1>14, <2>1 DEF Agrees
<1> QED BY <1>8, <1>11, <1>12, <1>15 DEF IsLoad

Kind == {"part", "cdn", "reupload", "hashes"}
Free(S, t, o) == \A q \in S : q.task # t \/ q.offset # o
IsFor(r, t, o, i, kind) ==
    /\ r.task = t /\ r.offset = o /\ r.session = i /\ r.kind = kind
    /\ r.old = FALSE /\ r.refreshing = FALSE

\* What placing a request does to the load of b and S.
IsPlaced(l, b, S, x, t, o, i, kind) ==
    \E c, T :
        /\ l = LoadOf(c, T, l.ok) /\ l.ok \in BOOLEAN
        /\ GoodBalance(c) /\ GoodSent(T)
        /\ l.ok <=> i \in 1 .. Len(b.sessions) /\ Free(S, t, o)
        /\ l.ok => /\ Agrees(c, T, x) /\ Len(c.sessions) = Len(b.sessions)
                   /\ \E r \in Request : IsFor(r, t, o, i, kind) /\ T = S \cup {r}

LEMMA OneMore ==
    ASSUME NEW S, IsFiniteSet(S), NEW r, r \notin S, NEW T, T = S \cup {r}
    PROVE  /\ \A n : Cardinality(In(T, n)) =
                  Cardinality(In(S, n)) + (IF n = r.session THEN 1 ELSE 0)
           /\ Cardinality(T) = Cardinality(S) + 1
<1>1. Cardinality(T) = Cardinality(S) + 1 BY FS_AddElement
<1>2. ASSUME NEW n
      PROVE Cardinality(In(T, n)) = Cardinality(In(S, n)) + (IF n = r.session THEN 1 ELSE 0)
  <2>1. IsFiniteSet(In(S, n)) /\ Cardinality(In(S, n)) \in Nat BY InIsFinite
  <2>2. CASE n = r.session
    <3>1. In(T, n) = In(S, n) \cup {r} /\ r \notin In(S, n) BY <2>2 DEF In
    <3>2. Cardinality(In(S, n) \cup {r}) = Cardinality(In(S, n)) + 1
      BY <2>1, <3>1, FS_AddElement
    <3> QED BY <2>2, <3>1, <3>2
  <2>3. CASE n # r.session
    <3>1. In(T, n) = In(S, n) BY <2>3 DEF In
    <3> QED BY <2>1, <2>3, <3>1
  <2> QED BY <2>2, <2>3
<1> QED BY <1>1, <1>2

LEMMA PlacedIs ==
    ASSUME NEW b, NEW S, NEW x, Agrees(b, S, x),
           NEW t \in Task, NEW o \in Offset, NEW i \in Int, NEW kind \in Kind,
           NEW l, l = Placed(LoadOf(b, S, TRUE), t, o, i, kind)
    PROVE  IsPlaced(l, b, S, x, t, o, i, kind)
<1> DEFINE n == Len(b.sessions)
<1>1. /\ GoodBalance(b) /\ GoodSent(S) /\ DOMAIN b.sessions = 1 .. n /\ n \in Nat
      /\ 1 .. n \subseteq Index
  BY SessionsOf DEF Agrees
<1>2. CASE i \notin 1 .. n
  <2>1. l = [LoadOf(b, S, TRUE) EXCEPT !.ok = FALSE] BY <1>1, <1>2 DEF Placed, LoadOf
  <2>2. l = LoadOf(b, S, FALSE) /\ l.ok = FALSE BY <2>1 DEF LoadOf
  <2> QED BY <1>1, <1>2, <2>2 DEF IsPlaced
<1>3. CASE i \in 1 .. n
  <2> DEFINE c == Changed(b, i, 1)
             r == [task |-> t, offset |-> o, kind |-> kind, session |-> i,
                   amount |-> c.sessions[i].requested, old |-> FALSE, refreshing |-> FALSE]
             T == S \cup {r}
             ok == \A q \in S : q.task # t \/ q.offset # o
  <2>1. l = LoadOf(c, T, ok)
    <3> DEFINE m == LoadOf(b, S, TRUE)
    <3>1. m.balance = b /\ m.sent = S /\ m.ok = TRUE BY DEF LoadOf
    <3>2. l = Placed(m, t, o, i, kind) OBVIOUS
    <3> HIDE DEF m
    <3>3. ~ (i \notin DOMAIN m.balance.sessions) BY <1>1, <1>3, <3>1
    <3>4. l = [balance |-> Changed(m.balance, i, 1),
               sent |-> m.sent \cup {[task |-> t, offset |-> o, kind |-> kind, session |-> i,
                   amount |-> Changed(m.balance, i, 1).sessions[i].requested,
                   old |-> FALSE, refreshing |-> FALSE]},
               ok |-> m.ok /\ \A q \in m.sent : q.task # t \/ q.offset # o]
      BY <3>2, <3>3, Zenon DEF Placed
    <3>5. (m.ok /\ \A q \in m.sent : q.task # t \/ q.offset # o) = ok BY <3>1
    <3> QED BY <3>1, <3>4, <3>5, Zenon DEF LoadOf
  <2>2. b.sessions[i].requested \in Nat /\ b.total \in Nat
    BY <1>1, <1>3, SessionsOf DEF GoodBalance, Balance
  <2>3. IsChanged(b, i, 1, c)
    <3>1. b.sessions[i].requested + 1 >= 0 /\ b.total + 1 >= 0 /\ 1 \in Int BY <2>2
    <3> HIDE DEF c
    <3>2. c = Changed(b, i, 1) BY DEF c
    <3> QED BY <1>1, <1>3, <3>1, <3>2, ChangedBalance
  <2>4. /\ GoodBalance(c) /\ Len(c.sessions) = n
        /\ \A j \in 1 .. n :
              c.sessions[j].requested = b.sessions[j].requested + (IF j = i THEN 1 ELSE 0)
        /\ c.total = b.total + 1 /\ c.kill = FALSE
    <3> HIDE DEF c
    <3>1. \A j \in 1 .. n : b.sessions[j].requested \in Nat BY <1>1, SessionsOf
    <3>2. GoodBalance(c) /\ Len(c.sessions) = n /\ c.total = b.total + 1 /\ c.kill = FALSE
      BY <2>3 DEF IsChanged
    <3>3. \A j \in 1 .. n :
             c.sessions[j].requested = IF j = i THEN b.sessions[j].requested + 1
                                       ELSE b.sessions[j].requested
      BY <2>3 DEF IsChanged
    <3> QED BY <3>1, <3>2, <3>3
  <2> HIDE DEF c
  <2>5. r \in Request
    <3>1. c.sessions[i].requested \in Int BY <1>3, <2>2, <2>4
    <3> QED BY <1>1, <1>3, <3>1 DEF Request, Kind
  <2>6. IsFor(r, t, o, i, kind) BY DEF IsFor
  <2>7. GoodSent(T)
    <3>1. IsFiniteSet(T) BY <1>1, FS_AddElement DEF GoodSent
    <3> QED BY <1>1, <2>5, <3>1 DEF GoodSent
  <2>8. ok <=> Free(S, t, o) BY DEF Free
  <2>9. ok \in BOOLEAN OBVIOUS
  <2> HIDE DEF r, ok
  <2>10. ASSUME ok PROVE Agrees(c, T, x)
    <3>1. r \notin S BY <2>6, <2>8, <2>10 DEF IsFor, Free
    <3>2. IsFiniteSet(S) BY <1>1 DEF GoodSent
    <3>3. /\ \A j : Cardinality(In(T, j)) =
                  Cardinality(In(S, j)) + (IF j = r.session THEN 1 ELSE 0)
          /\ Cardinality(T) = Cardinality(S) + 1
      <4>1. PICK U : U = T OBVIOUS
      <4> QED BY <3>1, <3>2, <4>1, OneMore
    <3>4. Counted(c.sessions, T, x)
      <4> SUFFICES ASSUME NEW j \in 1 .. n
                   PROVE c.sessions[j].requested = Cardinality(In(T, j)) + Owing(x, j)
        BY <2>4 DEF Counted
      <4>1. b.sessions[j].requested = Cardinality(In(S, j)) + Owing(x, j) BY DEF Agrees, Counted
      <4>2. Cardinality(In(S, j)) \in Nat /\ Owing(x, j) \in Nat
        BY <3>2, InIsFinite, BigIsPositive DEF Owing
      <4>3. Cardinality(In(T, j)) = Cardinality(In(S, j)) + (IF j = i THEN 1 ELSE 0)
        BY <3>3, <2>6 DEF IsFor
      <4>4. c.sessions[j].requested = b.sessions[j].requested + (IF j = i THEN 1 ELSE 0) BY <2>4
      <4> HIDE DEF T
      <4> QED BY <4>1, <4>2, <4>3, <4>4
    <3>5. c.total = Cardinality(T) BY <2>4, <3>3 DEF Agrees
    <3>6. \A q \in T : q.session \in 1 .. Len(c.sessions)
      BY <1>3, <2>4, <2>6 DEF Agrees, IsFor
    <3>7. OnePerOffset(T) BY <2>6, <2>8, <2>10 DEF OnePerOffset, Agrees, IsFor, Free
    <3> QED BY <2>4, <2>7, <3>4, <3>5, <3>6, <3>7 DEF Agrees
  <2>11. l.ok = ok BY <2>1 DEF LoadOf
  <2>12. /\ l = LoadOf(c, T, l.ok) /\ l.ok \in BOOLEAN
         /\ GoodBalance(c) /\ GoodSent(T)
         /\ l.ok <=> i \in 1 .. n /\ Free(S, t, o)
         /\ l.ok => /\ Agrees(c, T, x) /\ Len(c.sessions) = n
                    /\ \E q \in Request : IsFor(q, t, o, i, kind) /\ T = S \cup {q}
    <3>1. l.ok => Agrees(c, T, x) BY <2>10, <2>11
    <3>2. T = S \cup {r} OBVIOUS
    <3> HIDE DEF T
    <3> QED BY <1>3, <2>1, <2>4, <2>5, <2>6, <2>7, <2>8, <2>9, <2>11, <3>1, <3>2
  <2> HIDE DEF T
  <2> QED BY <2>12, Zenon DEF IsPlaced
<1> QED BY <1>2, <1>3

Waiting(u) == {o \in Offset : u[o] # None}

\* requestMoreCdnFileHashes asks with the first of the parts that wait.
LEMMA MoreHashesIs ==
    ASSUME NEW b, NEW S, NEW x, Agrees(b, S, x), NEW t \in Task, NEW u \in [Offset -> {None} \cup Index],
           NEW l, l = MoreHashes(LoadOf(b, S, TRUE), t, u)
    PROVE  \/ /\ Waiting(u) = {} \/ HashesRequest(S, t) # {}
              /\ l = LoadOf(b, S, TRUE)
           \/ /\ HashesRequest(S, t) = {}
              /\ \E o \in Offset : u[o] # None /\ IsPlaced(l, b, S, x, t, o, u[o], "hashes")
<1> DEFINE w == Waiting(u)
           m == LoadOf(b, S, TRUE)
<1>1. m.sent = S BY DEF LoadOf
<1>2. l = IF w = {} \/ HashesRequest(m.sent, t) # {} THEN m
          ELSE Placed(m, t, Min(w), u[Min(w)], "hashes")
  BY DEF MoreHashes, Waiting
<1>3. CASE w = {} \/ HashesRequest(S, t) # {} BY <1>1, <1>2, <1>3
<1>4. CASE w # {} /\ HashesRequest(S, t) = {}
  <2>1. Offset \subseteq Nat BY SizesAssumption DEF Offset
  <2>2. w \subseteq Nat BY <2>1 DEF Waiting
  <2>3. Min(w) \in w BY <1>4, <2>2, MinIsLeast
  <2>4. PICK o : o = Min(w) OBVIOUS
  <2>5. o \in Offset /\ u[o] # None BY <2>3, <2>4 DEF Waiting
  <2>6. u[o] \in Int BY <2>5, SizesAssumption DEF Index, None
  <2>7. l = Placed(m, t, o, u[o], "hashes") BY <1>1, <1>2, <1>4, <2>4
  <2>8. IsPlaced(l, b, S, x, t, o, u[o], "hashes")
    <3>1. "hashes" \in Kind BY DEF Kind
    <3> QED BY <2>5, <2>6, <2>7, <3>1, PlacedIs
  <2> QED BY <1>4, <2>5, <2>8
<1> QED BY <1>3, <1>4

\* What a success changes of the balance: no amount.
Rewards(c, b) ==
    /\ GoodBalance(c) /\ c.total = b.total /\ c.kill = b.kill
    /\ Len(c.sessions) >= Len(b.sessions)
    /\ \A i \in 1 .. Len(c.sessions) :
          c.sessions[i].requested = IF i <= Len(b.sessions) THEN b.sessions[i].requested ELSE 0

LEMMA GrownRewards ==
    ASSUME NEW b, GoodBalance(b), NEW r, r.session \in 1 .. Len(b.sessions), NEW c, c = Grown(b, r)
    PROVE  Rewards(c, b)
<1> DEFINE s == b.sessions[r.session]
           m == IF r.amount = s.maxWaited /\ s.maxWaited < MaxWaited THEN s.maxWaited + 1
                ELSE s.maxWaited
           n == Min({s.successes + 1, AddSuccesses * MaxRemoves})
           g == [s EXCEPT !.maxWaited = m, !.successes = n]
           ss == [b.sessions EXCEPT ![r.session] = g]
<1>1. /\ b \in Balance /\ b.sessions \in Seq(SessionData) /\ Len(b.sessions) \in Nat
      /\ s \in SessionData /\ DOMAIN b.sessions = 1 .. Len(b.sessions)
      /\ \A i \in 1 .. Len(b.sessions) : b.sessions[i].requested \in Nat
  BY SessionsOf DEF GoodBalance
<1>2. c = [b EXCEPT !.sessions = ss]
  <2>1. c = [b EXCEPT !.sessions[r.session] = g] BY Zenon DEF Grown
  <2> HIDE DEF g
  <2> QED BY <1>1, <2>1
<1>3. m \in StartWaited .. MaxWaited
  <2>1. s.maxWaited \in StartWaited .. MaxWaited BY <1>1 DEF SessionData
  <2>2. StartWaited \in Nat /\ MaxWaited \in Nat BY SizesAssumption
  <2> HIDE DEF s
  <2> QED BY <2>1, <2>2
<1>4. n \in 0 .. AddSuccesses * MaxRemoves
  <2>1. s.successes \in 0 .. AddSuccesses * MaxRemoves BY <1>1 DEF SessionData
  <2>2. PICK k : k = AddSuccesses * MaxRemoves /\ k \in Nat BY CappedSuccesses
  <2>3. PICK e : e = s.successes + 1 /\ e \in Nat BY <2>1, <2>2
  <2>4. n \in {e, k} /\ \A y \in {e, k} : n <= y
    <3>1. {e, k} \subseteq Nat /\ {e, k} # {} BY <2>2, <2>3
    <3> QED BY <2>2, <2>3, <3>1, MinIsLeast
  <2> HIDE DEF n
  <2>5. n \in Nat /\ n <= k BY <2>2, <2>3, <2>4
  <2> QED BY <2>2, <2>5
<1>5. g \in SessionData /\ g.requested = s.requested
  <2> HIDE DEF m, n, s
  <2> QED BY <1>1, <1>3, <1>4 DEF SessionData
<1>6. ss \in Seq(SessionData) /\ Len(ss) = Len(b.sessions)
      /\ \A j \in 1 .. Len(b.sessions) : ss[j] = IF j = r.session THEN g ELSE b.sessions[j]
  <2> HIDE DEF g
  <2> QED BY <1>1, <1>5, ExceptSeq
<1>7. \A j \in 1 .. Len(b.sessions) : ss[j].requested = b.sessions[j].requested
  <2> HIDE DEF g, ss
  <2> QED BY <1>5, <1>6
<1> HIDE DEF ss
<1>8. c \in Balance /\ c.sessions = ss /\ c.total = b.total /\ c.kill = b.kill
  BY <1>1, <1>2, <1>6 DEF Balance
<1>9. GoodBalance(c) BY <1>6, <1>8 DEF GoodBalance
<1> QED BY <1>1, <1>6, <1>7, <1>8, <1>9 DEF Rewards

LEMMA NoSuccessesRewards ==
    ASSUME NEW b, GoodBalance(b), NEW c, c = NoSuccesses(b)
    PROVE  /\ Rewards(c, b) /\ Len(c.sessions) = Len(b.sessions)
           /\ c.timeouts = b.timeouts /\ c.removeIndex = b.removeIndex /\ c.removeTimes = b.removeTimes
<1> DEFINE ss == [i \in DOMAIN b.sessions |-> [b.sessions[i] EXCEPT !.successes = 0]]
           n == Len(b.sessions)
<1>1. /\ b \in Balance /\ b.sessions \in Seq(SessionData) /\ n \in Nat
      /\ DOMAIN b.sessions = 1 .. n
      /\ \A i \in 1 .. n : b.sessions[i] \in SessionData
  BY SessionsOf DEF GoodBalance
<1>2. c = [b EXCEPT !.sessions = ss] BY <1>1 DEF NoSuccesses
<1>3. ASSUME NEW i \in 1 .. n
      PROVE  /\ [b.sessions[i] EXCEPT !.successes = 0] \in SessionData
             /\ [b.sessions[i] EXCEPT !.successes = 0].requested = b.sessions[i].requested
  <2>1. b.sessions[i] \in SessionData BY <1>1
  <2>2. 0 \in 0 .. AddSuccesses * MaxRemoves
    <3>1. PICK k : k = AddSuccesses * MaxRemoves /\ k \in Nat BY CappedSuccesses
    <3> QED BY <3>1
  <2> QED BY <2>1, <2>2 DEF SessionData
<1>4. DOMAIN ss = 1 .. n /\ \A i \in 1 .. n : ss[i].requested = b.sessions[i].requested
  BY <1>1, <1>3
<1>5. ss \in Seq(SessionData) /\ Len(ss) = n
  <2>1. ss \in [1 .. n -> SessionData] BY <1>1, <1>3
  <2> HIDE DEF ss
  <2>2. ss \in Seq(SessionData) BY <1>1, <2>1, SeqDef
  <2> QED BY <1>1, <1>4, <2>2
<1> HIDE DEF ss
<1>6. c \in Balance /\ c.sessions = ss /\ c.total = b.total /\ c.kill = b.kill
      /\ c.timeouts = b.timeouts /\ c.removeIndex = b.removeIndex /\ c.removeTimes = b.removeTimes
  BY <1>1, <1>2, <1>5 DEF Balance
<1>7. GoodBalance(c) BY <1>5, <1>6 DEF GoodBalance
<1> QED BY <1>1, <1>4, <1>5, <1>6, <1>7 DEF Rewards

LEMMA RewardedRewards ==
    ASSUME NEW b, GoodBalance(b), NEW late \in BOOLEAN, NEW c, c = Rewarded(b, late)
    PROVE  Rewards(c, b)
<1>0. /\ b.sessions \in Seq(SessionData) /\ Len(b.sessions) \in Nat
      /\ \A i \in 1 .. Len(b.sessions) : b.sessions[i].requested \in Nat
  BY SessionsOf
<1>1. CASE NotEnough(b)
  <2>1. c = b BY <1>1 DEF Rewarded
  <2> QED BY <1>0, <2>1 DEF Rewards
<1>2. CASE ~NotEnough(b)
  <2>1. PICK d : d = NoSuccesses(b) OBVIOUS
  <2>2. Rewards(d, b) /\ Len(d.sessions) = Len(b.sessions) BY <2>1, NoSuccessesRewards
  <2>3. c = IF d.timeouts > 0 THEN [d EXCEPT !.timeouts = @ - 1]
            ELSE IF Len(d.sessions) = MaxSessions \/ (d.removed /\ ~late) THEN d
            ELSE [d EXCEPT !.sessions = Append(@, NewSession)]
    BY <1>2, <2>1 DEF Rewarded
  <2>4. GoodBalance(d) /\ d \in Balance /\ d.timeouts \in 0 .. RemoveTimeouts - 1
        /\ d.sessions \in Seq(SessionData) /\ Len(d.sessions) \in 1 .. MaxSessions
    BY <2>2 DEF Rewards, GoodBalance, Balance
  <2>5. CASE d.timeouts > 0
    <3>1. c = [d EXCEPT !.timeouts = d.timeouts - 1] BY <2>3, <2>5
    <3>2. d.timeouts - 1 \in 0 .. RemoveTimeouts - 1 BY <2>4, <2>5, SizesAssumption
    <3>3. c \in Balance /\ c.sessions = d.sessions /\ c.total = d.total /\ c.kill = d.kill
      BY <2>4, <3>1, <3>2 DEF Balance
    <3> QED BY <2>2, <2>4, <3>3 DEF Rewards, GoodBalance
  <2>6. CASE ~(d.timeouts > 0) /\ (Len(d.sessions) = MaxSessions \/ (d.removed /\ ~late))
    <3>1. c = d BY <2>3, <2>6
    <3> QED BY <2>2, <3>1
  <2>7. CASE ~(d.timeouts > 0) /\ ~(Len(d.sessions) = MaxSessions \/ (d.removed /\ ~late))
    <3>1. PICK ss : ss = Append(d.sessions, NewSession) OBVIOUS
    <3>2. c = [d EXCEPT !.sessions = ss] BY <2>3, <2>7, <3>1
    <3>3. NewSession \in SessionData /\ NewSession.requested = 0
      <4>1. PICK k : k = AddSuccesses * MaxRemoves /\ k \in Nat BY CappedSuccesses
      <4>2. 0 \in 0 .. k /\ StartWaited \in StartWaited .. MaxWaited BY <4>1, SizesAssumption
      <4> QED BY <4>1, <4>2 DEF NewSession, SessionData
    <3>4. ss \in Seq(SessionData) /\ Len(ss) = Len(d.sessions) + 1
          /\ (\A i \in 1 .. Len(d.sessions) : ss[i] = d.sessions[i])
          /\ ss[Len(d.sessions) + 1] = NewSession
      BY <2>4, <3>1, <3>3, AppendProperties
    <3>5. c \in Balance /\ c.sessions = ss /\ c.total = d.total /\ c.kill = d.kill
      BY <2>4, <3>2, <3>4 DEF Balance
    <3>6. Len(ss) \in 1 .. MaxSessions BY <2>4, <2>7, <3>4, SizesAssumption
    <3>7. \A i \in 1 .. Len(ss) :
             ss[i].requested = IF i <= Len(b.sessions) THEN b.sessions[i].requested ELSE 0
      <4> SUFFICES ASSUME NEW i \in 1 .. Len(ss)
                   PROVE ss[i].requested = IF i <= Len(b.sessions) THEN b.sessions[i].requested ELSE 0
        OBVIOUS
      <4>1. CASE i <= Len(b.sessions)
        <5>1. i \in 1 .. Len(d.sessions) BY <4>1, <2>2, <2>4
        <5>2. d.sessions[i].requested = b.sessions[i].requested BY <2>2, <4>1, <5>1 DEF Rewards
        <5> QED BY <3>4, <4>1, <5>1, <5>2
      <4>2. CASE ~(i <= Len(b.sessions))
        <5>1. i = Len(d.sessions) + 1 BY <4>2, <2>2, <2>4, <3>4, <1>0
        <5> QED BY <3>3, <3>4, <4>2, <5>1
      <4> QED BY <4>1, <4>2
    <3>8. GoodBalance(c) BY <3>5, <3>6 DEF GoodBalance
    <3>9. c.total = b.total /\ c.kill = b.kill /\ Len(c.sessions) >= Len(b.sessions)
      BY <1>0, <2>2, <3>4, <3>5 DEF Rewards
    <3> QED BY <3>5, <3>7, <3>8, <3>9 DEF Rewards
  <2> QED BY <2>5, <2>6, <2>7
<1> QED BY <1>1, <1>2

-----------------------------------------------------------------------------
(* What an answer does before it is looked at.                               *)

LEMMA RewardsAgree ==
    ASSUME NEW b, NEW S, Agrees(b, S, None), NEW c, Rewards(c, b)
    PROVE  Agrees(c, S, None)
<1>1. /\ GoodBalance(b) /\ GoodSent(S) /\ GoodBalance(c) /\ Len(b.sessions) \in Nat
      /\ Len(c.sessions) \in Nat /\ Len(c.sessions) >= Len(b.sessions)
  BY SessionsOf DEF Agrees, Rewards
<1>2. Counted(c.sessions, S, None)
  <2> SUFFICES ASSUME NEW i \in 1 .. Len(c.sessions)
               PROVE c.sessions[i].requested = Cardinality(In(S, i)) + Owing(None, i)
    BY DEF Counted
  <2>0. c.sessions[i].requested = IF i <= Len(b.sessions) THEN b.sessions[i].requested ELSE 0
    BY DEF Rewards
  <2>1. CASE i <= Len(b.sessions)
    <3>1. i \in 1 .. Len(b.sessions) BY <1>1, <2>1
    <3> QED BY <2>0, <2>1, <3>1 DEF Agrees, Counted
  <2>2. CASE ~(i <= Len(b.sessions))
    <3>1. In(S, i) = {} BY <1>1, <2>2 DEF In, Agrees
    <3>2. Cardinality(In(S, i)) = 0 BY <3>1, FS_EmptySet
    <3>3. Owing(None, i) = 0 BY DEF Owing, None
    <3> QED BY <2>0, <2>2, <3>2, <3>3
  <2> QED BY <2>1, <2>2
<1>3. \A r \in S : r.session \in 1 .. Len(c.sessions) BY <1>1 DEF Agrees
<1> QED BY <1>1, <1>2, <1>3 DEF Agrees, Rewards

LEMMA RewardsTwice ==
    ASSUME NEW b, NEW c, NEW d, GoodBalance(b), Rewards(c, b), Rewards(d, c)
    PROVE  Rewards(d, b)
<1>1. Len(b.sessions) \in Nat /\ Len(c.sessions) \in Nat /\ Len(d.sessions) \in Nat
  BY SessionsOf DEF Rewards
<1>2. ASSUME NEW i \in 1 .. Len(d.sessions)
      PROVE d.sessions[i].requested = IF i <= Len(b.sessions) THEN b.sessions[i].requested ELSE 0
  <2>1. d.sessions[i].requested = IF i <= Len(c.sessions) THEN c.sessions[i].requested ELSE 0
    BY DEF Rewards
  <2>2. i <= Len(c.sessions) =>
           c.sessions[i].requested = IF i <= Len(b.sessions) THEN b.sessions[i].requested ELSE 0
    BY <1>1 DEF Rewards
  <2>3. i <= Len(b.sessions) => i <= Len(c.sessions) BY <1>1 DEF Rewards
  <2> QED BY <2>1, <2>2, <2>3
<1>3. Len(d.sessions) >= Len(b.sessions) BY <1>1 DEF Rewards
<1> QED BY <1>2, <1>3 DEF Rewards

TimedOutPost(r) == [op |-> "timedOut", index |-> r.session]
IsAnswer(a, r) ==
    /\ \E c : /\ a.load = LoadOf(c, sent \ {r}, TRUE) /\ Agrees(c, sent \ {r}, None)
              /\ Len(c.sessions) >= Len(balance.sessions)
    /\ a.posted \in {posted, Append(posted, TimedOutPost(r))}
    /\ a.faults = faults \/ (a.faults = faults + 1 /\ faults < MaxFaults)

LEMMA AnswerIs ==
    ASSUME Agrees(balance, sent, None), NEW r \in sent, NEW a \in Answers(r)
    PROVE  IsAnswer(a, r)
<1>1. PICK T : T = sent \ {r} OBVIOUS
<1>2. Load = LoadOf(balance, sent, TRUE) BY DEF Load, LoadOf
<1>3. PICK c : /\ Finished(Load, r) = LoadOf(c, T, TRUE)
               /\ Agrees(c, T, None) /\ Len(c.sessions) = Len(balance.sessions)
  <2>1. IsLoad(Finished(LoadOf(balance, sent, TRUE), r), T, None, Len(balance.sessions))
    BY <1>1, FinishedAgrees
  <2> QED BY <1>2, <2>1 DEF IsLoad
<1>4. r.session \in 1 .. Len(c.sessions) /\ GoodBalance(c) /\ Len(c.sessions) \in Nat
  BY <1>3, SessionsOf DEF Agrees
<1>5. CASE \E late \in BOOLEAN : a = [load |-> Succeed(r, late), posted |-> posted, faults |-> faults]
  <2>1. PICK late \in BOOLEAN : a = [load |-> Succeed(r, late), posted |-> posted, faults |-> faults]
    BY <1>5
  <2>2. a.load = Succeed(r, late) /\ a.posted = posted /\ a.faults = faults BY <2>1
  <2>3. PICK m : m = Finished(Load, r) OBVIOUS
  <2>4. m = LoadOf(c, T, TRUE) /\ m.balance = c BY <1>3, <2>3 DEF LoadOf
  <2>5. a.load = [m EXCEPT !.balance = IF Overloaded(m.balance, r) THEN @
                                       ELSE Rewarded(Grown(@, r), late)]
    BY <2>2, <2>3 DEF Succeed
  <2>6. CASE Overloaded(m.balance, r)
    <3>1. a.load = LoadOf(c, T, TRUE) BY <2>4, <2>5, <2>6 DEF LoadOf
    <3>2. Len(c.sessions) >= Len(balance.sessions) BY <1>3, <1>4
    <3> QED BY <1>1, <1>3, <2>2, <3>1, <3>2, Zenon DEF IsAnswer
  <2>7. CASE ~Overloaded(m.balance, r)
    <3>1. PICK g : g = Grown(c, r) OBVIOUS
    <3>2. PICK d : d = Rewarded(g, late) OBVIOUS
    <3>3. Rewards(g, c) BY <1>4, <3>1, GrownRewards
    <3>4. Rewards(d, g) BY <3>2, <3>3, RewardedRewards DEF Rewards
    <3>5. Rewards(d, c) BY <1>4, <3>3, <3>4, RewardsTwice
    <3>6. a.load = LoadOf(d, T, TRUE)
      <4>1. a.load = [m EXCEPT !.balance = d] BY <2>4, <2>5, <2>7, <3>1, <3>2
      <4> QED BY <2>4, <4>1 DEF LoadOf
    <3>7. Agrees(d, T, None) BY <1>3, <3>5, RewardsAgree
    <3>8. Len(d.sessions) >= Len(balance.sessions) BY <1>3, <3>5 DEF Rewards
    <3> QED BY <1>1, <2>2, <3>6, <3>7, <3>8 DEF IsAnswer
  <2> QED BY <2>6, <2>7
<1>6. CASE /\ a = [load |-> Finished(Load, r), faults |-> faults + 1,
                   posted |-> Append(posted, TimedOutPost(r))]
           /\ faults < MaxFaults
  <2>1. /\ a.load = LoadOf(c, T, TRUE) /\ a.faults = faults + 1 /\ faults < MaxFaults
        /\ a.posted = Append(posted, TimedOutPost(r))
    BY <1>3, <1>6
  <2>2. Len(c.sessions) >= Len(balance.sessions) BY <1>3, <1>4
  <2> QED BY <1>1, <1>3, <2>1, <2>2, Zenon DEF IsAnswer
<1> QED BY <1>5, <1>6 DEF Answers, TimedOutPost

-----------------------------------------------------------------------------
(* The queue.                                                                *)

Entry == [task: Task, priority: Int]
Queued(q, t) == \E k \in 1 .. Len(q) : q[k].task = t
GoodQueue(q) ==
    /\ q \in Seq(Entry)
    /\ \A j, k \in 1 .. Len(q) : q[j].task = q[k].task => j = k
    /\ \A j, k \in 1 .. Len(q) : j < k => q[j].priority >= q[k].priority

LEMMA EntriesOf ==
    ASSUME NEW q, q \in Seq(Entry)
    PROVE  /\ Len(q) \in Nat /\ DOMAIN q = 1 .. Len(q)
           /\ \A k \in 1 .. Len(q) : q[k] \in Entry /\ q[k].task \in Task /\ q[k].priority \in Int
<1>1. Len(q) \in Nat /\ DOMAIN q = 1 .. Len(q) OBVIOUS
<1>2. ASSUME NEW k \in 1 .. Len(q)
      PROVE q[k] \in Entry /\ q[k].task \in Task /\ q[k].priority \in Int
  <2>1. q[k] \in Entry OBVIOUS
  <2> QED BY <2>1 DEF Entry
<1> QED BY <1>1, <1>2

\* Queue::remove leaves the other tasks, in their order.
LEMMA WithoutIs ==
    ASSUME NEW q, GoodQueue(q), NEW t \in Task, NEW p, p = Without(q, t)
    PROVE  GoodQueue(p) /\ \A s \in Task : Queued(p, s) <=> Queued(q, s) /\ s # t
<1> DEFINE at == {k \in DOMAIN q : q[k].task = t}
<1>0. /\ q \in Seq(Entry) /\ Len(q) \in Nat /\ DOMAIN q = 1 .. Len(q)
      /\ \A k \in 1 .. Len(q) : q[k] \in Entry /\ q[k].task \in Task /\ q[k].priority \in Int
  BY EntriesOf DEF GoodQueue
<1>1. CASE at = {}
  <2>1. p = q BY <1>1 DEF Without
  <2>2. ~Queued(q, t) BY <1>0, <1>1 DEF Queued
  <2> QED BY <2>1, <2>2 DEF Queued
<1>2. CASE at # {}
  <2>1. PICK m : m = Min(at) OBVIOUS
  <2>2. m \in at
    <3>1. at \subseteq Nat BY <1>0
    <3> QED BY <1>2, <2>1, <3>1, MinIsLeast
  <2>3. m \in 1 .. Len(q) /\ q[m].task = t BY <1>0, <2>2
  <2>4. p = RemoveAt(q, m) BY <1>2, <2>1 DEF Without
  <2>5. /\ p \in Seq(Entry) /\ Len(p) = Len(q) - 1
        /\ \A i \in 1 .. Len(p) : p[i] = q[IF i < m THEN i ELSE i + 1]
    <3>1. IsRemovedAt(p, Entry, q, m) BY <1>0, <2>3, <2>4, RemovedAt
    <3> QED BY <3>1 DEF IsRemovedAt
  <2> DEFINE of(i) == IF i < m THEN i ELSE i + 1
  <2>6. \A i \in 1 .. Len(p) : of(i) \in 1 .. Len(q) /\ of(i) # m /\ p[i] = q[of(i)]
    BY <1>0, <2>3, <2>5
  <2>7. \A i, j \in 1 .. Len(p) : i < j => of(i) < of(j) BY <1>0, <2>3, <2>5
  <2>8. \A i, j \in 1 .. Len(p) : of(i) = of(j) => i = j BY <1>0, <2>3, <2>5
  <2>9. \A k \in 1 .. Len(q) : k # m => \E i \in 1 .. Len(p) : of(i) = k
    <3> SUFFICES ASSUME NEW k \in 1 .. Len(q), k # m PROVE \E i \in 1 .. Len(p) : of(i) = k
      OBVIOUS
    <3>1. CASE k < m
      <4>1. k \in 1 .. Len(p) /\ of(k) = k BY <1>0, <2>3, <2>5, <3>1
      <4> QED BY <4>1
    <3>2. CASE k > m
      <4>1. k - 1 \in 1 .. Len(p) /\ of(k - 1) = k BY <1>0, <2>3, <2>5, <3>2
      <4> QED BY <4>1
    <3> QED BY <3>1, <3>2, <1>0, <2>3
  <2> HIDE DEF of
  <2>10. GoodQueue(p)
    <3>1. ASSUME NEW i \in 1 .. Len(p), NEW j \in 1 .. Len(p), p[i].task = p[j].task
          PROVE i = j
      <4>1. q[of(i)].task = q[of(j)].task BY <2>6, <3>1
      <4>2. of(i) = of(j) BY <2>6, <4>1 DEF GoodQueue
      <4> QED BY <2>8, <4>2
    <3>2. ASSUME NEW i \in 1 .. Len(p), NEW j \in 1 .. Len(p), i < j
          PROVE p[i].priority >= p[j].priority
      <4>1. of(i) < of(j) BY <2>7, <3>2
      <4>2. q[of(i)].priority >= q[of(j)].priority BY <2>6, <4>1 DEF GoodQueue
      <4> QED BY <2>6, <4>2
    <3> QED BY <2>5, <3>1, <3>2 DEF GoodQueue
  <2>11. ASSUME NEW s \in Task PROVE Queued(p, s) <=> Queued(q, s) /\ s # t
    <3>1. ASSUME Queued(p, s) PROVE Queued(q, s) /\ s # t
      <4>1. PICK i \in 1 .. Len(p) : p[i].task = s BY <3>1 DEF Queued
      <4>2. of(i) \in 1 .. Len(q) /\ of(i) # m /\ q[of(i)].task = s BY <2>6, <4>1
      <4>3. s # t BY <2>3, <4>2 DEF GoodQueue
      <4> QED BY <4>2, <4>3 DEF Queued
    <3>2. ASSUME Queued(q, s), s # t PROVE Queued(p, s)
      <4>1. PICK k \in 1 .. Len(q) : q[k].task = s BY <3>2 DEF Queued
      <4>2. k # m BY <2>3, <3>2, <4>1
      <4>3. PICK i \in 1 .. Len(p) : of(i) = k BY <2>9, <4>2
      <4>4. p[i].task = s BY <2>6, <4>1, <4>3
      <4> QED BY <4>4 DEF Queued
    <3> QED BY <3>1, <3>2
  <2> QED BY <2>10, <2>11
<1> QED BY <1>1, <1>2

\* Queue::enqueue puts the task after those of a higher priority.
LEMMA EnqueuedIs ==
    ASSUME NEW q, GoodQueue(q), NEW t \in Task, NEW r \in Int, NEW p, p = Enqueued(q, t, r)
    PROVE  GoodQueue(p) /\ \A s \in Task : Queued(p, s) <=> Queued(q, s) \/ s = t
<1>1. PICK u : u = Without(q, t) OBVIOUS
<1>2. GoodQueue(u) /\ \A s \in Task : Queued(u, s) <=> Queued(q, s) /\ s # t
  BY <1>1, WithoutIs
<1>3. /\ u \in Seq(Entry) /\ Len(u) \in Nat /\ DOMAIN u = 1 .. Len(u)
      /\ \A k \in 1 .. Len(u) : u[k] \in Entry /\ u[k].task \in Task /\ u[k].priority \in Int
  BY <1>2, EntriesOf DEF GoodQueue
<1> DEFINE lower == {k \in DOMAIN u : u[k].priority <= r}
           e == [task |-> t, priority |-> r]
           places == lower \cup {Len(u) + 1}
<1>4. PICK m : m = Min(places) OBVIOUS
<1>5. m \in places /\ \A k \in places : m <= k
  <2>1. places \subseteq Nat /\ places # {} BY <1>3
  <2> HIDE DEF places
  <2> QED BY <1>4, <2>1, MinIsLeast
<1>6. m \in 1 .. Len(u) + 1 BY <1>3, <1>5
<1>7. \A k \in 1 .. Len(u) : k < m => u[k].priority > r
  <2> SUFFICES ASSUME NEW k \in 1 .. Len(u), k < m PROVE u[k].priority > r OBVIOUS
  <2>1. k \notin lower BY <1>5, <1>6, <1>3
  <2> QED BY <1>3, <2>1
<1>8. \A k \in 1 .. Len(u) : k >= m => u[k].priority <= r
  <2> SUFFICES ASSUME NEW k \in 1 .. Len(u), k >= m PROVE u[k].priority <= r OBVIOUS
  <2>1. m # Len(u) + 1 /\ m \in lower BY <1>3, <1>5
  <2>2. u[m].priority <= r /\ m \in 1 .. Len(u) BY <1>3, <2>1
  <2>3. k = m \/ u[m].priority >= u[k].priority BY <1>2, <1>3, <2>2 DEF GoodQueue
  <2> QED BY <1>3, <2>2, <2>3
<1>9. p = InsertAt(u, m, e) BY <1>1, <1>3, <1>4 DEF Enqueued
<1>10. e \in Entry /\ e.task = t /\ e.priority = r BY DEF Entry
<1> HIDE DEF e, lower, places
<1>11. /\ p \in Seq(Entry) /\ Len(p) = Len(u) + 1
       /\ \A i \in 1 .. Len(p) : p[i] = IF i < m THEN u[i] ELSE IF i = m THEN e ELSE u[i - 1]
  <2>1. IsInsertedAt(p, Entry, u, m, e) BY <1>3, <1>6, <1>9, <1>10, InsertedAt
  <2> QED BY <2>1 DEF IsInsertedAt
<1> DEFINE of(i) == IF i < m THEN i ELSE i - 1
<1>12. \A i \in 1 .. Len(p) : i # m => of(i) \in 1 .. Len(u) /\ p[i] = u[of(i)]
  BY <1>3, <1>6, <1>11
<1>13. p[m] = e /\ m \in 1 .. Len(p) BY <1>3, <1>6, <1>11
<1>14. \A i, j \in 1 .. Len(p) : i # m /\ j # m =>
          (i < j => of(i) < of(j)) /\ (of(i) = of(j) => i = j)
  BY <1>3, <1>6, <1>11
<1>15. \A i \in 1 .. Len(p) : (i < m => of(i) < m) /\ (i > m => of(i) >= m)
  BY <1>3, <1>6, <1>11
<1>16. \A k \in 1 .. Len(u) : \E i \in 1 .. Len(p) : i # m /\ of(i) = k
  <2> SUFFICES ASSUME NEW k \in 1 .. Len(u) PROVE \E i \in 1 .. Len(p) : i # m /\ of(i) = k
    OBVIOUS
  <2>1. CASE k < m
    <3>1. k \in 1 .. Len(p) /\ k # m /\ of(k) = k BY <1>3, <1>6, <1>11, <2>1
    <3> QED BY <3>1
  <2>2. CASE k >= m
    <3>1. k + 1 \in 1 .. Len(p) /\ k + 1 # m /\ of(k + 1) = k BY <1>3, <1>6, <1>11, <2>2
    <3> QED BY <3>1
  <2> QED BY <2>1, <2>2, <1>6, <1>3
<1> HIDE DEF of
<1>17. \A k \in 1 .. Len(u) : u[k].task # t
  <2>1. ~Queued(u, t) BY <1>2
  <2> QED BY <2>1 DEF Queued
<1>18. GoodQueue(p)
  <2>1. ASSUME NEW i \in 1 .. Len(p), NEW j \in 1 .. Len(p), p[i].task = p[j].task
        PROVE i = j
    <3>1. CASE i # m /\ j # m
      <4>1. u[of(i)].task = u[of(j)].task /\ of(i) \in 1 .. Len(u) /\ of(j) \in 1 .. Len(u)
        BY <1>12, <2>1, <3>1
      <4>2. of(i) = of(j) BY <1>2, <4>1 DEF GoodQueue
      <4> QED BY <1>14, <3>1, <4>2
    <3>2. CASE i = m /\ j # m BY <1>10, <1>12, <1>13, <1>17, <2>1, <3>2
    <3>3. CASE i # m /\ j = m BY <1>10, <1>12, <1>13, <1>17, <2>1, <3>3
    <3> QED BY <3>1, <3>2, <3>3
  <2>2. ASSUME NEW i \in 1 .. Len(p), NEW j \in 1 .. Len(p), i < j
        PROVE p[i].priority >= p[j].priority
    <3>1. CASE i # m /\ j # m
      <4>1. of(i) < of(j) /\ of(i) \in 1 .. Len(u) /\ of(j) \in 1 .. Len(u)
        BY <1>12, <1>14, <2>2, <3>1
      <4>2. u[of(i)].priority >= u[of(j)].priority BY <1>2, <4>1 DEF GoodQueue
      <4> QED BY <1>12, <3>1, <4>2
    <3>2. CASE i = m
      <4>1. j > m /\ j # m BY <2>2, <3>2, <1>6, <1>3
      <4>2. of(j) >= m /\ of(j) \in 1 .. Len(u) /\ p[j] = u[of(j)] BY <1>12, <1>15, <4>1
      <4>3. u[of(j)].priority <= r BY <1>8, <4>2
      <4>4. p[i].priority = r BY <1>10, <1>13, <3>2
      <4>5. u[of(j)].priority \in Int BY <1>3, <4>2
      <4> QED BY <4>2, <4>3, <4>4, <4>5
    <3>3. CASE j = m
      <4>1. i < m /\ i # m BY <2>2, <3>3, <1>6, <1>3
      <4>2. of(i) < m /\ of(i) \in 1 .. Len(u) /\ p[i] = u[of(i)] BY <1>12, <1>15, <4>1
      <4>3. u[of(i)].priority > r BY <1>7, <4>2
      <4>4. p[j].priority = r BY <1>10, <1>13, <3>3
      <4>5. u[of(i)].priority \in Int BY <1>3, <4>2
      <4> QED BY <4>2, <4>3, <4>4, <4>5
    <3> QED BY <3>1, <3>2, <3>3
  <2> QED BY <1>11, <2>1, <2>2 DEF GoodQueue
<1>19. ASSUME NEW s \in Task PROVE Queued(p, s) <=> Queued(q, s) \/ s = t
  <2>1. ASSUME Queued(p, s), s # t PROVE Queued(q, s)
    <3>1. PICK i \in 1 .. Len(p) : p[i].task = s BY <2>1 DEF Queued
    <3>2. i # m BY <1>10, <1>13, <2>1, <3>1
    <3>3. of(i) \in 1 .. Len(u) /\ u[of(i)].task = s BY <1>12, <3>1, <3>2
    <3>4. Queued(u, s) BY <3>3 DEF Queued
    <3> QED BY <1>2, <3>4
  <2>2. ASSUME Queued(q, s), s # t PROVE Queued(p, s)
    <3>1. Queued(u, s) BY <1>2, <2>2
    <3>2. PICK k \in 1 .. Len(u) : u[k].task = s BY <3>1 DEF Queued
    <3>3. PICK i \in 1 .. Len(p) : i # m /\ of(i) = k BY <1>16
    <3>4. p[i].task = s BY <1>12, <3>2, <3>3
    <3> QED BY <3>4 DEF Queued
  <2>3. Queued(p, t) BY <1>10, <1>13 DEF Queued
  <2> QED BY <2>1, <2>2, <2>3
<1> QED BY <1>18, <1>19

-----------------------------------------------------------------------------
(* The inductive invariant.                                                  *)

Status == {"new", "loading", "finished", "failed", "gone"}
Todo == [task: Task, offset: Offset, session: Index]
Call ==
    [op: {"send", "pop"}] \cup [op: {"recheck", "redirect"}, task: Task]
        \cup [op: {"resend"}, todo: SUBSET Todo]
Post == [op: {"timedOut"}, index: Int] \cup [op: {"moreHashes"}, task: Task]

TaskTypes ==
    /\ status \in [Task -> Status]
    /\ next \in [Task -> 0 .. Parts] /\ fed \in [Task -> SUBSET Offset]
    /\ cdn \in [Task -> BOOLEAN] /\ hashes \in [Task -> SUBSET Offset]
    /\ unchecked \in [Task -> [Offset -> {None} \cup Index]]

RestTypes ==
    /\ queue \in Seq(Entry) /\ resetTimer \in BOOLEAN
    /\ posted \in Seq(Post)
    /\ failed \in BOOLEAN /\ faults \in 0 .. MaxFaults

LoadTypes == GoodBalance(balance) /\ GoodSent(sent)
Types == LoadTypes /\ TaskTypes /\ RestTypes

\* What the calls cs have still to do.
HasCall(cs, op) == \E k \in 1 .. Len(cs) : cs[k].op = op
Leaving(cs) == HasCall(cs, "pop")
Pending(cs, op, t) == \E k \in 1 .. Len(cs) : cs[k].op = op /\ cs[k].task = t
InTodo(cs, d) == \E k \in 1 .. Len(cs) : cs[k].op = "resend" /\ d \in cs[k].todo

\* The removal of a session ends with its pop, and does nothing else.
GoodCalls(cs) ==
    /\ cs \in Seq(Call)
    /\ \A k \in 1 .. Len(cs) : cs[k].op = "pop" => k = Len(cs)
    /\ HasCall(cs, "recheck") \/ HasCall(cs, "redirect") => Leaving(cs)
    /\ Leaving(cs) => ~HasCall(cs, "send") /\ ~HasCall(cs, "resend")

\* The session being removed, None if there is none.
Removed(b, cs) == IF Leaving(cs) THEN Len(b.sessions) ELSE None

QueuedAre(q, st) == \A t \in Task : Queued(q, t) <=> st[t] \in {"loading", "failed"}
AllLoading(S, cs, st) ==
    /\ \A r \in S : st[r.task] = "loading"
    /\ \A d \in Todo : InTodo(cs, d) => st[d.task] = "loading"

\* A session that is removed is not the only one, and its requests will be
\* sent in another.
LeavingOK(b, S, cs) ==
    Leaving(cs) => /\ Len(b.sessions) > 1
                   /\ \A r \in S : r.session = Len(b.sessions) => Pending(cs, "redirect", r.task)

CoreOf(b, S, q, st, cs) ==
    /\ Agrees(b, S, Removed(b, cs))
    /\ GoodQueue(q) /\ QueuedAre(q, st)
    /\ AllLoading(S, cs, st)
    /\ LeavingOK(b, S, cs)

Core == CoreOf(balance, sent, queue, status, calls)
CoreInv == Types /\ GoodCalls(calls) /\ (~failed => Core)

\* What each step keeps.
Kept == Types' /\ GoodCalls(calls') /\ (~failed' => Core')

-----------------------------------------------------------------------------
LEMMA CallsOf ==
    ASSUME NEW cs, cs \in Seq(Call)
    PROVE  /\ Len(cs) \in Nat /\ DOMAIN cs = 1 .. Len(cs)
           /\ \A k \in 1 .. Len(cs) : cs[k] \in Call
  OBVIOUS

LEMMA SendCall == [op |-> "send"] \in Call /\ [op |-> "send"].op = "send"
  BY DEF Call

LEMMA QuietCalls ==
    ASSUME NEW cs, cs = <<>> \/ cs = Send
    PROVE  /\ GoodCalls(cs) /\ ~Leaving(cs) /\ \A d : ~InTodo(cs, d)
           /\ \A op, t : op # "send" => ~Pending(cs, op, t)
<1>1. cs \in Seq(Call) /\ \A k \in 1 .. Len(cs) : cs[k].op = "send"
  <2>1. CASE cs = <<>> BY <2>1
  <2>2. CASE cs = Send
    <3>1. PICK e : e = [op |-> "send"] OBVIOUS
    <3>2. cs = <<e>> /\ e \in Call /\ e.op = "send" BY <2>2, <3>1, SendCall DEF Send
    <3> QED BY <3>2
  <2> QED BY <2>1, <2>2
<1> QED BY <1>1 DEF GoodCalls, Leaving, HasCall, InTodo, Pending

LEMMA QuietCore ==
    ASSUME NEW b, NEW S, NEW q, NEW st, NEW cs,
           cs = <<>> \/ cs = Send,
           Agrees(b, S, None), GoodQueue(q), QueuedAre(q, st), \A r \in S : st[r.task] = "loading"
    PROVE  CoreOf(b, S, q, st, cs)
<1>1. ~Leaving(cs) /\ \A d : ~InTodo(cs, d) BY QuietCalls
<1>2. Removed(b, cs) = None BY <1>1 DEF Removed
<1> QED BY <1>1, <1>2 DEF CoreOf, AllLoading, LeavingOK

LEMMA IdleCore ==
    ASSUME Core, calls = <<>>
    PROVE  /\ Agrees(balance, sent, None) /\ GoodQueue(queue) /\ QueuedAre(queue, status)
           /\ \A r \in sent : status[r.task] = "loading"
<1>1. ~Leaving(calls) BY QuietCalls
<1>2. Removed(balance, calls) = None BY <1>1 DEF Removed
<1> QED BY <1>2 DEF Core, CoreOf, AllLoading

LEMMA SentTyped ==
    ASSUME GoodSent(sent), NEW r \in sent
    PROVE  /\ r \in Request /\ r.task \in Task /\ r.offset \in Offset /\ r.session \in Index
           /\ r.session \in Int /\ r.kind \in Kind
<1>1. r \in Request BY DEF GoodSent
<1> QED BY <1>1, SizesAssumption DEF Request, Kind, Index

LEMMA PostTyped ==
    /\ \A r \in Request : TimedOutPost(r) \in Post
    /\ \A t \in Task : [op |-> "moreHashes", task |-> t] \in Post
<1>1. ASSUME NEW r \in Request PROVE TimedOutPost(r) \in Post
  <2>1. r.session \in Int BY SizesAssumption DEF Request, Index
  <2> QED BY <2>1 DEF TimedOutPost, Post
<1>2. ASSUME NEW t \in Task PROVE [op |-> "moreHashes", task |-> t] \in Post BY DEF Post
<1> QED BY <1>1, <1>2

\* The typing of what an answer posts and counts.
LEMMA AnswerTyped ==
    ASSUME RestTypes, NEW r \in Request, NEW a, IsAnswer(a, r)
    PROVE  a.posted \in Seq(Post) /\ a.faults \in 0 .. MaxFaults
<1>1. posted \in Seq(Post) /\ faults \in 0 .. MaxFaults /\ MaxFaults \in Nat
  BY SizesAssumption DEF RestTypes
<1>2. a.posted \in Seq(Post)
  <2>1. TimedOutPost(r) \in Post BY PostTyped
  <2>2. PICK e : e = TimedOutPost(r) OBVIOUS
  <2>3. a.posted = posted \/ a.posted = Append(posted, e) BY <2>2 DEF IsAnswer
  <2> QED BY <1>1, <2>1, <2>2, <2>3
<1>3. a.faults \in 0 .. MaxFaults BY <1>1 DEF IsAnswer
<1> QED BY <1>2, <1>3

LEMMA FaultTyped ==
    ASSUME RestTypes, NEW kind, Fault(kind)
    PROVE  faults' \in 0 .. MaxFaults
  BY SizesAssumption DEF RestTypes, Fault

\* feedPart keeps the queue in step with the tasks.
FedTo(t, os, l, u) ==
    /\ GoodQueue(queue') /\ QueuedAre(queue', status')
    /\ status' \in [Task -> Status] /\ fed' \in [Task -> SUBSET Offset]
    /\ fed'[t] = fed[t] \cup os /\ \A s \in Task : s # t => fed'[s] = fed[s]
    /\ \/ status' = status
       \/ /\ \A r \in l.sent : r.task # t
          /\ \A o \in Offset : u[o] = None
          /\ next[t] = Parts
          /\ status'[t] = "finished" /\ \A s \in Task : s # t => status'[s] = status[s]

LEMMA FeedIs ==
    ASSUME TaskTypes, GoodQueue(queue), QueuedAre(queue, status),
           NEW t \in Task, status[t] = "loading", NEW os \in SUBSET Offset,
           NEW l, NEW u, Feed(t, os, l, u)
    PROVE  FedTo(t, os, l, u)
<1>1. fed' = [fed EXCEPT ![t] = fed[t] \cup os] /\ fed \in [Task -> SUBSET Offset]
  BY DEF Feed, TaskTypes
<1>2. fed' \in [Task -> SUBSET Offset] /\ fed'[t] = fed[t] \cup os
      /\ \A s \in Task : s # t => fed'[s] = fed[s]
  BY <1>1
<1>3. \/ status' = status /\ queue' = queue
      \/ /\ \A r \in l.sent : r.task # t
         /\ \A o \in Offset : u[o] = None
         /\ next[t] = Parts
         /\ status' = [status EXCEPT ![t] = "finished"] /\ queue' = Without(queue, t)
  BY DEF Feed
<1>4. CASE status' = status /\ queue' = queue BY <1>2, <1>4 DEF TaskTypes, FedTo
<1>5. CASE /\ \A r \in l.sent : r.task # t
           /\ \A o \in Offset : u[o] = None
           /\ next[t] = Parts
           /\ status' = [status EXCEPT ![t] = "finished"] /\ queue' = Without(queue, t)
  <2>1. GoodQueue(queue') /\ \A s \in Task : Queued(queue', s) <=> Queued(queue, s) /\ s # t
    BY <1>5, WithoutIs
  <2>2. status' \in [Task -> Status] /\ status'[t] = "finished"
        /\ \A s \in Task : s # t => status'[s] = status[s]
    BY <1>5 DEF TaskTypes, Status
  <2>3. QueuedAre(queue', status')
    <3> SUFFICES ASSUME NEW s \in Task
                 PROVE Queued(queue', s) <=> status'[s] \in {"loading", "failed"}
      BY DEF QueuedAre
    <3>1. Queued(queue, s) <=> status[s] \in {"loading", "failed"} BY DEF QueuedAre
    <3>2. CASE s = t BY <2>1, <2>2, <3>2
    <3>3. CASE s # t BY <2>1, <2>2, <3>1, <3>3
    <3> QED BY <3>2, <3>3
  <2> QED BY <1>2, <1>5, <2>1, <2>2, <2>3 DEF FedTo
<1> QED BY <1>3, <1>4, <1>5

-----------------------------------------------------------------------------
(* The steps: the answers that are welcome.                                  *)

Ready == Types /\ GoodCalls(calls) /\ Core /\ ~failed

LEMMA LoadSet ==
    ASSUME ~failed, failed \in BOOLEAN, NEW c, NEW T, SetLoad(LoadOf(c, T, TRUE))
    PROVE  balance' = c /\ sent' = T /\ failed' = FALSE
  BY DEF SetLoad, LoadOf

IsPlacedNow(b, S, x, t, o, i, kind) ==
    /\ LoadTypes' /\ failed' \in BOOLEAN
    /\ ~failed' <=> i \in 1 .. Len(b.sessions) /\ Free(S, t, o)
    /\ ~failed' => /\ Agrees(balance', sent', x) /\ Len(balance'.sessions) = Len(b.sessions)
                   /\ \E r \in Request : IsFor(r, t, o, i, kind) /\ sent' = S \cup {r}

LEMMA PlacedSet ==
    ASSUME ~failed, failed \in BOOLEAN, NEW l, NEW b, NEW S, NEW x, NEW t, NEW o, NEW i, NEW kind,
           IsPlaced(l, b, S, x, t, o, i, kind), SetLoad(l)
    PROVE  IsPlacedNow(b, S, x, t, o, i, kind)
<1>1. PICK c, T :
        /\ l = LoadOf(c, T, l.ok) /\ l.ok \in BOOLEAN
        /\ GoodBalance(c) /\ GoodSent(T)
        /\ l.ok <=> i \in 1 .. Len(b.sessions) /\ Free(S, t, o)
        /\ l.ok => /\ Agrees(c, T, x) /\ Len(c.sessions) = Len(b.sessions)
                   /\ \E r \in Request : IsFor(r, t, o, i, kind) /\ T = S \cup {r}
  BY Zenon DEF IsPlaced
<1>2. l.balance = c /\ l.sent = T BY <1>1 DEF LoadOf
<1>3. balance' = c /\ sent' = T /\ failed' = ~l.ok BY <1>1, <1>2 DEF SetLoad
<1>4. LoadTypes' BY <1>1, <1>3 DEF LoadTypes
<1>5. failed' \in BOOLEAN /\ (~failed' <=> l.ok) BY <1>1, <1>3
<1> QED BY <1>1, <1>3, <1>4, <1>5, Zenon DEF IsPlacedNow

LEMMA AnswerSet ==
    ASSUME Ready, Idle, NEW r \in sent, NEW a \in Answers(r)
    PROVE  /\ IsAnswer(a, r) /\ a.posted \in Seq(Post) /\ a.faults \in 0 .. MaxFaults
           /\ \E c : /\ a.load = LoadOf(c, sent \ {r}, TRUE) /\ Agrees(c, sent \ {r}, None)
                     /\ Len(c.sessions) >= Len(balance.sessions)
<1>1. Agrees(balance, sent, None) BY IdleCore DEF Ready, Idle
<1>2. IsAnswer(a, r) BY <1>1, AnswerIs
<1>3. r \in Request BY SentTyped DEF Ready, Types, LoadTypes
<1> QED BY <1>2, <1>3, AnswerTyped DEF Ready, Types, IsAnswer

\* An answer whose part is written.
LEMMA FedKeeps ==
    ASSUME Ready, Idle, NEW r \in sent, NEW a \in Answers(r),
           SetLoad(a.load), posted' = a.posted, faults' = a.faults,
           Feed(r.task, {r.offset}, a.load, unchecked[r.task]),
           calls' = Send, UNCHANGED <<resetTimer, next, cdn, hashes, unchecked>>
    PROVE  Kept
<1>1. PICK c : /\ a.load = LoadOf(c, sent \ {r}, TRUE) /\ Agrees(c, sent \ {r}, None)
               /\ Len(c.sessions) >= Len(balance.sessions)
  BY AnswerSet
<1>2. balance' = c /\ sent' = sent \ {r} /\ failed' = FALSE /\ a.load.sent = sent \ {r}
  <2>1. failed \in BOOLEAN /\ ~failed BY DEF Ready, Types, RestTypes
  <2>2. PICK T : T = sent \ {r} OBVIOUS
  <2>3. SetLoad(LoadOf(c, T, TRUE)) /\ a.load.sent = T BY <1>1, <2>2 DEF LoadOf
  <2> QED BY <2>1, <2>2, <2>3, LoadSet
<1>3. GoodQueue(queue) /\ QueuedAre(queue, status) /\ \A q \in sent : status[q.task] = "loading"
  BY IdleCore DEF Ready, Idle
<1>4. r.task \in Task /\ r.offset \in Offset BY SentTyped DEF Ready, Types, LoadTypes
<1>5. /\ GoodQueue(queue') /\ QueuedAre(queue', status')
      /\ status' \in [Task -> Status] /\ fed' \in [Task -> SUBSET Offset]
      /\ \/ status' = status
         \/ /\ \A q \in a.load.sent : q.task # r.task
            /\ \A s \in Task : s # r.task => status'[s] = status[s]
  <2>1. {r.offset} \in SUBSET Offset /\ status[r.task] = "loading" BY <1>3, <1>4
  <2>2. FedTo(r.task, {r.offset}, a.load, unchecked[r.task])
    BY <1>3, <1>4, <2>1, FeedIs DEF Ready, Types
  <2> QED BY <2>2 DEF FedTo
<1>6. \A q \in sent' : status'[q.task] = "loading"
  <2> SUFFICES ASSUME NEW q \in sent' PROVE status'[q.task] = "loading" OBVIOUS
  <2>1. q \in sent /\ q \in a.load.sent BY <1>2
  <2>2. q.task \in Task BY <2>1, SentTyped DEF Ready, Types, LoadTypes
  <2> QED BY <1>3, <1>5, <2>1, <2>2
<1>7. Agrees(balance', sent', None) BY <1>1, <1>2
<1>8. Core' BY <1>5, <1>6, <1>7, QuietCore DEF Core
<1>9. Types'
  <2>1. LoadTypes' BY <1>7 DEF Agrees, LoadTypes
  <2>2. TaskTypes' BY <1>5 DEF TaskTypes, Ready, Types
  <2>3. RestTypes'
    <3>1. posted' \in Seq(Post) /\ faults' \in 0 .. MaxFaults BY AnswerSet
    <3> QED BY <1>2, <1>5, <3>1 DEF RestTypes, GoodQueue, Ready, Types
  <2> QED BY <2>1, <2>2, <2>3 DEF Types
<1>10. GoodCalls(calls') BY QuietCalls
<1> QED BY <1>8, <1>9, <1>10 DEF Kept

LEMMA PartLoadedKeeps ==
    ASSUME Ready, NEW r \in sent, PartLoaded(r)
    PROVE  Kept
<1>1. Idle BY DEF PartLoaded, Asked
<1>2. PICK a \in Answers(r) :
        /\ SetLoad(a.load) /\ posted' = a.posted /\ faults' = a.faults
        /\ Feed(r.task, {r.offset}, a.load, unchecked[r.task])
  BY DEF PartLoaded
<1>3. calls' = Send /\ UNCHANGED <<resetTimer, next, cdn, hashes, unchecked>> BY DEF PartLoaded
<1> QED BY <1>1, <1>2, <1>3, FedKeeps

LEMMA CdnPartGoodKeeps ==
    ASSUME Ready, NEW r \in sent, CdnPartGood(r)
    PROVE  Kept
<1>1. Idle BY DEF CdnPartGood, Asked
<1>2. PICK a \in Answers(r) :
        /\ SetLoad(a.load) /\ posted' = a.posted /\ faults' = a.faults
        /\ Feed(r.task, {r.offset}, a.load, unchecked[r.task])
  BY DEF CdnPartGood
<1>3. calls' = Send /\ UNCHANGED <<resetTimer, next, cdn, hashes, unchecked>> BY DEF CdnPartGood
<1> QED BY <1>1, <1>2, <1>3, FedKeeps

\* Asking for hashes, or not, while nothing is removed.
LEMMA HashesSet ==
    ASSUME ~failed, failed \in BOOLEAN, NEW b, NEW S, Agrees(b, S, None), NEW t \in Task,
           NEW u \in [Offset -> {None} \cup Index], SetLoad(MoreHashes(LoadOf(b, S, TRUE), t, u))
    PROVE  /\ LoadTypes' /\ failed' \in BOOLEAN
           /\ \/ /\ Waiting(u) = {} \/ HashesRequest(S, t) # {}
                 /\ balance' = b /\ sent' = S /\ failed' = FALSE
              \/ /\ HashesRequest(S, t) = {}
                 /\ \E o \in Offset : u[o] # None /\ IsPlacedNow(b, S, None, t, o, u[o], "hashes")
<1>1. PICK l : l = MoreHashes(LoadOf(b, S, TRUE), t, u) OBVIOUS
<1>2. \/ /\ Waiting(u) = {} \/ HashesRequest(S, t) # {}
         /\ l = LoadOf(b, S, TRUE)
      \/ /\ HashesRequest(S, t) = {}
         /\ \E o \in Offset : u[o] # None /\ IsPlaced(l, b, S, None, t, o, u[o], "hashes")
  BY <1>1, MoreHashesIs
<1>3. SetLoad(l) BY <1>1
<1>4. CASE (Waiting(u) = {} \/ HashesRequest(S, t) # {}) /\ l = LoadOf(b, S, TRUE)
  <2>1. balance' = b /\ sent' = S /\ failed' = FALSE BY <1>3, <1>4, LoadSet
  <2>2. LoadTypes' BY <2>1 DEF LoadTypes, Agrees
  <2> QED BY <1>4, <2>1, <2>2
<1>5. CASE /\ HashesRequest(S, t) = {}
           /\ \E o \in Offset : u[o] # None /\ IsPlaced(l, b, S, None, t, o, u[o], "hashes")
  <2>1. PICK o \in Offset : u[o] # None /\ IsPlaced(l, b, S, None, t, o, u[o], "hashes") BY <1>5
  <2>2. IsPlacedNow(b, S, None, t, o, u[o], "hashes") BY <1>3, <2>1, PlacedSet
  <2>3. LoadTypes' /\ failed' \in BOOLEAN BY <2>2 DEF IsPlacedNow
  <2> QED BY <1>5, <2>1, <2>2, <2>3
<1> QED BY <1>2, <1>4, <1>5

\* Then the load agrees, and the new request, if any, is of a loading task.
LEMMA HashesSetAgrees ==
    ASSUME ~failed, failed \in BOOLEAN, NEW b, NEW S, Agrees(b, S, None), NEW t \in Task,
           NEW u \in [Offset -> {None} \cup Index], SetLoad(MoreHashes(LoadOf(b, S, TRUE), t, u))
    PROVE  /\ LoadTypes' /\ failed' \in BOOLEAN
           /\ ~failed' => /\ Agrees(balance', sent', None)
                          /\ \A q \in sent' : q \in S \/ (q.task = t /\ Waiting(u) # {})
<1>1. /\ LoadTypes' /\ failed' \in BOOLEAN
      /\ \/ /\ Waiting(u) = {} \/ HashesRequest(S, t) # {}
            /\ balance' = b /\ sent' = S /\ failed' = FALSE
         \/ /\ HashesRequest(S, t) = {}
            /\ \E o \in Offset : u[o] # None /\ IsPlacedNow(b, S, None, t, o, u[o], "hashes")
  BY HashesSet
<1>2. ASSUME NEW o \in Offset, u[o] # None, IsPlacedNow(b, S, None, t, o, u[o], "hashes"), ~failed'
      PROVE /\ Agrees(balance', sent', None)
            /\ \A q \in sent' : q \in S \/ (q.task = t /\ Waiting(u) # {})
  <2>1. Agrees(balance', sent', None)
        /\ \E r \in Request : IsFor(r, t, o, u[o], "hashes") /\ sent' = S \cup {r}
    BY <1>2 DEF IsPlacedNow
  <2>2. Waiting(u) # {} BY <1>2 DEF Waiting
  <2> QED BY <2>1, <2>2 DEF IsFor
<1> QED BY <1>1, <1>2

LEMMA CdnPartUncheckedKeeps ==
    ASSUME Ready, NEW r \in sent, CdnPartUnchecked(r)
    PROVE  Kept
<1>0. Idle /\ ~failed /\ failed \in BOOLEAN
  BY DEF CdnPartUnchecked, Asked, Idle, Ready, Types, RestTypes
<1>1. PICK kept : kept = IF unchecked[r.task][r.offset] # None THEN unchecked[r.task]
                         ELSE [unchecked[r.task] EXCEPT ![r.offset] = r.session]
  OBVIOUS
<1>2. /\ unchecked' = [unchecked EXCEPT ![r.task] = kept]
      /\ calls' = Send
      /\ UNCHANGED <<queue, resetTimer, status, next, fed, cdn, hashes>>
  BY <1>1 DEF CdnPartUnchecked
<1>3. PICK a \in Answers(r) :
        /\ SetLoad(MoreHashes(a.load, r.task, kept))
        /\ posted' = a.posted /\ faults' = a.faults
  BY <1>1 DEF CdnPartUnchecked
<1>4. PICK c : a.load = LoadOf(c, sent \ {r}, TRUE) /\ Agrees(c, sent \ {r}, None)
  BY <1>0, AnswerSet
<1>5. r.task \in Task /\ r.offset \in Offset /\ r.session \in Index
  BY SentTyped DEF Ready, Types, LoadTypes
<1>6. kept \in [Offset -> {None} \cup Index]
  <2>1. unchecked[r.task] \in [Offset -> {None} \cup Index]
    BY <1>5 DEF Ready, Types, TaskTypes
  <2> QED BY <1>1, <1>5, <2>1
<1>7. PICK T : T = sent \ {r} OBVIOUS
<1>8. SetLoad(MoreHashes(LoadOf(c, T, TRUE), r.task, kept)) /\ Agrees(c, T, None)
  BY <1>3, <1>4, <1>7
<1>9. /\ LoadTypes' /\ failed' \in BOOLEAN
      /\ ~failed' => /\ Agrees(balance', sent', None)
                     /\ \A q \in sent' : q \in T \/ (q.task = r.task /\ Waiting(kept) # {})
  BY <1>0, <1>5, <1>6, <1>8, HashesSetAgrees
<1>10. GoodQueue(queue) /\ QueuedAre(queue, status) /\ \A q \in sent : status[q.task] = "loading"
  BY <1>0, IdleCore DEF Ready, Idle
<1>11. ASSUME ~failed' PROVE Core'
  <2>1. \A q \in sent' : status'[q.task] = "loading" BY <1>2, <1>7, <1>9, <1>10, <1>11
  <2>2. GoodQueue(queue') /\ QueuedAre(queue', status') BY <1>2, <1>10
  <2> QED BY <1>2, <1>9, <1>11, <2>1, <2>2, QuietCore DEF Core
<1>12. Types'
  <2>1. unchecked' \in [Task -> [Offset -> {None} \cup Index]]
    BY <1>2, <1>5, <1>6 DEF Ready, Types, TaskTypes
  <2>2. TaskTypes' BY <1>2, <2>1 DEF TaskTypes, Ready, Types
  <2>3. posted' \in Seq(Post) /\ faults' \in 0 .. MaxFaults BY <1>0, <1>3, AnswerSet
  <2>4. RestTypes' BY <1>2, <1>9, <2>3 DEF RestTypes, Ready, Types
  <2> QED BY <1>9, <2>2, <2>4 DEF Types
<1>13. GoodCalls(calls') BY <1>2, QuietCalls
<1> QED BY <1>11, <1>12, <1>13 DEF Kept

\* A request that is finished and placed again for the same part.
PlacedAgain(r, kind) ==
    /\ ~failed' /\ Len(balance'.sessions) = Len(balance.sessions)
    /\ \E q \in Request : /\ IsFor(q, r.task, r.offset, r.session, kind)
                          /\ sent' = (sent \ {r}) \cup {q}

LEMMA PlacedAgainKeeps ==
    ASSUME Ready, Idle, NEW r \in sent, NEW kind \in Kind,
           SetLoad(Placed(Finished(Load, r), r.task, r.offset, r.session, kind)),
           TaskTypes', UNCHANGED <<queue, resetTimer, status, calls, posted>>,
           faults' \in 0 .. MaxFaults
    PROVE  Kept /\ PlacedAgain(r, kind)
<1>0. ~failed /\ failed \in BOOLEAN /\ calls = <<>> BY DEF Ready, Types, RestTypes, Idle
<1>1. /\ Agrees(balance, sent, None) /\ GoodQueue(queue) /\ QueuedAre(queue, status)
      /\ \A q \in sent : status[q.task] = "loading"
  BY <1>0, IdleCore DEF Ready
<1>2. /\ r.task \in Task /\ r.offset \in Offset /\ r.session \in Int
      /\ r.session \in 1 .. Len(balance.sessions)
  <2>1. r.session \in 1 .. Len(balance.sessions) BY <1>1 DEF Agrees
  <2> QED BY <2>1, SentTyped DEF Ready, Types, LoadTypes
<1>3. PICK T : T = sent \ {r} OBVIOUS
<1>4. IsLoad(Finished(LoadOf(balance, sent, TRUE), r), T, None, Len(balance.sessions))
  BY <1>1, <1>3, FinishedAgrees
<1>5. Load = LoadOf(balance, sent, TRUE) BY DEF Load, LoadOf
<1>6. PICK c : /\ Finished(Load, r) = LoadOf(c, T, TRUE) /\ Agrees(c, T, None)
               /\ Len(c.sessions) = Len(balance.sessions)
  BY <1>4, <1>5 DEF IsLoad
<1>7. PICK l : l = Placed(LoadOf(c, T, TRUE), r.task, r.offset, r.session, kind) OBVIOUS
<1>8. IsPlaced(l, c, T, None, r.task, r.offset, r.session, kind)
  BY <1>2, <1>6, <1>7, PlacedIs
<1>9. IsPlacedNow(c, T, None, r.task, r.offset, r.session, kind)
  <2>1. SetLoad(l) BY <1>6, <1>7
  <2> QED BY <1>0, <1>8, <2>1, PlacedSet
<1>10. Free(T, r.task, r.offset) BY <1>1, <1>3 DEF Free, Agrees, OnePerOffset
<1>11. ~failed' /\ LoadTypes' /\ failed' \in BOOLEAN
  BY <1>2, <1>6, <1>9, <1>10 DEF IsPlacedNow
<1>12. Agrees(balance', sent', None) /\ Len(balance'.sessions) = Len(balance.sessions)
       /\ \E q \in Request : IsFor(q, r.task, r.offset, r.session, kind) /\ sent' = T \cup {q}
  BY <1>6, <1>9, <1>11 DEF IsPlacedNow
<1>13. \A q \in sent' : status'[q.task] = "loading"
  BY <1>1, <1>3, <1>12 DEF IsFor
<1>14. Core'
  <2>1. GoodQueue(queue') /\ QueuedAre(queue', status') /\ calls' = <<>> BY <1>0, <1>1
  <2> QED BY <1>12, <1>13, <2>1, QuietCore DEF Core
<1>15. Types' BY <1>11 DEF Types, RestTypes, Ready
<1>16. GoodCalls(calls') BY <1>0, QuietCalls
<1> QED BY <1>3, <1>11, <1>12, <1>14, <1>15, <1>16 DEF Kept, PlacedAgain

LEMMA KindsOfParts == \A t : PartKind(t) \in Kind /\ PartKind(t) # "hashes"
  BY DEF PartKind, Kind

LEMMA ReuploadNeededKeeps ==
    ASSUME Ready, NEW r \in sent, ReuploadNeeded(r)
    PROVE  Kept /\ PlacedAgain(r, "reupload")
<1>1. Idle /\ faults' \in 0 .. MaxFaults
  BY FaultTyped DEF ReuploadNeeded, Asked, Ready, Types
<1>2. TaskTypes' BY DEF ReuploadNeeded, taskVars, TaskTypes, Ready, Types
<1>3. "reupload" \in Kind BY DEF Kind
<1>4. UNCHANGED <<queue, resetTimer, status, calls, posted>> BY DEF ReuploadNeeded, taskVars
<1>5. SetLoad(Placed(Finished(Load, r), r.task, r.offset, r.session, "reupload"))
  BY DEF ReuploadNeeded
<1> QED BY <1>1, <1>2, <1>3, <1>4, <1>5, PlacedAgainKeeps

LEMMA GivenHashesTyped == GivenHashes \subseteq SUBSET Offset
  BY DEF GivenHashes

LEMMA ReuploadDoneKeeps ==
    ASSUME Ready, NEW r \in sent, ReuploadDone(r)
    PROVE  Kept /\ PlacedAgain(r, PartKind(r.task))
<1>1. Idle /\ faults' = faults /\ r.task \in Task
  BY SentTyped DEF ReuploadDone, Asked, Ready, Types, LoadTypes
<1>2. TaskTypes'
  <2>1. PICK hs \in GivenHashes : hashes' = [hashes EXCEPT ![r.task] = @ \cup hs]
    BY DEF ReuploadDone
  <2>2. hashes' \in [Task -> SUBSET Offset]
    BY <1>1, <2>1, GivenHashesTyped DEF TaskTypes, Ready, Types
  <2> QED BY <2>2 DEF ReuploadDone, TaskTypes, Ready, Types
<1>3. PICK kind \in Kind : kind = PartKind(r.task) BY KindsOfParts
<1>4. UNCHANGED <<queue, resetTimer, status, calls, posted>> BY DEF ReuploadDone
<1>5. SetLoad(Placed(Finished(Load, r), r.task, r.offset, r.session, kind))
  BY <1>3 DEF ReuploadDone
<1>6. faults' \in 0 .. MaxFaults BY <1>1 DEF Ready, Types, RestTypes
<1> QED BY <1>1, <1>2, <1>3, <1>4, <1>5, <1>6, PlacedAgainKeeps

LEMMA RefreshedKeeps ==
    ASSUME Ready, NEW r \in sent, Refreshed(r)
    PROVE  Kept /\ PlacedAgain(r, PartKind(r.task))
<1>1. Idle /\ faults' = faults BY DEF Refreshed
<1>2. TaskTypes' BY DEF Refreshed, taskVars, TaskTypes, Ready, Types
<1>3. PICK kind \in Kind : kind = PartKind(r.task) BY KindsOfParts
<1>4. UNCHANGED <<queue, resetTimer, status, calls, posted>> BY DEF Refreshed, taskVars
<1>5. SetLoad(Placed(Finished(Load, r), r.task, r.offset, r.session, kind))
  BY <1>3 DEF Refreshed
<1>6. faults' \in 0 .. MaxFaults BY <1>1 DEF Ready, Types, RestTypes
<1> QED BY <1>1, <1>2, <1>3, <1>4, <1>5, <1>6, PlacedAgainKeeps

-----------------------------------------------------------------------------
(* The steps: the other answers.                                             *)

LEMMA HashesDoneKeeps ==
    ASSUME Ready, NEW r \in sent, HashesDone(r)
    PROVE  Kept
<1>0. Idle /\ ~failed /\ failed \in BOOLEAN
  BY DEF HashesDone, Asked, Idle, Ready, Types, RestTypes
<1>1. PICK t : t = r.task OBVIOUS
<1>2. t \in Task /\ r.offset \in Offset BY <1>1, SentTyped DEF Ready, Types, LoadTypes
<1>3. PICK hs, known, left :
        /\ hs \in SUBSET Offset
        /\ known = hashes[t] \cup hs
        /\ left = [o \in Offset |-> IF o \in known THEN None ELSE unchecked[t][o]]
        /\ hashes' = [hashes EXCEPT ![t] = known]
        /\ unchecked' = [unchecked EXCEPT ![t] = left]
        /\ SetLoad(MoreHashes(Finished(Load, r), t, left))
        /\ Feed(t, Unchecked(t) \cap known, Finished(Load, r), left)
        /\ calls' = IF status'[t] = "finished" THEN Send ELSE <<>>
        /\ UNCHANGED <<resetTimer, next, cdn, posted, faults>>
  <2>1. {{r.offset}, Offset} \subseteq SUBSET Offset BY <1>2
  <2>2. PICK hs \in {{r.offset}, Offset} :
        LET known == hashes[t] \cup hs
            good == Unchecked(t) \cap known
            left == [o \in Offset |-> IF o \in known THEN None ELSE unchecked[t][o]]
        IN /\ hashes' = [hashes EXCEPT ![t] = known]
           /\ unchecked' = [unchecked EXCEPT ![t] = left]
           /\ SetLoad(MoreHashes(Finished(Load, r), t, left))
           /\ Feed(t, good, Finished(Load, r), left)
           /\ calls' = IF status'[t] = "finished" THEN Send ELSE <<>>
    BY <1>1 DEF HashesDone
  <2>3. UNCHANGED <<resetTimer, next, cdn, posted, faults>> BY DEF HashesDone
  <2>4. hs \in SUBSET Offset BY <2>1
  <2>5. PICK known : known = hashes[t] \cup hs OBVIOUS
  <2>6. PICK left : left = [o \in Offset |-> IF o \in known THEN None ELSE unchecked[t][o]] OBVIOUS
  <2> QED BY <2>2, <2>3, <2>4, <2>5, <2>6
<1>4. known \in SUBSET Offset /\ left \in [Offset -> {None} \cup Index]
  <2>1. hashes[t] \in SUBSET Offset /\ unchecked[t] \in [Offset -> {None} \cup Index]
    BY <1>2 DEF Ready, Types, TaskTypes
  <2> QED BY <1>3, <2>1
<1>5. /\ Agrees(balance, sent, None) /\ GoodQueue(queue) /\ QueuedAre(queue, status)
      /\ \A q \in sent : status[q.task] = "loading"
  BY <1>0, IdleCore DEF Ready, Idle
<1>6. PICK T : T = sent \ {r} OBVIOUS
<1>7. IsLoad(Finished(LoadOf(balance, sent, TRUE), r), T, None, Len(balance.sessions))
  BY <1>5, <1>6, FinishedAgrees
<1>8. Load = LoadOf(balance, sent, TRUE) BY DEF Load, LoadOf
<1>9. PICK c : Finished(Load, r) = LoadOf(c, T, TRUE) /\ Agrees(c, T, None)
  BY <1>7, <1>8 DEF IsLoad
<1>10. SetLoad(MoreHashes(LoadOf(c, T, TRUE), t, left)) BY <1>3, <1>9
<1>11. /\ LoadTypes' /\ failed' \in BOOLEAN
       /\ ~failed' => /\ Agrees(balance', sent', None)
                      /\ \A q \in sent' : q \in T \/ (q.task = t /\ Waiting(left) # {})
  BY <1>0, <1>2, <1>4, <1>9, <1>10, HashesSetAgrees
<1>12. PICK l : l = LoadOf(c, T, TRUE) OBVIOUS
<1>13. l.sent = T BY <1>12 DEF LoadOf
<1>14. /\ GoodQueue(queue') /\ QueuedAre(queue', status')
       /\ status' \in [Task -> Status] /\ fed' \in [Task -> SUBSET Offset]
       /\ \/ status' = status
          \/ /\ \A q \in l.sent : q.task # t
             /\ \A o \in Offset : left[o] = None
             /\ \A s \in Task : s # t => status'[s] = status[s]
  <2>0. PICK os : os = Unchecked(t) \cap known OBVIOUS
  <2>1. Feed(t, os, l, left) BY <1>3, <1>9, <1>12, <2>0
  <2>2. os \in SUBSET Offset BY <1>4, <2>0
  <2>3. status[t] = "loading" BY <1>1, <1>5
  <2>4. FedTo(t, os, l, left) BY <1>2, <1>5, <2>1, <2>2, <2>3, FeedIs DEF Ready, Types
  <2> QED BY <2>4 DEF FedTo
<1>15. ASSUME ~failed' PROVE Core'
  <2>1. \A q \in sent' : status'[q.task] = "loading"
    <3> SUFFICES ASSUME NEW q \in sent' PROVE status'[q.task] = "loading" OBVIOUS
    <3>1. q \in T \/ (q.task = t /\ Waiting(left) # {}) BY <1>11, <1>15
    <3>2. status[q.task] = "loading" BY <1>1, <1>5, <1>6, <3>1
    <3>3. CASE status' = status BY <3>2, <3>3
    <3>4. CASE /\ \A p \in l.sent : p.task # t
               /\ \A o \in Offset : left[o] = None
               /\ \A s \in Task : s # t => status'[s] = status[s]
      <4>1. Waiting(left) = {} BY <3>4 DEF Waiting
      <4>2. q \in T /\ q.task # t BY <1>13, <3>1, <3>4, <4>1
      <4>3. q.task \in Task BY <1>6, <4>2, SentTyped DEF Ready, Types, LoadTypes
      <4> QED BY <3>2, <3>4, <4>2, <4>3
    <3> QED BY <1>14, <3>3, <3>4
  <2>2. calls' = <<>> \/ calls' = Send BY <1>3
  <2> QED BY <1>11, <1>14, <1>15, <2>1, <2>2, QuietCore DEF Core
<1>16. Types'
  <2>1. hashes' \in [Task -> SUBSET Offset] /\ unchecked' \in [Task -> [Offset -> {None} \cup Index]]
    BY <1>2, <1>3, <1>4 DEF Ready, Types, TaskTypes
  <2>2. TaskTypes' BY <1>3, <1>14, <2>1 DEF TaskTypes, Ready, Types
  <2>3. RestTypes' BY <1>3, <1>11, <1>14 DEF RestTypes, GoodQueue, Ready, Types
  <2> QED BY <1>11, <2>2, <2>3 DEF Types
<1>17. GoodCalls(calls') BY <1>3, QuietCalls
<1> QED BY <1>15, <1>16, <1>17 DEF Kept

\* The calls of changeCDNParams.
IsResend(cs, X, Y) ==
    /\ GoodCalls(cs) /\ ~Leaving(cs) /\ Len(cs) >= 2
    /\ \A d : InTodo(cs, d) <=> d \in X \/ d \in Y
    /\ \A k \in 1 .. Len(cs) : cs[k].op = "resend" => k = 1 \/ k = 2
    /\ cs[1].todo = X /\ cs[2].todo = Y

LEMMA ResendCalls ==
    ASSUME NEW X \in SUBSET Todo, NEW Y \in SUBSET Todo, NEW after, after = <<>> \/ after = Send,
           NEW cs, cs = <<[op |-> "resend", todo |-> X], [op |-> "resend", todo |-> Y]>> \o after
    PROVE  IsResend(cs, X, Y)
<1>1. PICK e : e = [op |-> "resend", todo |-> X] OBVIOUS
<1>2. PICK f : f = [op |-> "resend", todo |-> Y] OBVIOUS
<1>3. e \in Call /\ e.op = "resend" /\ e.todo = X BY <1>1 DEF Call
<1>4. f \in Call /\ f.op = "resend" /\ f.todo = Y BY <1>2 DEF Call
<1>5. PICK two : two = <<e, f>> OBVIOUS
<1>6. two \in Seq(Call) /\ Len(two) = 2 /\ two[1] = e /\ two[2] = f BY <1>3, <1>4, <1>5
<1>7. after \in Seq(Call) /\ Len(after) \in Nat /\ \A k \in 1 .. Len(after) : after[k].op = "send"
  <2>1. CASE after = <<>> BY <2>1
  <2>2. CASE after = Send
    <3>1. PICK g : g = [op |-> "send"] OBVIOUS
    <3>2. after = <<g>> /\ g \in Call /\ g.op = "send" BY <2>2, <3>1, SendCall DEF Send
    <3> QED BY <3>2
  <2> QED BY <2>1, <2>2
<1>8. /\ cs \in Seq(Call) /\ Len(cs) = Len(two) + Len(after)
      /\ \A k \in 1 .. Len(two) + Len(after) :
            cs[k] = IF k <= Len(two) THEN two[k] ELSE after[k - Len(two)]
  <2>1. cs = two \o after BY <1>1, <1>2, <1>5
  <2> QED BY <1>6, <1>7, <2>1, ConcatProperties
<1>9. cs[1] = e /\ cs[2] = f /\ Len(cs) >= 2 /\ Len(cs) \in Nat BY <1>6, <1>7, <1>8
<1>10. \A k \in 1 .. Len(cs) : k = 1 \/ k = 2 \/ cs[k].op = "send"
  <2> SUFFICES ASSUME NEW k \in 1 .. Len(cs), k # 1, k # 2 PROVE cs[k].op = "send" OBVIOUS
  <2>1. cs[k] = after[k - 2] /\ k - 2 \in 1 .. Len(after) BY <1>6, <1>7, <1>8
  <2> QED BY <1>7, <2>1
<1>11. \A k \in 1 .. Len(cs) : (k = 1 /\ cs[k].op = "resend") \/ (k = 2 /\ cs[k].op = "resend")
                                \/ cs[k].op = "send"
  BY <1>3, <1>4, <1>9, <1>10
<1>12. ~Leaving(cs) /\ ~HasCall(cs, "recheck") /\ ~HasCall(cs, "redirect")
  BY <1>11 DEF Leaving, HasCall
<1>13. GoodCalls(cs)
  <2>1. \A k \in 1 .. Len(cs) : cs[k].op # "pop" BY <1>11
  <2> QED BY <1>8, <1>12, <2>1 DEF GoodCalls
<1>14. \A k \in 1 .. Len(cs) : cs[k].op = "resend" => k = 1 \/ k = 2 BY <1>11
<1>15. \A d : InTodo(cs, d) <=> d \in X \/ d \in Y
  <2>1. 1 \in 1 .. Len(cs) /\ 2 \in 1 .. Len(cs) BY <1>9
  <2> QED BY <1>3, <1>4, <1>9, <1>14, <2>1 DEF InTodo
<1> QED BY <1>3, <1>4, <1>9, <1>12, <1>13, <1>14, <1>15 DEF IsResend

LEMMA DataTyped ==
    ASSUME NEW r \in Request
    PROVE  /\ Data(r) \in Todo
           /\ Data(r).task = r.task /\ Data(r).offset = r.offset /\ Data(r).session = r.session
  BY DEF Data, Todo, Request

\* changeCDNParams after r has been finished in the load of c and T.
ChangesTo(r, T, others) ==
    /\ failed' = FALSE /\ sent' = T \ others /\ Agrees(balance', sent', None)
    /\ GoodCalls(calls') /\ ~Leaving(calls') /\ Len(calls') >= 2
    /\ \A d : InTodo(calls', d) <=> d \in {Data(q) : q \in others \cup {r}}
    /\ \A k \in 1 .. Len(calls') : calls'[k].op = "resend" => k = 1 \/ k = 2
    /\ calls'[1].todo = {Data(q) : q \in others} /\ calls'[2].todo = {Data(r)}

LEMMA ChangedParams ==
    ASSUME ~failed, failed \in BOOLEAN, NEW c, NEW T, Agrees(c, T, None), NEW r \in Request,
           NEW l, l = LoadOf(c, T, TRUE),
           NEW isCdn, NEW hs, NEW after, after = <<>> \/ after = Send,
           ChangeCDNParams(r, l, isCdn, hs, after),
           NEW others, others = {q \in T : q.task = r.task}
    PROVE  ChangesTo(r, T, others) /\ Len(balance'.sessions) = Len(c.sessions)
<1>1. others \in SUBSET T /\ l.sent = T /\ T \subseteq Request BY DEF LoadOf, Agrees, GoodSent
<1>2. PICK U : U = T \ others OBVIOUS
<1>3. IsLoad(FinishAll(LoadOf(c, T, TRUE), others), U, None, Len(c.sessions))
  BY <1>1, <1>2, FinishAllAgrees
<1>4. PICK d : /\ FinishAll(l, others) = LoadOf(d, U, TRUE) /\ Agrees(d, U, None)
               /\ Len(d.sessions) = Len(c.sessions)
  BY <1>3 DEF IsLoad
<1>5. PICK X : X = {Data(q) : q \in others} OBVIOUS
<1>6. PICK Y : Y = {Data(r)} OBVIOUS
<1>7. /\ SetLoad(FinishAll(l, others))
      /\ calls' = <<[op |-> "resend", todo |-> X], [op |-> "resend", todo |-> Y]>> \o after
  BY <1>1, <1>5, <1>6 DEF ChangeCDNParams
<1>8. balance' = d /\ sent' = U /\ failed' = FALSE
  <2>1. SetLoad(LoadOf(d, U, TRUE)) BY <1>4, <1>7
  <2> QED BY <2>1, LoadSet
<1>9. X \in SUBSET Todo /\ Y \in SUBSET Todo
  BY <1>1, <1>5, <1>6, DataTyped
<1>10. /\ GoodCalls(calls') /\ ~Leaving(calls') /\ Len(calls') >= 2
       /\ \A e : InTodo(calls', e) <=> e \in X \/ e \in Y
       /\ \A k \in 1 .. Len(calls') : calls'[k].op = "resend" => k = 1 \/ k = 2
       /\ calls'[1].todo = X /\ calls'[2].todo = Y
  <2>1. IsResend(calls', X, Y) BY <1>7, <1>9, ResendCalls
  <2> QED BY <2>1 DEF IsResend
<1>11. \A e : (e \in X \/ e \in Y) <=> e \in {Data(q) : q \in others \cup {r}} BY <1>5, <1>6
<1> QED BY <1>2, <1>4, <1>5, <1>6, <1>8, <1>10, <1>11 DEF ChangesTo

\* Then what is sent again is of the task of r, which is loading.
LEMMA ChangesKeep ==
    ASSUME Ready, Idle, NEW r \in sent, NEW T, T = sent \ {r}, NEW others,
           others = {q \in T : q.task = r.task}, ChangesTo(r, T, others),
           TaskTypes', UNCHANGED <<queue, resetTimer, status>>,
           posted' \in Seq(Post), faults' \in 0 .. MaxFaults
    PROVE  Kept
<1>1. /\ GoodQueue(queue) /\ QueuedAre(queue, status)
      /\ \A q \in sent : status[q.task] = "loading"
  BY IdleCore DEF Ready, Idle
<1>2. /\ failed' = FALSE /\ sent' = T \ others /\ Agrees(balance', sent', None)
      /\ GoodCalls(calls') /\ ~Leaving(calls')
      /\ \A d : InTodo(calls', d) <=> d \in {Data(q) : q \in others \cup {r}}
  BY DEF ChangesTo
<1>3. Removed(balance', calls') = None BY <1>2 DEF Removed
<1>4. \A q \in others \cup {r} : q \in sent /\ q \in Request BY DEF Ready, Types, LoadTypes, GoodSent
<1>5. AllLoading(sent', calls', status')
  <2>1. \A q \in sent' : status'[q.task] = "loading" BY <1>1, <1>2
  <2>2. ASSUME NEW d \in Todo, InTodo(calls', d) PROVE status'[d.task] = "loading"
    <3>1. PICK q \in others \cup {r} : d = Data(q) BY <1>2, <2>2
    <3> QED BY <1>1, <1>4, <3>1, DataTyped
  <2> QED BY <2>1, <2>2 DEF AllLoading
<1>6. Core' BY <1>1, <1>2, <1>3, <1>5 DEF Core, CoreOf, LeavingOK
<1>7. Types'
  <2>1. LoadTypes' BY <1>2 DEF LoadTypes, Agrees
  <2>2. RestTypes' BY <1>2 DEF RestTypes, Ready, Types
  <2> QED BY <2>1, <2>2 DEF Types
<1> QED BY <1>2, <1>6, <1>7 DEF Kept

LEMMA RedirectedKeeps ==
    ASSUME Ready, NEW r \in sent, Redirected(r)
    PROVE  /\ Kept
           /\ ChangesTo(r, sent \ {r}, {q \in sent \ {r} : q.task = r.task})
           /\ Len(balance'.sessions) >= Len(balance.sessions)
           /\ posted' \in {posted, Append(posted, TimedOutPost(r))}
<1>0. Idle /\ ~failed /\ failed \in BOOLEAN
  BY DEF Redirected, Asked, Idle, Ready, Types, RestTypes
<1>1. PICK a \in Answers(r), hs \in GivenHashes :
        /\ a.faults = faults /\ posted' = a.posted
        /\ ChangeCDNParams(r, a.load, TRUE, hs, Send)
  BY DEF Redirected
<1>2. UNCHANGED <<queue, resetTimer, status, next, fed, unchecked>> BY DEF Redirected
<1>3. PICK c : /\ a.load = LoadOf(c, sent \ {r}, TRUE) /\ Agrees(c, sent \ {r}, None)
               /\ Len(c.sessions) >= Len(balance.sessions)
  BY <1>0, AnswerSet
<1>4. a.posted \in {posted, Append(posted, TimedOutPost(r))} /\ a.posted \in Seq(Post)
  BY <1>0, AnswerSet DEF IsAnswer
<1>5. r \in Request /\ r.task \in Task BY SentTyped DEF Ready, Types, LoadTypes
<1>6. PICK T : T = sent \ {r} OBVIOUS
<1>7. PICK others : others = {q \in T : q.task = r.task} OBVIOUS
<1>8. PICK l : l = a.load OBVIOUS
<1>9. ChangeCDNParams(r, l, TRUE, hs, Send) /\ l = LoadOf(c, T, TRUE) /\ Agrees(c, T, None)
  BY <1>1, <1>3, <1>6, <1>8
<1>10. ChangesTo(r, T, others) /\ Len(balance'.sessions) = Len(c.sessions)
  BY <1>0, <1>5, <1>7, <1>9, ChangedParams
<1>11. TaskTypes'
  <2>1. cdn' = [cdn EXCEPT ![r.task] = TRUE] /\ hashes' = [hashes EXCEPT ![r.task] = @ \cup hs]
    BY <1>1 DEF ChangeCDNParams
  <2>2. hs \in SUBSET Offset BY GivenHashesTyped
  <2>3. cdn' \in [Task -> BOOLEAN] BY <1>5, <2>1 DEF TaskTypes, Ready, Types
  <2>4. hashes' \in [Task -> SUBSET Offset] BY <1>5, <2>1, <2>2 DEF TaskTypes, Ready, Types
  <2> QED BY <1>2, <2>3, <2>4 DEF TaskTypes, Ready, Types
<1>12. faults' \in 0 .. MaxFaults
  BY FaultTyped DEF Redirected, Ready, Types
<1>13. posted' \in Seq(Post) BY <1>1, <1>4
<1>14. Kept BY <1>0, <1>2, <1>6, <1>7, <1>10, <1>11, <1>12, <1>13, ChangesKeep
<1> QED BY <1>1, <1>3, <1>4, <1>6, <1>7, <1>10, <1>14

LEMMA RefuseTokenKeeps ==
    ASSUME Ready, NEW r \in sent, RefuseToken(r)
    PROVE  /\ Kept
           /\ ChangesTo(r, sent \ {r}, {q \in sent \ {r} : q.task = r.task})
           /\ Len(balance'.sessions) = Len(balance.sessions)
<1>0. Idle /\ ~failed /\ failed \in BOOLEAN
  BY DEF RefuseToken, Asked, Idle, Ready, Types, RestTypes
<1>1. ChangeCDNParams(r, Finished(Load, r), FALSE, {}, <<>>) BY DEF RefuseToken
<1>2. UNCHANGED <<queue, resetTimer, status, next, fed, unchecked, posted>> BY DEF RefuseToken
<1>3. r \in Request /\ r.task \in Task BY SentTyped DEF Ready, Types, LoadTypes
<1>4. PICK T : T = sent \ {r} OBVIOUS
<1>5. PICK others : others = {q \in T : q.task = r.task} OBVIOUS
<1>6. Agrees(balance, sent, None) BY <1>0, IdleCore DEF Ready, Idle
<1>7. IsLoad(Finished(LoadOf(balance, sent, TRUE), r), T, None, Len(balance.sessions))
  BY <1>4, <1>6, FinishedAgrees
<1>8. Load = LoadOf(balance, sent, TRUE) BY DEF Load, LoadOf
<1>9. PICK c : /\ Finished(Load, r) = LoadOf(c, T, TRUE) /\ Agrees(c, T, None)
               /\ Len(c.sessions) = Len(balance.sessions)
  BY <1>7, <1>8 DEF IsLoad
<1>10. PICK l : l = Finished(Load, r) OBVIOUS
<1>11. ChangeCDNParams(r, l, FALSE, {}, <<>>) /\ l = LoadOf(c, T, TRUE) BY <1>1, <1>9, <1>10
<1>12. ChangesTo(r, T, others) /\ Len(balance'.sessions) = Len(c.sessions)
  BY <1>0, <1>3, <1>5, <1>9, <1>11, ChangedParams
<1>13. TaskTypes'
  <2>1. cdn' = [cdn EXCEPT ![r.task] = FALSE] /\ hashes' = [hashes EXCEPT ![r.task] = @ \cup {}]
    BY <1>1 DEF ChangeCDNParams
  <2>2. cdn' \in [Task -> BOOLEAN] BY <1>3, <2>1 DEF TaskTypes, Ready, Types
  <2>3. hashes' \in [Task -> SUBSET Offset] BY <1>3, <2>1 DEF TaskTypes, Ready, Types
  <2> QED BY <1>2, <2>2, <2>3 DEF TaskTypes, Ready, Types
<1>14. faults' \in 0 .. MaxFaults
  BY FaultTyped DEF RefuseToken, Ready, Types
<1>15. posted' \in Seq(Post) BY <1>2 DEF RestTypes, Ready, Types
<1>16. Kept BY <1>0, <1>2, <1>4, <1>5, <1>12, <1>13, <1>14, <1>15, ChangesKeep
<1> QED BY <1>4, <1>5, <1>9, <1>12, <1>16

LEMMA CancelKeeps ==
    ASSUME Ready, Idle, NEW t \in Task, status[t] = "loading",
           NEW c, NEW T, T \subseteq sent, Agrees(c, T, None), NEW l, l = LoadOf(c, T, TRUE),
           NEW later \in Seq(Post), CancelAll(t, l, later),
           UNCHANGED <<queue, resetTimer, next, fed, cdn, hashes>>,
           faults' \in 0 .. MaxFaults, calls' = <<>> \/ calls' = Send
    PROVE  /\ Kept /\ failed' = FALSE /\ Len(balance'.sessions) = Len(c.sessions)
           /\ sent' = {r \in T : r.task # t}
<1>0. ~failed /\ failed \in BOOLEAN /\ l.sent = T BY DEF Ready, Types, RestTypes, LoadOf
<1>1. /\ GoodQueue(queue) /\ QueuedAre(queue, status)
      /\ \A q \in sent : status[q.task] = "loading"
  BY IdleCore DEF Ready, Idle
<1>2. PICK X : X = {r \in T : r.task = t} OBVIOUS
<1>3. PICK U : U = T \ X OBVIOUS
<1>4. IsLoad(FinishAll(LoadOf(c, T, TRUE), X), U, None, Len(c.sessions))
  BY <1>2, <1>3, FinishAllAgrees
<1>5. PICK d : /\ FinishAll(l, X) = LoadOf(d, U, TRUE) /\ Agrees(d, U, None)
               /\ Len(d.sessions) = Len(c.sessions)
  BY <1>4 DEF IsLoad
<1>6. balance' = d /\ sent' = U /\ failed' = FALSE
  <2>1. SetLoad(FinishAll(l, X)) BY <1>0, <1>2 DEF CancelAll
  <2>2. SetLoad(LoadOf(d, U, TRUE)) BY <1>5, <2>1
  <2> QED BY <1>0, <2>2, LoadSet
<1>7. status' \in [Task -> Status] /\ status'[t] = "failed" /\ \A s \in Task : s # t => status'[s] = status[s]
  BY DEF CancelAll, Ready, Types, TaskTypes, Status
<1>8. QueuedAre(queue', status')
  <2> SUFFICES ASSUME NEW s \in Task PROVE Queued(queue', s) <=> status'[s] \in {"loading", "failed"}
    BY DEF QueuedAre
  <2>1. Queued(queue, s) <=> status[s] \in {"loading", "failed"} BY <1>1 DEF QueuedAre
  <2>2. CASE s = t BY <1>7, <2>1, <2>2
  <2>3. CASE s # t BY <1>7, <2>1, <2>3
  <2> QED BY <2>2, <2>3
<1>9. \A q \in sent' : status'[q.task] = "loading"
  <2> SUFFICES ASSUME NEW q \in sent' PROVE status'[q.task] = "loading" OBVIOUS
  <2>1. q \in sent /\ q.task # t BY <1>2, <1>3, <1>6
  <2>2. q.task \in Task BY <2>1, SentTyped DEF Ready, Types, LoadTypes
  <2> QED BY <1>1, <1>7, <2>1, <2>2
<1>10. Core'
  <2>1. GoodQueue(queue') BY <1>1
  <2> QED BY <1>5, <1>6, <1>8, <1>9, <2>1, QuietCore DEF Core
<1>11. Types'
  <2>1. unchecked' \in [Task -> [Offset -> {None} \cup Index]]
    <3>1. PICK u : u = [o \in Offset |-> None] OBVIOUS
    <3>2. u \in [Offset -> {None} \cup Index] BY <3>1
    <3>3. unchecked' = [unchecked EXCEPT ![t] = u] BY <3>1 DEF CancelAll
    <3> QED BY <3>2, <3>3 DEF Ready, Types, TaskTypes
  <2>2. TaskTypes' BY <1>7, <2>1 DEF TaskTypes, Ready, Types
  <2>3. posted' \in Seq(Post)
    <3>1. PICK p : p = [op |-> "moreHashes", task |-> t] OBVIOUS
    <3>2. p \in Post BY <3>1, PostTyped
    <3>3. posted' = Append(later, p) \/ posted' = later BY <3>1 DEF CancelAll
    <3> QED BY <3>2, <3>3
  <2>4. RestTypes' BY <1>6, <2>3 DEF RestTypes, Ready, Types
  <2>5. LoadTypes' BY <1>5, <1>6 DEF LoadTypes, Agrees
  <2> QED BY <2>2, <2>4, <2>5 DEF Types
<1>12. GoodCalls(calls') BY QuietCalls
<1>13. sent' = {r \in T : r.task # t} BY <1>2, <1>3, <1>6
<1> QED BY <1>5, <1>6, <1>10, <1>11, <1>12, <1>13 DEF Kept

LEMMA CdnPartInvalidKeeps ==
    ASSUME Ready, NEW r \in sent, CdnPartInvalid(r)
    PROVE  /\ Kept /\ failed' = FALSE /\ Len(balance'.sessions) >= Len(balance.sessions)
           /\ sent' = {q \in sent \ {r} : q.task # r.task}
<1>0. Idle BY DEF CdnPartInvalid, Asked
<1>1. PICK a \in Answers(r) : a.faults = faults /\ CancelAll(r.task, a.load, a.posted)
  BY DEF CdnPartInvalid
<1>2. /\ calls' = Send /\ UNCHANGED <<queue, resetTimer, next, fed, cdn, hashes>>
      /\ faults' \in 0 .. MaxFaults
  BY FaultTyped DEF CdnPartInvalid, Ready, Types
<1>3. PICK c : /\ a.load = LoadOf(c, sent \ {r}, TRUE) /\ Agrees(c, sent \ {r}, None)
               /\ Len(c.sessions) >= Len(balance.sessions)
  BY <1>0, AnswerSet
<1>4. a.posted \in Seq(Post) BY <1>0, AnswerSet
<1>5. r.task \in Task BY SentTyped DEF Ready, Types, LoadTypes
<1>6. PICK T : T = sent \ {r} OBVIOUS
<1>7. PICK l, later, t : l = a.load /\ later = a.posted /\ t = r.task OBVIOUS
<1>8. status[t] = "loading" BY <1>0, <1>7, IdleCore DEF Ready, Idle
<1>9. /\ Kept /\ failed' = FALSE /\ Len(balance'.sessions) = Len(c.sessions)
      /\ sent' = {q \in T : q.task # t}
  <2>1. T \subseteq sent /\ Agrees(c, T, None) /\ l = LoadOf(c, T, TRUE) BY <1>3, <1>6, <1>7
  <2>2. CancelAll(t, l, later) /\ later \in Seq(Post) /\ t \in Task BY <1>1, <1>4, <1>5, <1>7
  <2> QED BY <1>0, <1>2, <1>8, <2>1, <2>2, CancelKeeps
<1> QED BY <1>3, <1>6, <1>7, <1>9

LEMMA CancelNow ==
    ASSUME Ready, Idle, NEW t \in Task, status[t] = "loading", CancelAll(t, Load, posted),
           UNCHANGED <<queue, resetTimer, next, fed, cdn, hashes, calls>>, faults' \in 0 .. MaxFaults
    PROVE  /\ Kept /\ failed' = FALSE /\ Len(balance'.sessions) = Len(balance.sessions)
           /\ sent' = {q \in sent : q.task # t}
<1>1. Agrees(balance, sent, None) BY IdleCore DEF Ready, Idle
<1>2. PICK l : l = Load OBVIOUS
<1>3. l = LoadOf(balance, sent, TRUE) BY <1>2 DEF Load, LoadOf
<1>4. calls' = <<>> BY DEF Idle
<1>5. posted \in Seq(Post) BY DEF Ready, Types, RestTypes
<1> QED BY <1>1, <1>2, <1>3, <1>4, <1>5, CancelKeeps

LEMMA RefuseKeeps ==
    ASSUME Ready, NEW r \in sent, Refuse(r)
    PROVE  /\ Kept /\ failed' = FALSE /\ Len(balance'.sessions) = Len(balance.sessions)
           /\ sent' = {q \in sent : q.task # r.task}
<1>1. Idle /\ faults' \in 0 .. MaxFaults BY FaultTyped DEF Refuse, Asked, Ready, Types
<1>2. PICK t : t = r.task OBVIOUS
<1>3. t \in Task BY <1>2, SentTyped DEF Ready, Types, LoadTypes
<1>4. status[t] = "loading" BY <1>1, <1>2, IdleCore DEF Ready, Idle
<1>5. CancelAll(t, Load, posted) /\ UNCHANGED <<queue, resetTimer, next, fed, cdn, hashes, calls>>
  BY <1>2 DEF Refuse
<1> QED BY <1>1, <1>2, <1>3, <1>4, <1>5, CancelNow

LEMMA CancelsKeep ==
    ASSUME Ready, NEW t \in Task, Cancel(t)
    PROVE  /\ Kept /\ failed' = FALSE /\ Len(balance'.sessions) = Len(balance.sessions)
           /\ sent' = {q \in sent : q.task # t}
<1>1. Idle /\ faults' \in 0 .. MaxFaults BY FaultTyped DEF Cancel, Ready, Types
<1>2. /\ status[t] = "loading" /\ CancelAll(t, Load, posted)
      /\ UNCHANGED <<queue, resetTimer, next, fed, cdn, hashes, calls>>
  BY DEF Cancel
<1> QED BY <1>1, <1>2, CancelNow

LEMMA OneLess ==
    ASSUME NEW S, IsFiniteSet(S), NEW r \in S, NEW T, T = S \ {r}
    PROVE  /\ \A n : Cardinality(In(T, n)) =
                  Cardinality(In(S, n)) - (IF n = r.session THEN 1 ELSE 0)
           /\ Cardinality(T) = Cardinality(S) - 1
<1>1. Cardinality(T) = Cardinality(S) - 1 BY FS_RemoveElement
<1>2. ASSUME NEW n
      PROVE Cardinality(In(T, n)) = Cardinality(In(S, n)) - (IF n = r.session THEN 1 ELSE 0)
  <2>1. IsFiniteSet(In(S, n)) /\ Cardinality(In(S, n)) \in Nat BY InIsFinite
  <2>2. CASE n = r.session
    <3>1. In(T, n) = In(S, n) \ {r} /\ r \in In(S, n) BY <2>2 DEF In
    <3>2. Cardinality(In(S, n) \ {r}) = Cardinality(In(S, n)) - 1
      BY <2>1, <3>1, FS_RemoveElement
    <3> QED BY <2>2, <3>1, <3>2
  <2>3. CASE n # r.session
    <3>1. In(T, n) = In(S, n) BY <2>3 DEF In
    <3> QED BY <2>1, <2>3, <3>1
  <2> QED BY <2>2, <2>3
<1> QED BY <1>1, <1>2

\* A request may change but for its task, offset and session.
LEMMA ReplacedAgrees ==
    ASSUME NEW b, NEW S, NEW x, Agrees(b, S, x), NEW r \in S, NEW q \in Request,
           q.task = r.task, q.offset = r.offset, q.session = r.session,
           NEW T, T = (S \ {r}) \cup {q}
    PROVE  Agrees(b, T, x)
<1>1. PICK U : U = S \ {r} OBVIOUS
<1>2. GoodSent(S) /\ IsFiniteSet(S) /\ IsFiniteSet(U) /\ IsFiniteSet(T)
  <2>1. IsFiniteSet(S) BY DEF Agrees, GoodSent
  <2>2. IsFiniteSet(U) BY <1>1, <2>1, FS_Subset
  <2>3. T = U \cup {q} BY <1>1
  <2> QED BY <2>1, <2>2, <2>3, FS_AddElement DEF Agrees
<1>3. q \notin U /\ T = U \cup {q} BY <1>1 DEF Agrees, OnePerOffset
<1>4. /\ \A n : Cardinality(In(U, n)) = Cardinality(In(S, n)) - (IF n = r.session THEN 1 ELSE 0)
      /\ Cardinality(U) = Cardinality(S) - 1
  BY <1>1, <1>2, OneLess
<1>5. /\ \A n : Cardinality(In(T, n)) = Cardinality(In(U, n)) + (IF n = q.session THEN 1 ELSE 0)
      /\ Cardinality(T) = Cardinality(U) + 1
  BY <1>2, <1>3, OneMore
<1>6. \A n : Cardinality(In(T, n)) = Cardinality(In(S, n))
  <2> SUFFICES ASSUME NEW n PROVE Cardinality(In(T, n)) = Cardinality(In(S, n)) OBVIOUS
  <2>1. Cardinality(In(S, n)) \in Nat BY <1>2, InIsFinite
  <2> QED BY <1>4, <1>5, <2>1
<1>7. Cardinality(T) = Cardinality(S)
  <2>1. Cardinality(S) \in Nat BY <1>2, FS_CardinalityType
  <2> QED BY <1>4, <1>5, <2>1
<1>8. Counted(b.sessions, T, x) BY <1>6 DEF Agrees, Counted
<1>9. GoodSent(T) BY <1>2 DEF GoodSent
<1>10. \A p \in T : p.session \in 1 .. Len(b.sessions) BY DEF Agrees
<1>11. ~b.kill BY DEF Agrees
<1>12. OnePerOffset(T) BY DEF OnePerOffset, Agrees
<1> QED BY <1>7, <1>8, <1>9, <1>10, <1>11, <1>12 DEF Agrees

LEMMA RefuseReferenceKeeps ==
    ASSUME Ready, NEW r \in sent, RefuseReference(r)
    PROVE  /\ Kept
           /\ \E q \in Request : /\ q.task = r.task /\ q.offset = r.offset /\ q.session = r.session
                                 /\ q.kind = r.kind /\ q.refreshing = TRUE
                                 /\ sent' = (sent \ {r}) \cup {q}
<1>1. Idle /\ faults' \in 0 .. MaxFaults /\ ~failed
  BY FaultTyped DEF RefuseReference, Asked, Idle, Ready, Types
<1>2. PICK q : q = [r EXCEPT !.refreshing = TRUE] OBVIOUS
<1>3. q \in Request /\ q.task = r.task /\ q.offset = r.offset /\ q.session = r.session /\ q.kind = r.kind
      /\ q.refreshing = TRUE
  <2>1. r \in Request BY SentTyped DEF Ready, Types, LoadTypes
  <2> QED BY <1>2, <2>1 DEF Request
<1>4. sent' = (sent \ {r}) \cup {q} /\ UNCHANGED <<balance, queue, resetTimer, taskVars, calls, posted, failed>>
  BY <1>2 DEF RefuseReference
<1>5. /\ Agrees(balance, sent, None) /\ GoodQueue(queue) /\ QueuedAre(queue, status)
      /\ \A p \in sent : status[p.task] = "loading"
  BY <1>1, IdleCore DEF Ready, Idle
<1>6. Agrees(balance', sent', None)
  <2>1. PICK T : T = (sent \ {r}) \cup {q} OBVIOUS
  <2>2. Agrees(balance, T, None) BY <1>3, <1>5, <2>1, ReplacedAgrees
  <2> QED BY <1>4, <2>1, <2>2
<1>7. \A p \in sent' : status'[p.task] = "loading" BY <1>3, <1>4, <1>5 DEF taskVars
<1>8. Core'
  <2>1. calls' = <<>> /\ GoodQueue(queue') /\ QueuedAre(queue', status')
    BY <1>1, <1>4, <1>5 DEF Idle, taskVars
  <2> QED BY <1>6, <1>7, <2>1, QuietCore DEF Core
<1>9. Types'
  <2>1. LoadTypes' BY <1>6 DEF LoadTypes, Agrees
  <2>2. TaskTypes' BY <1>4 DEF TaskTypes, taskVars, Ready, Types
  <2>3. RestTypes' BY <1>1, <1>4 DEF RestTypes, Ready, Types
  <2> QED BY <2>1, <2>2, <2>3 DEF Types
<1>10. GoodCalls(calls') BY <1>4 DEF Ready
<1> QED BY <1>3, <1>4, <1>8, <1>9, <1>10 DEF Kept

\* The steps that change the queue.
LEMMA StartKeeps ==
    ASSUME Ready, NEW t \in Task, Start(t)
    PROVE  Kept
<1>1. Idle /\ status[t] = "new" /\ ~failed BY DEF Start, Idle
<1>2. /\ status' = [status EXCEPT ![t] = "loading"]
      /\ queue' = Enqueued(queue, t, Priority[t])
      /\ resetTimer' = TRUE /\ calls' = Send
      /\ UNCHANGED <<balance, sent, next, fed, cdn, hashes, unchecked, posted, failed, faults>>
  BY DEF Start
<1>3. /\ Agrees(balance, sent, None) /\ GoodQueue(queue) /\ QueuedAre(queue, status)
      /\ \A q \in sent : status[q.task] = "loading"
  BY <1>1, IdleCore DEF Ready, Idle
<1>4. PICK p : p = Priority[t] OBVIOUS
<1>5. p \in Int BY <1>4, PriorityAssumption
<1>6. GoodQueue(queue') /\ \A s \in Task : Queued(queue', s) <=> Queued(queue, s) \/ s = t
  BY <1>2, <1>3, <1>4, <1>5, EnqueuedIs
<1>7. status' \in [Task -> Status] /\ status'[t] = "loading" /\ \A s \in Task : s # t => status'[s] = status[s]
  BY <1>2 DEF Ready, Types, TaskTypes, Status
<1>8. QueuedAre(queue', status')
  <2> SUFFICES ASSUME NEW s \in Task PROVE Queued(queue', s) <=> status'[s] \in {"loading", "failed"}
    BY DEF QueuedAre
  <2>1. Queued(queue, s) <=> status[s] \in {"loading", "failed"} BY <1>3 DEF QueuedAre
  <2>2. CASE s = t BY <1>6, <1>7, <2>2
  <2>3. CASE s # t BY <1>6, <1>7, <2>1, <2>3
  <2> QED BY <2>2, <2>3
<1>9. \A q \in sent' : status'[q.task] = "loading"
  <2> SUFFICES ASSUME NEW q \in sent PROVE status'[q.task] = "loading" BY <1>2
  <2>1. q.task \in Task BY SentTyped DEF Ready, Types, LoadTypes
  <2> QED BY <1>3, <1>7, <2>1
<1>10. Core' BY <1>2, <1>3, <1>6, <1>8, <1>9, QuietCore DEF Core
<1>11. Types'
  <2>1. LoadTypes' BY <1>2 DEF LoadTypes, Ready, Types
  <2>2. TaskTypes' BY <1>2, <1>7 DEF TaskTypes, Ready, Types
  <2>3. RestTypes' BY <1>2, <1>6 DEF RestTypes, GoodQueue, Ready, Types
  <2> QED BY <2>1, <2>2, <2>3 DEF Types
<1>12. GoodCalls(calls') BY <1>2, QuietCalls
<1> QED BY <1>10, <1>11, <1>12 DEF Kept

LEMMA DestroyKeeps ==
    ASSUME Ready, NEW t \in Task, Destroy(t)
    PROVE  Kept
<1>1. Idle /\ status[t] = "failed" /\ ~failed BY DEF Destroy, Idle
<1>2. /\ status' = [status EXCEPT ![t] = "gone"]
      /\ queue' = Without(queue, t) /\ calls' = Send
      /\ UNCHANGED <<balance, resetTimer, sent, next, fed, cdn, hashes, unchecked, posted,
                     failed, faults>>
  BY DEF Destroy
<1>3. /\ Agrees(balance, sent, None) /\ GoodQueue(queue) /\ QueuedAre(queue, status)
      /\ \A q \in sent : status[q.task] = "loading"
  BY <1>1, IdleCore DEF Ready, Idle
<1>4. GoodQueue(queue') /\ \A s \in Task : Queued(queue', s) <=> Queued(queue, s) /\ s # t
  BY <1>2, <1>3, WithoutIs
<1>5. status' \in [Task -> Status] /\ status'[t] = "gone" /\ \A s \in Task : s # t => status'[s] = status[s]
  BY <1>2 DEF Ready, Types, TaskTypes, Status
<1>6. QueuedAre(queue', status')
  <2> SUFFICES ASSUME NEW s \in Task PROVE Queued(queue', s) <=> status'[s] \in {"loading", "failed"}
    BY DEF QueuedAre
  <2>1. Queued(queue, s) <=> status[s] \in {"loading", "failed"} BY <1>3 DEF QueuedAre
  <2>2. CASE s = t BY <1>4, <1>5, <2>2
  <2>3. CASE s # t BY <1>4, <1>5, <2>1, <2>3
  <2> QED BY <2>2, <2>3
<1>7. \A q \in sent' : status'[q.task] = "loading"
  <2> SUFFICES ASSUME NEW q \in sent PROVE status'[q.task] = "loading" BY <1>2
  <2>1. q.task \in Task BY SentTyped DEF Ready, Types, LoadTypes
  <2>2. q.task # t BY <1>1, <1>3
  <2> QED BY <1>3, <1>5, <2>1, <2>2
<1>8. Core' BY <1>2, <1>3, <1>4, <1>6, <1>7, QuietCore DEF Core
<1>9. Types'
  <2>1. LoadTypes' BY <1>2 DEF LoadTypes, Ready, Types
  <2>2. TaskTypes' BY <1>2, <1>5 DEF TaskTypes, Ready, Types
  <2>3. RestTypes' BY <1>2, <1>4 DEF RestTypes, GoodQueue, Ready, Types
  <2> QED BY <2>1, <2>2, <2>3 DEF Types
<1>10. GoodCalls(calls') BY <1>2, QuietCalls
<1> QED BY <1>8, <1>9, <1>10 DEF Kept

-----------------------------------------------------------------------------
(* The steps that go on with the calls.                                      *)

IsTail(u, cs) ==
    /\ GoodCalls(u) /\ Len(u) = Len(cs) - 1 /\ Len(cs) \in Nat \ {0}
    /\ \A k \in 1 .. Len(u) : u[k] = cs[k + 1]
    /\ \A d : InTodo(cs, d) <=>
          InTodo(u, d) \/ (Head(cs).op = "resend" /\ d \in Head(cs).todo)
    /\ \A op, t : Pending(cs, op, t) <=> Pending(u, op, t) \/ (Head(cs).op = op /\ Head(cs).task = t)
    /\ Head(cs).op # "pop" => (Leaving(u) <=> Leaving(cs))
    /\ Head(cs).op = "pop" => u = <<>>

LEMMA TailIs ==
    ASSUME NEW cs, GoodCalls(cs), cs # <<>>, NEW u, u = Tail(cs)
    PROVE  IsTail(u, cs)
<1>1. cs \in Seq(Call) /\ Len(cs) \in Nat \ {0} /\ Head(cs) = cs[1]
  <2>1. cs \in Seq(Call) BY DEF GoodCalls
  <2> QED BY <2>1
<1>2. u \in Seq(Call) /\ Len(u) = Len(cs) - 1 /\ \A k \in 1 .. Len(u) : u[k] = cs[k + 1]
  BY <1>1, HeadTailProperties
<1>3. /\ \A k \in 1 .. Len(u) : k + 1 \in 1 .. Len(cs)
      /\ \A k \in 1 .. Len(cs) : k = 1 \/ (k - 1 \in 1 .. Len(u) /\ u[k - 1] = cs[k])
  BY <1>1, <1>2
<1>4. 1 \in 1 .. Len(cs) BY <1>1
<1>5. \A op : HasCall(cs, op) <=> HasCall(u, op) \/ Head(cs).op = op
  <2> SUFFICES ASSUME NEW op PROVE HasCall(cs, op) <=> HasCall(u, op) \/ Head(cs).op = op OBVIOUS
  <2>1. ASSUME HasCall(cs, op) PROVE HasCall(u, op) \/ Head(cs).op = op
    BY <1>1, <1>3, <2>1 DEF HasCall
  <2>2. ASSUME HasCall(u, op) PROVE HasCall(cs, op) BY <1>2, <1>3, <2>2 DEF HasCall
  <2>3. ASSUME Head(cs).op = op PROVE HasCall(cs, op) BY <1>1, <1>4, <2>3 DEF HasCall
  <2> QED BY <2>1, <2>2, <2>3
<1>6. \A d : InTodo(cs, d) <=> InTodo(u, d) \/ (Head(cs).op = "resend" /\ d \in Head(cs).todo)
  <2> SUFFICES ASSUME NEW d
               PROVE InTodo(cs, d) <=> InTodo(u, d) \/ (Head(cs).op = "resend" /\ d \in Head(cs).todo)
    OBVIOUS
  <2>1. ASSUME InTodo(cs, d)
        PROVE InTodo(u, d) \/ (Head(cs).op = "resend" /\ d \in Head(cs).todo)
    BY <1>1, <1>3, <2>1 DEF InTodo
  <2>2. ASSUME InTodo(u, d) PROVE InTodo(cs, d) BY <1>2, <1>3, <2>2 DEF InTodo
  <2>3. ASSUME Head(cs).op = "resend" /\ d \in Head(cs).todo PROVE InTodo(cs, d)
    BY <1>1, <1>4, <2>3 DEF InTodo
  <2> QED BY <2>1, <2>2, <2>3
<1>7. \A op, t : Pending(cs, op, t) <=> Pending(u, op, t) \/ (Head(cs).op = op /\ Head(cs).task = t)
  <2> SUFFICES ASSUME NEW op, NEW t
               PROVE Pending(cs, op, t) <=> Pending(u, op, t) \/ (Head(cs).op = op /\ Head(cs).task = t)
    OBVIOUS
  <2>1. ASSUME Pending(cs, op, t)
        PROVE Pending(u, op, t) \/ (Head(cs).op = op /\ Head(cs).task = t)
    BY <1>1, <1>3, <2>1 DEF Pending
  <2>2. ASSUME Pending(u, op, t) PROVE Pending(cs, op, t) BY <1>2, <1>3, <2>2 DEF Pending
  <2>3. ASSUME Head(cs).op = op /\ Head(cs).task = t PROVE Pending(cs, op, t)
    BY <1>1, <1>4, <2>3 DEF Pending
  <2> QED BY <2>1, <2>2, <2>3
<1>8. Head(cs).op # "pop" => (Leaving(u) <=> Leaving(cs)) BY <1>5 DEF Leaving
<1>9. Head(cs).op = "pop" => u = <<>>
  <2> SUFFICES ASSUME Head(cs).op = "pop" PROVE u = <<>> OBVIOUS
  <2>1. 1 = Len(cs) BY <1>1, <1>4 DEF GoodCalls
  <2> QED BY <1>2, <2>1
<1>10. \A k \in 1 .. Len(u) : u[k].op = "pop" => k = Len(u)
  <2> SUFFICES ASSUME NEW k \in 1 .. Len(u), u[k].op = "pop" PROVE k = Len(u) OBVIOUS
  <2>1. k + 1 \in 1 .. Len(cs) /\ cs[k + 1].op = "pop" BY <1>2, <1>3
  <2>2. k + 1 = Len(cs) BY <2>1 DEF GoodCalls
  <2>3. Len(u) = Len(cs) - 1 /\ Len(cs) \in Nat /\ k \in Nat BY <1>1, <1>2
  <2> QED BY <2>2, <2>3
<1>11. ASSUME HasCall(u, "recheck") \/ HasCall(u, "redirect") PROVE Leaving(u)
  <2>1. Leaving(cs) BY <1>5, <1>11 DEF GoodCalls
  <2>2. Head(cs).op # "pop"
    <3>0. 1 .. Len(u) # {} BY <1>11 DEF HasCall
    <3>1. u # <<>> BY <3>0
    <3> QED BY <1>9, <3>1
  <2> QED BY <1>8, <2>1, <2>2
<1>12. Leaving(u) => ~HasCall(u, "send") /\ ~HasCall(u, "resend")
  <2>1. Leaving(u) => Leaving(cs) BY <1>5 DEF Leaving
  <2> QED BY <1>5, <2>1 DEF GoodCalls
<1>13. GoodCalls(u) BY <1>2, <1>10, <1>11, <1>12 DEF GoodCalls
<1> QED BY <1>1, <1>2, <1>6, <1>7, <1>8, <1>9, <1>13 DEF IsTail

\* What the first call says.
HeadFacts(cs) ==
    /\ Len(cs) \in Nat \ {0} /\ Head(cs) = cs[1] /\ Head(cs) \in Call
    /\ Head(cs).op \in {"send", "resend"} => ~Leaving(cs)
    /\ Head(cs).op \in {"recheck", "redirect", "pop"} => Leaving(cs)
    /\ Head(cs).op \in {"recheck", "redirect"} => Head(cs).task \in Task
    /\ Head(cs).op = "resend" => Head(cs).todo \in SUBSET Todo

LEMMA HeadIs ==
    ASSUME NEW cs, GoodCalls(cs), cs # <<>>
    PROVE  HeadFacts(cs)
<1>1. cs \in Seq(Call) /\ Len(cs) \in Nat \ {0} /\ Head(cs) = cs[1] /\ 1 \in 1 .. Len(cs)
  <2>1. cs \in Seq(Call) BY DEF GoodCalls
  <2> QED BY <2>1
<1>2. Head(cs) \in Call BY <1>1
<1>3. PICK h : h = Head(cs) OBVIOUS
<1>4. HasCall(cs, h.op) BY <1>1, <1>3 DEF HasCall
<1>5. h.op \in {"send", "resend"} => ~Leaving(cs) BY <1>4 DEF GoodCalls
<1>6. h.op \in {"recheck", "redirect", "pop"} => Leaving(cs) BY <1>4 DEF GoodCalls, Leaving
<1>7. /\ h.op \in {"recheck", "redirect"} => h.task \in Task
      /\ h.op = "resend" => h.todo \in SUBSET Todo
  <2>1. h \in Call BY <1>2, <1>3
  <2>2. CASE h \in [op: {"send", "pop"}] BY <2>2
  <2>3. CASE h \in [op: {"recheck", "redirect"}, task: Task] BY <2>3
  <2>4. CASE h \in [op: {"resend"}, todo: SUBSET Todo] BY <2>4
  <2> QED BY <2>1, <2>2, <2>3, <2>4 DEF Call
<1> QED BY <1>1, <1>2, <1>3, <1>5, <1>6, <1>7 DEF HeadFacts

\* A step that only leaves the first call behind.
LEMMA TailCore ==
    ASSUME NEW b, NEW S, NEW q, NEW st, NEW cs, CoreOf(b, S, q, st, cs),
           NEW u, IsTail(u, cs), Head(cs).op # "pop",
           Head(cs).op = "redirect" =>
              \A r \in S : r.task = Head(cs).task => r.session # Len(b.sessions)
    PROVE  CoreOf(b, S, q, st, u)
<1>1. Removed(b, u) = Removed(b, cs) BY DEF IsTail, Removed
<1>2. AllLoading(S, u, st) BY DEF IsTail, AllLoading, CoreOf
<1>3. LeavingOK(b, S, u)
  <2> SUFFICES ASSUME Leaving(u), NEW r \in S, r.session = Len(b.sessions)
               PROVE  Len(b.sessions) > 1 /\ Pending(u, "redirect", r.task)
    <3>1. Leaving(u) => Len(b.sessions) > 1 BY DEF IsTail, CoreOf, LeavingOK
    <3> QED BY <3>1 DEF LeavingOK
  <2>1. Leaving(cs) BY DEF IsTail
  <2>2. Pending(cs, "redirect", r.task) /\ Len(b.sessions) > 1 BY <2>1 DEF CoreOf, LeavingOK
  <2>3. Pending(u, "redirect", r.task) \/ (Head(cs).op = "redirect" /\ Head(cs).task = r.task)
    BY <2>2 DEF IsTail
  <2> QED BY <2>2, <2>3
<1> QED BY <1>1, <1>2, <1>3 DEF CoreOf

LEMMA TailKeeps ==
    ASSUME Ready, calls # <<>>, Head(calls).op # "pop", calls' = Tail(calls),
           Head(calls).op = "redirect" =>
              \A r \in sent : r.task = Head(calls).task => r.session # Len(balance.sessions),
           UNCHANGED <<balance, sent, queue, resetTimer, status, posted, faults>>,
           failed' \in BOOLEAN, TaskTypes'
    PROVE  Kept /\ IsTail(calls', calls)
<1>1. IsTail(calls', calls) BY TailIs DEF Ready
<1>2. CoreOf(balance, sent, queue, status, calls') BY <1>1, TailCore DEF Ready, Core
<1>3. Core' BY <1>2 DEF Core
<1>4. Types' BY DEF Ready, Types, LoadTypes, RestTypes
<1> QED BY <1>1, <1>3, <1>4 DEF Kept, IsTail

\* A step that places a request of a task that is loading.
LEMMA PlacedKeeps ==
    ASSUME Ready, ~Leaving(calls'), GoodCalls(calls'), \A d : InTodo(calls', d) => InTodo(calls, d),
           NEW b, NEW S, S \subseteq sent, NEW t \in Task, NEW o, NEW i, NEW kind,
           IsPlacedNow(b, S, None, t, o, i, kind), status[t] = "loading",
           UNCHANGED <<queue, resetTimer, status>>, TaskTypes',
           posted' \in Seq(Post), faults' \in 0 .. MaxFaults
    PROVE  Kept
<1>1. LoadTypes' /\ failed' \in BOOLEAN
      /\ (~failed' => /\ Agrees(balance', sent', None)
                      /\ \E r \in Request : IsFor(r, t, o, i, kind) /\ sent' = S \cup {r})
  BY DEF IsPlacedNow
<1>2. ASSUME ~failed' PROVE Core'
  <2>1. AllLoading(sent, calls, status) /\ GoodQueue(queue) /\ QueuedAre(queue, status)
    BY DEF Ready, Core, CoreOf
  <2>2. PICK r : IsFor(r, t, o, i, kind) /\ sent' = S \cup {r} BY <1>1, <1>2
  <2>3. \A q \in sent' : status[q.task] = "loading" BY <2>1, <2>2 DEF IsFor, AllLoading
  <2>4. AllLoading(sent', calls', status') BY <2>1, <2>3 DEF AllLoading
  <2>5. Removed(balance', calls') = None BY DEF Removed
  <2>6. LeavingOK(balance', sent', calls') BY DEF LeavingOK
  <2> QED BY <1>1, <1>2, <2>1, <2>4, <2>5, <2>6 DEF Core, CoreOf
<1>3. Types' BY <1>1 DEF Ready, Types, RestTypes
<1> QED BY <1>2, <1>3 DEF Kept

\* Without a removal, the amounts agree.
LEMMA QuietLoad ==
    ASSUME Ready, ~Leaving(calls)
    PROVE  /\ Agrees(balance, sent, None) /\ GoodQueue(queue) /\ QueuedAre(queue, status)
           /\ AllLoading(sent, calls, status) /\ ~failed /\ failed \in BOOLEAN
           /\ Load = LoadOf(balance, sent, TRUE)
<1>1. Removed(balance, calls) = None BY DEF Removed
<1>2. Load = LoadOf(balance, sent, TRUE) BY DEF Load, LoadOf
<1>3. failed \in BOOLEAN BY DEF Ready, Types, RestTypes
<1> QED BY <1>1, <1>2, <1>3 DEF Ready, Core, CoreOf

\* trySendNextPart finds a session, if any.
LEMMA BestIs ==
    ASSUME GoodBalance(balance)
    PROVE  BestIndex \in {None} \cup 1 .. Len(balance.sessions)
<1> DEFINE ss == balance.sessions
           a == [i \in DOMAIN ss |-> IF ss[i].requested < ss[i].maxWaited THEN ss[i].requested
                                     ELSE MaxWaited]
<1>1. /\ Len(ss) \in Nat \ {0} /\ DOMAIN ss = 1 .. Len(ss)
      /\ \A i \in 1 .. Len(ss) : ss[i].requested \in Nat
  BY SessionsOf
<1>2. MaxWaited \in Nat BY SizesAssumption
<1>3. PICK f : f = a OBVIOUS
<1>4. DOMAIN f = 1 .. Len(ss) /\ \A i \in 1 .. Len(ss) : f[i] \in Nat BY <1>1, <1>2, <1>3
<1>5. Smallest(f) \in 1 .. Len(ss) BY <1>1, <1>4, SmallestIsLeast
<1>6. BestIndex \in {Smallest(f), None} BY <1>3 DEF BestIndex
<1> QED BY <1>5, <1>6

\* Queue::nextTask finds a task that is loading and has a part left.
LEMMA NextTaskIs ==
    ASSUME GoodQueue(queue), NEW h, NextTasks(h) # {},
           NEW t, t = queue[Min(NextTasks(h))].task
    PROVE  t \in Task /\ ReadyToRequest(t)
<1>1. /\ Len(queue) \in Nat /\ DOMAIN queue = 1 .. Len(queue)
      /\ \A k \in 1 .. Len(queue) : queue[k].task \in Task
  BY EntriesOf DEF GoodQueue
<1>2. PICK N : N = NextTasks(h) OBVIOUS
<1>3. N \subseteq 1 .. Len(queue) /\ \A k \in N : ReadyToRequest(queue[k].task)
  BY <1>1, <1>2 DEF NextTasks
<1>4. N \subseteq Nat /\ N # {} BY <1>1, <1>2, <1>3
<1>5. Min(N) \in N BY <1>4, MinIsLeast
<1> QED BY <1>1, <1>2, <1>3, <1>5

LEMMA SendNextPartKeeps ==
    ASSUME Ready, SendNextPart
    PROVE  /\ Kept
           /\ \/ IsTail(calls', calls) /\ Head(calls).op = "send" /\ UNCHANGED <<balance, sent, next, failed>>
              \/ \E t \in Task :
                    /\ ReadyToRequest(t) /\ next' = [next EXCEPT ![t] = @ + 1] /\ calls' = calls
                    /\ \E i \in 1 .. Len(balance.sessions) :
                          IsPlacedNow(balance, sent, None, t, next[t], i, PartKind(t))
<1>1. /\ ~failed /\ calls # <<>> /\ Head(calls).op = "send"
      /\ UNCHANGED <<queue, resetTimer, status, fed, cdn, hashes, unchecked, posted, faults>>
  BY DEF SendNextPart
<1>2. ~Leaving(calls) /\ Head(calls).op # "pop" /\ Head(calls).op # "redirect"
  BY <1>1, HeadIs DEF HeadFacts, Ready
<1>3. PICK h : h = (balance.total > 0) OBVIOUS
<1>4. CASE calls' = Tail(calls) /\ UNCHANGED <<balance, sent, next, failed>>
  <2>1. TaskTypes' BY <1>1, <1>4 DEF TaskTypes, Ready, Types
  <2>2. failed' \in BOOLEAN BY <1>4 DEF Ready, Types, RestTypes
  <2> QED BY <1>1, <1>2, <1>4, <2>1, <2>2, TailKeeps
<1>5. CASE /\ BestIndex # None /\ NextTasks(h) # {}
           /\ LET t == queue[Min(NextTasks(h))].task
              IN /\ SetLoad(Placed(Load, t, next[t], BestIndex, PartKind(t)))
                 /\ next' = [next EXCEPT ![t] = @ + 1]
                 /\ UNCHANGED calls
  <2>1. PICK t : t = queue[Min(NextTasks(h))].task OBVIOUS
  <2>2. /\ Agrees(balance, sent, None) /\ GoodQueue(queue) /\ failed \in BOOLEAN
        /\ Load = LoadOf(balance, sent, TRUE)
    BY <1>2, QuietLoad
  <2>3. t \in Task /\ ReadyToRequest(t) BY <1>5, <2>1, <2>2, NextTaskIs
  <2>4. PICK i : i = BestIndex OBVIOUS
  <2>5. i \in 1 .. Len(balance.sessions) /\ i \in Int
    <3>1. GoodBalance(balance) BY <2>2 DEF Agrees
    <3>2. i \in 1 .. Len(balance.sessions) BY <1>5, <2>4, <3>1, BestIs
    <3> QED BY <3>2
  <2>6. next[t] \in 0 .. Parts /\ next[t] < Parts /\ status[t] = "loading" /\ Parts \in Nat
    BY <2>3, SizesAssumption DEF Ready, Types, TaskTypes, ReadyToRequest
  <2>7. PICK o \in Offset : o = next[t] BY <2>6 DEF Offset
  <2>8. PICK kind \in Kind : kind = PartKind(t) BY KindsOfParts
  <2>9. SetLoad(Placed(Load, t, o, i, kind)) /\ next' = [next EXCEPT ![t] = @ + 1] /\ calls' = calls
    BY <1>5, <2>1, <2>4, <2>7, <2>8
  <2>10. PICK l : l = Placed(LoadOf(balance, sent, TRUE), t, o, i, kind) OBVIOUS
  <2>11. IsPlaced(l, balance, sent, None, t, o, i, kind) BY <2>2, <2>3, <2>5, <2>10, PlacedIs
  <2>12. SetLoad(l) BY <2>2, <2>9, <2>10
  <2>13. IsPlacedNow(balance, sent, None, t, o, i, kind) BY <1>1, <2>2, <2>11, <2>12, PlacedSet
  <2>14. TaskTypes'
    <3>1. next' \in [Task -> 0 .. Parts] BY <2>3, <2>6, <2>9 DEF Ready, Types, TaskTypes
    <3> QED BY <1>1, <3>1 DEF TaskTypes, Ready, Types
  <2>15. posted' \in Seq(Post) /\ faults' \in 0 .. MaxFaults BY <1>1 DEF Ready, Types, RestTypes
  <2>16. ~Leaving(calls') /\ GoodCalls(calls') BY <1>2, <2>9 DEF Ready
  <2>17. Kept
    <3>1. \A d : InTodo(calls', d) => InTodo(calls, d) BY <2>9
    <3> QED BY <1>1, <2>3, <2>6, <2>13, <2>14, <2>15, <2>16, <3>1, PlacedKeeps
  <2> QED BY <2>3, <2>5, <2>7, <2>8, <2>9, <2>13, <2>17
<1> QED BY <1>3, <1>4, <1>5 DEF SendNextPart

-----------------------------------------------------------------------------
\* A turn of the loop that sends again.
LessOf(cs, d) == [cs EXCEPT ![1].todo = @ \ {d}]
IsLess(u, cs, d) ==
    /\ GoodCalls(u) /\ Len(u) = Len(cs) /\ Len(cs) \in Nat \ {0}
    /\ \A k \in 1 .. Len(u) : u[k].op = cs[k].op /\ (k # 1 => u[k] = cs[k])
    /\ u[1].todo = cs[1].todo \ {d}
    /\ \A e : InTodo(u, e) => InTodo(cs, e)
    /\ \A e : InTodo(cs, e) => InTodo(u, e) \/ e = d
    /\ ~Leaving(u)

LEMMA FirstReplaced ==
    ASSUME NEW E, NEW q \in Seq(E), 1 \in 1 .. Len(q), NEW e \in E, NEW p, p = [q EXCEPT ![1] = e]
    PROVE  /\ p \in Seq(E) /\ Len(p) = Len(q)
           /\ \A k \in 1 .. Len(q) : p[k] = IF k = 1 THEN e ELSE q[k]
<1>1. PICK i \in 1 .. Len(q) : i = 1 OBVIOUS
<1>2. p = [q EXCEPT ![i] = e] BY <1>1
<1> QED BY <1>1, <1>2, ExceptSeq

LEMMA LessTodo ==
    ASSUME NEW cs, GoodCalls(cs), cs # <<>>, Head(cs).op = "resend",
           NEW d, NEW u, u = LessOf(cs, d)
    PROVE  IsLess(u, cs, d)
<1>1. /\ cs \in Seq(Call) /\ Len(cs) \in Nat \ {0} /\ Head(cs) = cs[1] /\ 1 \in 1 .. Len(cs)
      /\ cs[1].todo \in SUBSET Todo /\ ~Leaving(cs) /\ cs[1] \in Call
  <2>1. HeadFacts(cs) BY HeadIs
  <2>2. cs \in Seq(Call) BY DEF GoodCalls
  <2>3. 1 \in 1 .. Len(cs) BY <2>1 DEF HeadFacts
  <2> QED BY <2>1, <2>2, <2>3 DEF HeadFacts
<1>2. PICK e : e = [cs[1] EXCEPT !.todo = cs[1].todo \ {d}] OBVIOUS
<1>3. cs[1] \in [op: {"resend"}, todo: SUBSET Todo] BY <1>1 DEF Call
<1>4. e \in Call /\ e.op = "resend" /\ e.todo = cs[1].todo \ {d}
  BY <1>1, <1>2, <1>3 DEF Call
<1>5. u = [cs EXCEPT ![1] = e] BY <1>1, <1>2 DEF LessOf
<1>6. u \in Seq(Call) /\ Len(u) = Len(cs) /\ \A k \in 1 .. Len(cs) : u[k] = IF k = 1 THEN e ELSE cs[k]
  <2>1. cs \in Seq(Call) /\ 1 \in 1 .. Len(cs) BY <1>1
  <2>2. e \in Call BY <1>4
  <2> QED BY <1>5, <2>1, <2>2, FirstReplaced
<1>7. u[1] = e /\ \A k \in 1 .. Len(u) : u[k].op = cs[k].op /\ (k # 1 => u[k] = cs[k])
  <2>1. cs[1].op = "resend" BY <1>1
  <2> QED BY <1>1, <1>4, <1>6, <2>1
<1>8. \A op : HasCall(u, op) <=> HasCall(cs, op) BY <1>6, <1>7 DEF HasCall
<1>9. GoodCalls(u)
  <2>1. \A k \in 1 .. Len(u) : u[k].op = "pop" => k = Len(u) BY <1>6, <1>7 DEF GoodCalls
  <2> QED BY <1>6, <1>8, <2>1 DEF GoodCalls, Leaving
<1>10. \A f : InTodo(u, f) => InTodo(cs, f)
  <2> SUFFICES ASSUME NEW f, NEW k \in 1 .. Len(u), u[k].op = "resend", f \in u[k].todo
               PROVE InTodo(cs, f)
    BY DEF InTodo
  <2>1. f \in cs[k].todo
    <3>1. CASE k = 1 BY <1>4, <1>7, <3>1
    <3>2. CASE k # 1 BY <1>7, <3>2
    <3> QED BY <3>1, <3>2
  <2> QED BY <1>6, <1>7, <2>1 DEF InTodo
<1>11. \A f : InTodo(cs, f) => InTodo(u, f) \/ f = d
  <2> SUFFICES ASSUME NEW f, f # d, NEW k \in 1 .. Len(cs), cs[k].op = "resend", f \in cs[k].todo
               PROVE InTodo(u, f)
    BY DEF InTodo
  <2>1. f \in u[k].todo
    <3>1. CASE k = 1 BY <1>4, <1>7, <3>1
    <3>2. CASE k # 1 BY <1>6, <1>7, <3>2
    <3> QED BY <3>1, <3>2
  <2> QED BY <1>6, <1>7, <2>1 DEF InTodo
<1>12. ~Leaving(u) BY <1>1, <1>8 DEF Leaving
<1> QED BY <1>1, <1>4, <1>6, <1>7, <1>9, <1>10, <1>11, <1>12 DEF IsLess

LEMMA ResendKeeps ==
    ASSUME Ready, Resend
    PROVE  /\ Kept
           /\ \E d \in Todo :
                /\ d \in Head(calls).todo /\ IsLess(calls', calls, d)
                /\ IsPlacedNow(balance, sent, None, d.task, d.offset, d.session, PartKind(d.task))
<1>1. /\ ~failed /\ calls # <<>> /\ Head(calls).op = "resend"
      /\ UNCHANGED <<queue, resetTimer, taskVars, posted, faults>>
  BY DEF Resend
<1>2. PICK d \in Head(calls).todo :
        /\ SetLoad(Placed(Load, d.task, d.offset, d.session, PartKind(d.task)))
        /\ calls' = [calls EXCEPT ![1].todo = @ \ {d}]
  BY DEF Resend
<1>3. HeadFacts(calls) BY <1>1, HeadIs DEF Ready
<1>4. d \in Todo /\ ~Leaving(calls) BY <1>1, <1>3 DEF HeadFacts
<1>5. d.task \in Task /\ d.offset \in Offset /\ d.session \in Int
  BY <1>4, SizesAssumption DEF Todo, Index
<1>6. IsLess(calls', calls, d)
  <2>1. calls' = LessOf(calls, d) BY <1>2 DEF LessOf
  <2> QED BY <1>1, <2>1, LessTodo DEF Ready
<1>7. /\ Agrees(balance, sent, None) /\ failed \in BOOLEAN
      /\ Load = LoadOf(balance, sent, TRUE) /\ AllLoading(sent, calls, status)
  BY <1>4, QuietLoad
<1>8. PICK kind \in Kind : kind = PartKind(d.task) BY KindsOfParts
<1>9. PICK l : l = Placed(LoadOf(balance, sent, TRUE), d.task, d.offset, d.session, kind) OBVIOUS
<1>10. IsPlaced(l, balance, sent, None, d.task, d.offset, d.session, kind)
  BY <1>5, <1>7, <1>9, PlacedIs
<1>11. SetLoad(l) BY <1>2, <1>7, <1>8, <1>9
<1>12. IsPlacedNow(balance, sent, None, d.task, d.offset, d.session, kind)
  BY <1>1, <1>7, <1>10, <1>11, PlacedSet
<1>13. InTodo(calls, d)
  <2>1. 1 \in 1 .. Len(calls) BY <1>3 DEF HeadFacts
  <2> QED BY <1>1, <1>3, <2>1 DEF HeadFacts, InTodo
<1>14. status[d.task] = "loading" BY <1>4, <1>7, <1>13 DEF AllLoading
<1>15. TaskTypes' BY <1>1 DEF taskVars, TaskTypes, Ready, Types
<1>16. Kept
  <2>1. posted' \in Seq(Post) /\ faults' \in 0 .. MaxFaults /\ UNCHANGED <<queue, resetTimer, status>>
    BY <1>1 DEF Ready, Types, RestTypes, taskVars
  <2>2. ~Leaving(calls') /\ GoodCalls(calls') /\ \A e : InTodo(calls', e) => InTodo(calls, e)
    BY <1>6 DEF IsLess
  <2> QED BY <1>5, <1>12, <1>14, <1>15, <2>1, <2>2, PlacedKeeps
<1> QED BY <1>2, <1>4, <1>6, <1>8, <1>12, <1>16

LEMMA ResendEndsKeeps ==
    ASSUME Ready, ResendEnds
    PROVE  Kept /\ IsTail(calls', calls)
<1>1. /\ calls # <<>> /\ Head(calls).op = "resend" /\ calls' = Tail(calls)
      /\ UNCHANGED <<balance, sent, queue, resetTimer, taskVars, posted, failed, faults>>
  BY DEF ResendEnds
<1>2. TaskTypes' BY <1>1 DEF taskVars, TaskTypes, Ready, Types
<1>3. failed' \in BOOLEAN BY <1>1 DEF Ready, Types, RestTypes
<1> QED BY <1>1, <1>2, <1>3, TailKeeps DEF taskVars

LEMMA RedirectEndsKeeps ==
    ASSUME Ready, RedirectEnds
    PROVE  Kept /\ IsTail(calls', calls)
<1>1. /\ calls # <<>> /\ Head(calls).op = "redirect" /\ calls' = Tail(calls)
      /\ \A r \in Of(Head(calls).task) : r.session # LastIndex
      /\ UNCHANGED <<balance, sent, queue, resetTimer, taskVars, posted, failed, faults>>
  BY DEF RedirectEnds
<1>2. TaskTypes' BY <1>1 DEF taskVars, TaskTypes, Ready, Types
<1>3. failed' \in BOOLEAN BY <1>1 DEF Ready, Types, RestTypes
<1>4. \A r \in sent : r.task = Head(calls).task => r.session # Len(balance.sessions)
  BY <1>1 DEF Of, LastIndex
<1> QED BY <1>1, <1>2, <1>3, <1>4, TailKeeps DEF taskVars

-----------------------------------------------------------------------------
(* The steps of a removal.                                                   *)

LEMMA ChooseIs ==
    ASSUME NEW b, GoodBalance(b)
    PROVE  /\ ChooseSessionIndex(b) \in 1 .. Len(b.sessions)
           /\ \A j \in 1 .. Len(b.sessions) :
                 b.sessions[ChooseSessionIndex(b)].requested <= b.sessions[j].requested
<1> DEFINE a == [i \in DOMAIN b.sessions |-> b.sessions[i].requested]
<1>1. /\ Len(b.sessions) \in Nat \ {0} /\ DOMAIN b.sessions = 1 .. Len(b.sessions)
      /\ \A i \in 1 .. Len(b.sessions) : b.sessions[i].requested \in Nat
  BY SessionsOf
<1>2. PICK f : f = a OBVIOUS
<1>3. DOMAIN f = 1 .. Len(b.sessions)
      /\ \A i \in 1 .. Len(b.sessions) : f[i] = b.sessions[i].requested /\ f[i] \in Nat
  BY <1>1, <1>2
<1>4. Smallest(f) \in 1 .. Len(b.sessions) /\ \A j \in 1 .. Len(b.sessions) : f[Smallest(f)] <= f[j]
  BY <1>1, <1>3, SmallestIsLeast
<1>5. ChooseSessionIndex(b) = Smallest(f) BY <1>2 DEF ChooseSessionIndex
<1> QED BY <1>3, <1>4, <1>5

\* The removal goes on: the last session has Big more.
LEMMA LeavingLoad ==
    ASSUME Ready, calls # <<>>, Head(calls).op \in {"recheck", "redirect", "pop"}
    PROVE  /\ Leaving(calls) /\ LastIndex = Len(balance.sessions) /\ LastIndex \in Nat /\ LastIndex > 1
           /\ Agrees(balance, sent, LastIndex) /\ GoodQueue(queue) /\ QueuedAre(queue, status)
           /\ AllLoading(sent, calls, status) /\ ~failed /\ failed \in BOOLEAN
           /\ \A r \in sent : r.session = LastIndex => Pending(calls, "redirect", r.task)
           /\ Load = LoadOf(balance, sent, TRUE)
<1>1. Leaving(calls) BY HeadIs DEF HeadFacts, Ready
<1>2. Removed(balance, calls) = LastIndex BY <1>1 DEF Removed, LastIndex
<1>3. Load = LoadOf(balance, sent, TRUE) BY DEF Load, LoadOf
<1>4. failed \in BOOLEAN BY DEF Ready, Types, RestTypes
<1>5. Agrees(balance, sent, LastIndex) BY <1>2 DEF Ready, Core, CoreOf
<1>6. LastIndex \in Nat BY <1>5, SessionsOf DEF Agrees, LastIndex
<1>7. LastIndex > 1 /\ \A r \in sent : r.session = LastIndex => Pending(calls, "redirect", r.task)
  BY <1>1 DEF Ready, Core, CoreOf, LeavingOK, LastIndex
<1> QED BY <1>1, <1>3, <1>4, <1>5, <1>6, <1>7 DEF Ready, Core, CoreOf, LastIndex

LEMMA RecheckKeeps ==
    ASSUME Ready, Recheck
    PROVE  /\ Kept /\ IsTail(calls', calls) /\ Head(calls).op = "recheck"
           /\ \E t \in Task, i \in 1 .. Len(balance.sessions) :
                /\ t = Head(calls).task /\ i = ChooseSessionIndex(balance)
                /\ unchecked' = [unchecked EXCEPT ![t] =
                      [o \in Offset |-> IF unchecked[t][o] = LastIndex THEN i ELSE unchecked[t][o]]]
                /\ ~failed' => ~(i >= LastIndex) \/ \A o \in Offset : unchecked[t][o] # LastIndex
                /\ ~(i >= LastIndex) => ~failed'
<1>1. /\ calls # <<>> /\ Head(calls).op = "recheck" /\ calls' = Tail(calls)
      /\ UNCHANGED <<balance, sent, queue, resetTimer, status, next, fed, cdn, hashes, posted, faults>>
  BY DEF Recheck
<1>2. PICK t \in Task : t = Head(calls).task BY <1>1, HeadIs DEF HeadFacts, Ready
<1>3. GoodBalance(balance) BY DEF Ready, Types, LoadTypes
<1>4. PICK i \in 1 .. Len(balance.sessions) : i = ChooseSessionIndex(balance) BY <1>3, ChooseIs
<1>5. PICK moved : moved = {o \in Offset : unchecked[t][o] = LastIndex} OBVIOUS
<1>6. /\ unchecked' = [unchecked EXCEPT ![t] =
             [o \in Offset |-> IF o \in moved THEN i ELSE unchecked[t][o]]]
      /\ failed' = (moved # {} /\ i >= LastIndex)
  <2>1. unchecked \in [Task -> [Offset -> {None} \cup Index]] BY DEF Ready, Types, TaskTypes
  <2> QED BY <1>2, <1>4, <1>5, <2>1 DEF Recheck
<1>7. PICK u : u = [o \in Offset |-> IF o \in moved THEN i ELSE unchecked[t][o]] OBVIOUS
<1>8. u = [o \in Offset |-> IF unchecked[t][o] = LastIndex THEN i ELSE unchecked[t][o]]
  BY <1>5, <1>7
<1>9. unchecked' = [unchecked EXCEPT ![t] = u] BY <1>6, <1>7
<1>10. unchecked' \in [Task -> [Offset -> {None} \cup Index]]
  <2>1. i \in Index BY <1>3, SessionsOf
  <2>2. unchecked \in [Task -> [Offset -> {None} \cup Index]] BY DEF Ready, Types, TaskTypes
  <2>3. u \in [Offset -> {None} \cup Index] BY <1>7, <2>1, <2>2
  <2> QED BY <1>9, <2>2, <2>3
<1>11. TaskTypes' BY <1>1, <1>10 DEF TaskTypes, Ready, Types
<1>12. /\ failed' \in BOOLEAN
       /\ ~failed' => ~(i >= LastIndex) \/ \A o \in Offset : unchecked[t][o] # LastIndex
       /\ ~(i >= LastIndex) => ~failed'
  BY <1>5, <1>6
<1>13. Kept /\ IsTail(calls', calls) BY <1>1, <1>11, <1>12, TailKeeps
<1> QED BY <1>1, <1>2, <1>4, <1>8, <1>9, <1>12, <1>13

\* A load placed in a session below n.
IsPlacedBelow(b, S, x, t, o, i, kind, n) ==
    /\ LoadTypes' /\ failed' \in BOOLEAN
    /\ ~failed' <=> i \in 1 .. Len(b.sessions) /\ Free(S, t, o) /\ i < n
    /\ ~failed' => /\ Agrees(balance', sent', x) /\ Len(balance'.sessions) = Len(b.sessions)
                   /\ \E r \in Request : IsFor(r, t, o, i, kind) /\ sent' = S \cup {r}

LEMMA PlacedBelowSet ==
    ASSUME ~failed, failed \in BOOLEAN, NEW l, NEW b, NEW S, NEW x, NEW t, NEW o, NEW i, NEW kind,
           NEW n, IsPlaced(l, b, S, x, t, o, i, kind), SetLoad([l EXCEPT !.ok = @ /\ i < n])
    PROVE  IsPlacedBelow(b, S, x, t, o, i, kind, n)
<1>1. PICK c, T :
        /\ l = LoadOf(c, T, l.ok) /\ l.ok \in BOOLEAN
        /\ GoodBalance(c) /\ GoodSent(T)
        /\ l.ok <=> i \in 1 .. Len(b.sessions) /\ Free(S, t, o)
        /\ l.ok => /\ Agrees(c, T, x) /\ Len(c.sessions) = Len(b.sessions)
                   /\ \E r \in Request : IsFor(r, t, o, i, kind) /\ T = S \cup {r}
  BY Zenon DEF IsPlaced
<1>2. PICK k : k = (l.ok /\ i < n) OBVIOUS
<1>3. [l EXCEPT !.ok = @ /\ i < n] = LoadOf(c, T, k) BY <1>1, <1>2 DEF LoadOf
<1>4. PICK m : m = LoadOf(c, T, k) OBVIOUS
<1>5. m.balance = c /\ m.sent = T /\ m.ok = k BY <1>4 DEF LoadOf
<1>6. SetLoad(m) BY <1>3, <1>4
<1>7. balance' = c /\ sent' = T /\ failed' = ~k BY <1>5, <1>6 DEF SetLoad
<1>8. LoadTypes' BY <1>1, <1>7 DEF LoadTypes
<1>9. failed' \in BOOLEAN /\ (~failed' <=> l.ok /\ i < n) BY <1>2, <1>7
<1> QED BY <1>1, <1>7, <1>8, <1>9, Zenon DEF IsPlacedBelow

\* A request of the last session is cancelled, and sent in another.
Redirecting(r, c, T) ==
    /\ calls' = calls /\ r.session = LastIndex /\ r.task = Head(calls).task /\ T = sent \ {r}
    /\ Agrees(c, T, LastIndex) /\ Len(c.sessions) = LastIndex
    /\ \/ /\ r.kind = "hashes" /\ sent' = T /\ failed' = FALSE /\ Len(balance'.sessions) = LastIndex
          /\ posted' = IF Unchecked(r.task) = {} THEN posted
                       ELSE Append(posted, [op |-> "moreHashes", task |-> r.task])
       \/ /\ r.kind # "hashes" /\ posted' = posted
          /\ IsPlacedBelow(c, T, LastIndex, r.task, r.offset, ChooseSessionIndex(c),
                           PartKind(r.task), LastIndex)

LEMMA RedirectKeeps ==
    ASSUME Ready, Redirect
    PROVE  /\ Kept /\ Head(calls).op = "redirect"
           /\ \E r \in sent : \E c, T : Redirecting(r, c, T)
<1>1. /\ calls # <<>> /\ Head(calls).op = "redirect"
      /\ UNCHANGED <<queue, resetTimer, taskVars, calls, faults>>
  BY DEF Redirect
<1>2. /\ Leaving(calls) /\ LastIndex = Len(balance.sessions) /\ LastIndex \in Nat /\ LastIndex > 1
      /\ Agrees(balance, sent, LastIndex) /\ GoodQueue(queue) /\ QueuedAre(queue, status)
      /\ AllLoading(sent, calls, status) /\ ~failed /\ failed \in BOOLEAN
      /\ \A r \in sent : r.session = LastIndex => Pending(calls, "redirect", r.task)
      /\ Load = LoadOf(balance, sent, TRUE)
  BY <1>1, LeavingLoad
<1>3. PICK r \in Of(Head(calls).task) :
        LET load == Finished(Load, r)
            new == ChooseSessionIndex(load.balance)
        IN /\ r.session = LastIndex
           /\ IF r.kind = "hashes"
              THEN /\ SetLoad(load)
                   /\ posted' = IF Unchecked(r.task) = {} THEN posted
                                ELSE Append(posted, [op |-> "moreHashes", task |-> r.task])
              ELSE /\ SetLoad([Placed(load, r.task, r.offset, new, PartKind(r.task))
                                EXCEPT !.ok = @ /\ new < LastIndex])
                   /\ UNCHANGED posted
  BY DEF Redirect
<1>4. r \in sent /\ r.task = Head(calls).task BY <1>3 DEF Of
<1>5. r.task \in Task /\ r.offset \in Offset BY <1>4, SentTyped DEF Ready, Types, LoadTypes
<1>6. PICK T : T = sent \ {r} OBVIOUS
<1>7. IsLoad(Finished(LoadOf(balance, sent, TRUE), r), T, LastIndex, LastIndex)
  BY <1>2, <1>4, <1>6, FinishedAgrees
<1>8. PICK c : Finished(Load, r) = LoadOf(c, T, TRUE) /\ Agrees(c, T, LastIndex)
               /\ Len(c.sessions) = LastIndex
  BY <1>2, <1>7 DEF IsLoad
<1>9. PICK load : load = LoadOf(c, T, TRUE) OBVIOUS
<1>10. load.balance = c /\ Finished(Load, r) = load BY <1>8, <1>9 DEF LoadOf
<1>11. PICK new \in 1 .. LastIndex : new = ChooseSessionIndex(c)
  <2>1. GoodBalance(c) BY <1>8 DEF Agrees
  <2> QED BY <1>8, <2>1, ChooseIs
<1>12. TaskTypes' BY <1>1 DEF taskVars, TaskTypes, Ready, Types
<1>13. CASE /\ r.kind = "hashes" /\ SetLoad(load)
            /\ posted' = IF Unchecked(r.task) = {} THEN posted
                         ELSE Append(posted, [op |-> "moreHashes", task |-> r.task])
  <2>1. balance' = c /\ sent' = T /\ failed' = FALSE BY <1>2, <1>9, <1>13, LoadSet
  <2>2. AllLoading(sent', calls', status') BY <1>1, <1>2, <1>6, <2>1 DEF AllLoading, taskVars
  <2>3. Removed(balance', calls') = LastIndex BY <1>1, <1>2, <1>8, <2>1 DEF Removed
  <2>4. LeavingOK(balance', sent', calls')
    BY <1>1, <1>2, <1>6, <1>8, <2>1 DEF LeavingOK
  <2>5. Agrees(balance', sent', LastIndex) BY <1>8, <2>1
  <2>6. GoodQueue(queue') /\ QueuedAre(queue', status') BY <1>1, <1>2 DEF taskVars
  <2>7. Core' BY <2>2, <2>3, <2>4, <2>5, <2>6 DEF Core, CoreOf
  <2>8. posted' \in Seq(Post)
    <3>1. PICK e : e = [op |-> "moreHashes", task |-> r.task] OBVIOUS
    <3>2. e \in Post BY <1>5, <3>1, PostTyped
    <3>3. posted \in Seq(Post) BY DEF Ready, Types, RestTypes
    <3>4. posted' = posted \/ posted' = Append(posted, e) BY <1>13, <3>1
    <3> QED BY <3>2, <3>3, <3>4
  <2>9. Types'
    <3>1. LoadTypes' BY <2>5 DEF LoadTypes, Agrees
    <3>2. RestTypes' BY <1>1, <2>1, <2>8 DEF RestTypes, Ready, Types
    <3> QED BY <1>12, <3>1, <3>2 DEF Types
  <2>10. GoodCalls(calls') BY <1>1 DEF Ready
  <2>11. Kept BY <2>7, <2>9, <2>10 DEF Kept
  <2>12. Len(balance'.sessions) = LastIndex BY <1>8, <2>1
  <2>13. Redirecting(r, c, T)
    <3>1. r.session = LastIndex BY <1>3
    <3> QED BY <1>1, <1>4, <1>6, <1>8, <1>13, <2>1, <2>12, <3>1 DEF Redirecting
  <2> QED BY <1>1, <1>4, <2>11, <2>13
<1>14. CASE /\ r.kind # "hashes" /\ UNCHANGED posted
            /\ SetLoad([Placed(load, r.task, r.offset, new, PartKind(r.task))
                         EXCEPT !.ok = @ /\ new < LastIndex])
  <2>1. PICK kind \in Kind : kind = PartKind(r.task) BY KindsOfParts
  <2>2. PICK l : l = Placed(LoadOf(c, T, TRUE), r.task, r.offset, new, kind) OBVIOUS
  <2>3. SetLoad([l EXCEPT !.ok = @ /\ new < LastIndex]) BY <1>9, <1>14, <2>1, <2>2
  <2>4. new \in Int BY <1>2
  <2>5. IsPlaced(l, c, T, LastIndex, r.task, r.offset, new, kind)
    BY <1>5, <1>8, <2>2, <2>4, PlacedIs
  <2>6. IsPlacedBelow(c, T, LastIndex, r.task, r.offset, new, kind, LastIndex)
    BY <1>2, <2>3, <2>5, PlacedBelowSet
  <2>7. LoadTypes' /\ failed' \in BOOLEAN BY <2>6 DEF IsPlacedBelow
  <2>8. ASSUME ~failed' PROVE Core'
    <3>1. /\ new < LastIndex /\ Agrees(balance', sent', LastIndex) /\ Len(balance'.sessions) = LastIndex
          /\ \E q \in Request : IsFor(q, r.task, r.offset, new, kind) /\ sent' = T \cup {q}
      BY <1>8, <2>6, <2>8 DEF IsPlacedBelow
    <3>2. PICK q : IsFor(q, r.task, r.offset, new, kind) /\ sent' = T \cup {q} BY <3>1
    <3>3. \A p \in sent' : status[p.task] = "loading" BY <1>2, <1>4, <1>6, <3>2 DEF AllLoading, IsFor
    <3>4. AllLoading(sent', calls', status') BY <1>1, <1>2, <3>3 DEF AllLoading, taskVars
    <3>5. Removed(balance', calls') = LastIndex BY <1>1, <1>2, <3>1 DEF Removed
    <3>6. \A p \in sent' : p.session = LastIndex => p \in sent
      <4>1. q.session < LastIndex BY <3>1, <3>2 DEF IsFor
      <4>2. q.session # LastIndex BY <1>2, <4>1, <2>4, <3>2 DEF IsFor
      <4> QED BY <1>6, <3>2, <4>2
    <3>7. LeavingOK(balance', sent', calls') BY <1>1, <1>2, <3>1, <3>6 DEF LeavingOK
    <3>8. GoodQueue(queue') /\ QueuedAre(queue', status') BY <1>1, <1>2 DEF taskVars
    <3> QED BY <3>1, <3>4, <3>5, <3>7, <3>8 DEF Core, CoreOf
  <2>9. Types'
    <3>1. RestTypes' BY <1>1, <1>14, <2>7 DEF RestTypes, Ready, Types
    <3> QED BY <1>12, <2>7, <3>1 DEF Types
  <2>10. GoodCalls(calls') BY <1>1 DEF Ready
  <2>11. Kept BY <2>8, <2>9, <2>10 DEF Kept
  <2>12. Redirecting(r, c, T)
    <3>1. r.session = LastIndex BY <1>3
    <3> QED BY <1>1, <1>4, <1>6, <1>8, <1>11, <1>14, <2>1, <2>6, <3>1 DEF Redirecting
  <2> QED BY <1>1, <1>4, <2>11, <2>12
<1> QED BY <1>3, <1>10, <1>11, <1>13, <1>14

-----------------------------------------------------------------------------
\* What a session that is gone leaves: the others, and requests marked old.
Old(r) == [r EXCEPT !.old = TRUE]

LEMMA OldIs ==
    ASSUME NEW r \in Request
    PROVE  /\ Old(r) \in Request /\ Old(r).task = r.task /\ Old(r).offset = r.offset
           /\ Old(r).session = r.session /\ Old(r).kind = r.kind /\ Old(r).amount = r.amount
  BY DEF Old, Request

\* As many old requests in a set whose requests differ in offset.
LEMMA OldImage ==
    ASSUME NEW A, IsFiniteSet(A), A \subseteq Request, OnePerOffset(A),
           NEW B, B = {Old(r) : r \in A}
    PROVE  IsFiniteSet(B) /\ Cardinality(B) = Cardinality(A)
<1>1. PICK f : f = [r \in A |-> Old(r)] OBVIOUS
<1>2. f \in [A -> B] BY <1>1
<1>3. \A x, y \in A : f[x] = f[y] => x = y
  <2> SUFFICES ASSUME NEW x \in A, NEW y \in A, f[x] = f[y] PROVE x = y OBVIOUS
  <2>1. x \in Request /\ y \in Request /\ Old(x) = Old(y) BY <1>1
  <2>2. x.task = y.task /\ x.offset = y.offset BY <2>1, OldIs
  <2> QED BY <2>2 DEF OnePerOffset
<1>4. \A t \in B : \E s \in A : f[s] = t BY <1>1
<1>5. f \in Bijection(A, B) BY <1>2, <1>3, <1>4 DEF Bijection, Injection, Surjection, IsInjective
<1>6. ExistsBijection(A, B) BY <1>5 DEF ExistsBijection
<1> QED BY <1>6, FS_Bijection

IsFront(p, E, q) ==
    /\ p \in Seq(E) /\ Len(p) = Len(q) - 1 /\ \A i \in 1 .. Len(p) : p[i] = q[i]

LEMMA FrontIs ==
    ASSUME NEW E, NEW q \in Seq(E), Len(q) > 0, NEW p, p = Front(q)
    PROVE  IsFront(p, E, q)
<1>1. Len(q) \in Nat /\ \A i \in 1 .. Len(q) : q[i] \in E BY ElementOfSeq
<1>2. PICK n : n = Len(q) - 1 OBVIOUS
<1>3. n \in Int /\ 1 \in Int /\ 1 .. n \subseteq 1 .. Len(q) /\ n >= 0 BY <1>1, <1>2
<1>4. p = SubSeq(q, 1, n) BY <1>2 DEF Front
<1>5. \A i \in 1 .. n : q[i] \in E BY <1>1, <1>3
<1>6. /\ p \in Seq(E)
      /\ Len(p) = IF 1 <= n THEN n - 1 + 1 ELSE 0
      /\ \A i \in 1 .. n - 1 + 1 : p[i] = q[1 + i - 1]
  BY <1>3, <1>4, <1>5, SubSeqProperties
<1>7. Len(p) = n BY <1>3, <1>6
<1>8. \A i \in 1 .. n : p[i] = q[i]
  <2> SUFFICES ASSUME NEW i \in 1 .. n PROVE p[i] = q[i] OBVIOUS
  <2>1. i \in 1 .. n - 1 + 1 /\ 1 + i - 1 = i BY <1>3
  <2> QED BY <1>6, <2>1
<1> QED BY <1>2, <1>6, <1>7, <1>8 DEF IsFront

PoppedOf(b) == [b EXCEPT !.sessions = Front(@), !.removed = TRUE]

LEMMA PoppedAgrees ==
    ASSUME NEW b, NEW S, NEW n \in Nat, n > 1, Len(b.sessions) = n, Agrees(b, S, n),
           \A r \in S : r.session # n,
           NEW c, c = PoppedOf(b),
           NEW T, T = {Old(r) : r \in S}
    PROVE  Agrees(c, T, None) /\ Len(c.sessions) = n - 1
<1>1. /\ b \in Balance /\ b.sessions \in Seq(SessionData) /\ GoodSent(S) /\ S \subseteq Request
      /\ IsFiniteSet(S) /\ OnePerOffset(S) /\ n \in 1 .. MaxSessions
  BY SessionsOf DEF Agrees, GoodBalance, GoodSent
<1>2. PICK ss : ss = Front(b.sessions) OBVIOUS
<1>3. ss \in Seq(SessionData) /\ Len(ss) = n - 1 /\ \A i \in 1 .. n - 1 : ss[i] = b.sessions[i]
  <2>1. IsFront(ss, SessionData, b.sessions) BY <1>1, <1>2, FrontIs
  <2> QED BY <2>1 DEF IsFront
<1>4. c \in Balance /\ c.sessions = ss /\ c.total = b.total /\ c.kill = b.kill
  BY <1>1, <1>2, <1>3 DEF Balance, PoppedOf
<1>5. GoodBalance(c)
  <2>1. n - 1 \in 1 .. MaxSessions BY <1>1, SizesAssumption
  <2> QED BY <1>3, <1>4, <2>1 DEF GoodBalance
<1>6. \A r \in S : r \in Request /\ r.session \in 1 .. n - 1
  <2> SUFFICES ASSUME NEW r \in S PROVE r \in Request /\ r.session \in 1 .. n - 1 OBVIOUS
  <2>1. r.session \in 1 .. n /\ r.session # n BY DEF Agrees
  <2> QED BY <1>1, <2>1
<1>7. IsFiniteSet(T) /\ Cardinality(T) = Cardinality(S) BY <1>1, OldImage
<1>8. GoodSent(T) BY <1>6, <1>7, OldIs DEF GoodSent
<1>9. OnePerOffset(T)
  <2> SUFFICES ASSUME NEW p \in S, NEW q \in S, Old(p).task = Old(q).task, Old(p).offset = Old(q).offset
               PROVE  Old(p) = Old(q)
    BY DEF OnePerOffset
  <2>1. p.task = q.task /\ p.offset = q.offset BY <1>6, OldIs
  <2> QED BY <1>1, <2>1 DEF OnePerOffset
<1>10. \A r \in T : r.session \in 1 .. n - 1 BY <1>6, OldIs
<1>11. Counted(ss, T, None)
  <2> SUFFICES ASSUME NEW i \in 1 .. n - 1
               PROVE ss[i].requested = Cardinality(In(T, i)) + Owing(None, i)
    BY <1>3 DEF Counted
  <2>1. i \in 1 .. n /\ i # n /\ i # None BY DEF None
  <2>2. ss[i].requested = Cardinality(In(S, i)) + Owing(n, i)
    BY <1>3, <2>1 DEF Agrees, Counted
  <2>3. Owing(n, i) = 0 /\ Owing(None, i) = 0 BY <2>1 DEF Owing
  <2>4. In(T, i) = {Old(r) : r \in In(S, i)}
    <3>1. \A r \in S : Old(r).session = r.session BY <1>6, OldIs
    <3> QED BY <3>1 DEF In
  <2>5. Cardinality(In(T, i)) = Cardinality(In(S, i))
    <3>1. IsFiniteSet(In(S, i)) /\ In(S, i) \subseteq S BY <1>1, InIsFinite DEF In
    <3>2. PICK A : A = In(S, i) OBVIOUS
    <3>3. PICK B : B = {Old(r) : r \in A} OBVIOUS
    <3>4. IsFiniteSet(A) /\ A \subseteq Request /\ OnePerOffset(A)
      BY <1>1, <3>1, <3>2 DEF OnePerOffset
    <3>5. Cardinality(B) = Cardinality(A) BY <3>3, <3>4, OldImage
    <3> QED BY <2>4, <3>2, <3>3, <3>5
  <2> QED BY <2>2, <2>3, <2>5
<1>12. c.total = Cardinality(T) BY <1>4, <1>7 DEF Agrees
<1>13. c.kill => T = {} BY <1>4 DEF Agrees
<1> QED BY <1>3, <1>4, <1>5, <1>8, <1>9, <1>10, <1>11, <1>12, <1>13 DEF Agrees

LEMMA PopSessionKeeps ==
    ASSUME Ready, PopSession
    PROVE  /\ Kept /\ failed' = FALSE /\ calls' = <<>> /\ posted' = posted
           /\ \A r \in sent : r.session # LastIndex
           /\ Len(balance'.sessions) = LastIndex - 1 /\ sent' = {Old(r) : r \in sent}
           /\ Head(calls).op = "pop" /\ UNCHANGED taskVars
<1>1. /\ calls # <<>> /\ Head(calls).op = "pop" /\ calls' = Tail(calls)
      /\ failed' = (balance.sessions[LastIndex].requested # Big)
      /\ balance' = [balance EXCEPT !.sessions = Front(@), !.removed = TRUE]
      /\ sent' = {Old(r) : r \in sent}
      /\ UNCHANGED <<queue, resetTimer, taskVars, posted, faults>>
  BY DEF PopSession, Old
<1>2. /\ Leaving(calls) /\ LastIndex = Len(balance.sessions) /\ LastIndex \in Nat /\ LastIndex > 1
      /\ Agrees(balance, sent, LastIndex) /\ GoodQueue(queue) /\ QueuedAre(queue, status)
      /\ AllLoading(sent, calls, status) /\ ~failed /\ failed \in BOOLEAN
      /\ \A r \in sent : r.session = LastIndex => Pending(calls, "redirect", r.task)
  BY <1>1, LeavingLoad
<1>3. IsTail(calls', calls) BY <1>1, TailIs DEF Ready
<1>4. calls' = <<>> BY <1>1, <1>3 DEF IsTail
<1>5. \A t : ~Pending(calls', "redirect", t)  BY <1>4, QuietCalls
<1>6. \A t : ~Pending(calls, "redirect", t) BY <1>1, <1>3, <1>5 DEF IsTail
<1>7. \A r \in sent : r.session # LastIndex BY <1>2, <1>6
<1>8. PICK n : n = LastIndex OBVIOUS
<1>9. Agrees(balance', sent', None) /\ Len(balance'.sessions) = n - 1
  <2>1. PICK c : c = PoppedOf(balance) OBVIOUS
  <2>2. PICK T : T = {Old(r) : r \in sent} OBVIOUS
  <2>3. Agrees(c, T, None) /\ Len(c.sessions) = n - 1
    BY <1>2, <1>7, <1>8, <2>1, <2>2, PoppedAgrees
  <2>4. balance' = c BY <1>1, <2>1 DEF PoppedOf
  <2> QED BY <1>1, <2>2, <2>3, <2>4
<1>10. failed' = FALSE
  <2>1. GoodBalance(balance) /\ LastIndex \in 1 .. Len(balance.sessions) BY <1>2 DEF Agrees
  <2>2. balance.sessions[LastIndex].requested = Cardinality(In(sent, LastIndex)) + Owing(LastIndex, LastIndex)
    BY <1>2, <2>1 DEF Agrees, Counted
  <2>3. In(sent, LastIndex) = {} BY <1>7 DEF In
  <2>4. Cardinality(In(sent, LastIndex)) = 0 BY <2>3, FS_EmptySet
  <2>5. Owing(LastIndex, LastIndex) = Big /\ Big \in Nat BY BigIsPositive DEF Owing
  <2>6. balance.sessions[LastIndex].requested = Big BY <2>2, <2>4, <2>5
  <2> QED BY <1>1, <2>6
<1>11. \A r \in sent' : status'[r.task] = "loading"
  <2> SUFFICES ASSUME NEW r \in sent PROVE status'[Old(r).task] = "loading" BY <1>1
  <2>1. Old(r).task = r.task BY OldIs, SentTyped DEF Ready, Types, LoadTypes
  <2>2. status[r.task] = "loading" BY <1>2 DEF AllLoading
  <2> QED BY <1>1, <2>1, <2>2 DEF taskVars
<1>12. Core'
  <2>1. GoodQueue(queue') /\ QueuedAre(queue', status') BY <1>1, <1>2 DEF taskVars
  <2> QED BY <1>4, <1>9, <1>11, <2>1, QuietCore DEF Core
<1>13. Types'
  <2>1. LoadTypes' BY <1>9 DEF LoadTypes, Agrees
  <2>2. TaskTypes' BY <1>1 DEF TaskTypes, taskVars, Ready, Types
  <2>3. RestTypes' BY <1>1, <1>10 DEF RestTypes, Ready, Types
  <2> QED BY <2>1, <2>2, <2>3 DEF Types
<1>14. GoodCalls(calls') BY <1>4, QuietCalls
<1> QED BY <1>1, <1>4, <1>7, <1>8, <1>9, <1>10, <1>12, <1>13, <1>14 DEF Kept

-----------------------------------------------------------------------------
\* Tasks of this generation are older than new ones, in the same order.
LEMMA ResetGenerationKeeps ==
    ASSUME Ready, ResetGeneration
    PROVE  Kept /\ failed' = FALSE /\ UNCHANGED <<balance, sent, taskVars, calls, posted>>
<1>1. /\ Idle /\ ~failed /\ calls = <<>> /\ resetTimer' = FALSE
      /\ UNCHANGED <<balance, sent, taskVars, calls, posted, faults>>
  BY DEF ResetGeneration, Idle
<1> DEFINE older(k) == [queue[k] EXCEPT !.priority = IF queue[k].priority = 0 THEN -1
                                                     ELSE queue[k].priority]
           n == Len(queue)
<1>2. /\ Agrees(balance, sent, None) /\ GoodQueue(queue) /\ QueuedAre(queue, status)
      /\ \A q \in sent : status[q.task] = "loading"
  BY <1>1, IdleCore DEF Ready
<1>3. /\ n \in Nat /\ DOMAIN queue = 1 .. n
      /\ \A k \in 1 .. n : queue[k] \in Entry /\ queue[k].task \in Task /\ queue[k].priority \in Int
  BY <1>2, EntriesOf DEF GoodQueue
<1>4. queue' = [k \in 1 .. n |-> older(k)] BY <1>3 DEF ResetGeneration
<1>5. ASSUME NEW k \in 1 .. n
      PROVE  /\ older(k) \in Entry /\ older(k).task = queue[k].task
             /\ older(k).priority = IF queue[k].priority = 0 THEN -1 ELSE queue[k].priority
  <2>1. queue[k] \in Entry BY <1>3
  <2>2. PICK p : p = IF queue[k].priority = 0 THEN -1 ELSE queue[k].priority OBVIOUS
  <2>3. p \in Int
    <3>1. queue[k].priority \in Int /\ -1 \in Int BY <1>3
    <3> QED BY <2>2, <3>1
  <2>4. older(k) = [queue[k] EXCEPT !.priority = p] BY <2>2
  <2> HIDE DEF older
  <2> QED BY <2>1, <2>2, <2>3, <2>4 DEF Entry
<1>6. /\ queue' \in Seq(Entry) /\ Len(queue') = n /\ DOMAIN queue' = 1 .. n
      /\ \A k \in 1 .. n : queue'[k] = older(k)
  <2>1. \A k \in 1 .. n : older(k) \in Entry BY <1>5
  <2> HIDE DEF older
  <2>2. queue' \in [1 .. n -> Entry] /\ \A k \in 1 .. n : queue'[k] = older(k) BY <1>4, <2>1
  <2>3. queue' \in Seq(Entry) BY <1>3, <2>2, SeqDef
  <2>4. DOMAIN queue' = 1 .. n BY <2>2
  <2>5. Len(queue') = n BY <1>3, <2>3, <2>4
  <2> QED BY <2>2, <2>3, <2>4, <2>5
<1>7. \A k \in 1 .. n :
         /\ queue'[k].task = queue[k].task
         /\ queue'[k].priority = IF queue[k].priority = 0 THEN -1 ELSE queue[k].priority
  <2> SUFFICES ASSUME NEW k \in 1 .. n
               PROVE /\ queue'[k].task = queue[k].task
                     /\ queue'[k].priority = IF queue[k].priority = 0 THEN -1 ELSE queue[k].priority
    OBVIOUS
  <2>1. queue'[k] = older(k) BY <1>6
  <2> QED BY <1>5, <2>1
<1> HIDE DEF older
<1>8. GoodQueue(queue')
  <2>1. \A j, k \in 1 .. n : queue'[j].task = queue'[k].task => j = k BY <1>2, <1>7 DEF GoodQueue
  <2>2. ASSUME NEW j \in 1 .. n, NEW k \in 1 .. n, j < k
        PROVE queue'[j].priority >= queue'[k].priority
    <3>1. queue[j].priority >= queue[k].priority BY <2>2, <1>2 DEF GoodQueue
    <3>2. queue[j].priority \in Int /\ queue[k].priority \in Int BY <1>3
    <3> QED BY <1>7, <3>1, <3>2
  <2> QED BY <1>6, <2>1, <2>2 DEF GoodQueue
<1>9. QueuedAre(queue', status')
  <2>1. \A t \in Task : Queued(queue', t) <=> Queued(queue, t) BY <1>6, <1>7 DEF Queued
  <2> QED BY <1>1, <1>2, <2>1 DEF QueuedAre, taskVars
<1>10. failed' = FALSE
  <2>1. failed' = (\E j, k \in DOMAIN queue :
                      j < k /\ queue[j].priority = 0 /\ queue[k].priority > 0)
    BY DEF ResetGeneration
  <2>2. ~ (\E j, k \in DOMAIN queue : j < k /\ queue[j].priority = 0 /\ queue[k].priority > 0)
    <3> SUFFICES ASSUME NEW j \in 1 .. n, NEW k \in 1 .. n, j < k, queue[j].priority = 0,
                        queue[k].priority > 0
                 PROVE FALSE
      BY <1>3
    <3>1. queue[j].priority >= queue[k].priority BY <1>2 DEF GoodQueue
    <3>2. queue[k].priority \in Int BY <1>3
    <3> QED BY <3>1, <3>2
  <2> QED BY <2>1, <2>2
<1>11. Core'
  <2>1. \A q \in sent' : status'[q.task] = "loading" BY <1>1, <1>2 DEF taskVars
  <2>2. Agrees(balance', sent', None) /\ calls' = <<>> BY <1>1, <1>2
  <2> QED BY <1>8, <1>9, <2>1, <2>2, QuietCore DEF Core
<1>12. Types'
  <2>1. LoadTypes' BY <1>1 DEF LoadTypes, Ready, Types
  <2>2. TaskTypes' BY <1>1 DEF TaskTypes, taskVars, Ready, Types
  <2>3. RestTypes' BY <1>1, <1>6, <1>10 DEF RestTypes, Ready, Types
  <2> QED BY <2>1, <2>2, <2>3 DEF Types
<1>13. GoodCalls(calls') BY <1>1, QuietCalls
<1> QED BY <1>1, <1>10, <1>11, <1>12, <1>13 DEF Kept

LEMMA NewSessionIs == NewSession \in SessionData /\ NewSession.requested = 0
<1>1. StartWaited \in StartWaited .. MaxWaited BY SizesAssumption
<1>2. 0 \in 0 .. AddSuccesses * MaxRemoves
  <2>1. PICK n : n = AddSuccesses * MaxRemoves OBVIOUS
  <2>2. n \in Nat BY <2>1, CappedSuccesses
  <2> QED BY <2>1, <2>2
<1> QED BY <1>1, <1>2 DEF NewSession, SessionData

LEMMA NewBalanceIs ==
    /\ NewBalance \in Balance /\ NewBalance.total = 0 /\ NewBalance.kill = FALSE
    /\ NewBalance.sessions = <<NewSession>>
<1>1. <<NewSession>> \in Seq(SessionData) BY NewSessionIs
<1>2. 0 \in 0 .. RemoveTimeouts - 1 /\ 0 \in 0 .. MaxRemoves /\ 0 \in 0 .. MaxSessions
  BY SizesAssumption
<1> QED BY <1>1, <1>2 DEF NewBalance, Balance, None

\* The sessions of a balance that asks for nothing.
LEMMA NothingAsked ==
    ASSUME NEW b, GoodBalance(b), b.total = 0, b.kill = FALSE,
           \A i \in 1 .. Len(b.sessions) : b.sessions[i].requested = 0
    PROVE  Agrees(b, {}, None)
<1>1. GoodSent({}) /\ Cardinality({}) = 0 BY FS_EmptySet DEF GoodSent
<1>2. Counted(b.sessions, {}, None)
  <2> SUFFICES ASSUME NEW i \in 1 .. Len(b.sessions)
               PROVE b.sessions[i].requested = Cardinality(In({}, i)) + Owing(None, i)
    BY DEF Counted
  <2>1. In({}, i) = {} BY DEF In
  <2>2. i # None BY DEF None
  <2>3. Owing(None, i) = 0 BY <2>2 DEF Owing
  <2>4. Cardinality(In({}, i)) = 0 BY <1>1, <2>1
  <2>5. b.sessions[i].requested = 0 OBVIOUS
  <2> QED BY <2>3, <2>4, <2>5
<1> QED BY <1>1, <1>2 DEF Agrees, OnePerOffset

LEMMA KillSessionsKeeps ==
    ASSUME Ready, KillSessions
    PROVE  /\ Kept /\ failed' = FALSE /\ sent' = {} /\ sent = {}
           /\ Len(balance'.sessions) = Len(balance.sessions)
           /\ UNCHANGED <<taskVars, calls, posted>>
<1>1. /\ Idle /\ ~failed /\ calls = <<>> /\ balance.kill
      /\ UNCHANGED <<queue, resetTimer, sent, taskVars, calls, posted, faults>>
  BY DEF KillSessions, Idle
<1>2. /\ Agrees(balance, sent, None) /\ GoodQueue(queue) /\ QueuedAre(queue, status)
      /\ \A q \in sent : status[q.task] = "loading"
  BY <1>1, IdleCore DEF Ready
<1>3. sent = {} BY <1>1, <1>2 DEF Agrees
<1>4. Len(balance.sessions) \in 1 .. MaxSessions BY <1>2 DEF Agrees, GoodBalance
<1>5. PICK n : n = Len(balance.sessions) OBVIOUS
<1>6. n \in 1 .. MaxSessions /\ n \in Nat BY <1>4, <1>5, SizesAssumption
<1>7. PICK ss : ss = [i \in 1 .. n |-> NewSession] OBVIOUS
<1>8. ss \in Seq(SessionData) /\ Len(ss) = n /\ \A i \in 1 .. n : ss[i].requested = 0
  <2>1. ss \in [1 .. n -> SessionData] /\ \A i \in 1 .. n : ss[i] = NewSession BY <1>7, NewSessionIs
  <2>2. ss \in Seq(SessionData) BY <1>6, <2>1, SeqDef
  <2>3. DOMAIN ss = 1 .. n BY <2>1
  <2>4. Len(ss) = n BY <1>6, <2>2, <2>3
  <2> QED BY <2>1, <2>2, <2>4, NewSessionIs
<1>9. balance' = [NewBalance EXCEPT !.sessions = ss]
  BY <1>5, <1>7 DEF KillSessions, LastIndex
<1>10. balance' \in Balance /\ balance'.sessions = ss /\ balance'.total = 0 /\ balance'.kill = FALSE
  <2>1. NewBalance \in Balance /\ NewBalance.total = 0 /\ NewBalance.kill = FALSE BY NewBalanceIs
  <2> QED BY <1>8, <1>9, <2>1 DEF Balance
<1>11. GoodBalance(balance') BY <1>6, <1>8, <1>10 DEF GoodBalance
<1>12. Agrees(balance', {}, None) BY <1>8, <1>10, <1>11, NothingAsked
<1>13. failed' = FALSE
  <2>1. Cardinality({}) = 0 /\ \A i : In({}, i) = {} BY FS_EmptySet DEF In
  <2>2. balance.total = 0 BY <1>2, <1>3, <2>1 DEF Agrees
  <2>3. \A i \in 1 .. n : balance.sessions[i].requested = 0
    <3> SUFFICES ASSUME NEW i \in 1 .. n PROVE balance.sessions[i].requested = 0 OBVIOUS
    <3>1. balance.sessions[i].requested = Cardinality(In(sent, i)) + Owing(None, i)
      BY <1>2, <1>5 DEF Agrees, Counted
    <3>2. i # None BY DEF None
    <3> QED BY <1>3, <2>1, <3>1, <3>2 DEF Owing
  <2>4. failed' = (\/ balance.total # 0
                   \/ \E i \in 1 .. n : balance.sessions[i].requested # 0)
    BY <1>5 DEF KillSessions, LastIndex
  <2> QED BY <2>2, <2>3, <2>4
<1>14. Core'
  <2>1. Agrees(balance', sent', None) /\ calls' = <<>> /\ \A q \in sent' : status'[q.task] = "loading"
    BY <1>1, <1>3, <1>12
  <2>2. GoodQueue(queue') /\ QueuedAre(queue', status') BY <1>1, <1>2 DEF taskVars
  <2> QED BY <2>1, <2>2, QuietCore DEF Core
<1>15. Types'
  <2>1. LoadTypes' BY <1>1, <1>3, <1>12 DEF LoadTypes, Agrees
  <2>2. TaskTypes' BY <1>1 DEF TaskTypes, taskVars, Ready, Types
  <2>3. RestTypes' BY <1>1, <1>13 DEF RestTypes, Ready, Types
  <2> QED BY <2>1, <2>2, <2>3 DEF Types
<1>16. GoodCalls(calls') BY <1>1, QuietCalls
<1> QED BY <1>1, <1>3, <1>5, <1>8, <1>10, <1>13, <1>14, <1>15, <1>16 DEF Kept

-----------------------------------------------------------------------------
(* The start of a removal.                                                   *)

\* Each queued task is rechecked and redirected, in turn, before the pop.
IsRemoval(cs, q) ==
    /\ GoodCalls(cs) /\ Leaving(cs) /\ \A d : ~InTodo(cs, d)
    /\ \A t \in Task : Queued(q, t) => Pending(cs, "recheck", t) /\ Pending(cs, "redirect", t)

LEMMA RemovalIs ==
    ASSUME GoodQueue(queue), NEW cs, cs = RemovalCalls
    PROVE  IsRemoval(cs, queue)
<1> DEFINE n == Len(queue)
           call(k) == IF k > 2 * n THEN [op |-> "pop"]
                      ELSE [op |-> IF k % 2 = 1 THEN "recheck" ELSE "redirect",
                            task |-> queue[(k + 1) \div 2].task]
<1>1. n \in Nat /\ \A k \in 1 .. n : queue[k].task \in Task BY EntriesOf DEF GoodQueue
<1>2. cs = [k \in 1 .. 2 * n + 1 |-> call(k)] BY DEF RemovalCalls
<1>3. ASSUME NEW k \in 1 .. 2 * n + 1
      PROVE  call(k) \in Call /\ call(k).op \in {"pop", "recheck", "redirect"}
             /\ (call(k).op = "pop" => k = 2 * n + 1)
  <2>1. CASE k > 2 * n
    <3>1. call(k) = [op |-> "pop"] BY <2>1
    <3>2. k = 2 * n + 1 BY <1>1, <2>1
    <3> HIDE DEF call
    <3> QED BY <3>1, <3>2 DEF Call
  <2>2. CASE ~ (k > 2 * n)
    <3>1. PICK o \in {"recheck", "redirect"} : o = IF k % 2 = 1 THEN "recheck" ELSE "redirect" OBVIOUS
    <3>2. PICK j : j = (k + 1) \div 2 OBVIOUS
    <3>3. j \in 1 .. n BY <1>1, <2>2, <3>2
    <3>4. PICK t \in Task : t = queue[j].task BY <1>1, <3>3
    <3>5. call(k) = [op |-> o, task |-> t] BY <2>2, <3>1, <3>2, <3>4
    <3> HIDE DEF call
    <3> QED BY <3>5 DEF Call
  <2> QED BY <2>1, <2>2
<1>4. call(2 * n + 1) = [op |-> "pop"] BY <1>1
<1>5. ASSUME NEW j \in 1 .. n
      PROVE  /\ call(2 * j).op = "redirect" /\ call(2 * j).task = queue[j].task
             /\ call(2 * j - 1).op = "recheck" /\ call(2 * j - 1).task = queue[j].task
             /\ 2 * j \in 1 .. 2 * n + 1 /\ 2 * j - 1 \in 1 .. 2 * n + 1
  <2>1. ~ (2 * j > 2 * n) /\ ~ (2 * j - 1 > 2 * n) BY <1>1
  <2>2. (2 * j) % 2 # 1 /\ (2 * j + 1) \div 2 = j BY <1>1
  <2>3. (2 * j - 1) % 2 = 1 /\ (2 * j - 1 + 1) \div 2 = j BY <1>1
  <2>4. 2 * j \in 1 .. 2 * n + 1 /\ 2 * j - 1 \in 1 .. 2 * n + 1 BY <1>1
  <2>5. call(2 * j) = [op |-> "redirect", task |-> queue[j].task] BY <2>1, <2>2
  <2>6. call(2 * j - 1) = [op |-> "recheck", task |-> queue[j].task] BY <2>1, <2>3
  <2> QED BY <2>4, <2>5, <2>6
<1>6. /\ cs \in Seq(Call) /\ Len(cs) = 2 * n + 1
      /\ \A k \in 1 .. Len(cs) : cs[k] = call(k)
  <2>1. \A k \in 1 .. 2 * n + 1 : call(k) \in Call BY <1>3
  <2> HIDE DEF call
  <2>2. cs \in [1 .. 2 * n + 1 -> Call] BY <1>2, <2>1
  <2>3. 2 * n + 1 \in Nat BY <1>1
  <2>4. cs \in Seq(Call) BY <2>2, <2>3, SeqDef
  <2>5. DOMAIN cs = 1 .. 2 * n + 1 BY <2>2
  <2>6. Len(cs) = 2 * n + 1 BY <2>3, <2>4, <2>5
  <2> QED BY <1>2, <2>4, <2>6
<1> HIDE DEF call
<1>7. \A k \in 1 .. Len(cs) : cs[k].op \in {"pop", "recheck", "redirect"} /\ (cs[k].op = "pop" => k = Len(cs))
  BY <1>3, <1>6
<1>8. Leaving(cs)
  <2>1. Len(cs) \in 1 .. Len(cs) BY <1>1, <1>6
  <2>2. cs[Len(cs)].op = "pop" BY <1>4, <1>6, <2>1
  <2> QED BY <2>1, <2>2 DEF Leaving, HasCall
<1>9. ~HasCall(cs, "send") /\ ~HasCall(cs, "resend") BY <1>7 DEF HasCall
<1>10. GoodCalls(cs) BY <1>6, <1>7, <1>8, <1>9 DEF GoodCalls
<1>11. \A d : ~InTodo(cs, d) BY <1>9 DEF InTodo, HasCall
<1>12. ASSUME NEW t \in Task, Queued(queue, t)
       PROVE Pending(cs, "recheck", t) /\ Pending(cs, "redirect", t)
  <2>1. PICK j \in 1 .. n : queue[j].task = t BY <1>12 DEF Queued
  <2>2. PICK a \in 1 .. Len(cs) : a = 2 * j BY <1>5, <1>6
  <2>3. PICK b \in 1 .. Len(cs) : b = 2 * j - 1 BY <1>5, <1>6
  <2>4. cs[a].op = "redirect" /\ cs[a].task = t BY <1>5, <1>6, <2>1, <2>2
  <2>5. cs[b].op = "recheck" /\ cs[b].task = t BY <1>5, <1>6, <2>1, <2>3
  <2> QED BY <2>4, <2>5 DEF Pending
<1> QED BY <1>8, <1>10, <1>11, <1>12 DEF IsRemoval

\* The last session is given Big more, so that no other is not chosen.
LEMMA RemovingAgrees ==
    ASSUME NEW b, NEW S, Agrees(b, S, None), Len(b.sessions) = LastIndex, NEW c, c = Removing(b)
    PROVE  Agrees(c, S, LastIndex) /\ Len(c.sessions) = LastIndex
<1> DEFINE n == LastIndex
           m == b.sessions[n].requested + Big
           s == [b.sessions[n] EXCEPT !.requested = m]
           ss == [b.sessions EXCEPT ![n] = s]
           k == IF b.removeIndex = n THEN Min({b.removeTimes + 1, MaxRemoves}) ELSE 1
<1>1. /\ b \in Balance /\ b.sessions \in Seq(SessionData) /\ n \in 1 .. MaxSessions
      /\ n \in 1 .. Len(b.sessions) /\ b.sessions[n] \in SessionData
      /\ DOMAIN b.sessions = 1 .. n /\ n \in Nat
      /\ \A i \in 1 .. n : b.sessions[i].requested \in Nat
  BY SessionsOf DEF Agrees, GoodBalance
<1>2. Big \in Nat BY BigIsPositive
<1>3. m \in Nat BY <1>1, <1>2
<1>4. s \in SessionData /\ s.requested = m
  <2> HIDE DEF m
  <2> QED BY <1>1, <1>3 DEF SessionData
<1>5. k \in 0 .. MaxRemoves
  <2>1. MaxRemoves \in Nat \ {0} /\ b.removeTimes \in Nat BY <1>1, SizesAssumption DEF Balance
  <2>2. PICK D : D = {b.removeTimes + 1, MaxRemoves} OBVIOUS
  <2>3. D \subseteq Nat /\ D # {} BY <2>1, <2>2
  <2>4. Min(D) \in D /\ \A y \in D : Min(D) <= y BY <2>3, MinIsLeast
  <2>5. Min(D) \in 0 .. MaxRemoves BY <2>1, <2>2, <2>3, <2>4
  <2> QED BY <2>1, <2>2, <2>5
<1>6. c = [b EXCEPT !.timeouts = 0, !.removeTimes = k, !.removeIndex = n, !.sessions = ss]
  <2>1. [b.sessions EXCEPT ![n].requested = @ + Big] = ss BY <1>1
  <2> QED BY <1>1, <2>1 DEF Removing
<1>7. /\ ss \in Seq(SessionData) /\ Len(ss) = Len(b.sessions)
      /\ \A i \in 1 .. Len(b.sessions) : ss[i] = IF i = n THEN s ELSE b.sessions[i]
  <2> HIDE DEF s
  <2> QED BY <1>1, <1>4, ExceptSeq
<1> HIDE DEF ss, k
<1>8. c \in Balance /\ c.sessions = ss /\ c.total = b.total /\ c.kill = b.kill
  <2>1. 0 \in 0 .. RemoveTimeouts - 1 /\ n \in 0 .. MaxSessions BY <1>1, SizesAssumption
  <2> QED BY <1>1, <1>5, <1>6, <1>7, <2>1 DEF Balance
<1>9. GoodBalance(c) BY <1>1, <1>7, <1>8 DEF GoodBalance
<1>10. Counted(c.sessions, S, n)
  <2> SUFFICES ASSUME NEW i \in 1 .. n
               PROVE ss[i].requested = Cardinality(In(S, i)) + Owing(n, i)
    BY <1>7, <1>8 DEF Counted
  <2>1. b.sessions[i].requested = Cardinality(In(S, i)) + Owing(None, i)
    BY DEF Agrees, Counted
  <2>2. Owing(None, i) = 0 /\ Owing(n, i) = IF i = n THEN Big ELSE 0
    <3>1. i # None BY <1>1 DEF None
    <3> QED BY <3>1 DEF Owing
  <2>3. Cardinality(In(S, i)) \in Nat BY InIsFinite DEF Agrees, GoodSent
  <2>4. ss[i].requested = IF i = n THEN m ELSE b.sessions[i].requested BY <1>4, <1>7
  <2>5. CASE i = n BY <1>2, <2>1, <2>2, <2>3, <2>4, <2>5
  <2>6. CASE i # n BY <2>1, <2>2, <2>3, <2>4, <2>6
  <2> QED BY <2>5, <2>6
<1> QED BY <1>7, <1>8, <1>9, <1>10 DEF Agrees

\* What sessionTimedOut does: nothing but count, or begin a removal.
TimedOutTo(cs) ==
    /\ LoadTypes' /\ GoodCalls(cs) /\ Len(balance'.sessions) = Len(balance.sessions)
    /\ \/ cs = calls /\ Agrees(balance', sent, None)
       \/ /\ IsRemoval(cs, queue) /\ Agrees(balance', sent, LastIndex) /\ LastIndex > 1

LEMMA TimedOutIs ==
    ASSUME Ready, Idle, NEW i, SessionTimedOut(i), sent' = sent
    PROVE  TimedOutTo(calls')
<1>1. Agrees(balance, sent, None) /\ GoodQueue(queue) /\ GoodCalls(calls)
  BY IdleCore DEF Ready, Idle
<1>2. GoodBalance(balance) /\ GoodSent(sent) BY <1>1 DEF Agrees
<1>3. PICK b : b = NoSuccesses(balance) OBVIOUS
<1>4. /\ Rewards(b, balance) /\ Len(b.sessions) = Len(balance.sessions)
      /\ b.timeouts = balance.timeouts
  BY <1>2, <1>3, NoSuccessesRewards
<1>5. Agrees(b, sent, None) BY <1>1, <1>4, RewardsAgree
<1>6. CASE UNCHANGED <<balance, calls>>
  BY <1>1, <1>2, <1>6 DEF TimedOutTo, LoadTypes
<1>7. CASE balance' = b /\ UNCHANGED calls
  <2>1. GoodBalance(b) BY <1>5 DEF Agrees
  <2> QED BY <1>1, <1>2, <1>4, <1>5, <1>7, <2>1 DEF TimedOutTo, LoadTypes
<1>8. CASE /\ b.timeouts + 1 < RemoveTimeouts
           /\ balance' = [b EXCEPT !.timeouts = @ + 1] /\ UNCHANGED calls
  <2>1. b \in Balance BY <1>5 DEF Agrees, GoodBalance
  <2>2. b.timeouts + 1 \in 0 .. RemoveTimeouts - 1 BY <1>8, <2>1, SizesAssumption DEF Balance
  <2>3. /\ balance' \in Balance /\ balance'.sessions = b.sessions /\ balance'.total = b.total
        /\ balance'.kill = b.kill
    BY <1>8, <2>1, <2>2 DEF Balance
  <2>4. GoodBalance(balance') BY <1>5, <2>3 DEF Agrees, GoodBalance
  <2>5. Agrees(balance', sent, None) BY <1>5, <2>3, <2>4 DEF Agrees
  <2> QED BY <1>1, <1>2, <1>4, <1>8, <2>3, <2>4, <2>5 DEF TimedOutTo, LoadTypes
<1>9. CASE LastIndex # StartSessions /\ balance' = Removing(b) /\ calls' = RemovalCalls
  <2>1. Len(b.sessions) = LastIndex BY <1>4 DEF LastIndex
  <2>2. PICK c : c = Removing(b) OBVIOUS
  <2>3. Agrees(c, sent, LastIndex) /\ Len(c.sessions) = LastIndex BY <1>5, <2>1, <2>2, RemovingAgrees
  <2>4. balance' = c BY <1>9, <2>2
  <2>5. LoadTypes' BY <1>2, <2>3, <2>4 DEF LoadTypes, Agrees
  <2>6. IsRemoval(calls', queue) BY <1>1, <1>9, RemovalIs
  <2>7. LastIndex > 1
    <3>1. LastIndex \in Nat /\ LastIndex > 0 BY <1>2, SessionsOf DEF LastIndex
    <3> QED BY <1>9, <3>1 DEF StartSessions
  <2>8. GoodCalls(calls') BY <2>6 DEF IsRemoval
  <2>9. Len(balance'.sessions) = Len(balance.sessions) BY <2>3, <2>4 DEF LastIndex
  <2> QED BY <2>3, <2>4, <2>5, <2>6, <2>7, <2>8, <2>9 DEF TimedOutTo
<1> QED BY <1>3, <1>6, <1>7, <1>8, <1>9 DEF SessionTimedOut

LEMMA TimedOutKeeps ==
    ASSUME Ready, Idle, TimedOutTo(calls'),
           UNCHANGED <<queue, resetTimer, sent, taskVars, failed>>,
           posted' \in Seq(Post), faults' \in 0 .. MaxFaults
    PROVE  Kept /\ failed' = FALSE
<1>1. /\ Agrees(balance, sent, None) /\ GoodQueue(queue) /\ QueuedAre(queue, status)
      /\ \A q \in sent : status[q.task] = "loading"
  BY IdleCore DEF Ready, Idle
<1>2. failed' = FALSE BY DEF Ready, Types, RestTypes
<1>3. GoodQueue(queue') /\ QueuedAre(queue', status') /\ \A q \in sent' : status'[q.task] = "loading"
  BY <1>1 DEF taskVars
<1>4. LoadTypes' /\ GoodCalls(calls') BY DEF TimedOutTo
<1>5. Core'
  <2>1. CASE calls' = calls /\ Agrees(balance', sent, None)
    <3>1. calls' = <<>> /\ Agrees(balance', sent', None) BY <2>1 DEF Idle
    <3> QED BY <1>3, <3>1, QuietCore DEF Core
  <2>2. CASE IsRemoval(calls', queue) /\ Agrees(balance', sent, LastIndex) /\ LastIndex > 1
    <3>1. Len(balance'.sessions) = LastIndex BY DEF TimedOutTo, LastIndex
    <3>2. Removed(balance', calls') = LastIndex BY <2>2, <3>1 DEF IsRemoval, Removed
    <3>3. AllLoading(sent', calls', status') BY <1>3, <2>2 DEF AllLoading, IsRemoval
    <3>4. \A r \in sent' : Pending(calls', "redirect", r.task)
      <4> SUFFICES ASSUME NEW r \in sent PROVE Pending(calls', "redirect", r.task) OBVIOUS
      <4>1. r.task \in Task BY SentTyped DEF Ready, Types, LoadTypes
      <4>2. status[r.task] = "loading" BY <1>1
      <4>3. Queued(queue, r.task) BY <1>1, <4>1, <4>2 DEF QueuedAre
      <4> QED BY <2>2, <4>1, <4>3 DEF IsRemoval
    <3>5. LeavingOK(balance', sent', calls') BY <2>2, <3>1, <3>4 DEF LeavingOK
    <3> QED BY <1>3, <2>2, <3>2, <3>3, <3>5 DEF Core, CoreOf
  <2> QED BY <2>1, <2>2 DEF TimedOutTo
<1>6. Types'
  <2>1. TaskTypes' BY DEF TaskTypes, taskVars, Ready, Types
  <2>2. RestTypes' BY <1>2 DEF RestTypes, Ready, Types
  <2> QED BY <1>4, <2>1, <2>2 DEF Types
<1> QED BY <1>2, <1>4, <1>5, <1>6 DEF Kept

LEMMA RestartedKeeps ==
    ASSUME Ready, NEW i, RestartedByTimeout(i)
    PROVE  Kept /\ failed' = FALSE /\ TimedOutTo(calls')
<1>1. Idle /\ faults' \in 0 .. MaxFaults BY FaultTyped DEF RestartedByTimeout, Ready, Types
<1>2. /\ SessionTimedOut(BaseDownloadDcShift + i)
      /\ UNCHANGED <<queue, resetTimer, sent, taskVars, posted, failed>>
  BY DEF RestartedByTimeout
<1>3. TimedOutTo(calls') BY <1>1, <1>2, TimedOutIs
<1>4. posted' \in Seq(Post) BY <1>2 DEF Ready, Types, RestTypes
<1> QED BY <1>1, <1>2, <1>3, <1>4, TimedOutKeeps

-----------------------------------------------------------------------------
\* Parts wait for their hashes only in a task that is loading.
WaitingLoading == \A t \in Task : Waiting(unchecked[t]) # {} => status[t] = "loading"

LEMMA PostedFacts ==
    ASSUME posted \in Seq(Post), posted # <<>>
    PROVE  /\ Tail(posted) \in Seq(Post) /\ Head(posted) \in Post
           /\ Head(posted).op = "moreHashes" => Head(posted).task \in Task
<1>1. Tail(posted) \in Seq(Post) /\ Head(posted) \in Post OBVIOUS
<1>2. PICK p \in Post : p = Head(posted) BY <1>1
<1>3. p.op = "moreHashes" => p.task \in Task
  <2>1. CASE p \in [op: {"timedOut"}, index: Int] BY <2>1
  <2>2. CASE p \in [op: {"moreHashes"}, task: Task] BY <2>2
  <2> QED BY <2>1, <2>2 DEF Post
<1> QED BY <1>1, <1>2, <1>3

\* What the call posted first does.
Posts(p) ==
    \/ p.op = "timedOut" /\ TimedOutTo(calls') /\ sent' = sent /\ failed' = FALSE
    \/ /\ p.op = "moreHashes" /\ p.task \in Task /\ calls' = calls
       /\ \/ /\ Waiting(unchecked[p.task]) = {} \/ HashesRequest(sent, p.task) # {}
             /\ balance' = balance /\ sent' = sent /\ failed' = FALSE
          \/ /\ HashesRequest(sent, p.task) = {}
             /\ \E o \in Offset :
                   /\ unchecked[p.task][o] # None
                   /\ IsPlacedNow(balance, sent, None, p.task, o, unchecked[p.task][o], "hashes")

LEMMA RunPostedKeeps ==
    ASSUME Ready, WaitingLoading, RunPosted
    PROVE  /\ Kept /\ posted # <<>> /\ posted' = Tail(posted) /\ UNCHANGED taskVars
           /\ Posts(Head(posted))
<1>1. /\ Idle /\ posted # <<>> /\ posted' = Tail(posted) /\ ~failed /\ failed \in BOOLEAN
      /\ UNCHANGED <<queue, resetTimer, taskVars, faults>>
  BY DEF RunPosted, Idle, Ready, Types, RestTypes
<1>2. /\ Agrees(balance, sent, None) /\ GoodQueue(queue) /\ QueuedAre(queue, status)
      /\ \A q \in sent : status[q.task] = "loading"
  BY <1>1, IdleCore DEF Ready, Idle
<1>3. PICK p : p = Head(posted) OBVIOUS
<1>4. posted' \in Seq(Post) /\ (p.op = "moreHashes" => p.task \in Task) /\ faults' \in 0 .. MaxFaults
  <2>1. posted \in Seq(Post) /\ faults \in 0 .. MaxFaults BY DEF Ready, Types, RestTypes
  <2> QED BY <1>1, <1>3, <2>1, PostedFacts
<1>5. TaskTypes' BY <1>1 DEF TaskTypes, taskVars, Ready, Types
<1>6. CASE p.op = "timedOut" /\ SessionTimedOut(p.index) /\ UNCHANGED <<sent, failed>>
  <2>1. TimedOutTo(calls') BY <1>1, <1>6, TimedOutIs
  <2>2. Kept /\ failed' = FALSE BY <1>1, <1>4, <1>6, <2>1, TimedOutKeeps
  <2> QED BY <1>1, <1>3, <1>6, <2>1, <2>2 DEF Posts
<1>7. CASE /\ p.op = "moreHashes" /\ SetLoad(MoreHashes(Load, p.task, unchecked[p.task]))
           /\ UNCHANGED calls
  <2>1. PICK t \in Task : t = p.task BY <1>4, <1>7
  <2>2. PICK u : u = unchecked[t] OBVIOUS
  <2>3. u \in [Offset -> {None} \cup Index] BY <2>2 DEF Ready, Types, TaskTypes
  <2>4. SetLoad(MoreHashes(LoadOf(balance, sent, TRUE), t, u))
    <3>1. Load = LoadOf(balance, sent, TRUE) BY DEF Load, LoadOf
    <3> QED BY <1>7, <2>1, <2>2, <3>1
  <2>5. /\ LoadTypes' /\ failed' \in BOOLEAN
        /\ ~failed' => /\ Agrees(balance', sent', None)
                       /\ \A q \in sent' : q \in sent \/ (q.task = t /\ Waiting(u) # {})
    BY <1>1, <1>2, <2>3, <2>4, HashesSetAgrees
  <2>6. \/ /\ Waiting(u) = {} \/ HashesRequest(sent, t) # {}
           /\ balance' = balance /\ sent' = sent /\ failed' = FALSE
        \/ /\ HashesRequest(sent, t) = {}
           /\ \E o \in Offset : u[o] # None /\ IsPlacedNow(balance, sent, None, t, o, u[o], "hashes")
    BY <1>1, <1>2, <2>3, <2>4, HashesSet
  <2>7. ASSUME ~failed' PROVE Core'
    <3>1. \A q \in sent' : status'[q.task] = "loading"
      BY <1>1, <1>2, <2>1, <2>2, <2>5, <2>7 DEF WaitingLoading, taskVars
    <3>2. GoodQueue(queue') /\ QueuedAre(queue', status') BY <1>1, <1>2 DEF taskVars
    <3>3. calls' = <<>> /\ Agrees(balance', sent', None) BY <1>1, <1>7, <2>5, <2>7 DEF Idle
    <3> QED BY <3>1, <3>2, <3>3, QuietCore DEF Core
  <2>8. Types'
    <3>1. RestTypes' BY <1>1, <1>4, <2>5 DEF RestTypes, Ready, Types
    <3> QED BY <1>5, <2>5, <3>1 DEF Types
  <2>9. GoodCalls(calls') BY <1>7 DEF Ready
  <2>10. Kept BY <2>7, <2>8, <2>9 DEF Kept
  <2>11. Posts(p) BY <1>7, <2>1, <2>2, <2>6 DEF Posts
  <2> QED BY <1>1, <1>3, <2>10, <2>11
<1>8. CASE /\ p.op = "moreHashes" /\ status[p.task] = "gone"
           /\ UNCHANGED <<balance, sent, failed, calls>>
  <2>1. Core'
    <3>1. calls' = <<>> /\ Agrees(balance', sent', None) BY <1>1, <1>2, <1>8 DEF Idle
    <3>2. GoodQueue(queue') /\ QueuedAre(queue', status') /\ \A q \in sent' : status'[q.task] = "loading"
      BY <1>1, <1>2, <1>8 DEF taskVars
    <3> QED BY <3>1, <3>2, QuietCore DEF Core
  <2>2. Types'
    <3>1. LoadTypes' BY <1>8 DEF LoadTypes, Ready, Types
    <3>2. RestTypes' BY <1>1, <1>4, <1>8 DEF RestTypes, Ready, Types
    <3> QED BY <1>5, <3>1, <3>2 DEF Types
  <2>3. GoodCalls(calls') BY <1>8 DEF Ready
  <2>4. Kept BY <2>1, <2>2, <2>3 DEF Kept
  <2>5. Posts(p)
    <3>1. p.task \in Task BY <1>4, <1>8
    <3>2. Waiting(unchecked[p.task]) = {} BY <1>8, <3>1 DEF WaitingLoading
    <3>3. failed' = FALSE BY <1>1, <1>8
    <3> QED BY <1>8, <3>1, <3>2, <3>3 DEF Posts
  <2> QED BY <1>1, <1>3, <2>4, <2>5
<1> QED BY <1>3, <1>6, <1>7, <1>8 DEF RunPosted

-----------------------------------------------------------------------------
(* Every step keeps the invariant.                                           *)

LEMMA AskedOf ==
    ASSUME Ready, Idle, NEW r \in sent
    PROVE  r.task \in Task /\ r.offset \in Offset /\ r.session \in Index /\ status[r.task] = "loading"
<1>1. r.task \in Task /\ r.offset \in Offset /\ r.session \in Index
  BY SentTyped DEF Ready, Types, LoadTypes
<1> QED BY <1>1, IdleCore DEF Ready, Idle

LEMMA WaitingStays ==
    ASSUME WaitingLoading, UNCHANGED unchecked,
           \A s \in Task : status[s] = "loading" /\ Waiting(unchecked[s]) # {} => status'[s] = "loading"
    PROVE  WaitingLoading'
  BY DEF WaitingLoading

LEMMA FedWaiting ==
    ASSUME Ready, Idle, WaitingLoading, NEW r \in sent, NEW os \in SUBSET Offset,
           NEW l, Feed(r.task, os, l, unchecked[r.task]), UNCHANGED unchecked
    PROVE  WaitingLoading'
<1>1. r.task \in Task /\ status[r.task] = "loading" BY AskedOf
<1>2. TaskTypes /\ GoodQueue(queue) /\ QueuedAre(queue, status) BY IdleCore DEF Ready, Types, Idle
<1>3. PICK t \in Task : t = r.task BY <1>1
<1>4. PICK u : u = unchecked[t] OBVIOUS
<1>5. Feed(t, os, l, u) BY <1>3, <1>4
<1>6. FedTo(t, os, l, u) BY <1>1, <1>2, <1>3, <1>5, FeedIs
<1>7. \/ status' = status
      \/ (\A o \in Offset : u[o] = None) /\ \A s \in Task : s # t => status'[s] = status[s]
  BY <1>6 DEF FedTo
<1>8. CASE status' = status BY <1>8, WaitingStays
<1>9. CASE (\A o \in Offset : u[o] = None) /\ \A s \in Task : s # t => status'[s] = status[s]
  <2>1. Waiting(u) = {} BY <1>9 DEF Waiting
  <2> QED BY <1>4, <1>9, <2>1, WaitingStays
<1> QED BY <1>7, <1>8, <1>9

LEMMA CancelledWaiting ==
    ASSUME Ready, WaitingLoading, NEW t \in Task, NEW l, NEW later, CancelAll(t, l, later)
    PROVE  WaitingLoading'
<1>1. PICK u : u = [o \in Offset |-> None] OBVIOUS
<1>2. unchecked' = [unchecked EXCEPT ![t] = u] /\ status' = [status EXCEPT ![t] = "failed"]
  BY <1>1 DEF CancelAll
<1>3. unchecked \in [Task -> [Offset -> {None} \cup Index]] /\ status \in [Task -> Status]
  BY DEF Ready, Types, TaskTypes
<1>4. SUFFICES ASSUME NEW s \in Task, Waiting(unchecked'[s]) # {} PROVE status'[s] = "loading"
  BY DEF WaitingLoading
<1>5. Waiting(u) = {} BY <1>1 DEF Waiting
<1>6. s # t
  <2>1. unchecked'[t] = u BY <1>2, <1>3
  <2> QED BY <1>4, <1>5, <2>1
<1>7. unchecked'[s] = unchecked[s] /\ status'[s] = status[s] BY <1>2, <1>3, <1>6
<1> QED BY <1>4, <1>7 DEF WaitingLoading

LEMMA AnswerWaiting ==
    ASSUME Ready, WaitingLoading, NEW r \in sent, GoodAnswer(r) \/ BadAnswer(r)
    PROVE  WaitingLoading'
<1>1. CASE PartLoaded(r) \/ CdnPartGood(r)
  <2>1. Idle /\ UNCHANGED unchecked BY <1>1 DEF PartLoaded, CdnPartGood, Asked
  <2>2. PICK a : Feed(r.task, {r.offset}, a.load, unchecked[r.task])
    BY <1>1 DEF PartLoaded, CdnPartGood
  <2>3. PICK os : os = {r.offset} OBVIOUS
  <2>4. os \in SUBSET Offset BY <2>1, <2>3, AskedOf
  <2>5. PICK l : l = a.load OBVIOUS
  <2>6. Feed(r.task, os, l, unchecked[r.task]) BY <2>2, <2>3, <2>5
  <2> QED BY <2>1, <2>4, <2>6, FedWaiting
<1>2. CASE CdnPartUnchecked(r)
  <2>1. Idle /\ status' = status BY <1>2 DEF CdnPartUnchecked, Asked
  <2>2. PICK kept : unchecked' = [unchecked EXCEPT ![r.task] = kept]
    BY <1>2 DEF CdnPartUnchecked
  <2>3. r.task \in Task /\ status[r.task] = "loading" BY <2>1, AskedOf
  <2>4. unchecked \in [Task -> [Offset -> {None} \cup Index]] BY DEF Ready, Types, TaskTypes
  <2>5. \A s \in Task : s # r.task => unchecked'[s] = unchecked[s] BY <2>2, <2>4
  <2> QED BY <2>1, <2>3, <2>5 DEF WaitingLoading
<1>3. CASE HashesDone(r)
  <2>1. Idle BY <1>3 DEF HashesDone, Asked
  <2>2. PICK t \in Task : t = r.task BY <2>1, AskedOf
  <2>3. PICK hs \in {{r.offset}, Offset} :
        LET known == hashes[t] \cup hs
            good == Unchecked(t) \cap known
            left == [o \in Offset |-> IF o \in known THEN None ELSE unchecked[t][o]]
        IN /\ unchecked' = [unchecked EXCEPT ![t] = left]
           /\ Feed(t, good, Finished(Load, r), left)
    BY <1>3, <2>2 DEF HashesDone
  <2>4. PICK os : os = Unchecked(t) \cap (hashes[t] \cup hs) OBVIOUS
  <2>5. PICK left : left = [o \in Offset |-> IF o \in hashes[t] \cup hs THEN None ELSE unchecked[t][o]]
    OBVIOUS
  <2>6. PICK l : l = Finished(Load, r) OBVIOUS
  <2>7. unchecked' = [unchecked EXCEPT ![t] = left] /\ Feed(t, os, l, left)
    BY <2>3, <2>4, <2>5, <2>6
  <2>8. os \in SUBSET Offset BY <2>4 DEF Unchecked
  <2>9. status[t] = "loading" BY <2>1, <2>2, AskedOf
  <2>10. TaskTypes /\ GoodQueue(queue) /\ QueuedAre(queue, status)
    BY <2>1, IdleCore DEF Ready, Types, Idle
  <2>11. FedTo(t, os, l, left) BY <2>7, <2>8, <2>9, <2>10, FeedIs
  <2>12. \/ status' = status
         \/ (\A o \in Offset : left[o] = None) /\ \A s \in Task : s # t => status'[s] = status[s]
    BY <2>11 DEF FedTo
  <2>13. unchecked'[t] = left /\ \A s \in Task : s # t => unchecked'[s] = unchecked[s]
    BY <2>7, <2>10 DEF TaskTypes
  <2>14. SUFFICES ASSUME NEW s \in Task, Waiting(unchecked'[s]) # {} PROVE status'[s] = "loading"
    BY DEF WaitingLoading
  <2>15. CASE s = t
    <3>1. ~ (\A o \in Offset : left[o] = None) BY <2>13, <2>14, <2>15 DEF Waiting
    <3> QED BY <2>9, <2>12, <2>15, <3>1
  <2>16. CASE s # t
    <3>1. status[s] = "loading" BY <2>13, <2>14, <2>16 DEF WaitingLoading
    <3> QED BY <2>12, <2>16, <3>1
  <2> QED BY <2>15, <2>16
<1>4. CASE ReuploadDone(r) \/ Refreshed(r) \/ Redirected(r) \/ ReuploadNeeded(r)
           \/ RefuseReference(r) \/ RefuseToken(r)
  <2>1. UNCHANGED <<unchecked, status>>
    BY <1>4 DEF ReuploadDone, Refreshed, Redirected, ReuploadNeeded, RefuseReference, RefuseToken,
                taskVars
  <2> QED BY <2>1, WaitingStays
<1>5. CASE CdnPartInvalid(r)
  <2>1. r.task \in Task BY <1>5, AskedOf DEF CdnPartInvalid, Asked
  <2>2. PICK l, later : CancelAll(r.task, l, later) BY <1>5 DEF CdnPartInvalid
  <2> QED BY <2>1, <2>2, CancelledWaiting
<1>6. CASE Refuse(r)
  <2>1. r.task \in Task BY <1>6, AskedOf DEF Refuse, Asked
  <2>2. CancelAll(r.task, Load, posted) BY <1>6 DEF Refuse
  <2> QED BY <2>1, <2>2, CancelledWaiting
<1> QED BY <1>1, <1>2, <1>3, <1>4, <1>5, <1>6 DEF GoodAnswer, BadAnswer

LEMMA RecheckWaiting ==
    ASSUME Ready, WaitingLoading, Recheck
    PROVE  WaitingLoading'
<1>1. PICK t \in Task, i \in 1 .. Len(balance.sessions) :
        unchecked' = [unchecked EXCEPT ![t] =
            [o \in Offset |-> IF unchecked[t][o] = LastIndex THEN i ELSE unchecked[t][o]]]
  BY RecheckKeeps
<1>2. PICK u : u = [o \in Offset |-> IF unchecked[t][o] = LastIndex THEN i ELSE unchecked[t][o]]
  OBVIOUS
<1>3. unchecked' = [unchecked EXCEPT ![t] = u] /\ status' = status BY <1>1, <1>2 DEF Recheck
<1>4. unchecked \in [Task -> [Offset -> {None} \cup Index]] BY DEF Ready, Types, TaskTypes
<1>5. unchecked'[t] = u /\ \A s \in Task : s # t => unchecked'[s] = unchecked[s] BY <1>3, <1>4
<1>6. LastIndex # None
  <2>1. GoodBalance(balance) BY DEF Ready, Types, LoadTypes
  <2>2. LastIndex \in Nat /\ LastIndex > 0 BY <2>1, SessionsOf DEF LastIndex
  <2> QED BY <2>2 DEF None
<1>7. Waiting(u) \subseteq Waiting(unchecked[t]) BY <1>2, <1>6 DEF Waiting
<1> QED BY <1>3, <1>5, <1>7 DEF WaitingLoading

LEMMA StartWaiting ==
    ASSUME Ready, WaitingLoading, NEW t \in Task, Start(t) \/ Destroy(t)
    PROVE  WaitingLoading'
<1>1. status \in [Task -> Status] BY DEF Ready, Types, TaskTypes
<1>2. UNCHANGED unchecked BY DEF Start, Destroy
<1>3. CASE Start(t)
  <2>1. status' = [status EXCEPT ![t] = "loading"] BY <1>3 DEF Start
  <2>2. \A s \in Task : status[s] = "loading" => status'[s] = "loading" BY <1>1, <2>1
  <2> QED BY <1>2, <2>2, WaitingStays
<1>4. CASE Destroy(t)
  <2>1. status' = [status EXCEPT ![t] = "gone"] /\ status[t] = "failed" BY <1>4 DEF Destroy
  <2>2. \A s \in Task : status[s] = "loading" => status'[s] = "loading" BY <1>1, <2>1
  <2> QED BY <1>2, <2>2, WaitingStays
<1> QED BY <1>3, <1>4

LEMMA WaitingKept ==
    ASSUME Ready, WaitingLoading, Next
    PROVE  WaitingLoading'
<1>1. CASE Recheck BY <1>1, RecheckWaiting
<1>2. CASE SendNextPart \/ Resend \/ ResendEnds \/ Redirect \/ RedirectEnds \/ PopSession
           \/ RunPosted \/ ResetGeneration \/ KillSessions
           \/ \E i \in Index : RestartedByTimeout(i)
  <2>1. UNCHANGED <<unchecked, status>>
    BY <1>2 DEF SendNextPart, Resend, ResendEnds, Redirect, RedirectEnds, PopSession, RunPosted,
                ResetGeneration, KillSessions, RestartedByTimeout, taskVars
  <2> QED BY <2>1, WaitingStays
<1>3. ASSUME NEW t \in Task, Start(t) \/ Cancel(t) \/ Destroy(t) PROVE WaitingLoading'
  <2>1. CASE Cancel(t)
    <3>1. CancelAll(t, Load, posted) BY <2>1 DEF Cancel
    <3> QED BY <3>1, CancelledWaiting
  <2> QED BY <1>3, <2>1, StartWaiting
<1>4. ASSUME NEW r \in sent, GoodAnswer(r) \/ BadAnswer(r) PROVE WaitingLoading'
  BY <1>4, AnswerWaiting
<1> QED BY <1>1, <1>2, <1>3, <1>4 DEF Next, Continue

LEMMA NextKeeps ==
    ASSUME Ready, WaitingLoading, Next
    PROVE  Kept
<1>1. CASE Continue
  BY <1>1, SendNextPartKeeps, ResendKeeps, ResendEndsKeeps, RecheckKeeps, RedirectKeeps,
     RedirectEndsKeeps, PopSessionKeeps DEF Continue
<1>2. CASE RunPosted BY <1>2, RunPostedKeeps
<1>3. CASE ResetGeneration BY <1>3, ResetGenerationKeeps
<1>4. CASE KillSessions BY <1>4, KillSessionsKeeps
<1>5. ASSUME NEW t \in Task, Start(t) \/ Cancel(t) \/ Destroy(t) PROVE Kept
  BY <1>5, StartKeeps, CancelsKeep, DestroyKeeps
<1>6. ASSUME NEW r \in sent, GoodAnswer(r) PROVE Kept
  BY <1>6, PartLoadedKeeps, CdnPartGoodKeeps, CdnPartUncheckedKeeps, ReuploadDoneKeeps,
     HashesDoneKeeps, RefreshedKeeps DEF GoodAnswer
<1>7. ASSUME NEW r \in sent, BadAnswer(r) PROVE Kept
  BY <1>7, RedirectedKeeps, CdnPartInvalidKeeps, ReuploadNeededKeeps, RefuseReferenceKeeps,
     RefuseTokenKeeps, RefuseKeeps DEF BadAnswer
<1>8. ASSUME NEW i \in Index, RestartedByTimeout(i) PROVE Kept BY <1>8, RestartedKeeps
<1> QED BY <1>1, <1>2, <1>3, <1>4, <1>5, <1>6, <1>7, <1>8 DEF Next

\* Once an assertion has failed nothing is done any more.
LEMMA FailedStops ==
    ASSUME failed, Next
    PROVE  FALSE
<1>1. ~Continue
  BY DEF Continue, SendNextPart, Resend, ResendEnds, Recheck, Redirect, RedirectEnds, PopSession
<1>2. ~RunPosted /\ ~ResetGeneration /\ ~KillSessions
  BY DEF RunPosted, ResetGeneration, KillSessions, Idle
<1>3. \A t : ~Start(t) /\ ~Cancel(t) /\ ~Destroy(t) BY DEF Start, Cancel, Destroy, Idle
<1>4. \A r : ~PartLoaded(r) /\ ~CdnPartGood(r) /\ ~CdnPartUnchecked(r) /\ ~ReuploadDone(r)
             /\ ~HashesDone(r) /\ ~Refreshed(r)
  BY DEF PartLoaded, CdnPartGood, CdnPartUnchecked, ReuploadDone, HashesDone, Refreshed, Asked, Idle
<1>5. \A r : ~Redirected(r) /\ ~CdnPartInvalid(r) /\ ~ReuploadNeeded(r) /\ ~RefuseReference(r)
             /\ ~RefuseToken(r) /\ ~Refuse(r)
  BY DEF Redirected, CdnPartInvalid, ReuploadNeeded, RefuseReference, RefuseToken, Refuse, Asked, Idle
<1>6. \A i : ~RestartedByTimeout(i) BY DEF RestartedByTimeout, Idle
<1> QED BY <1>1, <1>2, <1>3, <1>4, <1>5, <1>6 DEF Next, GoodAnswer, BadAnswer

Inv == CoreInv /\ WaitingLoading

LEMMA InitInv ==
    ASSUME Init
    PROVE  Inv /\ Core /\ ~failed
<1>1. /\ balance = NewBalance /\ queue = <<>> /\ resetTimer = FALSE /\ sent = {}
      /\ status = [t \in Task |-> "new"] /\ next = [t \in Task |-> 0]
      /\ fed = [t \in Task |-> {}] /\ cdn = [t \in Task |-> FALSE] /\ hashes = [t \in Task |-> {}]
      /\ unchecked = [t \in Task |-> [o \in Offset |-> None]]
      /\ calls = <<>> /\ posted = <<>> /\ failed = FALSE /\ faults = 0
  BY DEF Init
<1>2. GoodBalance(balance) /\ balance.total = 0 /\ balance.kill = FALSE
      /\ \A i \in 1 .. Len(balance.sessions) : balance.sessions[i].requested = 0
  <2>1. PICK s : s = NewSession OBVIOUS
  <2>2. balance.sessions = <<s>> /\ s.requested = 0 BY <1>1, <2>1, NewBalanceIs, NewSessionIs
  <2>3. Len(balance.sessions) = 1 /\ balance.sessions[1] = s BY <2>2
  <2>4. 1 \in 1 .. MaxSessions BY SizesAssumption
  <2>5. balance \in Balance /\ balance.total = 0 /\ balance.kill = FALSE BY <1>1, NewBalanceIs
  <2> QED BY <2>2, <2>3, <2>4, <2>5 DEF GoodBalance
<1>3. Agrees(balance, sent, None) BY <1>1, <1>2, NothingAsked
<1>4. GoodQueue(queue) /\ QueuedAre(queue, status)
  <2>1. queue \in Seq(Entry) /\ Len(queue) = 0 BY <1>1
  <2>2. \A t \in Task : status[t] = "new" BY <1>1
  <2> QED BY <2>1, <2>2 DEF GoodQueue, QueuedAre, Queued
<1>5. Core BY <1>1, <1>3, <1>4, QuietCore DEF Core
<1>6. LoadTypes BY <1>3 DEF LoadTypes, Agrees
<1>7. TaskTypes
  <2>1. status \in [Task -> Status] BY <1>1 DEF Status
  <2>2. next \in [Task -> 0 .. Parts] BY <1>1, SizesAssumption
  <2>3. fed \in [Task -> SUBSET Offset] /\ hashes \in [Task -> SUBSET Offset] /\ cdn \in [Task -> BOOLEAN]
    BY <1>1
  <2>4. unchecked \in [Task -> [Offset -> {None} \cup Index]] BY <1>1
  <2> QED BY <2>1, <2>2, <2>3, <2>4 DEF TaskTypes
<1>8. RestTypes
  <2>1. queue \in Seq(Entry) BY <1>4 DEF GoodQueue
  <2>2. faults \in 0 .. MaxFaults BY <1>1, SizesAssumption
  <2>3. posted \in Seq(Post)
    <3>1. posted = <<>> BY <1>1
    <3> QED BY <3>1
  <2>4. resetTimer \in BOOLEAN /\ failed \in BOOLEAN BY <1>1
  <2> QED BY <2>1, <2>2, <2>3, <2>4 DEF RestTypes
<1>9. WaitingLoading BY <1>1 DEF WaitingLoading, Waiting
<1>10. GoodCalls(calls) BY <1>1, QuietCalls
<1> QED BY <1>1, <1>5, <1>6, <1>7, <1>8, <1>9, <1>10 DEF Inv, CoreInv, Types

LEMMA NextInv ==
    ASSUME Inv, [Next]_vars
    PROVE  Inv'
<1>1. CASE Next
  <2>1. failed \in BOOLEAN BY DEF Inv, CoreInv, Types, RestTypes
  <2>2. ~failed BY <1>1, <2>1, FailedStops
  <2>3. Ready /\ WaitingLoading BY <2>2 DEF Ready, Inv, CoreInv
  <2>4. Kept BY <1>1, <2>3, NextKeeps
  <2>5. WaitingLoading' BY <1>1, <2>3, WaitingKept
  <2> QED BY <2>4, <2>5 DEF Inv, CoreInv, Kept
<1>2. CASE UNCHANGED vars
  BY <1>2 DEF vars, taskVars, Inv, CoreInv, Types, LoadTypes, TaskTypes, RestTypes, Core,
              WaitingLoading
<1> QED BY <1>1, <1>2

LEMMA SpecInv == Spec => []Inv
<1>1. Init => Inv BY InitInv
<1>2. Inv /\ [Next]_vars => Inv' BY NextInv
<1> QED BY <1>1, <1>2, PTL DEF Spec

LEMMA InvTypes == Inv => TypeOK
<1> SUFFICES ASSUME Inv PROVE TypeOK OBVIOUS
<1>1. /\ balance \in Balance /\ Len(balance.sessions) \in 1 .. MaxSessions /\ GoodSent(sent)
      /\ TaskTypes /\ RestTypes
  BY DEF Inv, CoreInv, Types, LoadTypes, GoodBalance
<1>2. /\ balance.sessions \in Seq([requested: Nat, successes: 0 .. AddSuccesses * MaxRemoves,
                                 maxWaited: StartWaited .. MaxWaited])
      /\ balance.total \in Nat /\ balance.timeouts \in 0 .. RemoveTimeouts - 1
      /\ balance.removeTimes \in 0 .. MaxRemoves /\ balance.removeIndex \in 0 .. MaxSessions
      /\ balance.removed \in BOOLEAN /\ balance.kill \in BOOLEAN
  BY <1>1 DEF Balance, SessionData
<1>3. Len(balance.sessions) \in StartSessions .. MaxSessions BY <1>1 DEF StartSessions
<1>4. /\ queue \in Seq([task: Task, priority: Int]) /\ resetTimer \in BOOLEAN
      /\ sent \subseteq Request /\ failed \in BOOLEAN /\ faults \in 0 .. MaxFaults
  BY <1>1 DEF RestTypes, GoodSent, Entry
<1>5. /\ status \in [Task -> {"new", "loading", "finished", "failed", "gone"}]
      /\ next \in [Task -> 0 .. Parts] /\ fed \in [Task -> SUBSET Offset]
      /\ cdn \in [Task -> BOOLEAN] /\ hashes \in [Task -> SUBSET Offset]
      /\ unchecked \in [Task -> [Offset -> {None} \cup Index]]
  BY <1>1 DEF TaskTypes, Status
<1> QED BY <1>2, <1>3, <1>4, <1>5 DEF TypeOK

\* TypeOK: with every answer, fault and order of the main thread's events, the
\* sessions, their amounts and the state of each file are what the code takes
\* them for; no amount is ever below zero (changeRequestedAmount).
THEOREM TypeCorrect == Spec => []TypeOK
  BY SpecInv, InvTypes, PTL

LEMMA InvAmounts == Inv => AmountsAgree
<1> SUFFICES ASSUME Inv, Idle PROVE
        /\ \A i \in 1 .. LastIndex : balance.sessions[i].requested =
              Cardinality({r \in sent : r.session = i})
        /\ balance.total = Cardinality(sent)
        /\ \A r \in sent : r.session <= LastIndex
        /\ {r.task : r \in sent} \subseteq {queue[k].task : k \in DOMAIN queue}
  BY DEF AmountsAgree
<1>1. Ready BY DEF Ready, Inv, CoreInv, Idle
<1>2. /\ Agrees(balance, sent, None) /\ GoodQueue(queue) /\ QueuedAre(queue, status)
      /\ \A q \in sent : status[q.task] = "loading"
  BY <1>1, IdleCore DEF Ready, Idle
<1>3. \A i \in 1 .. LastIndex : balance.sessions[i].requested = Cardinality({r \in sent : r.session = i})
  <2> SUFFICES ASSUME NEW i \in 1 .. LastIndex
               PROVE balance.sessions[i].requested = Cardinality({r \in sent : r.session = i})
    OBVIOUS
  <2>1. balance.sessions[i].requested = Cardinality(In(sent, i)) + Owing(None, i)
    BY <1>2 DEF Agrees, Counted, LastIndex
  <2>2. Owing(None, i) = 0
    <3>1. i # None BY DEF None
    <3> QED BY <3>1 DEF Owing
  <2>3. Cardinality(In(sent, i)) \in Nat BY <1>2, InIsFinite DEF Agrees, GoodSent
  <2> QED BY <2>1, <2>2, <2>3 DEF In
<1>4. balance.total = Cardinality(sent) BY <1>2 DEF Agrees
<1>5. \A r \in sent : r.session <= LastIndex
  <2>1. \A r \in sent : r.session \in 1 .. LastIndex BY <1>2 DEF Agrees, LastIndex
  <2> QED BY <2>1
<1>6. ASSUME NEW r \in sent PROVE r.task \in {queue[k].task : k \in DOMAIN queue}
  <2>1. r.task \in Task /\ status[r.task] = "loading"
    BY <1>1, <1>2, SentTyped DEF Ready, Types, LoadTypes
  <2>2. Queued(queue, r.task) BY <1>2, <2>1 DEF QueuedAre
  <2>3. DOMAIN queue = 1 .. Len(queue) BY <1>2, EntriesOf DEF GoodQueue
  <2> QED BY <2>2, <2>3 DEF Queued
<1> QED BY <1>3, <1>4, <1>5, <1>6

-----------------------------------------------------------------------------
(* Where the parts of a task are.                                            *)

OfTask(S, t) == {w \in S : w.task = t}
Again(cs) == {d \in Todo : InTodo(cs, d)}
Hopes(ps, t) == \E k \in 1 .. Len(ps) : ps[k].op = "moreHashes" /\ ps[k].task = t

\* No part below n is at two places.
Apart(R, A, n) ==
    /\ \A w \in R \cup A : w.offset \in Offset /\ w.offset < n
    /\ \A q, r \in R : q.offset = r.offset => q = r
    /\ \A d, e \in A : d.offset = e.offset => d = e
    /\ \A d \in A, r \in R : d.offset # r.offset

\* A request for hashes is for a part that waits, no other request is.
KindsFit(R, A, u, n) ==
    /\ \A r \in R : (u[r.offset] # None) <=> (r.kind = "hashes")
    /\ \A q, r \in R : q.kind = "hashes" /\ r.kind = "hashes" => q = r
    /\ \A r \in R : r.refreshing => r.kind = "part"
    /\ \A d \in A : u[d.offset] = None
    /\ \A o \in Offset : u[o] # None => o < n

\* Each part below n is in the file, waits for its hash, or is asked for.
Covered(R, A, u, f, n) ==
    \A o \in Offset : o < n => o \in f \/ u[o] # None \/ \E w \in R \cup A : w.offset = o

Accounted(R, A, u, f, s, n) ==
    /\ Apart(R, A, n) /\ KindsFit(R, A, u, n)
    /\ s = "loading" => Covered(R, A, u, f, n)
    /\ s = "finished" => f = Offset
    /\ s = "new" => n = 0

HashesComing(R, u, ps, t) ==
    Waiting(u) # {} => (\E r \in R : r.kind = "hashes") \/ Hopes(ps, t)

-----------------------------------------------------------------------------
(* What a task goes through.                                                 *)

\* What waits but for the parts os, and what is so when some have been written.
LessWaits(v, u, os) ==
    \A o \in Offset : v[o] = u[o] \/ (v[o] = None /\ (u[o] = None \/ o \in os))
FedWell(R, u, f, n) ==
    /\ Accounted(R, {}, u, f, "loading", n)
    /\ R = {} /\ (\A o \in Offset : u[o] = None) /\ n = Parts => f = Offset

\* A request is answered and the parts os are written.
LEMMA FedAccounted ==
    ASSUME NEW R, NEW u, NEW f \in SUBSET Offset, NEW n \in 0 .. Parts,
           Accounted(R, {}, u, f, "loading", n),
           NEW r \in R, NEW os \in SUBSET Offset, NEW left,
           LessWaits(left, u, os), r.offset \in os,
           \A q \in R : q # r => (left[q.offset] = u[q.offset]),
           NEW T, T = R \ {r}, NEW g, g = f \cup os
    PROVE  FedWell(T, left, g, n)
<1>0. \A o \in Offset : left[o] = u[o] \/ (left[o] = None /\ (u[o] = None \/ o \in os))
  BY DEF LessWaits
<1>1. Apart(R, {}, n) /\ KindsFit(R, {}, u, n) /\ Covered(R, {}, u, f, n) BY DEF Accounted
<1>2. Apart(T, {}, n) BY <1>1 DEF Apart
<1>3. KindsFit(T, {}, left, n)
  <2>1. \A q \in T : q \in R /\ q # r /\ left[q.offset] = u[q.offset] OBVIOUS
  <2>2. \A o \in Offset : left[o] # None => o < n BY <1>0, <1>1 DEF KindsFit
  <2> QED BY <1>1, <2>1, <2>2 DEF KindsFit
<1>4. Covered(T, {}, left, g, n)
  <2> SUFFICES ASSUME NEW o \in Offset, o < n, o \notin g, left[o] = None
               PROVE \E w \in T : w.offset = o
    BY DEF Covered
  <2>1. u[o] = None BY <1>0
  <2>2. PICK w \in R : w.offset = o BY <1>1, <2>1 DEF Covered
  <2>3. w # r BY <2>2
  <2> QED BY <2>2, <2>3
<1>5. ASSUME T = {}, \A o \in Offset : left[o] = None, n = Parts PROVE g = Offset
  <2>1. \A o \in Offset : o < n BY <1>5, SizesAssumption DEF Offset
  <2>2. \A o \in Offset : o \in g BY <1>4, <1>5, <2>1 DEF Covered
  <2>3. g \subseteq Offset OBVIOUS
  <2> QED BY <2>2, <2>3
<1> QED BY <1>2, <1>3, <1>4, <1>5 DEF FedWell, Accounted

\* A part is kept until its hash is known.
LEMMA KeptAccounted ==
    ASSUME NEW R, NEW u \in [Offset -> {None} \cup Index], NEW f, NEW n \in 0 .. Parts,
           Accounted(R, {}, u, f, "loading", n),
           NEW r \in R, r.offset \in Offset, r.session \in Index, r.kind # "hashes",
           NEW kept, kept = [u EXCEPT ![r.offset] = r.session],
           NEW T, T = R \ {r}
    PROVE  Accounted(T, {}, kept, f, "loading", n)
<1>1. Apart(R, {}, n) /\ KindsFit(R, {}, u, n) /\ Covered(R, {}, u, f, n) BY DEF Accounted
<1>2. r.session # None BY SizesAssumption DEF Index, None
<1>3. kept[r.offset] # None /\ \A o \in Offset : o # r.offset => kept[o] = u[o] BY <1>2
<1>4. Apart(T, {}, n) /\ \A q \in T : q.offset # r.offset /\ q.offset \in Offset BY <1>1 DEF Apart
<1>5. KindsFit(T, {}, kept, n)
  <2>1. \A q \in T : q \in R /\ kept[q.offset] = u[q.offset] BY <1>3, <1>4
  <2>2. \A o \in Offset : kept[o] # None => o < n
    <3>1. r.offset < n BY <1>1 DEF Apart
    <3> QED BY <1>1, <1>3, <3>1 DEF KindsFit
  <2> QED BY <1>1, <2>1, <2>2 DEF KindsFit
<1>6. Covered(T, {}, kept, f, n)
  <2> SUFFICES ASSUME NEW o \in Offset, o < n, o \notin f, kept[o] = None
               PROVE \E w \in T : w.offset = o
    BY DEF Covered
  <2>1. o # r.offset /\ u[o] = None BY <1>3
  <2>2. PICK w \in R : w.offset = o BY <1>1, <2>1 DEF Covered
  <2> QED BY <2>1, <2>2
<1> QED BY <1>4, <1>5, <1>6 DEF Accounted

\* One more request, for a part nothing is asked for.
LEMMA MoreAccounted ==
    ASSUME NEW R, NEW A, NEW u, NEW f, NEW s, NEW n, Accounted(R, A, u, f, s, n),
           NEW q, q.offset \in Offset, q.offset < n, \A w \in R \cup A : w.offset # q.offset,
           q.kind = "hashes", u[q.offset] # None, \A r \in R : r.kind # "hashes",
           q.refreshing = FALSE,
           NEW T, T = R \cup {q}
    PROVE  Accounted(T, A, u, f, s, n)
<1>1. Apart(R, A, n) /\ KindsFit(R, A, u, n) BY DEF Accounted
<1>2. Apart(T, A, n) BY <1>1 DEF Apart
<1>3. KindsFit(T, A, u, n) BY <1>1 DEF KindsFit
<1>4. s = "loading" => Covered(T, A, u, f, n) BY DEF Accounted, Covered
<1> QED BY <1>2, <1>3, <1>4 DEF Accounted

\* A request in the place of another.
LEMMA ReplacedAccounted ==
    ASSUME NEW R, NEW A, NEW u, NEW f, NEW s, NEW n, Accounted(R, A, u, f, s, n),
           NEW r \in R, NEW q, q.offset = r.offset, r.kind # "hashes", q.kind # "hashes",
           q.refreshing => q.kind = "part",
           NEW T, T = (R \ {r}) \cup {q}
    PROVE  Accounted(T, A, u, f, s, n)
<1>1. Apart(R, A, n) /\ KindsFit(R, A, u, n) BY DEF Accounted
<1>2. Apart(T, A, n) BY <1>1 DEF Apart
<1>3. KindsFit(T, A, u, n)
  <2>1. u[q.offset] = None BY <1>1 DEF KindsFit
  <2> QED BY <1>1, <2>1 DEF KindsFit
<1>4. s = "loading" => Covered(T, A, u, f, n)
  <2> SUFFICES ASSUME s = "loading", NEW o \in Offset, o < n, o \notin f, u[o] = None
               PROVE \E w \in T \cup A : w.offset = o
    BY DEF Covered
  <2>1. PICK w \in R \cup A : w.offset = o BY DEF Accounted, Covered
  <2>2. CASE w = r BY <2>1, <2>2
  <2>3. CASE w # r BY <2>1, <2>3
  <2> QED BY <2>2, <2>3
<1> QED BY <1>2, <1>3, <1>4 DEF Accounted

\* A request is sent again.
LEMMA ResentAccounted ==
    ASSUME NEW R, NEW A, NEW u, NEW f, NEW s, NEW n, Accounted(R, A, u, f, s, n),
           NEW d \in A, NEW q, q.offset = d.offset, q.kind # "hashes", q.refreshing = FALSE,
           NEW T, T = R \cup {q}, NEW B, B = A \ {d}
    PROVE  Accounted(T, B, u, f, s, n)
<1>1. Apart(R, A, n) /\ KindsFit(R, A, u, n) BY DEF Accounted
<1>2. Apart(T, B, n) BY <1>1 DEF Apart
<1>3. KindsFit(T, B, u, n)
  <2>1. u[q.offset] = None BY <1>1 DEF KindsFit
  <2> QED BY <1>1, <2>1 DEF KindsFit
<1>4. s = "loading" => Covered(T, B, u, f, n)
  <2> SUFFICES ASSUME s = "loading", NEW o \in Offset, o < n, o \notin f, u[o] = None
               PROVE \E w \in T \cup B : w.offset = o
    BY DEF Covered
  <2>1. PICK w \in R \cup A : w.offset = o BY DEF Accounted, Covered
  <2>2. CASE w = d BY <2>1, <2>2
  <2>3. CASE w # d BY <2>1, <2>3
  <2> QED BY <2>2, <2>3
<1> QED BY <1>2, <1>3, <1>4 DEF Accounted

\* All requests are cancelled to be sent again.
LEMMA AgainAccounted ==
    ASSUME NEW R, NEW u, NEW f, NEW s, NEW n, Accounted(R, {}, u, f, s, n),
           \A r \in R : r.kind # "hashes", NEW A, A = {Data(r) : r \in R}
    PROVE  Accounted({}, A, u, f, s, n)
<1>1. Apart(R, {}, n) /\ KindsFit(R, {}, u, n) BY DEF Accounted
<1>2. \A r \in R : Data(r) \in A /\ Data(r).offset = r.offset BY DEF Data
<1>3. \A d \in A : \E r \in R : d = Data(r) OBVIOUS
<1> HIDE DEF Data
<1>4. Apart({}, A, n)
  <2>1. \A d \in A : d.offset \in Offset /\ d.offset < n BY <1>1, <1>2, <1>3 DEF Apart
  <2>2. ASSUME NEW d \in A, NEW e \in A, d.offset = e.offset PROVE d = e
    <3>1. PICK q \in R : d = Data(q) BY <1>3
    <3>2. PICK r \in R : e = Data(r) BY <1>3
    <3>3. q = r BY <1>1, <1>2, <2>2, <3>1, <3>2 DEF Apart
    <3> QED BY <3>1, <3>2, <3>3
  <2> QED BY <2>1, <2>2 DEF Apart
<1>5. KindsFit({}, A, u, n)
  <2>1. \A d \in A : u[d.offset] = None BY <1>1, <1>2, <1>3 DEF KindsFit
  <2> QED BY <1>1, <2>1 DEF KindsFit
<1>6. s = "loading" => Covered({}, A, u, f, n)
  <2> SUFFICES ASSUME s = "loading", NEW o \in Offset, o < n, o \notin f, u[o] = None
               PROVE \E w \in A : w.offset = o
    BY DEF Covered
  <2>1. PICK w \in R : w.offset = o BY DEF Accounted, Covered
  <2> QED BY <1>2, <2>1
<1> QED BY <1>4, <1>5, <1>6 DEF Accounted

\* The next part is asked for.
LEMMA NextAccounted ==
    ASSUME NEW R, NEW A, NEW u, NEW f, NEW n \in Nat, Accounted(R, A, u, f, "loading", n),
           NEW q, q.offset = n, n \in Offset, q.kind # "hashes", q.refreshing = FALSE,
           NEW T, T = R \cup {q}, NEW m, m = n + 1
    PROVE  Accounted(T, A, u, f, "loading", m)
<1>1. Apart(R, A, n) /\ KindsFit(R, A, u, n) /\ Covered(R, A, u, f, n) BY DEF Accounted
<1>2. \A w \in R \cup A : w.offset # n /\ w.offset < m /\ w.offset \in Offset
  <2> SUFFICES ASSUME NEW w \in R \cup A PROVE w.offset # n /\ w.offset < m /\ w.offset \in Offset
    OBVIOUS
  <2>1. w.offset \in Offset /\ w.offset < n BY <1>1 DEF Apart
  <2> QED BY <2>1, SizesAssumption DEF Offset
<1>3. n < m OBVIOUS
<1>4. Apart(T, A, m) BY <1>1, <1>2, <1>3 DEF Apart
<1>5. KindsFit(T, A, u, m)
  <2>1. u[n] = None BY <1>1 DEF KindsFit
  <2>2. \A o \in Offset : u[o] # None => o < m
    <3> SUFFICES ASSUME NEW o \in Offset, u[o] # None PROVE o < m OBVIOUS
    <3>1. o < n BY <1>1 DEF KindsFit
    <3> QED BY <3>1, SizesAssumption DEF Offset
  <2> QED BY <1>1, <2>1, <2>2 DEF KindsFit
<1>6. Covered(T, A, u, f, m)
  <2> SUFFICES ASSUME NEW o \in Offset, o < m, o \notin f, u[o] = None
               PROVE \E w \in T \cup A : w.offset = o
    BY DEF Covered
  <2>1. CASE o = n BY <2>1
  <2>2. CASE o # n
    <3>1. o < n BY <2>2, SizesAssumption DEF Offset
    <3> QED BY <1>1, <3>1 DEF Covered
  <2> QED BY <2>1, <2>2
<1> QED BY <1>4, <1>5, <1>6 DEF Accounted

\* A request for hashes is cancelled: its part still waits.
LEMMA DroppedAccounted ==
    ASSUME NEW R, NEW A, NEW u, NEW f, NEW s, NEW n, Accounted(R, A, u, f, s, n),
           NEW r \in R, r.kind = "hashes", NEW T, T = R \ {r}
    PROVE  Accounted(T, A, u, f, s, n) /\ \A q \in T : q.kind # "hashes"
<1>1. Apart(R, A, n) /\ KindsFit(R, A, u, n) BY DEF Accounted
<1>2. Apart(T, A, n) BY <1>1 DEF Apart
<1>3. KindsFit(T, A, u, n) /\ \A q \in T : q.kind # "hashes" BY <1>1 DEF KindsFit
<1>4. s = "loading" => Covered(T, A, u, f, n)
  <2> SUFFICES ASSUME s = "loading", NEW o \in Offset, o < n, o \notin f, u[o] = None
               PROVE \E w \in T \cup A : w.offset = o
    BY DEF Covered
  <2>1. PICK w \in R \cup A : w.offset = o BY DEF Accounted, Covered
  <2>2. u[r.offset] # None BY <1>1 DEF KindsFit
  <2> QED BY <2>1, <2>2
<1> QED BY <1>2, <1>3, <1>4 DEF Accounted

\* The parts that wait are of other sessions.
LEMMA MovedAccounted ==
    ASSUME NEW R, NEW A, NEW u, NEW f, NEW s, NEW n, Accounted(R, A, u, f, s, n),
           NEW v, \A o \in Offset : v[o] = None <=> u[o] = None
    PROVE  Accounted(R, A, v, f, s, n)
<1>1. Apart(R, A, n) /\ KindsFit(R, A, u, n) BY DEF Accounted
<1>2. KindsFit(R, A, v, n)
  <2>1. \A w \in R \cup A : w.offset \in Offset BY <1>1 DEF Apart
  <2>2. \A r \in R : (v[r.offset] # None) <=> (r.kind = "hashes") BY <1>1, <2>1 DEF KindsFit
  <2>3. \A d \in A : v[d.offset] = None BY <1>1, <2>1 DEF KindsFit
  <2> QED BY <1>1, <2>2, <2>3 DEF KindsFit
<1>3. s = "loading" => Covered(R, A, v, f, n) BY DEF Accounted, Covered
<1> QED BY <1>1, <1>2, <1>3 DEF Accounted

\* A session is gone: the requests are old.
LEMMA OldAccounted ==
    ASSUME NEW R, NEW A, NEW u, NEW f, NEW s, NEW n, Accounted(R, A, u, f, s, n),
           R \subseteq Request, NEW T, T = {Old(r) : r \in R}
    PROVE  Accounted(T, A, u, f, s, n)
<1>1. Apart(R, A, n) /\ KindsFit(R, A, u, n) BY DEF Accounted
<1>2. \A r \in R : /\ Old(r) \in T /\ Old(r).offset = r.offset /\ Old(r).kind = r.kind
                   /\ Old(r).refreshing = r.refreshing
  BY DEF Old, Request
<1>3. \A q \in T : \E r \in R : q = Old(r) OBVIOUS
<1>4. Apart(T, A, n)
  <2>1. \A w \in T \cup A : w.offset \in Offset /\ w.offset < n BY <1>1, <1>2, <1>3 DEF Apart
  <2>2. ASSUME NEW p \in T, NEW q \in T, p.offset = q.offset PROVE p = q
    <3>1. PICK a \in R : p = Old(a) BY <1>3
    <3>2. PICK b \in R : q = Old(b) BY <1>3
    <3>3. a = b BY <1>1, <1>2, <2>2, <3>1, <3>2 DEF Apart
    <3> QED BY <3>1, <3>2, <3>3
  <2>3. \A d \in A, r \in T : d.offset # r.offset BY <1>1, <1>2, <1>3 DEF Apart
  <2> QED BY <1>1, <2>1, <2>2, <2>3 DEF Apart
<1>5. KindsFit(T, A, u, n)
  <2>1. \A r \in T : (u[r.offset] # None) <=> (r.kind = "hashes") BY <1>1, <1>2, <1>3 DEF KindsFit
  <2>2. \A r \in T : r.refreshing => r.kind = "part" BY <1>1, <1>2, <1>3 DEF KindsFit
  <2>3. ASSUME NEW p \in T, NEW q \in T, p.kind = "hashes", q.kind = "hashes" PROVE p = q
    <3>1. PICK a \in R : p = Old(a) BY <1>3
    <3>2. PICK b \in R : q = Old(b) BY <1>3
    <3>3. a.kind = "hashes" /\ b.kind = "hashes" BY <1>2, <2>3, <3>1, <3>2
    <3>4. a = b BY <1>1, <3>3 DEF KindsFit
    <3> QED BY <3>1, <3>2, <3>4
  <2> QED BY <1>1, <2>1, <2>2, <2>3 DEF KindsFit
<1>6. s = "loading" => Covered(T, A, u, f, n)
  <2> SUFFICES ASSUME s = "loading", NEW o \in Offset, o < n, o \notin f, u[o] = None
               PROVE \E w \in T \cup A : w.offset = o
    BY DEF Covered
  <2>1. PICK w \in R \cup A : w.offset = o BY DEF Accounted, Covered
  <2>2. CASE w \in R BY <1>2, <2>1, <2>2
  <2>3. CASE w \in A BY <2>1, <2>3
  <2> QED BY <2>2, <2>3
<1> QED BY <1>4, <1>5, <1>6 DEF Accounted

-----------------------------------------------------------------------------
(* The parts of all tasks.                                                   *)

\* A part that waits is of a session there is, and of the one that is removed
\* only until its task is rechecked.
InSessions(u, cs, n, t) ==
    \A o \in Offset : u[o] # None =>
        /\ u[o] \in 1 .. n
        /\ Leaving(cs) /\ u[o] = n => Pending(cs, "recheck", t)

TodoApart(cs) ==
    \A j, k \in 1 .. Len(cs) : j # k /\ cs[j].op = "resend" /\ cs[k].op = "resend" =>
        cs[j].todo \cap cs[k].todo = {}
TodoPlaced(cs, n) == \A d \in Todo : InTodo(cs, d) => d.session \in 1 .. n

TaskParts(t) ==
    Accounted(OfTask(sent, t), OfTask(Again(calls), t), unchecked[t], fed[t], status[t], next[t])
TaskHashes(t) == HashesComing(OfTask(sent, t), unchecked[t], posted, t)
TaskSessions(t) == InSessions(unchecked[t], calls, Len(balance.sessions), t)

PartsInPlace ==
    /\ \A t \in Task : TaskParts(t) /\ TaskHashes(t) /\ TaskSessions(t)
    /\ TodoApart(calls) /\ TodoPlaced(calls, Len(balance.sessions))

\* What a step about one task leaves alone.
Untouched(s) ==
    /\ OfTask(sent', s) = OfTask(sent, s)
    /\ unchecked'[s] = unchecked[s] /\ fed'[s] = fed[s]
    /\ status'[s] = status[s] /\ next'[s] = next[s]
    /\ Hopes(posted, s) => Hopes(posted', s)
OthersStay(t) == \A s \in Task : s # t => Untouched(s)

LEMMA UntouchedParts ==
    ASSUME NEW s \in Task, Untouched(s), TaskParts(s), TaskHashes(s),
           OfTask(Again(calls'), s) = OfTask(Again(calls), s)
    PROVE  TaskParts(s)' /\ TaskHashes(s)'
<1>1. TaskParts(s)' BY DEF TaskParts, Untouched
<1>2. TaskHashes(s)' BY DEF TaskHashes, Untouched, HashesComing
<1> QED BY <1>1, <1>2

LEMMA NothingAgain ==
    ASSUME NEW cs, cs = <<>> \/ cs = Send
    PROVE  /\ \A t : OfTask(Again(cs), t) = {}
           /\ TodoApart(cs) /\ ~Leaving(cs) /\ \A n : TodoPlaced(cs, n)
<1>1. ~Leaving(cs) /\ \A d : ~InTodo(cs, d) BY QuietCalls
<1>2. TodoApart(cs)
  <2>1. \A k \in 1 .. Len(cs) : cs[k].op # "resend"
    <3>1. CASE cs = <<>> BY <3>1
    <3>2. CASE cs = Send
      <4>1. Len(cs) = 1 /\ cs[1] = [op |-> "send"] BY <3>2 DEF Send
      <4> QED BY <4>1
    <3> QED BY <3>1, <3>2
  <2> QED BY <2>1 DEF TodoApart
<1> QED BY <1>1, <1>2 DEF OfTask, Again, TodoPlaced

\* The steps that handle an event from the beginning to the end.
LEMMA IdleParts ==
    ASSUME Idle, PartsInPlace, calls' = <<>> \/ calls' = Send,
           Len(balance.sessions) \in Nat, Len(balance'.sessions) \in Nat,
           Len(balance'.sessions) >= Len(balance.sessions),
           NEW t \in Task, OthersStay(t),
           Accounted(OfTask(sent', t), {}, unchecked'[t], fed'[t], status'[t], next'[t]),
           HashesComing(OfTask(sent', t), unchecked'[t], posted', t),
           \A o \in Offset : unchecked'[t][o] # None => unchecked'[t][o] \in 1 .. Len(balance'.sessions)
    PROVE  PartsInPlace'
<1>1. calls = <<>> BY DEF Idle
<1>2. \A s : OfTask(Again(calls), s) = {} BY <1>1, NothingAgain
<1>3. (\A s : OfTask(Again(calls'), s) = {}) /\ TodoApart(calls') /\ ~Leaving(calls')
      /\ TodoPlaced(calls', Len(balance'.sessions))
  BY NothingAgain
<1>4. ASSUME NEW s \in Task PROVE TaskParts(s)' /\ TaskHashes(s)' /\ TaskSessions(s)'
  <2>1. CASE s = t
    <3>1. TaskParts(s)' BY <1>3, <2>1 DEF TaskParts
    <3>2. TaskHashes(s)' BY <2>1 DEF TaskHashes
    <3>3. TaskSessions(s)' BY <1>3, <2>1 DEF TaskSessions, InSessions
    <3> QED BY <3>1, <3>2, <3>3
  <2>2. CASE s # t
    <3>1. Untouched(s) BY <2>2 DEF OthersStay
    <3>2. TaskParts(s) /\ TaskHashes(s) /\ TaskSessions(s) BY DEF PartsInPlace
    <3>3. TaskParts(s)' /\ TaskHashes(s)' BY <1>2, <1>3, <3>1, <3>2, UntouchedParts
    <3>4. unchecked'[s] = unchecked[s] BY <3>1 DEF Untouched
    <3>5. TaskSessions(s)'
      <4> SUFFICES ASSUME NEW o \in Offset, unchecked'[s][o] # None
                   PROVE unchecked'[s][o] \in 1 .. Len(balance'.sessions)
        BY <1>3 DEF TaskSessions, InSessions
      <4>1. unchecked[s][o] \in 1 .. Len(balance.sessions)
        BY <3>2, <3>4 DEF TaskSessions, InSessions
      <4> QED BY <3>4, <4>1
    <3> QED BY <3>3, <3>5
  <2> QED BY <2>1, <2>2
<1> QED BY <1>3, <1>4 DEF PartsInPlace

\* What is known of a task at rest.
IdleTask(t) ==
    /\ Accounted(OfTask(sent, t), {}, unchecked[t], fed[t], status[t], next[t])
    /\ HashesComing(OfTask(sent, t), unchecked[t], posted, t)
    /\ \A o \in Offset : unchecked[t][o] # None => unchecked[t][o] \in 1 .. Len(balance.sessions)
    /\ unchecked[t] \in [Offset -> {None} \cup Index] /\ fed[t] \in SUBSET Offset
    /\ next[t] \in 0 .. Parts

LEMMA IdleTaskIs ==
    ASSUME Ready, Idle, PartsInPlace, NEW t \in Task
    PROVE  IdleTask(t)
<1>1. calls = <<>> BY DEF Idle
<1>2. OfTask(Again(calls), t) = {} BY <1>1, NothingAgain
<1>3. TaskParts(t) /\ TaskHashes(t) /\ TaskSessions(t) BY DEF PartsInPlace
<1>4. Accounted(OfTask(sent, t), {}, unchecked[t], fed[t], status[t], next[t])
  BY <1>2, <1>3 DEF TaskParts
<1>5. HashesComing(OfTask(sent, t), unchecked[t], posted, t) BY <1>3 DEF TaskHashes
<1>6. \A o \in Offset : unchecked[t][o] # None => unchecked[t][o] \in 1 .. Len(balance.sessions)
  BY <1>3 DEF TaskSessions, InSessions
<1>7. unchecked[t] \in [Offset -> {None} \cup Index] /\ fed[t] \in SUBSET Offset /\ next[t] \in 0 .. Parts
  BY DEF Ready, Types, TaskTypes
<1> QED BY <1>4, <1>5, <1>6, <1>7 DEF IdleTask

LEMMA HopesMore ==
    ASSUME NEW E, NEW ps \in Seq(E), NEW e \in E, NEW qs, qs \in {ps, Append(ps, e)}
    PROVE  \A t : Hopes(ps, t) => Hopes(qs, t)
<1>1. CASE qs = ps BY <1>1
<1>2. CASE qs = Append(ps, e)
  <2>1. Len(ps) \in Nat /\ Len(qs) = Len(ps) + 1 /\ \A k \in 1 .. Len(ps) : qs[k] = ps[k] BY <1>2
  <2> QED BY <2>1 DEF Hopes
<1> QED BY <1>1, <1>2

LEMMA HashesStay ==
    ASSUME NEW R, NEW u, NEW ps, NEW t, HashesComing(R, u, ps, t),
           NEW T, NEW v, NEW qs, Waiting(v) \subseteq Waiting(u),
           (\E r \in R : r.kind = "hashes") => \E r \in T : r.kind = "hashes",
           Hopes(ps, t) => Hopes(qs, t)
    PROVE  HashesComing(T, v, qs, t)
  BY DEF HashesComing

\* Hashes are asked for where a part waits.
HashesNow(b, S, t, u) ==
    \/ /\ Waiting(u) = {} \/ HashesRequest(S, t) # {}
       /\ balance' = b /\ sent' = S /\ failed' = FALSE
    \/ /\ HashesRequest(S, t) = {}
       /\ \E o \in Offset : u[o] # None /\ IsPlacedNow(b, S, None, t, o, u[o], "hashes")

LEMMA HashesPlaced ==
    ASSUME NEW b, NEW S, NEW t \in Task, NEW u, HashesNow(b, S, t, u),
           \A o \in Offset : u[o] # None => u[o] \in 1 .. Len(b.sessions),
           NEW f, NEW s, NEW n, Accounted(OfTask(S, t), {}, u, f, s, n)
    PROVE  /\ ~failed' /\ Len(balance'.sessions) = Len(b.sessions)
           /\ \A r : r # t => OfTask(sent', r) = OfTask(S, r)
           /\ Accounted(OfTask(sent', t), {}, u, f, s, n)
           /\ Waiting(u) # {} => \E r \in OfTask(sent', t) : r.kind = "hashes"
<1>1. \/ /\ Waiting(u) = {} \/ HashesRequest(S, t) # {}
         /\ balance' = b /\ sent' = S /\ failed' = FALSE
      \/ /\ HashesRequest(S, t) = {}
         /\ \E o \in Offset : u[o] # None /\ IsPlacedNow(b, S, None, t, o, u[o], "hashes")
  BY DEF HashesNow
<1>2. CASE /\ Waiting(u) = {} \/ HashesRequest(S, t) # {}
           /\ balance' = b /\ sent' = S /\ failed' = FALSE
  BY <1>2 DEF HashesRequest, OfTask
<1>3. CASE /\ HashesRequest(S, t) = {}
           /\ \E o \in Offset : u[o] # None /\ IsPlacedNow(b, S, None, t, o, u[o], "hashes")
  <2>1. PICK o \in Offset : u[o] # None /\ IsPlacedNow(b, S, None, t, o, u[o], "hashes") BY <1>3
  <2>2. \A w \in OfTask(S, t) : w.kind # "hashes" BY <1>3 DEF HashesRequest, OfTask
  <2>3. \A w \in OfTask(S, t) : w.offset # o
    <3>1. KindsFit(OfTask(S, t), {}, u, n) BY DEF Accounted
    <3> QED BY <2>1, <2>2, <3>1 DEF KindsFit
  <2>4. Free(S, t, o) BY <2>3 DEF Free, OfTask
  <2>5. u[o] \in 1 .. Len(b.sessions) BY <2>1
  <2>6. ~failed' BY <2>1, <2>4, <2>5 DEF IsPlacedNow
  <2>7. Len(balance'.sessions) = Len(b.sessions)
        /\ \E r \in Request : IsFor(r, t, o, u[o], "hashes") /\ sent' = S \cup {r}
    BY <2>1, <2>6 DEF IsPlacedNow
  <2>8. PICK q : IsFor(q, t, o, u[o], "hashes") /\ sent' = S \cup {q} BY <2>7
  <2>9. q.task = t /\ q.offset = o /\ q.kind = "hashes" /\ q.refreshing = FALSE BY <2>8 DEF IsFor
  <2>10. OfTask(sent', t) = OfTask(S, t) \cup {q} /\ \A r : r # t => OfTask(sent', r) = OfTask(S, r)
    BY <2>8, <2>9 DEF OfTask
  <2>11. o < n
    <3>1. KindsFit(OfTask(S, t), {}, u, n) BY DEF Accounted
    <3> QED BY <2>1, <3>1 DEF KindsFit
  <2>12. PICK R : R = OfTask(S, t) OBVIOUS
  <2>13. PICK T : T = R \cup {q} OBVIOUS
  <2>14. Accounted(T, {}, u, f, s, n)
    <3>1. Accounted(R, {}, u, f, s, n) BY <2>12
    <3>2. \A w \in R \cup {} : w.offset # q.offset BY <2>3, <2>9, <2>12
    <3>3. q.offset \in Offset /\ q.offset < n /\ u[q.offset] # None BY <2>1, <2>9, <2>11
    <3> QED BY <2>2, <2>9, <2>12, <2>13, <3>1, <3>2, <3>3, MoreAccounted
  <2>15. OfTask(sent', t) = T /\ q \in T BY <2>10, <2>12, <2>13
  <2> QED BY <2>6, <2>7, <2>9, <2>10, <2>14, <2>15
<1> QED BY <1>1, <1>2, <1>3

-----------------------------------------------------------------------------
(* The answers keep the parts accounted for.                                 *)

\* An answer whose request was of t and is finished, in a load that agrees.
LEMMA AnsweredTask ==
    ASSUME Ready, Idle, PartsInPlace, NEW r \in sent, NEW T, T = sent \ {r}
    PROVE  /\ r.task \in Task /\ r.offset \in Offset /\ r.session \in Index
           /\ r.session \in 1 .. Len(balance.sessions)
           /\ status[r.task] = "loading" /\ r \in OfTask(sent, r.task)
           /\ OfTask(T, r.task) = OfTask(sent, r.task) \ {r}
           /\ \A s : s # r.task => OfTask(T, s) = OfTask(sent, s)
           /\ IdleTask(r.task)
<1>1. r.task \in Task /\ r.offset \in Offset /\ r.session \in Index /\ status[r.task] = "loading"
  BY AskedOf
<1>2. Agrees(balance, sent, None) BY IdleCore DEF Ready, Idle
<1>3. r.session \in 1 .. Len(balance.sessions) BY <1>2 DEF Agrees
<1>4. r \in OfTask(sent, r.task) BY DEF OfTask
<1>5. IdleTask(r.task) BY <1>1, IdleTaskIs
<1>6. OfTask(T, r.task) = OfTask(sent, r.task) \ {r} BY DEF OfTask
<1>7. \A s : s # r.task => OfTask(T, s) = OfTask(sent, s) BY DEF OfTask
<1> QED BY <1>1, <1>3, <1>4, <1>5, <1>6, <1>7

\* An answer keeps what is hoped for.
LEMMA AnswerHopes ==
    ASSUME Ready, Idle, NEW r \in sent, NEW a \in Answers(r), posted' = a.posted
    PROVE  \A t : Hopes(posted, t) => Hopes(posted', t)
<1>1. IsAnswer(a, r) BY AnswerSet
<1>2. posted \in Seq(Post) BY DEF Ready, Types, RestTypes
<1>3. TimedOutPost(r) \in Post BY SentTyped, PostTyped DEF Ready, Types, LoadTypes
<1>4. posted' \in {posted, Append(posted, TimedOutPost(r))} BY <1>1 DEF IsAnswer
<1> QED BY <1>2, <1>3, <1>4, HopesMore

LEMMA FedParts ==
    ASSUME Ready, Idle, PartsInPlace, NEW r \in sent, r.kind # "hashes", NEW a \in Answers(r),
           SetLoad(a.load), posted' = a.posted,
           Feed(r.task, {r.offset}, a.load, unchecked[r.task]),
           calls' = Send, UNCHANGED <<next, unchecked>>
    PROVE  ~failed' /\ PartsInPlace'
<1>1. PICK c : /\ a.load = LoadOf(c, sent \ {r}, TRUE) /\ Agrees(c, sent \ {r}, None)
               /\ Len(c.sessions) >= Len(balance.sessions)
  BY AnswerSet
<1>2. PICK T : T = sent \ {r} OBVIOUS
<1>3. balance' = c /\ sent' = T /\ failed' = FALSE /\ a.load.sent = T
  <2>1. failed \in BOOLEAN /\ ~failed BY DEF Ready, Types, RestTypes
  <2>2. SetLoad(LoadOf(c, T, TRUE)) /\ a.load.sent = T BY <1>1, <1>2 DEF LoadOf
  <2> QED BY <2>1, <2>2, LoadSet
<1>4. PICK t \in Task : t = r.task BY AnsweredTask
<1>5. PICK u : u = unchecked[t] OBVIOUS
<1>6. /\ r.offset \in Offset /\ status[t] = "loading" /\ r \in OfTask(sent, t)
      /\ OfTask(sent', t) = OfTask(sent, t) \ {r}
      /\ \A s : s # t => OfTask(sent', s) = OfTask(sent, s)
      /\ IdleTask(t)
  BY <1>2, <1>3, <1>4, AnsweredTask
<1>7. PICK R : R = OfTask(sent, t) OBVIOUS
<1>8. PICK V : V = R \ {r} OBVIOUS
<1>9. PICK os : os = {r.offset} OBVIOUS
<1>10. FedWell(V, u, fed[t] \cup os, next[t])
  <2>1. Accounted(R, {}, u, fed[t], "loading", next[t]) BY <1>5, <1>6, <1>7 DEF IdleTask
  <2>2. fed[t] \in SUBSET Offset /\ next[t] \in 0 .. Parts BY <1>6 DEF IdleTask
  <2>3. os \in SUBSET Offset /\ r.offset \in os /\ r \in R BY <1>6, <1>7, <1>9
  <2>4. LessWaits(u, u, os) BY DEF LessWaits
  <2>5. \A q \in R : q # r => u[q.offset] = u[q.offset] OBVIOUS
  <2> QED BY <1>8, <2>1, <2>2, <2>3, <2>4, <2>5, FedAccounted
<1>11. FedTo(t, os, a.load, u)
  <2>1. GoodQueue(queue) /\ QueuedAre(queue, status) /\ TaskTypes BY IdleCore DEF Ready, Idle, Types
  <2>2. os \in SUBSET Offset BY <1>6, <1>9
  <2>3. Feed(t, os, a.load, u) BY <1>4, <1>5, <1>9
  <2> QED BY <1>6, <2>1, <2>2, <2>3, FeedIs
<1>13. fed'[t] = fed[t] \cup os /\ \A s \in Task : s # t => fed'[s] = fed[s]
  BY <1>11 DEF FedTo
<1>14. \/ status' = status
       \/ /\ status'[t] = "finished" /\ \A s \in Task : s # t => status'[s] = status[s]
          /\ \A w \in T : w.task # t
          /\ \A o \in Offset : u[o] = None
          /\ next[t] = Parts
  BY <1>3, <1>11 DEF FedTo
<1>15. Accounted(OfTask(sent', t), {}, unchecked'[t], fed'[t], status'[t], next'[t])
  <2>1. OfTask(sent', t) = V /\ unchecked'[t] = u /\ next'[t] = next[t] BY <1>5, <1>6, <1>7, <1>8
  <2>2. CASE status' = status BY <1>6, <1>10, <1>13, <2>1, <2>2 DEF FedWell
  <2>3. CASE status'[t] = "finished" /\ (\A w \in T : w.task # t)
             /\ (\A o \in Offset : u[o] = None) /\ next[t] = Parts
    <3>1. V = {} BY <1>3, <2>1, <2>3 DEF OfTask
    <3>2. fed'[t] = Offset BY <1>10, <1>13, <2>3, <3>1 DEF FedWell
    <3> QED BY <1>10, <1>13, <2>1, <2>3, <3>2 DEF FedWell, Accounted
  <2> QED BY <1>14, <2>2, <2>3
<1>16. \A s : Hopes(posted, s) => Hopes(posted', s) BY AnswerHopes
<1>17. HashesComing(OfTask(sent', t), unchecked'[t], posted', t)
  <2>1. HashesComing(R, u, posted, t) BY <1>5, <1>6, <1>7 DEF IdleTask
  <2>2. (\E w \in R : w.kind = "hashes") => \E w \in V : w.kind = "hashes" BY <1>8
  <2>3. HashesComing(V, u, posted', t) BY <1>16, <2>1, <2>2, HashesStay
  <2> QED BY <1>5, <1>6, <1>7, <1>8, <2>3
<1>18. OthersStay(t) BY <1>6, <1>13, <1>14, <1>16 DEF OthersStay, Untouched
<1>19. Len(balance.sessions) \in Nat /\ Len(balance'.sessions) \in Nat
       /\ Len(balance'.sessions) >= Len(balance.sessions)
  <2>1. GoodBalance(balance) /\ GoodBalance(c) BY <1>1 DEF Ready, Types, LoadTypes, Agrees
  <2> QED BY <1>1, <1>3, <2>1, SessionsOf
<1>20. \A o \in Offset : unchecked'[t][o] # None => unchecked'[t][o] \in 1 .. Len(balance'.sessions)
  <2> SUFFICES ASSUME NEW o \in Offset, u[o] # None PROVE u[o] \in 1 .. Len(balance'.sessions)
    BY <1>5
  <2>1. u[o] \in 1 .. Len(balance.sessions) BY <1>5, <1>6 DEF IdleTask
  <2> QED BY <1>19, <2>1
<1> QED BY <1>3, <1>15, <1>17, <1>18, <1>19, <1>20, IdleParts

LEMMA PartLoadedParts ==
    ASSUME Ready, PartsInPlace, NEW r \in sent, PartLoaded(r)
    PROVE  ~failed' /\ PartsInPlace'
<1>1. Idle /\ r.kind # "hashes" BY DEF PartLoaded, Asked
<1>2. PICK a \in Answers(r) :
        /\ SetLoad(a.load) /\ posted' = a.posted /\ faults' = a.faults
        /\ Feed(r.task, {r.offset}, a.load, unchecked[r.task])
  BY DEF PartLoaded
<1>3. calls' = Send /\ UNCHANGED <<next, unchecked>> BY DEF PartLoaded
<1> QED BY <1>1, <1>2, <1>3, FedParts

LEMMA CdnPartGoodParts ==
    ASSUME Ready, PartsInPlace, NEW r \in sent, CdnPartGood(r)
    PROVE  ~failed' /\ PartsInPlace'
<1>1. Idle /\ r.kind # "hashes" BY DEF CdnPartGood, Asked
<1>2. PICK a \in Answers(r) :
        /\ SetLoad(a.load) /\ posted' = a.posted /\ faults' = a.faults
        /\ Feed(r.task, {r.offset}, a.load, unchecked[r.task])
  BY DEF CdnPartGood
<1>3. calls' = Send /\ UNCHANGED <<next, unchecked>> BY DEF CdnPartGood
<1> QED BY <1>1, <1>2, <1>3, FedParts

\* A request is replaced by one for the same part.
LEMMA ReplacedParts ==
    ASSUME Ready, Idle, PartsInPlace, NEW r \in sent, r.kind # "hashes",
           NEW q, q.task = r.task, q.offset = r.offset, q.kind # "hashes",
           q.refreshing => q.kind = "part",
           sent' = (sent \ {r}) \cup {q}, Len(balance'.sessions) = Len(balance.sessions),
           UNCHANGED <<status, next, fed, unchecked, calls, posted>>
    PROVE  PartsInPlace'
<1>1. PICK t \in Task : t = r.task BY AnsweredTask
<1>2. r \in OfTask(sent, t) /\ IdleTask(t) BY <1>1, AnsweredTask
<1>3. OfTask(sent', t) = (OfTask(sent, t) \ {r}) \cup {q}
      /\ \A s : s # t => OfTask(sent', s) = OfTask(sent, s)
  BY <1>1 DEF OfTask
<1>4. PICK R : R = OfTask(sent, t) OBVIOUS
<1>5. PICK V : V = (R \ {r}) \cup {q} OBVIOUS
<1>6. Accounted(V, {}, unchecked[t], fed[t], status[t], next[t])
  <2>1. Accounted(R, {}, unchecked[t], fed[t], status[t], next[t]) BY <1>2, <1>4 DEF IdleTask
  <2>2. r \in R BY <1>2, <1>4
  <2> QED BY <1>5, <2>1, <2>2, ReplacedAccounted
<1>7. HashesComing(V, unchecked[t], posted, t)
  <2>1. HashesComing(R, unchecked[t], posted, t) BY <1>2, <1>4 DEF IdleTask
  <2>2. (\E w \in R : w.kind = "hashes") => \E w \in V : w.kind = "hashes" BY <1>5
  <2> QED BY <2>1, <2>2, HashesStay
<1>8. OfTask(sent', t) = V BY <1>3, <1>4, <1>5
<1>9. Accounted(OfTask(sent', t), {}, unchecked'[t], fed'[t], status'[t], next'[t])
      /\ HashesComing(OfTask(sent', t), unchecked'[t], posted', t)
  BY <1>6, <1>7, <1>8
<1>10. OthersStay(t) BY <1>3 DEF OthersStay, Untouched
<1>11. \A o \in Offset : unchecked'[t][o] # None => unchecked'[t][o] \in 1 .. Len(balance'.sessions)
  BY <1>2 DEF IdleTask
<1>12. Len(balance.sessions) \in Nat /\ Len(balance'.sessions) \in Nat
       /\ Len(balance'.sessions) >= Len(balance.sessions)
  <2>1. GoodBalance(balance) BY DEF Ready, Types, LoadTypes
  <2> QED BY <2>1, SessionsOf
<1>13. calls' = <<>> BY DEF Idle
<1> QED BY <1>9, <1>10, <1>11, <1>12, <1>13, IdleParts

LEMMA PlacedAgainParts ==
    ASSUME Ready, Idle, PartsInPlace, NEW r \in sent, r.kind # "hashes",
           NEW kind, kind # "hashes", PlacedAgain(r, kind),
           UNCHANGED <<status, next, fed, unchecked, calls, posted>>
    PROVE  ~failed' /\ PartsInPlace'
<1>1. PICK q \in Request : /\ IsFor(q, r.task, r.offset, r.session, kind)
                           /\ sent' = (sent \ {r}) \cup {q}
  BY DEF PlacedAgain
<1>2. q.task = r.task /\ q.offset = r.offset /\ q.kind # "hashes" /\ q.refreshing = FALSE
  BY <1>1 DEF IsFor
<1>3. ~failed' /\ Len(balance'.sessions) = Len(balance.sessions) BY DEF PlacedAgain
<1> QED BY <1>1, <1>2, <1>3, ReplacedParts

LEMMA ReplacingParts ==
    ASSUME Ready, PartsInPlace, NEW r \in sent, ReuploadNeeded(r) \/ ReuploadDone(r) \/ Refreshed(r)
    PROVE  ~failed' /\ PartsInPlace'
<1>1. CASE ReuploadNeeded(r)
  <2>1. Idle /\ r.kind # "hashes" /\ UNCHANGED <<status, next, fed, unchecked, calls, posted>>
    BY <1>1 DEF ReuploadNeeded, Asked, taskVars
  <2>2. PlacedAgain(r, "reupload") BY <1>1, ReuploadNeededKeeps
  <2> QED BY <2>1, <2>2, PlacedAgainParts
<1>2. CASE ReuploadDone(r)
  <2>1. Idle /\ r.kind # "hashes" /\ UNCHANGED <<status, next, fed, unchecked, calls, posted>>
    BY <1>2 DEF ReuploadDone, Asked
  <2>2. PlacedAgain(r, PartKind(r.task)) /\ PartKind(r.task) # "hashes"
    BY <1>2, ReuploadDoneKeeps, KindsOfParts
  <2> QED BY <2>1, <2>2, PlacedAgainParts
<1>3. CASE Refreshed(r)
  <2>1. Idle /\ UNCHANGED <<status, next, fed, unchecked, calls, posted>>
    BY <1>3 DEF Refreshed, taskVars
  <2>2. PlacedAgain(r, PartKind(r.task)) /\ PartKind(r.task) # "hashes"
    BY <1>3, RefreshedKeeps, KindsOfParts
  <2>3. r.kind # "hashes"
    <3>1. IdleTask(r.task) /\ r \in OfTask(sent, r.task) BY <2>1, AnsweredTask
    <3>2. KindsFit(OfTask(sent, r.task), {}, unchecked[r.task], next[r.task])
      BY <3>1 DEF IdleTask, Accounted
    <3>3. r.refreshing BY <1>3 DEF Refreshed
    <3>4. r.kind = "part" BY <3>1, <3>2, <3>3 DEF KindsFit
    <3> QED BY <3>4
  <2> QED BY <2>1, <2>2, <2>3, PlacedAgainParts
<1> QED BY <1>1, <1>2, <1>3

LEMMA RefuseReferenceParts ==
    ASSUME Ready, PartsInPlace, NEW r \in sent, RefuseReference(r)
    PROVE  ~failed' /\ PartsInPlace'
<1>1. /\ Idle /\ r.kind = "part" /\ ~failed' /\ Len(balance'.sessions) = Len(balance.sessions)
      /\ UNCHANGED <<status, next, fed, unchecked, calls, posted>>
  BY DEF RefuseReference, Asked, Idle, taskVars
<1>2. PICK q \in Request : /\ q.task = r.task /\ q.offset = r.offset /\ q.kind = r.kind
                           /\ sent' = (sent \ {r}) \cup {q}
  BY RefuseReferenceKeeps
<1>3. q.kind # "hashes" /\ (q.refreshing => q.kind = "part") BY <1>1, <1>2
<1>4. r.kind # "hashes" BY <1>1
<1> QED BY <1>1, <1>2, <1>3, <1>4, ReplacedParts

LEMMA CdnPartUncheckedParts ==
    ASSUME Ready, PartsInPlace, NEW r \in sent, CdnPartUnchecked(r)
    PROVE  ~failed' /\ PartsInPlace'
<1>1. Idle /\ ~failed /\ failed \in BOOLEAN /\ r.kind = "cdn"
  BY DEF CdnPartUnchecked, Asked, Idle, Ready, Types, RestTypes
<1>2. PICK t \in Task : t = r.task BY <1>1, AnsweredTask
<1>3. PICK T : T = sent \ {r} OBVIOUS
<1>4. /\ r.offset \in Offset /\ r.session \in Index /\ status[t] = "loading" /\ r \in OfTask(sent, t)
      /\ r.session \in 1 .. Len(balance.sessions)
      /\ OfTask(T, t) = OfTask(sent, t) \ {r}
      /\ \A s : s # t => OfTask(T, s) = OfTask(sent, s)
      /\ IdleTask(t)
  BY <1>1, <1>2, <1>3, AnsweredTask
<1>5. PICK u \in [Offset -> {None} \cup Index] : u = unchecked[t] BY <1>4 DEF IdleTask
<1>6. PICK R : R = OfTask(sent, t) OBVIOUS
<1>7. PICK V : V = R \ {r} OBVIOUS
<1>8. PICK kept : kept = [u EXCEPT ![r.offset] = r.session] OBVIOUS
<1>9. Accounted(R, {}, u, fed[t], "loading", next[t]) BY <1>4, <1>5, <1>6 DEF IdleTask
<1>10. u[r.offset] = None
  <2>1. KindsFit(R, {}, u, next[t]) /\ r \in R BY <1>4, <1>6, <1>9 DEF Accounted
  <2> QED BY <1>1, <2>1 DEF KindsFit
<1>11. /\ unchecked' = [unchecked EXCEPT ![t] = kept] /\ calls' = Send
       /\ UNCHANGED <<queue, status, next, fed>>
  BY <1>2, <1>5, <1>8, <1>10 DEF CdnPartUnchecked
<1>12. PICK a \in Answers(r) : SetLoad(MoreHashes(a.load, t, kept)) /\ posted' = a.posted
  BY <1>2, <1>5, <1>8, <1>10 DEF CdnPartUnchecked
<1>13. PICK c : /\ a.load = LoadOf(c, T, TRUE) /\ Agrees(c, T, None)
                /\ Len(c.sessions) >= Len(balance.sessions)
  BY <1>1, <1>3, AnswerSet
<1>14. Len(balance.sessions) \in Nat /\ Len(c.sessions) \in Nat
  <2>1. GoodBalance(balance) /\ GoodBalance(c) BY <1>13 DEF Ready, Types, LoadTypes, Agrees
  <2> QED BY <2>1, SessionsOf
<1>15. kept \in [Offset -> {None} \cup Index]
       /\ \A o \in Offset : kept[o] # None => kept[o] \in 1 .. Len(c.sessions)
  <2>1. kept \in [Offset -> {None} \cup Index] BY <1>4, <1>8
  <2> SUFFICES ASSUME NEW o \in Offset, kept[o] # None PROVE kept[o] \in 1 .. Len(c.sessions)
    BY <2>1
  <2>2. kept[o] \in 1 .. Len(balance.sessions)
    <3>1. u[o] # None => u[o] \in 1 .. Len(balance.sessions) BY <1>4, <1>5 DEF IdleTask
    <3> QED BY <1>4, <1>8, <3>1
  <2> QED BY <1>13, <1>14, <2>2
<1>16. Accounted(V, {}, kept, fed[t], "loading", next[t])
  <2>1. next[t] \in 0 .. Parts /\ r.kind # "hashes" /\ r \in R BY <1>1, <1>4, <1>6 DEF IdleTask
  <2> QED BY <1>4, <1>7, <1>8, <1>9, <2>1, KeptAccounted
<1>17. /\ ~failed' /\ Len(balance'.sessions) = Len(c.sessions)
       /\ \A s : s # t => OfTask(sent', s) = OfTask(T, s)
       /\ Accounted(OfTask(sent', t), {}, kept, fed[t], "loading", next[t])
       /\ Waiting(kept) # {} => \E w \in OfTask(sent', t) : w.kind = "hashes"
  <2>0. SetLoad(MoreHashes(LoadOf(c, T, TRUE), t, kept)) BY <1>12, <1>13
  <2>1. HashesNow(c, T, t, kept) BY <1>1, <1>13, <1>15, <2>0, HashesSet DEF HashesNow
  <2>2. Accounted(OfTask(T, t), {}, kept, fed[t], "loading", next[t])
    BY <1>4, <1>6, <1>7, <1>16
  <2> QED BY <1>1, <1>13, <1>15, <2>1, <2>2, HashesPlaced
<1>18. unchecked'[t] = kept /\ \A s \in Task : s # t => unchecked'[s] = unchecked[s]
  BY <1>11 DEF Ready, Types, TaskTypes
<1>19. Accounted(OfTask(sent', t), {}, unchecked'[t], fed'[t], status'[t], next'[t])
       /\ HashesComing(OfTask(sent', t), unchecked'[t], posted', t)
  BY <1>4, <1>11, <1>17, <1>18 DEF HashesComing
<1>20. \A s : Hopes(posted, s) => Hopes(posted', s) BY <1>1, <1>12, AnswerHopes
<1>21. OthersStay(t) BY <1>4, <1>11, <1>17, <1>18, <1>20 DEF OthersStay, Untouched
<1>22. \A o \in Offset : unchecked'[t][o] # None => unchecked'[t][o] \in 1 .. Len(balance'.sessions)
  BY <1>15, <1>17, <1>18
<1>23. Len(balance'.sessions) \in Nat /\ Len(balance'.sessions) >= Len(balance.sessions)
  BY <1>13, <1>14, <1>17
<1> QED BY <1>1, <1>11, <1>14, <1>17, <1>19, <1>21, <1>22, <1>23, IdleParts

LEMMA HashesDoneParts ==
    ASSUME Ready, PartsInPlace, NEW r \in sent, HashesDone(r)
    PROVE  ~failed' /\ PartsInPlace'
<1>1. Idle /\ ~failed /\ failed \in BOOLEAN /\ r.kind = "hashes"
  BY DEF HashesDone, Asked, Idle, Ready, Types, RestTypes
<1>2. PICK t \in Task : t = r.task BY <1>1, AnsweredTask
<1>3. PICK T : T = sent \ {r} OBVIOUS
<1>4. /\ r.offset \in Offset /\ status[t] = "loading" /\ r \in OfTask(sent, t)
      /\ OfTask(T, t) = OfTask(sent, t) \ {r}
      /\ \A s : s # t => OfTask(T, s) = OfTask(sent, s)
      /\ IdleTask(t)
  BY <1>1, <1>2, <1>3, AnsweredTask
<1>5. PICK u \in [Offset -> {None} \cup Index] : u = unchecked[t] BY <1>4 DEF IdleTask
<1>6. PICK R : R = OfTask(sent, t) OBVIOUS
<1>7. PICK V : V = R \ {r} OBVIOUS
<1>8. PICK hs \in {{r.offset}, Offset} :
        LET known == hashes[t] \cup hs
            good == Unchecked(t) \cap known
            left == [o \in Offset |-> IF o \in known THEN None ELSE unchecked[t][o]]
        IN /\ unchecked' = [unchecked EXCEPT ![t] = left]
           /\ SetLoad(MoreHashes(Finished(Load, r), t, left))
           /\ Feed(t, good, Finished(Load, r), left)
           /\ calls' = IF status'[t] = "finished" THEN Send ELSE <<>>
  BY <1>2 DEF HashesDone
<1>9. PICK known : known = hashes[t] \cup hs OBVIOUS
<1>10. PICK os : os = Unchecked(t) \cap known OBVIOUS
<1>11. PICK left : left = [o \in Offset |-> IF o \in known THEN None ELSE u[o]] OBVIOUS
<1>12. PICK l : l = Finished(Load, r) OBVIOUS
<1>13. /\ unchecked' = [unchecked EXCEPT ![t] = left] /\ SetLoad(MoreHashes(l, t, left))
       /\ Feed(t, os, l, left) /\ (calls' = <<>> \/ calls' = Send)
  BY <1>5, <1>8, <1>9, <1>10, <1>11, <1>12
<1>14. UNCHANGED <<next, posted>> BY DEF HashesDone
<1>15. /\ Agrees(balance, sent, None) /\ GoodQueue(queue) /\ QueuedAre(queue, status) /\ TaskTypes
  BY <1>1, IdleCore DEF Ready, Idle, Types
<1>16. PICK c : l = LoadOf(c, T, TRUE) /\ Agrees(c, T, None) /\ Len(c.sessions) = Len(balance.sessions)
  <2>1. Load = LoadOf(balance, sent, TRUE) BY DEF Load, LoadOf
  <2>2. IsLoad(Finished(LoadOf(balance, sent, TRUE), r), T, None, Len(balance.sessions))
    BY <1>3, <1>15, FinishedAgrees
  <2> QED BY <1>12, <2>1, <2>2 DEF IsLoad
<1>17. l.sent = T BY <1>16 DEF LoadOf
<1>18. Accounted(R, {}, u, fed[t], "loading", next[t]) BY <1>4, <1>5, <1>6 DEF IdleTask
<1>19. KindsFit(R, {}, u, next[t]) /\ Apart(R, {}, next[t]) BY <1>18 DEF Accounted
<1>20. LessWaits(left, u, os)
  <2>1. \A o \in Offset : o \in known /\ u[o] # None => o \in os BY <1>5, <1>10 DEF Unchecked
  <2> QED BY <1>11, <2>1 DEF LessWaits
<1>21. r.offset \in os
  <2>1. u[r.offset] # None BY <1>1, <1>4, <1>6, <1>19 DEF KindsFit
  <2>2. r.offset \in known BY <1>4, <1>9
  <2> QED BY <1>4, <1>5, <1>10, <2>1, <2>2 DEF Unchecked
<1>22. \A q \in R : q # r => left[q.offset] = u[q.offset]
  <2> SUFFICES ASSUME NEW q \in R, q # r PROVE left[q.offset] = u[q.offset] OBVIOUS
  <2>1. q.kind # "hashes" BY <1>1, <1>4, <1>6, <1>19 DEF KindsFit
  <2>2. u[q.offset] = None /\ q.offset \in Offset BY <1>19, <2>1 DEF KindsFit, Apart
  <2> QED BY <1>11, <2>2
<1>23. os \in SUBSET Offset BY <1>10 DEF Unchecked
<1>24. FedWell(V, left, fed[t] \cup os, next[t])
  <2>1. fed[t] \in SUBSET Offset /\ next[t] \in 0 .. Parts BY <1>4 DEF IdleTask
  <2>2. r \in R BY <1>4, <1>6
  <2> QED BY <1>7, <1>18, <1>20, <1>21, <1>22, <1>23, <2>1, <2>2, FedAccounted
<1>25. FedTo(t, os, l, left) BY <1>4, <1>13, <1>15, <1>23, FeedIs
<1>26. fed'[t] = fed[t] \cup os /\ \A s \in Task : s # t => fed'[s] = fed[s]
  BY <1>25 DEF FedTo
<1>27. \/ status' = status
       \/ /\ status'[t] = "finished" /\ \A s \in Task : s # t => status'[s] = status[s]
          /\ \A w \in T : w.task # t
          /\ \A o \in Offset : left[o] = None
          /\ next[t] = Parts
  BY <1>17, <1>25 DEF FedTo
<1>28. left \in [Offset -> {None} \cup Index]
       /\ \A o \in Offset : left[o] # None => left[o] \in 1 .. Len(c.sessions)
  <2>1. left \in [Offset -> {None} \cup Index] BY <1>5, <1>11
  <2>2. \A o \in Offset : u[o] # None => u[o] \in 1 .. Len(balance.sessions)
    BY <1>4, <1>5 DEF IdleTask
  <2> QED BY <1>11, <1>16, <2>1, <2>2
<1>29. /\ ~failed' /\ Len(balance'.sessions) = Len(c.sessions)
       /\ \A s : s # t => OfTask(sent', s) = OfTask(T, s)
       /\ Accounted(OfTask(sent', t), {}, left, fed[t] \cup os, "loading", next[t])
       /\ Waiting(left) # {} => \E w \in OfTask(sent', t) : w.kind = "hashes"
  <2>0. SetLoad(MoreHashes(LoadOf(c, T, TRUE), t, left)) BY <1>13, <1>16
  <2>1. HashesNow(c, T, t, left) BY <1>1, <1>16, <1>28, <2>0, HashesSet DEF HashesNow
  <2>2. PICK g : g = fed[t] \cup os OBVIOUS
  <2>3. Accounted(OfTask(T, t), {}, left, g, "loading", next[t])
    BY <1>4, <1>6, <1>7, <1>24, <2>2 DEF FedWell
  <2>4. /\ ~failed' /\ Len(balance'.sessions) = Len(c.sessions)
        /\ \A s : s # t => OfTask(sent', s) = OfTask(T, s)
        /\ Accounted(OfTask(sent', t), {}, left, g, "loading", next[t])
        /\ Waiting(left) # {} => \E w \in OfTask(sent', t) : w.kind = "hashes"
    BY <1>1, <1>16, <1>28, <2>1, <2>3, HashesPlaced
  <2> QED BY <2>2, <2>4
<1>30. unchecked'[t] = left /\ \A s \in Task : s # t => unchecked'[s] = unchecked[s]
  BY <1>13, <1>15 DEF TaskTypes
<1>31. Accounted(OfTask(sent', t), {}, unchecked'[t], fed'[t], status'[t], next'[t])
  <2>1. CASE status' = status BY <1>4, <1>14, <1>26, <1>29, <1>30, <2>1
  <2>2. CASE status'[t] = "finished" /\ (\A w \in T : w.task # t)
             /\ (\A o \in Offset : left[o] = None) /\ next[t] = Parts
    <3>1. V = {} BY <1>4, <1>6, <1>7, <2>2 DEF OfTask
    <3>2. fed'[t] = Offset BY <1>24, <1>26, <2>2, <3>1 DEF FedWell
    <3> QED BY <1>14, <1>26, <1>29, <1>30, <2>2, <3>2 DEF Accounted
  <2> QED BY <1>27, <2>1, <2>2
<1>32. HashesComing(OfTask(sent', t), unchecked'[t], posted', t) BY <1>29, <1>30 DEF HashesComing
<1>33. OthersStay(t) BY <1>4, <1>14, <1>26, <1>27, <1>29, <1>30 DEF OthersStay, Untouched
<1>34. \A o \in Offset : unchecked'[t][o] # None => unchecked'[t][o] \in 1 .. Len(balance'.sessions)
  BY <1>28, <1>29, <1>30
<1>35. Len(balance.sessions) \in Nat /\ Len(balance'.sessions) \in Nat
       /\ Len(balance'.sessions) >= Len(balance.sessions)
  <2>1. GoodBalance(balance) BY <1>15 DEF Agrees
  <2> QED BY <1>16, <1>29, <2>1, SessionsOf
<1> QED BY <1>1, <1>13, <1>29, <1>31, <1>32, <1>33, <1>34, <1>35, IdleParts

\* All requests of a task are cancelled to be sent again; none was for hashes.
LEMMA ChangesParts ==
    ASSUME Ready, Idle, PartsInPlace, NEW r \in sent, NEW T, T = sent \ {r}, NEW others,
           others = {q \in T : q.task = r.task}, ChangesTo(r, T, others),
           HashesRequest(sent, r.task) = {},
           Len(balance'.sessions) >= Len(balance.sessions),
           UNCHANGED <<status, next, fed, unchecked>>,
           \A s : Hopes(posted, s) => Hopes(posted', s)
    PROVE  ~failed' /\ PartsInPlace'
<1>1. PICK t \in Task : t = r.task BY AnsweredTask
<1>2. status[t] = "loading" /\ r \in OfTask(sent, t) /\ IdleTask(t) BY <1>1, AnsweredTask
<1>3. PICK R : R = OfTask(sent, t) OBVIOUS
<1>4. R = others \cup {r} /\ r \notin others BY <1>1, <1>3 DEF OfTask
<1>5. /\ failed' = FALSE /\ sent' = T \ others /\ Agrees(balance', sent', None)
      /\ GoodCalls(calls') /\ ~Leaving(calls') /\ Len(calls') >= 2
      /\ \A d : InTodo(calls', d) <=> d \in {Data(q) : q \in others \cup {r}}
      /\ \A k \in 1 .. Len(calls') : calls'[k].op = "resend" => k = 1 \/ k = 2
      /\ calls'[1].todo = {Data(q) : q \in others} /\ calls'[2].todo = {Data(r)}
  BY DEF ChangesTo
<1>6. PICK A : A = {Data(q) : q \in R} OBVIOUS
<1>7. OfTask(sent', t) = {} /\ \A s : s # t => OfTask(sent', s) = OfTask(sent, s)
  BY <1>1, <1>5 DEF OfTask
<1>8. \A q \in R : q \in sent /\ q.task = t /\ q.kind # "hashes"
  BY <1>1, <1>3 DEF OfTask, HashesRequest
<1>9. \A q \in R : /\ Data(q) \in Todo /\ Data(q).task = t
                   /\ Data(q).offset = q.offset /\ Data(q).session = q.session
  <2>1. sent \subseteq Request BY DEF Ready, Types, LoadTypes, GoodSent
  <2> QED BY <1>8, <2>1, DataTyped
<1>10. Accounted(R, {}, unchecked[t], fed[t], status[t], next[t]) BY <1>2, <1>3 DEF IdleTask
<1>11. Accounted({}, A, unchecked[t], fed[t], status[t], next[t])
  BY <1>6, <1>8, <1>10, AgainAccounted
<1>12. \A d : InTodo(calls', d) <=> d \in A BY <1>4, <1>5, <1>6
<1>13. \A d \in A : d \in Todo /\ d.task = t BY <1>6, <1>9
<1>14. OfTask(Again(calls'), t) = A BY <1>12, <1>13 DEF OfTask, Again
<1>15. \A s : s # t => OfTask(Again(calls'), s) = {} BY <1>12, <1>13 DEF OfTask, Again
<1>16. \A s : OfTask(Again(calls), s) = {}
  <2>1. calls = <<>> BY DEF Idle
  <2> QED BY <2>1, NothingAgain
<1>17. TaskParts(t)' BY <1>7, <1>11, <1>14 DEF TaskParts
<1>18. TaskHashes(t)'
  <2>1. HashesComing(R, unchecked[t], posted, t) BY <1>2, <1>3 DEF IdleTask
  <2>2. HashesComing({}, unchecked[t], posted', t) BY <1>8, <2>1 DEF HashesComing
  <2> QED BY <1>7, <2>2 DEF TaskHashes
<1>19. ASSUME NEW s \in Task, s # t PROVE TaskParts(s)' /\ TaskHashes(s)'
  <2>1. Untouched(s) BY <1>7, <1>19 DEF Untouched
  <2>2. OfTask(Again(calls'), s) = OfTask(Again(calls), s) BY <1>15, <1>16, <1>19
  <2>3. TaskParts(s) /\ TaskHashes(s) BY DEF PartsInPlace
  <2> QED BY <2>1, <2>2, <2>3, UntouchedParts
<1>20. Len(balance.sessions) \in Nat /\ Len(balance'.sessions) \in Nat
  <2>1. GoodBalance(balance) /\ GoodBalance(balance')
    BY <1>5 DEF Ready, Types, LoadTypes, Agrees
  <2> QED BY <2>1, SessionsOf
<1>21. ASSUME NEW s \in Task PROVE TaskSessions(s)'
  <2> SUFFICES ASSUME NEW o \in Offset, unchecked[s][o] # None
               PROVE unchecked[s][o] \in 1 .. Len(balance'.sessions)
    BY <1>5 DEF TaskSessions, InSessions
  <2>1. TaskSessions(s) BY DEF PartsInPlace
  <2>2. unchecked[s][o] \in 1 .. Len(balance.sessions) BY <2>1 DEF TaskSessions, InSessions
  <2> QED BY <1>20, <2>2
<1>22. TodoApart(calls')
  <2>1. calls'[1].todo \cap calls'[2].todo = {}
    <3> SUFFICES ASSUME NEW q \in others, Data(q) = Data(r) PROVE FALSE BY <1>5
    <3>1. q \in R /\ r \in R /\ q # r BY <1>4
    <3>2. q.offset = r.offset BY <1>9, <3>1
    <3> QED BY <1>10, <3>1, <3>2 DEF Accounted, Apart
  <2>2. SUFFICES ASSUME NEW j \in 1 .. Len(calls'), NEW k \in 1 .. Len(calls'), j # k,
                        calls'[j].op = "resend", calls'[k].op = "resend"
                 PROVE calls'[j].todo \cap calls'[k].todo = {}
    BY DEF TodoApart
  <2>3. (j = 1 /\ k = 2) \/ (j = 2 /\ k = 1) BY <1>5, <2>2
  <2> QED BY <2>1, <2>3
<1>23. TodoPlaced(calls', Len(balance'.sessions))
  <2> SUFFICES ASSUME NEW d \in Todo, InTodo(calls', d) PROVE d.session \in 1 .. Len(balance'.sessions)
    BY DEF TodoPlaced
  <2>1. PICK q \in R : d = Data(q) BY <1>6, <1>12
  <2>2. q.session \in 1 .. Len(balance.sessions) BY <1>8, <2>1, AnsweredTask
  <2>3. d.session = q.session BY <1>9, <2>1
  <2> QED BY <1>20, <2>2, <2>3
<1>24. \A s \in Task : TaskParts(s)' /\ TaskHashes(s)' BY <1>17, <1>18, <1>19
<1> QED BY <1>5, <1>21, <1>22, <1>23, <1>24 DEF PartsInPlace

LEMMA RedirectedParts ==
    ASSUME Ready, PartsInPlace, NEW r \in sent, Redirected(r), HashesRequest(sent, r.task) = {}
    PROVE  ~failed' /\ PartsInPlace'
<1>1. Idle /\ UNCHANGED <<status, next, fed, unchecked>> BY DEF Redirected, Asked
<1>2. PICK T : T = sent \ {r} OBVIOUS
<1>3. PICK others : others = {q \in T : q.task = r.task} OBVIOUS
<1>4. /\ ChangesTo(r, T, others) /\ Len(balance'.sessions) >= Len(balance.sessions)
      /\ posted' \in {posted, Append(posted, TimedOutPost(r))}
  BY <1>2, <1>3, RedirectedKeeps
<1>5. \A s : Hopes(posted, s) => Hopes(posted', s)
  <2>1. posted \in Seq(Post) BY DEF Ready, Types, RestTypes
  <2>2. TimedOutPost(r) \in Post BY SentTyped, PostTyped DEF Ready, Types, LoadTypes
  <2> QED BY <1>4, <2>1, <2>2, HopesMore
<1> QED BY <1>1, <1>2, <1>3, <1>4, <1>5, ChangesParts

LEMMA RefuseTokenParts ==
    ASSUME Ready, PartsInPlace, NEW r \in sent, RefuseToken(r), HashesRequest(sent, r.task) = {}
    PROVE  ~failed' /\ PartsInPlace'
<1>1. Idle /\ UNCHANGED <<status, next, fed, unchecked, posted>> BY DEF RefuseToken, Asked
<1>2. PICK T : T = sent \ {r} OBVIOUS
<1>3. PICK others : others = {q \in T : q.task = r.task} OBVIOUS
<1>4. ChangesTo(r, T, others) /\ Len(balance'.sessions) = Len(balance.sessions)
  BY <1>2, <1>3, RefuseTokenKeeps
<1>5. Len(balance'.sessions) >= Len(balance.sessions)
  <2>1. GoodBalance(balance) BY DEF Ready, Types, LoadTypes
  <2>2. Len(balance.sessions) \in Nat BY <2>1, SessionsOf
  <2> QED BY <1>4, <2>2
<1>6. \A s : Hopes(posted, s) => Hopes(posted', s) BY <1>1
<1> QED BY <1>1, <1>2, <1>3, <1>4, <1>5, <1>6, ChangesParts

\* A task that is cancelled has no part anywhere but in the file.
LEMMA CancelParts ==
    ASSUME Ready, Idle, PartsInPlace, NEW t \in Task,
           NEW T, T \subseteq sent, \A s : s # t => OfTask(T, s) = OfTask(sent, s),
           sent' = {r \in T : r.task # t},
           Len(balance'.sessions) \in Nat, Len(balance'.sessions) >= Len(balance.sessions),
           NEW l, NEW later \in Seq(Post), CancelAll(t, l, later),
           \A s : Hopes(posted, s) => Hopes(later, s),
           UNCHANGED <<next, fed>>, calls' = <<>> \/ calls' = Send
    PROVE  PartsInPlace'
<1>1. PICK u : u = [o \in Offset |-> None] OBVIOUS
<1>2. unchecked' = [unchecked EXCEPT ![t] = u] /\ status' = [status EXCEPT ![t] = "failed"]
      /\ posted' \in {later, Append(later, [op |-> "moreHashes", task |-> t])}
  BY <1>1 DEF CancelAll
<1>3. /\ unchecked'[t] = u /\ status'[t] = "failed"
      /\ \A s \in Task : s # t => unchecked'[s] = unchecked[s] /\ status'[s] = status[s]
  BY <1>2 DEF Ready, Types, TaskTypes
<1>4. OfTask(sent', t) = {} /\ \A s : s # t => OfTask(sent', s) = OfTask(sent, s)
  <2>1. OfTask(sent', t) = {} BY DEF OfTask
  <2>2. \A s : s # t => OfTask(sent', s) = OfTask(T, s) BY DEF OfTask
  <2> QED BY <2>1, <2>2
<1>5. Accounted({}, {}, u, fed[t], "failed", next[t])
  BY <1>1 DEF Accounted, Apart, KindsFit
<1>6. Accounted(OfTask(sent', t), {}, unchecked'[t], fed'[t], status'[t], next'[t])
  BY <1>3, <1>4, <1>5
<1>7. HashesComing(OfTask(sent', t), unchecked'[t], posted', t)
  <2>1. Waiting(u) = {} BY <1>1 DEF Waiting
  <2> QED BY <1>3, <2>1 DEF HashesComing
<1>8. \A s : Hopes(posted, s) => Hopes(posted', s)
  <2>1. [op |-> "moreHashes", task |-> t] \in Post BY PostTyped
  <2>2. \A s : Hopes(later, s) => Hopes(posted', s) BY <1>2, <2>1, HopesMore
  <2> QED BY <2>2
<1>9. OthersStay(t) BY <1>3, <1>4, <1>8 DEF OthersStay, Untouched
<1>10. \A o \in Offset : unchecked'[t][o] # None => unchecked'[t][o] \in 1 .. Len(balance'.sessions)
  BY <1>1, <1>3
<1>11. Len(balance.sessions) \in Nat
  <2>1. GoodBalance(balance) BY DEF Ready, Types, LoadTypes
  <2> QED BY <2>1, SessionsOf
<1> QED BY <1>6, <1>7, <1>9, <1>10, <1>11, IdleParts

LEMMA SessionsCount ==
    ASSUME Ready
    PROVE  Len(balance.sessions) \in Nat /\ Len(balance.sessions) > 0
<1>1. GoodBalance(balance) BY DEF Ready, Types, LoadTypes
<1> QED BY <1>1, SessionsOf

LEMMA CdnPartInvalidParts ==
    ASSUME Ready, PartsInPlace, NEW r \in sent, CdnPartInvalid(r)
    PROVE  ~failed' /\ PartsInPlace'
<1>1. Idle /\ UNCHANGED <<next, fed>> /\ calls' = Send BY DEF CdnPartInvalid, Asked
<1>2. PICK a \in Answers(r) : CancelAll(r.task, a.load, a.posted) BY DEF CdnPartInvalid
<1>3. PICK later, l : later = a.posted /\ l = a.load OBVIOUS
<1>4. PICK t \in Task : t = r.task BY <1>1, AnsweredTask
<1>5. CancelAll(t, l, later) BY <1>2, <1>3, <1>4
<1>6. /\ Kept /\ failed' = FALSE /\ Len(balance'.sessions) >= Len(balance.sessions)
      /\ sent' = {q \in sent \ {r} : q.task # t}
  BY <1>4, CdnPartInvalidKeeps
<1>7. later \in Seq(Post) /\ \A s : Hopes(posted, s) => Hopes(later, s)
  <2>1. IsAnswer(a, r) /\ a.posted \in Seq(Post) BY <1>1, AnswerSet
  <2>2. posted \in Seq(Post) BY DEF Ready, Types, RestTypes
  <2>3. TimedOutPost(r) \in Post BY SentTyped, PostTyped DEF Ready, Types, LoadTypes
  <2>4. later \in {posted, Append(posted, TimedOutPost(r))} BY <1>3, <2>1 DEF IsAnswer
  <2>5. \A s : Hopes(posted, s) => Hopes(later, s) BY <2>2, <2>3, <2>4, HopesMore
  <2> QED BY <1>3, <2>1, <2>5
<1>8. PICK T : T = sent \ {r} OBVIOUS
<1>9. T \subseteq sent /\ (\A s : s # t => OfTask(T, s) = OfTask(sent, s))
      /\ sent' = {q \in T : q.task # t}
  BY <1>4, <1>6, <1>8 DEF OfTask
<1>10. Len(balance'.sessions) \in Nat
  <2>1. GoodBalance(balance') BY <1>6 DEF Kept, Types, LoadTypes
  <2> QED BY <2>1, SessionsOf
<1>11. PartsInPlace' BY <1>1, <1>5, <1>6, <1>7, <1>9, <1>10, CancelParts
<1> QED BY <1>6, <1>11

LEMMA CancelNowParts ==
    ASSUME Ready, Idle, PartsInPlace, NEW t \in Task, CancelAll(t, Load, posted),
           failed' = FALSE, Len(balance'.sessions) = Len(balance.sessions),
           sent' = {q \in sent : q.task # t}, UNCHANGED <<next, fed, calls>>
    PROVE  ~failed' /\ PartsInPlace'
<1>1. Len(balance.sessions) \in Nat BY SessionsCount
<1>2. Len(balance'.sessions) \in Nat /\ Len(balance'.sessions) >= Len(balance.sessions) BY <1>1
<1>3. posted \in Seq(Post) BY DEF Ready, Types, RestTypes
<1>4. calls' = <<>> BY DEF Idle
<1>5. PICK T : T = sent OBVIOUS
<1>6. T \subseteq sent /\ (\A s : s # t => OfTask(T, s) = OfTask(sent, s))
      /\ sent' = {q \in T : q.task # t}
  BY <1>5
<1>7. PICK later, l : later = posted /\ l = Load OBVIOUS
<1>8. CancelAll(t, l, later) /\ later \in Seq(Post) /\ \A s : Hopes(posted, s) => Hopes(later, s)
  BY <1>3, <1>7
<1>9. PartsInPlace' BY <1>2, <1>4, <1>6, <1>8, CancelParts
<1> QED BY <1>9

LEMMA RefuseParts ==
    ASSUME Ready, PartsInPlace, NEW r \in sent, Refuse(r)
    PROVE  ~failed' /\ PartsInPlace'
<1>1. Idle /\ CancelAll(r.task, Load, posted) /\ UNCHANGED <<next, fed, calls>>
  BY DEF Refuse, Asked
<1>2. /\ failed' = FALSE /\ Len(balance'.sessions) = Len(balance.sessions)
      /\ sent' = {q \in sent : q.task # r.task}
  BY RefuseKeeps
<1>3. r.task \in Task BY <1>1, AnsweredTask
<1> QED BY <1>1, <1>2, <1>3, CancelNowParts

LEMMA CancelsParts ==
    ASSUME Ready, PartsInPlace, NEW t \in Task, Cancel(t)
    PROVE  ~failed' /\ PartsInPlace'
<1>1. Idle /\ CancelAll(t, Load, posted) /\ UNCHANGED <<next, fed, calls>> BY DEF Cancel
<1>2. /\ failed' = FALSE /\ Len(balance'.sessions) = Len(balance.sessions)
      /\ sent' = {q \in sent : q.task # t}
  BY CancelsKeep
<1> QED BY <1>1, <1>2, CancelNowParts

LEMMA StatusParts ==
    ASSUME Ready, Idle, PartsInPlace, NEW t \in Task, NEW s \in Status, status' = [status EXCEPT ![t] = s],
           s = "loading" => status[t] = "new", s \notin {"finished", "new"},
           UNCHANGED <<balance, sent, next, fed, unchecked, posted>>, calls' = Send
    PROVE  PartsInPlace'
<1>1. IdleTask(t) BY IdleTaskIs
<1>2. status'[t] = s /\ \A r \in Task : r # t => status'[r] = status[r]
  BY DEF Ready, Types, TaskTypes
<1>3. PICK R : R = OfTask(sent, t) OBVIOUS
<1>4. Accounted(R, {}, unchecked[t], fed[t], status[t], next[t]) BY <1>1, <1>3 DEF IdleTask
<1>5. Accounted(R, {}, unchecked[t], fed[t], s, next[t])
  <2>1. ASSUME s = "loading" PROVE Covered(R, {}, unchecked[t], fed[t], next[t])
    <3>1. next[t] = 0 BY <1>4, <2>1 DEF Accounted
    <3>2. \A o \in Offset : ~(o < next[t]) BY <3>1, SizesAssumption DEF Offset
    <3> QED BY <3>2 DEF Covered
  <2> QED BY <1>4, <2>1 DEF Accounted
<1>6. Accounted(OfTask(sent', t), {}, unchecked'[t], fed'[t], status'[t], next'[t])
  BY <1>2, <1>3, <1>5
<1>7. HashesComing(OfTask(sent', t), unchecked'[t], posted', t) BY <1>1 DEF IdleTask
<1>8. OthersStay(t) BY <1>2 DEF OthersStay, Untouched
<1>9. \A o \in Offset : unchecked'[t][o] # None => unchecked'[t][o] \in 1 .. Len(balance'.sessions)
  BY <1>1 DEF IdleTask
<1>10. Len(balance.sessions) \in Nat /\ Len(balance'.sessions) \in Nat
       /\ Len(balance'.sessions) >= Len(balance.sessions)
  BY SessionsCount
<1> QED BY <1>6, <1>7, <1>8, <1>9, <1>10, IdleParts

LEMMA StartParts ==
    ASSUME Ready, PartsInPlace, NEW t \in Task, Start(t) \/ Destroy(t)
    PROVE  ~failed' /\ PartsInPlace'
<1>1. Idle /\ calls' = Send /\ UNCHANGED <<balance, sent, next, fed, unchecked, posted>> /\ ~failed'
  BY DEF Start, Destroy, Idle
<1>2. CASE Start(t)
  <2>1. status' = [status EXCEPT ![t] = "loading"] /\ status[t] = "new" BY <1>2 DEF Start
  <2>2. "loading" \in Status /\ "loading" \notin {"finished", "new"} BY DEF Status
  <2> QED BY <1>1, <2>1, <2>2, StatusParts
<1>3. CASE Destroy(t)
  <2>1. status' = [status EXCEPT ![t] = "gone"] BY <1>3 DEF Destroy
  <2>2. "gone" \in Status /\ "gone" \notin {"finished", "new"} /\ "gone" # "loading" BY DEF Status
  <2> QED BY <1>1, <2>1, <2>2, StatusParts
<1> QED BY <1>2, <1>3

\* Steps that change neither the requests nor the tasks.
LEMMA StillParts ==
    ASSUME PartsInPlace, UNCHANGED <<sent, taskVars, calls, posted>>,
           Len(balance'.sessions) = Len(balance.sessions)
    PROVE  PartsInPlace'
<1>1. UNCHANGED <<sent, status, next, fed, unchecked, calls, posted>> BY DEF taskVars
<1>2. ASSUME NEW t \in Task PROVE TaskParts(t)' /\ TaskHashes(t)' /\ TaskSessions(t)'
  <2>1. TaskParts(t) /\ TaskHashes(t) /\ TaskSessions(t) BY DEF PartsInPlace
  <2> QED BY <1>1, <2>1 DEF TaskParts, TaskHashes, TaskSessions
<1>3. TodoApart(calls') /\ TodoPlaced(calls', Len(balance'.sessions)) BY <1>1 DEF PartsInPlace
<1> QED BY <1>2, <1>3 DEF PartsInPlace

LEMMA QuietParts ==
    ASSUME Ready, PartsInPlace, ResetGeneration \/ KillSessions
    PROVE  ~failed' /\ PartsInPlace'
<1>1. CASE ResetGeneration
  <2>1. failed' = FALSE /\ UNCHANGED <<balance, sent, taskVars, calls, posted>>
    BY <1>1, ResetGenerationKeeps
  <2> QED BY <2>1, StillParts
<1>2. CASE KillSessions
  <2>1. failed' = FALSE /\ UNCHANGED <<sent, taskVars, calls, posted>>
        /\ Len(balance'.sessions) = Len(balance.sessions)
    BY <1>2, KillSessionsKeeps
  <2> QED BY <2>1, StillParts
<1> QED BY <1>1, <1>2

-----------------------------------------------------------------------------
(* The parts while an event is handled over several steps.                   *)

LEMMA StayedParts ==
    ASSUME PartsInPlace, NEW t \in Task, OthersStay(t),
           \A s \in Task : s # t => OfTask(Again(calls'), s) = OfTask(Again(calls), s),
           TaskParts(t)', TaskHashes(t)', \A s \in Task : TaskSessions(s)',
           TodoApart(calls'), TodoPlaced(calls', Len(balance'.sessions))
    PROVE  PartsInPlace'
<1>1. ASSUME NEW s \in Task, s # t PROVE TaskParts(s)' /\ TaskHashes(s)'
  <2>1. Untouched(s) BY <1>1 DEF OthersStay
  <2>2. TaskParts(s) /\ TaskHashes(s) BY DEF PartsInPlace
  <2> QED BY <1>1, <2>1, <2>2, UntouchedParts
<1>2. \A s \in Task : TaskParts(s)' /\ TaskHashes(s)' BY <1>1
<1> QED BY <1>2 DEF PartsInPlace

LEMMA NothingParts ==
    ASSUME PartsInPlace,
           \A s \in Task : Untouched(s) /\ OfTask(Again(calls'), s) = OfTask(Again(calls), s),
           \A s \in Task : TaskSessions(s)',
           TodoApart(calls'), TodoPlaced(calls', Len(balance'.sessions))
    PROVE  PartsInPlace'
<1>1. ASSUME NEW s \in Task PROVE TaskParts(s)' /\ TaskHashes(s)'
  <2>1. TaskParts(s) /\ TaskHashes(s) BY DEF PartsInPlace
  <2> QED BY <2>1, UntouchedParts
<1> QED BY <1>1 DEF PartsInPlace

\* Sessions are neither added nor removed yet.
LEMMA TimedOutParts ==
    ASSUME Ready, Idle, WaitingLoading, PartsInPlace, TimedOutTo(calls'), UNCHANGED <<sent, taskVars>>,
           \A s : Hopes(posted, s) => Hopes(posted', s)
    PROVE  PartsInPlace'
<1>1. /\ Len(balance'.sessions) = Len(balance.sessions)
      /\ calls' = calls \/ (IsRemoval(calls', queue) /\ LastIndex > 1)
  BY DEF TimedOutTo
<1>2. \A s \in Task : Untouched(s) BY DEF Untouched, taskVars
<1>3. unchecked' = unchecked BY DEF taskVars
<1>4. CASE calls' = calls
  <2>1. \A s \in Task : TaskSessions(s)'
    BY <1>1, <1>3, <1>4 DEF PartsInPlace, TaskSessions
  <2>2. TodoApart(calls') /\ TodoPlaced(calls', Len(balance'.sessions))
    BY <1>1, <1>4 DEF PartsInPlace
  <2>3. \A s \in Task : OfTask(Again(calls'), s) = OfTask(Again(calls), s) BY <1>4
  <2> QED BY <1>2, <2>1, <2>2, <2>3, NothingParts
<1>5. CASE IsRemoval(calls', queue)
  <2>1. calls = <<>> /\ QueuedAre(queue, status) BY IdleCore DEF Idle, Ready
  <2>2. \A d : ~InTodo(calls', d) BY <1>5 DEF IsRemoval
  <2>3. \A s \in Task : OfTask(Again(calls'), s) = OfTask(Again(calls), s)
    <3>1. Again(calls') = {} BY <2>2 DEF Again
    <3>2. \A s : OfTask(Again(calls), s) = {} BY <2>1, NothingAgain
    <3> QED BY <3>1, <3>2 DEF OfTask
  <2>4. TodoApart(calls') BY <2>2 DEF TodoApart, InTodo
  <2>5. TodoPlaced(calls', Len(balance'.sessions)) BY <2>2 DEF TodoPlaced
  <2>6. ASSUME NEW s \in Task PROVE TaskSessions(s)'
    <3> SUFFICES ASSUME NEW o \in Offset, unchecked[s][o] # None
                 PROVE /\ unchecked[s][o] \in 1 .. Len(balance'.sessions)
                       /\ Pending(calls', "recheck", s)
      BY <1>3 DEF TaskSessions, InSessions
    <3>1. unchecked[s][o] \in 1 .. Len(balance.sessions)
      BY DEF PartsInPlace, TaskSessions, InSessions
    <3>2. Waiting(unchecked[s]) # {} BY DEF Waiting
    <3>3. status[s] = "loading" BY <3>2 DEF WaitingLoading
    <3>4. Queued(queue, s) BY <2>1, <3>3 DEF QueuedAre
    <3> QED BY <1>1, <1>5, <3>1, <3>4 DEF IsRemoval
  <2> QED BY <1>2, <2>3, <2>4, <2>5, <2>6, NothingParts
<1> QED BY <1>1, <1>4, <1>5

LEMMA RestartedParts ==
    ASSUME Ready, WaitingLoading, PartsInPlace, NEW i, RestartedByTimeout(i)
    PROVE  ~failed' /\ PartsInPlace'
<1>1. Idle /\ UNCHANGED <<sent, taskVars, posted>> BY DEF RestartedByTimeout
<1>2. failed' = FALSE /\ TimedOutTo(calls') BY RestartedKeeps
<1> QED BY <1>1, <1>2, TimedOutParts

\* What is hoped for after the first call posted has been made.
LEMMA TailHopes ==
    ASSUME NEW ps \in Seq(Post), ps # <<>>, NEW qs, qs = Tail(ps), NEW s, Hopes(ps, s)
    PROVE  Hopes(qs, s) \/ (Head(ps).op = "moreHashes" /\ Head(ps).task = s)
<1>1. /\ Len(ps) \in Nat \ {0} /\ Head(ps) = ps[1]
      /\ Len(qs) = Len(ps) - 1 /\ \A k \in 1 .. Len(qs) : qs[k] = ps[k + 1]
  BY HeadTailProperties
<1>2. PICK k \in 1 .. Len(ps) : ps[k].op = "moreHashes" /\ ps[k].task = s BY DEF Hopes
<1>3. CASE k = 1 BY <1>1, <1>2, <1>3
<1>4. CASE k # 1
  <2>1. PICK j \in 1 .. Len(qs) : k = j + 1
    <3>1. k - 1 \in 1 .. Len(qs) /\ k = (k - 1) + 1 BY <1>1, <1>4
    <3> QED BY <3>1
  <2>2. qs[j] = ps[k] BY <1>1, <2>1
  <2> QED BY <1>2, <2>2 DEF Hopes
<1> QED BY <1>3, <1>4

LEMMA RunPostedParts ==
    ASSUME Ready, WaitingLoading, PartsInPlace, RunPosted
    PROVE  ~failed' /\ PartsInPlace'
<1>1. Idle BY DEF RunPosted
<1>2. /\ posted # <<>> /\ posted' = Tail(posted) /\ UNCHANGED taskVars
      /\ Posts(Head(posted))
  BY RunPostedKeeps
<1>3. PICK p : p = Head(posted) OBVIOUS
<1>4. posted \in Seq(Post) BY DEF Ready, Types, RestTypes
<1>5. \A s : Hopes(posted, s) => Hopes(posted', s) \/ (p.op = "moreHashes" /\ p.task = s)
  BY <1>2, <1>3, <1>4, TailHopes
<1>6. CASE p.op = "timedOut" /\ TimedOutTo(calls') /\ sent' = sent /\ failed' = FALSE
  <2>1. \A s : Hopes(posted, s) => Hopes(posted', s) BY <1>5, <1>6
  <2> QED BY <1>1, <1>2, <1>6, <2>1, TimedOutParts
<1>7. CASE p.op = "moreHashes" /\ p.task \in Task /\ calls' = calls
           /\ HashesNow(balance, sent, p.task, unchecked[p.task])
  <2>1. PICK t \in Task : t = p.task BY <1>7
  <2>2. PICK u : u = unchecked[t] OBVIOUS
  <2>3. IdleTask(t) BY <1>1, IdleTaskIs
  <2>4. HashesNow(balance, sent, t, u) BY <1>7, <2>1, <2>2
  <2>5. PICK f, st, n : f = fed[t] /\ st = status[t] /\ n = next[t] OBVIOUS
  <2>6. /\ Accounted(OfTask(sent, t), {}, u, f, st, n)
        /\ \A o \in Offset : u[o] # None => u[o] \in 1 .. Len(balance.sessions)
    BY <2>2, <2>3, <2>5 DEF IdleTask
  <2>7. /\ ~failed' /\ Len(balance'.sessions) = Len(balance.sessions)
        /\ \A r : r # t => OfTask(sent', r) = OfTask(sent, r)
        /\ Accounted(OfTask(sent', t), {}, u, f, st, n)
        /\ Waiting(u) # {} => \E r \in OfTask(sent', t) : r.kind = "hashes"
    BY <2>4, <2>6, HashesPlaced
  <2>8. UNCHANGED <<status, next, fed, unchecked>> BY <1>2 DEF taskVars
  <2>9. OthersStay(t) BY <1>5, <2>1, <2>7, <2>8 DEF OthersStay, Untouched
  <2>10. Accounted(OfTask(sent', t), {}, unchecked'[t], fed'[t], status'[t], next'[t])
    BY <2>2, <2>5, <2>7, <2>8
  <2>11. HashesComing(OfTask(sent', t), unchecked'[t], posted', t)
    BY <2>2, <2>7, <2>8 DEF HashesComing
  <2>12. \A o \in Offset : unchecked'[t][o] # None => unchecked'[t][o] \in 1 .. Len(balance'.sessions)
    BY <2>2, <2>6, <2>7, <2>8
  <2>13. /\ Len(balance.sessions) \in Nat /\ Len(balance'.sessions) \in Nat
         /\ Len(balance'.sessions) >= Len(balance.sessions)
    BY <2>7, SessionsCount
  <2>14. calls' = <<>> BY <1>1, <1>7 DEF Idle
  <2>15. PartsInPlace' BY <1>1, <2>9, <2>10, <2>11, <2>12, <2>13, <2>14, IdleParts
  <2> QED BY <2>7, <2>15
<1> QED BY <1>2, <1>3, <1>6, <1>7 DEF Posts, HashesNow

-----------------------------------------------------------------------------
(* The first call is left behind.                                            *)

\* What is still to be sent again, and which session each part waits for.
LEMMA TailTodo ==
    ASSUME NEW cs, NEW u, IsTail(u, cs), TodoApart(cs), NEW n, TodoPlaced(cs, n)
    PROVE  TodoApart(u) /\ TodoPlaced(u, n)
<1>1. /\ \A k \in 1 .. Len(u) : k + 1 \in 1 .. Len(cs) /\ u[k] = cs[k + 1]
      /\ \A d : InTodo(u, d) => InTodo(cs, d)
  BY DEF IsTail
<1>2. TodoApart(u)
  <2> SUFFICES ASSUME NEW j \in 1 .. Len(u), NEW k \in 1 .. Len(u), j # k,
                      u[j].op = "resend", u[k].op = "resend"
               PROVE u[j].todo \cap u[k].todo = {}
    BY DEF TodoApart
  <2>1. PICK a \in 1 .. Len(cs) : a = j + 1 BY <1>1
  <2>2. PICK b \in 1 .. Len(cs) : b = k + 1 BY <1>1
  <2>3. a # b BY <2>1, <2>2
  <2>4. cs[a] = u[j] /\ cs[b] = u[k] BY <1>1, <2>1, <2>2
  <2> QED BY <2>3, <2>4 DEF TodoApart
<1> QED BY <1>1, <1>2 DEF TodoPlaced

LEMMA TailSessions ==
    ASSUME NEW cs, NEW u, IsTail(u, cs), Head(cs).op \notin {"pop", "recheck"},
           NEW v, NEW n, NEW t, InSessions(v, cs, n, t)
    PROVE  InSessions(v, u, n, t)
  BY DEF IsTail, InSessions

LEMMA TailParts ==
    ASSUME PartsInPlace, IsTail(calls', calls), Head(calls).op \in {"send", "resend", "redirect"},
           Head(calls).op = "resend" => Head(calls).todo = {},
           UNCHANGED <<sent, taskVars, posted>>, Len(balance'.sessions) = Len(balance.sessions)
    PROVE  PartsInPlace'
<1>1. \A s \in Task : Untouched(s) BY DEF Untouched, taskVars
<1>2. \A d : InTodo(calls', d) <=> InTodo(calls, d) BY DEF IsTail
<1>3. Again(calls') = Again(calls) BY <1>2 DEF Again
<1>4. TodoApart(calls') /\ TodoPlaced(calls', Len(balance'.sessions)) BY TailTodo DEF PartsInPlace
<1>5. ASSUME NEW s \in Task PROVE TaskSessions(s)'
  <2>1. InSessions(unchecked[s], calls, Len(balance.sessions), s) BY DEF PartsInPlace, TaskSessions
  <2>2. InSessions(unchecked[s], calls', Len(balance.sessions), s) BY <2>1, TailSessions
  <2> QED BY <2>2 DEF TaskSessions, taskVars
<1>6. \A s \in Task : Untouched(s) /\ OfTask(Again(calls'), s) = OfTask(Again(calls), s)
  BY <1>1, <1>3
<1> QED BY <1>4, <1>5, <1>6, NothingParts

LEMMA EndsParts ==
    ASSUME Ready, PartsInPlace, ResendEnds \/ RedirectEnds
    PROVE  ~failed' /\ PartsInPlace'
<1>1. CASE ResendEnds
  <2>1. /\ Head(calls).op = "resend" /\ Head(calls).todo = {} /\ ~failed'
        /\ UNCHANGED <<balance, sent, taskVars, posted>>
    BY <1>1 DEF ResendEnds
  <2>2. IsTail(calls', calls) BY <1>1, ResendEndsKeeps
  <2> QED BY <2>1, <2>2, TailParts
<1>2. CASE RedirectEnds
  <2>1. /\ Head(calls).op = "redirect" /\ ~failed'
        /\ UNCHANGED <<balance, sent, taskVars, posted>>
    BY <1>2 DEF RedirectEnds
  <2>2. IsTail(calls', calls) BY <1>2, RedirectEndsKeeps
  <2> QED BY <2>1, <2>2, TailParts
<1> QED BY <1>1, <1>2

LEMMA SendNextPartParts ==
    ASSUME Ready, PartsInPlace, SendNextPart
    PROVE  ~failed' /\ PartsInPlace'
<1>1. UNCHANGED <<status, fed, cdn, hashes, unchecked, posted>> /\ ~failed BY DEF SendNextPart
<1>2. CASE IsTail(calls', calls) /\ Head(calls).op = "send" /\ UNCHANGED <<balance, sent, next, failed>>
  <2>1. UNCHANGED <<sent, taskVars, posted>> BY <1>1, <1>2 DEF taskVars
  <2> QED BY <1>1, <1>2, <2>1, TailParts
<1>3. ASSUME NEW t \in Task, ReadyToRequest(t), next' = [next EXCEPT ![t] = @ + 1], calls' = calls,
             NEW i \in 1 .. Len(balance.sessions),
             IsPlacedNow(balance, sent, None, t, next[t], i, PartKind(t))
      PROVE  ~failed' /\ PartsInPlace'
  <2>1. PICK n \in Nat : n = next[t]
    <3>1. next[t] \in 0 .. Parts BY DEF Ready, Types, TaskTypes
    <3> QED BY <3>1, SizesAssumption
  <2>2. n \in Offset /\ status[t] = "loading"
    <3>1. n < Parts /\ status[t] = "loading" BY <1>3, <2>1 DEF ReadyToRequest
    <3> QED BY <2>1, <3>1, SizesAssumption DEF Offset
  <2>3. PICK R, A, m : R = OfTask(sent, t) /\ A = OfTask(Again(calls), t) /\ m = n + 1 OBVIOUS
  <2>4. TaskParts(t) /\ TaskHashes(t) BY DEF PartsInPlace
  <2>5. Accounted(R, A, unchecked[t], fed[t], "loading", n) BY <2>1, <2>2, <2>3, <2>4 DEF TaskParts
  <2>6. Free(sent, t, n)
    <3>1. \A w \in R : w.offset < n /\ w.offset \in Offset BY <2>5 DEF Accounted, Apart
    <3>2. \A w \in R : w.offset # n
      <4> SUFFICES ASSUME NEW w \in R, w.offset = n PROVE FALSE OBVIOUS
      <4>1. n < n BY <3>1
      <4> QED BY <4>1
    <3> QED BY <2>3, <3>2 DEF Free, OfTask
  <2>7. /\ ~failed' /\ Len(balance'.sessions) = Len(balance.sessions)
        /\ \E q \in Request : IsFor(q, t, n, i, PartKind(t)) /\ sent' = sent \cup {q}
    BY <1>3, <2>1, <2>6 DEF IsPlacedNow
  <2>8. PICK q : IsFor(q, t, n, i, PartKind(t)) /\ sent' = sent \cup {q} BY <2>7
  <2>9. q.task = t /\ q.offset = n /\ q.kind # "hashes" /\ q.refreshing = FALSE
    BY <2>8, KindsOfParts DEF IsFor
  <2>10. PICK T : T = R \cup {q} OBVIOUS
  <2>11. Accounted(T, A, unchecked[t], fed[t], "loading", m)
    BY <2>2, <2>3, <2>5, <2>9, <2>10, NextAccounted
  <2>12. OfTask(sent', t) = T /\ \A s : s # t => OfTask(sent', s) = OfTask(sent, s)
    BY <2>3, <2>8, <2>9, <2>10 DEF OfTask
  <2>13. next'[t] = m /\ \A s \in Task : s # t => next'[s] = next[s]
    BY <1>3, <2>1, <2>3 DEF Ready, Types, TaskTypes
  <2>14. TaskParts(t)' BY <1>1, <1>3, <2>2, <2>3, <2>11, <2>12, <2>13 DEF TaskParts
  <2>15. TaskHashes(t)'
    <3>1. HashesComing(R, unchecked[t], posted, t) BY <2>3, <2>4 DEF TaskHashes
    <3>2. HashesComing(T, unchecked[t], posted, t) BY <2>10, <3>1, HashesStay
    <3> QED BY <1>1, <2>12, <3>2 DEF TaskHashes
  <2>16. OthersStay(t) BY <1>1, <2>12, <2>13 DEF OthersStay, Untouched
  <2>17. \A s \in Task : TaskSessions(s)' BY <1>1, <1>3, <2>7 DEF PartsInPlace, TaskSessions
  <2>18. TodoApart(calls') /\ TodoPlaced(calls', Len(balance'.sessions)) BY <1>3, <2>7 DEF PartsInPlace
  <2>19. \A s \in Task : s # t => OfTask(Again(calls'), s) = OfTask(Again(calls), s) BY <1>3
  <2> QED BY <2>7, <2>14, <2>15, <2>16, <2>17, <2>18, <2>19, StayedParts
<1> QED BY <1>2, <1>3, SendNextPartKeeps

\* One of what is to be sent again is taken.
LEMMA LessAgain ==
    ASSUME NEW cs, NEW u, NEW d \in Todo, IsLess(u, cs, d), d \in cs[1].todo, cs[1].op = "resend",
           TodoApart(cs), NEW n, TodoPlaced(cs, n)
    PROVE  /\ Again(u) = Again(cs) \ {d} /\ d \in Again(cs)
           /\ TodoApart(u) /\ TodoPlaced(u, n)
<1>1. /\ Len(u) = Len(cs) /\ 1 \in 1 .. Len(cs)
      /\ \A k \in 1 .. Len(u) : u[k].op = cs[k].op /\ (k # 1 => u[k] = cs[k])
      /\ u[1].todo = cs[1].todo \ {d}
      /\ \A e : InTodo(u, e) => InTodo(cs, e)
      /\ \A e : InTodo(cs, e) => InTodo(u, e) \/ e = d
  BY DEF IsLess
<1>2. InTodo(cs, d) BY <1>1 DEF InTodo
<1>3. ~InTodo(u, d)
  <2> SUFFICES ASSUME NEW k \in 1 .. Len(u), u[k].op = "resend", d \in u[k].todo PROVE FALSE
    BY DEF InTodo
  <2>1. k # 1 BY <1>1
  <2>2. d \in cs[k].todo /\ cs[k].op = "resend" BY <1>1, <2>1
  <2>3. cs[1].todo \cap cs[k].todo = {} BY <1>1, <2>1, <2>2 DEF TodoApart
  <2> QED BY <2>2, <2>3
<1>4. Again(u) = Again(cs) \ {d} BY <1>1, <1>3 DEF Again
<1>5. \A k \in 1 .. Len(u) : u[k].todo \subseteq cs[k].todo
  <2> SUFFICES ASSUME NEW k \in 1 .. Len(u) PROVE u[k].todo \subseteq cs[k].todo OBVIOUS
  <2>1. CASE k = 1 BY <1>1, <2>1
  <2>2. CASE k # 1 BY <1>1, <2>2
  <2> QED BY <2>1, <2>2
<1>6. TodoApart(u)
  <2> SUFFICES ASSUME NEW j \in 1 .. Len(u), NEW k \in 1 .. Len(u), j # k,
                      u[j].op = "resend", u[k].op = "resend"
               PROVE u[j].todo \cap u[k].todo = {}
    BY DEF TodoApart
  <2>1. cs[j].todo \cap cs[k].todo = {} BY <1>1 DEF TodoApart
  <2> QED BY <1>5, <2>1
<1>7. TodoPlaced(u, n) BY <1>1 DEF TodoPlaced
<1> QED BY <1>2, <1>4, <1>6, <1>7 DEF Again

LEMMA ResendParts ==
    ASSUME Ready, PartsInPlace, Resend
    PROVE  ~failed' /\ PartsInPlace'
<1>1. calls # <<>> /\ Head(calls).op = "resend" /\ UNCHANGED <<taskVars, posted>> BY DEF Resend
<1>2. Head(calls) = calls[1] BY <1>1, HeadIs DEF HeadFacts, Ready
<1>3. PICK d \in Todo :
        /\ d \in Head(calls).todo /\ IsLess(calls', calls, d)
        /\ IsPlacedNow(balance, sent, None, d.task, d.offset, d.session, PartKind(d.task))
  BY ResendKeeps
<1>4. PICK N : N = Len(balance.sessions) OBVIOUS
<1>5. /\ Again(calls') = Again(calls) \ {d} /\ d \in Again(calls)
      /\ TodoApart(calls') /\ TodoPlaced(calls', N)
  <2>1. TodoApart(calls) /\ TodoPlaced(calls, N) BY <1>4 DEF PartsInPlace
  <2>2. d \in calls[1].todo /\ calls[1].op = "resend" BY <1>1, <1>2, <1>3
  <2> QED BY <1>3, <2>1, <2>2, LessAgain
<1>6. PICK t \in Task : t = d.task BY DEF Todo
<1>7. PICK R, A : R = OfTask(sent, t) /\ A = OfTask(Again(calls), t) OBVIOUS
<1>8. TaskParts(t) /\ TaskHashes(t) BY DEF PartsInPlace
<1>9. Accounted(R, A, unchecked[t], fed[t], status[t], next[t]) /\ d \in A
  BY <1>5, <1>6, <1>7, <1>8 DEF TaskParts, OfTask
<1>10. Free(sent, t, d.offset)
  <2>1. \A r \in R : d.offset # r.offset BY <1>9 DEF Accounted, Apart
  <2> QED BY <1>7, <2>1 DEF Free, OfTask
<1>11. d.session \in 1 .. N
  <2>1. InTodo(calls, d) BY <1>5 DEF Again
  <2> QED BY <1>4, <2>1 DEF PartsInPlace, TodoPlaced
<1>12. /\ ~failed' /\ Len(balance'.sessions) = N
       /\ \E q \in Request : IsFor(q, t, d.offset, d.session, PartKind(t)) /\ sent' = sent \cup {q}
  BY <1>3, <1>4, <1>6, <1>10, <1>11 DEF IsPlacedNow
<1>13. PICK q : IsFor(q, t, d.offset, d.session, PartKind(t)) /\ sent' = sent \cup {q} BY <1>12
<1>14. q.task = t /\ q.offset = d.offset /\ q.kind # "hashes" /\ q.refreshing = FALSE
  BY <1>13, KindsOfParts DEF IsFor
<1>15. PICK T, B : T = R \cup {q} /\ B = A \ {d} OBVIOUS
<1>16. Accounted(T, B, unchecked[t], fed[t], status[t], next[t])
  BY <1>9, <1>14, <1>15, ResentAccounted
<1>17. OfTask(sent', t) = T /\ \A s : s # t => OfTask(sent', s) = OfTask(sent, s)
  BY <1>7, <1>13, <1>14, <1>15 DEF OfTask
<1>18. OfTask(Again(calls'), t) = B /\ \A s : s # t => OfTask(Again(calls'), s) = OfTask(Again(calls), s)
  BY <1>5, <1>6, <1>7, <1>15 DEF OfTask
<1>19. UNCHANGED <<status, next, fed, unchecked, posted>> BY <1>1 DEF taskVars
<1>20. TaskParts(t)' BY <1>16, <1>17, <1>18, <1>19 DEF TaskParts
<1>21. TaskHashes(t)'
  <2>1. HashesComing(R, unchecked[t], posted, t) BY <1>7, <1>8 DEF TaskHashes
  <2>2. HashesComing(T, unchecked[t], posted, t) BY <1>15, <2>1, HashesStay
  <2> QED BY <1>17, <1>19, <2>2 DEF TaskHashes
<1>22. OthersStay(t) BY <1>17, <1>19 DEF OthersStay, Untouched
<1>23. \A s \in Task : TaskSessions(s)'
  <2>1. ~Leaving(calls') BY <1>3 DEF IsLess
  <2> QED BY <1>4, <1>12, <1>19, <2>1 DEF PartsInPlace, TaskSessions, InSessions
<1> QED BY <1>5, <1>12, <1>18, <1>20, <1>21, <1>22, <1>23, StayedParts

-----------------------------------------------------------------------------
(* The parts while a session is removed.                                     *)

\* The parts that waited for the last session wait for another.
LEMMA RecheckParts ==
    ASSUME Ready, PartsInPlace, Recheck, ~failed'
    PROVE  PartsInPlace'
<1>1. PICK t \in Task, i \in 1 .. Len(balance.sessions) :
        /\ t = Head(calls).task
        /\ unchecked' = [unchecked EXCEPT ![t] =
              [o \in Offset |-> IF unchecked[t][o] = LastIndex THEN i ELSE unchecked[t][o]]]
        /\ ~(i >= LastIndex) \/ \A o \in Offset : unchecked[t][o] # LastIndex
  BY RecheckKeeps
<1>2. IsTail(calls', calls) /\ Head(calls).op = "recheck" BY RecheckKeeps
<1>3. UNCHANGED <<balance, sent, status, next, fed, posted>> BY DEF Recheck
<1>4. PICK N, u, v : /\ N = Len(balance.sessions) /\ u = unchecked[t]
                     /\ v = [o \in Offset |-> IF u[o] = N THEN i ELSE u[o]]
  OBVIOUS
<1>5. unchecked'[t] = v /\ \A s \in Task : s # t => unchecked'[s] = unchecked[s]
  <2>1. unchecked' = [unchecked EXCEPT ![t] = v] BY <1>1, <1>4 DEF LastIndex
  <2> QED BY <2>1 DEF Ready, Types, TaskTypes
<1>6. N \in Nat /\ N > 0 /\ i \in 1 .. N /\ i # None /\ N # None BY <1>4, SessionsCount DEF None
<1>7. \A o \in Offset : v[o] = None <=> u[o] = None BY <1>4, <1>6
<1>8. \A d : InTodo(calls', d) <=> InTodo(calls, d) BY <1>2 DEF IsTail
<1>9. Again(calls') = Again(calls) BY <1>8 DEF Again
<1>10. TaskParts(t) /\ TaskHashes(t) /\ TaskSessions(t) BY DEF PartsInPlace
<1>11. TaskParts(t)'
  <2>1. Accounted(OfTask(sent, t), OfTask(Again(calls), t), u, fed[t], status[t], next[t])
    BY <1>4, <1>10 DEF TaskParts
  <2>2. Accounted(OfTask(sent, t), OfTask(Again(calls), t), v, fed[t], status[t], next[t])
    BY <1>7, <2>1, MovedAccounted
  <2> QED BY <1>3, <1>5, <1>9, <2>2 DEF TaskParts
<1>12. TaskHashes(t)'
  <2>1. HashesComing(OfTask(sent, t), u, posted, t) BY <1>4, <1>10 DEF TaskHashes
  <2>2. Waiting(v) \subseteq Waiting(u) BY <1>7 DEF Waiting
  <2>3. HashesComing(OfTask(sent, t), v, posted, t) BY <2>1, <2>2 DEF HashesComing
  <2> QED BY <1>3, <1>5, <2>3 DEF TaskHashes
<1>13. OthersStay(t) BY <1>3, <1>5 DEF OthersStay, Untouched
<1>14. TodoApart(calls') /\ TodoPlaced(calls', Len(balance'.sessions))
  BY <1>2, <1>3, TailTodo DEF PartsInPlace
<1>15. ASSUME NEW s \in Task PROVE TaskSessions(s)'
  <2>1. InSessions(unchecked[s], calls, N, s) BY <1>4 DEF PartsInPlace, TaskSessions
  <2>2. CASE s = t
    <3>1. ASSUME NEW o \in Offset, v[o] # None PROVE v[o] \in 1 .. N /\ v[o] # N
      <4>1. u[o] # None BY <1>7, <3>1
      <4>2. u[o] \in 1 .. N BY <1>4, <2>1, <2>2, <4>1 DEF InSessions
      <4>3. CASE u[o] = N
        <5>1. v[o] = i BY <1>4, <4>3
        <5>2. ~(i >= N) BY <1>1, <1>4, <4>3 DEF LastIndex
        <5> QED BY <1>6, <5>1, <5>2
      <4>4. CASE u[o] # N BY <1>4, <4>2, <4>4
      <4> QED BY <4>3, <4>4
    <3>2. InSessions(v, calls', N, t) BY <3>1 DEF InSessions
    <3> QED BY <1>3, <1>4, <1>5, <2>2, <3>2 DEF TaskSessions
  <2>3. CASE s # t
    <3>1. Pending(calls, "recheck", s) => Pending(calls', "recheck", s)
      BY <1>1, <1>2, <2>3 DEF IsTail
    <3>2. Leaving(calls') => Leaving(calls) BY <1>2 DEF IsTail
    <3>3. InSessions(unchecked[s], calls', N, s) BY <2>1, <3>1, <3>2 DEF InSessions
    <3> QED BY <1>3, <1>4, <1>5, <2>3, <3>3 DEF TaskSessions
  <2> QED BY <2>2, <2>3
<1>16. \A s \in Task : s # t => OfTask(Again(calls'), s) = OfTask(Again(calls), s) BY <1>9
<1> QED BY <1>11, <1>12, <1>13, <1>14, <1>15, <1>16, StayedParts

\* Hashes are hoped for from now on.
HopesNow(ps, qs, t) == Hopes(qs, t) /\ \A s : Hopes(ps, s) => Hopes(qs, s)

LEMMA AppendHopes ==
    ASSUME NEW ps \in Seq(Post), NEW t, NEW e \in Post, e.op = "moreHashes", e.task = t,
           NEW qs, qs = Append(ps, e)
    PROVE  HopesNow(ps, qs, t)
<1>1. Len(ps) \in Nat /\ Len(qs) = Len(ps) + 1 /\ qs[Len(qs)] = e OBVIOUS
<1>2. Len(qs) \in 1 .. Len(qs) BY <1>1
<1>3. Hopes(qs, t) BY <1>1, <1>2 DEF Hopes
<1>4. \A s : Hopes(ps, s) => Hopes(qs, s) BY HopesMore
<1> QED BY <1>3, <1>4 DEF HopesNow

\* The requests of the last session are sent in another, those for hashes
\* are put off.
LEMMA RedirectParts ==
    ASSUME Ready, PartsInPlace, Redirect, ~failed'
    PROVE  PartsInPlace'
<1>1. PICK r \in sent : \E c, T : Redirecting(r, c, T) BY RedirectKeeps
<1>2. PICK c, V : Redirecting(r, c, V) BY <1>1
<1>3. /\ calls' = calls /\ V = sent \ {r} /\ Len(c.sessions) = LastIndex
      /\ \/ /\ r.kind = "hashes" /\ sent' = V /\ Len(balance'.sessions) = LastIndex
            /\ posted' = IF Unchecked(r.task) = {} THEN posted
                         ELSE Append(posted, [op |-> "moreHashes", task |-> r.task])
         \/ /\ r.kind # "hashes" /\ posted' = posted
            /\ IsPlacedBelow(c, V, LastIndex, r.task, r.offset, ChooseSessionIndex(c),
                             PartKind(r.task), LastIndex)
  BY <1>2 DEF Redirecting
<1>4. UNCHANGED <<status, next, fed, unchecked>> BY DEF Redirect, taskVars
<1>5. PICK t \in Task : t = r.task BY SentTyped DEF Ready, Types, LoadTypes
<1>6. PICK R, A : R = OfTask(sent, t) /\ A = OfTask(Again(calls), t) OBVIOUS
<1>7. TaskParts(t) /\ TaskHashes(t) BY DEF PartsInPlace
<1>8. /\ Accounted(R, A, unchecked[t], fed[t], status[t], next[t]) /\ r \in R
      /\ HashesComing(R, unchecked[t], posted, t)
  BY <1>5, <1>6, <1>7 DEF TaskParts, TaskHashes, OfTask
<1>9. posted \in Seq(Post) BY DEF Ready, Types, RestTypes
<1>10. ASSUME NEW T, OfTask(sent', t) = T, \A s : s # t => OfTask(sent', s) = OfTask(sent, s),
              Accounted(T, A, unchecked[t], fed[t], status[t], next[t]),
              HashesComing(T, unchecked[t], posted', t),
              \A s : Hopes(posted, s) => Hopes(posted', s), Len(balance'.sessions) = LastIndex
       PROVE  PartsInPlace'
  <2>1. TaskParts(t)' BY <1>3, <1>4, <1>6, <1>10 DEF TaskParts
  <2>2. TaskHashes(t)' BY <1>4, <1>10 DEF TaskHashes
  <2>3. OthersStay(t) BY <1>4, <1>10 DEF OthersStay, Untouched
  <2>4. \A s \in Task : TaskSessions(s)'
    BY <1>3, <1>4, <1>10 DEF PartsInPlace, TaskSessions, LastIndex
  <2>5. TodoApart(calls') /\ TodoPlaced(calls', Len(balance'.sessions))
    BY <1>3, <1>10 DEF PartsInPlace, LastIndex
  <2>6. \A s \in Task : s # t => OfTask(Again(calls'), s) = OfTask(Again(calls), s) BY <1>3
  <2> QED BY <2>1, <2>2, <2>3, <2>4, <2>5, <2>6, StayedParts
<1>11. CASE /\ r.kind = "hashes" /\ sent' = V /\ Len(balance'.sessions) = LastIndex
            /\ posted' = IF Unchecked(r.task) = {} THEN posted
                         ELSE Append(posted, [op |-> "moreHashes", task |-> r.task])
  <2>1. PICK T : T = R \ {r} OBVIOUS
  <2>2. Accounted(T, A, unchecked[t], fed[t], status[t], next[t])
    BY <1>8, <1>11, <2>1, DroppedAccounted
  <2>3. OfTask(sent', t) = T /\ \A s : s # t => OfTask(sent', s) = OfTask(sent, s)
    BY <1>3, <1>5, <1>6, <1>11, <2>1 DEF OfTask
  <2>4. Unchecked(t) = Waiting(unchecked[t]) BY DEF Unchecked, Waiting
  <2>5. CASE Unchecked(t) = {} /\ posted' = posted
    <3>1. HashesComing(T, unchecked[t], posted', t) BY <2>4, <2>5 DEF HashesComing
    <3> QED BY <1>10, <1>11, <2>2, <2>3, <2>5, <3>1
  <2>6. CASE posted' = Append(posted, [op |-> "moreHashes", task |-> t])
    <3>0. PICK ps, qs : ps = posted /\ qs = posted' OBVIOUS
    <3>3. PICK e \in Post : e = [op |-> "moreHashes", task |-> t] BY PostTyped
    <3>4. ps \in Seq(Post) /\ qs = Append(ps, e) /\ e.op = "moreHashes" /\ e.task = t
      BY <1>9, <2>6, <3>0, <3>3
    <3>5. HopesNow(ps, qs, t) BY <3>4, AppendHopes
    <3>1. Hopes(posted', t) /\ \A s : Hopes(posted, s) => Hopes(posted', s)
      BY <3>0, <3>5 DEF HopesNow
    <3>2. HashesComing(T, unchecked[t], posted', t) BY <3>1 DEF HashesComing
    <3> QED BY <1>10, <1>11, <2>2, <2>3, <3>1, <3>2
  <2>7. PICK e : e = [op |-> "moreHashes", task |-> t] OBVIOUS
  <2>8. posted' = IF Unchecked(t) = {} THEN posted ELSE Append(posted, e) BY <1>5, <1>11, <2>7
  <2>9. (Unchecked(t) = {} /\ posted' = posted) \/ posted' = Append(posted, e) BY <2>8
  <2> QED BY <2>5, <2>6, <2>7, <2>9
<1>12. CASE /\ r.kind # "hashes" /\ posted' = posted
            /\ IsPlacedBelow(c, V, LastIndex, r.task, r.offset, ChooseSessionIndex(c),
                             PartKind(r.task), LastIndex)
  <2>1. PICK i : i = ChooseSessionIndex(c) OBVIOUS
  <2>2. Len(balance'.sessions) = LastIndex
        /\ \E q \in Request : IsFor(q, t, r.offset, i, PartKind(t)) /\ sent' = V \cup {q}
    BY <1>3, <1>5, <1>12, <2>1 DEF IsPlacedBelow
  <2>3. PICK q : IsFor(q, t, r.offset, i, PartKind(t)) /\ sent' = V \cup {q} BY <2>2
  <2>4. q.task = t /\ q.offset = r.offset /\ q.kind # "hashes" /\ q.refreshing = FALSE
    BY <2>3, KindsOfParts DEF IsFor
  <2>5. PICK T : T = (R \ {r}) \cup {q} OBVIOUS
  <2>6. Accounted(T, A, unchecked[t], fed[t], status[t], next[t])
    BY <1>8, <1>12, <2>4, <2>5, ReplacedAccounted
  <2>7. OfTask(sent', t) = T /\ \A s : s # t => OfTask(sent', s) = OfTask(sent, s)
    BY <1>3, <1>5, <1>6, <2>3, <2>4, <2>5 DEF OfTask
  <2>8. HashesComing(T, unchecked[t], posted, t)
    <3>1. (\E w \in R : w.kind = "hashes") => \E w \in T : w.kind = "hashes" BY <1>12, <2>5
    <3> QED BY <1>8, <3>1, HashesStay
  <2> QED BY <1>10, <1>12, <2>2, <2>6, <2>7, <2>8
<1> QED BY <1>3, <1>11, <1>12

LEMMA PopSessionParts ==
    ASSUME Ready, PartsInPlace, PopSession
    PROVE  ~failed' /\ PartsInPlace'
<1>1. /\ failed' = FALSE /\ calls' = <<>> /\ posted' = posted
      /\ Len(balance'.sessions) = LastIndex - 1 /\ sent' = {Old(r) : r \in sent}
      /\ Head(calls).op = "pop" /\ UNCHANGED taskVars
  BY PopSessionKeeps
<1>2. calls # <<>> /\ calls' = Tail(calls) BY DEF PopSession
<1>3. IsTail(calls', calls) BY <1>2, TailIs DEF Ready
<1>4. \A s : ~Pending(calls, "recheck", s)
  <2>1. \A s : ~Pending(calls', "recheck", s) BY <1>1, QuietCalls
  <2> QED BY <1>1, <1>3, <2>1 DEF IsTail
<1>5. Leaving(calls) BY <1>1, <1>2, HeadIs DEF HeadFacts, Ready
<1>6. (\A s : OfTask(Again(calls'), s) = {}) /\ TodoApart(calls') /\ ~Leaving(calls')
      /\ TodoPlaced(calls', Len(balance'.sessions))
  BY <1>1, NothingAgain
<1>7. \A s : OfTask(Again(calls), s) = {}
  <2>1. ~HasCall(calls, "resend") BY <1>5 DEF Ready, GoodCalls
  <2>2. \A d : ~InTodo(calls, d) BY <2>1 DEF InTodo, HasCall
  <2> QED BY <2>2 DEF OfTask, Again
<1>8. UNCHANGED <<status, next, fed, unchecked>> BY <1>1 DEF taskVars
<1>9. sent \subseteq Request BY DEF Ready, Types, LoadTypes, GoodSent
<1>10. ASSUME NEW s \in Task PROVE TaskParts(s)' /\ TaskHashes(s)' /\ TaskSessions(s)'
  <2>1. PICK R, T : R = OfTask(sent, s) /\ T = {Old(r) : r \in R} OBVIOUS
  <2>2. TaskParts(s) /\ TaskHashes(s) /\ TaskSessions(s) BY DEF PartsInPlace
  <2>3. OfTask(sent', s) = T
    <3>1. \A r \in sent : Old(r).task = r.task BY <1>9, OldIs
    <3> QED BY <1>1, <2>1, <3>1 DEF OfTask
  <2>4. R \subseteq Request BY <1>9, <2>1 DEF OfTask
  <2>5. Accounted(R, {}, unchecked[s], fed[s], status[s], next[s])
    BY <1>7, <2>1, <2>2 DEF TaskParts
  <2>6. Accounted(T, {}, unchecked[s], fed[s], status[s], next[s])
    BY <2>1, <2>4, <2>5, OldAccounted
  <2>7. TaskParts(s)' BY <1>6, <1>8, <2>3, <2>6 DEF TaskParts
  <2>8. TaskHashes(s)'
    <3>1. HashesComing(R, unchecked[s], posted, s) BY <2>1, <2>2 DEF TaskHashes
    <3>2. (\E w \in R : w.kind = "hashes") => \E w \in T : w.kind = "hashes"
      <4>1. \A r \in R : Old(r) \in T /\ Old(r).kind = r.kind BY <2>1, <2>4, OldIs
      <4> QED BY <4>1
    <3>3. HashesComing(T, unchecked[s], posted, s) BY <3>1, <3>2 DEF HashesComing
    <3> QED BY <1>1, <1>8, <2>3, <3>3 DEF TaskHashes
  <2>9. TaskSessions(s)'
    <3> SUFFICES ASSUME NEW o \in Offset, unchecked[s][o] # None
                 PROVE unchecked[s][o] \in 1 .. LastIndex - 1
      BY <1>1, <1>6, <1>8 DEF TaskSessions, InSessions
    <3>1. unchecked[s][o] \in 1 .. LastIndex /\ unchecked[s][o] # LastIndex
      BY <1>4, <1>5, <2>2 DEF TaskSessions, InSessions, LastIndex
    <3>2. LastIndex \in Nat BY SessionsCount DEF LastIndex
    <3> QED BY <3>1, <3>2
  <2> QED BY <2>7, <2>8, <2>9
<1> QED BY <1>1, <1>6, <1>10 DEF PartsInPlace

-----------------------------------------------------------------------------
(* The session that is removed is not chosen.                                *)

Few == Cardinality(sent) < Big

LEMMA ChosenBelow ==
    ASSUME NEW b, NEW S, NEW n \in Nat, n > 1, Len(b.sessions) = n, Agrees(b, S, n),
           Cardinality(S) < Big
    PROVE  ChooseSessionIndex(b) \in 1 .. n /\ ChooseSessionIndex(b) < n
<1>1. GoodBalance(b) /\ IsFiniteSet(S) BY DEF Agrees, GoodSent
<1>2. PICK i \in 1 .. n :
        /\ i = ChooseSessionIndex(b)
        /\ \A j \in 1 .. n : b.sessions[i].requested <= b.sessions[j].requested
  BY <1>1, ChooseIs
<1>3. i # n
  <2> SUFFICES ASSUME i = n PROVE FALSE OBVIOUS
  <2>1. Cardinality(In(S, n)) \in Nat /\ Cardinality(In(S, 1)) \in Nat /\ Cardinality(S) \in Nat
    BY <1>1, InIsFinite
  <2>2. b.sessions[n].requested = Cardinality(In(S, n)) + Owing(n, n)
        /\ b.sessions[1].requested = Cardinality(In(S, 1)) + Owing(n, 1)
    <3>1. n \in 1 .. Len(b.sessions) /\ 1 \in 1 .. Len(b.sessions) OBVIOUS
    <3> QED BY <3>1 DEF Agrees, Counted
  <2>3. Owing(n, n) = Big /\ Owing(n, 1) = 0 BY DEF Owing
  <2>4. Big \in Nat BY BigIsPositive
  <2>5. Cardinality(In(S, 1)) <= Cardinality(S)
    <3>1. In(S, 1) \in SUBSET S BY DEF In
    <3> QED BY <1>1, <3>1, FS_Subset
  <2>6. b.sessions[n].requested <= b.sessions[1].requested BY <1>2
  <2> QED BY <2>1, <2>2, <2>3, <2>4, <2>5, <2>6
<1> QED BY <1>2, <1>3

LEMMA RecheckHolds ==
    ASSUME Ready, Recheck, Few
    PROVE  ~failed'
<1>1. calls # <<>> /\ Head(calls).op = "recheck" BY DEF Recheck
<1>2. /\ LastIndex = Len(balance.sessions) /\ LastIndex \in Nat /\ LastIndex > 1
      /\ Agrees(balance, sent, LastIndex)
  BY <1>1, LeavingLoad
<1>3. ChooseSessionIndex(balance) \in 1 .. LastIndex /\ ChooseSessionIndex(balance) < LastIndex
  <2>1. PICK n \in Nat : n = LastIndex BY <1>2
  <2>2. ChooseSessionIndex(balance) \in 1 .. n /\ ChooseSessionIndex(balance) < n
    BY <1>2, <2>1, ChosenBelow DEF Few
  <2> QED BY <2>1, <2>2
<1>4. PICK i : i = ChooseSessionIndex(balance) /\ (~(i >= LastIndex) => ~failed') BY RecheckKeeps
<1> QED BY <1>2, <1>3, <1>4

LEMMA RedirectHolds ==
    ASSUME Ready, Redirect, Few, PartsInPlace
    PROVE  ~failed'
<1>1. calls # <<>> /\ Head(calls).op = "redirect" BY DEF Redirect
<1>2. LastIndex \in Nat /\ LastIndex > 1 /\ Agrees(balance, sent, LastIndex)
  BY <1>1, LeavingLoad
<1>3. PICK r \in sent : \E c, T : Redirecting(r, c, T) BY RedirectKeeps
<1>4. PICK c, T : Redirecting(r, c, T) BY <1>3
<1>5. T = sent \ {r} /\ Agrees(c, T, LastIndex) /\ Len(c.sessions) = LastIndex
  BY <1>4 DEF Redirecting
<1>6. Cardinality(T) < Big
  <2>1. IsFiniteSet(sent) BY <1>2 DEF Agrees, GoodSent
  <2>2. Cardinality(T) <= Cardinality(sent) /\ Cardinality(T) \in Nat /\ Cardinality(sent) \in Nat
    BY <1>5, <2>1, FS_Subset, FS_CardinalityType
  <2> QED BY <2>2, BigIsPositive DEF Few
<1>7. PICK n \in Nat : n = LastIndex BY <1>2
<1>8. PICK i : i = ChooseSessionIndex(c) OBVIOUS
<1>9. i \in 1 .. n /\ i < n BY <1>2, <1>5, <1>6, <1>7, <1>8, ChosenBelow
<1>10. Free(T, r.task, r.offset) BY <1>2, <1>5 DEF Free, Agrees, OnePerOffset
<1>11. CASE failed' = FALSE BY <1>11
<1>12. CASE IsPlacedBelow(c, T, LastIndex, r.task, r.offset, ChooseSessionIndex(c),
                          PartKind(r.task), LastIndex)
  BY <1>5, <1>7, <1>8, <1>9, <1>10, <1>12 DEF IsPlacedBelow
<1> QED BY <1>4, <1>11, <1>12 DEF Redirecting

-----------------------------------------------------------------------------
(* The parts, put together.                                                  *)

\* A CDN redirect, and the refusal of a CDN token, come while no hashes are
\* asked for of the file.
TokensFresh ==
    \A r \in sent : Redirected(r) \/ RefuseToken(r) => HashesRequest(sent, r.task) = {}

PartsInv == Inv /\ (~failed => PartsInPlace)

LEMMA InitParts ==
    ASSUME Init
    PROVE  PartsInv
<1>1. /\ sent = {} /\ calls = <<>>
      /\ status = [t \in Task |-> "new"] /\ next = [t \in Task |-> 0]
      /\ fed = [t \in Task |-> {}]
      /\ unchecked = [t \in Task |-> [o \in Offset |-> None]]
  BY DEF Init
<1>2. (\A t : OfTask(Again(calls), t) = {}) /\ TodoApart(calls) /\ ~Leaving(calls)
      /\ TodoPlaced(calls, Len(balance.sessions))
  BY <1>1, NothingAgain
<1>3. ASSUME NEW t \in Task PROVE TaskParts(t) /\ TaskHashes(t) /\ TaskSessions(t)
  <2>1. PICK u : u = [o \in Offset |-> None] OBVIOUS
  <2>2. unchecked[t] = u /\ \A o \in Offset : u[o] = None BY <1>1, <2>1
  <2>3. OfTask(sent, t) = {} BY <1>1 DEF OfTask
  <2>4. status[t] = "new" /\ next[t] = 0 BY <1>1
  <2>5. Accounted({}, {}, u, fed[t], "new", 0) BY <2>2 DEF Accounted, Apart, KindsFit
  <2>6. TaskParts(t) BY <1>2, <2>2, <2>3, <2>4, <2>5 DEF TaskParts
  <2>7. TaskHashes(t) BY <2>2 DEF TaskHashes, HashesComing, Waiting
  <2>8. TaskSessions(t) BY <2>2 DEF TaskSessions, InSessions
  <2> QED BY <2>6, <2>7, <2>8
<1>4. Inv BY InitInv
<1> QED BY <1>2, <1>3, <1>4 DEF PartsInv, PartsInPlace

\* What a step does that can fail an assertion only when a session is removed.
LEMMA AnswersParts ==
    ASSUME Ready, PartsInPlace, TokensFresh, NEW r \in sent, GoodAnswer(r) \/ BadAnswer(r)
    PROVE  ~failed' /\ PartsInPlace'
<1>1. CASE GoodAnswer(r)
  BY <1>1, PartLoadedParts, CdnPartGoodParts, CdnPartUncheckedParts, ReplacingParts,
     HashesDoneParts DEF GoodAnswer
<1>2. CASE Redirected(r) \/ RefuseToken(r)
  <2>1. HashesRequest(sent, r.task) = {} BY <1>2 DEF TokensFresh
  <2> QED BY <1>2, <2>1, RedirectedParts, RefuseTokenParts
<1>3. CASE CdnPartInvalid(r) \/ ReuploadNeeded(r) \/ RefuseReference(r) \/ Refuse(r)
  BY <1>3, CdnPartInvalidParts, ReplacingParts, RefuseReferenceParts, RefuseParts
<1> QED BY <1>1, <1>2, <1>3 DEF BadAnswer

LEMMA NextParts ==
    ASSUME Ready, WaitingLoading, PartsInPlace, Next, TokensFresh
    PROVE  /\ ~failed' => PartsInPlace'
           /\ Few => ~failed'
<1>1. CASE SendNextPart \/ Resend \/ ResendEnds \/ RedirectEnds \/ PopSession
  BY <1>1, SendNextPartParts, ResendParts, EndsParts, PopSessionParts
<1>2. CASE Recheck BY <1>2, RecheckParts, RecheckHolds
<1>3. CASE Redirect BY <1>3, RedirectParts, RedirectHolds
<1>4. CASE RunPosted BY <1>4, RunPostedParts
<1>5. CASE ResetGeneration \/ KillSessions BY <1>5, QuietParts
<1>6. ASSUME NEW t \in Task, Start(t) \/ Cancel(t) \/ Destroy(t) PROVE ~failed' /\ PartsInPlace'
  BY <1>6, StartParts, CancelsParts
<1>7. ASSUME NEW r \in sent, GoodAnswer(r) \/ BadAnswer(r) PROVE ~failed' /\ PartsInPlace'
  BY <1>7, AnswersParts
<1>8. ASSUME NEW i \in Index, RestartedByTimeout(i) PROVE ~failed' /\ PartsInPlace'
  BY <1>8, RestartedParts
<1> QED BY <1>1, <1>2, <1>3, <1>4, <1>5, <1>6, <1>7, <1>8 DEF Next, Continue

LEMMA UnchangedParts ==
    ASSUME UNCHANGED vars, PartsInPlace
    PROVE  PartsInPlace'
<1>1. UNCHANGED <<balance, sent, status, next, fed, unchecked, calls, posted>> BY DEF vars, taskVars
<1>2. Len(balance'.sessions) = Len(balance.sessions) BY <1>1
<1>3. UNCHANGED <<sent, taskVars, calls, posted>> BY DEF vars
<1> QED BY <1>2, <1>3, StillParts

LEMMA StepParts ==
    ASSUME PartsInv, [Next]_vars, [TokensFresh]_vars
    PROVE  PartsInv' /\ (Few /\ ~failed => ~failed')
<1>1. Inv' BY NextInv DEF PartsInv
<1>2. CASE UNCHANGED vars
  <2>1. failed' = failed BY <1>2 DEF vars
  <2>2. ~failed => PartsInPlace' BY <1>2, UnchangedParts DEF PartsInv
  <2> QED BY <1>1, <2>1, <2>2 DEF PartsInv
<1>3. CASE Next /\ TokensFresh
  <2>1. failed \in BOOLEAN BY DEF PartsInv, Inv, CoreInv, Types, RestTypes
  <2>2. ~failed BY <1>3, <2>1, FailedStops
  <2>3. Ready /\ WaitingLoading /\ PartsInPlace BY <2>2 DEF PartsInv, Ready, Inv, CoreInv
  <2>4. (~failed' => PartsInPlace') /\ (Few => ~failed') BY <1>3, <2>3, NextParts
  <2> QED BY <1>1, <2>4 DEF PartsInv
<1> QED BY <1>2, <1>3

LEMMA PartsInvHolds ==
    ASSUME PartsInv
    PROVE  PartsAccounted
<1> SUFFICES ASSUME Idle, NEW t \in Task PROVE
        /\ status[t] = "loading" => 0 .. next[t] - 1 \subseteq
              fed[t] \cup Unchecked(t) \cup {r.offset : r \in Of(t)}
        /\ Unchecked(t) # {} =>
              \/ HashesRequest(sent, t) # {}
              \/ \E k \in DOMAIN posted : posted[k] = [op |-> "moreHashes", task |-> t]
        /\ status[t] = "finished" => fed[t] = Offset
  BY DEF PartsAccounted
<1>1. Ready /\ PartsInPlace BY DEF PartsInv, Ready, Inv, CoreInv, Idle
<1>2. IdleTask(t) BY <1>1, IdleTaskIs
<1>3. /\ Accounted(OfTask(sent, t), {}, unchecked[t], fed[t], status[t], next[t])
      /\ HashesComing(OfTask(sent, t), unchecked[t], posted, t)
      /\ next[t] \in 0 .. Parts
  BY <1>2 DEF IdleTask
<1>4. Of(t) = OfTask(sent, t) /\ Unchecked(t) = Waiting(unchecked[t])
  BY DEF Of, OfTask, Unchecked, Waiting
<1>5. ASSUME status[t] = "loading", NEW o \in 0 .. next[t] - 1
      PROVE  o \in fed[t] \cup Unchecked(t) \cup {r.offset : r \in Of(t)}
  <2>1. o \in Offset /\ o < next[t] BY <1>3, <1>5, SizesAssumption DEF Offset
  <2>2. Covered(OfTask(sent, t), {}, unchecked[t], fed[t], next[t]) BY <1>3, <1>5 DEF Accounted
  <2>3. o \in fed[t] \/ unchecked[t][o] # None \/ \E w \in OfTask(sent, t) : w.offset = o
    BY <2>1, <2>2 DEF Covered
  <2> QED BY <1>4, <2>1, <2>3 DEF Unchecked
<1>6. ASSUME Unchecked(t) # {}
      PROVE  \/ HashesRequest(sent, t) # {}
             \/ \E k \in DOMAIN posted : posted[k] = [op |-> "moreHashes", task |-> t]
  <2>1. (\E r \in OfTask(sent, t) : r.kind = "hashes") \/ Hopes(posted, t)
    BY <1>3, <1>4, <1>6 DEF HashesComing
  <2>2. CASE \E r \in OfTask(sent, t) : r.kind = "hashes" BY <2>2 DEF OfTask, HashesRequest
  <2>3. CASE Hopes(posted, t)
    <3>1. PICK k \in 1 .. Len(posted) : posted[k].op = "moreHashes" /\ posted[k].task = t
      BY <2>3 DEF Hopes
    <3>2. posted \in Seq(Post) BY <1>1 DEF Ready, Types, RestTypes
    <3>3. k \in DOMAIN posted /\ posted[k] \in Post BY <3>1, <3>2
    <3>4. posted[k] \in [op: {"moreHashes"}, task: Task] BY <3>1, <3>3 DEF Post
    <3>5. posted[k] = [op |-> "moreHashes", task |-> t] BY <3>1, <3>4
    <3> QED BY <3>3, <3>5
  <2> QED BY <2>1, <2>2, <2>3
<1>7. status[t] = "finished" => fed[t] = Offset BY <1>3 DEF Accounted
<1> QED BY <1>5, <1>6, <1>7

\* AmountsAgree: whatever is answered, cancelled, resent or moved, what a session
\* counts as requested (changeRequestedAmount) is what is sent in it, and a
\* request is of a session there is and of a file in the queue, which is how
\* removeSession reaches it.
THEOREM AmountsAlwaysAgree == Spec => []AmountsAgree
  BY SpecInv, InvAmounts, PTL

LEMMA SpecPartsInv == Spec /\ [][TokensFresh]_vars => []PartsInv
<1>1. Init => PartsInv BY InitParts
<1>2. PartsInv /\ [Next]_vars /\ [TokensFresh]_vars => PartsInv' BY StepParts
<1> QED BY <1>1, <1>2, PTL DEF Spec

\* RequestsAccounted: no part is forgotten by the handlers of the file loader
\* (cdnPartLoaded, getCdnFileHashesDone, cancelRequest, removeSession and the
\* rest), as long as changeCDNParams never sends again a request for hashes.
THEOREM RequestsAlwaysAccounted == Spec /\ [][TokensFresh]_vars => []RequestsAccounted
<1>1. PartsInv => PartsAccounted BY PartsInvHolds
<1>2. PartsInv => AmountsAgree BY InvAmounts DEF PartsInv
<1>3. PartsInv => RequestsAccounted BY <1>1, <1>2 DEF RequestsAccounted
<1> QED BY <1>3, SpecPartsInv, PTL

\* AssertsHold: no Assert or Ensures of the download manager fails, a session
\* that is removed being emptied before it is popped (removeSession), when the
\* requests sent are always fewer than what removeSession adds to that session.
THEOREM AssertsAlwaysHold == Spec /\ [][TokensFresh]_vars /\ []Few => []AssertsHold
<1>1. Init => AssertsHold BY DEF Init, AssertsHold
<1>2. PartsInv /\ [Next]_vars /\ [TokensFresh]_vars /\ Few /\ AssertsHold => AssertsHold'
  BY StepParts DEF AssertsHold
<1> QED BY <1>1, <1>2, SpecPartsInv, PTL DEF Spec
=============================================================================
