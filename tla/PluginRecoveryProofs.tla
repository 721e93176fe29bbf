----------------------- MODULE PluginRecoveryProofs -----------------------
(***************************************************************************)
(* What holds of the recovery of plugins, for every set of plugins and     *)
(* however deep their code calls the manager back.                         *)
(*                                                                         *)
(* The inductive invariant says what may stand on what on the stack of the *)
(* main thread: whatever runs within code of a plugin is a callback and    *)
(* what ends it, so that the slot of an operation is set by the code on    *)
(* top and is cleared when code below goes on; and each step that is still *)
(* to be saved, or still has to clear the slot, stands on the stack.  The  *)
(* program may die at any step, so the same is said of the files.          *)
(*                                                                         *)
(* The lemmas Puts and Seen say what it takes to put entries on a stack    *)
(* and to take one off.  There is one lemma for each action, or for each   *)
(* of its cases: the entries that it puts on the stack are named a, b,     *)
(* ..., the first first; R of the lemmas Puts is what they are put on.     *)
(***************************************************************************)
EXTENDS PluginRecovery, SequenceTheorems, TLAPS

Kinds == CodeKinds \cup StepKinds
Entry == [do : Kinds, of : SUBSET Plugins, calledBack : BOOLEAN]

-----------------------------------------------------------------------------
(* The stack. *)

\* What stands on it, in any order.
Rng(s) == {s[i] : i \in DOMAIN s}
Entries == Rng(work)

\* What may run within code of a plugin, and stand on everything.
Inner == {"callback", "finish", "unload", "disable", "saveRecovery"}
\* What only those stand on.
Core == CodeKinds \cup {"disable", "delete"}
\* What is done with nothing listed, and what comes after it.
Bare == {"read", "recover", "safe", "reloadScan", "rescan", "copy", "place", "installed", "restore"}
After == {"scan", "inspect", "rescan", "delete", "check", "installed", "place", "copy", "reload",
          "reloadScan", "again"}
\* One package is installed or deleted at a time.
Packaging == {"inspect", "copy", "place", "installed", "check", "restore", "keep", "delete"}

\* What may stand somewhere below an entry.
Under(what) ==
    Kinds \ ({"allow", "forget"}
             \cup (IF what = "read" THEN {"read"} ELSE {"recover"})
             \cup (IF what \in Inner THEN {} ELSE Core \cup {"unloadAll"})
             \cup (IF what \in {"load", "onload"} THEN Bare ELSE {})
             \cup (IF what \in After THEN Bare \cup {"scan"} ELSE {})
             \cup (IF what \in Packaging THEN Packaging ELSE {})
             \cup (IF what \in {"ready", "exit"} THEN Kinds ELSE {}))

\* What led to x below may lead to a above it, and x may be right below a.
Above(a, x) ==
    /\ x.do \in Under(a.do)
    /\ a.do = "load" /\ x.do = "scan" => a.of \cap x.of = {}
NextTo(a, x) ==
    /\ a.do \in {"disable", "forget"} => x.do = "saveRecovery"
    /\ a.do = "allow" => x.do = "saveConfig"
    /\ x.do \in CodeKinds => x.calledBack /\ a.do = "finish"
    /\ x.do \in {"disable", "delete"} => a.do = "unload" /\ a.of = x.of

\* An entry may be put on the stack s.
FitsOn(a, s) ==
    /\ \A x \in Rng(s) : Above(a, x)
    /\ s # <<>> => NextTo(a, Head(s))
    /\ s = <<>> => a.do \notin {"disable", "forget", "allow"}

Rest(s, i) == SubSeq(s, i + 1, Len(s))
WellFormed(s) == \A i \in DOMAIN s : FitsOn(s[i], Rest(s, i))

-----------------------------------------------------------------------------
(* The state. *)

Ids(op) == IF op.active THEN op.ids ELSE {}
Early == \E x \in Entries : x.do = "recover"
EarlyRead == Early /\ At("read")

StartInv == \A x \in Entries : x.do \in {"ready", "recover"} => ~started

\* The slot in memory is the one on the disk, and names the code that runs.
Closers == {"finish", "load", "copy", "place", "installed", "check", "delete", "recover"}
SlotInv ==
    /\ EarlyRead => pending = NoOperation
    /\ ~EarlyRead => recovery.pending = pending
    /\ InCode => (pending.active => pending.ids \subseteq Top.of)
                 /\ (Guarded => pending.active /\ Top.of \subseteq pending.ids)
    /\ pending.active => \E x \in Entries : x.do \in Closers /\ (started => x.of = pending.ids)

\* Who is listed and loaded.
ListInv ==
    /\ (\E x \in Entries : x.do \in Bare) => known = {} \/ \E y \in Entries : y.do = "unloadAll"
    /\ \A x \in Entries :
        /\ x.do \in {"scan", "load"} => x.of \cap known = {}
        /\ x.do = "load" => x.of \cap disabled = {}
        /\ x.do \in {"callback", "onload", "disable"} => x.of \subseteq known
    /\ At("disable") \/ At("delete") \/ At("forget") => Top.of \cap loaded = {}
    /\ loaded \cap disabled = {}

\* Who is disabled, in memory and on the disk.
DisabledInv ==
    /\ ~Early => recovered \subseteq disabled \cap config
    /\ ~Early => blamed \subseteq disabled \cap config
    /\ Early => blamed \subseteq config \cup Ids(recovery.pending)
    /\ Early /\ At("recover") => recovered = recovery.disabled /\ disabled = config
    /\ ~Early /\ ~At("saveRecovery") => recovery.disabled \subseteq disabled \cap config
    /\ Early \/ At("saveRecovery") => recovery.disabled \subseteq config \cup Ids(recovery.pending)
    /\ \A x \in Entries : x.do \in CodeKinds \ {"inspect"} => x.of \cap blamed = {}
    /\ \A x \in Entries : x.do \in {"delete", "forget"} =>
        \/ x.of \cap (recovered \cup recovery.disabled) = {}
        \/ Top = x /\ x.of \subseteq Ids(pending)

\* What is still to be saved.
SaveInv ==
    /\ config = disabled \/ \E x \in Entries : x.do \in {"saveConfig", "forgive", "read"}
    /\ \/ recovery.disabled = recovered
       \/ pending.active
       \/ EarlyRead
       \/ \E x \in Entries : x.do = "saveRecovery"

\* The packages, while no crash has left one aside.
PackageInv == ~crashed =>
    /\ owned \subseteq files \cup kept
    /\ \/ kept = {}
       \/ \E x \in Entries : x.do \in {"place", "installed", "check", "restore", "keep"}
                             /\ kept \subseteq x.of
    /\ \A x \in Entries :
        /\ x.do \in {"place", "installed", "check", "restore"} => x.of \cap owned \subseteq kept
        /\ x.do \in {"installed", "check", "keep"} => x.of \subseteq files

\* The sets of kinds are always known.
USE DEF Inner, Core, Bare, After, Packaging, Closers, Kinds, CodeKinds, StepKinds

IInv ==
    /\ TypeOK /\ WellFormed(work)
    /\ StartInv /\ SlotInv /\ ListInv /\ DisabledInv /\ SaveInv /\ PackageInv

-----------------------------------------------------------------------------
(* Pushing and popping. *)

\* One entry, as a step of the manager writes it.
E(what, ids) == [do |-> what, of |-> ids, calledBack |-> FALSE]

\* What an entry is made of.
LEMMA EntryType ==
    ASSUME NEW x \in Entry
    PROVE  x.do \in Kinds /\ x.of \subseteq Plugins /\ x.calledBack \in BOOLEAN
BY DEF Entry

\* A stack with a on it.
On(a, s) == <<a>> \o s

LEMMA OnFacts ==
    ASSUME NEW a \in Entry, NEW s \in Seq(Entry)
    PROVE  /\ On(a, s) \in Seq(Entry) /\ On(a, s) # <<>>
           /\ Len(On(a, s)) = Len(s) + 1 /\ DOMAIN On(a, s) = 1 .. (Len(s) + 1)
           /\ On(a, s)[1] = a /\ \A i \in 1 .. Len(s) : On(a, s)[i + 1] = s[i]
           /\ Head(On(a, s)) = a /\ Tail(On(a, s)) = s
           /\ Rng(On(a, s)) = {a} \cup Rng(s)
<1>1. <<a>> \in Seq(Entry) /\ Len(<<a>>) = 1 /\ Len(s) \in Nat
  OBVIOUS
<1>2. /\ On(a, s) \in Seq(Entry)
      /\ Len(On(a, s)) = Len(s) + 1
      /\ \A i \in 1 .. 1 + Len(s) : On(a, s)[i] = IF i <= 1 THEN <<a>>[i] ELSE s[i - 1]
  BY <1>1, ConcatProperties DEF On
<1>3. DOMAIN On(a, s) = 1 .. (Len(s) + 1) /\ On(a, s) # <<>>
  BY <1>1, <1>2
<1>4. On(a, s)[1] = a /\ \A i \in 1 .. Len(s) : On(a, s)[i + 1] = s[i]
  BY <1>1, <1>2
<1>5. Head(On(a, s)) = a
  BY <1>2, <1>3, <1>4
<1>6. Tail(On(a, s)) = s
  <2>1. /\ Tail(On(a, s)) \in Seq(Entry)
        /\ Len(Tail(On(a, s))) = Len(On(a, s)) - 1
        /\ \A i \in 1 .. Len(Tail(On(a, s))) : Tail(On(a, s))[i] = On(a, s)[i + 1]
    BY <1>2, <1>3, HeadTailProperties
  <2>2. Len(Tail(On(a, s))) = Len(s)
    BY <1>1, <1>2, <2>1
  <2>3. \A i \in 1 .. Len(s) : Tail(On(a, s))[i] = s[i]
    BY <1>4, <2>1, <2>2
  <2> QED
    BY <2>1, <2>2, <2>3, SeqEqual
<1>7. Rng(On(a, s)) = {a} \cup Rng(s)
  <2>1. DOMAIN s = 1 .. Len(s)
    OBVIOUS
  <2>2. ASSUME NEW x \in Rng(On(a, s)) PROVE x \in {a} \cup Rng(s)
    <3>1. PICK i \in 1 .. (Len(s) + 1) : x = On(a, s)[i]
      BY <1>3 DEF Rng
    <3>2. CASE i = 1
      BY <1>4, <3>1, <3>2
    <3>3. CASE i # 1
      <4>1. i - 1 \in 1 .. Len(s) /\ i = (i - 1) + 1
        BY <1>1, <3>3
      <4>2. x = s[i - 1]
        BY <1>4, <3>1, <4>1
      <4> QED
        BY <2>1, <4>1, <4>2 DEF Rng
    <3> QED
      BY <3>2, <3>3
  <2>3. ASSUME NEW x \in Rng(s) PROVE x \in Rng(On(a, s))
    <3>1. PICK i \in 1 .. Len(s) : x = s[i]
      BY <2>1 DEF Rng
    <3>2. i + 1 \in DOMAIN On(a, s) /\ On(a, s)[i + 1] = x
      BY <1>1, <1>3, <1>4, <3>1
    <3> QED
      BY <3>2 DEF Rng
  <2>4. a \in Rng(On(a, s))
    BY <1>1, <1>3, <1>4 DEF Rng
  <2> QED
    BY <2>2, <2>3, <2>4
<1> QED
  BY <1>2, <1>3, <1>4, <1>5, <1>6, <1>7

\* Every stack is its top on the rest.
LEMMA TopAndRest ==
    ASSUME NEW s \in Seq(Entry), s # <<>>
    PROVE  /\ Head(s) \in Entry /\ Tail(s) \in Seq(Entry) /\ s = On(Head(s), Tail(s))
           /\ Rng(s) = {Head(s)} \cup Rng(Tail(s)) /\ Head(s) = s[1]
<1>1. /\ Head(s) \in Entry /\ Tail(s) \in Seq(Entry) /\ Len(Tail(s)) = Len(s) - 1
      /\ \A i \in 1 .. Len(Tail(s)) : Tail(s)[i] = s[i + 1]
  BY HeadTailProperties
<1>2. Len(s) \in Nat \ {0} /\ Head(s) = s[1]
  BY EmptySeq
<1>3. s = On(Head(s), Tail(s))
  <2>1. Len(On(Head(s), Tail(s))) = Len(s) /\ On(Head(s), Tail(s)) \in Seq(Entry)
    <3>1. /\ On(Head(s), Tail(s)) \in Seq(Entry)
          /\ Len(On(Head(s), Tail(s))) = Len(Tail(s)) + 1
      BY <1>1, OnFacts
    <3> QED
      BY <1>1, <1>2, <3>1
  <2>2. ASSUME NEW i \in 1 .. Len(s) PROVE s[i] = On(Head(s), Tail(s))[i]
    <3>1. CASE i = 1
      BY <1>1, <1>2, <3>1, OnFacts
    <3>2. CASE i # 1
      <4>1. i - 1 \in 1 .. Len(Tail(s)) /\ (i - 1) + 1 = i
        BY <1>1, <1>2, <3>2
      <4>2. Tail(s)[i - 1] = s[i]
        BY <1>1, <4>1
      <4>3. On(Head(s), Tail(s))[(i - 1) + 1] = Tail(s)[i - 1]
        BY <1>1, <4>1, OnFacts
      <4> QED
        BY <4>1, <4>2, <4>3
    <3> QED
      BY <3>1, <3>2
  <2> QED
    BY <2>1, <2>2, SeqEqual
<1>4. Rng(On(Head(s), Tail(s))) = {Head(s)} \cup Rng(Tail(s))
  BY <1>1, OnFacts
<1> QED
  BY <1>1, <1>2, <1>3, <1>4

\* What is below an entry does not change with what is put on it.
LEMMA RestOfOn ==
    ASSUME NEW a \in Entry, NEW s \in Seq(Entry)
    PROVE  /\ Rest(On(a, s), 1) = s
           /\ \A i \in 1 .. Len(s) : Rest(On(a, s), i + 1) = Rest(s, i)
<1> DEFINE w == On(a, s)
<1>0. Len(s) \in Nat
  OBVIOUS
<1>1. /\ w \in Seq(Entry) /\ Len(w) = Len(s) + 1 /\ Len(s) \in Nat
      /\ w[1] = a /\ \A i \in 1 .. Len(s) : w[i + 1] = s[i]
  BY <1>0, OnFacts
<1>2. \A i \in 1 .. Len(w) : w[i] \in Entry
  BY <1>1, ElementOfSeq
<1>3. \A i \in 1 .. Len(s) : s[i] \in Entry
  BY ElementOfSeq
<1> HIDE DEF w
<1>4. Rest(w, 1) = s
  <2>1. \A j \in 2 .. Len(w) : w[j] \in Entry
    BY <1>1, <1>2
  <2>2. 2 \in Int /\ Len(w) \in Int /\ 1 + 1 = 2
    BY <1>1
  <2>3. /\ SubSeq(w, 2, Len(w)) \in Seq(Entry)
        /\ Len(SubSeq(w, 2, Len(w))) = IF 2 <= Len(w) THEN Len(w) - 2 + 1 ELSE 0
        /\ \A j \in 1 .. Len(w) - 2 + 1 : SubSeq(w, 2, Len(w))[j] = w[2 + j - 1]
    BY <2>1, <2>2, SubSeqProperties
  <2>4. Len(SubSeq(w, 2, Len(w))) = Len(s)
    BY <1>1, <2>3
  <2>5. \A j \in 1 .. Len(s) : SubSeq(w, 2, Len(w))[j] = s[j]
    BY <1>1, <2>3
  <2>6. SubSeq(w, 2, Len(w)) = s
    BY <2>3, <2>4, <2>5, SeqEqual
  <2> QED
    BY <2>2, <2>6 DEF Rest
<1>5. ASSUME NEW i \in 1 .. Len(s) PROVE Rest(w, i + 1) = Rest(s, i)
  <2> DEFINE v == SubSeq(w, i + 1 + 1, Len(w))
             u == SubSeq(s, i + 1, Len(s))
  <2>1. \A j \in i + 1 + 1 .. Len(w) : w[j] \in Entry
    BY <1>1, <1>2
  <2>2. \A j \in i + 1 .. Len(s) : s[j] \in Entry
    BY <1>1, <1>3
  <2>3. i + 1 + 1 \in Int /\ i + 1 \in Int /\ Len(w) \in Int /\ Len(s) \in Int
    BY <1>1
  <2>4. /\ v \in Seq(Entry)
        /\ Len(v) = IF i + 1 + 1 <= Len(w) THEN Len(w) - (i + 1 + 1) + 1 ELSE 0
        /\ \A j \in 1 .. Len(w) - (i + 1 + 1) + 1 : v[j] = w[i + 1 + 1 + j - 1]
    BY <2>1, <2>3, SubSeqProperties
  <2>5. /\ u \in Seq(Entry)
        /\ Len(u) = IF i + 1 <= Len(s) THEN Len(s) - (i + 1) + 1 ELSE 0
        /\ \A j \in 1 .. Len(s) - (i + 1) + 1 : u[j] = s[i + 1 + j - 1]
    BY <2>2, <2>3, SubSeqProperties
  <2> HIDE DEF v, u
  <2>6. Len(v) = Len(u)
    BY <1>1, <2>4, <2>5
  <2>7. ASSUME NEW j \in 1 .. Len(v) PROVE v[j] = u[j]
    <3>1. j \in Nat /\ j >= 1 /\ j <= Len(w) - (i + 1 + 1) + 1 /\ j <= Len(s) - (i + 1) + 1
      BY <1>1, <2>4
    <3>2. v[j] = w[i + 1 + 1 + j - 1] /\ u[j] = s[i + 1 + j - 1]
      BY <1>1, <2>4, <2>5, <3>1
    <3>3. i + j \in 1 .. Len(s) /\ i + 1 + 1 + j - 1 = (i + j) + 1 /\ i + 1 + j - 1 = i + j
      BY <1>1, <3>1
    <3> QED
      BY <1>1, <3>2, <3>3
  <2>8. v = u
    BY <2>4, <2>5, <2>6, <2>7, SeqEqual
  <2> QED
    BY <2>8 DEF Rest, v, u
<1> QED
  BY <1>4, <1>5 DEF w

\* An entry that fits may be put on a stack,
LEMMA PushKeeps ==
    ASSUME NEW a \in Entry, NEW s \in Seq(Entry), WellFormed(s), FitsOn(a, s)
    PROVE  WellFormed(On(a, s))
<1> SUFFICES ASSUME NEW i \in 1 .. (Len(s) + 1)
             PROVE  FitsOn(On(a, s)[i], Rest(On(a, s), i))
  BY OnFacts DEF WellFormed
<1>0. Len(s) \in Nat /\ DOMAIN s = 1 .. Len(s)
  OBVIOUS
<1>1. CASE i = 1
  BY <1>1, OnFacts, RestOfOn
<1>2. CASE i # 1
  <2>1. i - 1 \in 1 .. Len(s) /\ (i - 1) + 1 = i
    BY <1>0, <1>2
  <2>2. FitsOn(s[i - 1], Rest(s, i - 1))
    BY <1>0, <2>1 DEF WellFormed
  <2>3. On(a, s)[(i - 1) + 1] = s[i - 1] /\ Rest(On(a, s), (i - 1) + 1) = Rest(s, i - 1)
    <3>1. \A j \in 1 .. Len(s) : On(a, s)[j + 1] = s[j]
      BY OnFacts
    <3>2. \A j \in 1 .. Len(s) : Rest(On(a, s), j + 1) = Rest(s, j)
      BY RestOfOn
    <3> QED
      BY <2>1, <3>1, <3>2
  <2> QED
    BY <2>1, <2>2, <2>3
<1> QED
  BY <1>1, <1>2

\* and the one on top of a stack fits.
LEMMA PopKeeps ==
    ASSUME NEW s \in Seq(Entry), s # <<>>, WellFormed(s)
    PROVE  WellFormed(Tail(s)) /\ FitsOn(Head(s), Tail(s))
<1> DEFINE a == Head(s)
           t == Tail(s)
<1>1. a \in Entry /\ t \in Seq(Entry) /\ s = On(a, t)
  BY TopAndRest
<1> HIDE DEF a, t
<1>2. Len(t) \in Nat /\ DOMAIN t = 1 .. Len(t) /\ DOMAIN s = 1 .. (Len(t) + 1)
  BY <1>1, OnFacts
<1>3. FitsOn(a, t)
  <2>1. 1 \in DOMAIN s
    BY <1>2
  <2> QED
    BY <1>1, <2>1, OnFacts, RestOfOn DEF WellFormed
<1>4. ASSUME NEW i \in 1 .. Len(t) PROVE FitsOn(t[i], Rest(t, i))
  <2>1. i + 1 \in DOMAIN s
    BY <1>2
  <2>2. s[i + 1] = t[i] /\ Rest(s, i + 1) = Rest(t, i)
    <3>1. \A j \in 1 .. Len(t) : On(a, t)[j + 1] = t[j]
      BY <1>1, OnFacts
    <3>2. \A j \in 1 .. Len(t) : Rest(On(a, t), j + 1) = Rest(t, j)
      BY <1>1, RestOfOn
    <3> QED
      BY <1>1, <3>1, <3>2
  <2> QED
    BY <2>1, <2>2 DEF WellFormed
<1> QED
  BY <1>2, <1>3, <1>4 DEF WellFormed, a, t

\* What is put in one go is put one after the other.
LEMMA Regroup ==
    ASSUME NEW u \in Seq(Entry), NEW x \in Entry, NEW s \in Seq(Entry)
    PROVE  u \o <<x>> \in Seq(Entry) /\ (u \o <<x>>) \o s = u \o On(x, s)
<1>1. <<x>> \in Seq(Entry)
  OBVIOUS
<1> QED
  BY <1>1, ConcatAssociative DEF On

-----------------------------------------------------------------------------
(* What a step finds on the stack. *)

Below == Rng(Tail(work))

\* A stack of the program, of the entries R.
Good(s, R) == s \in Seq(Entry) /\ WellFormed(s) /\ Rng(s) = R

\* The top of the stack and what is below.
LEMMA Seen ==
    ASSUME IInv, work # <<>>
    PROVE  /\ Top \in Entry /\ Entries = {Top} \cup Below /\ Top \in Entries
           /\ Good(Tail(work), Below) /\ FitsOn(Top, Tail(work)) /\ Good(work, Entries)
           /\ \A x \in Below : x \in Entry /\ Above(Top, x)
<1>1. work \in Seq(Entry) /\ WellFormed(work)
  BY DEF IInv, TypeOK, Entry
<1>2. Top \in Entry /\ Tail(work) \in Seq(Entry) /\ Entries = {Top} \cup Below
  BY <1>1, TopAndRest DEF Top, Entries, Below
<1>3. WellFormed(Tail(work)) /\ FitsOn(Top, Tail(work))
  BY <1>1, PopKeeps DEF Top
<1>4. \A x \in Below : x \in Entry
  BY <1>2, ElementOfSeq DEF Below, Rng
<1>5. \A x \in Below : Above(Top, x)
  BY <1>3 DEF FitsOn, Below
<1> QED
  BY <1>1, <1>2, <1>3, <1>4, <1>5 DEF Good, Entries, Below

\* A stack of nothing.
LEMMA Empty == Good(<<>>, {}) /\ (work = <<>> => Entries = {})
BY DEF Good, WellFormed, Rng, Entries

\* A step that ends what is on top.
LEMMA Popped ==
    ASSUME IInv, work # <<>>, work' = Tail(work)
    PROVE  /\ work' \in Seq(Entry) /\ WellFormed(work)' /\ Entries' = Below
           /\ work' # <<>> => Top' \in Below /\ NextTo(Top, Top')
           /\ work' = <<>> => Below = {} /\ Top.do \notin {"disable", "forget", "allow"}
<1>1. Tail(work) \in Seq(Entry) /\ WellFormed(Tail(work)) /\ FitsOn(Top, Tail(work))
  BY Seen DEF Good
<1>2. Tail(work) # <<>> => Head(Tail(work)) \in Below
  BY <1>1, TopAndRest DEF Below
<1>3. Tail(work) = <<>> => Below = {}
  BY DEF Below, Rng
<1> QED
  BY <1>1, <1>2, <1>3 DEF FitsOn, Entries, Below, Top

\* The entry a may be put on a stack of the entries R, of which b is the first.
Sits(a, b, R) == NextTo(a, b) /\ \A x \in R : Above(a, x)

\* One more entry is put on a stack that is not empty.
LEMMA PutMore ==
    ASSUME NEW s, NEW R, Good(s, R), NEW a \in Entry, NEW b, s # <<>>, Head(s) = b, Sits(a, b, R)
    PROVE  Good(On(a, s), {a} \cup R) /\ On(a, s) # <<>> /\ Head(On(a, s)) = a
<1>1. s \in Seq(Entry) /\ WellFormed(s) /\ Rng(s) = R
  BY DEF Good
<1>2. FitsOn(a, s)
  BY <1>1 DEF FitsOn, Sits
<1> QED
  BY <1>1, <1>2, PushKeeps, OnFacts DEF Good

\* A step that puts one to five entries on a stack.
LEMMA Puts1 ==
    ASSUME NEW s, NEW R, Good(s, R), NEW a \in Entry, work' = <<a>> \o s, FitsOn(a, s)
    PROVE  /\ work' \in Seq(Entry) /\ WellFormed(work)' /\ Entries' = {a} \cup R
           /\ Top' = a /\ work' # <<>>
<1>1. work' = On(a, s) /\ s \in Seq(Entry) /\ WellFormed(s) /\ Rng(s) = R
  BY DEF On, Good
<1>2. WellFormed(On(a, s))
  BY <1>1, PushKeeps
<1>3. On(a, s) \in Seq(Entry) /\ On(a, s) # <<>> /\ Head(On(a, s)) = a /\ Rng(On(a, s)) = {a} \cup R
  BY <1>1, OnFacts
<1> QED
  BY <1>1, <1>2, <1>3 DEF Entries, Top

LEMMA Puts2 ==
    ASSUME NEW s, NEW R, Good(s, R),
           NEW a \in Entry, NEW b \in Entry,
           work' = (<<a>> \o <<b>>) \o s,
           FitsOn(b, s), Sits(a, b, {b} \cup R)
    PROVE  /\ work' \in Seq(Entry) /\ WellFormed(work)' /\ Entries' = {a, b} \cup R
           /\ Top' = a /\ work' # <<>>
<1> DEFINE t2 == On(b, s)
           t1 == On(a, t2)
           u1 == <<a>>
           u2 == u1 \o <<b>>
<1>1. s \in Seq(Entry) /\ WellFormed(s) /\ Rng(s) = R
  BY DEF Good
<1>2. work' = t1
  <2>1. work' = u2 \o s /\ u1 \in Seq(Entry) /\ u1 \o t2 = t1
    BY DEF On
  <2>2. t2 \in Seq(Entry)
    BY <1>1, OnFacts
  <2> HIDE DEF u1
  <2>3. u2 \in Seq(Entry) /\ u2 \o s = u1 \o t2
    <3> HIDE DEF u1
    <3> QED
      BY <1>1, <2>1, <2>2, Regroup
  <2> QED
    BY <2>1, <2>3
<1>3. Good(t2, {b} \cup R) /\ t2 # <<>> /\ Head(t2) = b
  BY <1>1, PushKeeps, OnFacts DEF Good
<1> HIDE DEF t1, t2
<1>4. Good(t1, {a, b} \cup R) /\ t1 # <<>> /\ Head(t1) = a
  <2>1. {a} \cup ({b} \cup R) = {a, b} \cup R
    OBVIOUS
  <2> QED
    BY <1>3, <2>1, PutMore DEF t1
<1> QED
  BY <1>2, <1>4 DEF Good, Entries, Top

LEMMA Puts3 ==
    ASSUME NEW s, NEW R, Good(s, R),
           NEW a \in Entry, NEW b \in Entry, NEW c \in Entry,
           work' = (<<a>> \o <<b>> \o <<c>>) \o s,
           FitsOn(c, s), Sits(a, b, {b, c} \cup R), Sits(b, c, {c} \cup R)
    PROVE  /\ work' \in Seq(Entry) /\ WellFormed(work)' /\ Entries' = {a, b, c} \cup R
           /\ Top' = a /\ work' # <<>>
<1> DEFINE t3 == On(c, s)
           t2 == On(b, t3)
           t1 == On(a, t2)
           u1 == <<a>>
           u2 == u1 \o <<b>>
           u3 == u2 \o <<c>>
<1>1. s \in Seq(Entry) /\ WellFormed(s) /\ Rng(s) = R
  BY DEF Good
<1>2. work' = t1
  <2>1. work' = u3 \o s /\ u1 \in Seq(Entry) /\ u1 \o t2 = t1
    BY DEF On
  <2>2. t2 \in Seq(Entry) /\ t3 \in Seq(Entry)
    BY <1>1, OnFacts
  <2> HIDE DEF u1
  <2>3. u2 \in Seq(Entry) /\ u2 \o t3 = u1 \o t2
    <3> HIDE DEF u1, t3
    <3> QED
      BY <1>1, <2>1, <2>2, Regroup
  <2>4. u3 \in Seq(Entry) /\ u3 \o s = u2 \o t3
    <3> HIDE DEF u2
    <3> QED
      BY <1>1, <2>1, <2>2, <2>3, Regroup
  <2> QED
    BY <2>1, <2>3, <2>4
<1>3. Good(t3, {c} \cup R) /\ t3 # <<>> /\ Head(t3) = c
  BY <1>1, PushKeeps, OnFacts DEF Good
<1> HIDE DEF t1, t2, t3
<1>4. Good(t2, {b, c} \cup R) /\ t2 # <<>> /\ Head(t2) = b
  <2>1. {b} \cup ({c} \cup R) = {b, c} \cup R
    OBVIOUS
  <2> QED
    BY <1>3, <2>1, PutMore DEF t2
<1>5. Good(t1, {a, b, c} \cup R) /\ t1 # <<>> /\ Head(t1) = a
  <2>1. {a} \cup ({b, c} \cup R) = {a, b, c} \cup R
    OBVIOUS
  <2> QED
    BY <1>4, <2>1, PutMore DEF t1
<1> QED
  BY <1>2, <1>5 DEF Good, Entries, Top

LEMMA Puts4 ==
    ASSUME NEW s, NEW R, Good(s, R),
           NEW a \in Entry, NEW b \in Entry, NEW c \in Entry, NEW d \in Entry,
           work' = (<<a>> \o <<b>> \o <<c>> \o <<d>>) \o s,
           FitsOn(d, s), Sits(a, b, {b, c, d} \cup R), Sits(b, c, {c, d} \cup R),
           Sits(c, d, {d} \cup R)
    PROVE  /\ work' \in Seq(Entry) /\ WellFormed(work)' /\ Entries' = {a, b, c, d} \cup R
           /\ Top' = a /\ work' # <<>>
<1> DEFINE t4 == On(d, s)
           t3 == On(c, t4)
           t2 == On(b, t3)
           t1 == On(a, t2)
           u1 == <<a>>
           u2 == u1 \o <<b>>
           u3 == u2 \o <<c>>
           u4 == u3 \o <<d>>
<1>1. s \in Seq(Entry) /\ WellFormed(s) /\ Rng(s) = R
  BY DEF Good
<1>2. work' = t1
  <2>1. work' = u4 \o s /\ u1 \in Seq(Entry) /\ u1 \o t2 = t1
    BY DEF On
  <2>2. t2 \in Seq(Entry) /\ t3 \in Seq(Entry) /\ t4 \in Seq(Entry)
    BY <1>1, OnFacts
  <2> HIDE DEF u1
  <2>3. u2 \in Seq(Entry) /\ u2 \o t3 = u1 \o t2
    <3> HIDE DEF u1, t3
    <3> QED
      BY <1>1, <2>1, <2>2, Regroup
  <2>4. u3 \in Seq(Entry) /\ u3 \o t4 = u2 \o t3
    <3> HIDE DEF u2, t4
    <3> QED
      BY <1>1, <2>1, <2>2, <2>3, Regroup
  <2>5. u4 \in Seq(Entry) /\ u4 \o s = u3 \o t4
    <3> HIDE DEF u3
    <3> QED
      BY <1>1, <2>1, <2>2, <2>4, Regroup
  <2> QED
    BY <2>1, <2>3, <2>4, <2>5
<1>3. Good(t4, {d} \cup R) /\ t4 # <<>> /\ Head(t4) = d
  BY <1>1, PushKeeps, OnFacts DEF Good
<1> HIDE DEF t1, t2, t3, t4
<1>4. Good(t3, {c, d} \cup R) /\ t3 # <<>> /\ Head(t3) = c
  <2>1. {c} \cup ({d} \cup R) = {c, d} \cup R
    OBVIOUS
  <2> QED
    BY <1>3, <2>1, PutMore DEF t3
<1>5. Good(t2, {b, c, d} \cup R) /\ t2 # <<>> /\ Head(t2) = b
  <2>1. {b} \cup ({c, d} \cup R) = {b, c, d} \cup R
    OBVIOUS
  <2> QED
    BY <1>4, <2>1, PutMore DEF t2
<1>6. Good(t1, {a, b, c, d} \cup R) /\ t1 # <<>> /\ Head(t1) = a
  <2>1. {a} \cup ({b, c, d} \cup R) = {a, b, c, d} \cup R
    OBVIOUS
  <2> QED
    BY <1>5, <2>1, PutMore DEF t1
<1> QED
  BY <1>2, <1>6 DEF Good, Entries, Top

LEMMA Puts5 ==
    ASSUME NEW s, NEW R, Good(s, R),
           NEW a \in Entry, NEW b \in Entry, NEW c \in Entry, NEW d \in Entry, NEW e \in Entry,
           work' = (<<a>> \o <<b>> \o <<c>> \o <<d>> \o <<e>>) \o s,
           FitsOn(e, s), Sits(a, b, {b, c, d, e} \cup R), Sits(b, c, {c, d, e} \cup R),
           Sits(c, d, {d, e} \cup R), Sits(d, e, {e} \cup R)
    PROVE  /\ work' \in Seq(Entry) /\ WellFormed(work)' /\ Entries' = {a, b, c, d, e} \cup R
           /\ Top' = a /\ work' # <<>>
<1> DEFINE t5 == On(e, s)
           t4 == On(d, t5)
           t3 == On(c, t4)
           t2 == On(b, t3)
           t1 == On(a, t2)
           u1 == <<a>>
           u2 == u1 \o <<b>>
           u3 == u2 \o <<c>>
           u4 == u3 \o <<d>>
           u5 == u4 \o <<e>>
<1>1. s \in Seq(Entry) /\ WellFormed(s) /\ Rng(s) = R
  BY DEF Good
<1>2. work' = t1
  <2>1. work' = u5 \o s /\ u1 \in Seq(Entry) /\ u1 \o t2 = t1
    BY DEF On
  <2>2. t2 \in Seq(Entry) /\ t3 \in Seq(Entry) /\ t4 \in Seq(Entry) /\ t5 \in Seq(Entry)
    BY <1>1, OnFacts
  <2> HIDE DEF u1
  <2>3. u2 \in Seq(Entry) /\ u2 \o t3 = u1 \o t2
    <3> HIDE DEF u1, t3
    <3> QED
      BY <1>1, <2>1, <2>2, Regroup
  <2>4. u3 \in Seq(Entry) /\ u3 \o t4 = u2 \o t3
    <3> HIDE DEF u2, t4
    <3> QED
      BY <1>1, <2>1, <2>2, <2>3, Regroup
  <2>5. u4 \in Seq(Entry) /\ u4 \o t5 = u3 \o t4
    <3> HIDE DEF u3, t5
    <3> QED
      BY <1>1, <2>1, <2>2, <2>4, Regroup
  <2>6. u5 \in Seq(Entry) /\ u5 \o s = u4 \o t5
    <3> HIDE DEF u4
    <3> QED
      BY <1>1, <2>1, <2>2, <2>5, Regroup
  <2> QED
    BY <2>1, <2>3, <2>4, <2>5, <2>6
<1>3. Good(t5, {e} \cup R) /\ t5 # <<>> /\ Head(t5) = e
  BY <1>1, PushKeeps, OnFacts DEF Good
<1> HIDE DEF t1, t2, t3, t4, t5
<1>4. Good(t4, {d, e} \cup R) /\ t4 # <<>> /\ Head(t4) = d
  <2>1. {d} \cup ({e} \cup R) = {d, e} \cup R
    OBVIOUS
  <2> QED
    BY <1>3, <2>1, PutMore DEF t4
<1>5. Good(t3, {c, d, e} \cup R) /\ t3 # <<>> /\ Head(t3) = c
  <2>1. {c} \cup ({d, e} \cup R) = {c, d, e} \cup R
    OBVIOUS
  <2> QED
    BY <1>4, <2>1, PutMore DEF t3
<1>6. Good(t2, {b, c, d, e} \cup R) /\ t2 # <<>> /\ Head(t2) = b
  <2>1. {b} \cup ({c, d, e} \cup R) = {b, c, d, e} \cup R
    OBVIOUS
  <2> QED
    BY <1>5, <2>1, PutMore DEF t2
<1>7. Good(t1, {a, b, c, d, e} \cup R) /\ t1 # <<>> /\ Head(t1) = a
  <2>1. {a} \cup ({b, c, d, e} \cup R) = {a, b, c, d, e} \cup R
    OBVIOUS
  <2> QED
    BY <1>6, <2>1, PutMore DEF t1
<1> QED
  BY <1>2, <1>7 DEF Good, Entries, Top

\* What disablePlugin puts on the stack when there is a library to unload.
LEMMA DisableLoaded ==
    ASSUME NEW p \in known, p \in loaded
    PROVE  DisablePlugin(p) = <<[do |-> "unload", of |-> {p}, calledBack |-> Top.calledBack]>>
                              \o <<E("disable", {p})>> \o <<E("saveRecovery", {})>>
<1>1. Unload(p) = <<E("unload", {p})>>
  BY DEF Unload, Do, E
<1>2. DOMAIN Unload(p) = {1} /\ Unload(p)[1] = E("unload", {p})
  BY <1>1
<1>3. [E("unload", {p}) EXCEPT !.calledBack = Top.calledBack]
      = [do |-> "unload", of |-> {p}, calledBack |-> Top.calledBack]
  BY DEF E
<1>4. [i \in DOMAIN Unload(p) |-> [Unload(p)[i] EXCEPT !.calledBack = Top.calledBack]]
      = <<[do |-> "unload", of |-> {p}, calledBack |-> Top.calledBack]>>
  <2> DEFINE f == [i \in DOMAIN Unload(p) |-> [Unload(p)[i] EXCEPT !.calledBack = Top.calledBack]]
             v == [do |-> "unload", of |-> {p}, calledBack |-> Top.calledBack]
  <2>1. f = [i \in {1} |-> v]
    BY <1>2, <1>3
  <2>2. <<v>> = [i \in {1} |-> v]
    <3> HIDE DEF v
    <3> QED
      OBVIOUS
  <2> QED
    BY <2>1, <2>2
<1> QED
  BY <1>4 DEF DisablePlugin, Do, E

\* ... and what it puts without.
LEMMA DisableUnloaded ==
    ASSUME NEW p \in known, p \notin loaded
    PROVE  DisablePlugin(p) = <<E("disable", {p})>> \o <<E("saveRecovery", {})>>
<1>1. Unload(p) = <<>>
  BY DEF Unload
<1>2. [i \in DOMAIN Unload(p) |-> [Unload(p)[i] EXCEPT !.calledBack = Top.calledBack]] = <<>>
  BY <1>1
<1>3. <<>> \o <<E("disable", {p})>> = <<E("disable", {p})>>
  <2> DEFINE v == E("disable", {p})
  <2> HIDE DEF v
  <2>1. <<v>> \in Seq({v})
    OBVIOUS
  <2> QED
    BY <2>1, ConcatEmptySeq DEF v
<1> QED
  BY <1>2, <1>3 DEF DisablePlugin, Do, E

-----------------------------------------------------------------------------
(* The steps. *)

USE DEF At, Early, EarlyRead, Ids, Saved, Operation, NoOperation

\* Code of a plugin returns, and nothing else happens.
LEMMA CodeReturnsKeeps ==
    ASSUME IInv, NEW p \in Plugins, CallbackReturns(p) \/ OnLoadReturns(p) \/ PackageRejected(p)
    PROVE  IInv'
<1>1. work # <<>> /\ Top.do \in {"callback", "onload", "inspect"} /\ Top.of = {p}
  BY DEF CallbackReturns, OnLoadReturns, PackageRejected, Code, InCode
<1>2. work' = Tail(work)
  BY DEF CallbackReturns, OnLoadReturns, PackageRejected, Then
<1>3. UNCHANGED <<files, kept, config, recovery, safeMode, disabled, recovered,
                   pending, known, loaded, reloading, started, blamed, owned, crashed>>
  BY DEF CallbackReturns, OnLoadReturns, PackageRejected, disk, memory, history
<1>4. TypeOK'
  BY <1>1, Seen, <1>2, Popped, <1>3 DEF IInv, TypeOK, Entry, Operations
<1>5. StartInv'
  BY <1>1, Seen, <1>2, Popped, <1>3 DEF IInv, StartInv
<1>6. SlotInv'
  BY <1>1, Seen, <1>2, Popped, <1>3 DEF IInv, SlotInv, InCode, Guarded, NextTo, Above, Under
<1>7. ListInv'
  BY <1>1, Seen, <1>2, Popped, <1>3 DEF IInv, ListInv, NextTo, Above, Under
<1>8. DisabledInv'
  BY <1>1, Seen, <1>2, Popped, <1>3 DEF IInv, DisabledInv, NextTo, Above, Under
<1>9. SaveInv'
  BY <1>1, Seen, <1>2, Popped, <1>3 DEF IInv, SaveInv
<1>10. PackageInv'
  BY <1>1, Seen, <1>2, Popped, <1>3 DEF IInv, PackageInv
<1> QED
  BY <1>2, <1>1, Popped, <1>4, <1>5, <1>6, <1>7, <1>8, <1>9, <1>10 DEF IInv

\* A callback or onLoad throws, and its library is gone.
LEMMA CodeThrowsKeeps ==
    ASSUME IInv, NEW p \in Plugins, CallbackThrows(p) \/ OnLoadThrows(p), p \notin loaded
    PROVE  IInv'
<1> DEFINE a == E("disable", {p})
           b == E("saveRecovery", {})
<1>1. work # <<>> /\ Top.do \in {"callback", "onload"} /\ Top.of = {p}
  BY DEF CallbackThrows, OnLoadThrows, Code, InCode
<1>2. p \in known
  BY <1>1, Seen DEF IInv, ListInv
<1>3. /\ a \in Entry /\ a.do = "disable" /\ a.of = {p} /\ ~a.calledBack
      /\ b \in Entry /\ b.do = "saveRecovery" /\ b.of = {} /\ ~b.calledBack
  BY DEF E, Entry
<1> HIDE DEF a, b
<1>4. FitsOn(b, Tail(work))
  BY <1>1, Seen, <1>2, <1>3 DEF FitsOn, NextTo, Below, Above, Under
<1>5. Sits(a, b, {b} \cup Below)
  BY <1>1, Seen, <1>2, <1>3 DEF Sits, NextTo, Above, Under
<1>6. /\ work' \in Seq(Entry) /\ WellFormed(work)' /\ Entries' = {a, b} \cup Below
      /\ Top' = a /\ work' # <<>>
  <2>1. work' = (<<a>> \o <<b>>) \o Tail(work)
    BY <1>2, DisableUnloaded DEF CallbackThrows, OnLoadThrows, Then, a, b
  <2> QED
    BY <1>1, Seen, <1>3, <1>4, <1>5, <2>1, Puts2
<1>7. UNCHANGED <<files, kept, config, recovery, safeMode, disabled, recovered,
                   pending, known, loaded, reloading, started, blamed, owned, crashed>>
  BY DEF CallbackThrows, OnLoadThrows, disk, memory, history
<1>8. TypeOK'
  BY <1>1, Seen, <1>2, <1>3, <1>6, <1>7 DEF IInv, TypeOK, Entry, Operations
<1>9. StartInv'
  BY <1>1, Seen, <1>2, <1>3, <1>6, <1>7 DEF IInv, StartInv
<1>10. SlotInv'
  BY <1>1, Seen, <1>2, <1>3, <1>6, <1>7 DEF IInv, SlotInv, InCode, Guarded
<1>11. ListInv'
  BY <1>1, Seen, <1>2, <1>3, <1>6, <1>7 DEF IInv, ListInv
<1>12. DisabledInv'
  BY <1>1, Seen, <1>2, <1>3, <1>6, <1>7 DEF IInv, DisabledInv
<1>13. SaveInv'
  BY <1>1, Seen, <1>2, <1>3, <1>6, <1>7 DEF IInv, SaveInv
<1>14. PackageInv'
  BY <1>1, Seen, <1>2, <1>3, <1>6, <1>7 DEF IInv, PackageInv
<1> QED
  BY <1>6, <1>8, <1>9, <1>10, <1>11, <1>12, <1>13, <1>14 DEF IInv

\* The library or its entry fails.
LEMMA LoadFailsKeeps ==
    ASSUME IInv, NEW p \in Plugins, LoadFails(p)
    PROVE  IInv'
<1> DEFINE a == E("finish", {p})
<1>1. work # <<>> /\ Top.do = "load" /\ Top.of = {p}
  BY DEF LoadFails, Code, InCode
<1>2. a \in Entry /\ a.do = "finish" /\ a.of = {p} /\ ~a.calledBack
  BY DEF E, Entry
<1> HIDE DEF a
<1>3. FitsOn(a, Tail(work))
  BY <1>1, Seen, <1>2 DEF FitsOn, NextTo, Below, Above, Under
<1>4. /\ work' \in Seq(Entry) /\ WellFormed(work)' /\ Entries' = {a} \cup Below
      /\ Top' = a /\ work' # <<>>
  <2>1. work' = <<a>> \o Tail(work)
    BY <1>1 DEF LoadFails, Do, E, Then, a
  <2> QED
    BY <1>1, Seen, <1>2, <1>3, <2>1, Puts1
<1>5. /\ known' = known \cup {p}
      /\ UNCHANGED <<files, kept, config, recovery, safeMode, disabled, recovered,
                     pending, loaded, reloading, started, blamed, owned, crashed>>
  BY DEF LoadFails, disk, memory, history
<1>6. TypeOK'
  BY <1>1, Seen, <1>2, <1>4, <1>5 DEF IInv, TypeOK, Entry, Operations
<1>7. StartInv'
  BY <1>1, Seen, <1>2, <1>4, <1>5 DEF IInv, StartInv
<1>8. SlotInv'
  BY <1>1, Seen, <1>2, <1>4, <1>5 DEF IInv, SlotInv, InCode, Guarded
<1>9. ListInv'
  BY <1>1, Seen, <1>2, <1>4, <1>5 DEF IInv, ListInv, NextTo, Above, Under
<1>10. DisabledInv'
  BY <1>1, Seen, <1>2, <1>4, <1>5 DEF IInv, DisabledInv
<1>11. SaveInv'
  BY <1>1, Seen, <1>2, <1>4, <1>5 DEF IInv, SaveInv
<1>12. PackageInv'
  BY <1>1, Seen, <1>2, <1>4, <1>5 DEF IInv, PackageInv
<1> QED
  BY <1>4, <1>6, <1>7, <1>8, <1>9, <1>10, <1>11, <1>12 DEF IInv

\* The library is loaded.
LEMMA LoadSucceedsKeeps ==
    ASSUME IInv, NEW p \in Plugins, LoadSucceeds(p)
    PROVE  IInv'
<1> DEFINE a == E("onload", {p})
           b == E("finish", {p})
<1>1. work # <<>> /\ Top.do = "load" /\ Top.of = {p}
  BY DEF LoadSucceeds, Code, InCode
<1>2. /\ a \in Entry /\ a.do = "onload" /\ a.of = {p} /\ ~a.calledBack
      /\ b \in Entry /\ b.do = "finish" /\ b.of = {p} /\ ~b.calledBack
  BY DEF E, Entry
<1> HIDE DEF a, b
<1>3. FitsOn(b, Tail(work))
  BY <1>1, Seen, <1>2 DEF FitsOn, NextTo, Below, Above, Under
<1>4. Sits(a, b, {b} \cup Below)
  BY <1>1, Seen, <1>2 DEF Sits, NextTo, Above, Under
<1>5. /\ work' \in Seq(Entry) /\ WellFormed(work)' /\ Entries' = {a, b} \cup Below
      /\ Top' = a /\ work' # <<>>
  <2>1. work' = (<<a>> \o <<b>>) \o Tail(work)
    BY <1>1 DEF LoadSucceeds, Do, E, Then, a, b
  <2> QED
    BY <1>1, Seen, <1>2, <1>3, <1>4, <2>1, Puts2
<1>6. /\ recovery' = Saved(recovered, Operation({p}))
      /\ pending' = Operation({p})
      /\ known' = known \cup {p}
      /\ loaded' = loaded \cup {p}
      /\ UNCHANGED <<files, kept, config, safeMode, disabled, recovered, reloading,
                     started, blamed, owned, crashed>>
  BY DEF LoadSucceeds, Start, disk, memory, history
<1>7. TypeOK'
  BY <1>1, Seen, <1>2, <1>5, <1>6 DEF IInv, TypeOK, Entry, Operations
<1>8. StartInv'
  BY <1>1, Seen, <1>2, <1>5, <1>6 DEF IInv, StartInv
<1>9. SlotInv'
  BY <1>1, Seen, <1>2, <1>5, <1>6 DEF IInv, SlotInv, InCode, Guarded
<1>10. ListInv'
  BY <1>1, Seen, <1>2, <1>5, <1>6 DEF IInv, ListInv, NextTo, Above, Under
<1>11. DisabledInv'
  BY <1>1, Seen, <1>2, <1>5, <1>6 DEF IInv, DisabledInv, NextTo, Above, Under
<1>12. SaveInv'
  BY <1>1, Seen, <1>2, <1>5, <1>6 DEF IInv, SaveInv
<1>13. PackageInv'
  BY <1>1, Seen, <1>2, <1>5, <1>6 DEF IInv, PackageInv
<1> QED
  BY <1>5, <1>7, <1>8, <1>9, <1>10, <1>11, <1>12, <1>13 DEF IInv

\* onUnload has ended.
LEMMA UnloadedKeeps ==
    ASSUME IInv, NEW p \in Plugins, Unloaded(p)
    PROVE  IInv'
<1>1. work # <<>> /\ Top.do = "unload" /\ Top.of = {p}
  BY DEF Unloaded, Code, InCode
<1>2. work' = Tail(work)
  BY DEF Unloaded, Then
<1>3. /\ loaded' = loaded \ {p}
      /\ UNCHANGED <<files, kept, config, recovery, safeMode, disabled, recovered,
                     pending, known, reloading, started, blamed, owned, crashed>>
  BY DEF Unloaded, disk, memory, history
<1>4. TypeOK'
  BY <1>1, Seen, <1>2, Popped, <1>3 DEF IInv, TypeOK, Entry, Operations
<1>5. StartInv'
  BY <1>1, Seen, <1>2, Popped, <1>3 DEF IInv, StartInv
<1>6. SlotInv'
  BY <1>1, Seen, <1>2, Popped, <1>3 DEF IInv, SlotInv, InCode, Guarded, NextTo, Above, Under
<1>7. ListInv'
  BY <1>1, Seen, <1>2, Popped, <1>3 DEF IInv, ListInv, NextTo, Above, Under
<1>8. DisabledInv'
  BY <1>1, Seen, <1>2, Popped, <1>3 DEF IInv, DisabledInv, NextTo, Above, Under
<1>9. SaveInv'
  BY <1>1, Seen, <1>2, Popped, <1>3 DEF IInv, SaveInv
<1>10. PackageInv'
  BY <1>1, Seen, <1>2, Popped, <1>3 DEF IInv, PackageInv
<1> QED
  BY <1>2, <1>1, Popped, <1>4, <1>5, <1>6, <1>7, <1>8, <1>9, <1>10 DEF IInv

\* A package was looked into, and is installed.
LEMMA PackageAcceptedKeeps ==
    ASSUME IInv, NEW p \in Plugins, PackageAccepted(p)
    PROVE  IInv'
<1> DEFINE a == E("unloadAll", {})
           b == E("read", {})
           c == E("copy", {p})
<1>1. work # <<>> /\ Top.do = "inspect" /\ Top.of = {p}
  BY DEF PackageAccepted, Code, InCode
<1>2. /\ a \in Entry /\ a.do = "unloadAll" /\ a.of = {} /\ ~a.calledBack
      /\ b \in Entry /\ b.do = "read" /\ b.of = {} /\ ~b.calledBack
      /\ c \in Entry /\ c.do = "copy" /\ c.of = {p} /\ ~c.calledBack
  BY DEF E, Entry
<1> HIDE DEF a, b, c
<1>3. FitsOn(c, Tail(work))
  BY <1>1, Seen, <1>2 DEF FitsOn, NextTo, Below, Above, Under
<1>4. Sits(a, b, {b, c} \cup Below) /\ Sits(b, c, {c} \cup Below)
  BY <1>1, Seen, <1>2 DEF Sits, NextTo, Above, Under
<1>5. /\ work' \in Seq(Entry) /\ WellFormed(work)' /\ Entries' = {a, b, c} \cup Below
      /\ Top' = a /\ work' # <<>>
  <2>1. work' = (<<a>> \o <<b>> \o <<c>>) \o Tail(work)
    BY <1>1 DEF PackageAccepted, Do, E, Then, a, b, c
  <2> QED
    BY <1>1, Seen, <1>2, <1>3, <1>4, <2>1, Puts3
<1>6. /\ recovery' = Saved(recovered, Operation({p}))
      /\ pending' = Operation({p})
      /\ UNCHANGED <<files, kept, config, safeMode, disabled, recovered, known,
                     loaded, reloading, started, blamed, owned, crashed>>
  BY DEF PackageAccepted, Start, disk, memory, history
<1>7. TypeOK'
  BY <1>1, Seen, <1>2, <1>5, <1>6 DEF IInv, TypeOK, Entry, Operations
<1>8. StartInv'
  BY <1>1, Seen, <1>2, <1>5, <1>6 DEF IInv, StartInv
<1>9. SlotInv'
  BY <1>1, Seen, <1>2, <1>5, <1>6 DEF IInv, SlotInv, InCode, Guarded
<1>10. ListInv'
  BY <1>1, Seen, <1>2, <1>5, <1>6 DEF IInv, ListInv
<1>11. DisabledInv'
  BY <1>1, Seen, <1>2, <1>5, <1>6 DEF IInv, DisabledInv, NextTo, Above, Under
<1>12. SaveInv'
  BY <1>1, Seen, <1>2, <1>5, <1>6 DEF IInv, SaveInv
<1>13. PackageInv'
  BY <1>1, Seen, <1>2, <1>5, <1>6 DEF IInv, PackageInv
<1> QED
  BY <1>5, <1>7, <1>8, <1>9, <1>10, <1>11, <1>12, <1>13 DEF IInv

\* The end of an operation.
LEMMA FinishKeeps ==
    ASSUME IInv, Finish
    PROVE  IInv'
<1>1. work # <<>> /\ Top.do = "finish"
  BY DEF Finish, At
<1>2. work' = Tail(work)
  BY DEF Finish, Then
<1>3. /\ recovery' = IF pending.active THEN Saved(recovered, NoOperation) ELSE recovery
      /\ pending' = NoOperation
      /\ UNCHANGED <<files, kept, config, safeMode, disabled, recovered, known,
                     loaded, reloading, started, blamed, owned, crashed>>
  BY DEF Finish, ClearSlot, disk, memory, history
<1>4. pending.active \/ pending = NoOperation
  BY <1>1 DEF IInv, TypeOK, Operations, Operation
<1>5. TypeOK'
  BY <1>1, Seen, <1>2, Popped, <1>3, <1>4 DEF IInv, TypeOK, Entry, Operations
<1>6. StartInv'
  BY <1>1, Seen, <1>2, Popped, <1>3, <1>4 DEF IInv, StartInv
<1>7. SlotInv'
  BY <1>1, Seen, <1>2, Popped, <1>3, <1>4 DEF IInv, SlotInv, InCode, Guarded, NextTo, Above, Under
<1>8. ListInv'
  BY <1>1, Seen, <1>2, Popped, <1>3, <1>4 DEF IInv, ListInv, NextTo, Above, Under
<1>9. DisabledInv'
  BY <1>1, Seen, <1>2, Popped, <1>3, <1>4 DEF IInv, DisabledInv, NextTo, Above, Under
<1>10. SaveInv'
  BY <1>1, Seen, <1>2, Popped, <1>3, <1>4 DEF IInv, SaveInv
<1>11. PackageInv'
  BY <1>1, Seen, <1>2, Popped, <1>3, <1>4 DEF IInv, PackageInv
<1> QED
  BY <1>2, <1>1, Popped, <1>5, <1>6, <1>7, <1>8, <1>9, <1>10, <1>11 DEF IInv

\* A disabled plugin is only listed.
LEMMA ScanDisabledKeeps ==
    ASSUME IInv, NEW p \in Plugins, ScanDisabled(p)
    PROVE  IInv'
<1> DEFINE a == E("scan", Top.of \ {p})
<1>1. work # <<>> /\ Top.do = "scan" /\ p \in Top.of /\ p \in disabled
  BY DEF ScanDisabled, At
<1>2. a \in Entry /\ a.do = "scan" /\ a.of = Top.of \ {p} /\ ~a.calledBack
  BY <1>1, Seen DEF E, Entry
<1> HIDE DEF a
<1>3. FitsOn(a, Tail(work))
  BY <1>1, Seen, <1>2 DEF FitsOn, NextTo, Below, Above, Under
<1>4. /\ work' \in Seq(Entry) /\ WellFormed(work)' /\ Entries' = {a} \cup Below
      /\ Top' = a /\ work' # <<>>
  <2>1. work' = <<a>> \o Tail(work)
    BY <1>1 DEF ScanDisabled, Do, E, Then, a
  <2> QED
    BY <1>1, Seen, <1>2, <1>3, <2>1, Puts1
<1>5. /\ known' = known \cup {p}
      /\ UNCHANGED <<files, kept, config, recovery, safeMode, disabled, recovered,
                     pending, loaded, reloading, started, blamed, owned, crashed>>
  BY DEF ScanDisabled, disk, memory, history
<1>6. TypeOK'
  BY <1>1, Seen, <1>2, <1>4, <1>5 DEF IInv, TypeOK, Entry, Operations
<1>7. StartInv'
  BY <1>1, Seen, <1>2, <1>4, <1>5 DEF IInv, StartInv
<1>8. SlotInv'
  BY <1>1, Seen, <1>2, <1>4, <1>5 DEF IInv, SlotInv, InCode, Guarded
<1>9. ListInv'
  BY <1>1, Seen, <1>2, <1>4, <1>5 DEF IInv, ListInv, NextTo, Above, Under
<1>10. DisabledInv'
  BY <1>1, Seen, <1>2, <1>4, <1>5 DEF IInv, DisabledInv
<1>11. SaveInv'
  BY <1>1, Seen, <1>2, <1>4, <1>5 DEF IInv, SaveInv
<1>12. PackageInv'
  BY <1>1, Seen, <1>2, <1>4, <1>5 DEF IInv, PackageInv
<1> QED
  BY <1>4, <1>6, <1>7, <1>8, <1>9, <1>10, <1>11, <1>12 DEF IInv

\* A plugin is about to be loaded.
LEMMA ScanEnabledKeeps ==
    ASSUME IInv, NEW p \in Plugins, ScanEnabled(p)
    PROVE  IInv'
<1> DEFINE a == E("load", {p})
           b == E("scan", Top.of \ {p})
<1>1. work # <<>> /\ Top.do = "scan" /\ p \in Top.of /\ p \notin disabled
  BY DEF ScanEnabled, At
<1>2. /\ a \in Entry /\ a.do = "load" /\ a.of = {p} /\ ~a.calledBack
      /\ b \in Entry /\ b.do = "scan" /\ b.of = Top.of \ {p} /\ ~b.calledBack
  BY <1>1, Seen DEF E, Entry
<1> HIDE DEF a, b
<1>3. FitsOn(b, Tail(work))
  BY <1>1, Seen, <1>2 DEF FitsOn, NextTo, Below, Above, Under
<1>4. Sits(a, b, {b} \cup Below)
  BY <1>1, Seen, <1>2 DEF Sits, NextTo, Above, Under
<1>5. /\ work' \in Seq(Entry) /\ WellFormed(work)' /\ Entries' = {a, b} \cup Below
      /\ Top' = a /\ work' # <<>>
  <2>1. work' = (<<a>> \o <<b>>) \o Tail(work)
    BY <1>1 DEF ScanEnabled, Do, E, Then, a, b
  <2> QED
    BY <1>1, Seen, <1>2, <1>3, <1>4, <2>1, Puts2
<1>6. /\ recovery' = Saved(recovered, Operation({p}))
      /\ pending' = Operation({p})
      /\ UNCHANGED <<files, kept, config, safeMode, disabled, recovered, known,
                     loaded, reloading, started, blamed, owned, crashed>>
  BY DEF ScanEnabled, Start, disk, memory, history
<1>7. TypeOK'
  BY <1>1, Seen, <1>2, <1>5, <1>6 DEF IInv, TypeOK, Entry, Operations
<1>8. StartInv'
  BY <1>1, Seen, <1>2, <1>5, <1>6 DEF IInv, StartInv
<1>9. SlotInv'
  BY <1>1, Seen, <1>2, <1>5, <1>6 DEF IInv, SlotInv, InCode, Guarded
<1>10. ListInv'
  BY <1>1, Seen, <1>2, <1>5, <1>6 DEF IInv, ListInv
<1>11. DisabledInv'
  BY <1>1, Seen, <1>2, <1>5, <1>6 DEF IInv, DisabledInv, NextTo, Above, Under
<1>12. SaveInv'
  BY <1>1, Seen, <1>2, <1>5, <1>6 DEF IInv, SaveInv
<1>13. PackageInv'
  BY <1>1, Seen, <1>2, <1>5, <1>6 DEF IInv, PackageInv
<1> QED
  BY <1>5, <1>7, <1>8, <1>9, <1>10, <1>11, <1>12, <1>13 DEF IInv

\* Everything is scanned.
LEMMA ScanEndsKeeps ==
    ASSUME IInv, ScanEnds
    PROVE  IInv'
<1>1. work # <<>> /\ Top.do = "scan"
  BY DEF ScanEnds, At
<1>2. work' = Tail(work)
  BY DEF ScanEnds, Then
<1>3. UNCHANGED <<files, kept, config, recovery, safeMode, disabled, recovered,
                   pending, known, loaded, reloading, started, blamed, owned, crashed>>
  BY DEF ScanEnds, disk, memory, history
<1>4. TypeOK'
  BY <1>1, Seen, <1>2, Popped, <1>3 DEF IInv, TypeOK, Entry, Operations
<1>5. StartInv'
  BY <1>1, Seen, <1>2, Popped, <1>3 DEF IInv, StartInv
<1>6. SlotInv'
  BY <1>1, Seen, <1>2, Popped, <1>3 DEF IInv, SlotInv, InCode, Guarded, NextTo, Above, Under
<1>7. ListInv'
  BY <1>1, Seen, <1>2, Popped, <1>3 DEF IInv, ListInv, NextTo, Above, Under
<1>8. DisabledInv'
  BY <1>1, Seen, <1>2, Popped, <1>3 DEF IInv, DisabledInv, NextTo, Above, Under
<1>9. SaveInv'
  BY <1>1, Seen, <1>2, Popped, <1>3 DEF IInv, SaveInv
<1>10. PackageInv'
  BY <1>1, Seen, <1>2, Popped, <1>3 DEF IInv, PackageInv
<1> QED
  BY <1>2, <1>1, Popped, <1>4, <1>5, <1>6, <1>7, <1>8, <1>9, <1>10 DEF IInv

\* A scan in safe mode.
LEMMA RescanSafeKeeps ==
    ASSUME IInv, RescanSafe
    PROVE  IInv'
<1>1. work # <<>> /\ Top.do = "rescan"
  BY DEF RescanSafe, At
<1>2. known = {}
  BY <1>1, Seen DEF IInv, ListInv, Above, Under
<1>3. work' = Tail(work)
  BY DEF RescanSafe, Then
<1>4. /\ known' = files
      /\ UNCHANGED <<files, kept, config, recovery, safeMode, disabled, recovered,
                     pending, loaded, reloading, started, blamed, owned, crashed>>
  BY DEF RescanSafe, disk, memory, history
<1>5. TypeOK'
  BY <1>1, Seen, <1>2, <1>3, Popped, <1>4 DEF IInv, TypeOK, Entry, Operations, NextTo, Above,
    Under
<1>6. StartInv'
  BY <1>1, Seen, <1>2, <1>3, Popped, <1>4 DEF IInv, StartInv
<1>7. SlotInv'
  BY <1>1, Seen, <1>2, <1>3, Popped, <1>4 DEF IInv, SlotInv, InCode, Guarded, NextTo, Above, Under
<1>8. ListInv'
  BY <1>1, Seen, <1>2, <1>3, Popped, <1>4 DEF IInv, ListInv, NextTo, Above, Under
<1>9. DisabledInv'
  BY <1>1, Seen, <1>2, <1>3, Popped, <1>4 DEF IInv, DisabledInv, NextTo, Above, Under
<1>10. SaveInv'
  BY <1>1, Seen, <1>2, <1>3, Popped, <1>4 DEF IInv, SaveInv
<1>11. PackageInv'
  BY <1>1, Seen, <1>2, <1>3, Popped, <1>4 DEF IInv, PackageInv
<1> QED
  BY <1>3, <1>1, Popped, <1>5, <1>6, <1>7, <1>8, <1>9, <1>10, <1>11 DEF IInv

\* A scan.
LEMMA RescanKeeps ==
    ASSUME IInv, Rescan
    PROVE  IInv'
<1> DEFINE a == E("scan", files)
<1>1. work # <<>> /\ Top.do = "rescan"
  BY DEF Rescan, At
<1>2. a \in Entry /\ a.do = "scan" /\ a.of = files /\ ~a.calledBack
  BY <1>1, Seen DEF E, Entry, IInv, TypeOK
<1> HIDE DEF a
<1>3. FitsOn(a, Tail(work))
  BY <1>1, Seen, <1>2 DEF FitsOn, NextTo, Below, Above, Under
<1>4. /\ work' \in Seq(Entry) /\ WellFormed(work)' /\ Entries' = {a} \cup Below
      /\ Top' = a /\ work' # <<>>
  <2>1. work' = <<a>> \o Tail(work)
    BY <1>1 DEF Rescan, Do, E, Then, a
  <2> QED
    BY <1>1, Seen, <1>2, <1>3, <2>1, Puts1
<1>5. UNCHANGED <<files, kept, config, recovery, safeMode, disabled, recovered,
                   pending, known, loaded, reloading, started, blamed, owned, crashed>>
  BY DEF Rescan, disk, memory, history
<1>6. TypeOK'
  BY <1>1, Seen, <1>2, <1>4, <1>5 DEF IInv, TypeOK, Entry, Operations
<1>7. StartInv'
  BY <1>1, Seen, <1>2, <1>4, <1>5 DEF IInv, StartInv
<1>8. SlotInv'
  BY <1>1, Seen, <1>2, <1>4, <1>5 DEF IInv, SlotInv, InCode, Guarded
<1>9. ListInv'
  BY <1>1, Seen, <1>2, <1>4, <1>5 DEF IInv, ListInv, NextTo, Above, Under
<1>10. DisabledInv'
  BY <1>1, Seen, <1>2, <1>4, <1>5 DEF IInv, DisabledInv
<1>11. SaveInv'
  BY <1>1, Seen, <1>2, <1>4, <1>5 DEF IInv, SaveInv
<1>12. PackageInv'
  BY <1>1, Seen, <1>2, <1>4, <1>5 DEF IInv, PackageInv
<1> QED
  BY <1>4, <1>6, <1>7, <1>8, <1>9, <1>10, <1>11, <1>12 DEF IInv

\* unloadAll takes the next plugin.
LEMMA UnloadNextKeeps ==
    ASSUME IInv, NEW p \in Plugins, UnloadNext(p)
    PROVE  IInv'
<1> DEFINE a == E("unload", {p})
           b == E("finish", {p})
<1>1. work # <<>> /\ Top.do = "unloadAll" /\ p \in loaded
  BY DEF UnloadNext, At
<1>2. ~Early
  BY <1>1, Seen DEF Early, Above, Under
<1>3. p \notin blamed /\ p \in known
  BY <1>1, Seen, <1>2 DEF IInv, DisabledInv, ListInv, TypeOK
<1>4. /\ a \in Entry /\ a.do = "unload" /\ a.of = {p} /\ ~a.calledBack
      /\ b \in Entry /\ b.do = "finish" /\ b.of = {p} /\ ~b.calledBack
  BY DEF E, Entry
<1> HIDE DEF a, b
<1>5. FitsOn(b, work)
  BY <1>1, Seen, <1>2, <1>3, <1>4 DEF FitsOn, NextTo, Entries, Top, Above, Under
<1>6. Sits(a, b, {b} \cup Entries)
  BY <1>1, Seen, <1>2, <1>3, <1>4 DEF Sits, NextTo, Above, Under
<1>7. /\ work' \in Seq(Entry) /\ WellFormed(work)' /\ Entries' = {a, b} \cup Entries
      /\ Top' = a /\ work' # <<>>
  <2>1. work' = (<<a>> \o <<b>>) \o work
    BY <1>1 DEF UnloadNext, Unload, Do, E, a, b
  <2> QED
    BY <1>1, Seen, <1>4, <1>5, <1>6, <2>1, Puts2
<1>8. /\ recovery' = Saved(recovered, Operation({p}))
      /\ pending' = Operation({p})
      /\ UNCHANGED <<files, kept, config, safeMode, disabled, recovered, known,
                     loaded, reloading, started, blamed, owned, crashed>>
  BY DEF UnloadNext, Start, disk, memory, history
<1>9. TypeOK'
  BY <1>1, Seen, <1>2, <1>3, <1>4, <1>7, <1>8 DEF IInv, TypeOK, Entry, Operations
<1>10. StartInv'
  BY <1>1, Seen, <1>2, <1>3, <1>4, <1>7, <1>8 DEF IInv, StartInv
<1>11. SlotInv'
  BY <1>1, Seen, <1>2, <1>3, <1>4, <1>7, <1>8 DEF IInv, SlotInv, InCode, Guarded
<1>12. ListInv'
  BY <1>1, Seen, <1>2, <1>3, <1>4, <1>7, <1>8 DEF IInv, ListInv
<1>13. DisabledInv'
  BY <1>1, Seen, <1>2, <1>3, <1>4, <1>7, <1>8 DEF IInv, DisabledInv, NextTo, Above, Under
<1>14. SaveInv'
  BY <1>1, Seen, <1>2, <1>3, <1>4, <1>7, <1>8 DEF IInv, SaveInv
<1>15. PackageInv'
  BY <1>1, Seen, <1>2, <1>3, <1>4, <1>7, <1>8 DEF IInv, PackageInv
<1> QED
  BY <1>7, <1>9, <1>10, <1>11, <1>12, <1>13, <1>14, <1>15 DEF IInv

\* Everything is unloaded.
LEMMA UnloadAllEndsKeeps ==
    ASSUME IInv, UnloadAllEnds
    PROVE  IInv'
<1>1. work # <<>> /\ Top.do = "unloadAll" /\ loaded = {}
  BY DEF UnloadAllEnds, At
<1>2. work' = Tail(work)
  BY DEF UnloadAllEnds, Then
<1>3. /\ known' = {}
      /\ UNCHANGED <<files, kept, config, recovery, safeMode, disabled, recovered,
                     pending, loaded, reloading, started, blamed, owned, crashed>>
  BY DEF UnloadAllEnds, disk, memory, history
<1>4. TypeOK'
  BY <1>1, Seen, <1>2, Popped, <1>3 DEF IInv, TypeOK, Entry, Operations
<1>5. StartInv'
  BY <1>1, Seen, <1>2, Popped, <1>3 DEF IInv, StartInv
<1>6. SlotInv'
  BY <1>1, Seen, <1>2, Popped, <1>3 DEF IInv, SlotInv, InCode, Guarded, NextTo, Above, Under
<1>7. ListInv'
  BY <1>1, Seen, <1>2, Popped, <1>3 DEF IInv, ListInv, NextTo, Above, Under
<1>8. DisabledInv'
  BY <1>1, Seen, <1>2, Popped, <1>3 DEF IInv, DisabledInv, NextTo, Above, Under
<1>9. SaveInv'
  BY <1>1, Seen, <1>2, Popped, <1>3 DEF IInv, SaveInv
<1>10. PackageInv'
  BY <1>1, Seen, <1>2, Popped, <1>3 DEF IInv, PackageInv
<1> QED
  BY <1>2, <1>1, Popped, <1>4, <1>5, <1>6, <1>7, <1>8, <1>9, <1>10 DEF IInv

\* loadConfig and loadRecoveryState.
LEMMA ReadKeeps ==
    ASSUME IInv, Read
    PROVE  IInv'
<1>1. work # <<>> /\ Top.do = "read"
  BY DEF Read, At
<1>2. loaded = {}
  BY <1>1, Seen DEF IInv, ListInv, TypeOK, Above, Under
<1>3. Early <=> \E x \in Below : x.do = "recover"
  BY <1>1, Seen DEF Early
<1>4. EarlyRead => ~started
  BY <1>1 DEF IInv, EarlyRead, Early, StartInv
<1>5. \A x \in Below : x.do # "read"
  BY <1>1, Seen DEF Above, Under
<1>6. work' = Tail(work)
  BY DEF Read, Then
<1>7. /\ disabled' = config
      /\ recovered' = recovery.disabled
      /\ pending' = recovery.pending
      /\ UNCHANGED <<files, kept, config, recovery, safeMode, known, loaded,
                     reloading, started, blamed, owned, crashed>>
  BY DEF Read, disk, memory, history
<1>8. TypeOK'
  BY <1>1, Seen, <1>2, <1>3, <1>4, <1>5, <1>6, Popped, <1>7 DEF IInv, TypeOK, Entry, Operations
<1>9. StartInv'
  BY <1>1, Seen, <1>2, <1>3, <1>4, <1>5, <1>6, Popped, <1>7 DEF IInv, StartInv
<1>10. SlotInv'
  BY <1>1, Seen, <1>2, <1>3, <1>4, <1>5, <1>6, Popped, <1>7 DEF IInv, SlotInv, InCode, Guarded,
    NextTo, Above, Under
<1>11. ListInv'
  BY <1>1, Seen, <1>2, <1>3, <1>4, <1>5, <1>6, Popped, <1>7 DEF IInv, ListInv, NextTo, Above,
    Under
<1>12. DisabledInv'
  BY <1>1, Seen, <1>2, <1>3, <1>4, <1>5, <1>6, Popped, <1>7 DEF IInv, DisabledInv
<1>13. SaveInv'
  BY <1>1, Seen, <1>2, <1>3, <1>4, <1>5, <1>6, Popped, <1>7 DEF IInv, SaveInv
<1>14. PackageInv'
  BY <1>1, Seen, <1>2, <1>3, <1>4, <1>5, <1>6, Popped, <1>7 DEF IInv, PackageInv
<1> QED
  BY <1>6, <1>1, Popped, <1>8, <1>9, <1>10, <1>11, <1>12, <1>13, <1>14 DEF IInv

\* A crash is found at the start.
LEMMA RecoverCrashKeeps ==
    ASSUME IInv, Recover, pending.active
    PROVE  IInv'
<1> DEFINE a == E("safe", {})
           b == E("finish", {})
<1>1. work # <<>> /\ Top.do = "recover" /\ pending.active
  BY DEF Recover, At
<1>2. loaded = {} /\ ~started
  BY <1>1, Seen DEF IInv, ListInv, TypeOK, StartInv, Above, Under
<1>3. /\ ~EarlyRead /\ Early /\ recovery.pending = pending
      /\ recovered = recovery.disabled /\ disabled = config
  BY <1>1, Seen DEF IInv, Early, EarlyRead, At, SlotInv, DisabledInv
<1>4. \A x \in Below : x.do # "recover"
  BY <1>1, Seen DEF Above, Under
<1>5. /\ a \in Entry /\ a.do = "safe" /\ a.of = {} /\ ~a.calledBack
      /\ b \in Entry /\ b.do = "finish" /\ b.of = {} /\ ~b.calledBack
  BY DEF E, Entry
<1> HIDE DEF a, b
<1>6. FitsOn(b, Tail(work))
  BY <1>1, Seen, <1>2, <1>3, <1>4, <1>5 DEF FitsOn, NextTo, Below, Above, Under
<1>7. Sits(a, b, {b} \cup Below)
  BY <1>1, Seen, <1>2, <1>3, <1>4, <1>5 DEF Sits, NextTo, Above, Under
<1>8. /\ work' \in Seq(Entry) /\ WellFormed(work)' /\ Entries' = {a, b} \cup Below
      /\ Top' = a /\ work' # <<>>
  <2>1. work' = (<<a>> \o <<b>>) \o Tail(work)
    BY <1>1 DEF Recover, Do, E, Then, a, b
  <2> QED
    BY <1>1, Seen, <1>5, <1>6, <1>7, <2>1, Puts2
<1>9. /\ config' = disabled \cup pending.ids
      /\ disabled' = disabled \cup pending.ids
      /\ recovered' = recovered \cup pending.ids
      /\ UNCHANGED <<files, kept, recovery, safeMode, pending, known, loaded,
                     reloading, started, blamed, owned, crashed>>
  BY DEF Recover, Blame, disk, memory, history
<1>10. TypeOK'
  BY <1>1, Seen, <1>2, <1>3, <1>4, <1>5, <1>8, <1>9 DEF IInv, TypeOK, Entry, Operations
<1>11. StartInv'
  BY <1>1, Seen, <1>2, <1>3, <1>4, <1>5, <1>8, <1>9 DEF IInv, StartInv
<1>12. SlotInv'
  BY <1>1, Seen, <1>2, <1>3, <1>4, <1>5, <1>8, <1>9 DEF IInv, SlotInv, InCode, Guarded, NextTo,
    Above, Under
<1>13. ListInv'
  BY <1>1, Seen, <1>2, <1>3, <1>4, <1>5, <1>8, <1>9 DEF IInv, ListInv, NextTo, Above, Under
<1>14. DisabledInv'
  BY <1>1, Seen, <1>2, <1>3, <1>4, <1>5, <1>8, <1>9 DEF IInv, DisabledInv, NextTo, Above, Under
<1>15. SaveInv'
  BY <1>1, Seen, <1>2, <1>3, <1>4, <1>5, <1>8, <1>9 DEF IInv, SaveInv
<1>16. PackageInv'
  BY <1>1, Seen, <1>2, <1>3, <1>4, <1>5, <1>8, <1>9 DEF IInv, PackageInv
<1> QED
  BY <1>8, <1>10, <1>11, <1>12, <1>13, <1>14, <1>15, <1>16 DEF IInv

\* No crash is found at the start.
LEMMA RecoverNothingKeeps ==
    ASSUME IInv, Recover, ~pending.active
    PROVE  IInv'
<1>1. work # <<>> /\ Top.do = "recover" /\ ~pending.active
  BY DEF Recover, At
<1>2. /\ ~EarlyRead /\ Early /\ recovery.pending = pending
      /\ recovered = recovery.disabled /\ disabled = config
  BY <1>1, Seen DEF IInv, Early, EarlyRead, At, SlotInv, DisabledInv
<1>3. \A x \in Below : x.do # "recover"
  BY <1>1, Seen DEF Above, Under
<1>4. work' = Tail(work)
  BY DEF Recover, Then
<1>5. UNCHANGED <<files, kept, config, recovery, safeMode, disabled, recovered,
                   pending, known, loaded, reloading, started, blamed, owned, crashed>>
  BY DEF Recover, disk, memory, history
<1>6. TypeOK'
  BY <1>1, Seen, <1>2, <1>3, <1>4, Popped, <1>5 DEF IInv, TypeOK, Entry, Operations
<1>7. StartInv'
  BY <1>1, Seen, <1>2, <1>3, <1>4, Popped, <1>5 DEF IInv, StartInv
<1>8. SlotInv'
  BY <1>1, Seen, <1>2, <1>3, <1>4, Popped, <1>5 DEF IInv, SlotInv, InCode, Guarded, NextTo,
    Above, Under
<1>9. ListInv'
  BY <1>1, Seen, <1>2, <1>3, <1>4, Popped, <1>5 DEF IInv, ListInv, NextTo, Above, Under
<1>10. DisabledInv'
  BY <1>1, Seen, <1>2, <1>3, <1>4, Popped, <1>5 DEF IInv, DisabledInv, NextTo, Above, Under
<1>11. SaveInv'
  BY <1>1, Seen, <1>2, <1>3, <1>4, Popped, <1>5 DEF IInv, SaveInv
<1>12. PackageInv'
  BY <1>1, Seen, <1>2, <1>3, <1>4, Popped, <1>5 DEF IInv, PackageInv
<1> QED
  BY <1>4, <1>1, Popped, <1>6, <1>7, <1>8, <1>9, <1>10, <1>11, <1>12 DEF IInv

\* Safe mode is turned on after a crash.
LEMMA CreateSafeModeFileKeeps ==
    ASSUME IInv, CreateSafeModeFile
    PROVE  IInv'
<1>1. work # <<>> /\ Top.do = "safe"
  BY DEF CreateSafeModeFile, At
<1>2. work' = Tail(work)
  BY DEF CreateSafeModeFile, Then
<1>3. /\ safeMode' = TRUE
      /\ UNCHANGED <<files, kept, config, recovery, disabled, recovered, pending,
                     known, loaded, reloading, started, blamed, owned, crashed>>
  BY DEF CreateSafeModeFile, disk, memory, history
<1>4. TypeOK'
  BY <1>1, Seen, <1>2, Popped, <1>3 DEF IInv, TypeOK, Entry, Operations
<1>5. StartInv'
  BY <1>1, Seen, <1>2, Popped, <1>3 DEF IInv, StartInv
<1>6. SlotInv'
  BY <1>1, Seen, <1>2, Popped, <1>3 DEF IInv, SlotInv, InCode, Guarded, NextTo, Above, Under
<1>7. ListInv'
  BY <1>1, Seen, <1>2, Popped, <1>3 DEF IInv, ListInv, NextTo, Above, Under
<1>8. DisabledInv'
  BY <1>1, Seen, <1>2, Popped, <1>3 DEF IInv, DisabledInv, NextTo, Above, Under
<1>9. SaveInv'
  BY <1>1, Seen, <1>2, Popped, <1>3 DEF IInv, SaveInv
<1>10. PackageInv'
  BY <1>1, Seen, <1>2, Popped, <1>3 DEF IInv, PackageInv
<1> QED
  BY <1>2, <1>1, Popped, <1>4, <1>5, <1>6, <1>7, <1>8, <1>9, <1>10 DEF IInv

\* The manager has started.
LEMMA ReadyKeeps ==
    ASSUME IInv, Ready
    PROVE  IInv'
<1>1. work # <<>> /\ Top.do = "ready"
  BY DEF Ready, At
<1>2. work' = Tail(work)
  BY DEF Ready, Then
<1>3. /\ started' = TRUE
      /\ UNCHANGED <<files, kept, config, recovery, safeMode, disabled, recovered,
                     pending, known, loaded, reloading, blamed, owned, crashed>>
  BY DEF Ready, disk, memory, history
<1>4. TypeOK'
  BY <1>1, Seen, <1>2, Popped, <1>3 DEF IInv, TypeOK, Entry, Operations
<1>5. StartInv'
  BY <1>1, Seen, <1>2, Popped, <1>3 DEF IInv, StartInv, NextTo, Above, Under
<1>6. SlotInv'
  BY <1>1, Seen, <1>2, Popped, <1>3 DEF IInv, SlotInv, InCode, Guarded, NextTo, Above, Under
<1>7. ListInv'
  BY <1>1, Seen, <1>2, Popped, <1>3 DEF IInv, ListInv, NextTo, Above, Under
<1>8. DisabledInv'
  BY <1>1, Seen, <1>2, Popped, <1>3 DEF IInv, DisabledInv, NextTo, Above, Under
<1>9. SaveInv'
  BY <1>1, Seen, <1>2, Popped, <1>3 DEF IInv, SaveInv
<1>10. PackageInv'
  BY <1>1, Seen, <1>2, Popped, <1>3 DEF IInv, PackageInv
<1> QED
  BY <1>2, <1>1, Popped, <1>4, <1>5, <1>6, <1>7, <1>8, <1>9, <1>10 DEF IInv

\* The end of disablePlugin.
LEMMA DisableKeeps ==
    ASSUME IInv, NEW p \in Plugins, Disable(p)
    PROVE  IInv'
<1>1. work # <<>> /\ Top.do = "disable" /\ Top.of = {p}
  BY DEF Disable, At
<1>2. work' = Tail(work)
  BY DEF Disable, Then
<1>3. /\ config' = disabled \cup {p}
      /\ disabled' = disabled \cup {p}
      /\ recovered' = recovered \ {p}
      /\ UNCHANGED <<files, kept, recovery, safeMode, pending, known, loaded,
                     reloading, started, blamed, owned, crashed>>
  BY DEF Disable, disk, memory, history
<1>4. TypeOK'
  BY <1>1, Seen, <1>2, Popped, <1>3 DEF IInv, TypeOK, Entry, Operations
<1>5. StartInv'
  BY <1>1, Seen, <1>2, Popped, <1>3 DEF IInv, StartInv
<1>6. SlotInv'
  BY <1>1, Seen, <1>2, Popped, <1>3 DEF IInv, SlotInv, InCode, Guarded, NextTo
<1>7. ListInv'
  BY <1>1, Seen, <1>2, Popped, <1>3 DEF IInv, ListInv, NextTo
<1>8. DisabledInv'
  BY <1>1, Seen, <1>2, Popped, <1>3 DEF IInv, DisabledInv, NextTo, Above, Under
<1>9. SaveInv'
  BY <1>1, Seen, <1>2, Popped, <1>3 DEF IInv, SaveInv, NextTo
<1>10. PackageInv'
  BY <1>1, Seen, <1>2, Popped, <1>3 DEF IInv, PackageInv
<1> QED
  BY <1>2, <1>1, Popped, <1>4, <1>5, <1>6, <1>7, <1>8, <1>9, <1>10 DEF IInv

\* The configuration is saved.
LEMMA SaveConfigKeeps ==
    ASSUME IInv, SaveConfig
    PROVE  IInv'
<1>1. work # <<>> /\ Top.do = "saveConfig"
  BY DEF SaveConfig, At
<1>2. work' = Tail(work)
  BY DEF SaveConfig, Then
<1>3. /\ config' = disabled
      /\ UNCHANGED <<files, kept, recovery, safeMode, disabled, recovered, pending,
                     known, loaded, reloading, started, blamed, owned, crashed>>
  BY DEF SaveConfig, disk, memory, history
<1>4. TypeOK'
  BY <1>1, Seen, <1>2, Popped, <1>3 DEF IInv, TypeOK, Entry, Operations
<1>5. StartInv'
  BY <1>1, Seen, <1>2, Popped, <1>3 DEF IInv, StartInv
<1>6. SlotInv'
  BY <1>1, Seen, <1>2, Popped, <1>3 DEF IInv, SlotInv, InCode, Guarded, NextTo, Above, Under
<1>7. ListInv'
  BY <1>1, Seen, <1>2, Popped, <1>3 DEF IInv, ListInv, NextTo, Above, Under
<1>8. DisabledInv'
  BY <1>1, Seen, <1>2, Popped, <1>3 DEF IInv, DisabledInv, NextTo, Above, Under
<1>9. SaveInv'
  BY <1>1, Seen, <1>2, Popped, <1>3 DEF IInv, SaveInv
<1>10. PackageInv'
  BY <1>1, Seen, <1>2, Popped, <1>3 DEF IInv, PackageInv
<1> QED
  BY <1>2, <1>1, Popped, <1>4, <1>5, <1>6, <1>7, <1>8, <1>9, <1>10 DEF IInv

\* The state of recovery is saved.
LEMMA SaveRecoveryKeeps ==
    ASSUME IInv, SaveRecovery
    PROVE  IInv'
<1>1. work # <<>> /\ Top.do = "saveRecovery"
  BY DEF SaveRecovery, At
<1>2. work' = Tail(work)
  BY DEF SaveRecovery, Then
<1>3. /\ recovery' = Saved(recovered, pending)
      /\ UNCHANGED <<files, kept, config, safeMode, disabled, recovered, pending,
                     known, loaded, reloading, started, blamed, owned, crashed>>
  BY DEF SaveRecovery, disk, memory, history
<1>4. TypeOK'
  BY <1>1, Seen, <1>2, Popped, <1>3 DEF IInv, TypeOK, Entry, Operations
<1>5. StartInv'
  BY <1>1, Seen, <1>2, Popped, <1>3 DEF IInv, StartInv
<1>6. SlotInv'
  BY <1>1, Seen, <1>2, Popped, <1>3 DEF IInv, SlotInv, InCode, Guarded, NextTo, Above, Under
<1>7. ListInv'
  BY <1>1, Seen, <1>2, Popped, <1>3 DEF IInv, ListInv, NextTo, Above, Under
<1>8. DisabledInv'
  BY <1>1, Seen, <1>2, Popped, <1>3 DEF IInv, DisabledInv, NextTo, Above, Under
<1>9. SaveInv'
  BY <1>1, Seen, <1>2, Popped, <1>3 DEF IInv, SaveInv
<1>10. PackageInv'
  BY <1>1, Seen, <1>2, Popped, <1>3 DEF IInv, PackageInv
<1> QED
  BY <1>2, <1>1, Popped, <1>4, <1>5, <1>6, <1>7, <1>8, <1>9, <1>10 DEF IInv

\* All are forgiven.
LEMMA ForgiveEndsKeeps ==
    ASSUME IInv, ForgiveEnds
    PROVE  IInv'
<1> DEFINE a == E("saveConfig", {})
<1>1. work # <<>> /\ Top.do = "forgive" /\ recovered = {}
  BY DEF ForgiveEnds, At
<1>2. a \in Entry /\ a.do = "saveConfig" /\ a.of = {} /\ ~a.calledBack
  BY DEF E, Entry
<1> HIDE DEF a
<1>3. FitsOn(a, Tail(work))
  BY <1>1, Seen, <1>2 DEF FitsOn, NextTo, Below, Above, Under
<1>4. /\ work' \in Seq(Entry) /\ WellFormed(work)' /\ Entries' = {a} \cup Below
      /\ Top' = a /\ work' # <<>>
  <2>1. work' = <<a>> \o Tail(work)
    BY <1>1 DEF ForgiveEnds, Do, E, Then, a
  <2> QED
    BY <1>1, Seen, <1>2, <1>3, <2>1, Puts1
<1>5. UNCHANGED <<files, kept, config, recovery, safeMode, disabled, recovered,
                   pending, known, loaded, reloading, started, blamed, owned, crashed>>
  BY DEF ForgiveEnds, disk, memory, history
<1>6. TypeOK'
  BY <1>1, Seen, <1>2, <1>4, <1>5 DEF IInv, TypeOK, Entry, Operations
<1>7. StartInv'
  BY <1>1, Seen, <1>2, <1>4, <1>5 DEF IInv, StartInv
<1>8. SlotInv'
  BY <1>1, Seen, <1>2, <1>4, <1>5 DEF IInv, SlotInv, InCode, Guarded
<1>9. ListInv'
  BY <1>1, Seen, <1>2, <1>4, <1>5 DEF IInv, ListInv
<1>10. DisabledInv'
  BY <1>1, Seen, <1>2, <1>4, <1>5 DEF IInv, DisabledInv
<1>11. SaveInv'
  BY <1>1, Seen, <1>2, <1>4, <1>5 DEF IInv, SaveInv
<1>12. PackageInv'
  BY <1>1, Seen, <1>2, <1>4, <1>5 DEF IInv, PackageInv
<1> QED
  BY <1>4, <1>6, <1>7, <1>8, <1>9, <1>10, <1>11, <1>12 DEF IInv

\* A reload begins, or begins again.
LEMMA ReloadKeeps ==
    ASSUME IInv, Reload \/ ReloadAgain
    PROVE  IInv'
<1> DEFINE a == E("unloadAll", {})
           b == E("read", {})
           c == E("reloadScan", {})
           d == E("again", {})
<1>1. work # <<>> /\ Top.do \in {"reload", "again"}
  BY DEF Reload, ReloadAgain, At
<1>2. /\ a \in Entry /\ a.do = "unloadAll" /\ a.of = {} /\ ~a.calledBack
      /\ b \in Entry /\ b.do = "read" /\ b.of = {} /\ ~b.calledBack
      /\ c \in Entry /\ c.do = "reloadScan" /\ c.of = {} /\ ~c.calledBack
      /\ d \in Entry /\ d.do = "again" /\ d.of = {} /\ ~d.calledBack
  BY DEF E, Entry
<1> HIDE DEF a, b, c, d
<1>3. FitsOn(d, Tail(work))
  BY <1>1, Seen, <1>2 DEF FitsOn, NextTo, Below, Above, Under
<1>4. /\ Sits(a, b, {b, c, d} \cup Below) /\ Sits(b, c, {c, d} \cup Below)
      /\ Sits(c, d, {d} \cup Below)
  BY <1>1, Seen, <1>2 DEF Sits, NextTo, Above, Under
<1>5. /\ work' \in Seq(Entry) /\ WellFormed(work)' /\ Entries' = {a, b, c, d} \cup Below
      /\ Top' = a /\ work' # <<>>
  <2>1. work' = (<<a>> \o <<b>> \o <<c>> \o <<d>>) \o Tail(work)
    BY <1>1 DEF Reload, ReloadAgain, ReloadBody, Do, E, Then, a, b, c, d
  <2> QED
    BY <1>1, Seen, <1>2, <1>3, <1>4, <2>1, Puts4
<1>6. /\ reloading' = "busy"
      /\ UNCHANGED <<files, kept, config, recovery, safeMode, disabled, recovered,
                     pending, known, loaded, started, blamed, owned, crashed>>
  BY DEF Reload, ReloadAgain, disk, memory, history
<1>7. TypeOK'
  BY <1>1, Seen, <1>2, <1>5, <1>6 DEF IInv, TypeOK, Entry, Operations
<1>8. StartInv'
  BY <1>1, Seen, <1>2, <1>5, <1>6 DEF IInv, StartInv
<1>9. SlotInv'
  BY <1>1, Seen, <1>2, <1>5, <1>6 DEF IInv, SlotInv, InCode, Guarded
<1>10. ListInv'
  BY <1>1, Seen, <1>2, <1>5, <1>6 DEF IInv, ListInv
<1>11. DisabledInv'
  BY <1>1, Seen, <1>2, <1>5, <1>6 DEF IInv, DisabledInv
<1>12. SaveInv'
  BY <1>1, Seen, <1>2, <1>5, <1>6 DEF IInv, SaveInv
<1>13. PackageInv'
  BY <1>1, Seen, <1>2, <1>5, <1>6 DEF IInv, PackageInv
<1> QED
  BY <1>5, <1>7, <1>8, <1>9, <1>10, <1>11, <1>12, <1>13 DEF IInv

\* A reload scans under an operation of its own.
LEMMA ReloadScanRecordedKeeps ==
    ASSUME IInv, ReloadScan, ~safeMode /\ ~pending.active
    PROVE  IInv'
<1> DEFINE a == E("rescan", {})
           b == E("finish", {})
<1>1. work # <<>> /\ Top.do = "reloadScan" /\ ~pending.active
  BY DEF ReloadScan, At
<1>2. /\ a \in Entry /\ a.do = "rescan" /\ a.of = {} /\ ~a.calledBack
      /\ b \in Entry /\ b.do = "finish" /\ b.of = {} /\ ~b.calledBack
  BY DEF E, Entry
<1> HIDE DEF a, b
<1>3. FitsOn(b, Tail(work))
  BY <1>1, Seen, <1>2 DEF FitsOn, NextTo, Below, Above, Under
<1>4. Sits(a, b, {b} \cup Below)
  BY <1>1, Seen, <1>2 DEF Sits, NextTo, Above, Under
<1>5. /\ work' \in Seq(Entry) /\ WellFormed(work)' /\ Entries' = {a, b} \cup Below
      /\ Top' = a /\ work' # <<>>
  <2>1. work' = (<<a>> \o <<b>>) \o Tail(work)
    BY <1>1 DEF ReloadScan, Do, E, Then, a, b
  <2> QED
    BY <1>1, Seen, <1>2, <1>3, <1>4, <2>1, Puts2
<1>6. /\ recovery' = Saved(recovered, Operation({}))
      /\ pending' = Operation({})
      /\ UNCHANGED <<files, kept, config, safeMode, disabled, recovered, known,
                     loaded, reloading, started, blamed, owned, crashed>>
  BY DEF ReloadScan, Start, disk, memory, history
<1>7. TypeOK'
  BY <1>1, Seen, <1>2, <1>5, <1>6 DEF IInv, TypeOK, Entry, Operations
<1>8. StartInv'
  BY <1>1, Seen, <1>2, <1>5, <1>6 DEF IInv, StartInv
<1>9. SlotInv'
  BY <1>1, Seen, <1>2, <1>5, <1>6 DEF IInv, SlotInv, InCode, Guarded
<1>10. ListInv'
  BY <1>1, Seen, <1>2, <1>5, <1>6 DEF IInv, ListInv
<1>11. DisabledInv'
  BY <1>1, Seen, <1>2, <1>5, <1>6 DEF IInv, DisabledInv, NextTo, Above, Under
<1>12. SaveInv'
  BY <1>1, Seen, <1>2, <1>5, <1>6 DEF IInv, SaveInv
<1>13. PackageInv'
  BY <1>1, Seen, <1>2, <1>5, <1>6 DEF IInv, PackageInv
<1> QED
  BY <1>5, <1>7, <1>8, <1>9, <1>10, <1>11, <1>12, <1>13 DEF IInv

\* A reload scans in safe mode.
LEMMA ReloadScanKeeps ==
    ASSUME IInv, ReloadScan, ~(~safeMode /\ ~pending.active)
    PROVE  IInv'
<1> DEFINE a == E("rescan", {})
<1>1. work # <<>> /\ Top.do = "reloadScan"
  BY DEF ReloadScan, At
<1>2. a \in Entry /\ a.do = "rescan" /\ a.of = {} /\ ~a.calledBack
  BY DEF E, Entry
<1> HIDE DEF a
<1>3. FitsOn(a, Tail(work))
  BY <1>1, Seen, <1>2 DEF FitsOn, NextTo, Below, Above, Under
<1>4. /\ work' \in Seq(Entry) /\ WellFormed(work)' /\ Entries' = {a} \cup Below
      /\ Top' = a /\ work' # <<>>
  <2>1. work' = <<a>> \o Tail(work)
    BY <1>1 DEF ReloadScan, Do, E, Then, a
  <2> QED
    BY <1>1, Seen, <1>2, <1>3, <2>1, Puts1
<1>5. UNCHANGED <<files, kept, config, recovery, safeMode, disabled, recovered,
                   pending, known, loaded, reloading, started, blamed, owned, crashed>>
  BY DEF ReloadScan, disk, memory, history
<1>6. TypeOK'
  BY <1>1, Seen, <1>2, <1>4, <1>5 DEF IInv, TypeOK, Entry, Operations
<1>7. StartInv'
  BY <1>1, Seen, <1>2, <1>4, <1>5 DEF IInv, StartInv
<1>8. SlotInv'
  BY <1>1, Seen, <1>2, <1>4, <1>5 DEF IInv, SlotInv, InCode, Guarded
<1>9. ListInv'
  BY <1>1, Seen, <1>2, <1>4, <1>5 DEF IInv, ListInv
<1>10. DisabledInv'
  BY <1>1, Seen, <1>2, <1>4, <1>5 DEF IInv, DisabledInv
<1>11. SaveInv'
  BY <1>1, Seen, <1>2, <1>4, <1>5 DEF IInv, SaveInv
<1>12. PackageInv'
  BY <1>1, Seen, <1>2, <1>4, <1>5 DEF IInv, PackageInv
<1> QED
  BY <1>4, <1>6, <1>7, <1>8, <1>9, <1>10, <1>11, <1>12 DEF IInv

\* A reload ends.
LEMMA ReloadEndsKeeps ==
    ASSUME IInv, ReloadEnds
    PROVE  IInv'
<1>1. work # <<>> /\ Top.do = "again"
  BY DEF ReloadEnds, At
<1>2. work' = Tail(work)
  BY DEF ReloadEnds, Then
<1>3. /\ reloading' = "no"
      /\ UNCHANGED <<files, kept, config, recovery, safeMode, disabled, recovered,
                     pending, known, loaded, started, blamed, owned, crashed>>
  BY DEF ReloadEnds, disk, memory, history
<1>4. TypeOK'
  BY <1>1, Seen, <1>2, Popped, <1>3 DEF IInv, TypeOK, Entry, Operations
<1>5. StartInv'
  BY <1>1, Seen, <1>2, Popped, <1>3 DEF IInv, StartInv
<1>6. SlotInv'
  BY <1>1, Seen, <1>2, Popped, <1>3 DEF IInv, SlotInv, InCode, Guarded, NextTo, Above, Under
<1>7. ListInv'
  BY <1>1, Seen, <1>2, Popped, <1>3 DEF IInv, ListInv, NextTo, Above, Under
<1>8. DisabledInv'
  BY <1>1, Seen, <1>2, Popped, <1>3 DEF IInv, DisabledInv, NextTo, Above, Under
<1>9. SaveInv'
  BY <1>1, Seen, <1>2, Popped, <1>3 DEF IInv, SaveInv
<1>10. PackageInv'
  BY <1>1, Seen, <1>2, Popped, <1>3 DEF IInv, PackageInv
<1> QED
  BY <1>2, <1>1, Popped, <1>4, <1>5, <1>6, <1>7, <1>8, <1>9, <1>10 DEF IInv

\* The package that was there is moved aside.
LEMMA CopyKeeps ==
    ASSUME IInv, NEW p \in Plugins, Copy(p)
    PROVE  IInv'
<1> DEFINE a == E("place", {p})
<1>1. work # <<>> /\ Top.do = "copy" /\ Top.of = {p}
  BY DEF Copy, At
<1>2. a \in Entry /\ a.do = "place" /\ a.of = {p} /\ ~a.calledBack
  BY DEF E, Entry
<1> HIDE DEF a
<1>3. FitsOn(a, Tail(work))
  BY <1>1, Seen, <1>2 DEF FitsOn, NextTo, Below, Above, Under
<1>4. /\ work' \in Seq(Entry) /\ WellFormed(work)' /\ Entries' = {a} \cup Below
      /\ Top' = a /\ work' # <<>>
  <2>1. work' = <<a>> \o Tail(work)
    BY <1>1 DEF Copy, Do, E, Then, a
  <2> QED
    BY <1>1, Seen, <1>2, <1>3, <2>1, Puts1
<1>5. /\ files' = files \ {p}
      /\ kept' = (kept \ {p}) \cup (files \cap {p})
      /\ UNCHANGED <<config, recovery, safeMode, disabled, recovered, pending, known,
                     loaded, reloading, started, blamed, owned, crashed>>
  BY DEF Copy, disk, memory, history
<1>6. TypeOK'
  BY <1>1, Seen, <1>2, <1>4, <1>5 DEF IInv, TypeOK, Entry, Operations
<1>7. StartInv'
  BY <1>1, Seen, <1>2, <1>4, <1>5 DEF IInv, StartInv
<1>8. SlotInv'
  BY <1>1, Seen, <1>2, <1>4, <1>5 DEF IInv, SlotInv, InCode, Guarded
<1>9. ListInv'
  BY <1>1, Seen, <1>2, <1>4, <1>5 DEF IInv, ListInv
<1>10. DisabledInv'
  BY <1>1, Seen, <1>2, <1>4, <1>5 DEF IInv, DisabledInv
<1>11. SaveInv'
  BY <1>1, Seen, <1>2, <1>4, <1>5 DEF IInv, SaveInv
<1>12. PackageInv'
  BY <1>1, Seen, <1>2, <1>4, <1>5 DEF IInv, PackageInv, NextTo, Above, Under
<1> QED
  BY <1>4, <1>6, <1>7, <1>8, <1>9, <1>10, <1>11, <1>12 DEF IInv

\* It cannot be moved.
LEMMA CopyFailsKeeps ==
    ASSUME IInv, NEW p \in Plugins, CopyFails(p)
    PROVE  IInv'
<1> DEFINE a == E("rescan", {})
           b == E("finish", {p})
<1>1. work # <<>> /\ Top.do = "copy" /\ Top.of = {p}
  BY DEF CopyFails, At
<1>2. /\ a \in Entry /\ a.do = "rescan" /\ a.of = {} /\ ~a.calledBack
      /\ b \in Entry /\ b.do = "finish" /\ b.of = {p} /\ ~b.calledBack
  BY DEF E, Entry
<1> HIDE DEF a, b
<1>3. FitsOn(b, Tail(work))
  BY <1>1, Seen, <1>2 DEF FitsOn, NextTo, Below, Above, Under
<1>4. Sits(a, b, {b} \cup Below)
  BY <1>1, Seen, <1>2 DEF Sits, NextTo, Above, Under
<1>5. /\ work' \in Seq(Entry) /\ WellFormed(work)' /\ Entries' = {a, b} \cup Below
      /\ Top' = a /\ work' # <<>>
  <2>1. work' = (<<a>> \o <<b>>) \o Tail(work)
    BY <1>1 DEF CopyFails, Do, E, Then, a, b
  <2> QED
    BY <1>1, Seen, <1>2, <1>3, <1>4, <2>1, Puts2
<1>6. /\ kept' = kept \ {p}
      /\ UNCHANGED <<files, config, recovery, safeMode, disabled, recovered, pending,
                     known, loaded, reloading, started, blamed, owned, crashed>>
  BY DEF CopyFails, disk, memory, history
<1>7. TypeOK'
  BY <1>1, Seen, <1>2, <1>5, <1>6 DEF IInv, TypeOK, Entry, Operations
<1>8. StartInv'
  BY <1>1, Seen, <1>2, <1>5, <1>6 DEF IInv, StartInv
<1>9. SlotInv'
  BY <1>1, Seen, <1>2, <1>5, <1>6 DEF IInv, SlotInv, InCode, Guarded
<1>10. ListInv'
  BY <1>1, Seen, <1>2, <1>5, <1>6 DEF IInv, ListInv
<1>11. DisabledInv'
  BY <1>1, Seen, <1>2, <1>5, <1>6 DEF IInv, DisabledInv
<1>12. SaveInv'
  BY <1>1, Seen, <1>2, <1>5, <1>6 DEF IInv, SaveInv
<1>13. PackageInv'
  BY <1>1, Seen, <1>2, <1>5, <1>6 DEF IInv, PackageInv, NextTo, Above, Under
<1> QED
  BY <1>5, <1>7, <1>8, <1>9, <1>10, <1>11, <1>12, <1>13 DEF IInv

\* The new package is placed.
LEMMA PlaceKeeps ==
    ASSUME IInv, NEW p \in Plugins, Place(p)
    PROVE  IInv'
<1> DEFINE a == E("allow", {p})
           b == E("saveConfig", {})
           c == E("installed", {p})
<1>1. work # <<>> /\ Top.do = "place" /\ Top.of = {p}
  BY DEF Place, At
<1>2. /\ a \in Entry /\ a.do = "allow" /\ a.of = {p} /\ ~a.calledBack
      /\ b \in Entry /\ b.do = "saveConfig" /\ b.of = {} /\ ~b.calledBack
      /\ c \in Entry /\ c.do = "installed" /\ c.of = {p} /\ ~c.calledBack
  BY DEF E, Entry
<1> HIDE DEF a, b, c
<1>3. FitsOn(c, Tail(work))
  BY <1>1, Seen, <1>2 DEF FitsOn, NextTo, Below, Above, Under
<1>4. Sits(a, b, {b, c} \cup Below) /\ Sits(b, c, {c} \cup Below)
  BY <1>1, Seen, <1>2 DEF Sits, NextTo, Above, Under
<1>5. /\ work' \in Seq(Entry) /\ WellFormed(work)' /\ Entries' = {a, b, c} \cup Below
      /\ Top' = a /\ work' # <<>>
  <2>1. work' = (<<a>> \o <<b>> \o <<c>>) \o Tail(work)
    BY <1>1 DEF Place, Do, E, Then, a, b, c
  <2> QED
    BY <1>1, Seen, <1>2, <1>3, <1>4, <2>1, Puts3
<1>6. /\ files' = files \cup {p}
      /\ UNCHANGED <<kept, config, recovery, safeMode, disabled, recovered, pending,
                     known, loaded, reloading, started, blamed, owned, crashed>>
  BY DEF Place, disk, memory, history
<1>7. TypeOK'
  BY <1>1, Seen, <1>2, <1>5, <1>6 DEF IInv, TypeOK, Entry, Operations
<1>8. StartInv'
  BY <1>1, Seen, <1>2, <1>5, <1>6 DEF IInv, StartInv
<1>9. SlotInv'
  BY <1>1, Seen, <1>2, <1>5, <1>6 DEF IInv, SlotInv, InCode, Guarded
<1>10. ListInv'
  BY <1>1, Seen, <1>2, <1>5, <1>6 DEF IInv, ListInv
<1>11. DisabledInv'
  BY <1>1, Seen, <1>2, <1>5, <1>6 DEF IInv, DisabledInv
<1>12. SaveInv'
  BY <1>1, Seen, <1>2, <1>5, <1>6 DEF IInv, SaveInv
<1>13. PackageInv'
  BY <1>1, Seen, <1>2, <1>5, <1>6 DEF IInv, PackageInv
<1> QED
  BY <1>5, <1>7, <1>8, <1>9, <1>10, <1>11, <1>12, <1>13 DEF IInv

\* It cannot be placed.
LEMMA PlaceFailsKeeps ==
    ASSUME IInv, NEW p \in Plugins, PlaceFails(p)
    PROVE  IInv'
<1> DEFINE a == E("rescan", {})
           b == E("finish", {p})
<1>1. work # <<>> /\ Top.do = "place" /\ Top.of = {p}
  BY DEF PlaceFails, At
<1>2. /\ a \in Entry /\ a.do = "rescan" /\ a.of = {} /\ ~a.calledBack
      /\ b \in Entry /\ b.do = "finish" /\ b.of = {p} /\ ~b.calledBack
  BY DEF E, Entry
<1> HIDE DEF a, b
<1>3. FitsOn(b, Tail(work))
  BY <1>1, Seen, <1>2 DEF FitsOn, NextTo, Below, Above, Under
<1>4. Sits(a, b, {b} \cup Below)
  BY <1>1, Seen, <1>2 DEF Sits, NextTo, Above, Under
<1>5. /\ work' \in Seq(Entry) /\ WellFormed(work)' /\ Entries' = {a, b} \cup Below
      /\ Top' = a /\ work' # <<>>
  <2>1. work' = (<<a>> \o <<b>>) \o Tail(work)
    BY <1>1 DEF PlaceFails, Do, E, Then, a, b
  <2> QED
    BY <1>1, Seen, <1>2, <1>3, <1>4, <2>1, Puts2
<1>6. /\ files' = (files \ {p}) \cup (kept \cap {p})
      /\ kept' = kept \ {p}
      /\ UNCHANGED <<config, recovery, safeMode, disabled, recovered, pending, known,
                     loaded, reloading, started, blamed, owned, crashed>>
  BY DEF PlaceFails, RestoreBackup, disk, memory, history
<1>7. TypeOK'
  BY <1>1, Seen, <1>2, <1>5, <1>6 DEF IInv, TypeOK, Entry, Operations
<1>8. StartInv'
  BY <1>1, Seen, <1>2, <1>5, <1>6 DEF IInv, StartInv
<1>9. SlotInv'
  BY <1>1, Seen, <1>2, <1>5, <1>6 DEF IInv, SlotInv, InCode, Guarded
<1>10. ListInv'
  BY <1>1, Seen, <1>2, <1>5, <1>6 DEF IInv, ListInv
<1>11. DisabledInv'
  BY <1>1, Seen, <1>2, <1>5, <1>6 DEF IInv, DisabledInv
<1>12. SaveInv'
  BY <1>1, Seen, <1>2, <1>5, <1>6 DEF IInv, SaveInv
<1>13. PackageInv'
  BY <1>1, Seen, <1>2, <1>5, <1>6 DEF IInv, PackageInv, NextTo, Above, Under
<1> QED
  BY <1>5, <1>7, <1>8, <1>9, <1>10, <1>11, <1>12, <1>13 DEF IInv

\* What is installed again is forgiven.
LEMMA AllowKeeps ==
    ASSUME IInv, NEW p \in Plugins, Allow(p)
    PROVE  IInv'
<1>1. work # <<>> /\ Top.do = "allow" /\ Top.of = {p}
  BY DEF Allow, At
<1>2. work' = Tail(work)
  BY DEF Allow, Then
<1>3. /\ recovery' = Saved(recovered \ {p}, pending)
      /\ disabled' = disabled \ {p}
      /\ recovered' = recovered \ {p}
      /\ blamed' = blamed \ {p}
      /\ UNCHANGED <<files, kept, config, safeMode, pending, known, loaded,
                     reloading, started, owned, crashed>>
  BY DEF Allow, Forgive, disk, memory, history
<1>4. TypeOK'
  BY <1>1, Seen, <1>2, Popped, <1>3 DEF IInv, TypeOK, Entry, Operations
<1>5. StartInv'
  BY <1>1, Seen, <1>2, Popped, <1>3 DEF IInv, StartInv
<1>6. SlotInv'
  BY <1>1, Seen, <1>2, Popped, <1>3 DEF IInv, SlotInv, InCode, Guarded, NextTo
<1>7. ListInv'
  BY <1>1, Seen, <1>2, Popped, <1>3 DEF IInv, ListInv, NextTo
<1>8. DisabledInv'
  BY <1>1, Seen, <1>2, Popped, <1>3 DEF IInv, DisabledInv, NextTo, Above, Under
<1>9. SaveInv'
  BY <1>1, Seen, <1>2, Popped, <1>3 DEF IInv, SaveInv, NextTo
<1>10. PackageInv'
  BY <1>1, Seen, <1>2, Popped, <1>3 DEF IInv, PackageInv
<1> QED
  BY <1>2, <1>1, Popped, <1>4, <1>5, <1>6, <1>7, <1>8, <1>9, <1>10 DEF IInv

\* Nothing is scanned in safe mode.
LEMMA InstalledSafeKeeps ==
    ASSUME IInv, NEW p \in Plugins, Installed(p), safeMode
    PROVE  IInv'
<1> DEFINE a == E("finish", {p})
           b == E("keep", {p})
<1>1. work # <<>> /\ Top.do = "installed" /\ Top.of = {p}
  BY DEF Installed, At
<1>2. /\ a \in Entry /\ a.do = "finish" /\ a.of = {p} /\ ~a.calledBack
      /\ b \in Entry /\ b.do = "keep" /\ b.of = {p} /\ ~b.calledBack
  BY DEF E, Entry
<1> HIDE DEF a, b
<1>3. FitsOn(b, Tail(work))
  BY <1>1, Seen, <1>2 DEF FitsOn, NextTo, Below, Above, Under
<1>4. Sits(a, b, {b} \cup Below)
  BY <1>1, Seen, <1>2 DEF Sits, NextTo, Above, Under
<1>5. /\ work' \in Seq(Entry) /\ WellFormed(work)' /\ Entries' = {a, b} \cup Below
      /\ Top' = a /\ work' # <<>>
  <2>1. work' = (<<a>> \o <<b>>) \o Tail(work)
    BY <1>1 DEF Installed, Do, E, Then, a, b
  <2> QED
    BY <1>1, Seen, <1>2, <1>3, <1>4, <2>1, Puts2
<1>6. UNCHANGED <<files, kept, config, recovery, safeMode, disabled, recovered,
                   pending, known, loaded, reloading, started, blamed, owned, crashed>>
  BY DEF Installed, disk, memory, history
<1>7. TypeOK'
  BY <1>1, Seen, <1>2, <1>5, <1>6 DEF IInv, TypeOK, Entry, Operations
<1>8. StartInv'
  BY <1>1, Seen, <1>2, <1>5, <1>6 DEF IInv, StartInv
<1>9. SlotInv'
  BY <1>1, Seen, <1>2, <1>5, <1>6 DEF IInv, SlotInv, InCode, Guarded
<1>10. ListInv'
  BY <1>1, Seen, <1>2, <1>5, <1>6 DEF IInv, ListInv
<1>11. DisabledInv'
  BY <1>1, Seen, <1>2, <1>5, <1>6 DEF IInv, DisabledInv
<1>12. SaveInv'
  BY <1>1, Seen, <1>2, <1>5, <1>6 DEF IInv, SaveInv
<1>13. PackageInv'
  BY <1>1, Seen, <1>2, <1>5, <1>6 DEF IInv, PackageInv
<1> QED
  BY <1>5, <1>7, <1>8, <1>9, <1>10, <1>11, <1>12, <1>13 DEF IInv

\* The new package is scanned.
LEMMA InstalledKeeps ==
    ASSUME IInv, NEW p \in Plugins, Installed(p), ~safeMode
    PROVE  IInv'
<1> DEFINE a == E("rescan", {})
           b == E("check", {p})
<1>1. work # <<>> /\ Top.do = "installed" /\ Top.of = {p}
  BY DEF Installed, At
<1>2. /\ a \in Entry /\ a.do = "rescan" /\ a.of = {} /\ ~a.calledBack
      /\ b \in Entry /\ b.do = "check" /\ b.of = {p} /\ ~b.calledBack
  BY DEF E, Entry
<1> HIDE DEF a, b
<1>3. FitsOn(b, Tail(work))
  BY <1>1, Seen, <1>2 DEF FitsOn, NextTo, Below, Above, Under
<1>4. Sits(a, b, {b} \cup Below)
  BY <1>1, Seen, <1>2 DEF Sits, NextTo, Above, Under
<1>5. /\ work' \in Seq(Entry) /\ WellFormed(work)' /\ Entries' = {a, b} \cup Below
      /\ Top' = a /\ work' # <<>>
  <2>1. work' = (<<a>> \o <<b>>) \o Tail(work)
    BY <1>1 DEF Installed, Do, E, Then, a, b
  <2> QED
    BY <1>1, Seen, <1>2, <1>3, <1>4, <2>1, Puts2
<1>6. UNCHANGED <<files, kept, config, recovery, safeMode, disabled, recovered,
                   pending, known, loaded, reloading, started, blamed, owned, crashed>>
  BY DEF Installed, disk, memory, history
<1>7. TypeOK'
  BY <1>1, Seen, <1>2, <1>5, <1>6 DEF IInv, TypeOK, Entry, Operations
<1>8. StartInv'
  BY <1>1, Seen, <1>2, <1>5, <1>6 DEF IInv, StartInv
<1>9. SlotInv'
  BY <1>1, Seen, <1>2, <1>5, <1>6 DEF IInv, SlotInv, InCode, Guarded
<1>10. ListInv'
  BY <1>1, Seen, <1>2, <1>5, <1>6 DEF IInv, ListInv
<1>11. DisabledInv'
  BY <1>1, Seen, <1>2, <1>5, <1>6 DEF IInv, DisabledInv
<1>12. SaveInv'
  BY <1>1, Seen, <1>2, <1>5, <1>6 DEF IInv, SaveInv
<1>13. PackageInv'
  BY <1>1, Seen, <1>2, <1>5, <1>6 DEF IInv, PackageInv
<1> QED
  BY <1>5, <1>7, <1>8, <1>9, <1>10, <1>11, <1>12, <1>13 DEF IInv

\* The new package does not load.
LEMMA CheckFailsKeeps ==
    ASSUME IInv, NEW p \in Plugins, CheckInstalled(p), p \in known \ loaded
    PROVE  IInv'
<1> DEFINE a == E("unloadAll", {})
           b == E("restore", {p})
           c == E("read", {})
           d == E("rescan", {})
           e == E("finish", {p})
<1>1. work # <<>> /\ Top.do = "check" /\ Top.of = {p}
  BY DEF CheckInstalled, At
<1>2. /\ a \in Entry /\ a.do = "unloadAll" /\ a.of = {} /\ ~a.calledBack
      /\ b \in Entry /\ b.do = "restore" /\ b.of = {p} /\ ~b.calledBack
      /\ c \in Entry /\ c.do = "read" /\ c.of = {} /\ ~c.calledBack
      /\ d \in Entry /\ d.do = "rescan" /\ d.of = {} /\ ~d.calledBack
      /\ e \in Entry /\ e.do = "finish" /\ e.of = {p} /\ ~e.calledBack
  BY DEF E, Entry
<1> HIDE DEF a, b, c, d, e
<1>3. FitsOn(e, Tail(work))
  BY <1>1, Seen, <1>2 DEF FitsOn, NextTo, Below, Above, Under
<1>4. /\ Sits(a, b, {b, c, d, e} \cup Below) /\ Sits(b, c, {c, d, e} \cup Below)
      /\ Sits(c, d, {d, e} \cup Below) /\ Sits(d, e, {e} \cup Below)
  BY <1>1, Seen, <1>2 DEF Sits, NextTo, Above, Under
<1>5. /\ work' \in Seq(Entry) /\ WellFormed(work)' /\ Entries' = {a, b, c, d, e} \cup Below
      /\ Top' = a /\ work' # <<>>
  <2>1. work' = (<<a>> \o <<b>> \o <<c>> \o <<d>> \o <<e>>) \o Tail(work)
    BY <1>1 DEF CheckInstalled, Do, E, Then, a, b, c, d, e
  <2> QED
    BY <1>1, Seen, <1>2, <1>3, <1>4, <2>1, Puts5
<1>6. UNCHANGED <<files, kept, config, recovery, safeMode, disabled, recovered,
                   pending, known, loaded, reloading, started, blamed, owned, crashed>>
  BY DEF CheckInstalled, disk, memory, history
<1>7. TypeOK'
  BY <1>1, Seen, <1>2, <1>5, <1>6 DEF IInv, TypeOK, Entry, Operations
<1>8. StartInv'
  BY <1>1, Seen, <1>2, <1>5, <1>6 DEF IInv, StartInv
<1>9. SlotInv'
  BY <1>1, Seen, <1>2, <1>5, <1>6 DEF IInv, SlotInv, InCode, Guarded
<1>10. ListInv'
  BY <1>1, Seen, <1>2, <1>5, <1>6 DEF IInv, ListInv
<1>11. DisabledInv'
  BY <1>1, Seen, <1>2, <1>5, <1>6 DEF IInv, DisabledInv
<1>12. SaveInv'
  BY <1>1, Seen, <1>2, <1>5, <1>6 DEF IInv, SaveInv
<1>13. PackageInv'
  BY <1>1, Seen, <1>2, <1>5, <1>6 DEF IInv, PackageInv
<1> QED
  BY <1>5, <1>7, <1>8, <1>9, <1>10, <1>11, <1>12, <1>13 DEF IInv

\* The new package is loaded.
LEMMA CheckSucceedsKeeps ==
    ASSUME IInv, NEW p \in Plugins, CheckInstalled(p), p \notin known \ loaded
    PROVE  IInv'
<1> DEFINE a == E("finish", {p})
           b == E("keep", {p})
<1>1. work # <<>> /\ Top.do = "check" /\ Top.of = {p}
  BY DEF CheckInstalled, At
<1>2. /\ a \in Entry /\ a.do = "finish" /\ a.of = {p} /\ ~a.calledBack
      /\ b \in Entry /\ b.do = "keep" /\ b.of = {p} /\ ~b.calledBack
  BY DEF E, Entry
<1> HIDE DEF a, b
<1>3. FitsOn(b, Tail(work))
  BY <1>1, Seen, <1>2 DEF FitsOn, NextTo, Below, Above, Under
<1>4. Sits(a, b, {b} \cup Below)
  BY <1>1, Seen, <1>2 DEF Sits, NextTo, Above, Under
<1>5. /\ work' \in Seq(Entry) /\ WellFormed(work)' /\ Entries' = {a, b} \cup Below
      /\ Top' = a /\ work' # <<>>
  <2>1. work' = (<<a>> \o <<b>>) \o Tail(work)
    BY <1>1 DEF CheckInstalled, Do, E, Then, a, b
  <2> QED
    BY <1>1, Seen, <1>2, <1>3, <1>4, <2>1, Puts2
<1>6. UNCHANGED <<files, kept, config, recovery, safeMode, disabled, recovered,
                   pending, known, loaded, reloading, started, blamed, owned, crashed>>
  BY DEF CheckInstalled, disk, memory, history
<1>7. TypeOK'
  BY <1>1, Seen, <1>2, <1>5, <1>6 DEF IInv, TypeOK, Entry, Operations
<1>8. StartInv'
  BY <1>1, Seen, <1>2, <1>5, <1>6 DEF IInv, StartInv
<1>9. SlotInv'
  BY <1>1, Seen, <1>2, <1>5, <1>6 DEF IInv, SlotInv, InCode, Guarded
<1>10. ListInv'
  BY <1>1, Seen, <1>2, <1>5, <1>6 DEF IInv, ListInv
<1>11. DisabledInv'
  BY <1>1, Seen, <1>2, <1>5, <1>6 DEF IInv, DisabledInv
<1>12. SaveInv'
  BY <1>1, Seen, <1>2, <1>5, <1>6 DEF IInv, SaveInv
<1>13. PackageInv'
  BY <1>1, Seen, <1>2, <1>5, <1>6 DEF IInv, PackageInv
<1> QED
  BY <1>5, <1>7, <1>8, <1>9, <1>10, <1>11, <1>12, <1>13 DEF IInv

\* The old package comes back.
LEMMA RollBackKeeps ==
    ASSUME IInv, NEW p \in Plugins, RollBack(p)
    PROVE  IInv'
<1>1. work # <<>> /\ Top.do = "restore" /\ Top.of = {p}
  BY DEF RollBack, At
<1>2. work' = Tail(work)
  BY DEF RollBack, Then
<1>3. /\ files' = (files \ {p}) \cup (kept \cap {p})
      /\ kept' = kept \ {p}
      /\ UNCHANGED <<config, recovery, safeMode, disabled, recovered, pending, known,
                     loaded, reloading, started, blamed, owned, crashed>>
  BY DEF RollBack, RestoreBackup, disk, memory, history
<1>4. TypeOK'
  BY <1>1, Seen, <1>2, Popped, <1>3 DEF IInv, TypeOK, Entry, Operations
<1>5. StartInv'
  BY <1>1, Seen, <1>2, Popped, <1>3 DEF IInv, StartInv
<1>6. SlotInv'
  BY <1>1, Seen, <1>2, Popped, <1>3 DEF IInv, SlotInv, InCode, Guarded, NextTo, Above, Under
<1>7. ListInv'
  BY <1>1, Seen, <1>2, Popped, <1>3 DEF IInv, ListInv, NextTo, Above, Under
<1>8. DisabledInv'
  BY <1>1, Seen, <1>2, Popped, <1>3 DEF IInv, DisabledInv, NextTo, Above, Under
<1>9. SaveInv'
  BY <1>1, Seen, <1>2, Popped, <1>3 DEF IInv, SaveInv
<1>10. PackageInv'
  BY <1>1, Seen, <1>2, Popped, <1>3 DEF IInv, PackageInv, NextTo, Above, Under
<1> QED
  BY <1>2, <1>1, Popped, <1>4, <1>5, <1>6, <1>7, <1>8, <1>9, <1>10 DEF IInv

\* The old package is deleted.
LEMMA KeepInstalledKeeps ==
    ASSUME IInv, NEW p \in Plugins, KeepInstalled(p)
    PROVE  IInv'
<1>1. work # <<>> /\ Top.do = "keep" /\ Top.of = {p}
  BY DEF KeepInstalled, At
<1>2. work' = Tail(work)
  BY DEF KeepInstalled, Then
<1>3. /\ kept' = kept \ {p}
      /\ owned' = owned \cup {p}
      /\ UNCHANGED <<files, config, recovery, safeMode, disabled, recovered, pending,
                     known, loaded, reloading, started, blamed, crashed>>
  BY DEF KeepInstalled, disk, memory, history
<1>4. TypeOK'
  BY <1>1, Seen, <1>2, Popped, <1>3 DEF IInv, TypeOK, Entry, Operations
<1>5. StartInv'
  BY <1>1, Seen, <1>2, Popped, <1>3 DEF IInv, StartInv
<1>6. SlotInv'
  BY <1>1, Seen, <1>2, Popped, <1>3 DEF IInv, SlotInv, InCode, Guarded, NextTo, Above, Under
<1>7. ListInv'
  BY <1>1, Seen, <1>2, Popped, <1>3 DEF IInv, ListInv, NextTo, Above, Under
<1>8. DisabledInv'
  BY <1>1, Seen, <1>2, Popped, <1>3 DEF IInv, DisabledInv, NextTo, Above, Under
<1>9. SaveInv'
  BY <1>1, Seen, <1>2, Popped, <1>3 DEF IInv, SaveInv
<1>10. PackageInv'
  BY <1>1, Seen, <1>2, Popped, <1>3 DEF IInv, PackageInv, NextTo, Above, Under
<1> QED
  BY <1>2, <1>1, Popped, <1>4, <1>5, <1>6, <1>7, <1>8, <1>9, <1>10 DEF IInv

\* A package is deleted.
LEMMA DeleteKeeps ==
    ASSUME IInv, NEW p \in Plugins, Delete(p)
    PROVE  IInv'
<1> DEFINE a == E("forget", {p})
           b == E("saveRecovery", {})
           c == E("finish", {p})
<1>1. work # <<>> /\ Top.do = "delete" /\ Top.of = {p}
  BY DEF Delete, At
<1>2. /\ a \in Entry /\ a.do = "forget" /\ a.of = {p} /\ ~a.calledBack
      /\ b \in Entry /\ b.do = "saveRecovery" /\ b.of = {} /\ ~b.calledBack
      /\ c \in Entry /\ c.do = "finish" /\ c.of = {p} /\ ~c.calledBack
  BY DEF E, Entry
<1> HIDE DEF a, b, c
<1>3. FitsOn(c, Tail(work))
  BY <1>1, Seen, <1>2 DEF FitsOn, NextTo, Below, Above, Under
<1>4. Sits(a, b, {b, c} \cup Below) /\ Sits(b, c, {c} \cup Below)
  BY <1>1, Seen, <1>2 DEF Sits, NextTo, Above, Under
<1>5. /\ work' \in Seq(Entry) /\ WellFormed(work)' /\ Entries' = {a, b, c} \cup Below
      /\ Top' = a /\ work' # <<>>
  <2>1. work' = (<<a>> \o <<b>> \o <<c>>) \o Tail(work)
    BY <1>1 DEF Delete, Do, E, Then, a, b, c
  <2> QED
    BY <1>1, Seen, <1>2, <1>3, <1>4, <2>1, Puts3
<1>6. /\ files' = files \ {p}
      /\ owned' = owned \ {p}
      /\ UNCHANGED <<kept, config, recovery, safeMode, disabled, recovered, pending,
                     known, loaded, reloading, started, blamed, crashed>>
  BY DEF Delete, disk, memory, history
<1>7. TypeOK'
  BY <1>1, Seen, <1>2, <1>5, <1>6 DEF IInv, TypeOK, Entry, Operations
<1>8. StartInv'
  BY <1>1, Seen, <1>2, <1>5, <1>6 DEF IInv, StartInv
<1>9. SlotInv'
  BY <1>1, Seen, <1>2, <1>5, <1>6 DEF IInv, SlotInv, InCode, Guarded
<1>10. ListInv'
  BY <1>1, Seen, <1>2, <1>5, <1>6 DEF IInv, ListInv
<1>11. DisabledInv'
  BY <1>1, Seen, <1>2, <1>5, <1>6 DEF IInv, DisabledInv, NextTo, Above, Under
<1>12. SaveInv'
  BY <1>1, Seen, <1>2, <1>5, <1>6 DEF IInv, SaveInv
<1>13. PackageInv'
  BY <1>1, Seen, <1>2, <1>5, <1>6 DEF IInv, PackageInv, NextTo, Above, Under
<1> QED
  BY <1>5, <1>7, <1>8, <1>9, <1>10, <1>11, <1>12, <1>13 DEF IInv

\* A package that is not deleted is scanned again.
LEMMA DeleteFailsListedKeeps ==
    ASSUME IInv, NEW p \in Plugins, DeleteFails(p), p \in files' \ disabled
    PROVE  IInv'
<1> DEFINE a == E("scan", {p})
           b == E("finish", {p})
<1>1. work # <<>> /\ Top.do = "delete" /\ Top.of = {p}
  BY DEF DeleteFails, At
<1>2. p \notin loaded
  BY <1>1 DEF IInv, ListInv, At
<1>3. /\ a \in Entry /\ a.do = "scan" /\ a.of = {p} /\ ~a.calledBack
      /\ b \in Entry /\ b.do = "finish" /\ b.of = {p} /\ ~b.calledBack
  BY DEF E, Entry
<1> HIDE DEF a, b
<1>4. FitsOn(b, Tail(work))
  BY <1>1, Seen, <1>2, <1>3 DEF FitsOn, NextTo, Below, Above, Under
<1>5. Sits(a, b, {b} \cup Below)
  BY <1>1, Seen, <1>2, <1>3 DEF Sits, NextTo, Above, Under
<1>6. /\ work' \in Seq(Entry) /\ WellFormed(work)' /\ Entries' = {a, b} \cup Below
      /\ Top' = a /\ work' # <<>>
  <2>1. work' = (<<a>> \o <<b>>) \o Tail(work)
    BY <1>1 DEF DeleteFails, Do, E, Then, a, b
  <2> QED
    BY <1>1, Seen, <1>3, <1>4, <1>5, <2>1, Puts2
<1>7. /\ files' \in {files, files \ {p}}
      /\ known' = known \ {p}
      /\ owned' = owned \ (files \ files')
      /\ UNCHANGED <<kept, config, recovery, safeMode, disabled, recovered, pending,
                     loaded, reloading, started, blamed, crashed>>
  BY DEF DeleteFails, disk, memory, history
<1>8. TypeOK'
  BY <1>1, Seen, <1>2, <1>3, <1>6, <1>7 DEF IInv, TypeOK, Entry, Operations, NextTo, Above, Under
<1>9. StartInv'
  BY <1>1, Seen, <1>2, <1>3, <1>6, <1>7 DEF IInv, StartInv
<1>10. SlotInv'
  BY <1>1, Seen, <1>2, <1>3, <1>6, <1>7 DEF IInv, SlotInv, InCode, Guarded
<1>11. ListInv'
  BY <1>1, Seen, <1>2, <1>3, <1>6, <1>7 DEF IInv, ListInv, NextTo, Above, Under
<1>12. DisabledInv'
  BY <1>1, Seen, <1>2, <1>3, <1>6, <1>7 DEF IInv, DisabledInv, NextTo, Above, Under
<1>13. SaveInv'
  BY <1>1, Seen, <1>2, <1>3, <1>6, <1>7 DEF IInv, SaveInv
<1>14. PackageInv'
  BY <1>1, Seen, <1>2, <1>3, <1>6, <1>7 DEF IInv, PackageInv
<1> QED
  BY <1>6, <1>8, <1>9, <1>10, <1>11, <1>12, <1>13, <1>14 DEF IInv

\* A package that is disabled, or half gone, is left.
LEMMA DeleteFailsKeeps ==
    ASSUME IInv, NEW p \in Plugins, DeleteFails(p), p \notin files' \ disabled
    PROVE  IInv'
<1> DEFINE a == E("finish", {p})
<1>1. work # <<>> /\ Top.do = "delete" /\ Top.of = {p}
  BY DEF DeleteFails, At
<1>2. a \in Entry /\ a.do = "finish" /\ a.of = {p} /\ ~a.calledBack
  BY DEF E, Entry
<1> HIDE DEF a
<1>3. FitsOn(a, Tail(work))
  BY <1>1, Seen, <1>2 DEF FitsOn, NextTo, Below, Above, Under
<1>4. /\ work' \in Seq(Entry) /\ WellFormed(work)' /\ Entries' = {a} \cup Below
      /\ Top' = a /\ work' # <<>>
  <2>1. work' = <<a>> \o Tail(work)
    BY <1>1 DEF DeleteFails, Do, E, Then, a
  <2> QED
    BY <1>1, Seen, <1>2, <1>3, <2>1, Puts1
<1>5. /\ files' \in {files, files \ {p}}
      /\ owned' = owned \ (files \ files')
      /\ UNCHANGED <<kept, config, recovery, safeMode, disabled, recovered, pending,
                     known, loaded, reloading, started, blamed, crashed>>
  BY DEF DeleteFails, disk, memory, history
<1>6. TypeOK'
  BY <1>1, Seen, <1>2, <1>4, <1>5 DEF IInv, TypeOK, Entry, Operations
<1>7. StartInv'
  BY <1>1, Seen, <1>2, <1>4, <1>5 DEF IInv, StartInv
<1>8. SlotInv'
  BY <1>1, Seen, <1>2, <1>4, <1>5 DEF IInv, SlotInv, InCode, Guarded
<1>9. ListInv'
  BY <1>1, Seen, <1>2, <1>4, <1>5 DEF IInv, ListInv
<1>10. DisabledInv'
  BY <1>1, Seen, <1>2, <1>4, <1>5 DEF IInv, DisabledInv, NextTo, Above, Under
<1>11. SaveInv'
  BY <1>1, Seen, <1>2, <1>4, <1>5 DEF IInv, SaveInv
<1>12. PackageInv'
  BY <1>1, Seen, <1>2, <1>4, <1>5 DEF IInv, PackageInv, NextTo, Above, Under
<1> QED
  BY <1>4, <1>6, <1>7, <1>8, <1>9, <1>10, <1>11, <1>12 DEF IInv

\* The state of a deleted plugin goes.
LEMMA ForgetKeeps ==
    ASSUME IInv, NEW p \in Plugins, Forget(p)
    PROVE  IInv'
<1>1. work # <<>> /\ Top.do = "forget" /\ Top.of = {p}
  BY DEF Forget, At
<1>2. p \notin loaded
  BY <1>1 DEF IInv, ListInv, At
<1>3. ~Early
  BY <1>1, Seen DEF Early, Above, Under
<1>4. p \in recovery.disabled => p \in Ids(recovery.pending)
  BY <1>1, Seen, <1>3 DEF IInv, DisabledInv, SlotInv, EarlyRead
<1>5. work' = Tail(work)
  BY DEF Forget, Then
<1>6. /\ config' = disabled \ {p}
      /\ disabled' = disabled \ {p}
      /\ recovered' = recovered \ {p}
      /\ known' = known \ {p}
      /\ blamed' = blamed \ {p}
      /\ UNCHANGED <<files, kept, recovery, safeMode, pending, loaded, reloading,
                     started, owned, crashed>>
  BY DEF Forget, disk, memory, history
<1>7. TypeOK'
  BY <1>1, Seen, <1>2, <1>3, <1>4, <1>5, Popped, <1>6 DEF IInv, TypeOK, Entry, Operations,
    NextTo, Above, Under
<1>8. StartInv'
  BY <1>1, Seen, <1>2, <1>3, <1>4, <1>5, Popped, <1>6 DEF IInv, StartInv
<1>9. SlotInv'
  BY <1>1, Seen, <1>2, <1>3, <1>4, <1>5, Popped, <1>6 DEF IInv, SlotInv, InCode, Guarded, NextTo
<1>10. ListInv'
  BY <1>1, Seen, <1>2, <1>3, <1>4, <1>5, Popped, <1>6 DEF IInv, ListInv, NextTo, Above, Under
<1>11. DisabledInv'
  BY <1>1, Seen, <1>2, <1>3, <1>4, <1>5, Popped, <1>6 DEF IInv, DisabledInv, NextTo, Above,
    Under
<1>12. SaveInv'
  BY <1>1, Seen, <1>2, <1>3, <1>4, <1>5, Popped, <1>6 DEF IInv, SaveInv, NextTo
<1>13. PackageInv'
  BY <1>1, Seen, <1>2, <1>3, <1>4, <1>5, Popped, <1>6 DEF IInv, PackageInv
<1> QED
  BY <1>5, <1>1, Popped, <1>7, <1>8, <1>9, <1>10, <1>11, <1>12, <1>13 DEF IInv

\* A plugin is enabled.
LEMMA EnableKeeps ==
    ASSUME IInv, NEW p \in Plugins, SetEnabled(p), p \in files
    PROVE  IInv'
<1> DEFINE a == E("saveConfig", {})
           b == E("scan", {p})
<1>1. work = <<>> /\ started
  BY DEF SetEnabled, Request, Idle
<1>2. p \notin loaded
  BY <1>1 DEF IInv, SetEnabled, ListInv
<1>3. /\ a \in Entry /\ a.do = "saveConfig" /\ a.of = {} /\ ~a.calledBack
      /\ b \in Entry /\ b.do = "scan" /\ b.of = {p} /\ ~b.calledBack
  BY DEF E, Entry
<1> HIDE DEF a, b
<1>4. FitsOn(b, <<>>)
  BY <1>1, Empty, <1>2, <1>3 DEF FitsOn, NextTo, Rng, Above, Under
<1>5. Sits(a, b, {b} \cup {})
  BY <1>1, Empty, <1>2, <1>3 DEF Sits, NextTo, Above, Under
<1>6. /\ work' \in Seq(Entry) /\ WellFormed(work)' /\ Entries' = {a, b} \cup {}
      /\ Top' = a /\ work' # <<>>
  <2>1. work' = (<<a>> \o <<b>>) \o <<>>
    <3>1. work' = (<<a>> \o <<b>>) /\ (<<a>> \o <<b>>) \in Seq(Entry)
      <4>1. work' = Do("saveConfig", {}) \o Do("scan", {p})
        BY DEF SetEnabled
      <4>2. <<a>> \o <<b>> \in Seq(Entry)
        BY <1>3
      <4> QED
        BY <4>1, <4>2 DEF Do, E, a, b
    <3> QED
      BY <3>1, ConcatEmptySeq
  <2> QED
    BY <1>1, Empty, <1>3, <1>4, <1>5, <2>1, Puts2
<1>7. /\ recovery' = Saved(recovered \ {p}, pending)
      /\ disabled' = disabled \ {p}
      /\ recovered' = recovered \ {p}
      /\ known' = known \ {p}
      /\ blamed' = blamed \ {p}
      /\ UNCHANGED <<files, kept, config, safeMode, pending, loaded, reloading,
                     started, owned, crashed>>
  BY DEF SetEnabled, Forgive, disk, memory, history
<1>8. TypeOK'
  BY <1>1, Empty, <1>2, <1>3, <1>6, <1>7 DEF IInv, TypeOK, Entry, Operations, NextTo, Above, Under
<1>9. StartInv'
  BY <1>1, Empty, <1>2, <1>3, <1>6, <1>7 DEF IInv, StartInv
<1>10. SlotInv'
  BY <1>1, Empty, <1>2, <1>3, <1>6, <1>7 DEF IInv, SlotInv, InCode, Guarded
<1>11. ListInv'
  BY <1>1, Empty, <1>2, <1>3, <1>6, <1>7 DEF IInv, ListInv
<1>12. DisabledInv'
  BY <1>1, Empty, <1>2, <1>3, <1>6, <1>7 DEF IInv, DisabledInv
<1>13. SaveInv'
  BY <1>1, Empty, <1>2, <1>3, <1>6, <1>7 DEF IInv, SaveInv
<1>14. PackageInv'
  BY <1>1, Empty, <1>2, <1>3, <1>6, <1>7 DEF IInv, PackageInv
<1> QED
  BY <1>6, <1>8, <1>9, <1>10, <1>11, <1>12, <1>13, <1>14 DEF IInv

\* A plugin without a package cannot be enabled.
LEMMA EnableFailsKeeps ==
    ASSUME IInv, NEW p \in Plugins, SetEnabled(p), p \notin files
    PROVE  IInv'
<1> DEFINE a == E("saveConfig", {})
<1>1. work = <<>> /\ started
  BY DEF SetEnabled, Request, Idle
<1>2. p \notin loaded
  BY <1>1 DEF IInv, SetEnabled, ListInv
<1>3. a \in Entry /\ a.do = "saveConfig" /\ a.of = {} /\ ~a.calledBack
  BY DEF E, Entry
<1> HIDE DEF a
<1>4. FitsOn(a, <<>>)
  BY <1>1, Empty, <1>2, <1>3 DEF FitsOn, NextTo, Rng, Above, Under
<1>5. /\ work' \in Seq(Entry) /\ WellFormed(work)' /\ Entries' = {a} \cup {}
      /\ Top' = a /\ work' # <<>>
  <2>1. work' = <<a>> \o <<>>
    <3>1. work' = <<a>> /\ <<a>> \in Seq(Entry)
      BY <1>1, <1>3 DEF SetEnabled, Do, E, a
    <3> QED
      BY <3>1, ConcatEmptySeq
  <2> QED
    BY <1>1, Empty, <1>3, <1>4, <2>1, Puts1
<1>6. /\ disabled' = disabled \cup {p}
      /\ UNCHANGED <<files, kept, config, recovery, safeMode, recovered, pending,
                     known, loaded, reloading, started, blamed, owned, crashed>>
  BY DEF SetEnabled, disk, memory, history
<1>7. TypeOK'
  BY <1>1, Empty, <1>2, <1>3, <1>5, <1>6 DEF IInv, TypeOK, Entry, Operations
<1>8. StartInv'
  BY <1>1, Empty, <1>2, <1>3, <1>5, <1>6 DEF IInv, StartInv
<1>9. SlotInv'
  BY <1>1, Empty, <1>2, <1>3, <1>5, <1>6 DEF IInv, SlotInv, InCode, Guarded
<1>10. ListInv'
  BY <1>1, Empty, <1>2, <1>3, <1>5, <1>6 DEF IInv, ListInv
<1>11. DisabledInv'
  BY <1>1, Empty, <1>2, <1>3, <1>5, <1>6 DEF IInv, DisabledInv
<1>12. SaveInv'
  BY <1>1, Empty, <1>2, <1>3, <1>5, <1>6 DEF IInv, SaveInv
<1>13. PackageInv'
  BY <1>1, Empty, <1>2, <1>3, <1>5, <1>6 DEF IInv, PackageInv
<1> QED
  BY <1>5, <1>7, <1>8, <1>9, <1>10, <1>11, <1>12, <1>13 DEF IInv

\* A loaded plugin is disabled.
LEMMA SetDisabledLoadedKeeps ==
    ASSUME IInv, NEW p \in Plugins, SetDisabled(p), p \in loaded
    PROVE  IInv'
<1> DEFINE a == E("unload", {p})
           b == E("disable", {p})
           c == E("saveRecovery", {})
           d == E("finish", {p})
<1>1. work = <<>> /\ started /\ p \in loaded
  BY DEF SetDisabled, Request, Idle
<1>2. ~Early
  BY <1>1, Empty DEF Early
<1>3. p \notin blamed /\ p \in known
  BY <1>1, Empty, <1>2 DEF IInv, DisabledInv, ListInv, TypeOK
<1>4. /\ a \in Entry /\ a.do = "unload" /\ a.of = {p} /\ ~a.calledBack
      /\ b \in Entry /\ b.do = "disable" /\ b.of = {p} /\ ~b.calledBack
      /\ c \in Entry /\ c.do = "saveRecovery" /\ c.of = {} /\ ~c.calledBack
      /\ d \in Entry /\ d.do = "finish" /\ d.of = {p} /\ ~d.calledBack
  BY DEF E, Entry
<1> HIDE DEF a, b, c, d
<1>5. FitsOn(d, <<>>)
  BY <1>1, Empty, <1>2, <1>3, <1>4 DEF FitsOn, NextTo, Rng, Above, Under
<1>6. Sits(a, b, {b, c, d} \cup {}) /\ Sits(b, c, {c, d} \cup {}) /\ Sits(c, d, {d} \cup {})
  BY <1>1, Empty, <1>2, <1>3, <1>4 DEF Sits, NextTo, Above, Under
<1>7. /\ work' \in Seq(Entry) /\ WellFormed(work)' /\ Entries' = {a, b, c, d} \cup {}
      /\ Top' = a /\ work' # <<>>
  <2>1. work' = (<<a>> \o <<b>> \o <<c>> \o <<d>>) \o <<>>
    <3>1. /\ work' = (<<a>> \o <<b>> \o <<c>> \o <<d>>)
          /\ (<<a>> \o <<b>> \o <<c>> \o <<d>>) \in Seq(Entry)
      BY <1>1, <1>4 DEF SetDisabled, Unload, Do, E, a, b, c, d
    <3> QED
      BY <3>1, ConcatEmptySeq
  <2> QED
    BY <1>1, Empty, <1>4, <1>5, <1>6, <2>1, Puts4
<1>8. /\ recovery' = Saved(recovered, Operation({p}))
      /\ pending' = Operation({p})
      /\ UNCHANGED <<files, kept, config, safeMode, disabled, recovered, known,
                     loaded, reloading, started, blamed, owned, crashed>>
  BY DEF SetDisabled, Start, disk, memory, history
<1>9. TypeOK'
  BY <1>1, Empty, <1>2, <1>3, <1>4, <1>7, <1>8 DEF IInv, TypeOK, Entry, Operations
<1>10. StartInv'
  BY <1>1, Empty, <1>2, <1>3, <1>4, <1>7, <1>8 DEF IInv, StartInv
<1>11. SlotInv'
  BY <1>1, Empty, <1>2, <1>3, <1>4, <1>7, <1>8 DEF IInv, SlotInv, InCode, Guarded
<1>12. ListInv'
  BY <1>1, Empty, <1>2, <1>3, <1>4, <1>7, <1>8 DEF IInv, ListInv, NextTo, Above, Under
<1>13. DisabledInv'
  BY <1>1, Empty, <1>2, <1>3, <1>4, <1>7, <1>8 DEF IInv, DisabledInv, NextTo, Above, Under
<1>14. SaveInv'
  BY <1>1, Empty, <1>2, <1>3, <1>4, <1>7, <1>8 DEF IInv, SaveInv
<1>15. PackageInv'
  BY <1>1, Empty, <1>2, <1>3, <1>4, <1>7, <1>8 DEF IInv, PackageInv
<1> QED
  BY <1>7, <1>9, <1>10, <1>11, <1>12, <1>13, <1>14, <1>15 DEF IInv

\* A listed plugin is disabled.
LEMMA SetDisabledKeeps ==
    ASSUME IInv, NEW p \in Plugins, SetDisabled(p), p \notin loaded
    PROVE  IInv'
<1> DEFINE a == E("disable", {p})
           b == E("saveRecovery", {})
           c == E("finish", {p})
<1>1. work = <<>> /\ started /\ p \in known \ loaded
  BY DEF SetDisabled, Request, Idle
<1>2. /\ a \in Entry /\ a.do = "disable" /\ a.of = {p} /\ ~a.calledBack
      /\ b \in Entry /\ b.do = "saveRecovery" /\ b.of = {} /\ ~b.calledBack
      /\ c \in Entry /\ c.do = "finish" /\ c.of = {p} /\ ~c.calledBack
  BY DEF E, Entry
<1> HIDE DEF a, b, c
<1>3. FitsOn(c, <<>>)
  BY <1>1, Empty, <1>2 DEF FitsOn, NextTo, Rng, Above, Under
<1>4. Sits(a, b, {b, c} \cup {}) /\ Sits(b, c, {c} \cup {})
  BY <1>1, Empty, <1>2 DEF Sits, NextTo, Above, Under
<1>5. /\ work' \in Seq(Entry) /\ WellFormed(work)' /\ Entries' = {a, b, c} \cup {}
      /\ Top' = a /\ work' # <<>>
  <2>1. work' = (<<a>> \o <<b>> \o <<c>>) \o <<>>
    <3>1. work' = (<<a>> \o <<b>> \o <<c>>) /\ (<<a>> \o <<b>> \o <<c>>) \in Seq(Entry)
      BY <1>1, <1>2 DEF SetDisabled, Unload, Do, E, a, b, c
    <3> QED
      BY <3>1, ConcatEmptySeq
  <2> QED
    BY <1>1, Empty, <1>2, <1>3, <1>4, <2>1, Puts3
<1>6. /\ recovery' = Saved(recovered, Operation({p}))
      /\ pending' = Operation({p})
      /\ UNCHANGED <<files, kept, config, safeMode, disabled, recovered, known,
                     loaded, reloading, started, blamed, owned, crashed>>
  BY DEF SetDisabled, Start, disk, memory, history
<1>7. TypeOK'
  BY <1>1, Empty, <1>2, <1>5, <1>6 DEF IInv, TypeOK, Entry, Operations
<1>8. StartInv'
  BY <1>1, Empty, <1>2, <1>5, <1>6 DEF IInv, StartInv
<1>9. SlotInv'
  BY <1>1, Empty, <1>2, <1>5, <1>6 DEF IInv, SlotInv, InCode, Guarded
<1>10. ListInv'
  BY <1>1, Empty, <1>2, <1>5, <1>6 DEF IInv, ListInv
<1>11. DisabledInv'
  BY <1>1, Empty, <1>2, <1>5, <1>6 DEF IInv, DisabledInv
<1>12. SaveInv'
  BY <1>1, Empty, <1>2, <1>5, <1>6 DEF IInv, SaveInv
<1>13. PackageInv'
  BY <1>1, Empty, <1>2, <1>5, <1>6 DEF IInv, PackageInv
<1> QED
  BY <1>5, <1>7, <1>8, <1>9, <1>10, <1>11, <1>12, <1>13 DEF IInv

\* Safe mode is turned on.
LEMMA SetSafeModeOnKeeps ==
    ASSUME IInv, SetSafeModeOn
    PROVE  IInv'
<1> DEFINE a == E("reload", {})
<1>1. work = <<>> /\ started
  BY DEF SetSafeModeOn, Request, Idle
<1>2. a \in Entry /\ a.do = "reload" /\ a.of = {} /\ ~a.calledBack
  BY DEF E, Entry
<1> HIDE DEF a
<1>3. FitsOn(a, <<>>)
  BY <1>1, Empty, <1>2 DEF FitsOn, NextTo, Rng, Above, Under
<1>4. /\ work' \in Seq(Entry) /\ WellFormed(work)' /\ Entries' = {a} \cup {}
      /\ Top' = a /\ work' # <<>>
  <2>1. work' = <<a>> \o <<>>
    <3>1. work' = <<a>> /\ <<a>> \in Seq(Entry)
      BY <1>1, <1>2 DEF SetSafeModeOn, Do, E, a
    <3> QED
      BY <3>1, ConcatEmptySeq
  <2> QED
    BY <1>1, Empty, <1>2, <1>3, <2>1, Puts1
<1>5. /\ safeMode' = TRUE
      /\ UNCHANGED <<files, kept, config, recovery, disabled, recovered, pending,
                     known, loaded, reloading, started, blamed, owned, crashed>>
  BY DEF SetSafeModeOn, disk, memory, history
<1>6. TypeOK'
  BY <1>1, Empty, <1>2, <1>4, <1>5 DEF IInv, TypeOK, Entry, Operations
<1>7. StartInv'
  BY <1>1, Empty, <1>2, <1>4, <1>5 DEF IInv, StartInv
<1>8. SlotInv'
  BY <1>1, Empty, <1>2, <1>4, <1>5 DEF IInv, SlotInv, InCode, Guarded
<1>9. ListInv'
  BY <1>1, Empty, <1>2, <1>4, <1>5 DEF IInv, ListInv
<1>10. DisabledInv'
  BY <1>1, Empty, <1>2, <1>4, <1>5 DEF IInv, DisabledInv
<1>11. SaveInv'
  BY <1>1, Empty, <1>2, <1>4, <1>5 DEF IInv, SaveInv
<1>12. PackageInv'
  BY <1>1, Empty, <1>2, <1>4, <1>5 DEF IInv, PackageInv
<1> QED
  BY <1>4, <1>6, <1>7, <1>8, <1>9, <1>10, <1>11, <1>12 DEF IInv

\* Safe mode is turned off.
LEMMA SetSafeModeOffKeeps ==
    ASSUME IInv, SetSafeModeOff
    PROVE  IInv'
<1> DEFINE a == E("forgive", {})
           b == E("reload", {})
<1>1. work = <<>> /\ started
  BY DEF SetSafeModeOff, Request, Idle
<1>2. /\ a \in Entry /\ a.do = "forgive" /\ a.of = {} /\ ~a.calledBack
      /\ b \in Entry /\ b.do = "reload" /\ b.of = {} /\ ~b.calledBack
  BY DEF E, Entry
<1> HIDE DEF a, b
<1>3. FitsOn(b, <<>>)
  BY <1>1, Empty, <1>2 DEF FitsOn, NextTo, Rng, Above, Under
<1>4. Sits(a, b, {b} \cup {})
  BY <1>1, Empty, <1>2 DEF Sits, NextTo, Above, Under
<1>5. /\ work' \in Seq(Entry) /\ WellFormed(work)' /\ Entries' = {a, b} \cup {}
      /\ Top' = a /\ work' # <<>>
  <2>1. work' = (<<a>> \o <<b>>) \o <<>>
    <3>1. work' = (<<a>> \o <<b>>) /\ (<<a>> \o <<b>>) \in Seq(Entry)
      BY <1>1, <1>2 DEF SetSafeModeOff, Do, E, a, b
    <3> QED
      BY <3>1, ConcatEmptySeq
  <2> QED
    BY <1>1, Empty, <1>2, <1>3, <1>4, <2>1, Puts2
<1>6. /\ safeMode' = FALSE
      /\ UNCHANGED <<files, kept, config, recovery, disabled, recovered, pending,
                     known, loaded, reloading, started, blamed, owned, crashed>>
  BY DEF SetSafeModeOff, disk, memory, history
<1>7. TypeOK'
  BY <1>1, Empty, <1>2, <1>5, <1>6 DEF IInv, TypeOK, Entry, Operations
<1>8. StartInv'
  BY <1>1, Empty, <1>2, <1>5, <1>6 DEF IInv, StartInv
<1>9. SlotInv'
  BY <1>1, Empty, <1>2, <1>5, <1>6 DEF IInv, SlotInv, InCode, Guarded
<1>10. ListInv'
  BY <1>1, Empty, <1>2, <1>5, <1>6 DEF IInv, ListInv
<1>11. DisabledInv'
  BY <1>1, Empty, <1>2, <1>5, <1>6 DEF IInv, DisabledInv
<1>12. SaveInv'
  BY <1>1, Empty, <1>2, <1>5, <1>6 DEF IInv, SaveInv
<1>13. PackageInv'
  BY <1>1, Empty, <1>2, <1>5, <1>6 DEF IInv, PackageInv
<1> QED
  BY <1>5, <1>7, <1>8, <1>9, <1>10, <1>11, <1>12, <1>13 DEF IInv

\* A package is to be installed.
LEMMA InstallPackageKeeps ==
    ASSUME IInv, NEW p \in Plugins, InstallPackage(p)
    PROVE  IInv'
<1> DEFINE a == E("inspect", {p})
<1>1. work = <<>> /\ started
  BY DEF InstallPackage, Request, Idle
<1>2. a \in Entry /\ a.do = "inspect" /\ a.of = {p} /\ ~a.calledBack
  BY DEF E, Entry
<1> HIDE DEF a
<1>3. FitsOn(a, <<>>)
  BY <1>1, Empty, <1>2 DEF FitsOn, NextTo, Rng, Above, Under
<1>4. /\ work' \in Seq(Entry) /\ WellFormed(work)' /\ Entries' = {a} \cup {}
      /\ Top' = a /\ work' # <<>>
  <2>1. work' = <<a>> \o <<>>
    <3>1. work' = <<a>> /\ <<a>> \in Seq(Entry)
      BY <1>1, <1>2 DEF InstallPackage, Do, E, a
    <3> QED
      BY <3>1, ConcatEmptySeq
  <2> QED
    BY <1>1, Empty, <1>2, <1>3, <2>1, Puts1
<1>5. UNCHANGED <<files, kept, config, recovery, safeMode, disabled, recovered,
                   pending, known, loaded, reloading, started, blamed, owned, crashed>>
  BY DEF InstallPackage, disk, memory, history
<1>6. TypeOK'
  BY <1>1, Empty, <1>2, <1>4, <1>5 DEF IInv, TypeOK, Entry, Operations
<1>7. StartInv'
  BY <1>1, Empty, <1>2, <1>4, <1>5 DEF IInv, StartInv
<1>8. SlotInv'
  BY <1>1, Empty, <1>2, <1>4, <1>5 DEF IInv, SlotInv, InCode, Guarded
<1>9. ListInv'
  BY <1>1, Empty, <1>2, <1>4, <1>5 DEF IInv, ListInv
<1>10. DisabledInv'
  BY <1>1, Empty, <1>2, <1>4, <1>5 DEF IInv, DisabledInv
<1>11. SaveInv'
  BY <1>1, Empty, <1>2, <1>4, <1>5 DEF IInv, SaveInv
<1>12. PackageInv'
  BY <1>1, Empty, <1>2, <1>4, <1>5 DEF IInv, PackageInv
<1> QED
  BY <1>4, <1>6, <1>7, <1>8, <1>9, <1>10, <1>11, <1>12 DEF IInv

\* A loaded plugin is removed.
LEMMA RemoveLoadedKeeps ==
    ASSUME IInv, NEW p \in Plugins, RemovePlugin(p), p \in loaded
    PROVE  IInv'
<1> DEFINE a == E("unload", {p})
           b == E("delete", {p})
<1>1. work = <<>> /\ started /\ p \in loaded
  BY DEF RemovePlugin, Request, Idle
<1>2. ~Early
  BY <1>1, Empty DEF Early
<1>3. p \notin recovered
  BY <1>1, Empty, <1>2 DEF IInv, DisabledInv, ListInv
<1>4. p \notin blamed /\ p \in known
  BY <1>1, Empty, <1>2 DEF IInv, DisabledInv, ListInv, TypeOK
<1>5. /\ a \in Entry /\ a.do = "unload" /\ a.of = {p} /\ ~a.calledBack
      /\ b \in Entry /\ b.do = "delete" /\ b.of = {p} /\ ~b.calledBack
  BY DEF E, Entry
<1> HIDE DEF a, b
<1>6. FitsOn(b, <<>>)
  BY <1>1, Empty, <1>2, <1>3, <1>4, <1>5 DEF FitsOn, NextTo, Rng, Above, Under
<1>7. Sits(a, b, {b} \cup {})
  BY <1>1, Empty, <1>2, <1>3, <1>4, <1>5 DEF Sits, NextTo, Above, Under
<1>8. /\ work' \in Seq(Entry) /\ WellFormed(work)' /\ Entries' = {a, b} \cup {}
      /\ Top' = a /\ work' # <<>>
  <2>1. work' = (<<a>> \o <<b>>) \o <<>>
    <3>1. work' = (<<a>> \o <<b>>) /\ (<<a>> \o <<b>>) \in Seq(Entry)
      BY <1>1, <1>5 DEF RemovePlugin, Unload, Do, E, a, b
    <3> QED
      BY <3>1, ConcatEmptySeq
  <2> QED
    BY <1>1, Empty, <1>5, <1>6, <1>7, <2>1, Puts2
<1>9. /\ recovery' = Saved(recovered, Operation({p}))
      /\ pending' = Operation({p})
      /\ UNCHANGED <<files, kept, config, safeMode, disabled, recovered, known,
                     loaded, reloading, started, blamed, owned, crashed>>
  BY DEF RemovePlugin, Start, disk, memory, history
<1>10. TypeOK'
  BY <1>1, Empty, <1>2, <1>3, <1>4, <1>5, <1>8, <1>9 DEF IInv, TypeOK, Entry, Operations
<1>11. StartInv'
  BY <1>1, Empty, <1>2, <1>3, <1>4, <1>5, <1>8, <1>9 DEF IInv, StartInv
<1>12. SlotInv'
  BY <1>1, Empty, <1>2, <1>3, <1>4, <1>5, <1>8, <1>9 DEF IInv, SlotInv, InCode, Guarded
<1>13. ListInv'
  BY <1>1, Empty, <1>2, <1>3, <1>4, <1>5, <1>8, <1>9 DEF IInv, ListInv
<1>14. DisabledInv'
  BY <1>1, Empty, <1>2, <1>3, <1>4, <1>5, <1>8, <1>9 DEF IInv, DisabledInv, NextTo, Above, Under
<1>15. SaveInv'
  BY <1>1, Empty, <1>2, <1>3, <1>4, <1>5, <1>8, <1>9 DEF IInv, SaveInv
<1>16. PackageInv'
  BY <1>1, Empty, <1>2, <1>3, <1>4, <1>5, <1>8, <1>9 DEF IInv, PackageInv
<1> QED
  BY <1>8, <1>10, <1>11, <1>12, <1>13, <1>14, <1>15, <1>16 DEF IInv

\* A listed plugin is removed.
LEMMA RemoveListedKeeps ==
    ASSUME IInv, NEW p \in Plugins, RemovePlugin(p), p \notin loaded
    PROVE  IInv'
<1> DEFINE a == E("delete", {p})
<1>1. work = <<>> /\ started
  BY DEF RemovePlugin, Request, Idle
<1>2. a \in Entry /\ a.do = "delete" /\ a.of = {p} /\ ~a.calledBack
  BY DEF E, Entry
<1> HIDE DEF a
<1>3. FitsOn(a, <<>>)
  BY <1>1, Empty, <1>2 DEF FitsOn, NextTo, Rng, Above, Under
<1>4. /\ work' \in Seq(Entry) /\ WellFormed(work)' /\ Entries' = {a} \cup {}
      /\ Top' = a /\ work' # <<>>
  <2>1. work' = <<a>> \o <<>>
    <3>1. work' = <<a>> /\ <<a>> \in Seq(Entry)
      <4>1. <<>> \o <<a>> = <<a>> /\ <<a>> \in Seq(Entry)
        BY <1>2, ConcatEmptySeq
      <4> QED
        BY <1>1, <4>1 DEF RemovePlugin, Unload, Do, E, a
    <3> QED
      BY <3>1, ConcatEmptySeq
  <2> QED
    BY <1>1, Empty, <1>2, <1>3, <2>1, Puts1
<1>5. /\ recovery' = Saved(recovered, Operation({p}))
      /\ pending' = Operation({p})
      /\ UNCHANGED <<files, kept, config, safeMode, disabled, recovered, known,
                     loaded, reloading, started, blamed, owned, crashed>>
  BY DEF RemovePlugin, Start, disk, memory, history
<1>6. TypeOK'
  BY <1>1, Empty, <1>2, <1>4, <1>5 DEF IInv, TypeOK, Entry, Operations
<1>7. StartInv'
  BY <1>1, Empty, <1>2, <1>4, <1>5 DEF IInv, StartInv
<1>8. SlotInv'
  BY <1>1, Empty, <1>2, <1>4, <1>5 DEF IInv, SlotInv, InCode, Guarded
<1>9. ListInv'
  BY <1>1, Empty, <1>2, <1>4, <1>5 DEF IInv, ListInv
<1>10. DisabledInv'
  BY <1>1, Empty, <1>2, <1>4, <1>5 DEF IInv, DisabledInv
<1>11. SaveInv'
  BY <1>1, Empty, <1>2, <1>4, <1>5 DEF IInv, SaveInv
<1>12. PackageInv'
  BY <1>1, Empty, <1>2, <1>4, <1>5 DEF IInv, PackageInv
<1> QED
  BY <1>4, <1>6, <1>7, <1>8, <1>9, <1>10, <1>11, <1>12 DEF IInv

\* The manager is destroyed.
LEMMA QuitKeeps ==
    ASSUME IInv, Quit
    PROVE  IInv'
<1> DEFINE a == E("unloadAll", {})
           b == E("exit", {})
<1>1. work = <<>> /\ started
  BY DEF Quit, Request, Idle
<1>2. /\ a \in Entry /\ a.do = "unloadAll" /\ a.of = {} /\ ~a.calledBack
      /\ b \in Entry /\ b.do = "exit" /\ b.of = {} /\ ~b.calledBack
  BY DEF E, Entry
<1> HIDE DEF a, b
<1>3. FitsOn(b, <<>>)
  BY <1>1, Empty, <1>2 DEF FitsOn, NextTo, Rng, Above, Under
<1>4. Sits(a, b, {b} \cup {})
  BY <1>1, Empty, <1>2 DEF Sits, NextTo, Above, Under
<1>5. /\ work' \in Seq(Entry) /\ WellFormed(work)' /\ Entries' = {a, b} \cup {}
      /\ Top' = a /\ work' # <<>>
  <2>1. work' = (<<a>> \o <<b>>) \o <<>>
    <3>1. work' = (<<a>> \o <<b>>) /\ (<<a>> \o <<b>>) \in Seq(Entry)
      BY <1>1, <1>2 DEF Quit, Do, E, a, b
    <3> QED
      BY <3>1, ConcatEmptySeq
  <2> QED
    BY <1>1, Empty, <1>2, <1>3, <1>4, <2>1, Puts2
<1>6. UNCHANGED <<files, kept, config, recovery, safeMode, disabled, recovered,
                   pending, known, loaded, reloading, started, blamed, owned, crashed>>
  BY DEF Quit, disk, memory, history
<1>7. TypeOK'
  BY <1>1, Empty, <1>2, <1>5, <1>6 DEF IInv, TypeOK, Entry, Operations
<1>8. StartInv'
  BY <1>1, Empty, <1>2, <1>5, <1>6 DEF IInv, StartInv
<1>9. SlotInv'
  BY <1>1, Empty, <1>2, <1>5, <1>6 DEF IInv, SlotInv, InCode, Guarded
<1>10. ListInv'
  BY <1>1, Empty, <1>2, <1>5, <1>6 DEF IInv, ListInv
<1>11. DisabledInv'
  BY <1>1, Empty, <1>2, <1>5, <1>6 DEF IInv, DisabledInv
<1>12. SaveInv'
  BY <1>1, Empty, <1>2, <1>5, <1>6 DEF IInv, SaveInv
<1>13. PackageInv'
  BY <1>1, Empty, <1>2, <1>5, <1>6 DEF IInv, PackageInv
<1> QED
  BY <1>5, <1>7, <1>8, <1>9, <1>10, <1>11, <1>12, <1>13 DEF IInv

\* An event calls a plugin.
LEMMA CallbackIdleKeeps ==
    ASSUME IInv, NEW p \in Plugins, Callback(p), Idle
    PROVE  IInv'
<1> DEFINE a == E("callback", {p})
           b == E("finish", {p})
<1>1. work = <<>> /\ started /\ p \in loaded
  BY DEF Callback, Idle
<1>2. ~Early
  BY <1>1, Empty DEF Early
<1>3. p \notin blamed /\ p \in known
  BY <1>1, Empty, <1>2 DEF IInv, DisabledInv, ListInv, TypeOK
<1>4. /\ a \in Entry /\ a.do = "callback" /\ a.of = {p} /\ ~a.calledBack
      /\ b \in Entry /\ b.do = "finish" /\ b.of = {p} /\ ~b.calledBack
  BY DEF E, Entry
<1> HIDE DEF a, b
<1>5. FitsOn(b, <<>>)
  BY <1>1, Empty, <1>2, <1>3, <1>4 DEF FitsOn, NextTo, Rng, Above, Under
<1>6. Sits(a, b, {b} \cup {})
  BY <1>1, Empty, <1>2, <1>3, <1>4 DEF Sits, NextTo, Above, Under
<1>7. /\ work' \in Seq(Entry) /\ WellFormed(work)' /\ Entries' = {a, b} \cup {}
      /\ Top' = a /\ work' # <<>>
  <2>1. work' = (<<a>> \o <<b>>) \o <<>>
    <3>1. work' = (<<a>> \o <<b>>) /\ (<<a>> \o <<b>>) \in Seq(Entry)
      BY <1>1, <1>4 DEF Callback, Do, E, a, b
    <3> QED
      BY <3>1, ConcatEmptySeq
  <2> QED
    BY <1>1, Empty, <1>4, <1>5, <1>6, <2>1, Puts2
<1>8. /\ recovery' = Saved(recovered, Operation({p}))
      /\ pending' = Operation({p})
      /\ UNCHANGED <<files, kept, config, safeMode, disabled, recovered, known,
                     loaded, reloading, started, blamed, owned, crashed>>
  BY DEF Callback, Start, disk, memory, history
<1>9. TypeOK'
  BY <1>1, Empty, <1>2, <1>3, <1>4, <1>7, <1>8 DEF IInv, TypeOK, Entry, Operations
<1>10. StartInv'
  BY <1>1, Empty, <1>2, <1>3, <1>4, <1>7, <1>8 DEF IInv, StartInv
<1>11. SlotInv'
  BY <1>1, Empty, <1>2, <1>3, <1>4, <1>7, <1>8 DEF IInv, SlotInv, InCode, Guarded
<1>12. ListInv'
  BY <1>1, Empty, <1>2, <1>3, <1>4, <1>7, <1>8 DEF IInv, ListInv, NextTo, Above, Under
<1>13. DisabledInv'
  BY <1>1, Empty, <1>2, <1>3, <1>4, <1>7, <1>8 DEF IInv, DisabledInv, NextTo, Above, Under
<1>14. SaveInv'
  BY <1>1, Empty, <1>2, <1>3, <1>4, <1>7, <1>8 DEF IInv, SaveInv
<1>15. PackageInv'
  BY <1>1, Empty, <1>2, <1>3, <1>4, <1>7, <1>8 DEF IInv, PackageInv
<1> QED
  BY <1>7, <1>9, <1>10, <1>11, <1>12, <1>13, <1>14, <1>15 DEF IInv

\* A callback or onLoad throws, and its library is to be unloaded.
LEMMA CodeThrowsLoadedKeeps ==
    ASSUME IInv, NEW p \in Plugins, CallbackThrows(p) \/ OnLoadThrows(p), p \in loaded
    PROVE  IInv'
<1> DEFINE a == [do |-> "unload", of |-> {p}, calledBack |-> Top.calledBack]
           b == E("disable", {p})
           c == E("saveRecovery", {})
<1>1. work # <<>> /\ Top.do \in {"callback", "onload"} /\ Top.of = {p}
  BY DEF CallbackThrows, OnLoadThrows, Code, InCode
<1>2. ~Early
  BY <1>1, Seen DEF Early, Above, Under
<1>3. p \in known /\ p \notin blamed
  BY <1>1, Seen, <1>2 DEF IInv, ListInv, TypeOK, DisabledInv
<1>4. /\ a \in Entry /\ a.do = "unload" /\ a.of = {p} /\ a.calledBack = Top.calledBack
      /\ b \in Entry /\ b.do = "disable" /\ b.of = {p} /\ ~b.calledBack
      /\ c \in Entry /\ c.do = "saveRecovery" /\ c.of = {} /\ ~c.calledBack
  BY <1>1, Seen DEF E, Entry
<1> HIDE DEF a, b, c
<1>5. FitsOn(c, Tail(work))
  BY <1>1, Seen, <1>2, <1>3, <1>4 DEF FitsOn, NextTo, Below, Above, Under
<1>6. Sits(a, b, {b, c} \cup Below) /\ Sits(b, c, {c} \cup Below)
  BY <1>1, Seen, <1>2, <1>3, <1>4 DEF Sits, NextTo, Above, Under
<1>7. /\ work' \in Seq(Entry) /\ WellFormed(work)' /\ Entries' = {a, b, c} \cup Below
      /\ Top' = a /\ work' # <<>>
  <2>1. work' = (<<a>> \o <<b>> \o <<c>>) \o Tail(work)
    BY <1>3, DisableLoaded DEF CallbackThrows, OnLoadThrows, Then, a, b, c
  <2> QED
    BY <1>1, Seen, <1>4, <1>5, <1>6, <2>1, Puts3
<1>8. UNCHANGED <<files, kept, config, recovery, safeMode, disabled, recovered,
                   pending, known, loaded, reloading, started, blamed, owned, crashed>>
  BY DEF CallbackThrows, OnLoadThrows, disk, memory, history
<1>9. TypeOK'
  BY <1>1, Seen, <1>2, <1>3, <1>4, <1>7, <1>8 DEF IInv, TypeOK, Entry, Operations
<1>10. StartInv'
  BY <1>1, Seen, <1>2, <1>3, <1>4, <1>7, <1>8 DEF IInv, StartInv
<1>11. SlotInv'
  BY <1>1, Seen, <1>2, <1>3, <1>4, <1>7, <1>8 DEF IInv, SlotInv, InCode, Guarded
<1>12. ListInv'
  BY <1>1, Seen, <1>2, <1>3, <1>4, <1>7, <1>8 DEF IInv, ListInv
<1>13. DisabledInv'
  BY <1>1, Seen, <1>2, <1>3, <1>4, <1>7, <1>8 DEF IInv, DisabledInv
<1>14. SaveInv'
  BY <1>1, Seen, <1>2, <1>3, <1>4, <1>7, <1>8 DEF IInv, SaveInv
<1>15. PackageInv'
  BY <1>1, Seen, <1>2, <1>3, <1>4, <1>7, <1>8 DEF IInv, PackageInv
<1> QED
  BY <1>7, <1>9, <1>10, <1>11, <1>12, <1>13, <1>14, <1>15 DEF IInv

\* Code of a plugin calls a plugin back.
LEMMA CallbackInCodeKeeps ==
    ASSUME IInv, NEW p \in Plugins, Callback(p), ~Idle
    PROVE  IInv'
<1> DEFINE a == E("callback", {p})
           b == E("finish", {p})
           c == [Top EXCEPT !.calledBack = TRUE]
<1>1. work # <<>> /\ Top.do \in CodeKinds /\ started /\ p \in loaded
  BY DEF Callback, Idle, InCode
<1>2. ~Early
  BY <1>1 DEF IInv, StartInv, Early
<1>3. p \in known /\ p \notin blamed
  BY <1>1, Seen, <1>2 DEF IInv, ListInv, TypeOK, DisabledInv
<1>4. /\ a \in Entry /\ a.do = "callback" /\ a.of = {p} /\ ~a.calledBack
      /\ b \in Entry /\ b.do = "finish" /\ b.of = {p} /\ ~b.calledBack
      /\ c \in Entry /\ c.do = Top.do /\ c.of = Top.of /\ c.calledBack
  BY <1>1, Seen DEF E, Entry
<1> HIDE DEF a, b, c
<1>5. FitsOn(c, Tail(work))
  BY <1>1, Seen, <1>2, <1>3, <1>4 DEF FitsOn, NextTo, Below, Above, Under
<1>6. Sits(a, b, {b, c} \cup Below) /\ Sits(b, c, {c} \cup Below)
  BY <1>1, Seen, <1>2, <1>3, <1>4 DEF Sits, NextTo, Above, Under
<1>7. /\ work' \in Seq(Entry) /\ WellFormed(work)' /\ Entries' = {a, b, c} \cup Below
      /\ Top' = a /\ work' # <<>>
  <2>1. work' = (<<a>> \o <<b>> \o <<c>>) \o Tail(work)
    <3>1. <<a>> \o <<b>> \in Seq(Entry) /\ work' = (<<a>> \o <<b>>) \o (<<c>> \o Tail(work))
      BY <1>1, <1>4 DEF Callback, Idle, Do, E, a, b, c
    <3> QED
      BY <1>1, Seen, <1>4, <3>1, Regroup DEF On, Good
  <2> QED
    BY <1>1, Seen, <1>4, <1>5, <1>6, <2>1, Puts3
<1>8. /\ recovery' = Saved(recovered, Operation({p}))
      /\ pending' = Operation({p})
      /\ UNCHANGED <<files, kept, config, safeMode, disabled, recovered, known,
                     loaded, reloading, started, blamed, owned, crashed>>
  BY DEF Callback, Start, disk, memory, history
<1>9. TypeOK'
  BY <1>1, Seen, <1>2, <1>3, <1>4, <1>7, <1>8 DEF IInv, TypeOK, Entry, Operations
<1>10. StartInv'
  BY <1>1, Seen, <1>2, <1>3, <1>4, <1>7, <1>8 DEF IInv, StartInv
<1>11. SlotInv'
  BY <1>1, Seen, <1>2, <1>3, <1>4, <1>7, <1>8 DEF IInv, SlotInv, InCode, Guarded
<1>12. ListInv'
  BY <1>1, Seen, <1>2, <1>3, <1>4, <1>7, <1>8 DEF IInv, ListInv
<1>13. DisabledInv'
  BY <1>1, Seen, <1>2, <1>3, <1>4, <1>7, <1>8 DEF IInv, DisabledInv
<1>14. SaveInv'
  BY <1>1, Seen, <1>2, <1>3, <1>4, <1>7, <1>8 DEF IInv, SaveInv
<1>15. PackageInv'
  BY <1>1, Seen, <1>2, <1>3, <1>4, <1>7, <1>8 DEF IInv, PackageInv
<1> QED
  BY <1>7, <1>9, <1>10, <1>11, <1>12, <1>13, <1>14, <1>15 DEF IInv

\* One more plugin is forgiven.
LEMMA ForgiveNextKeeps ==
    ASSUME IInv, NEW p \in Plugins, ForgiveNext(p)
    PROVE  IInv'
<1>1. work # <<>> /\ Top.do = "forgive" /\ p \in recovered
  BY DEF ForgiveNext, At
<1>2. Top \in Entries /\ Entries = {Top} \cup Below /\ \A x \in Below : x \in Entry /\ Above(Top, x)
  BY <1>1, Seen
<1>3. ~Early
  BY <1>1, <1>2 DEF Early, Above, Under
<1>4. work' = work /\ work \in Seq(Entry) /\ WellFormed(work)' /\ Entries' = Entries /\ Top' = Top
  BY <1>1 DEF ForgiveNext, At, Forgive, IInv, TypeOK, Entry, WellFormed, Entries, Top
<1>5. /\ recovery' = Saved(recovered \ {p}, pending)
      /\ disabled' = disabled \ {p}
      /\ recovered' = recovered \ {p}
      /\ blamed' = blamed \ {p}
      /\ UNCHANGED <<files, kept, config, safeMode, pending, known, loaded,
                     reloading, started, owned, crashed>>
  BY DEF ForgiveNext, Forgive, disk, memory, history
<1>6. TypeOK'
  BY <1>1, <1>2, <1>3, <1>4, <1>5 DEF IInv, TypeOK, Entry, Operations
<1>7. StartInv'
  BY <1>1, <1>2, <1>3, <1>4, <1>5 DEF IInv, StartInv
<1>8. SlotInv'
  BY <1>1, <1>2, <1>3, <1>4, <1>5 DEF IInv, SlotInv, InCode, Guarded
<1>9. ListInv'
  BY <1>1, <1>2, <1>3, <1>4, <1>5 DEF IInv, ListInv
<1>10. DisabledInv'
  BY <1>1, <1>2, <1>3, <1>4, <1>5 DEF IInv, DisabledInv
<1>11. SaveInv'
  BY <1>1, <1>2, <1>3, <1>4, <1>5 DEF IInv, SaveInv
<1>12. PackageInv'
  BY <1>1, <1>2, <1>3, <1>4, <1>5 DEF IInv, PackageInv
<1> QED
  BY <1>4, <1>6, <1>7, <1>8, <1>9, <1>10, <1>11, <1>12 DEF IInv

\* A package is dropped into the folder or deleted.
LEMMA FolderChangesKeeps ==
    ASSUME IInv, NEW p \in Plugins, FolderChanges(p)
    PROVE  IInv'
<1>1. work = <<>>
  BY DEF FolderChanges, Request, Idle
<1>2. Entries = {}
  BY <1>1 DEF Entries, Rng
<1>3. work' = work /\ work \in Seq(Entry) /\ WellFormed(work)' /\ Entries' = Entries /\ Top' = Top
  BY <1>1 DEF FolderChanges, Request, Idle, IInv, TypeOK, Entry, WellFormed, Entries, Top
<1>4. /\ files' = IF p \in files THEN files \ {p} ELSE files \cup {p}
      /\ owned' = IF p \in files THEN owned \ {p} ELSE owned \cup {p}
      /\ UNCHANGED <<kept, config, recovery, safeMode, disabled, recovered, pending,
                     known, loaded, reloading, started, blamed, crashed>>
  BY DEF FolderChanges, disk, memory, history
<1>5. TypeOK'
  BY <1>1, <1>2, <1>3, <1>4 DEF IInv, TypeOK, Entry, Operations
<1>6. StartInv'
  BY <1>1, <1>2, <1>3, <1>4 DEF IInv, StartInv
<1>7. SlotInv'
  BY <1>1, <1>2, <1>3, <1>4 DEF IInv, SlotInv, InCode, Guarded
<1>8. ListInv'
  BY <1>1, <1>2, <1>3, <1>4 DEF IInv, ListInv
<1>9. DisabledInv'
  BY <1>1, <1>2, <1>3, <1>4 DEF IInv, DisabledInv
<1>10. SaveInv'
  BY <1>1, <1>2, <1>3, <1>4 DEF IInv, SaveInv
<1>11. PackageInv'
  BY <1>1, <1>2, <1>3, <1>4 DEF IInv, PackageInv
<1> QED
  BY <1>3, <1>5, <1>6, <1>7, <1>8, <1>9, <1>10, <1>11 DEF IInv

\* A reload is asked for within one.
LEMMA ReloadQueuedKeeps ==
    ASSUME IInv, ReloadQueued
    PROVE  IInv'
<1>1. work' = work /\ work \in Seq(Entry) /\ WellFormed(work)' /\ Entries' = Entries /\ Top' = Top
  BY DEF ReloadQueued, IInv, TypeOK, Entry, WellFormed, Entries, Top
<1>2. /\ reloading' = "queued"
      /\ UNCHANGED <<files, kept, config, recovery, safeMode, disabled, recovered,
                     pending, known, loaded, started, blamed, owned, crashed>>
  BY DEF ReloadQueued, disk, memory, history
<1>3. TypeOK'
  BY <1>1, <1>2 DEF IInv, TypeOK, Entry, Operations
<1>4. StartInv'
  BY <1>1, <1>2 DEF IInv, StartInv
<1>5. SlotInv'
  BY <1>1, <1>2 DEF IInv, SlotInv, InCode, Guarded
<1>6. ListInv'
  BY <1>1, <1>2 DEF IInv, ListInv
<1>7. DisabledInv'
  BY <1>1, <1>2 DEF IInv, DisabledInv
<1>8. SaveInv'
  BY <1>1, <1>2 DEF IInv, SaveInv
<1>9. PackageInv'
  BY <1>1, <1>2 DEF IInv, PackageInv
<1> QED
  BY <1>1, <1>3, <1>4, <1>5, <1>6, <1>7, <1>8, <1>9 DEF IInv

-----------------------------------------------------------------------------
(* The start. *)

\* What the manager does at its start stands on nothing.
LEMMA StartsWell ==
    /\ StartWork \in Seq(Entry) /\ WellFormed(StartWork) /\ StartWork # <<>>
    /\ Head(StartWork) = E("read", {})
    /\ Rng(StartWork) = {E("read", {}), E("recover", {}), E("rescan", {}), E("ready", {})}
<1> DEFINE a == E("read", {})
           b == E("recover", {})
           c == E("rescan", {})
           d == E("ready", {})
           t3 == On(c, <<d>>)
           t2 == On(b, t3)
<1>1. /\ a \in Entry /\ a.do = "read"
      /\ b \in Entry /\ b.do = "recover" /\ b.calledBack = FALSE
      /\ c \in Entry /\ c.do = "rescan" /\ c.calledBack = FALSE
      /\ d \in Entry /\ d.do = "ready" /\ d.calledBack = FALSE
  BY DEF E, Entry
<1>2. StartWork = ((<<a>> \o <<b>>) \o <<c>>) \o <<d>>
  BY DEF StartWork, Do, E
<1> HIDE DEF a, b, c, d
<1>3. Good(<<d>>, {d}) /\ <<d>> # <<>> /\ Head(<<d>>) = d
  <2>1. Good(<<>>, {}) /\ FitsOn(d, <<>>)
    BY <1>1 DEF Good, WellFormed, Rng, FitsOn
  <2>2. On(d, <<>>) = <<d>>
    <3>1. <<d>> \in Seq(Entry)
      BY <1>1
    <3> QED
      BY <3>1, ConcatEmptySeq DEF On
  <2>3. <<>> \in Seq(Entry) /\ WellFormed(<<>>) /\ Rng(<<>>) = {}
    BY <2>1 DEF Good
  <2>4. WellFormed(On(d, <<>>))
    BY <1>1, <2>1, <2>3, PushKeeps
  <2>5. /\ On(d, <<>>) \in Seq(Entry) /\ On(d, <<>>) # <<>> /\ Head(On(d, <<>>)) = d
        /\ Rng(On(d, <<>>)) = {d} \cup Rng(<<>>)
    <3> DEFINE s == <<>>
    <3>1. s \in Seq(Entry)
      OBVIOUS
    <3> HIDE DEF s
    <3>2. /\ On(d, s) \in Seq(Entry) /\ On(d, s) # <<>> /\ Head(On(d, s)) = d
          /\ Rng(On(d, s)) = {d} \cup Rng(s)
      BY <1>1, <3>1, OnFacts
    <3> QED
      BY <3>2 DEF s
  <2> QED
    BY <2>2, <2>3, <2>4, <2>5 DEF Good
<1>4. Good(t3, {c, d}) /\ t3 # <<>> /\ Head(t3) = c
  <2>1. {c} \cup {d} = {c, d} /\ Sits(c, d, {d})
    BY <1>1 DEF Sits, NextTo, Above, Under
  <2> QED
    BY <1>1, <1>3, <2>1, PutMore
<1>5. Good(t2, {b, c, d}) /\ t2 # <<>> /\ Head(t2) = b
  <2> HIDE DEF t3
  <2>1. {b} \cup {c, d} = {b, c, d} /\ Sits(b, c, {c, d})
    BY <1>1 DEF Sits, NextTo, Above, Under
  <2>2. t2 = On(b, t3)
    OBVIOUS
  <2> QED
    BY <1>1, <1>4, <2>1, PutMore
<1>6. Good(On(a, t2), {a, b, c, d}) /\ On(a, t2) # <<>> /\ Head(On(a, t2)) = a
  <2> HIDE DEF t2
  <2>1. {a} \cup {b, c, d} = {a, b, c, d} /\ Sits(a, b, {b, c, d})
    BY <1>1 DEF Sits, NextTo, Above, Under
  <2> QED
    BY <1>1, <1>5, <2>1, PutMore
<1>7. StartWork = On(a, t2)
  <2>1. /\ <<a>> \in Seq(Entry) /\ <<a>> \o <<b>> \in Seq(Entry)
        /\ <<d>> \in Seq(Entry) /\ t3 \in Seq(Entry)
    BY <1>1, <1>3, <1>4 DEF Good
  <2>2. ((<<a>> \o <<b>>) \o <<c>>) \o <<d>> = (<<a>> \o <<b>>) \o t3
    <3> DEFINE u == <<a>> \o <<b>>
               v == <<d>>
    <3>1. u \in Seq(Entry) /\ v \in Seq(Entry)
      BY <2>1
    <3> HIDE DEF u, v
    <3>2. (u \o <<c>>) \o v = u \o On(c, v)
      BY <1>1, <3>1, Regroup
    <3> QED
      BY <3>2 DEF u, v
  <2>3. (<<a>> \o <<b>>) \o t3 = <<a>> \o t2
    <3> DEFINE u == <<a>>
    <3>1. u \in Seq(Entry)
      BY <2>1
    <3> HIDE DEF u, t3
    <3>2. (u \o <<b>>) \o t3 = u \o On(b, t3)
      BY <1>1, <2>1, <3>1, Regroup
    <3> QED
      BY <3>2 DEF u
  <2> QED
    BY <1>2, <2>2, <2>3 DEF On
<1> QED
  BY <1>6, <1>7 DEF Good, a, b, c, d

\* The entries of a start: nothing of a plugin is among them.
LEMMA StartFacts ==
    /\ \A x \in Rng(StartWork) :
        x \in Entry /\ x.do \in {"read", "recover", "rescan", "ready"} /\ x.of = {}
    /\ Head(StartWork).do = "read" /\ Head(StartWork) \in Rng(StartWork)
    /\ \E x \in Rng(StartWork) : x.do = "recover"
<1> DEFINE a == E("read", {})
           b == E("recover", {})
           c == E("rescan", {})
           d == E("ready", {})
<1>1. /\ a \in Entry /\ a.do = "read" /\ a.of = {}
      /\ b \in Entry /\ b.do = "recover" /\ b.of = {}
      /\ c \in Entry /\ c.do = "rescan" /\ c.of = {}
      /\ d \in Entry /\ d.do = "ready" /\ d.of = {}
  BY DEF E, Entry
<1>2. Rng(StartWork) = {a, b, c, d} /\ Head(StartWork) = a
  BY StartsWell
<1> HIDE DEF a, b, c, d
<1> QED
  BY <1>1, <1>2

\* The first start.
LEMMA InitHolds == Init => IInv
<1> SUFFICES ASSUME Init PROVE IInv
  OBVIOUS
<1>1. /\ work \in Seq(Entry) /\ WellFormed(work) /\ work # <<>> /\ Top.do = "read"
      /\ Top \in Entries /\ Early /\ EarlyRead
      /\ \A x \in Entries :
          x \in Entry /\ x.do \in {"read", "recover", "rescan", "ready"} /\ x.of = {}
  BY StartsWell, StartFacts DEF Init, Entries, Top, Early, EarlyRead, At
<1>2. /\ files \subseteq Plugins /\ owned = files /\ kept = {} /\ config = {} /\ safeMode = FALSE
      /\ recovery = Saved({}, NoOperation) /\ disabled = {} /\ recovered = {}
      /\ pending = NoOperation /\ known = {} /\ loaded = {} /\ reloading = "no"
      /\ started = FALSE /\ blamed = {} /\ crashed = FALSE
  BY DEF Init
<1>3. TypeOK
  BY <1>1, <1>2 DEF TypeOK, Entry, Saved, Operations, NoOperation
<1>4. StartInv
  BY <1>2 DEF StartInv
<1>5. SlotInv
  BY <1>1, <1>2 DEF SlotInv, InCode, NoOperation
<1>6. ListInv
  BY <1>1, <1>2 DEF ListInv, At
<1>7. DisabledInv
  BY <1>1, <1>2 DEF DisabledInv, At, Saved, Ids, NoOperation
<1>8. SaveInv
  BY <1>1, <1>2 DEF SaveInv
<1>9. PackageInv
  BY <1>1, <1>2 DEF PackageInv
<1> QED
  BY <1>1, <1>3, <1>4, <1>5, <1>6, <1>7, <1>8, <1>9 DEF IInv

\* The program is started again, wherever it was stopped: the files are enough.
LEMMA NewStartKeeps ==
    ASSUME IInv, NewStart, blamed' \subseteq Plugins, crashed' \in BOOLEAN,
           blamed' \subseteq config \cup Ids(recovery.pending),
           crashed' \/ (crashed' = crashed /\ kept = {})
    PROVE  IInv'
<1>1. /\ TypeOK /\ WellFormed(work) /\ SlotInv /\ DisabledInv /\ PackageInv
  BY DEF IInv
<1>2. /\ disabled' = {} /\ recovered' = {} /\ pending' = NoOperation /\ known' = {}
      /\ loaded' = {} /\ reloading' = "no" /\ started' = FALSE
      /\ UNCHANGED <<files, kept, config, recovery, safeMode, owned>>
  BY DEF NewStart, disk
<1>3. /\ work' \in Seq(Entry) /\ WellFormed(work)' /\ work' # <<>> /\ Top'.do = "read"
      /\ Top' \in Entries' /\ Early' /\ EarlyRead'
      /\ \A x \in Entries' :
          x \in Entry /\ x.do \in {"read", "recover", "rescan", "ready"} /\ x.of = {}
  BY StartsWell, StartFacts DEF NewStart, Entries, Top, Early, EarlyRead, At
<1>4. recovery.disabled \subseteq config \cup Ids(recovery.pending)
  BY <1>1 DEF DisabledInv
<1>5. TypeOK'
  BY <1>1, <1>2, <1>3 DEF TypeOK, Entry, Operations
<1>6. StartInv'
  BY <1>2 DEF StartInv
<1>7. SlotInv'
  BY <1>2, <1>3 DEF SlotInv, InCode, NoOperation
<1>8. ListInv'
  BY <1>2, <1>3 DEF ListInv, At
<1>9. DisabledInv'
  BY <1>2, <1>3, <1>4 DEF DisabledInv, At, Ids
<1>10. SaveInv'
  BY <1>2, <1>3 DEF SaveInv
<1>11. PackageInv'
  BY <1>1, <1>2, <1>3 DEF PackageInv
<1> QED
  BY <1>3, <1>5, <1>6, <1>7, <1>8, <1>9, <1>10, <1>11 DEF IInv

\* Who was to blame is to blame after a kill.
LEMMA BlamedIsRecorded ==
    ASSUME IInv
    PROVE  blamed \subseteq config \cup Ids(recovery.pending)
BY DEF IInv, DisabledInv

\* The application ends.
LEMMA ExitKeeps ==
    ASSUME IInv, Exit
    PROVE  IInv'
<1>1. TypeOK /\ WellFormed(work) /\ PackageInv /\ work # <<>> /\ Top.do = "exit"
  BY DEF IInv, Exit, At
<1>2. Entries = {Top} \cup Below /\ \A x \in Below : Above(Top, x)
  BY <1>1, Seen
<1>3. ~crashed => kept = {}
  BY <1>1, <1>2 DEF PackageInv, Above, Under
<1>4. crashed \in BOOLEAN /\ blamed \subseteq Plugins /\ blamed' = blamed /\ crashed' = crashed
  BY <1>1 DEF TypeOK, Exit
<1>5. crashed' \/ (crashed' = crashed /\ kept = {})
  BY <1>3, <1>4
<1> QED
  BY <1>4, <1>5, BlamedIsRecorded, NewStartKeeps DEF Exit

\* The program is killed between two steps of the manager.
LEMMA KillKeeps ==
    ASSUME IInv, Kill
    PROVE  IInv'
<1>1. blamed \subseteq Plugins /\ blamed' = blamed /\ crashed' = TRUE
  BY DEF IInv, TypeOK, Kill
<1> QED
  BY <1>1, BlamedIsRecorded, NewStartKeeps DEF Kill

\* Code of a plugin takes the program down.
LEMMA PluginCrashKeeps ==
    ASSUME IInv, PluginCrash
    PROVE  IInv'
<1>1. TypeOK /\ WellFormed(work) /\ SlotInv /\ InCode /\ work # <<>>
  BY DEF IInv, PluginCrash, InCode
<1>2. Top.of \subseteq Plugins
  BY <1>1, Seen, EntryType
<1>3. Guarded => Top.of \subseteq Ids(recovery.pending)
  BY <1>1 DEF SlotInv, InCode, EarlyRead, At, Ids
<1>4. blamed' \subseteq Plugins /\ blamed' \subseteq config \cup Ids(recovery.pending)
  BY <1>1, <1>2, <1>3, BlamedIsRecorded DEF PluginCrash, TypeOK
<1>5. crashed' = TRUE
  BY DEF PluginCrash
<1> QED
  BY <1>4, <1>5, NewStartKeeps DEF PluginCrash

-----------------------------------------------------------------------------
(* Every step. *)

\* Code of a plugin ends.
LEMMA CodeKeeps ==
    ASSUME IInv, NEW p \in Plugins, CodeEnds(p)
    PROVE  IInv'
<1>1. CASE CallbackReturns(p) \/ OnLoadReturns(p) \/ PackageRejected(p)
  BY <1>1, CodeReturnsKeeps
<1>2. CASE CallbackThrows(p) \/ OnLoadThrows(p)
  BY <1>2, CodeThrowsKeeps, CodeThrowsLoadedKeeps
<1>3. CASE LoadFails(p)
  BY <1>3, LoadFailsKeeps
<1>4. CASE LoadSucceeds(p)
  BY <1>4, LoadSucceedsKeeps
<1>5. CASE Unloaded(p)
  BY <1>5, UnloadedKeeps
<1>6. CASE PackageAccepted(p)
  BY <1>6, PackageAcceptedKeeps
<1> QED
  BY <1>1, <1>2, <1>3, <1>4, <1>5, <1>6 DEF CodeEnds

\* Steps of the manager.
LEMMA ManagerKeeps ==
    ASSUME IInv, ManagerStep
    PROVE  IInv'
<1>1. CASE Finish \/ ScanEnds \/ RescanSafe \/ Rescan \/ UnloadAllEnds \/ Read
  BY <1>1, FinishKeeps, ScanEndsKeeps, RescanSafeKeeps, RescanKeeps, UnloadAllEndsKeeps, ReadKeeps
<1>2. CASE Recover \/ CreateSafeModeFile \/ Ready \/ SaveConfig \/ SaveRecovery \/ ForgiveEnds
  BY <1>2, RecoverCrashKeeps, RecoverNothingKeeps, CreateSafeModeFileKeeps, ReadyKeeps,
     SaveConfigKeeps, SaveRecoveryKeeps, ForgiveEndsKeeps
<1>3. CASE Reload \/ ReloadScan \/ ReloadAgain \/ ReloadEnds \/ Exit
  BY <1>3, ReloadKeeps, ReloadScanRecordedKeeps, ReloadScanKeeps, ReloadEndsKeeps, ExitKeeps
<1>4. ASSUME NEW p \in Plugins,
             \/ ScanDisabled(p) \/ ScanEnabled(p) \/ UnloadNext(p) \/ Disable(p)
             \/ ForgiveNext(p) \/ Copy(p) \/ CopyFails(p) \/ Place(p) \/ PlaceFails(p)
      PROVE  IInv'
  BY <1>4, ScanDisabledKeeps, ScanEnabledKeeps, UnloadNextKeeps, DisableKeeps, ForgiveNextKeeps,
     CopyKeeps, CopyFailsKeeps, PlaceKeeps, PlaceFailsKeeps
<1>5. ASSUME NEW p \in Plugins,
             \/ Allow(p) \/ Installed(p) \/ CheckInstalled(p) \/ RollBack(p)
             \/ KeepInstalled(p) \/ Delete(p) \/ DeleteFails(p) \/ Forget(p)
      PROVE  IInv'
  BY <1>5, AllowKeeps, InstalledSafeKeeps, InstalledKeeps, CheckFailsKeeps, CheckSucceedsKeeps,
     RollBackKeeps, KeepInstalledKeeps, DeleteKeeps, DeleteFailsListedKeeps, DeleteFailsKeeps,
     ForgetKeeps
<1> QED
  BY <1>1, <1>2, <1>3, <1>4, <1>5 DEF ManagerStep

\* What the user and the outer program ask for.
LEMMA RequestsKeep ==
    ASSUME IInv, Requests
    PROVE  IInv'
<1>1. CASE SetSafeModeOn \/ SetSafeModeOff \/ ReloadQueued \/ Quit
  BY <1>1, SetSafeModeOnKeeps, SetSafeModeOffKeeps, ReloadQueuedKeeps, QuitKeeps
<1>2. ASSUME NEW p \in Plugins,
             \/ SetEnabled(p) \/ SetDisabled(p) \/ InstallPackage(p)
             \/ RemovePlugin(p) \/ Callback(p) \/ FolderChanges(p)
      PROVE  IInv'
  BY <1>2, EnableKeeps, EnableFailsKeeps, SetDisabledLoadedKeeps, SetDisabledKeeps,
     InstallPackageKeeps, RemoveLoadedKeeps, RemoveListedKeeps, CallbackIdleKeeps,
     CallbackInCodeKeeps, FolderChangesKeeps
<1> QED
  BY <1>1, <1>2 DEF Requests

\* Nothing happens.
LEMMA NothingKeeps ==
    ASSUME IInv, UNCHANGED vars
    PROVE  IInv'
<1>1. /\ Entries' = Entries /\ Top' = Top /\ work' = work
      /\ UNCHANGED <<files, kept, config, recovery, safeMode, disabled, recovered, pending,
                     known, loaded, reloading, started, blamed, owned, crashed>>
  BY DEF vars, disk, memory, history, Entries, Top
<1> QED
  BY <1>1 DEF IInv, TypeOK, WellFormed, StartInv, SlotInv, ListInv, DisabledInv, SaveInv,
     PackageInv, EarlyRead, Early, At, InCode, Guarded

(* The stack, the memory and the files belong together, in every state:    *)
(* the invariant the properties below follow from (the manager as a whole, *)
(* whatever plugins do and wherever the program dies).                     *)
THEOREM Recoverable == Spec => []IInv
<1>1. IInv /\ [Next]_vars => IInv'
  <2> SUFFICES ASSUME IInv, [Next]_vars PROVE IInv'
    OBVIOUS
  <2>1. CASE Step
    BY <2>1, CodeKeeps, ManagerKeeps DEF Step
  <2>2. CASE Requests
    BY <2>2, RequestsKeep
  <2>3. CASE PluginCrash \/ Kill
    BY <2>3, PluginCrashKeeps, KillKeeps
  <2>4. CASE UNCHANGED vars
    BY <2>4, NothingKeeps
  <2> QED
    BY <2>1, <2>2, <2>3, <2>4 DEF Next
<1> QED
  BY <1>1, InitHolds, PTL DEF Spec

(* The type invariant: a loaded plugin has a record, and the stack is of   *)
(* what the manager does.                                                  *)
THEOREM TypeCorrect == Spec => []TypeOK
<1>1. IInv => TypeOK
  BY DEF IInv
<1> QED
  BY <1>1, Recoverable, PTL

(* While code of a plugin runs the file names that plugin and nobody else, *)
(* however deep the code calls back (startRecoveryOperation): who takes    *)
(* the program down is blamed, and no innocent is.                         *)
THEOREM CrasherBlamed == Spec => []CrasherIsBlamed
<1>1. IInv => CrasherIsBlamed
  <2> SUFFICES ASSUME IInv PROVE CrasherIsBlamed
    OBVIOUS
  <2>1. SlotInv /\ (InCode => ~EarlyRead)
    BY DEF IInv, InCode, EarlyRead, At
  <2>2. CrashIsRecorded
    BY <2>1 DEF CrashIsRecorded, SlotInv
  <2>3. OnlyCrasherIsBlamed
    BY <2>1 DEF OnlyCrasherIsBlamed, SlotInv
  <2>4. OnlyBusyIsRecorded
    <3> SUFFICES ASSUME ~At("read"), started, recovery.pending.active
                 PROVE  \A p \in recovery.pending.ids : \E i \in DOMAIN work : p \in work[i].of
      BY DEF OnlyBusyIsRecorded
    <3>1. pending.active /\ recovery.pending = pending
      BY <2>1 DEF SlotInv, EarlyRead
    <3>2. PICK x \in Entries : x.of = pending.ids
      BY <2>1, <3>1 DEF SlotInv
    <3>3. PICK i \in DOMAIN work : x = work[i]
      BY <3>2 DEF Entries, Rng
    <3> QED
      BY <3>1, <3>2, <3>3
  <2> QED
    BY <2>2, <2>3, <2>4 DEF CrasherIsBlamed
<1> QED
  BY <1>1, Recoverable, PTL

(* A plugin whose recorded code took the program down does not run again   *)
(* before the user asks for it, and one that is marked as disabled by      *)
(* recovery is not loaded (recoverFromPendingState and what it writes, in  *)
(* whatever order the program dies).                                       *)
THEOREM BlamedDisabled == Spec => []DisabledStaysOff
<1>1. IInv => DisabledStaysOff
  <2> SUFFICES ASSUME IInv PROVE DisabledStaysOff
    OBVIOUS
  <2>1. TypeOK /\ ListInv /\ DisabledInv
    BY DEF IInv
  <2>2. BlamedStaysOff
    <3> SUFFICES ASSUME NEW i \in Running, work[i].do # "inspect"
                 PROVE  work[i].of \cap blamed = {}
      BY DEF BlamedStaysOff
    <3>1. work[i] \in Entries /\ work[i].do \in CodeKinds
      BY DEF Entries, Rng, Running
    <3> QED
      BY <2>1, <3>1 DEF DisabledInv
  <2>3. RecoveredStaysOff
    <3>1. CASE ~Early
      BY <2>1, <3>1 DEF DisabledInv, ListInv, RecoveredStaysOff
    <3>2. CASE Early
      <4>1. WellFormed(work) /\ work # <<>>
        BY <3>2 DEF IInv, Early, Entries, Rng
      <4>2. \A x \in Entries : x.do # "unloadAll"
        BY <3>2, <4>1, Seen DEF Early, Above, Under
      <4> QED
        BY <2>1, <3>2, <4>2 DEF ListInv, TypeOK, Early, RecoveredStaysOff
    <3> QED
      BY <3>1, <3>2
  <2> QED
    BY <2>2, <2>3 DEF DisabledStaysOff
<1> QED
  BY <1>1, Recoverable, PTL

(* At rest the files are the memory of the manager and no operation is     *)
(* left recorded; and until the program dies an install keeps the package  *)
(* that was there (installPackage, removePlugin, disablePlugin and reload, *)
(* each with every step that may fail).                                    *)
THEOREM FilesInOrder == Spec => []FilesAreInOrder
<1>1. IInv => FilesAreInOrder
  <2> SUFFICES ASSUME IInv PROVE FilesAreInOrder
    OBVIOUS
  <2>1. TypeOK /\ SlotInv /\ SaveInv /\ PackageInv
    BY DEF IInv
  <2>2. SavedStatesAgree
    <3> SUFFICES ASSUME work = <<>>
                 PROVE  /\ config = disabled /\ recovery = Saved(recovered, NoOperation)
                        /\ pending = NoOperation
      BY DEF SavedStatesAgree, Request, Idle
    <3>1. Entries = {}
      BY DEF Entries, Rng
    <3>2. config = disabled /\ ~EarlyRead /\ ~pending.active /\ recovery.disabled = recovered
      BY <2>1, <3>1 DEF SaveInv, SlotInv, EarlyRead, Early
    <3>3. pending = NoOperation /\ recovery.pending = pending
      BY <2>1, <3>2 DEF SlotInv, TypeOK, Operations, Operation
    <3>4. recovery = [disabled |-> recovery.disabled, pending |-> recovery.pending]
      BY <2>1 DEF TypeOK
    <3> QED
      BY <3>2, <3>3, <3>4 DEF Saved
  <2>3. InstallKeepsPackage
    BY <2>1 DEF InstallKeepsPackage, PackageInv, Idle, Entries, Rng
  <2> QED
    BY <2>2, <2>3 DEF FilesAreInOrder
<1> QED
  BY <1>1, Recoverable, PTL
=============================================================================
