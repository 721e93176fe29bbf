---------------------------- MODULE AccountStorage ----------------------------
(*****************************************************************************)
(* The local storage of an account (storage/storage_account.cpp) and the     *)
(* manager of its writes (storage/details/storage_file_utilities.cpp).       *)
(*                                                                           *)
(* Each thing the account stores, a slot here, has a file of its own under a *)
(* random key, and the file "map" says which key is whose. The main thread   *)
(* keeps both in memory, clears files itself and hands the writing of files  *)
(* to the manager's thread, in a queue of tasks; the manager keeps a queue of*)
(* entries in which a newer entry takes the place of an older one. A slot is *)
(* written at once (a draft) or some time after it has changed (the prefs);  *)
(* the map is written by a task of the main thread or, after a removal, by a *)
(* timer. The program may be killed at any time, quit, and log out.          *)
(*                                                                           *)
(* A file is one that is replaced at once, as AtomicFile says and StoredFile *)
(* shows; its contents are numbers, newer ones greater.                      *)
(*****************************************************************************)
EXTENDS Naturals, Sequences, SequencesExt

CONSTANTS
  Slots,        \* what the account stores
  Delayed,      \* the slots that are written some time after a change
  Map,          \* the name of the map's file
  MaxChanges,   \* bound: changes of all the slots
  MaxStops      \* bound: crashes, exits and log outs together

ASSUME SlotsAssumption == Delayed \subseteq Slots
ASSUME BoundsAssumption == MaxChanges \in Nat /\ MaxStops \in Nat

(* Keys of files; a change of a slot uses up one at most. *)
NoKey == 0
FileKeys == 1..MaxChanges

ASSUME MapAssumption == Map \notin FileKeys

VARIABLES
  state,        \* the main thread: up, in ~Account, in a sync, or down
  data,         \* what the slots hold in memory, 0 for nothing
  version,      \* the last content that a slot was given
  lastKey,      \* the last key that was generated
  dirty,        \* the slots whose delayed write is due (_prefsChanged)
  keyOf,        \* the map in memory (_draftsMap, _prefsKey)
  mapChanged,   \* _mapChanged
  mapTimer,     \* whether _writeMapTimer is active
  mapPosted,    \* tasks of writeMapQueued in the main queue
  inbox,        \* tasks of the manager's thread, in order
  scheduled,    \* _scheduled
  current,      \* the entry in writeNow, or Nothing
  contested,    \* its file was cleared meanwhile
  files,        \* the disk: the content of each file, 0 for none
  mapFile,      \* the disk: the map
  removing,     \* keys that the log out still removes, on a thread of its own
  stops,        \* crashes, exits and log outs so far
  stale,        \* history: slots that a log out left in memory only
  recent        \* history: what a slot held since it was last stored

memory == <<data, version, lastKey, dirty, keyOf>>
mapState == <<mapChanged, mapTimer, mapPosted>>
queue == <<inbox, scheduled, current, contested>>
disk == <<files, mapFile>>
vars == <<state, data, version, lastKey, dirty, keyOf, mapChanged, mapTimer,
          mapPosted, inbox, scheduled, current, contested, files, mapFile, removing, stops,
          stale, recent>>

(* A task of the manager writes an entry, the name of a file and its new     *)
(* content, or is one of the two that take entries from its queue.           *)
Entry(base, content) == [base |-> base, content |-> content]
Scheduled == [task |-> "writeScheduled"]
Sync == [task |-> "writeSyncAll"]
Nothing == [task |-> "none"]
IsEntry(task) == task \notin {Scheduled, Sync, Nothing}

NoKeys == [s \in Slots |-> NoKey]
KeysOf(map) == {map[s] : s \in Slots} \ {NoKey}

Entries ==
  [base : FileKeys, content : 1..MaxChanges]
    \union [base : {Map}, content : [Slots -> FileKeys \union {NoKey}]]

TypeOK ==
  /\ state \in {"up", "exiting", "finishing", "leaving", "down"}
  /\ data \in [Slots -> 0..MaxChanges]
  /\ version \in 0..MaxChanges
  /\ lastKey \in FileKeys \union {NoKey}
  /\ dirty \subseteq Delayed
  /\ keyOf \in [Slots -> FileKeys \union {NoKey}]
  /\ mapChanged \in BOOLEAN
  /\ mapTimer \in BOOLEAN
  /\ mapPosted \in Nat
  /\ \A t \in ToSet(inbox) : IsEntry(t) => t \in Entries
  /\ \A e \in ToSet(scheduled) : e \in Entries
  /\ current # Nothing => current \in Entries
  /\ contested => current # Nothing
  /\ files \in [FileKeys -> 0..MaxChanges]
  /\ mapFile \in [Slots -> FileKeys \union {NoKey}]
  /\ removing \subseteq FileKeys
  /\ stops \in 0..MaxStops
  /\ stale \subseteq Delayed
  /\ \A s \in Slots : recent[s] \subseteq 0..MaxChanges
  /\ \A i, j \in DOMAIN scheduled :
       scheduled[i].base = scheduled[j].base => i = j

-------------------------------------------------------------------------------
(* What a start would find of a slot, if the program stopped now. *)
Stored(s) == IF mapFile[s] = NoKey THEN 0 ELSE files[mapFile[s]]

(* What should be found once all is written. *)
Wanted(s) == IF s \in stale THEN 0 ELSE data[s]

Queued == {t \in ToSet(inbox) : IsEntry(t)} \union ToSet(scheduled)

(* Nothing of the slot, and nothing of the map, is left to be written. *)
AtRest(s) ==
  /\ Queued = {}
  /\ current = Nothing
  /\ ~mapChanged
  /\ s \notin dirty

LoggedOut == state = "leaving" /\ state' = "up"

Remember ==
  recent' = [s \in Slots |->
    IF AtRest(s)' THEN {Wanted(s)'}
    ELSE IF LoggedOut THEN {0, Wanted(s)'}
    ELSE recent[s] \union {Wanted(s)'}]

Init ==
  /\ state = "up"
  /\ data = [s \in Slots |-> 0]
  /\ version = 0
  /\ lastKey = NoKey
  /\ dirty = {}
  /\ keyOf = NoKeys
  /\ mapChanged = FALSE
  /\ mapTimer = FALSE
  /\ mapPosted = 0
  /\ inbox = <<>>
  /\ scheduled = <<>>
  /\ current = Nothing
  /\ contested = FALSE
  /\ files = [k \in FileKeys |-> 0]
  /\ mapFile = NoKeys
  /\ removing = {}
  /\ stops = 0
  /\ stale = {}
  /\ recent = [s \in Slots |-> {0}]

-------------------------------------------------------------------------------
(* The main thread *)

(* ClearKey, of a file that the manager may be writing right now. *)
ClearKey(k) ==
  /\ files' = [files EXCEPT ![k] = 0]
  /\ contested' = (contested \/ (current # Nothing /\ current.base = k))

(* The file of a slot is written; a new key also posts a write of the map.   *)
(* GenerateKey draws one of 2^64 numbers: always another one here.           *)
Write(s, content) ==
  /\ stale' = stale \ {s}
  /\ IF keyOf[s] # NoKey
     THEN /\ inbox' = Append(inbox, Entry(keyOf[s], content))
          /\ UNCHANGED <<lastKey, keyOf, mapChanged, mapPosted>>
     ELSE /\ lastKey' = lastKey + 1
          /\ keyOf' = [keyOf EXCEPT ![s] = lastKey + 1]
          /\ mapChanged' = TRUE
          /\ mapPosted' = mapPosted + 1
          /\ inbox' = Append(inbox, Entry(lastKey + 1, content))
  /\ UNCHANGED <<mapTimer, files, contested>>

(* Nothing is left of a slot: its file is cleared, the map written later. *)
RemoveFile(s) ==
  /\ IF keyOf[s] = NoKey
     THEN UNCHANGED <<keyOf, mapChanged, mapTimer, files, contested>>
     ELSE /\ ClearKey(keyOf[s])
          /\ keyOf' = [keyOf EXCEPT ![s] = NoKey]
          /\ mapChanged' = TRUE
          /\ mapTimer' = TRUE
  /\ stale' = stale \ {s}
  /\ UNCHANGED <<lastKey, inbox, mapPosted>>

Change(s, content) ==
  /\ state = "up"
  /\ version < MaxChanges
  /\ data' = [data EXCEPT ![s] = content]
  /\ version' = version + 1

(* writeDrafts *)
SaveNow(s) ==
  /\ s \notin Delayed
  /\ Change(s, version + 1)
  /\ Write(s, version + 1)
  /\ UNCHANGED <<state, dirty, scheduled, current, mapFile, removing, stops>>
  /\ Remember

ClearNow(s) ==
  /\ s \notin Delayed
  /\ data[s] # 0
  /\ Change(s, 0)
  /\ RemoveFile(s)
  /\ UNCHANGED <<state, dirty, scheduled, current, mapFile, removing, stops>>
  /\ Remember

(* writePrefGeneric, clearPref *)
ChangePrefs(s) ==
  /\ s \in Delayed
  /\ \/ Change(s, version + 1)
     \/ data[s] # 0 /\ Change(s, 0)
  /\ dirty' = dirty \union {s}
  /\ UNCHANGED <<state, lastKey, keyOf, mapState, queue, disk, removing, stops, stale>>
  /\ Remember

(* _writePrefsTimer *)
WritePrefs(s) ==
  /\ state \in {"up", "exiting"}
  /\ s \in dirty
  /\ dirty' = dirty \ {s}
  /\ IF data[s] = 0 THEN RemoveFile(s) ELSE Write(s, data[s])
  /\ UNCHANGED <<state, data, version, scheduled, current, mapFile, removing,
                 stops>>
  /\ Remember

(* writeMap, by a task of writeMapQueued or by _writeMapTimer *)
WriteMap ==
  /\ state = "up"
  /\ \/ mapPosted > 0 /\ mapPosted' = mapPosted - 1
     \/ mapTimer /\ UNCHANGED mapPosted
  /\ mapTimer' = FALSE
  /\ mapChanged' = FALSE
  /\ inbox' = IF mapChanged THEN Append(inbox, Entry(Map, keyOf)) ELSE inbox
  /\ UNCHANGED <<state, memory, scheduled, current, contested, disk, removing,
                 stops, stale>>
  /\ Remember

(* Mutant: the log out leaves the map to the timer. *)
ResetLater ==
  /\ state = "up"
  /\ stops < MaxStops
  /\ stops' = stops + 1
  /\ state' = "leaving"
  /\ removing' = KeysOf(keyOf)
  /\ data' = [s \in Slots |-> IF s \in Delayed THEN data[s] ELSE 0]
  /\ stale' = Delayed \ dirty
  /\ keyOf' = NoKeys
  /\ mapChanged' = TRUE
  /\ mapTimer' = TRUE
  /\ inbox' = Append(inbox, Sync)
  /\ UNCHANGED <<version, lastKey, dirty, mapPosted, scheduled, current,
                 contested, disk>>
  /\ recent' = [s \in Slots |-> recent[s] \union {0, data[s]}]

(* reset, when the account logs out: it returns when the manager is idle.    *)
(* What it does not clear are the prefs in memory.                           *)
Reset ==
  /\ state = "up"
  /\ stops < MaxStops
  /\ stops' = stops + 1
  /\ state' = "leaving"
  /\ removing' = KeysOf(keyOf)
  /\ data' = [s \in Slots |-> IF s \in Delayed THEN data[s] ELSE 0]
  /\ stale' = Delayed \ dirty
  /\ keyOf' = NoKeys
  /\ mapChanged' = FALSE
  /\ mapTimer' = FALSE
  /\ inbox' = inbox \o <<Entry(Map, NoKeys), Sync>>
  /\ UNCHANGED <<version, lastKey, dirty, mapPosted, scheduled, current,
                 contested, disk>>
  /\ recent' = [s \in Slots |-> recent[s] \union {0, data[s]}]

RemoveLeft ==
  /\ \E k \in removing : ClearKey(k) /\ removing' = removing \ {k}
  /\ UNCHANGED <<state, memory, mapState, inbox, scheduled, current, mapFile,
                 stops, stale>>
  /\ Remember

(* ~Account writes what is due, the map after the prefs; then Manager.stop. *)
Exit ==
  /\ state = "up"
  /\ stops < MaxStops
  /\ stops' = stops + 1
  /\ state' = "exiting"
  /\ UNCHANGED <<memory, mapState, queue, disk, removing, stale>>
  /\ Remember

(* Mutant: the map and the end of the manager come before the prefs. *)
ExitForgetsPrefs ==
  /\ state = "exiting"
  /\ state' = "finishing"
  /\ mapChanged' = FALSE
  /\ mapTimer' = FALSE
  /\ mapPosted' = 0
  /\ inbox' = inbox
       \o (IF mapChanged THEN <<Entry(Map, keyOf), Sync>> ELSE <<Sync>>)
  /\ UNCHANGED <<memory, scheduled, current, contested, disk, removing, stops,
                 stale>>
  /\ Remember

ExitWritesMap ==
  /\ state = "exiting"
  /\ dirty = {}
  /\ state' = "finishing"
  /\ mapChanged' = FALSE
  /\ mapTimer' = FALSE
  /\ mapPosted' = 0
  /\ inbox' = inbox
       \o (IF mapChanged THEN <<Entry(Map, keyOf), Sync>> ELSE <<Sync>>)
  /\ UNCHANGED <<memory, scheduled, current, contested, disk, removing, stops,
                 stale>>
  /\ Remember

-------------------------------------------------------------------------------
(* The manager's thread *)

(* Mutant: every entry is put at the end of the queue. *)
PlaceLast(e) == Append(scheduled, e)

(* WriteManager::write: a newer entry takes the place of an older one. *)
Place(e) ==
  IF \E i \in DOMAIN scheduled : scheduled[i].base = e.base
  THEN [i \in DOMAIN scheduled |->
          IF scheduled[i].base = e.base THEN e ELSE scheduled[i]]
  ELSE Append(scheduled, e)

(* Mutant: the writing of the queue is not scheduled. *)
TakeWriteOnly ==
  /\ current = Nothing
  /\ inbox # <<>>
  /\ IsEntry(Head(inbox))
  /\ scheduled' = Place(Head(inbox))
  /\ inbox' = Tail(inbox)
  /\ UNCHANGED <<state, memory, mapState, current, contested, disk, removing,
                 stops, stale>>
  /\ Remember

TakeWrite ==
  /\ current = Nothing
  /\ inbox # <<>>
  /\ IsEntry(Head(inbox))
  /\ scheduled' = Place(Head(inbox))
  /\ inbox' = Append(Tail(inbox), Scheduled)
  /\ UNCHANGED <<state, memory, mapState, current, contested, disk, removing,
                 stops, stale>>
  /\ Remember

(* writeOneScheduledNow, for writeScheduled and for writeSyncAll *)
StartWriting ==
  /\ current = Nothing
  /\ inbox # <<>>
  /\ ~IsEntry(Head(inbox))
  /\ scheduled # <<>>
  /\ current' = Head(scheduled)
  /\ scheduled' = Tail(scheduled)
  /\ UNCHANGED <<state, memory, mapState, inbox, contested, disk, removing,
                 stops, stale>>
  /\ Remember

(* The file has its new content, unless ClearKey, which it met, has won. *)
FinishWriting ==
  /\ current # Nothing
  /\ IF current.base = Map
     THEN mapFile' = current.content /\ UNCHANGED files
     ELSE /\ \E c \in {current.content} \union (IF contested THEN {0} ELSE {}) :
               files' = [files EXCEPT ![current.base] = c]
          /\ UNCHANGED mapFile
  /\ current' = Nothing
  /\ contested' = FALSE
  /\ inbox' = IF Head(inbox) = Sync THEN inbox
              ELSE IF scheduled = <<>> THEN Tail(inbox)
              ELSE Append(Tail(inbox), Scheduled)
  /\ UNCHANGED <<state, memory, mapState, scheduled, removing, stops, stale>>
  /\ Remember

(* Nothing is left to write: writeSyncAll lets the main thread go on. *)
NothingToWrite ==
  /\ current = Nothing
  /\ inbox # <<>>
  /\ ~IsEntry(Head(inbox))
  /\ scheduled = <<>>
  /\ inbox' = Tail(inbox)
  /\ state' = IF Head(inbox) # Sync THEN state
              ELSE IF state = "leaving" THEN "up" ELSE "down"
  /\ UNCHANGED <<memory, mapState, scheduled, current, contested, disk, removing,
                 stops, stale>>
  /\ Remember

-------------------------------------------------------------------------------
(* Stops and starts *)

Crash ==
  /\ state # "down"
  /\ stops < MaxStops
  /\ stops' = stops + 1
  /\ state' = "down"
  /\ UNCHANGED <<memory, mapState, queue, disk, removing, stale, recent>>

(* readMapWith: what has no readable file loses its key; for the prefs the   *)
(* map is written again.                                                     *)
Start ==
  /\ state = "down"
  /\ state' = "up"
  /\ LET missing == {s \in Slots : mapFile[s] # NoKey /\ Stored(s) = 0} IN
     /\ keyOf' = [s \in Slots |-> IF s \in missing THEN NoKey ELSE mapFile[s]]
     /\ mapChanged' = (missing \intersect Delayed # {})
     /\ mapTimer' = (missing \intersect Delayed # {})
  /\ data' = [s \in Slots |-> Stored(s)]
  /\ dirty' = {}
  /\ stale' = {}
  /\ removing' = {}
  /\ mapPosted' = 0
  /\ inbox' = <<>>
  /\ scheduled' = <<>>
  /\ current' = Nothing
  /\ contested' = FALSE
  /\ UNCHANGED <<version, lastKey, disk, stops>>
  /\ Remember

(* clearLegacyFiles, which is told the keys in use by collectGoodNames. *)
ClearLegacyFiles ==
  /\ state = "up"
  /\ \E k \in FileKeys : files[k] # 0 /\ k \notin KeysOf(keyOf)
  /\ contested' = (contested
       \/ (current # Nothing /\ current.base \notin KeysOf(keyOf) \union {Map}))
  /\ files' = [k \in FileKeys |-> IF k \in KeysOf(keyOf) THEN files[k] ELSE 0]
  /\ UNCHANGED <<state, memory, mapState, inbox, scheduled, current, mapFile,
                 removing, stops, stale>>
  /\ Remember

Manager == TakeWrite \/ StartWriting \/ FinishWriting \/ NothingToWrite

Next ==
  \/ \E s \in Slots : SaveNow(s) \/ ClearNow(s) \/ ChangePrefs(s) \/ WritePrefs(s)
  \/ WriteMap
  \/ Reset \/ RemoveLeft
  \/ Exit \/ ExitWritesMap
  \/ Manager
  \/ Crash \/ Start \/ ClearLegacyFiles

Spec == Init /\ [][Next]_vars

(* The manager's thread runs, the timers end, the main queue is served, and  *)
(* a program that has begun to quit does so.                                 *)
FairSpec ==
  /\ Spec
  /\ WF_vars(Manager)
  /\ WF_vars(WriteMap)
  /\ WF_vars(\E s \in Slots : WritePrefs(s))
  /\ WF_vars(ExitWritesMap)

-------------------------------------------------------------------------------
(* Properties *)

(* Whenever the program is killed, a start finds of each slot what it held   *)
(* then, or at some time since it was last stored in full: nothing older,    *)
(* what it holds when nothing is left to write, and after a log out nothing  *)
(* from before it.                                                           *)
NothingOldReturns == \A s \in Slots : Stored(s) \in recent[s]

(* A program that quits has stored everything, the changes whose timers were *)
(* still running too.                                                        *)
ExitStoresAll ==
  [][state = "finishing" /\ state' = "down" /\ stops' = stops
       => \A s \in Slots : Stored(s)' = Wanted(s)]_vars

(* Every change is stored in the end while the program runs. *)
EverythingIsStored ==
  \A s \in Slots : state = "up" ~> (AtRest(s) \/ state # "up")
===============================================================================
