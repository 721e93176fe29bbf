------------------------------ MODULE StoredFile ------------------------------
(*****************************************************************************)
(* One file of the local storage on the disk                                 *)
(* (storage/details/storage_file_utilities.cpp).                             *)
(*                                                                           *)
(* A file "base" is stored under up to three names. The manager's thread     *)
(* writes base+"s" through QSaveFile, which renames a complete temporary     *)
(* file over it, and then removes base+"0" and base+"1". When that fails it  *)
(* truncates base+"0", writes it in place, removes base+"1" and renames      *)
(* base+"0" to base+"s". Older versions of the program wrote "0" and "1" in  *)
(* turn, so both may be there when this one starts. The main thread clears a *)
(* file by removing "0", "1" and "s", while the other thread may write it.   *)
(* The program may stop between any two calls of the file system.            *)
(*****************************************************************************)
EXTENDS Naturals

CONSTANTS
  Values,      \* what a file may hold
  NoValue,     \* the result of ReadFile that finds no readable file
  Torn,        \* bytes whose md5 does not match
  Absent,      \* there is no file of this name
  DiskMayFill  \* whether a plain file may be written in part, unnoticed

ASSUME DistinctMarks ==
  /\ NoValue \notin Values
  /\ Torn \notin Values
  /\ Absent \notin Values
  /\ Torn # Absent

ASSUME DiskMayFillAssumption == DiskMayFill \in BOOLEAN

VARIABLES
  safe,           \* base+"s"
  simple,         \* base+"0"
  backup,         \* base+"1"
  simpleIsNewer,  \* lastModified of "1" is before that of "0", or the same
  pc,             \* where writeNow is; "down" from a stop to the next read
  value,          \* what it writes, or NoValue
  clearing,       \* the name that ClearKey removes next, or "no"
  short,          \* the plain file was not written in full
  before,         \* history: what could be read when writeNow began
  overlap         \* history: writeNow and ClearKey have met

names == <<safe, simple, backup, simpleIsNewer>>
history == <<before, overlap>>
fileVars == <<safe, simple, backup, simpleIsNewer, pc, value, clearing, short,
              before, overlap>>

FileBytes == Values \union {Torn, Absent}

Steps == {"down", "idle", "save", "removeSimple", "removeBackup", "openPlain",
          "fillPlain", "dropBackup", "rename", "dropSafe"}

FileTypeOK ==
  /\ safe \in FileBytes
  /\ simple \in FileBytes
  /\ backup \in FileBytes
  /\ simpleIsNewer \in BOOLEAN
  /\ pc \in Steps
  /\ value \in Values \union {NoValue}
  /\ clearing \in {"no", "simple", "backup", "safe"}
  /\ short \in BOOLEAN
  /\ before \in Values \union {NoValue}
  /\ overlap \in BOOLEAN
  /\ (value = NoValue) <=> (pc \in {"down", "idle"})

-------------------------------------------------------------------------------
(* The result of ReadFile: "s" when there is such a file, whatever is in it, *)
(* otherwise the newer of the other two whose md5 matches.                   *)

FirstValid(a, b) ==
  IF a \in Values THEN a ELSE IF b \in Values THEN b ELSE NoValue

Readable ==
  IF safe # Absent THEN FirstValid(safe, Absent)
  ELSE IF backup = Absent \/ (simple # Absent /\ simpleIsNewer)
       THEN FirstValid(simple, backup)
       ELSE FirstValid(backup, simple)

(* The program starts on what the versions before it left. *)
FileInit ==
  /\ safe \in FileBytes
  /\ simple \in FileBytes
  /\ backup \in FileBytes
  /\ simpleIsNewer \in BOOLEAN
  /\ pc = "down"
  /\ value = NoValue
  /\ clearing = "no"
  /\ short = FALSE
  /\ before = NoValue
  /\ overlap = FALSE

(* ReadFile at the start: of "0" and "1" it removes the one it did not take. *)
Read ==
  /\ pc = "down"
  /\ pc' = "idle"
  /\ IF safe = Absent /\ simple # Absent /\ backup # Absent /\ Readable # NoValue
     THEN LET takeSimple == simple \in Values
                              /\ (simpleIsNewer \/ backup \notin Values)
          IN /\ simple' = IF takeSimple THEN simple ELSE Absent
             /\ backup' = IF takeSimple THEN Absent ELSE backup
     ELSE UNCHANGED <<simple, backup>>
  /\ UNCHANGED <<safe, simpleIsNewer, value, clearing, short, history>>

-------------------------------------------------------------------------------
(* writeNow, on the manager's thread *)

WriteNow(v) ==
  /\ pc = "idle"
  /\ pc' = "save"
  /\ value' = v
  /\ short' = FALSE
  /\ before' = Readable
  /\ overlap' = (overlap \/ clearing # "no")
  /\ UNCHANGED <<names, clearing>>

(* The last step of writeNow, whether the value was written or lost. *)
Return ==
  /\ pc' = "idle"
  /\ value' = NoValue
  /\ overlap' = (overlap /\ clearing # "no")

Commit ==
  /\ pc = "save"
  /\ safe' = value
  /\ pc' = "removeSimple"
  /\ UNCHANGED <<simple, backup, simpleIsNewer, value, clearing, short, history>>

(* The temporary file could not be opened, written or renamed. *)
SaveFails ==
  /\ pc = "save"
  /\ pc' = "openPlain"
  /\ UNCHANGED <<names, value, clearing, short, history>>

RemoveSimple ==
  /\ pc = "removeSimple"
  /\ simple' = Absent
  /\ pc' = "removeBackup"
  /\ UNCHANGED <<safe, backup, simpleIsNewer, value, clearing, short, history>>

RemoveBackup ==
  /\ pc = "removeBackup"
  /\ backup' = Absent
  /\ Return
  /\ UNCHANGED <<safe, simple, simpleIsNewer, clearing, short, before>>

(* QIODevice::WriteOnly truncates the file. *)
OpenPlain ==
  /\ pc = "openPlain"
  /\ simple' = Torn
  /\ simpleIsNewer' = TRUE
  /\ pc' = "fillPlain"
  /\ UNCHANGED <<safe, backup, value, clearing, short, history>>

(* Mutant: the entry is kept when neither file could be opened. *)
PlainFailsKeeping ==
  /\ pc = "openPlain"
  /\ pc' = "idle"
  /\ UNCHANGED <<names, value, clearing, short, history>>

PlainFails ==
  /\ pc = "openPlain"
  /\ Return
  /\ UNCHANGED <<names, clearing, short, before>>

(* The result of write is not looked at. A file that was removed meanwhile   *)
(* has no name any more.                                                     *)
FillPlain ==
  /\ pc = "fillPlain"
  /\ \/ /\ simple' = IF simple = Absent THEN Absent ELSE value
        /\ short' = FALSE
     \/ /\ DiskMayFill
        /\ short' = TRUE
        /\ UNCHANGED simple
  /\ pc' = "dropBackup"
  /\ UNCHANGED <<safe, backup, simpleIsNewer, value, clearing, history>>

DropBackup ==
  /\ pc = "dropBackup"
  /\ backup' = Absent
  /\ pc' = "rename"
  /\ UNCHANGED <<safe, simple, simpleIsNewer, value, clearing, short, history>>

Rename ==
  /\ pc = "rename"
  /\ simple # Absent
  /\ safe' = simple
  /\ simple' = Absent
  /\ Return
  /\ UNCHANGED <<backup, simpleIsNewer, clearing, short, before>>

RenameFails ==
  /\ pc = "rename"
  /\ pc' = "dropSafe"
  /\ UNCHANGED <<names, value, clearing, short, history>>

(* Mutant: the plain file is removed, not the one it should have replaced. *)
DropSimple ==
  /\ pc = "dropSafe"
  /\ simple' = Absent
  /\ Return
  /\ UNCHANGED <<safe, backup, simpleIsNewer, clearing, short, before>>

DropSafe ==
  /\ pc = "dropSafe"
  /\ safe' = Absent
  /\ Return
  /\ UNCHANGED <<simple, backup, simpleIsNewer, clearing, short, before>>

-------------------------------------------------------------------------------
(* ClearKey, on the main thread *)

ClearFile ==
  /\ pc # "down"
  /\ clearing = "no"
  /\ clearing' = "simple"
  /\ overlap' = (overlap \/ pc # "idle")
  /\ UNCHANGED <<names, pc, value, short, before>>

(* Mutant: ClearKey removes the newest name first. *)
ClearNewestFirst ==
  /\ clearing = "simple"
  /\ safe' = Absent
  /\ clearing' = "backup"
  /\ UNCHANGED <<simple, backup, simpleIsNewer, pc, value, short, history>>

ClearSimple ==
  /\ clearing = "simple"
  /\ simple' = Absent
  /\ clearing' = "backup"
  /\ UNCHANGED <<safe, backup, simpleIsNewer, pc, value, short, history>>

ClearBackup ==
  /\ clearing = "backup"
  /\ backup' = Absent
  /\ clearing' = "safe"
  /\ UNCHANGED <<safe, simple, simpleIsNewer, pc, value, short, history>>

ClearSafe ==
  /\ clearing = "safe"
  /\ safe' = Absent
  /\ clearing' = "no"
  /\ overlap' = (overlap /\ pc # "idle")
  /\ UNCHANGED <<simple, backup, simpleIsNewer, pc, value, short, before>>

(* The program is killed, or the machine stops after the last flushed call. *)
Stop ==
  /\ pc # "down"
  /\ pc' = "down"
  /\ value' = NoValue
  /\ clearing' = "no"
  /\ short' = FALSE
  /\ overlap' = FALSE
  /\ UNCHANGED <<names, before>>

Writer ==
  \/ Commit \/ SaveFails \/ RemoveSimple \/ RemoveBackup
  \/ OpenPlain \/ PlainFails \/ FillPlain \/ DropBackup
  \/ Rename \/ RenameFails \/ DropSafe

FileNext ==
  \/ Read
  \/ \E v \in Values : WriteNow(v)
  \/ Writer
  \/ ClearFile \/ ClearSimple \/ ClearBackup \/ ClearSafe
  \/ Stop

FileSpec == FileInit /\ [][FileNext]_fileVars

-------------------------------------------------------------------------------
(* Properties *)

(* The old content is given up before the new one is complete in two cases:  *)
(* "0" is the only version there is and is truncated by the fallback, or the *)
(* disk is full and the plain file is not written in full.                   *)
AtRisk == short \/ (pc = "fillPlain" /\ safe = Absent /\ backup \notin Values)

File == INSTANCE AtomicFile WITH
  content <- Readable, writing <- value, before <- before,
  clearing <- clearing # "no", overlap <- overlap, atRisk <- AtRisk

(* The three names together behave as one file that is replaced at once:     *)
(* whatever call the program stops at, what can be read is the old content   *)
(* or the new one, but for the two cases of AtRisk.                          *)
IsAtomic == File!Spec

(* Unless ClearKey came between and the disk was full, writeNow returns with *)
(* its value stored, by whichever of its ways, once it could open a file.    *)
ReturnedIsStored ==
  [][pc \notin {"idle", "openPlain"} /\ pc' = "idle" /\ value # NoValue
       => overlap \/ short \/ Readable' = value]_fileVars
===============================================================================
