------------------------------ MODULE AtomicFile ------------------------------
(*****************************************************************************)
(* What the program relies on when it stores a file: whenever it stops, a    *)
(* reader finds the old content or the new one, never a mixture of the two.  *)
(* One thread writes the file, another one may clear it, also while it is    *)
(* being written, and then either of them may win.                           *)
(*****************************************************************************)

CONSTANTS
  Values,      \* what a file may hold
  NoValue      \* what a reader gets who finds no readable file

VARIABLES
  content,     \* what a reader finds
  writing,     \* the value being written, or NoValue
  before,      \* the content when its writing began
  clearing,    \* whether the file is being cleared
  overlap,     \* whether the writing and the clearing have met
  atRisk       \* whether the writer gives the old content up for the new one

vars == <<content, writing, before, clearing, overlap, atRisk>>

Contents == Values \union {NoValue}

Init ==
  /\ content \in Contents
  /\ writing = NoValue
  /\ before \in Contents
  /\ clearing = FALSE
  /\ overlap = FALSE
  /\ atRisk = FALSE

Write(v) ==
  /\ writing = NoValue
  /\ writing' = v
  /\ before' = content
  /\ overlap' = (overlap \/ clearing)
  /\ atRisk' = FALSE
  /\ UNCHANGED <<content, clearing>>

Clear ==
  /\ ~clearing
  /\ clearing' = TRUE
  /\ overlap' = (overlap \/ writing # NoValue)
  /\ UNCHANGED <<content, writing, before, atRisk>>

(* What the content may become: the value being written, nothing while the   *)
(* file is cleared or at risk, and when the two have met what it was before. *)
MayBecome(c) ==
  \/ c = content
  \/ writing # NoValue /\ (c = writing \/ (atRisk' /\ c = NoValue))
  \/ clearing /\ c = NoValue
  \/ overlap /\ c \in {before, NoValue}

Take ==
  /\ MayBecome(content')
  /\ atRisk' \in BOOLEAN
  /\ UNCHANGED <<writing, before, clearing, overlap>>

(* The writing ends, also when it failed and the value is given up. *)
Written ==
  /\ MayBecome(content')
  /\ atRisk' \in BOOLEAN
  /\ writing' = NoValue
  /\ overlap' = (overlap /\ clearing)
  /\ UNCHANGED <<before, clearing>>

Cleared ==
  /\ MayBecome(content')
  /\ clearing' = FALSE
  /\ overlap' = (overlap /\ writing # NoValue)
  /\ atRisk' \in BOOLEAN
  /\ UNCHANGED <<writing, before>>

(* The program stops and starts again: the content is what it was. *)
Stop ==
  /\ writing' = NoValue
  /\ clearing' = FALSE
  /\ overlap' = FALSE
  /\ atRisk' = FALSE
  /\ UNCHANGED <<content, before>>

Next ==
  \/ \E v \in Values : Write(v)
  \/ Clear
  \/ Take
  \/ Written
  \/ Cleared
  \/ Stop

Spec == Init /\ [][Next]_vars
===============================================================================
