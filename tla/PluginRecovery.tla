--------------------------- MODULE PluginRecovery ---------------------------
(***************************************************************************)
(* The recovery of `Plugins::Manager` (plugins/plugins_manager.cpp, PM):   *)
(* before the manager runs code of a plugin it writes who is about to run  *)
(* in a file, and clears the record afterwards; a record that is found at  *)
(* the start belongs to a plugin that took the program down, and the       *)
(* plugin is disabled and safe mode turned on.                             *)
(*                                                                         *)
(* The main thread is a stack, `work`, of what is left to do, first the    *)
(* innermost: code of a plugin, or a step of the manager.  A step ends     *)
(* where the program may die with something new on the disk, or where      *)
(* plugin code starts.  Code of a plugin returns, throws, takes the        *)
(* program down, or calls back: what it does (a message it sends, a dialog *)
(* with an event loop of its own) makes the manager run a callback above   *)
(* it, at most MaxDepth deep.                                              *)
(*                                                                         *)
(* The number of handlers of a plugin, the notice shown after a recovery,  *)
(* stored settings and the contents of a package are left out.             *)
(***************************************************************************)
EXTENDS Naturals, Sequences, FiniteSets

CONSTANTS
    Plugins,    \* ids of plugins, one package each
    MaxDepth    \* how deep code of plugins may be nested (bound)

ASSUME DepthAssumption == MaxDepth \in Nat \ {0}

VARIABLES
    files,      \* packages in tdata/plugins
    kept,       \* packages moved aside to ".rollback"
    config,     \* plugins.json: "disabled"
    recovery,   \* plugins.recovery.json: "disabledByRecovery" and "pending"
    safeMode,   \* plugins.safe-mode exists
    disabled,   \* _disabled
    recovered,  \* _disabledByRecovery
    pending,    \* _recoveryPending
    known,      \* _plugins
    loaded,     \* those of _plugins with an instance and a library
    reloading,  \* _reloadInProgress and _reloadQueued
    started,    \* start() has returned
    work,       \* the stack of the main thread
    blamed,     \* history: recorded code of these took the program down, not
                \* forgiven since
    owned,      \* history: packages installed and not removed
    crashed     \* history: the program died at least once

disk    == <<files, kept, config, recovery, safeMode>>
memory  == <<disabled, recovered, pending, known, loaded, reloading, started>>
history == <<blamed, owned, crashed>>
vars    == <<disk, memory, work, history>>

Operation(ids) == [active |-> TRUE, ids |-> ids]
NoOperation    == [active |-> FALSE, ids |-> {}]
Operations     == {NoOperation} \cup {Operation(S) : S \in SUBSET Plugins}

(* One entry of the stack: what to do, to which plugins.  History, for     *)
(* code: another operation began within that of this code.                 *)
Do(what, ids) == <<[do |-> what, of |-> ids, calledBack |-> FALSE]>>

(* Code of a plugin, by where the manager runs it.                         *)
CodeKinds == {"callback", "load", "onload", "unload", "inspect"}
StepKinds == {"finish", "scan", "rescan", "unloadAll", "read", "recover",
              "safe", "disable", "saveConfig", "saveRecovery", "forgive", "reload",
              "reloadScan", "again", "copy", "place", "allow", "installed", "check",
              "restore", "keep", "delete", "forget", "ready", "exit"}

Top     == Head(work)
Running == {i \in DOMAIN work : work[i].do \in CodeKinds}
InCode  == work # <<>> /\ Top.do \in CodeKinds
Idle    == work = <<>>
At(what)       == work # <<>> /\ Top.do = what
Then(entries)  == work' = entries \o Tail(work)
Code(what, p)  == InCode /\ Top.do = what /\ Top.of = {p}

(* startRecoveryOperation and finishRecoveryOperation: one slot, saved at  *)
(* once.  What is saved is the memory of the manager.                      *)
Saved(rec, op) == [disabled |-> rec, pending |-> op]

\* Mutant: the operation is not saved before it starts.
StartUnsaved(ids) == pending' = Operation(ids) /\ UNCHANGED recovery

Start(ids)     == /\ pending' = Operation(ids)
                  /\ recovery' = Saved(recovered, Operation(ids))

\* Mutant: the end of an operation is not saved.
ClearUnsaved == pending' = NoOperation /\ UNCHANGED recovery

ClearSlot      == /\ pending' = NoOperation
                  /\ recovery' = IF pending.active THEN Saved(recovered, NoOperation)
                                                   ELSE recovery

\* Mutant: onUnload is not called and the library stays.
NoUnload(p) == <<>>

(* unloadPluginRecord: onUnload runs if there is an instance.              *)
Unload(p) == IF p \in loaded THEN Do("unload", {p}) ELSE <<>>

(* disablePlugin, after code of p has thrown; nothing without a record.    *)
(* It runs within the operation of that code.                              *)
DisablePlugin(p) ==
    IF p \in known
    THEN [i \in DOMAIN Unload(p) |-> [Unload(p)[i] EXCEPT !.calledBack = Top.calledBack]]
         \o Do("disable", {p}) \o Do("saveRecovery", {})
    ELSE <<>>
-----------------------------------------------------------------------------
(* Code of a plugin ends.                                                  *)

(* An action, a panel, a setting, a command, an interceptor, an observer,  *)
(* a window or a session handler.                                          *)
CallbackReturns(p) ==
    /\ Code("callback", p)
    /\ Then(<<>>)
    /\ UNCHANGED <<disk, memory, history>>

CallbackThrows(p) ==
    /\ Code("callback", p)
    /\ Then(DisablePlugin(p))
    /\ UNCHANGED <<disk, memory, history>>

(* loadPlugin, the library, its exports and its entry: an error leaves a   *)
(* record that is not loaded.                                              *)
LoadFails(p) ==
    /\ Code("load", p)
    /\ known' = known \cup {p}
    /\ Then(Do("finish", {p}))
    /\ UNCHANGED <<disk, disabled, recovered, pending, loaded, reloading, started, history>>

(* ... and its success goes on to onLoad under an operation of its own.    *)
LoadSucceeds(p) ==
    /\ Code("load", p)
    /\ known' = known \cup {p}
    /\ loaded' = loaded \cup {p}
    /\ Start({p})
    /\ Then(Do("onload", {p}) \o Do("finish", {p}))
    /\ UNCHANGED <<files, kept, config, safeMode, disabled, recovered, reloading,
                   started, history>>

OnLoadReturns(p) ==
    /\ Code("onload", p)
    /\ Then(<<>>)
    /\ UNCHANGED <<disk, memory, history>>

OnLoadThrows(p) ==
    /\ Code("onload", p)
    /\ Then(DisablePlugin(p))
    /\ UNCHANGED <<disk, memory, history>>

(* onUnload; what it throws is only noted.  The library goes with it.      *)
Unloaded(p) ==
    /\ Code("unload", p)
    /\ loaded' = loaded \ {p}
    /\ Then(<<>>)
    /\ UNCHANGED <<disk, disabled, recovered, pending, known, reloading, started, history>>

(* CheckPackageLoadability: preview and binary info of a package.          *)
PackageRejected(p) ==
    /\ Code("inspect", p)
    /\ Then(<<>>)
    /\ UNCHANGED <<disk, memory, history>>

PackageAccepted(p) ==
    /\ Code("inspect", p)
    /\ Start({p})
    /\ Then(Do("unloadAll", {}) \o Do("read", {}) \o Do("copy", {p}))
    /\ UNCHANGED <<files, kept, config, safeMode, disabled, recovered, known, loaded,
                   reloading, started, history>>
-----------------------------------------------------------------------------
(* Steps of the manager.                                                   *)

Finish ==
    /\ At("finish")
    /\ ClearSlot
    /\ Then(<<>>)
    /\ UNCHANGED <<files, kept, config, safeMode, disabled, recovered, known, loaded,
                   reloading, started, history>>

(* loadPlugin of the next package: a disabled one is only listed.          *)
ScanDisabled(p) ==
    /\ At("scan") /\ p \in Top.of /\ p \in disabled
    /\ known' = known \cup {p}
    /\ Then(Do("scan", Top.of \ {p}))
    /\ UNCHANGED <<disk, disabled, recovered, pending, loaded, reloading, started, history>>

ScanEnabled(p) ==
    /\ At("scan") /\ p \in Top.of /\ p \notin disabled
    /\ Start({p})
    /\ Then(Do("load", {p}) \o Do("scan", Top.of \ {p}))
    /\ UNCHANGED <<files, kept, config, safeMode, disabled, recovered, known, loaded,
                   reloading, started, history>>

ScanEnds ==
    /\ At("scan") /\ Top.of = {}
    /\ Then(<<>>)
    /\ UNCHANGED <<disk, memory, history>>

(* scanPlugins, of metadata only in safe mode.                             *)
RescanSafe ==
    /\ At("rescan") /\ safeMode
    /\ known' = files
    /\ Then(<<>>)
    /\ UNCHANGED <<disk, disabled, recovered, pending, loaded, reloading, started, history>>

Rescan ==
    /\ At("rescan") /\ ~safeMode
    /\ Then(Do("scan", files))
    /\ UNCHANGED <<disk, memory, history>>

(* unloadAll: one plugin after the other, each under its own operation.    *)
UnloadNext(p) ==
    /\ At("unloadAll") /\ p \in loaded
    /\ Start({p})
    /\ work' = Unload(p) \o Do("finish", {p}) \o work
    /\ UNCHANGED <<files, kept, config, safeMode, disabled, recovered, known, loaded,
                   reloading, started, history>>

UnloadAllEnds ==
    /\ At("unloadAll") /\ loaded = {}
    /\ known' = {}
    /\ Then(<<>>)
    /\ UNCHANGED <<disk, disabled, recovered, pending, loaded, reloading, started, history>>

(* loadConfig and loadRecoveryState.                                       *)
Read ==
    /\ At("read")
    /\ disabled' = config
    /\ recovered' = recovery.disabled
    /\ pending' = recovery.pending
    /\ Then(<<>>)
    /\ UNCHANGED <<disk, known, loaded, reloading, started, history>>

\* Mutant: safe mode is all that is done for a crash.
BlameNobody(op) == {}

(* recoverFromPendingState: whoever was about to run is disabled, safe     *)
(* mode is turned on, and only then the record is cleared.                 *)
Blame(op) == op.ids

Recover ==
    /\ At("recover")
    /\ IF pending.active
       THEN /\ disabled' = disabled \cup Blame(pending)
            /\ recovered' = recovered \cup Blame(pending)
            /\ config' = disabled'
            /\ Then(Do("safe", {}) \o Do("finish", {}))
       ELSE /\ Then(<<>>)
            /\ UNCHANGED <<config, disabled, recovered>>
    /\ UNCHANGED <<files, kept, recovery, safeMode, pending, known, loaded, reloading,
                   started, history>>

CreateSafeModeFile ==
    /\ At("safe")
    /\ safeMode' = TRUE
    /\ Then(<<>>)
    /\ UNCHANGED <<files, kept, config, recovery, memory, history>>

(* start(), up to the subscription to the active session.                  *)
Ready ==
    /\ At("ready")
    /\ started' = TRUE
    /\ Then(<<>>)
    /\ UNCHANGED <<disk, disabled, recovered, pending, known, loaded, reloading, history>>

(* The end of disablePlugin and of setEnabled(false).                      *)
Disable(p) ==
    /\ At("disable") /\ Top.of = {p}
    /\ disabled' = disabled \cup {p}
    /\ recovered' = recovered \ {p}
    /\ config' = disabled'
    /\ Then(<<>>)
    /\ UNCHANGED <<files, kept, recovery, safeMode, pending, known, loaded, reloading,
                   started, history>>

SaveConfig ==
    /\ At("saveConfig")
    /\ config' = disabled
    /\ Then(<<>>)
    /\ UNCHANGED <<files, kept, recovery, safeMode, memory, history>>

SaveRecovery ==
    /\ At("saveRecovery")
    /\ recovery' = Saved(recovered, pending)
    /\ Then(<<>>)
    /\ UNCHANGED <<files, kept, config, safeMode, memory, history>>

(* clearRecoveryDisabled; the configuration is saved after it.             *)
Forgive(p) ==
    /\ disabled' = disabled \ {p}
    /\ recovered' = recovered \ {p}
    /\ recovery' = Saved(recovered \ {p}, pending)
    /\ blamed' = blamed \ {p}

ForgiveNext(p) ==
    /\ At("forgive") /\ p \in recovered
    /\ Forgive(p)
    /\ UNCHANGED <<files, kept, config, safeMode, pending, known, loaded, reloading,
                   started, work, owned, crashed>>

ForgiveEnds ==
    /\ At("forgive") /\ recovered = {}
    /\ Then(Do("saveConfig", {}))
    /\ UNCHANGED <<disk, memory, history>>

(* reload, and its loop.                                                   *)
ReloadBody == Do("unloadAll", {}) \o Do("read", {}) \o Do("reloadScan", {}) \o Do("again", {})

Reload ==
    /\ At("reload")
    /\ reloading' = "busy"
    /\ Then(ReloadBody)
    /\ UNCHANGED <<disk, disabled, recovered, pending, known, loaded, started, history>>

ReloadScan ==
    /\ At("reloadScan")
    /\ IF ~safeMode /\ ~pending.active
       THEN /\ Start({})
            /\ Then(Do("rescan", {}) \o Do("finish", {}))
       ELSE /\ Then(Do("rescan", {}))
            /\ UNCHANGED <<recovery, pending>>
    /\ UNCHANGED <<files, kept, config, safeMode, disabled, recovered, known, loaded,
                   reloading, started, history>>

ReloadAgain ==
    /\ At("again") /\ reloading = "queued"
    /\ reloading' = "busy"
    /\ Then(ReloadBody)
    /\ UNCHANGED <<disk, disabled, recovered, pending, known, loaded, started, history>>

ReloadEnds ==
    /\ At("again") /\ reloading = "busy"
    /\ reloading' = "no"
    /\ Then(<<>>)
    /\ UNCHANGED <<disk, disabled, recovered, pending, known, loaded, started, history>>
-----------------------------------------------------------------------------
(* installPackage, after everything is unloaded.  A package that is there  *)
(* is moved aside, what was left aside by an earlier install is deleted.   *)
Copy(p) ==
    /\ At("copy") /\ Top.of = {p}
    /\ kept' = (kept \ {p}) \cup (files \cap {p})
    /\ files' = files \ {p}
    /\ Then(Do("place", {p}))
    /\ UNCHANGED <<config, recovery, safeMode, memory, history>>

(* The package cannot be copied, or the old one not be moved.              *)
CopyFails(p) ==
    /\ At("copy") /\ Top.of = {p}
    /\ kept' = kept \ {p}
    /\ Then(Do("rescan", {}) \o Do("finish", {p}))
    /\ UNCHANGED <<files, config, recovery, safeMode, memory, history>>

Place(p) ==
    /\ At("place") /\ Top.of = {p}
    /\ files' = files \cup {p}
    /\ Then(Do("allow", {p}) \o Do("saveConfig", {}) \o Do("installed", {p}))
    /\ UNCHANGED <<kept, config, recovery, safeMode, memory, history>>

\* Mutant: the backup is deleted with the new package.
RemoveBoth(p) ==
    /\ files' = files \ {p}
    /\ kept' = kept \ {p}

(* restoreRollbackBackup: the new package goes, the old one comes back.    *)
RestoreBackup(p) ==
    /\ files' = (files \ {p}) \cup (kept \cap {p})
    /\ kept' = kept \ {p}

PlaceFails(p) ==
    /\ At("place") /\ Top.of = {p}
    /\ RestoreBackup(p)
    /\ Then(Do("rescan", {}) \o Do("finish", {p}))
    /\ UNCHANGED <<config, recovery, safeMode, memory, history>>

Allow(p) ==
    /\ At("allow") /\ Top.of = {p}
    /\ Forgive(p)
    /\ Then(<<>>)
    /\ UNCHANGED <<files, kept, config, safeMode, pending, known, loaded, reloading,
                   started, owned, crashed>>

(* In safe mode nothing is scanned after an install, not even metadata.    *)
Installed(p) ==
    /\ At("installed") /\ Top.of = {p}
    /\ Then(IF safeMode THEN Do("finish", {p}) \o Do("keep", {p})
                        ELSE Do("rescan", {}) \o Do("check", {p}))
    /\ UNCHANGED <<disk, memory, history>>

CheckInstalled(p) ==
    /\ At("check") /\ Top.of = {p}
    /\ Then(IF p \in known \ loaded
            THEN Do("unloadAll", {}) \o Do("restore", {p}) \o Do("read", {})
                   \o Do("rescan", {}) \o Do("finish", {p})
            ELSE Do("finish", {p}) \o Do("keep", {p}))
    /\ UNCHANGED <<disk, memory, history>>

RollBack(p) ==
    /\ At("restore") /\ Top.of = {p}
    /\ RestoreBackup(p)
    /\ Then(<<>>)
    /\ UNCHANGED <<config, recovery, safeMode, memory, history>>

KeepInstalled(p) ==
    /\ At("keep") /\ Top.of = {p}
    /\ kept' = kept \ {p}
    /\ owned' = owned \cup {p}
    /\ Then(<<>>)
    /\ UNCHANGED <<files, config, recovery, safeMode, memory, blamed, crashed>>

(* removePlugin, after the plugin is unloaded.                             *)
Delete(p) ==
    /\ At("delete") /\ Top.of = {p}
    /\ files' = files \ {p}
    /\ owned' = owned \ {p}
    /\ Then(Do("forget", {p}) \o Do("saveRecovery", {}) \o Do("finish", {p}))
    /\ UNCHANGED <<kept, config, recovery, safeMode, memory, blamed, crashed>>

(* Deleting fails, perhaps with the package already renamed.               *)
DeleteFails(p) ==
    /\ At("delete") /\ Top.of = {p}
    /\ files' \in {files, files \ {p}}
    /\ owned' = owned \ (files \ files')
    /\ IF p \in files' \ disabled
       THEN /\ known' = known \ {p}
            /\ Then(Do("scan", {p}) \o Do("finish", {p}))
       ELSE /\ Then(Do("finish", {p}))
            /\ UNCHANGED known
    /\ UNCHANGED <<kept, config, recovery, safeMode, disabled, recovered, pending, loaded,
                   reloading, started, blamed, crashed>>

Forget(p) ==
    /\ At("forget") /\ Top.of = {p}
    /\ disabled' = disabled \ {p}
    /\ recovered' = recovered \ {p}
    /\ config' = disabled'
    /\ known' = known \ {p}
    /\ blamed' = blamed \ {p}
    /\ Then(<<>>)
    /\ UNCHANGED <<files, kept, recovery, safeMode, pending, loaded, reloading, started,
                   owned, crashed>>
-----------------------------------------------------------------------------
(* What the user and the outer program ask for, between events.            *)
Request == Idle /\ started

SetEnabled(p) ==
    /\ Request /\ p \in known /\ (p \in disabled \/ p \notin loaded)
    /\ IF p \in files
       THEN /\ Forgive(p)
            /\ known' = known \ {p}
            /\ work' = Do("saveConfig", {}) \o Do("scan", {p})
       ELSE /\ disabled' = disabled \cup {p}
            /\ work' = Do("saveConfig", {})
            /\ UNCHANGED <<recovery, recovered, known, blamed>>
    /\ UNCHANGED <<files, kept, config, safeMode, pending, loaded, reloading, started,
                   owned, crashed>>

SetDisabled(p) ==
    /\ Request /\ p \in known /\ (p \notin disabled \/ p \in loaded)
    /\ Start({p})
    /\ work' = Unload(p) \o Do("disable", {p}) \o Do("saveRecovery", {}) \o Do("finish", {p})
    /\ UNCHANGED <<files, kept, config, safeMode, disabled, recovered, known, loaded,
                   reloading, started, history>>

SetSafeModeOn ==
    /\ Request
    /\ safeMode' = TRUE
    /\ work' = Do("reload", {})
    /\ UNCHANGED <<files, kept, config, recovery, memory, history>>

SetSafeModeOff ==
    /\ Request
    /\ safeMode' = FALSE
    /\ work' = Do("forgive", {}) \o Do("reload", {})
    /\ UNCHANGED <<files, kept, config, recovery, memory, history>>

InstallPackage(p) ==
    /\ Request
    /\ work' = Do("inspect", {p})
    /\ UNCHANGED <<disk, memory, history>>

RemovePlugin(p) ==
    /\ Request /\ p \in known
    /\ Start({p})
    /\ work' = Unload(p) \o Do("delete", {p})
    /\ UNCHANGED <<files, kept, config, safeMode, disabled, recovered, known, loaded,
                   reloading, started, history>>

(* A callback, from an event or from within code of a plugin.  Handlers    *)
(* of a plugin are unregistered before its onUnload.                       *)
Callback(p) ==
    /\ started
    /\ Idle \/ InCode
    /\ Cardinality(Running) < MaxDepth
    /\ p \in loaded
    /\ \A i \in Running : work[i].do = "unload" => work[i].of # {p}
    /\ Start({p})
    /\ work' = Do("callback", {p}) \o Do("finish", {p})
               \o (IF Idle THEN <<>> ELSE <<[Top EXCEPT !.calledBack = TRUE]>> \o Tail(work))
    /\ UNCHANGED <<files, kept, config, safeMode, disabled, recovered, known, loaded,
                   reloading, started, history>>

(* The manager is destroyed with the application.                          *)
Quit ==
    /\ Request
    /\ work' = Do("unloadAll", {}) \o Do("exit", {})
    /\ UNCHANGED <<disk, memory, history>>

(* "Drop it into tdata/plugins", or delete it there.                       *)
FolderChanges(p) ==
    /\ Request
    /\ files' = IF p \in files THEN files \ {p} ELSE files \cup {p}
    /\ owned' = IF p \in files THEN owned \ {p} ELSE owned \cup {p}
    /\ UNCHANGED <<kept, config, recovery, safeMode, memory, work, blamed, crashed>>

(* The local server asks for a reload while code called from one runs.     *)
ReloadQueued ==
    /\ InCode /\ MaxDepth > 1
    /\ reloading = "busy"
    /\ reloading' = "queued"
    /\ UNCHANGED <<disk, disabled, recovered, pending, known, loaded, started, work, history>>
-----------------------------------------------------------------------------
StartWork == Do("read", {}) \o Do("recover", {}) \o Do("rescan", {}) \o Do("ready", {})

Init ==
    /\ files \in SUBSET Plugins
    /\ owned = files
    /\ kept = {} /\ config = {} /\ safeMode = FALSE
    /\ recovery = Saved({}, NoOperation)
    /\ disabled = {} /\ recovered = {} /\ pending = NoOperation
    /\ known = {} /\ loaded = {} /\ reloading = "no" /\ started = FALSE
    /\ work = StartWork
    /\ blamed = {} /\ crashed = FALSE

(* The program is started again; only the files are left of it.            *)
NewStart ==
    /\ disabled' = {} /\ recovered' = {} /\ pending' = NoOperation
    /\ known' = {} /\ loaded' = {} /\ reloading' = "no" /\ started' = FALSE
    /\ work' = StartWork
    /\ UNCHANGED <<disk, owned>>

Exit == At("exit") /\ NewStart /\ UNCHANGED <<blamed, crashed>>

(* Code that an operation was recorded for, and nothing recorded since.    *)
Guarded == Top.do # "inspect" /\ ~Top.calledBack

PluginCrash ==
    /\ InCode
    /\ blamed' = blamed \cup (IF Guarded THEN Top.of ELSE {})
    /\ crashed' = TRUE
    /\ NewStart

Kill == ~InCode /\ NewStart /\ crashed' = TRUE /\ UNCHANGED blamed

CodeEnds(p) ==
    \/ CallbackReturns(p) \/ CallbackThrows(p) \/ LoadFails(p) \/ LoadSucceeds(p)
    \/ OnLoadReturns(p) \/ OnLoadThrows(p) \/ Unloaded(p)
    \/ PackageRejected(p) \/ PackageAccepted(p)

ManagerStep ==
    \/ Finish \/ ScanEnds \/ RescanSafe \/ Rescan \/ UnloadAllEnds \/ Read \/ Recover
    \/ CreateSafeModeFile \/ Ready \/ SaveConfig \/ SaveRecovery \/ ForgiveEnds
    \/ Reload \/ ReloadScan \/ ReloadAgain \/ ReloadEnds \/ Exit
    \/ \E p \in Plugins :
        \/ ScanDisabled(p) \/ ScanEnabled(p) \/ UnloadNext(p) \/ Disable(p)
        \/ ForgiveNext(p) \/ Copy(p) \/ CopyFails(p) \/ Place(p) \/ PlaceFails(p)
        \/ Allow(p) \/ Installed(p) \/ CheckInstalled(p) \/ RollBack(p)
        \/ KeepInstalled(p) \/ Delete(p) \/ DeleteFails(p) \/ Forget(p)

Step == ManagerStep \/ \E p \in Plugins : CodeEnds(p)

Requests ==
    \/ SetSafeModeOn \/ SetSafeModeOff \/ ReloadQueued \/ Quit
    \/ \E p \in Plugins : \/ SetEnabled(p) \/ SetDisabled(p) \/ InstallPackage(p)
                          \/ RemovePlugin(p) \/ Callback(p) \/ FolderChanges(p)

Next == Step \/ Requests \/ PluginCrash \/ Kill

Spec == Init /\ [][Next]_vars

(* The main thread goes on, and code of a plugin ends: it does not call    *)
(* back for ever.                                                          *)
CodeEndsAt(depth) == Cardinality(Running) = depth /\ \E p \in Plugins : CodeEnds(p)

FairSpec ==
    /\ Spec
    /\ WF_vars(Step)
    /\ \A depth \in 1..MaxDepth : SF_vars(CodeEndsAt(depth))
-----------------------------------------------------------------------------
(* Everything has its type; what is loaded has a record, and a record on   *)
(* the stack names plugins.                                                *)
TypeOK ==
    /\ files \subseteq Plugins /\ kept \subseteq Plugins /\ config \subseteq Plugins
    /\ recovery \in [disabled : SUBSET Plugins, pending : Operations]
    /\ safeMode \in BOOLEAN
    /\ disabled \subseteq Plugins /\ recovered \subseteq Plugins
    /\ pending \in Operations
    /\ known \subseteq Plugins /\ loaded \subseteq known
    /\ reloading \in {"no", "busy", "queued"} /\ started \in BOOLEAN
    /\ work \in Seq([do : CodeKinds \cup StepKinds, of : SUBSET Plugins,
                    calledBack : BOOLEAN])
    /\ blamed \subseteq Plugins /\ owned \subseteq Plugins /\ crashed \in BOOLEAN

(* While code of a plugin runs, the file names it, so that it is known at  *)
(* the next start should it take the program down (startRecoveryOperation  *)
(* before every call, finishRecoveryOperation after it), for code that     *)
(* calls nothing back.  Looking into a package is recorded by nobody.      *)
CrashIsRecorded ==
    InCode /\ Guarded =>
        recovery.pending.active /\ Top.of \subseteq recovery.pending.ids

(* While code of a plugin runs, the file names nobody else, whatever was   *)
(* called from where: an innocent is not blamed for a crash.               *)
OnlyCrasherIsBlamed ==
    InCode /\ recovery.pending.active => recovery.pending.ids \subseteq Top.of

(* Recorded code of a plugin that took the program down does not run again *)
(* before the user asks for it: enables the plugin, installs it again, or turns   *)
(* safe mode off.  Whatever is killed in between, the recovery included.   *)
BlamedStaysOff ==
    \A i \in Running : work[i].do # "inspect" => work[i].of \cap blamed = {}

(* A plugin marked as disabled by recovery is not loaded: the two files    *)
(* that say so are written one after the other, and the program may die in *)
(* between, in every operation that writes them.                           *)
RecoveredStaysOff == loaded \cap recovered = {}

(* No innocent is disabled: the file names only plugins that the manager   *)
(* is busy with, or that it is about to disable for a crash.               *)
OnlyBusyIsRecorded ==
    /\ ~At("read") /\ ~At("recover") /\ started
    /\ recovery.pending.active
    => \A p \in recovery.pending.ids : \E i \in DOMAIN work : p \in work[i].of

(* The record blames who crashed the program, and nobody else: the three   *)
(* together.                                                               *)
CrasherIsBlamed == CrashIsRecorded /\ OnlyCrasherIsBlamed /\ OnlyBusyIsRecorded

(* What was disabled for a crash stays off: both.                          *)
DisabledStaysOff == BlamedStaysOff /\ RecoveredStaysOff

(* At rest the files say what the manager has in mind, and no operation is *)
(* left recorded: a kill at rest blames nobody, and a restart changes      *)
(* nothing.                                                                *)
SavedStatesAgree ==
    Request => /\ config = disabled
               /\ recovery = Saved(recovered, NoOperation)
               /\ pending = NoOperation

(* Until the program dies, an install that fails at any step leaves the    *)
(* package that was there, and nothing aside.                              *)
InstallKeepsPackage ==
    ~crashed => /\ owned \subseteq files \cup kept
                /\ Idle => kept = {}

(* The files of the plugins and of their state are in order: both.         *)
FilesAreInOrder == SavedStatesAgree /\ InstallKeepsPackage

(* The manager comes to rest whatever the plugins do, unless the program   *)
(* is killed or asked within a reload to reload again for ever: a plugin   *)
(* that takes it down at every start does so once ("disable the bad plugin *)
(* and let the user recover instead of looping forever").                  *)
ComesToRest ==
    []<><<Kill>>_vars \/ []<><<ReloadQueued>>_vars \/ []<>(Idle /\ started)
=============================================================================
