---------------------------- MODULE ScenarioStore ----------------------------
(***************************************************************************)
(* The .spdpi file of a scenario (scenario_io.py): how save_scenario       *)
(* replaces it and keeps a backup, and what load_scenario_with_recovery    *)
(* finds, whatever stops the program between two steps.                    *)
(*                                                                         *)
(* An archive is what it holds: a scenario, or Torn when validation would   *)
(* refuse it.  What save_scenario refuses before it touches the disk       *)
(* changes nothing and is left out.  Any read of an archive may meet an    *)
(* OSError, which load_scenario_bundle reports like damage.  The program   *)
(* saves one scenario at a time (WorkerLifecycle); another process may     *)
(* load the file meanwhile.                                                *)
(***************************************************************************)
EXTENDS Naturals

CONSTANTS
  Scenarios,  \* what an archive may hold
  Torn,       \* an archive that does not validate
  NoArchive   \* no file there

ASSUME StoreAssumption ==
  Torn \notin Scenarios /\ NoArchive \notin Scenarios /\ Torn # NoArchive

VARIABLES
  primary,   \* the file itself
  backup,    \* its .bak
  temp,      \* the temporary file of the save that runs
  unsynced,  \* files whose data a power loss may tear
  step,      \* where save_scenario is
  saving,    \* the scenario it saves
  reader,    \* where a load is: the primary has been refused or not
  loaded,    \* what the last load returned
  misread,   \* history: who could not read a primary that was whole
  seen,      \* history: what a load would have found, since the load began
  installed  \* history: the scenarios that have been the file

files == <<primary, backup, temp, unsynced>>
loading == <<reader, loaded, seen>>
vars == <<files, step, saving, loading, misread, installed>>

Archives == Scenarios \cup {Torn, NoArchive}

Steps == {"idle", "write", "sync", "check", "copy", "copying", "replace"}

Whole(a) == a \in Scenarios

\* What load_scenario_with_recovery returns if nothing else happens meanwhile
\* and both files can be read.
Recovered(p, b) == IF Whole(p) THEN p ELSE IF Whole(b) THEN b ELSE NoArchive

Held == Recovered(primary, backup)

Init ==
  /\ primary = NoArchive
  /\ backup = NoArchive
  /\ temp = NoArchive
  /\ unsynced = {}
  /\ step = "idle"
  /\ saving = NoArchive
  /\ reader = "idle"
  /\ loaded = NoArchive
  /\ seen = {}
  /\ misread = {}
  /\ installed = {}

Goes(from, to) == step = from /\ step' = to

ReadsWell(who) == misread' = misread \ {who}

\* The primary is refused, which says nothing of it if the read failed.
Refuses(who) == misread' = (misread \ {who}) \cup {w \in {who} : Whole(primary)}

-----------------------------------------------------------------------------
(* save_scenario.                                                          *)

BeginSave(s) ==
  /\ Goes("idle", "write")
  /\ saving' = s
  /\ temp' = Torn
  /\ unsynced' = unsynced \cup {"temp"}
  /\ UNCHANGED <<primary, backup>>

WriteTemp ==
  /\ Goes("write", "sync")
  /\ temp' = saving
  /\ UNCHANGED <<primary, backup, unsynced, saving>>

\* Mutant: the temporary file is not synced.
SyncTempNever ==
  /\ Goes("sync", "check")
  /\ UNCHANGED <<files, saving>>

SyncTemp ==
  /\ Goes("sync", "check")
  /\ unsynced' = unsynced \ {"temp"}
  /\ UNCHANGED <<primary, backup, temp, saving>>

\* Mutant: a primary that exists is backed up, valid or not.
CheckPrimaryExists ==
  /\ Goes("check", IF primary # NoArchive THEN "copy" ELSE "replace")
  /\ ReadsWell("save")
  /\ UNCHANGED <<files, saving>>

\* Mutant: a backup is made once.
CheckFirstBackup ==
  /\ Goes("check",
          IF Whole(primary) /\ backup = NoArchive THEN "copy" ELSE "replace")
  /\ ReadsWell("save")
  /\ UNCHANGED <<files, saving>>

\* The primary is backed up only if it exists and loads.  When it cannot be read,
\* the save goes on without a backup of it.
CheckPrimary ==
  /\ \/ Whole(primary) /\ Goes("check", "copy") /\ ReadsWell("save")
     \/ Goes("check", "replace") /\ Refuses("save")
  /\ UNCHANGED <<files, saving>>

\* shutil.copy2 truncates the backup first ...
StartCopy ==
  /\ Goes("copy", "copying")
  /\ backup' = Torn
  /\ unsynced' = unsynced \cup {"backup"}
  /\ UNCHANGED <<primary, temp, saving>>

\* Mutant: the new archive is copied.
FinishCopyOfTemp ==
  /\ Goes("copying", "replace")
  /\ backup' = temp
  /\ UNCHANGED <<primary, temp, unsynced, saving>>

\* ... and leaves it to the system when its data reaches the disk.
FinishCopy ==
  /\ Goes("copying", "replace")
  /\ backup' = primary
  /\ UNCHANGED <<primary, temp, unsynced, saving>>

\* os.replace: the name changes hands at once, and durably.
Replace ==
  /\ Goes("replace", "idle")
  /\ primary' = temp
  /\ temp' = NoArchive
  /\ unsynced' = (unsynced \ {"temp", "primary"})
                   \cup (IF "temp" \in unsynced THEN {"primary"} ELSE {})
  /\ saving' = NoArchive
  /\ UNCHANGED backup

\* An OSError at any step, but for one that CheckPrimary passes over: the
\* temporary file is removed and the save fails.
FailSave ==
  /\ step # "idle"
  /\ Goes(step, "idle")
  /\ temp' = NoArchive
  /\ unsynced' = unsynced \ {"temp"}
  /\ saving' = NoArchive
  /\ UNCHANGED <<primary, backup>>

-----------------------------------------------------------------------------
(* The environment.                                                        *)

\* The process is killed.  Its temporary file stays and nobody looks at it.
Crash ==
  /\ step # "idle"
  /\ Goes(step, "idle")
  /\ temp' = NoArchive
  /\ unsynced' = unsynced \ {"temp"}
  /\ saving' = NoArchive
  /\ UNCHANGED <<primary, backup>>

\* The power fails: data that was never synced may be torn.
PowerLoss ==
  /\ step' = "idle"
  /\ primary' \in {primary} \cup {a \in {Torn} : "primary" \in unsynced}
  /\ backup' \in {backup} \cup {a \in {Torn} : "backup" \in unsynced}
  /\ temp' = NoArchive
  /\ unsynced' = {}
  /\ saving' = NoArchive
  /\ reader' = "idle"
  /\ seen' = {}
  /\ misread' = {}
  /\ UNCHANGED <<loaded, installed>>

\* The system writes data back on its own.
Flush ==
  /\ \E f \in {"primary", "backup"} : f \in unsynced /\ unsynced' = unsynced \ {f}
  /\ UNCHANGED <<primary, backup, temp, step, saving>>

\* The primary is lost or damaged by something else.  One such misfortune at a
\* time: no save runs, and the backup, if there was ever one, is safe on disk.
Damage ==
  /\ step = "idle"
  /\ Whole(primary) /\ Whole(backup)
  /\ "backup" \notin unsynced
  /\ primary' \in {Torn, NoArchive}
  /\ unsynced' = unsynced \ {"primary"}
  /\ UNCHANGED <<backup, temp, step, saving>>

-----------------------------------------------------------------------------
(* load_scenario_with_recovery, in any process.                            *)

\* load_scenario_bundle reads the file it opened to its end, or refuses it.
ReadPrimary ==
  /\ reader = "idle"
  /\ \/ /\ Whole(primary)
        /\ loaded' = primary
        /\ UNCHANGED <<reader, seen, misread>>
     \/ /\ reader' = "refused"
        /\ seen' = {Held}
        /\ Refuses("load")
        /\ UNCHANGED loaded
  /\ UNCHANGED <<files, step, saving, installed>>

\* The backup, with recovered_from set, or the error of the primary.
ReadBackup ==
  /\ reader = "refused"
  /\ loaded' \in {NoArchive} \cup ({backup} \cap Scenarios)
  /\ reader' = "idle"
  /\ seen' = {}
  /\ ReadsWell("load")
  /\ UNCHANGED <<files, step, saving, installed>>

-----------------------------------------------------------------------------
SaveStep ==
  \/ \E s \in Scenarios : BeginSave(s)
  \/ WriteTemp
  \/ SyncTemp
  \/ StartCopy
  \/ FinishCopy
  \/ Replace
  \/ FailSave

\* The saver and the environment; a load that is under way lives through it.
Elsewhere ==
  /\ \/ CheckPrimary
     \/ (SaveStep \/ Crash \/ Flush \/ Damage) /\ UNCHANGED misread
  /\ seen' = IF reader = "idle" THEN seen ELSE seen \cup {Held'}
  /\ installed' = installed \cup ({primary'} \cap Scenarios)
  /\ UNCHANGED <<reader, loaded>>

Next ==
  \/ Elsewhere
  \/ PowerLoss
  \/ ReadPrimary
  \/ ReadBackup

Spec == Init /\ [][Next]_vars

-----------------------------------------------------------------------------
(* Correctness.                                                            *)

StoreTypeOK ==
  /\ {primary, backup, temp} \subseteq Archives
  /\ unsynced \subseteq {"primary", "backup", "temp"}
  /\ step \in Steps
  /\ saving \in Scenarios \cup {NoArchive}
  /\ reader \in {"idle", "refused"}
  /\ loaded \in Scenarios \cup {NoArchive}
  /\ misread \subseteq {"save", "load"}
  /\ installed \subseteq Scenarios
  /\ seen \subseteq Scenarios \cup {NoArchive}

\* Nothing but the last step of a save, or damage to the primary, changes what a
\* load finds: no crash, no power loss, no failed save and no backup does
\* ("Validate and atomically replace an independent scenario archive",
\* scenario_io.py:242).
OnlySavesChangeHeld ==
  [][Held' # Held => Replace \/ Damage]_vars

\* Once a scenario was saved, one can be loaded, in every state, and so after a
\* crash or a power loss at any point of any later save.
NeverLosesScenario ==
  [][Whole(Held) => Whole(Held')]_vars

\* A save that replaces a scenario keeps it: the backup is the one before, unless
\* the save could not read it (scenario_io.py:402 takes that for damage).
SaveKeepsPrevious ==
  [][/\ primary' # primary
     /\ step = "replace"
     /\ Whole(primary)
     /\ "save" \notin misread
     => backup' = primary]_vars

\* What a load takes from the backup was there at some moment of the load,
\* however many saves finished between its look at the file and its look at the
\* backup.  Only when the file was whole and could not be read it may be older,
\* and then it is a scenario that a completed save had put there.
LoadIsLinearizable ==
  [][ReadBackup /\ Whole(loaded')
       => loaded' \in (IF "load" \in misread THEN installed ELSE seen)]_vars
=============================================================================
