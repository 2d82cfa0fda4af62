------------------------- MODULE ScenarioStoreProofs -------------------------
(***************************************************************************)
(* Proofs about ScenarioStore, for every set of scenarios.                 *)
(***************************************************************************)
EXTENDS ScenarioStore, TLAPS

\* The temporary file is complete and safe on disk before anything else is
\* touched.
TempInv ==
  /\ step # "idle" => saving \in Scenarios
  /\ step \in {"sync", "check", "copy", "copying", "replace"} => temp = saving
  /\ step \in {"check", "copy", "copying", "replace"} => "temp" \notin unsynced

\* Whenever the backup is written, or not safe on disk, the primary is whole;
\* the primary itself is always safe.
BackupInv ==
  /\ "primary" \notin unsynced
  /\ step \in {"copy", "copying"} => Whole(primary)
  /\ "backup" \in unsynced => Whole(primary)
  /\ step = "replace" /\ Whole(primary) /\ "save" \notin misread => backup = primary

\* A load that was refused the primary for a reason has lived through whatever it
\* may find.
ReaderInv ==
  reader = "refused" =>
    /\ Whole(primary) => primary \in seen
    /\ Whole(backup) /\ "load" \notin misread => backup \in seen

\* Both files hold only what a completed save has put there.
InstalledInv == \A a \in {primary, backup} : Whole(a) => a \in installed

StoreInv == StoreTypeOK /\ TempInv /\ BackupInv /\ ReaderInv /\ InstalledInv

\* The files and the save of a step keep their types.
SaveTypeOK ==
  /\ {primary, backup, temp} \subseteq Archives
  /\ unsynced \subseteq {"primary", "backup", "temp"}
  /\ step \in Steps
  /\ saving \in Scenarios \cup {NoArchive}

LEMMA HeldType == Held \in Scenarios \cup {NoArchive}
  BY DEF Held, Recovered, Whole

\* Every step of the saver or the environment keeps the first two invariants and
\* hands a whole backup over only from the primary.
LEMMA SaveKeepsInv ==
  ASSUME SaveTypeOK, TempInv, BackupInv, Elsewhere
  PROVE  /\ SaveTypeOK' /\ TempInv' /\ BackupInv'
         /\ Whole(backup') => backup' \in {backup, primary}
  <1> USE StoreAssumption DEF SaveTypeOK, TempInv, BackupInv, Whole, Archives, Steps,
                              Goes, files
  <1>0. \/ CheckPrimary
        \/ (SaveStep \/ Crash \/ Flush \/ Damage) /\ UNCHANGED misread
    BY DEF Elsewhere
  <1>1. ASSUME NEW s \in Scenarios, BeginSave(s), UNCHANGED misread
        PROVE  /\ SaveTypeOK' /\ TempInv' /\ BackupInv'
               /\ Whole(backup') => backup' \in {backup, primary}
    BY <1>1 DEF BeginSave
  <1>2. CASE WriteTemp /\ UNCHANGED misread
    BY <1>2 DEF WriteTemp
  <1>3. CASE SyncTemp /\ UNCHANGED misread
    BY <1>3 DEF SyncTemp
  <1>4. CASE CheckPrimary
    BY <1>4 DEF CheckPrimary, ReadsWell, Refuses
  <1>5. CASE StartCopy /\ UNCHANGED misread
    BY <1>5 DEF StartCopy
  <1>6. CASE FinishCopy /\ UNCHANGED misread
    BY <1>6 DEF FinishCopy
  <1>7. CASE Replace /\ UNCHANGED misread
    BY <1>7 DEF Replace
  <1>8. CASE FailSave /\ UNCHANGED misread
    BY <1>8 DEF FailSave
  <1>9. CASE Crash /\ UNCHANGED misread
    BY <1>9 DEF Crash
  <1>10. CASE Flush /\ UNCHANGED misread
    BY <1>10 DEF Flush
  <1>11. CASE Damage /\ UNCHANGED misread
    BY <1>11 DEF Damage
  <1> QED
    BY <1>0, <1>1, <1>2, <1>3, <1>4, <1>5, <1>6, <1>7, <1>8, <1>9, <1>10, <1>11
       DEF SaveStep

\* The primary becomes a scenario only in the last step of a save, which is new.
LEMMA InstalledStep ==
  ASSUME StoreTypeOK, InstalledInv, [Next]_vars,
         Whole(backup') => backup' \in {backup, primary}
  PROVE  InstalledInv' /\ installed' \subseteq Scenarios
  <1>1. CASE UNCHANGED vars
    BY <1>1 DEF vars, files, InstalledInv, StoreTypeOK, Whole
  <1>2. CASE Elsewhere
    BY <1>2 DEF Elsewhere, InstalledInv, StoreTypeOK, Whole
  <1>3. CASE PowerLoss
    BY <1>3, StoreAssumption DEF PowerLoss, InstalledInv, StoreTypeOK, Whole
  <1>4. CASE ReadPrimary \/ ReadBackup
    BY <1>4 DEF ReadPrimary, ReadBackup, files, InstalledInv, StoreTypeOK, Whole
  <1> QED BY <1>1, <1>2, <1>3, <1>4 DEF Next

\* What a load has lived through, when something else happens.
LEMMA ReaderStep ==
  ASSUME ReaderInv, Elsewhere, Whole(backup') => backup' \in {backup, primary}
  PROVE  ReaderInv'
  <1> SUFFICES ASSUME reader' = "refused"
               PROVE  /\ Whole(primary') => primary' \in seen'
                      /\ Whole(backup') /\ "load" \notin misread' => backup' \in seen'
    BY DEF ReaderInv, Whole
  <1>1. reader = "refused" /\ seen' = seen \cup {Held'}
    BY DEF Elsewhere
  <1>4. "load" \in misread' <=> "load" \in misread
    BY DEF Elsewhere, CheckPrimary, ReadsWell, Refuses
  <1>2. Whole(primary') => primary' \in seen'
    BY <1>1 DEF Held, Recovered, Whole
  <1>3. Whole(backup') /\ "load" \notin misread => backup' \in seen'
    BY <1>1 DEF ReaderInv, Whole
  <1> QED BY <1>2, <1>3, <1>4

THEOREM StoreInvariant == Spec => []StoreInv
  <1>1. Init => StoreInv
    BY StoreAssumption
       DEF Init, StoreInv, StoreTypeOK, TempInv, BackupInv, ReaderInv, InstalledInv,
           Archives, Steps, Whole
  <1>2. ASSUME StoreInv, [Next]_vars
        PROVE  StoreInv'
    <2> USE StoreAssumption
    <2>1. SaveTypeOK
      BY <1>2 DEF StoreInv, StoreTypeOK, SaveTypeOK
    <2>2. CASE Elsewhere
      <3>1. SaveTypeOK' /\ TempInv' /\ BackupInv'
        BY <1>2, <2>1, <2>2, SaveKeepsInv DEF StoreInv
      <3>2. Whole(backup') => backup' \in {backup, primary}
        BY <1>2, <2>1, <2>2, SaveKeepsInv DEF StoreInv
      <3>3. InstalledInv' /\ installed' \subseteq Scenarios
        BY <1>2, <3>2, InstalledStep DEF StoreInv
      <3>4. StoreTypeOK'
        <4>1. Held' \in Scenarios \cup {NoArchive}
          BY DEF Held, Recovered, Whole
        <4> QED BY <1>2, <2>2, <3>1, <3>3, <4>1 DEF StoreInv, StoreTypeOK, SaveTypeOK, Elsewhere, CheckPrimary,
                                            ReadsWell, Refuses
      <3>5. ReaderInv'
        BY <1>2, <2>2, <3>2, ReaderStep DEF StoreInv
      <3> QED BY <3>1, <3>3, <3>4, <3>5 DEF StoreInv
    <2>3. CASE PowerLoss
      <3>1. TempInv' /\ BackupInv' /\ ReaderInv' /\ (Whole(backup') => backup' = backup)
        BY <1>2, <2>3 DEF PowerLoss, StoreInv, TempInv, BackupInv, ReaderInv, Whole
      <3>2. InstalledInv' /\ installed' \subseteq Scenarios
        BY <1>2, <3>1, InstalledStep DEF StoreInv
      <3>3. StoreTypeOK'
        BY <1>2, <2>3, <3>2 DEF PowerLoss, StoreInv, StoreTypeOK, Archives, Steps
      <3> QED BY <3>1, <3>2, <3>3 DEF StoreInv
    <2>4. CASE ReadPrimary \/ ReadBackup
      <3>1. /\ UNCHANGED <<primary, backup, temp, unsynced, step, saving>>
            /\ "save" \in misread' <=> "save" \in misread
        BY <2>4 DEF ReadPrimary, ReadBackup, ReadsWell, Refuses, files
      <3>2. TempInv' /\ BackupInv'
        BY <1>2, <3>1 DEF StoreInv, TempInv, BackupInv, Whole
      <3>3. InstalledInv' /\ installed' \subseteq Scenarios
        BY <1>2, <3>1, InstalledStep DEF StoreInv
      <3>4. StoreTypeOK'
        BY <1>2, <2>4, <3>1, <3>3, HeldType
           DEF ReadPrimary, ReadBackup, ReadsWell, Refuses, StoreInv, StoreTypeOK, Whole
      <3>5. ReaderInv'
        BY <1>2, <2>4, <3>1
           DEF ReadPrimary, ReadBackup, Refuses, StoreInv, ReaderInv, Held, Recovered, Whole
      <3> QED BY <3>2, <3>3, <3>4, <3>5 DEF StoreInv
    <2>5. CASE UNCHANGED vars
      BY <1>2, <2>5 DEF vars, files, loading, StoreInv, StoreTypeOK, TempInv, BackupInv,
                        ReaderInv, InstalledInv, Whole
    <2> QED BY <1>2, <2>2, <2>3, <2>4, <2>5 DEF Next
  <1> QED BY <1>1, <1>2, PTL DEF Spec

\* The files, the save and the load keep their types.
THEOREM StoreTypeCorrect == Spec => []StoreTypeOK
  <1>1. StoreInv => StoreTypeOK
    BY DEF StoreInv
  <1> QED BY <1>1, StoreInvariant, PTL

\* A step that changes what a load would find is the last step of a save, or
\* damage to the primary.
LEMMA HeldStep ==
  ASSUME StoreInv, [Next]_vars, Held' # Held
  PROVE  Replace \/ Damage
  <1> USE StoreAssumption DEF Held, Recovered, Whole
  <1>1. ASSUME NEW s \in Scenarios, BeginSave(s)
        PROVE  FALSE
    BY <1>1 DEF BeginSave
  <1>2. ASSUME WriteTemp \/ SyncTemp \/ CheckPrimary \/ FailSave \/ Crash \/ Flush
        PROVE  FALSE
    BY <1>2 DEF WriteTemp, SyncTemp, CheckPrimary, FailSave, Crash, Flush, files
  <1>3. ASSUME StartCopy \/ FinishCopy
        PROVE  FALSE
    BY <1>3 DEF StartCopy, FinishCopy, Goes, StoreInv, BackupInv
  <1>4. ASSUME PowerLoss
        PROVE  FALSE
    BY <1>4 DEF PowerLoss, StoreInv, BackupInv
  <1>5. ASSUME ReadPrimary \/ ReadBackup \/ UNCHANGED vars
        PROVE  FALSE
    BY <1>5 DEF ReadPrimary, ReadBackup, vars, files
  <1> QED BY <1>1, <1>2, <1>3, <1>4, <1>5 DEF Next, Elsewhere, SaveStep

\* No crash, power loss, failed save or backup changes what a load finds.
THEOREM SavesAreAtomic == Spec => OnlySavesChangeHeld
  <1>1. StoreInv /\ [Next]_vars => [Held' # Held => Replace \/ Damage]_vars
    BY HeldStep
  <1> QED BY <1>1, StoreInvariant, PTL DEF Spec, OnlySavesChangeHeld

\* Once there is a scenario to load there always is one.
THEOREM ScenarioSurvives == Spec => NeverLosesScenario
  <1>1. ASSUME StoreInv, [Next]_vars, Whole(Held), Held' # Held
        PROVE  Whole(Held')
    <2>1. CASE Replace
      BY <1>1, <2>1 DEF Replace, Goes, StoreInv, TempInv, Held, Recovered, Whole
    <2>2. CASE Damage
      BY <1>1, <2>2, StoreAssumption DEF Damage, Held, Recovered, Whole
    <2> QED BY <1>1, <2>1, <2>2, HeldStep
  <1>2. StoreInv /\ [Next]_vars => [Whole(Held) => Whole(Held')]_vars
    <2>1. Held' = Held => (Whole(Held) => Whole(Held'))
      OBVIOUS
    <2> QED BY <1>1, <2>1
  <1> QED BY <1>2, StoreInvariant, PTL DEF Spec, NeverLosesScenario

\* The backup after a save is the scenario the save replaced, if it could read it.
THEOREM PreviousIsKept == Spec => SaveKeepsPrevious
  <1>1. ASSUME StoreInv, [Next]_vars,
               primary' # primary, step = "replace", Whole(primary),
               "save" \notin misread
        PROVE  backup' = primary
    <2> USE DEF Goes, files
    <2>1. CASE Replace
      BY <1>1, <2>1 DEF Replace, StoreInv, BackupInv
    <2>2. ASSUME NEW s \in Scenarios, BeginSave(s)
          PROVE  FALSE
      BY <1>1, <2>2 DEF BeginSave
    <2>3. ASSUME WriteTemp \/ SyncTemp \/ CheckPrimary \/ StartCopy \/ FinishCopy
                 \/ FailSave \/ Crash \/ Flush \/ Damage
          PROVE  FALSE
      BY <1>1, <2>3 DEF WriteTemp, SyncTemp, CheckPrimary, StartCopy, FinishCopy,
                        FailSave, Crash, Flush, Damage
    <2>4. ASSUME PowerLoss \/ ReadPrimary \/ ReadBackup \/ UNCHANGED vars
          PROVE  FALSE
      BY <1>1, <2>4 DEF PowerLoss, ReadPrimary, ReadBackup, vars, StoreInv, BackupInv
    <2> QED BY <1>1, <2>1, <2>2, <2>3, <2>4 DEF Next, Elsewhere, SaveStep
  <1>2. StoreInv /\ [Next]_vars =>
          [/\ primary' # primary
           /\ step = "replace"
           /\ Whole(primary)
           /\ "save" \notin misread
           => backup' = primary]_vars
    BY <1>1
  <1> QED BY <1>2, StoreInvariant, PTL DEF Spec, SaveKeepsPrevious

\* A load that falls back on the backup returns what was there while it ran, or,
\* if the file was whole and could not be read, what was there once.
THEOREM LoadsAreLinearizable == Spec => LoadIsLinearizable
  <1>1. StoreInv /\ [Next]_vars =>
          [ReadBackup /\ Whole(loaded')
             => loaded' \in (IF "load" \in misread THEN installed ELSE seen)]_vars
    BY StoreAssumption DEF StoreInv, ReaderInv, InstalledInv, ReadBackup, Whole
  <1> QED BY <1>1, StoreInvariant, PTL DEF Spec, LoadIsLinearizable
=============================================================================
