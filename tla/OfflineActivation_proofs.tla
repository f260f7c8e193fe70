------------------------ MODULE OfflineActivation_proofs ------------------------
(***************************************************************************)
(* Proofs about OfflineActivation, for any set of calls and backup paths.  *)
(* The invariant says how far the call that holds the lock has written:    *)
(* exactly the files before the next one, and only with its key saved.     *)
(***************************************************************************)
EXTENDS OfflineActivation, TLAPS

Files == 1 .. 8

\* The index of the first file that call r has not written yet.
NextFile(r) ==
  IF pc[r] \in {"recording", "closing", "unlocking"} THEN at[r] + 1 ELSE at[r]

\* A call starts at the first file and ends after the last.
Counts ==
  \A r \in Runs :
    /\ pc[r] \in {"idle", "looked", "checked", "locked", "cleared", "backed"} => at[r] = 1
    /\ pc[r] \in {"closing", "unlocking"} => at[r] = 8

\* The root holds what the call at work has written, and nothing else.
InOrder ==
  \A r \in Runs :
    pc[r] \in Holding \ {"locked"} =>
      \A i \in Files :
        disk[PlannedFiles[i]] = IF i < NextFile(r) THEN r ELSE "none"

\* The key of the call at work is saved.
KeyFirst ==
  \A r \in Runs :
    pc[r] \in Holding \ {"locked", "cleared"} => backup[target[r]] = r

IInv ==
  TypeOK /\ HeldWhileWriting /\ Counts /\ InOrder /\ KeyFirst
    /\ ActivatedMeansComplete /\ KeyIsSaved

-----------------------------------------------------------------------------

\* The files of PlannedFiles are the roles, each once, node_identity last.
LEMMA FilesAreRoles ==
  /\ Len(PlannedFiles) = 8
  /\ \A i \in Files : PlannedFiles[i] \in Roles
  /\ \A i, j \in Files : PlannedFiles[i] = PlannedFiles[j] => i = j
  /\ \A f \in Roles : \E i \in Files : PlannedFiles[i] = f
  /\ PlannedFiles[8] = "node_identity"
<1>1. Len(PlannedFiles) = 8  BY DEF PlannedFiles
<1>2. \A i \in Files : i = 1 \/ i = 2 \/ i = 3 \/ i = 4 \/ i = 5 \/ i = 6 \/ i = 7 \/ i = 8
  BY DEF Files
<1>3. /\ PlannedFiles[1] = "device_private_key" /\ PlannedFiles[2] = "device_documents"
      /\ PlannedFiles[3] = "zone_boot_override" /\ PlannedFiles[4] = "zone_document_jwt"
      /\ PlannedFiles[5] = "dns_records" /\ PlannedFiles[6] = "start_config"
      /\ PlannedFiles[7] = "gateway_params" /\ PlannedFiles[8] = "node_identity"
  BY DEF PlannedFiles
<1>4. \A i \in Files : PlannedFiles[i] \in Roles  BY <1>2, <1>3 DEF Roles
<1>5. \A i, j \in Files : PlannedFiles[i] = PlannedFiles[j] => i = j  BY <1>2, <1>3
<1>6. 1 \in Files /\ 2 \in Files /\ 3 \in Files /\ 4 \in Files
      /\ 5 \in Files /\ 6 \in Files /\ 7 \in Files /\ 8 \in Files
  BY DEF Files
<1>7. \A f \in Roles : \E i \in Files : PlannedFiles[i] = f  BY <1>3, <1>6 DEF Roles
<1> QED  BY <1>1, <1>3, <1>4, <1>5, <1>7

\* A call that holds the lock is the only one.
LEMMA OneHolder ==
  ASSUME HeldWhileWriting, NEW r \in Runs, NEW s \in Runs,
         pc[r] \in Holding, pc[s] \in Holding
  PROVE  r = s
BY DEF HeldWhileWriting

\* No step breaks the type invariant.
LEMMA TypeStep == TypeOK /\ [Next]_vars => TypeOK'
<1> USE FilesAreRoles
<1> SUFFICES ASSUME TypeOK, [Next]_vars PROVE TypeOK'
  OBVIOUS
<1> USE DEF TypeOK
<1>1. ASSUME NEW r \in Runs, Run(r) PROVE TypeOK'
  <2> USE <1>1 DEF Goes, Holding, Writing, Ended
  <2>1. CASE Starts(r) \/ Prechecks(r)  BY <2>1 DEF Starts, Prechecks
  <2>2. CASE Locks(r) \/ LockWriteFails(r)
    BY <2>2 DEF Locks, LockWriteFails, LeftToOwner, Stages
  <2>3. CASE Rechecks(r) \/ RecheckFails(r)
    BY <2>3 DEF Rechecks, RecheckFails, Releases, NoLock, BackupNext, Stages
  <2>4. CASE SavesBackup(r)  BY <2>4 DEF SavesBackup
  <2>5. CASE BackupFails(r)  BY <2>5 DEF BackupFails, Releases, NoLock, Stages
  <2>6. CASE RecordsBackup(r) \/ RecordsEnd(r) \/ Unlocks(r) \/ UnlockFails(r)
    BY <2>6 DEF RecordsBackup, RecordsEnd, Unlocks, UnlockFails, NoLock, Stages
  <2>7. CASE CommitsFile(r)
    <3>1. at[r] \in Files  BY DEF Files
    <3>2. PlannedFiles[at[r]] \in Roles  BY <3>1
    <3> QED  BY <2>7, <3>2 DEF CommitsFile
  <2>8. CASE RecordsFile(r)
    <3>1. lock' \in [owner : Runs \cup {"none"}, stage : Stages]
      BY <2>8 DEF RecordsFile, Stages
    <3>2. at' \in [Runs -> 1 .. Len(PlannedFiles)]  BY <2>8 DEF RecordsFile, IsLast
    <3> QED  BY <2>8, <3>1, <3>2 DEF RecordsFile
  <2>9. CASE CommitFails(r)  BY <2>9 DEF CommitFails
  <2>10. CASE Dies(r)  BY <2>10 DEF Dies
  <2> QED  BY <1>1, <2>1, <2>2, <2>3, <2>4, <2>5, <2>6, <2>7, <2>8, <2>9, <2>10 DEF Run
<1>2. CASE CleansFiles  BY <1>2 DEF CleansFiles
<1>3. CASE RemovesLock  BY <1>3 DEF RemovesLock, NoLock, Stages
<1>4. ASSUME NEW p \in Backups, DeletesBackup(p) PROVE TypeOK'  BY <1>4 DEF DeletesBackup
<1>5. CASE UNCHANGED vars  BY <1>5 DEF vars
<1> QED  BY <1>1, <1>2, <1>3, <1>4, <1>5 DEF Next

\* The installed root is well typed.
LEMMA TypeInit == Init => TypeOK
<1> SUFFICES ASSUME Init PROVE TypeOK
  OBVIOUS
<1>1. disk \in [Roles -> Runs \cup {"none", "placeholder"}]  BY DEF Init
<1>2. at \in [Runs -> 1 .. Len(PlannedFiles)]  BY FilesAreRoles DEF Init
<1>3. lock \in [owner : Runs \cup {"none"}, stage : Stages]  BY DEF Init, NoLock, Stages
<1>4. backup \in [Backups -> Runs \cup {"none", "torn"}]  BY DEF Init
<1> QED  BY <1>1, <1>2, <1>3, <1>4 DEF Init, TypeOK

\* Every variable keeps its type, however calls fail, die and are cleaned up.
THEOREM TypeCorrect == Spec => []TypeOK
BY TypeInit, TypeStep, PTL DEF Spec

-----------------------------------------------------------------------------

\* A step of one call leaves the others where they are.
LEMMA OthersStay ==
  ASSUME TypeOK, NEW r \in Runs, Run(r), NEW s \in Runs, s # r
  PROVE  pc'[s] = pc[s] /\ at'[s] = at[s] /\ target' = target
<1> USE DEF TypeOK, Goes
<1>1. CASE Starts(r) \/ Prechecks(r) \/ Locks(r) \/ LockWriteFails(r)
  BY <1>1 DEF Starts, Prechecks, Locks, LockWriteFails
<1>2. CASE Rechecks(r) \/ RecheckFails(r) \/ SavesBackup(r) \/ BackupFails(r)
  BY <1>2 DEF Rechecks, RecheckFails, SavesBackup, BackupFails
<1>3. CASE RecordsBackup(r) \/ CommitsFile(r) \/ RecordsFile(r) \/ CommitFails(r)
  BY <1>3 DEF RecordsBackup, CommitsFile, RecordsFile, CommitFails
<1>4. CASE RecordsEnd(r) \/ Unlocks(r) \/ UnlockFails(r) \/ Dies(r)
  BY <1>4 DEF RecordsEnd, Unlocks, UnlockFails, Dies
<1> QED  BY <1>1, <1>2, <1>3, <1>4 DEF Run

\* A call without the lock writes neither files nor keys, and leaves a lock
\* that is there as it is.
LEMMA OnlyHolderWrites ==
  ASSUME TypeOK, NEW r \in Runs, Run(r), pc[r] \notin Holding
  PROVE  disk' = disk /\ backup' = backup /\ (lock.stage # "none" => lock' = lock)
<1> USE DEF Holding, Writing
<1>1. CASE Starts(r) \/ Prechecks(r) \/ Locks(r) \/ LockWriteFails(r)
  BY <1>1 DEF Starts, Prechecks, Locks, LockWriteFails, LeftToOwner
<1>2. CASE Rechecks(r) \/ RecheckFails(r) \/ SavesBackup(r) \/ BackupFails(r)
  BY <1>2 DEF Rechecks, RecheckFails, SavesBackup, BackupFails
<1>3. CASE RecordsBackup(r) \/ CommitsFile(r) \/ RecordsFile(r) \/ CommitFails(r)
  BY <1>3 DEF RecordsBackup, CommitsFile, RecordsFile, CommitFails
<1>4. CASE RecordsEnd(r) \/ Unlocks(r) \/ UnlockFails(r)
  BY <1>4 DEF RecordsEnd, Unlocks, UnlockFails
<1>5. CASE Dies(r)  BY <1>5 DEF Dies
<1> QED  BY <1>1, <1>2, <1>3, <1>4, <1>5 DEF Run

\* The recovery by hand moves no call.
LEMMA HandsOff ==
  ASSUME CleansFiles \/ RemovesLock \/ (\E p \in Backups : DeletesBackup(p)) \/ UNCHANGED vars
  PROVE  /\ pc' = pc /\ at' = at /\ target' = target
         /\ \A r \in Runs : pc[r] \in Holding =>
              disk' = disk /\ lock' = lock /\ backup' = backup
BY DEF CleansFiles, RemovesLock, DeletesBackup, NobodyHolds, vars

\* The lock stays with the call that holds it.
LEMMA HeldStep == TypeOK /\ HeldWhileWriting /\ [Next]_vars => HeldWhileWriting'
<1> SUFFICES ASSUME TypeOK, HeldWhileWriting, [Next]_vars, NEW s \in Runs, pc'[s] \in Holding
             PROVE  lock'.owner = s /\ lock'.stage # "none"
  BY DEF HeldWhileWriting
<1>1. ASSUME NEW r \in Runs, Run(r), r # s PROVE lock'.owner = s /\ lock'.stage # "none"
  <2>1. pc[s] \in Holding  BY <1>1, OthersStay
  <2>2. pc[r] \notin Holding  BY <1>1, <2>1, OneHolder
  <2>3. lock' = lock  BY <1>1, <2>1, <2>2, OnlyHolderWrites DEF HeldWhileWriting
  <2> QED  BY <2>1, <2>3 DEF HeldWhileWriting
<1>2. ASSUME Run(s) PROVE lock'.owner = s /\ lock'.stage # "none"
  <2> USE DEF TypeOK, Goes, Holding, Writing, HeldWhileWriting
  <2>1. CASE Starts(s) \/ Prechecks(s)  BY <2>1 DEF Starts, Prechecks
  <2>2. CASE Locks(s) \/ LockWriteFails(s)  BY <2>2 DEF Locks, LockWriteFails
  <2>3. CASE Rechecks(s) \/ RecheckFails(s)  BY <2>3 DEF Rechecks, RecheckFails, BackupNext
  <2>4. CASE SavesBackup(s) \/ BackupFails(s)  BY <2>4 DEF SavesBackup, BackupFails
  <2>5. CASE RecordsBackup(s)  BY <2>5 DEF RecordsBackup
  <2>6. CASE CommitsFile(s)  BY <2>6 DEF CommitsFile
  <2>7. CASE RecordsFile(s)  BY <2>7 DEF RecordsFile
  <2>8. CASE RecordsEnd(s)  BY <2>8 DEF RecordsEnd
  <2>9. CASE CommitFails(s) \/ Unlocks(s) \/ UnlockFails(s) \/ Dies(s)
    BY <2>9 DEF CommitFails, Unlocks, UnlockFails, Dies
  <2> QED  BY <1>2, <2>1, <2>2, <2>3, <2>4, <2>5, <2>6, <2>7, <2>8, <2>9 DEF Run
<1>3. CASE CleansFiles \/ RemovesLock \/ (\E p \in Backups : DeletesBackup(p)) \/ UNCHANGED vars
  BY <1>3, HandsOff DEF HeldWhileWriting
<1> QED  BY <1>1, <1>2, <1>3 DEF Next

\* The count of files follows the steps of the call.
LEMMA CountsStep == TypeOK /\ Counts /\ [Next]_vars => Counts'
<1> SUFFICES ASSUME TypeOK, Counts, [Next]_vars, NEW s \in Runs
             PROVE  /\ pc'[s] \in {"idle", "looked", "checked", "locked", "cleared", "backed"}
                         => at'[s] = 1
                    /\ pc'[s] \in {"closing", "unlocking"} => at'[s] = 8
  BY DEF Counts
<1> USE DEF Counts
<1>1. ASSUME NEW r \in Runs, Run(r), r # s PROVE pc'[s] = pc[s] /\ at'[s] = at[s]
  BY <1>1, OthersStay
<1>2. CASE Run(s)
  <2> USE DEF TypeOK, Goes
  <2>1. CASE Starts(s) \/ Prechecks(s) \/ Locks(s) \/ LockWriteFails(s)
    BY <2>1 DEF Starts, Prechecks, Locks, LockWriteFails
  <2>2. CASE Rechecks(s) \/ RecheckFails(s) \/ SavesBackup(s) \/ BackupFails(s)
    BY <2>2 DEF Rechecks, RecheckFails, SavesBackup, BackupFails, BackupNext
  <2>3. CASE RecordsBackup(s) \/ CommitsFile(s) \/ CommitFails(s)
    BY <2>3 DEF RecordsBackup, CommitsFile, CommitFails
  <2>4. CASE RecordsFile(s)  BY <2>4, FilesAreRoles DEF RecordsFile, IsLast
  <2>5. CASE RecordsEnd(s) \/ Unlocks(s) \/ UnlockFails(s) \/ Dies(s)
    BY <2>5 DEF RecordsEnd, Unlocks, UnlockFails, Dies
  <2> QED  BY <1>2, <2>1, <2>2, <2>3, <2>4, <2>5 DEF Run
<1>3. CASE CleansFiles \/ RemovesLock \/ (\E p \in Backups : DeletesBackup(p)) \/ UNCHANGED vars
  BY <1>3, HandsOff
<1> QED  BY <1>1, <1>2, <1>3 DEF Next

\* A call that goes on after the recheck adds exactly the next file.
LEMMA InOrderStep ==
  TypeOK /\ HeldWhileWriting /\ Counts /\ InOrder /\ [Next]_vars => InOrder'
<1> SUFFICES ASSUME TypeOK, HeldWhileWriting, Counts, InOrder, [Next]_vars,
                    NEW s \in Runs, pc'[s] \in Holding \ {"locked"}, NEW i \in Files
             PROVE  disk'[PlannedFiles[i]] = IF i < NextFile(s)' THEN s ELSE "none"
  BY DEF InOrder
<1> USE DEF InOrder, NextFile
<1>1. ASSUME NEW r \in Runs, Run(r), r # s
      PROVE  disk'[PlannedFiles[i]] = IF i < NextFile(s)' THEN s ELSE "none"
  <2>1. pc'[s] = pc[s] /\ at'[s] = at[s]  BY <1>1, OthersStay
  <2>2. pc[r] \notin Holding  BY <1>1, <2>1, OneHolder
  <2>3. disk' = disk  BY <1>1, <2>2, OnlyHolderWrites
  <2> QED  BY <2>1, <2>3
<1>2. ASSUME Run(s)
      PROVE  disk'[PlannedFiles[i]] = IF i < NextFile(s)' THEN s ELSE "none"
  <2> USE DEF TypeOK, Goes, Holding, Writing
  <2>0. i \in 1 .. 8 /\ PlannedFiles[i] \in Roles  BY FilesAreRoles DEF Files
  <2>1. CASE Starts(s) \/ Prechecks(s) \/ Locks(s) \/ LockWriteFails(s)
    BY <2>1 DEF Starts, Prechecks, Locks, LockWriteFails
  <2>2. CASE Rechecks(s)
    <3>1. Existing = {} /\ disk' = disk /\ at' = at /\ pc[s] = "locked" /\ pc'[s] = "cleared"
      BY <2>2 DEF Rechecks, BackupNext
    <3>2. disk[PlannedFiles[i]] = "none"  BY <3>1, <2>0 DEF Existing
    <3>3. NextFile(s)' = 1  BY <3>1 DEF Counts
    <3> QED  BY <3>1, <3>2, <3>3, <2>0
  <2>3. CASE RecheckFails(s) \/ BackupFails(s) \/ CommitFails(s)
    BY <2>3 DEF RecheckFails, BackupFails, CommitFails
  <2>4. CASE SavesBackup(s) \/ RecordsBackup(s)
    <3>1. /\ disk' = disk /\ at' = at /\ pc[s] \in {"cleared", "backed"}
          /\ pc'[s] \in {"backed", "writing"}
      BY <2>4 DEF SavesBackup, RecordsBackup
    <3>2. disk[PlannedFiles[i]] = IF i < at[s] THEN s ELSE "none" BY <3>1
    <3> QED BY <3>1, <3>2
  <2>5. CASE CommitsFile(s)
    <3>1. pc[s] = "writing" /\ pc'[s] = "recording" /\ at' = at
          /\ disk' = [disk EXCEPT ![PlannedFiles[at[s]]] = s]
      BY <2>5 DEF CommitsFile
    <3>2. at[s] \in Files  BY FilesAreRoles DEF Files
    <3>3. NextFile(s) = at[s] /\ NextFile(s)' = at[s] + 1  BY <3>1
    <3>4. CASE i = at[s]
      <4>1. disk'[PlannedFiles[i]] = s  BY <3>1, <3>4, <2>0
      <4> QED  BY <4>1, <3>3, <3>4, <2>0
    <3>5. CASE i # at[s]
      <4>1. PlannedFiles[i] # PlannedFiles[at[s]]  BY <3>2, <3>5, FilesAreRoles
      <4>2. disk'[PlannedFiles[i]] = disk[PlannedFiles[i]]  BY <3>1, <4>1, <2>0
      <4>3. disk[PlannedFiles[i]] = IF i < at[s] THEN s ELSE "none"  BY <3>1, <3>3
      <4>4. i < at[s] + 1 <=> i < at[s]  BY <3>2, <3>5, <2>0 DEF Files
      <4> QED  BY <4>2, <4>3, <4>4, <3>3
    <3> QED  BY <3>4, <3>5
  <2>6. CASE RecordsFile(s)
    <3>1. disk' = disk /\ pc[s] = "recording"  BY <2>6 DEF RecordsFile
    <3>2. at[s] \in 1 .. 8  BY FilesAreRoles
    <3>3. NextFile(s)' = at[s] + 1  BY <2>6, <3>2 DEF RecordsFile
    <3> QED  BY <3>1, <3>3
  <2>7. CASE RecordsEnd(s)  BY <2>7 DEF RecordsEnd
  <2>8. CASE Unlocks(s) \/ UnlockFails(s) \/ Dies(s)
    BY <2>8 DEF Unlocks, UnlockFails, Dies
  <2> QED  BY <1>2, <2>1, <2>2, <2>3, <2>4, <2>5, <2>6, <2>7, <2>8 DEF Run
<1>3. CASE CleansFiles \/ RemovesLock \/ (\E p \in Backups : DeletesBackup(p)) \/ UNCHANGED vars
  BY <1>3, HandsOff
<1> QED  BY <1>1, <1>2, <1>3 DEF Next

\* The key that was saved stays saved while the call goes on.
LEMMA KeyFirstStep ==
  TypeOK /\ HeldWhileWriting /\ KeyFirst /\ [Next]_vars => KeyFirst'
<1> SUFFICES ASSUME TypeOK, HeldWhileWriting, KeyFirst, [Next]_vars,
                    NEW s \in Runs, pc'[s] \in Holding \ {"locked", "cleared"}
             PROVE  backup'[target'[s]] = s
  BY DEF KeyFirst
<1> USE DEF KeyFirst
<1>1. ASSUME NEW r \in Runs, Run(r), r # s PROVE backup'[target'[s]] = s
  <2>1. pc'[s] = pc[s] /\ target' = target  BY <1>1, OthersStay
  <2>2. pc[r] \notin Holding  BY <1>1, <2>1, OneHolder
  <2>3. backup' = backup  BY <1>1, <2>2, OnlyHolderWrites
  <2> QED  BY <2>1, <2>3
<1>2. ASSUME Run(s) PROVE backup'[target'[s]] = s
  <2> USE DEF TypeOK, Goes, Holding, Writing
  <2>1. CASE Starts(s) \/ Prechecks(s) \/ Locks(s) \/ LockWriteFails(s)
    BY <2>1 DEF Starts, Prechecks, Locks, LockWriteFails
  <2>2. CASE Rechecks(s) \/ RecheckFails(s) \/ BackupFails(s) \/ CommitFails(s)
    BY <2>2 DEF Rechecks, RecheckFails, BackupFails, CommitFails, BackupNext
  <2>3. CASE SavesBackup(s)  BY <2>3 DEF SavesBackup
  <2>4. CASE RecordsBackup(s) \/ CommitsFile(s) \/ RecordsFile(s)
    BY <2>4 DEF RecordsBackup, CommitsFile, RecordsFile
  <2>5. CASE RecordsEnd(s) \/ Unlocks(s) \/ UnlockFails(s) \/ Dies(s)
    BY <2>5 DEF RecordsEnd, Unlocks, UnlockFails, Dies
  <2> QED  BY <1>2, <2>1, <2>2, <2>3, <2>4, <2>5 DEF Run
<1>3. CASE CleansFiles \/ RemovesLock \/ (\E p \in Backups : DeletesBackup(p)) \/ UNCHANGED vars
  BY <1>3, HandsOff
<1> QED  BY <1>1, <1>2, <1>3 DEF Next

-----------------------------------------------------------------------------

\* A key is only created or damaged by a call that has found the root bare.
LEMMA KeysChange ==
  ASSUME TypeOK, NEW r \in Runs, Run(r), backup' # backup
  PROVE  pc[r] = "cleared" /\ disk' = disk
BY DEF Run, Starts, Prechecks, Locks, LockWriteFails, Rechecks, RecheckFails, SavesBackup,
       BackupFails, RecordsBackup, CommitsFile, RecordsFile, CommitFails, RecordsEnd, Unlocks,
       UnlockFails, Dies

\* Only CommitsFile writes a file of the root.
LEMMA FilesChange ==
  ASSUME TypeOK, NEW r \in Runs, Run(r), disk' # disk
  PROVE  CommitsFile(r)
BY DEF Run, Starts, Prechecks, Locks, LockWriteFails, Rechecks, RecheckFails, SavesBackup,
       BackupFails, RecordsBackup, CommitsFile, RecordsFile, CommitFails, RecordsEnd, Unlocks,
       UnlockFails, Dies

\* A call that is about to save its key has a bare root before it.
LEMMA ClearedIsBare ==
  ASSUME Counts, InOrder, NEW r \in Runs, pc[r] = "cleared"
  PROVE  \A f \in Roles : disk[f] = "none"
<1>1. \A i \in Files : disk[PlannedFiles[i]] = IF i < 1 THEN r ELSE "none"
  BY DEF Counts, InOrder, Holding, NextFile
<1>2. \A i \in Files : disk[PlannedFiles[i]] = "none"  BY <1>1 DEF Files
<1> QED  BY <1>2, FilesAreRoles

\* node_identity is written when every other file is.
LEMMA CompleteStep ==
  TypeOK /\ InOrder /\ ActivatedMeansComplete /\ [Next]_vars => ActivatedMeansComplete'
<1> SUFFICES ASSUME TypeOK, InOrder, ActivatedMeansComplete, [Next]_vars
             PROVE  ActivatedMeansComplete'
  OBVIOUS
<1> USE DEF ActivatedMeansComplete, Present, Consistent
<1>1. CASE disk' = disk  BY <1>1
<1>2. ASSUME NEW r \in Runs, CommitsFile(r) PROVE ActivatedMeansComplete'
  <2>1. /\ at[r] \in Files /\ PlannedFiles[at[r]] \in Roles
        /\ disk' = [disk EXCEPT ![PlannedFiles[at[r]]] = r]
    BY <1>2, FilesAreRoles DEF CommitsFile, TypeOK, Files
  <2>2. \A i \in Files : disk[PlannedFiles[i]] = IF i < at[r] THEN r ELSE "none"
    BY <1>2 DEF CommitsFile, InOrder, NextFile, Holding, Writing
  <2>3. CASE at[r] = 8
    <3>1. \A i \in Files : disk'[PlannedFiles[i]] = r
      BY <2>1, <2>2, <2>3, FilesAreRoles DEF TypeOK, Files
    <3>2. \A f \in Roles : disk'[f] = r  BY <3>1, FilesAreRoles
    <3> QED  BY <3>2 DEF Required, Roles
  <2>4. CASE at[r] # 8
    <3>1. 8 \in Files /\ ~(8 < at[r])  BY <2>1 DEF Files
    <3>2. PlannedFiles[8] # PlannedFiles[at[r]]  BY <3>1, <2>1, <2>4, FilesAreRoles
    <3>3. disk'["node_identity"] = "none"
      BY <3>1, <3>2, <2>1, <2>2, FilesAreRoles DEF TypeOK
    <3> QED  BY <3>3, NamesAssumption
  <2> QED  BY <2>3, <2>4
<1>3. CASE CleansFiles
  <2>1. disk'["node_identity"] = "none"  BY <1>3 DEF CleansFiles, Roles
  <2> QED  BY <2>1, NamesAssumption
<1> QED
  BY <1>1, <1>2, <1>3, FilesChange DEF Next, RemovesLock, DeletesBackup, vars

\* A file appears only after its key, and a key goes only after its files.
LEMMA KeyIsSavedStep ==
  TypeOK /\ Counts /\ InOrder /\ KeyFirst /\ KeyIsSaved /\ [Next]_vars => KeyIsSaved'
<1> SUFFICES ASSUME TypeOK, Counts, InOrder, KeyFirst, KeyIsSaved, [Next]_vars,
                    NEW f \in Roles, disk'[f] \in Runs
             PROVE  \E p \in Backups : backup'[p] = disk'[f]
  BY DEF KeyIsSaved, Present
<1> USE DEF KeyIsSaved, Present
<1>1. ASSUME NEW r \in Runs, Run(r) PROVE \E p \in Backups : backup'[p] = disk'[f]
  <2>1. CASE backup' # backup
    <3>1. pc[r] = "cleared" /\ disk' = disk  BY <1>1, <2>1, KeysChange
    <3>2. disk[f] = "none"  BY <3>1, ClearedIsBare
    <3> QED  BY <3>1, <3>2, NamesAssumption
  <2>2. CASE backup' = backup /\ disk' = disk  BY <2>2
  <2>3. CASE backup' = backup /\ disk' # disk
    <3>1. CommitsFile(r)  BY <1>1, <2>3, FilesChange
    <3>2. pc[r] = "writing" /\ disk' = [disk EXCEPT ![PlannedFiles[at[r]]] = r]
      BY <3>1 DEF CommitsFile
    <3>3. disk'[f] = r \/ disk'[f] = disk[f]  BY <3>2 DEF TypeOK
    <3>4. target[r] \in Backups /\ backup[target[r]] = r
      BY <3>2 DEF KeyFirst, Holding, Writing, TypeOK
    <3> QED  BY <2>3, <3>3, <3>4
  <2> QED  BY <2>1, <2>2, <2>3
<1>2. CASE CleansFiles  BY <1>2, NamesAssumption DEF CleansFiles
<1>3. CASE RemovesLock \/ UNCHANGED vars  BY <1>3 DEF RemovesLock, vars
<1>4. ASSUME NEW p \in Backups, DeletesBackup(p)
      PROVE  \E q \in Backups : backup'[q] = disk'[f]
  <2>1. disk' = disk /\ disk[f] # backup[p] /\ backup' = [backup EXCEPT ![p] = "none"]
    BY <1>4 DEF DeletesBackup
  <2>2. PICK q \in Backups : backup[q] = disk[f]  BY <2>1
  <2>3. q # p  BY <2>1, <2>2
  <2>4. backup'[q] = backup[q]  BY <2>1, <2>3 DEF TypeOK
  <2> QED  BY <2>1, <2>2, <2>4
<1> QED  BY <1>1, <1>2, <1>3, <1>4 DEF Next

\* The inductive invariant.
THEOREM InductiveInvariant == Spec => []IInv
<1>1. Init => IInv
  <2> SUFFICES ASSUME Init PROVE IInv
    OBVIOUS
  <2>1. TypeOK  BY TypeInit
  <2>2. \A r \in Runs : pc[r] = "idle" /\ at[r] = 1  BY DEF Init
  <2>3. HeldWhileWriting /\ Counts /\ InOrder /\ KeyFirst
    BY <2>2 DEF HeldWhileWriting, Counts, InOrder, KeyFirst, Holding, Writing
  <2>4. \A f \in Roles : disk[f] \in {"none", "placeholder"}  BY DEF Init
  <2>5. \A f \in Roles : disk[f] \notin Runs  BY <2>4, NamesAssumption
  <2>6. ActivatedMeansComplete /\ KeyIsSaved
    BY <2>5 DEF ActivatedMeansComplete, KeyIsSaved, Present, Roles
  <2> QED  BY <2>1, <2>3, <2>6 DEF IInv
<1>2. IInv /\ [Next]_vars => IInv'
  BY TypeStep, HeldStep, CountsStep, InOrderStep, KeyFirstStep, CompleteStep, KeyIsSavedStep
  DEF IInv
<1> QED  BY <1>1, <1>2, PTL DEF Spec

\* Two calls never write one root.
THEOREM HoldersExclude == Spec => []HeldWhileWriting
<1>1. IInv => HeldWhileWriting  BY DEF IInv
<1> QED  BY <1>1, InductiveInvariant, PTL

\* The gate of the node daemon is never there without the files behind it.
THEOREM GateIsLast == Spec => []ActivatedMeansComplete
<1>1. IInv => ActivatedMeansComplete  BY DEF IInv
<1> QED  BY <1>1, InductiveInvariant, PTL

\* No identity is on a root without its owner's key.
THEOREM KeyIsNeverLost == Spec => []KeyIsSaved
<1>1. IInv => KeyIsSaved  BY DEF IInv
<1> QED  BY <1>1, InductiveInvariant, PTL

\* No key is created for a root that holds an activation file.
THEOREM KeyMeetsBareRoot == Spec => KeyOnlyForBareRoot
<1> DEFINE Bare ==
      \A p \in Backups : backup[p] = "none" /\ backup'[p] # "none"
                           => \A f \in Roles : disk[f] = "none"
<1>1. IInv /\ [Next]_vars => [Bare]_vars
  <2> SUFFICES ASSUME IInv, [Next]_vars,
                      NEW p \in Backups, backup[p] = "none", backup'[p] # "none"
               PROVE  \A f \in Roles : disk[f] = "none"
    OBVIOUS
  <2>1. TypeOK /\ Counts /\ InOrder  BY DEF IInv
  <2>2. ASSUME NEW r \in Runs, Run(r) PROVE pc[r] = "cleared"  BY <2>1, <2>2, KeysChange
  <2>3. backup' = backup \/ (\E q \in Backups : DeletesBackup(q)) \/ (\E r \in Runs : Run(r))
    BY DEF Next, CleansFiles, RemovesLock, vars
  <2>4. ASSUME NEW q \in Backups, DeletesBackup(q) PROVE FALSE
    BY <2>1, <2>4 DEF DeletesBackup, TypeOK
  <2> QED  BY <2>1, <2>2, <2>3, <2>4, ClearedIsBare
<1> QED  BY <1>1, InductiveInvariant, PTL DEF Spec, KeyOnlyForBareRoot

-----------------------------------------------------------------------------
(* What status says rests on two more facts: the identity's directories    *)
(* are there with its files, and the stage in the lock follows the call.   *)

DirsWithFiles == \A f \in Identity : Present(f) => dirs

NotRecorded == Holding \ {"unlocking"}
StageFollows == \A r \in Runs : pc[r] \in NotRecorded => lock.stage # "committed"

\* A file of the identity is only committed with its directory.
LEMMA DirsStep == IInv /\ DirsWithFiles /\ [Next]_vars => DirsWithFiles'
<1> SUFFICES ASSUME IInv, DirsWithFiles, [Next]_vars, NEW f \in Identity, Present(f)' PROVE dirs'
  BY DEF DirsWithFiles
<1> USE DEF DirsWithFiles, Present
<1>1. f \in Roles  BY DEF Identity, Roles
<1>2. ASSUME NEW r \in Runs, Run(r) PROVE dirs'
  <2> USE <1>2
  <2>1. CASE CommitsFile(r)
    <3>1. TypeOK  BY DEF IInv
    <3>2. CASE f = PlannedFiles[at[r]]  BY <2>1, <3>2 DEF CommitsFile
    <3>3. CASE f # PlannedFiles[at[r]]
      <4>1. disk'[f] = disk[f]  BY <1>1, <2>1, <3>1, <3>3 DEF CommitsFile, TypeOK
      <4> QED  BY <2>1, <4>1 DEF CommitsFile
    <3> QED  BY <3>2, <3>3
  <2>2. CASE CommitFails(r)  BY <2>2 DEF CommitFails
  <2>3. CASE ~CommitsFile(r) /\ ~CommitFails(r)
    <3>1. disk' = disk /\ dirs' = dirs
      BY <2>3 DEF Run, Starts, Prechecks, Locks, LockWriteFails, Rechecks, RecheckFails, SavesBackup,
                  BackupFails, RecordsBackup, RecordsFile, RecordsEnd, Unlocks, UnlockFails, Dies
    <3> QED  BY <3>1
  <2> QED  BY <2>1, <2>2, <2>3
<1>3. CASE CleansFiles
  BY <1>1, <1>3, NamesAssumption DEF CleansFiles
<1>4. CASE RemovesLock \/ (\E p \in Backups : DeletesBackup(p)) \/ UNCHANGED vars
  BY <1>4 DEF RemovesLock, DeletesBackup, vars
<1> QED  BY <1>2, <1>3, <1>4 DEF Next

\* A lock says "committed" only when its call has nothing left to write.
LEMMA StageStep == IInv /\ StageFollows /\ [Next]_vars => StageFollows'
<1> SUFFICES ASSUME IInv, StageFollows, [Next]_vars, NEW s \in Runs, pc'[s] \in NotRecorded
             PROVE  lock'.stage # "committed"
  BY DEF StageFollows
<1>0. TypeOK /\ HeldWhileWriting  BY DEF IInv
<1>1. ASSUME NEW r \in Runs, Run(r), r # s PROVE lock'.stage # "committed"
  <2>1. pc[s] \in NotRecorded  BY <1>0, <1>1, OthersStay
  <2>2. pc[s] \in Holding  BY <2>1 DEF NotRecorded
  <2>3. pc[r] \notin Holding  BY <1>0, <1>1, <2>2, OneHolder
  <2>4. lock' = lock  BY <1>0, <1>1, <2>2, <2>3, OnlyHolderWrites DEF HeldWhileWriting
  <2> QED  BY <2>1, <2>4 DEF StageFollows
<1>2. ASSUME Run(s) PROVE lock'.stage # "committed"
  <2> USE <1>0 DEF TypeOK, Goes, NotRecorded, Holding, Writing, StageFollows
  <2>1. CASE Starts(s) \/ Prechecks(s)  BY <2>1 DEF Starts, Prechecks
  <2>2. CASE Locks(s) \/ LockWriteFails(s)  BY <2>2 DEF Locks, LockWriteFails
  <2>3. CASE Rechecks(s) \/ RecheckFails(s)  BY <2>3 DEF Rechecks, RecheckFails, BackupNext
  <2>4. CASE SavesBackup(s) \/ BackupFails(s)  BY <2>4 DEF SavesBackup, BackupFails
  <2>5. CASE RecordsBackup(s)  BY <2>5 DEF RecordsBackup
  <2>6. CASE CommitsFile(s)  BY <2>6 DEF CommitsFile
  <2>7. CASE RecordsFile(s)  BY <2>7 DEF RecordsFile
  <2>8. CASE RecordsEnd(s) \/ CommitFails(s)  BY <2>8 DEF RecordsEnd, CommitFails
  <2>9. CASE Unlocks(s) \/ UnlockFails(s) \/ Dies(s)  BY <2>9 DEF Unlocks, UnlockFails, Dies, Ended
  <2> QED  BY <1>2, <2>1, <2>2, <2>3, <2>4, <2>5, <2>6, <2>7, <2>8, <2>9 DEF Run
<1>3. CASE CleansFiles \/ RemovesLock \/ (\E p \in Backups : DeletesBackup(p)) \/ UNCHANGED vars
  BY <1>3, HandsOff DEF StageFollows, NotRecorded
<1> QED  BY <1>1, <1>2, <1>3 DEF Next

\* The state that is reported follows from what the invariants say.
LEMMA HonestState ==
  ASSUME IInv, DirsWithFiles, StageFollows
  PROVE  StatusIsHonest
<1> USE DEF IInv
<1>1. ASSUME State(lock.stage) = "unactivated"
      PROVE  NobodyHolds /\ \A f \in Required : ~Present(f)
  <2>1. Markers = {} /\ ~StrayDirs /\ lock.stage = "none"  BY <1>1 DEF State
  <2>2. NobodyHolds  BY <2>1 DEF NobodyHolds, HeldWhileWriting
  <2>3. ~LayoutKnown
    <3>1. LayoutKnown => "node_identity" \in Seen /\ "zone_boot_override" \in Seen
      BY DEF Seen, Roles
    <3> QED  BY <2>1, <3>1 DEF Markers, LayoutKnown
  <2>4. \A f \in Identity : ~Present(f)  BY <2>1, <2>3 DEF StrayDirs, DirsWithFiles
  <2>5. \A f \in Required \ Identity : ~Present(f)
    BY <2>1, <2>3 DEF Markers, LayoutKnown, Seen, Required
  <2> QED  BY <2>2, <2>4, <2>5
<1>2. ASSUME State(lock.stage) = "configured"
      PROVE  Consistent /\ \A r \in Runs : pc[r] \in Holding => pc[r] = "unlocking"
  <2>1. Consistent /\ ~Interrupted(lock.stage)  BY <1>2 DEF State
  <2>2. lock.stage \in {"none", "committed"}  BY <2>1 DEF Interrupted
  <2> QED  BY <2>1, <2>2 DEF HeldWhileWriting, StageFollows, NotRecorded
<1> QED  BY <1>1, <1>2 DEF StatusIsHonest

\* "unactivated" and "configured" are true whenever status or check says them.
THEOREM StatusIsTrue == Spec => []StatusIsHonest
<1> DEFINE Inv == IInv /\ DirsWithFiles /\ StageFollows
<1>1. Init => DirsWithFiles /\ StageFollows
  <2> SUFFICES ASSUME Init PROVE DirsWithFiles /\ StageFollows
    OBVIOUS
  <2>1. \A f \in Roles : disk[f] \in {"none", "placeholder"}  BY DEF Init
  <2>2. DirsWithFiles  BY <2>1, NamesAssumption DEF DirsWithFiles, Present, Identity, Roles
  <2>3. StageFollows  BY DEF Init, StageFollows, NotRecorded, Holding, Writing
  <2> QED  BY <2>2, <2>3
<1>2. IInv /\ DirsWithFiles /\ StageFollows /\ [Next]_vars => (DirsWithFiles /\ StageFollows)'
  BY DirsStep, StageStep
<1>3. IInv /\ DirsWithFiles /\ StageFollows => StatusIsHonest
  BY HonestState
<1> QED  BY <1>1, <1>2, <1>3, InductiveInvariant, PTL DEF Spec
==============================================================================
