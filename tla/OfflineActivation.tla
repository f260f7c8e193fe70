--------------------------- MODULE OfflineActivation ---------------------------
(***************************************************************************)
(* The first activation of an installed BuckyOS root on its own machine    *)
(* (src/src/provision_activate.ts).  Each call of activateOfflineZone is a *)
(* process that checks the root, takes a lock file, saves the owner's      *)
(* private key, writes the identity and configuration files one after      *)
(* another, and removes the lock.  The node daemon takes a root that holds *)
(* node_identity.json for activated.  A call may be killed at any point;   *)
(* somebody then cleans the root by hand, with the daemon stopped.  Every  *)
(* call activates the same domain.                                         *)
(***************************************************************************)
EXTENDS Integers, Sequences

CONSTANTS
  Runs,     \* the calls of activateOfflineZone; each call is made once
  Backups   \* the paths given for the backup of the owner's key

ASSUME NamesAssumption ==
  Runs \cap {"none", "placeholder"} = {} /\ Runs \cap {"none", "torn"} = {}

\* Seeded: the gate of the node daemon is written before the last file.
GateTooEarly ==
  <<"device_private_key", "device_documents", "zone_boot_override", "zone_document_jwt",
    "dns_records", "start_config", "node_identity", "gateway_params">>

\* The files in the order they are written; the three public documents of the
\* device, written one after another into one directory, are one entry.
PlannedFiles ==
  <<"device_private_key", "device_documents", "zone_boot_override", "zone_document_jwt",
    "dns_records", "start_config", "gateway_params", "node_identity">>

Roles == {"device_private_key", "device_documents", "zone_boot_override", "zone_document_jwt",
          "dns_records", "start_config", "gateway_params", "node_identity"}
Identity == {"device_private_key", "device_documents"}
Required == Roles \ {"dns_records"}

VARIABLES
  pc,       \* pc[r]: how far call r has come
  target,   \* target[r]: the backup path given to call r
  at,       \* at[r]: the index in PlannedFiles of the file call r writes
  disk,     \* disk[f]: the call that wrote the file, "placeholder" or "none"
  dirs,     \* the device's identity directories exist
  lock,     \* the lock file: [owner, stage]; stage "none" when there is none
  backup    \* backup[p]: the call whose owner key is saved at p, "torn" or "none"

vars == <<pc, target, at, disk, dirs, lock, backup>>

Stages == {"none", "torn", "locked", "backup_saved", "committing", "committed"}
Writing == {"writing", "recording"}
Holding == {"locked", "cleared", "backed", "closing", "unlocking"} \cup Writing
Ended == {"done", "refused", "stopped"}

NoLock == [owner |-> "none", stage |-> "none"]

\* The installer may have left a gateway file with the unactivated device.
Init ==
  /\ pc = [r \in Runs |-> "idle"]
  /\ target \in [Runs -> Backups]
  /\ at = [r \in Runs |-> 1]
  /\ \E gateway \in {"none", "placeholder"} :
       disk = [f \in Roles |-> IF f = "gateway_params" THEN gateway ELSE "none"]
  /\ dirs = FALSE
  /\ lock = NoLock
  /\ backup = [p \in Backups |-> "none"]

-----------------------------------------------------------------------------
(* inspectActivationRoot: what status and check say of the root.           *)

Present(f) == disk[f] \in Runs

\* The names of the identity directories follow from either of these files.
LayoutKnown == Present("node_identity") \/ Present("zone_boot_override")

Seen == IF LayoutKnown THEN Roles ELSE Roles \ (Identity \cup {"zone_boot_override"})

Markers == {f \in Seen : f # "dns_records" /\ Present(f)}
Missing == {f \in Seen \cap Required : ~Present(f)}
StrayDirs == dirs /\ ~LayoutKnown

\* validateActivationMaterials: keys, documents and names belong together.
Consistent == \A f \in Required : disk[f] = disk["node_identity"]

\* Seeded: the stage of the lock is not looked at.
NeverInterrupted(stage) == FALSE

Interrupted(stage) == stage \notin {"none", "committed"}

State(stage) ==
  IF Markers = {} /\ ~StrayDirs /\ stage = "none" THEN "unactivated"
  ELSE IF Missing # {} \/ ~LayoutKnown THEN "partial"
  ELSE IF Interrupted(stage) \/ ~Consistent THEN "invalid"
  ELSE "configured"

-----------------------------------------------------------------------------
(* One call of activateOfflineZone.                                        *)

Goes(r, to) == pc' = [pc EXCEPT ![r] = to]

\* releaseLock; an error of the removal is swallowed.
Releases == lock' \in {NoLock, lock}

\* checkOfflineActivation reads the lock first, the files later.
Starts(r) ==
  /\ pc[r] = "idle"
  /\ Goes(r, IF lock.stage = "none" THEN "looked" ELSE "refused")
  /\ UNCHANGED <<target, at, disk, dirs, lock, backup>>

Prechecks(r) ==
  /\ pc[r] = "looked"
  /\ Goes(r, IF State("none") = "unactivated" /\ backup[target[r]] = "none"
               THEN "checked" ELSE "refused")
  /\ UNCHANGED <<target, at, disk, dirs, lock, backup>>

\* Seeded: a call that does not get the lock removes it on its way out.
RemovedByLoser == NoLock

\* What becomes of a lock that somebody else holds.
LeftToOwner == lock

\* acquireLock creates the file exclusively.
Locks(r) ==
  /\ pc[r] = "checked"
  /\ IF lock.stage = "none"
       THEN /\ lock' = [owner |-> r, stage |-> "locked"]
            /\ Goes(r, "locked")
       ELSE /\ lock' = LeftToOwner
            /\ Goes(r, "refused")
  /\ UNCHANGED <<target, at, disk, dirs, backup>>

\* The file is created but its content is not written, or not all of it.
LockWriteFails(r) ==
  /\ pc[r] = "checked" /\ lock.stage = "none"
  /\ lock' = [owner |-> r, stage |-> "torn"]
  /\ Goes(r, "stopped")
  /\ UNCHANGED <<target, at, disk, dirs, backup>>

\* Seeded: under the lock only the check is repeated.
NoneLooked == {}

\* The planned files that exist.
Existing == {f \in Roles : disk[f] # "none"}

\* Seeded: the files are written before the key is saved.
FilesNext == "backed"

\* What follows the recheck: the backup.
BackupNext == "cleared"

\* The check is repeated under the lock, where the call's own lock hides what
\* state the root is in; each planned file is therefore looked for as well.
Rechecks(r) ==
  /\ pc[r] = "locked"
  /\ IF backup[target[r]] # "none" \/ Existing # {}
       THEN Releases /\ Goes(r, "refused")
       ELSE UNCHANGED lock /\ Goes(r, BackupNext)
  /\ UNCHANGED <<target, at, disk, dirs, backup>>

RecheckFails(r) ==
  /\ pc[r] = "locked"
  /\ Releases
  /\ Goes(r, "stopped")
  /\ UNCHANGED <<target, at, disk, dirs, backup>>

SavesBackup(r) ==
  /\ pc[r] = "cleared"
  /\ backup' = [backup EXCEPT ![target[r]] = r]
  /\ Goes(r, "backed")
  /\ UNCHANGED <<target, at, disk, dirs, lock>>

\* The key is not written, or not all of it, or its mode cannot be set.
BackupFails(r) ==
  /\ pc[r] = "cleared"
  /\ \E content \in {"none", "torn", r} : backup' = [backup EXCEPT ![target[r]] = content]
  /\ Releases
  /\ Goes(r, "stopped")
  /\ UNCHANGED <<target, at, disk, dirs>>

\* updateLock replaces the file through a temporary one.
RecordsBackup(r) ==
  /\ pc[r] = "backed"
  /\ lock' = [lock EXCEPT !.stage = "backup_saved"]
  /\ Goes(r, "writing")
  /\ UNCHANGED <<target, at, disk, dirs, backup>>

\* commitFile makes the directory, refuses to overwrite, and renames.
CommitsFile(r) ==
  /\ pc[r] = "writing"
  /\ LET f == PlannedFiles[at[r]] IN
       /\ disk[f] = "none"
       /\ disk' = [disk EXCEPT ![f] = r]
       /\ dirs' = (dirs \/ f \in Identity)
  /\ Goes(r, "recording")
  /\ UNCHANGED <<target, at, lock, backup>>

IsLast(i) == i = Len(PlannedFiles)

\* The file is added to the lock, and the next one is written.
RecordsFile(r) ==
  /\ pc[r] = "recording"
  /\ lock' = [lock EXCEPT !.stage = "committing"]
  /\ IF IsLast(at[r])
       THEN Goes(r, "closing") /\ UNCHANGED at
       ELSE Goes(r, "writing") /\ at' = [at EXCEPT ![r] = @ + 1]
  /\ UNCHANGED <<target, disk, dirs, backup>>

\* A failed write ends the call and leaves the lock and what was written; the
\* directory of the file may have been made.
CommitFails(r) ==
  /\ pc[r] \in {"backed", "recording", "writing"}
  /\ dirs' \in {dirs, dirs \/ (pc[r] = "writing" /\ PlannedFiles[at[r]] \in Identity)}
  /\ Goes(r, "stopped")
  /\ UNCHANGED <<target, at, disk, lock, backup>>

RecordsEnd(r) ==
  /\ pc[r] = "closing"
  /\ lock' = [lock EXCEPT !.stage = "committed"]
  /\ Goes(r, "unlocking")
  /\ UNCHANGED <<target, at, disk, dirs, backup>>

Unlocks(r) ==
  /\ pc[r] = "unlocking"
  /\ lock' = NoLock
  /\ Goes(r, "done")
  /\ UNCHANGED <<target, at, disk, dirs, backup>>

\* The activation is complete; the lock that stays is only a warning.
UnlockFails(r) ==
  /\ pc[r] \in {"closing", "unlocking"}
  /\ Goes(r, "done")
  /\ UNCHANGED <<target, at, disk, dirs, lock, backup>>

\* The process is killed; a key that was being saved may be torn.
Dies(r) ==
  /\ pc[r] \notin Ended \cup {"idle"}
  /\ backup' \in {backup} \cup
       (IF pc[r] = "cleared" THEN {[backup EXCEPT ![target[r]] = "torn"]} ELSE {})
  /\ Goes(r, "stopped")
  /\ UNCHANGED <<target, at, disk, dirs, lock>>

Run(r) ==
  \/ Starts(r) \/ Prechecks(r) \/ Locks(r) \/ LockWriteFails(r)
  \/ Rechecks(r) \/ RecheckFails(r) \/ SavesBackup(r) \/ BackupFails(r)
  \/ RecordsBackup(r) \/ CommitsFile(r) \/ RecordsFile(r) \/ CommitFails(r)
  \/ RecordsEnd(r) \/ Unlocks(r) \/ UnlockFails(r) \/ Dies(r)

-----------------------------------------------------------------------------
(* Recovery by hand, while no call that got the lock is alive.             *)

NobodyHolds == \A r \in Runs : pc[r] \notin Holding

\* The files are removed, the identity directories perhaps with them.
CleansFiles ==
  /\ NobodyHolds
  /\ Existing # {} \/ dirs
  /\ disk' = [f \in Roles |-> "none"]
  /\ dirs' \in {dirs, FALSE}
  /\ UNCHANGED <<pc, target, at, lock, backup>>

RemovesLock ==
  /\ NobodyHolds /\ lock.stage # "none"
  /\ lock' = NoLock
  /\ UNCHANGED <<pc, target, at, disk, dirs, backup>>

\* A saved key is given up only when nothing on the root needs it.
DeletesBackup(p) ==
  /\ NobodyHolds /\ backup[p] # "none"
  /\ \A f \in Roles : disk[f] # backup[p]
  /\ backup' = [backup EXCEPT ![p] = "none"]
  /\ UNCHANGED <<pc, target, at, disk, dirs, lock>>

Next ==
  \/ \E r \in Runs : Run(r)
  \/ CleansFiles \/ RemovesLock
  \/ \E p \in Backups : DeletesBackup(p)

Spec == Init /\ [][Next]_vars

-----------------------------------------------------------------------------
(* Properties.                                                             *)

\* The type of every variable.
TypeOK ==
  /\ pc \in [Runs -> {"idle", "looked", "checked"} \cup Holding \cup Ended]
  /\ target \in [Runs -> Backups]
  /\ at \in [Runs -> 1 .. Len(PlannedFiles)]
  /\ disk \in [Roles -> Runs \cup {"none", "placeholder"}]
  /\ dirs \in BOOLEAN
  /\ lock \in [owner : Runs \cup {"none"}, stage : Stages]
  /\ backup \in [Backups -> Runs \cup {"none", "torn"}]

\* A call past the lock owns it, so that two calls never write one root, also
\* when calls are refused, fail or are cleaned up after around it.
HeldWhileWriting ==
  \A r \in Runs : pc[r] \in Holding => lock.owner = r /\ lock.stage # "none"

\* A root that the node daemon takes for activated holds every required file,
\* all of one call, wherever that call was killed.
ActivatedMeansComplete ==
  Present("node_identity") => Consistent

\* No file of an identity is on a root while the owner's key of this identity
\* is not saved: otherwise the zone could never be recovered.
KeyIsSaved ==
  \A f \in Roles : Present(f) => \E p \in Backups : backup[p] = disk[f]

\* What status reports holds: "unactivated" when nothing of a call but a list
\* of DNS records can be there and nobody is at work, "configured" when the
\* activation is complete and nobody writes any more.
StatusIsHonest ==
  /\ State(lock.stage) = "unactivated" =>
       NobodyHolds /\ \A f \in Required : ~Present(f)
  /\ State(lock.stage) = "configured" =>
       Consistent /\ \A r \in Runs : pc[r] \in Holding => pc[r] = "unlocking"

\* An owner's key is created only for a root without any activation file,
\* also for a call that checked the root before another one activated it.
KeyOnlyForBareRoot ==
  [][ \A p \in Backups : backup[p] = "none" /\ backup'[p] # "none"
                           => \A f \in Roles : disk[f] = "none" ]_vars
==============================================================================
