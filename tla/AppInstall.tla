---------------------------- MODULE AppInstall ----------------------------
(***************************************************************************)
(* The App commands of the command-line tool (src/cli/modules/app.ts):     *)
(* fetch writes a plan, install applies one or upgrades an installed App,  *)
(* upgrade, uninstall, start, stop, restart and cancel.                    *)
(*                                                                         *)
(* One command runs at a time; the Catalog, the package file and what is   *)
(* installed change under it.  A plan is known by its fingerprint: what it *)
(* installs and over what.  A package is read into a snapshot and staged   *)
(* under a lease of the service.                                           *)
(*                                                                         *)
(* External: control-panel plans, stages and runs tasks; it refuses a      *)
(* submitted plan whose source or target is no longer what it was made     *)
(* for.                                                                    *)
(***************************************************************************)
EXTENDS Naturals, FiniteSets

CONSTANTS
  Arguments,    \* what the user names as source, see ClassifySource
  MaxVersion,   \* bound: versions of the Catalog and of the file
  MaxCommands   \* bound: commands

VARIABLES
  catalog, file,  \* versions the Catalog offers and the file holds
  installed,      \* version installed, 0 for none
  planFile,       \* the plan file: a set of at most one plan
  leases,         \* service: commands whose package it holds staged
  tasks,          \* service: tasks it has started
  snapshots,      \* private copies of packages on disk
  aborted,        \* where the command was when its signal aborted, or ""
  cmd             \* the command

world == <<catalog, file, installed>>
vars == <<world, planFile, leases, tasks, snapshots, aborted, cmd>>

-----------------------------------------------------------------------------
(* What a source argument means.                                           *)

Failure(code) == [kind |-> "error", is |-> code]

\* A value is known by its shape.
NormalizeCatalogIdentifier(shape) ==
  CASE shape \in {"did", "name", "dotted"} -> [kind |-> "catalog", is |-> "did"]
    [] shape = "did:key" -> Failure("INVALID_APP_DID")
    [] OTHER -> Failure("INVALID_APP_NAME")

ParsePikgUrl(shape) ==
  IF shape = "http" THEN [kind |-> "url", is |-> shape] ELSE Failure("INVALID_PIKG_URL")

\* a.disk: what is found at the path, looked at only when nothing else decides.
ClassifySource(a) ==
  LET raw == IF a.pikg # "" THEN a.pikg ELSE a.source
      forced == IF a.pikg # "" THEN "pikg" ELSE a.from IN
  IF a.source # "" /\ a.pikg # "" THEN Failure("ARGUMENT_CONFLICT")
  ELSE IF raw = "" THEN Failure("MISSING_ARGUMENT")
  ELSE IF forced = "url" THEN ParsePikgUrl(raw)
  ELSE IF forced = "pikg" THEN [kind |-> "pikg", is |-> raw]
  ELSE IF forced = "catalog" THEN NormalizeCatalogIdentifier(raw)
  ELSE IF raw \in {"http", "http with credentials"} THEN ParsePikgUrl(raw)
  ELSE IF a.disk = "file" THEN [kind |-> "pikg", is |-> raw]
  ELSE IF a.disk = "other" THEN Failure("INVALID_PIKG_SOURCE")
  ELSE IF raw \in {"path", "x.pikg"} THEN Failure("PIKG_NOT_FOUND")
  ELSE NormalizeCatalogIdentifier(raw)

-----------------------------------------------------------------------------
(* Plans.                                                                  *)

Plans == [version : 1..MaxVersion, over : 0..MaxVersion, portable : BOOLEAN]

PlanFor(v, over, portable) == [version |-> v, over |-> over, portable |-> portable]

\* A plan of another schema, with an unknown field or with a secret is refused.
AssertPortablePlan(p) == p.portable

Satisfied(p) == p.version = p.over

-----------------------------------------------------------------------------
(* A command.  Its steps: "plan" "snapshot" "stage" "inspect" "find"       *)
(* "again" "choose" "write" "check" "status" "confirm" "submit" "wait"     *)
(* "release", then "done".                                                 *)

Modes == {"wait", "no_wait", "dry_run"}
Lifecycle == {"start", "stop", "restart", "cancel"}
Verbs == {"fetch", "install", "upgrade", "upgrade_all", "uninstall"} \cup Lifecycle

NoCommand == [n |-> 0, verb |-> "none", how |-> "wait", plan |-> {}, at |-> "done", from |-> "none",
              digest |-> 0, staged |-> FALSE, present |-> 0, inspection |-> {}, shown |-> {},
              sent |-> {}, approved |-> {}, kept |-> FALSE, warned |-> FALSE, result |-> "none"]

Init ==
  /\ catalog = 1 /\ file = 1 /\ installed = 0
  /\ planFile = {} /\ leases = {} /\ tasks = {} /\ snapshots = {}
  /\ aborted = "" /\ cmd = NoCommand

serviceAndDisk == <<world, planFile, leases, tasks, snapshots>>

\* The `finally` of fetch and install.
End(result) == [cmd EXCEPT !.at = IF cmd.staged /\ ~cmd.kept THEN "release" ELSE "done",
                           !.result = result]
Ends(result) == cmd' = End(result)
Goes(to) == cmd' = [cmd EXCEPT !.at = to]

AfterSource(c) == IF c.from \in {"pikg", "url"} THEN "snapshot" ELSE "inspect"

\* --dry-run and --no-wait together are refused.
StartSourced(verb, how, a, withPlan) ==
  LET s == ClassifySource(a)
      c == [NoCommand EXCEPT !.n = cmd.n + 1, !.verb = verb, !.how = how, !.from = s.kind] IN
  /\ cmd.at = "done" /\ cmd.n < MaxCommands
  /\ verb = "fetch" => how = "wait"
  /\ cmd' = IF verb = "install" /\ withPlan
            THEN IF \E p \in planFile : AssertPortablePlan(p)
                 THEN IF s.kind = "error" THEN [c EXCEPT !.result = s.is]
                      ELSE [c EXCEPT !.plan = planFile, !.at = AfterSource(c)]
                 ELSE [c EXCEPT !.result = "PLAN_READ_FAILED"]
            ELSE IF s.kind = "error" THEN [c EXCEPT !.result = s.is]
            ELSE [c EXCEPT !.at = AfterSource(c)]
  /\ aborted' = ""
  /\ UNCHANGED serviceAndDisk

StartOther(verb, how) ==
  /\ cmd.at = "done" /\ cmd.n < MaxCommands
  /\ verb \in Lifecycle => how # "dry_run"
  /\ cmd' = [NoCommand EXCEPT !.n = cmd.n + 1, !.verb = verb, !.how = how,
       !.at = CASE verb \in {"upgrade", "upgrade_all"} -> "check"
                [] verb = "uninstall" -> "status"
                [] OTHER -> "submit"]
  /\ aborted' = ""
  /\ UNCHANGED serviceAndDisk

\* A call is refused, gets no answer in time, or is canceled.  Once the
\* signal has aborted no call returns anything else.
CallFails ==
  /\ cmd.at \in {"inspect", "find", "again", "check", "status", "submit"}
  /\ Ends(IF aborted # "" THEN "CANCELED" ELSE "failed")
  /\ UNCHANGED <<serviceAndDisk, aborted>>

-----------------------------------------------------------------------------
(* prepareSource.                                                          *)

\* Opened and measured; the copy begins.  Next to the service it is made in
\* its directory, else in one of the tool's own.
OpenPackage(place) ==
  /\ cmd.at = "snapshot" /\ cmd.digest = 0
  /\ snapshots' = snapshots \cup {[n |-> cmd.n, place |-> place]}
  /\ cmd' = [cmd EXCEPT !.digest = file]
  /\ UNCHANGED <<world, planFile, leases, tasks, aborted>>

Own == [n |-> cmd.n, place |-> "own"]

OwnCopy == {Own}

\* Denied in the service's directory: what was written there is removed, and
\* the copy starts again elsewhere.
PermissionDenied ==
  /\ cmd.at = "snapshot" /\ cmd.digest # 0
  /\ snapshots = {[n |-> cmd.n, place |-> "incoming"]}
  /\ snapshots' = OwnCopy
  /\ cmd' = [cmd EXCEPT !.digest = file]
  /\ UNCHANGED <<world, planFile, leases, tasks, aborted>>

\* Where the command's last copy is, and the directory made for it.
LastCopy == IF Own \in snapshots THEN {Own} ELSE {s \in snapshots : s.n = cmd.n}

\* A local file must have the size and the time it had when it was opened;
\* what a URL returns is one stream.
SnapshotDone ==
  /\ cmd.at = "snapshot" /\ cmd.digest # 0
  /\ cmd.digest = file \/ cmd.from = "url"
  /\ Goes("stage")
  /\ UNCHANGED <<serviceAndDisk, aborted>>

\* Not a package, too large, changed while it was read, canceled, no space.
SnapshotFails ==
  /\ cmd.at = "snapshot" /\ cmd.digest # 0
  /\ snapshots' = snapshots \ LastCopy
  /\ Ends(IF aborted # "" THEN "CANCELED" ELSE "PIKG_READ_FAILED")
  /\ UNCHANGED <<world, planFile, leases, tasks, aborted>>

\* An answer of another schema, of other bytes or of another purpose than the
\* snapshot's, of which these stand for the others.
Refused == {"PIKG_DIGEST_MISMATCH"}

\* The service takes the copy from its own directory, or from the chunks that
\* are uploaded otherwise and compared with it again; finalize answers with
\* what it holds.  A package whose answer is refused stays with the service.
Stage(answer) ==
  /\ cmd.at = "stage"
  /\ answer = "staged" => aborted = ""
  /\ snapshots' = snapshots \ LastCopy
  /\ leases' = IF answer = "unserved" THEN leases ELSE leases \cup {cmd.n}
  /\ cmd' = IF answer = "staged" THEN [cmd EXCEPT !.at = "inspect", !.staged = TRUE]
            ELSE [cmd EXCEPT !.at = "done", !.result = answer]
  /\ UNCHANGED <<world, planFile, tasks, aborted>>

-----------------------------------------------------------------------------
(* Inspection.                                                             *)

SourceVersion == IF cmd.from \in {"pikg", "url"} THEN cmd.digest ELSE catalog

\* apps.inspect, or apps.plan.recompute with the plan of the file.  (A package
\* of tools is refused here; see CallFails.)
InspectSource(p) ==
  /\ cmd.at = "inspect" /\ aborted = ""
  /\ p = PlanFor(SourceVersion, 0, p.portable)
  /\ IF ~AssertPortablePlan(p) THEN Ends("PLAN_STALE")
     ELSE IF cmd.from \in {"pikg", "url"} /\ \E q \in cmd.plan : q.version # cmd.digest
     THEN Ends("PLAN_STALE")
     ELSE cmd' = [cmd EXCEPT !.inspection = {p},
                             !.at = IF cmd.verb = "fetch" THEN "choose" ELSE "find"]
  /\ UNCHANGED <<serviceAndDisk, aborted>>

\* Seeded: a plan that no longer matches is applied all the same.
AnyPlan == TRUE

PlanMatches == cmd.plan = cmd.inspection

FindInstalled ==
  /\ cmd.at = "find" /\ aborted = ""
  /\ cmd' = IF cmd.plan # {}
            THEN IF installed # 0 THEN End("PLAN_NOT_APPLICABLE")
                 ELSE IF ~PlanMatches THEN End("PLAN_STALE")
                 ELSE IF cmd.how = "dry_run" THEN End("planned")
                 ELSE [cmd EXCEPT !.at = "confirm"]
            ELSE IF installed = 0
                 THEN End(IF cmd.verb = "upgrade" THEN "RESOURCE_NOT_FOUND" ELSE "PLAN_REQUIRED")
                 ELSE [cmd EXCEPT !.at = "again"]
  /\ UNCHANGED <<serviceAndDisk, aborted>>

\* The plan over what is installed: `upgrade` submits it, the user having
\* confirmed what apps.upgrade.check said.
InspectUpgrade(p) ==
  /\ cmd.at = "again" /\ aborted = ""
  /\ p = PlanFor(SourceVersion, installed, p.portable)
  /\ cmd' = IF ~AssertPortablePlan(p) THEN End("PLAN_STALE")
            ELSE IF cmd.verb = "upgrade" THEN [cmd EXCEPT !.inspection = {p}, !.at = "submit"]
            ELSE IF cmd.how = "dry_run" THEN End("planned")
            ELSE IF Satisfied(p) THEN End("satisfied")
            ELSE [cmd EXCEPT !.inspection = {p}, !.at = "confirm"]
  /\ UNCHANGED <<serviceAndDisk, aborted>>

\* apps.upgrade.check: what would be installed over what.
CheckUpgrades ==
  /\ cmd.at = "check" /\ aborted = ""
  /\ LET p == PlanFor(catalog, installed, TRUE) IN
     cmd' = IF cmd.how = "dry_run" THEN End("planned")
            ELSE IF installed = 0 \/ Satisfied(p) THEN End("satisfied")
            ELSE [cmd EXCEPT !.inspection = {p}, !.at = "confirm", !.from = "catalog"]
  /\ UNCHANGED <<serviceAndDisk, aborted>>

UninstallStatus ==
  /\ cmd.at = "status" /\ aborted = ""
  /\ IF cmd.how = "dry_run" THEN Ends("planned") ELSE Goes("confirm")
  /\ UNCHANGED <<serviceAndDisk, aborted>>

\* The user accepts the plan, edits its choices (it is computed again), or
\* declines; what is not configured cannot be written.
FinalizePlanChoices(answer, p) ==
  /\ cmd.at = "choose"
  /\ p = PlanFor(SourceVersion, 0, p.portable)
  /\ cmd' = CASE answer = "accept" -> [cmd EXCEPT !.at = "write"]
              [] answer = "edit" /\ AssertPortablePlan(p)
                   -> [cmd EXCEPT !.inspection = {p}, !.at = "write"]
              [] answer = "no --plan" -> End("inspected")
              [] OTHER -> End(IF answer = "decline" THEN "CONFIRMATION_DECLINED" ELSE "PLAN_INPUT_REQUIRED")
  /\ UNCHANGED <<serviceAndDisk, aborted>>

\* Over an existing file only if the user agrees; it is not replaced at once.
WritePlanFile(agrees, written) ==
  /\ cmd.at = "write"
  /\ IF planFile = {} \/ agrees
     THEN /\ planFile' = IF written THEN cmd.inspection ELSE {}
          /\ Ends(IF written THEN "inspected" ELSE "PLAN_WRITE_FAILED")
     ELSE Ends("CONFIRMATION_DECLINED") /\ UNCHANGED planFile
  /\ UNCHANGED <<world, leases, tasks, snapshots, aborted>>

-----------------------------------------------------------------------------
(* Confirmation and submission.                                            *)

\* The plan is shown.  The prompt does not see the signal.
ConfirmChange(yes) ==
  /\ cmd.at = "confirm"
  /\ cmd' = IF ~yes THEN [End("CONFIRMATION_DECLINED") EXCEPT !.shown = cmd.inspection]
            ELSE [cmd EXCEPT !.shown = cmd.inspection,
                             !.at = IF cmd.verb = "upgrade" THEN "find" ELSE "submit"]
  /\ UNCHANGED <<serviceAndDisk, aborted>>

Submitted == IF cmd.plan # {} THEN cmd.plan ELSE cmd.inspection
Planned == cmd.verb \in {"install", "upgrade"}

\* External: what the service checks of a plan.
Current(ps) == \A p \in ps : p.version = SourceVersion /\ p.over = installed

\* What the tool makes of an answer: nothing to do, a task, or none in time.
Heard(answer) ==
  IF aborted # "" THEN "CANCELED"
  ELSE IF answer = "lost" THEN "failed"
  ELSE IF answer = "satisfied" \/ cmd.verb = "cancel" THEN "satisfied"
  ELSE IF cmd.how = "no_wait" THEN "started" ELSE "waits"

\* apps.submit, apps.upgrade, apps.uninstall and the others.  The request is
\* sent whether or not the signal has aborted.
Submit(answer) ==
  LET heard == IF Planned /\ ~Current(Submitted) THEN "refused" ELSE Heard(answer)
      e == End(heard) IN
  /\ cmd.at = "submit"
  /\ answer = "satisfied" => cmd.verb \in {"install", "upgrade", "upgrade_all"}
  /\ tasks' = IF heard = "refused" \/ answer = "satisfied" \/ cmd.verb = "cancel"
              THEN tasks ELSE tasks \cup {cmd.n}
  /\ cmd' = [e EXCEPT !.sent = IF Planned THEN Submitted ELSE {},
                      !.approved = IF Planned THEN cmd.inspection ELSE {},
                      !.kept = heard \in {"started", "waits"},
                      !.at = CASE heard = "started" -> "done"
                               [] heard = "waits" -> "wait"
                               [] OTHER -> @]
  /\ UNCHANGED <<world, planFile, leases, snapshots, aborted>>

\* waitForTask returns or throws: module TaskWait.
WaitOver(how) ==
  /\ cmd.at = "wait"
  /\ cmd' = [cmd EXCEPT !.kept = FALSE, !.result = how,
                        !.at = IF cmd.staged THEN "release" ELSE "done"]
  /\ UNCHANGED <<serviceAndDisk, aborted>>

\* A release that fails is a warning.
ReleaseStaging(served) ==
  /\ cmd.at = "release"
  /\ leases' = IF served THEN leases \ {cmd.n} ELSE leases
  /\ cmd' = [cmd EXCEPT !.at = "done", !.warned = ~served]
  /\ UNCHANGED <<world, planFile, tasks, snapshots, aborted>>

-----------------------------------------------------------------------------
(* The world.                                                              *)

CatalogChanges ==
  /\ catalog < MaxVersion
  /\ catalog' = catalog + 1
  /\ UNCHANGED <<file, installed, planFile, leases, tasks, snapshots, aborted, cmd>>

FileChanges ==
  /\ file < MaxVersion
  /\ file' = file + 1
  /\ UNCHANGED <<catalog, installed, planFile, leases, tasks, snapshots, aborted, cmd>>

\* A task, or somebody else, installs or removes the App.
InstalledChanges ==
  /\ installed' \in {0, catalog, file} \ {installed}
  /\ UNCHANGED <<catalog, file, planFile, leases, tasks, snapshots, aborted, cmd>>

Abort ==
  /\ cmd.at # "done" /\ aborted = ""
  /\ aborted' = cmd.at
  /\ UNCHANGED <<serviceAndDisk, cmd>>

Command ==
  \/ \E verb \in {"fetch", "install"}, how \in Modes, a \in Arguments, withPlan \in BOOLEAN :
       StartSourced(verb, how, a, withPlan)
  \/ \E verb \in Verbs \ {"fetch", "install"}, how \in Modes : StartOther(verb, how)
  \/ CallFails
  \/ \E place \in {"incoming", "own"} : OpenPackage(place)
  \/ PermissionDenied \/ SnapshotDone \/ SnapshotFails
  \/ \E answer \in {"staged", "unserved", "unanswered"} \cup Refused : Stage(answer)
  \/ \E p \in Plans : InspectSource(p) \/ InspectUpgrade(p)
  \/ FindInstalled \/ CheckUpgrades \/ UninstallStatus
  \/ \E answer \in {"accept", "edit", "decline", "not ready", "no --plan"}, p \in Plans :
       FinalizePlanChoices(answer, p)
  \/ \E yes \in BOOLEAN : ConfirmChange(yes) \/ ReleaseStaging(yes)
  \/ \E agrees, written \in BOOLEAN : WritePlanFile(agrees, written)
  \/ \E answer \in {"heard", "satisfied", "lost"} : Submit(answer)
  \/ \E how \in {"Succeeded", "Failed", "TIMEOUT", "CANCELED"} : WaitOver(how)

Next == Command \/ CatalogChanges \/ FileChanges \/ InstalledChanges \/ Abort

Spec == Init /\ [][Next]_vars

-----------------------------------------------------------------------------
(* Properties.                                                             *)

\* What the verb `install` submits is the plan it showed for confirmation,
\* approved under the same fingerprint, of the bytes that were staged.  (The
\* other verb that submits a plan is `upgrade`: ConfirmedIsSubmitted.)
InstallsWhatWasShown ==
  (cmd.verb = "install" /\ cmd.sent # {}) =>
    /\ cmd.sent = cmd.shown /\ cmd.approved = cmd.shown
    /\ cmd.from # "catalog" => \A p \in cmd.sent : p.version = cmd.digest

\* No command leaves a copy of the package on disk, and the service holds
\* the package for as long as the command works with it.  Of a command that
\* has ended the service still holds a package in these cases only: its task
\* was left running (--no-wait), the release was not served, or the staging
\* was not answered or its answer refused, so that there was no handle to
\* release.
PackagesAreLetGo ==
  /\ cmd.at \notin {"snapshot", "stage"} => snapshots = {}
  /\ cmd.at = "done" /\ cmd.n \in leases
       => cmd.kept \/ cmd.warned \/ cmd.result \in {"unanswered"} \cup Refused
  /\ cmd.at \notin {"release", "done"} /\ cmd.staged => cmd.n \in leases

\* A plan is submitted as it was confirmed.  It does not hold: `upgrade` has
\* the user confirm what apps.upgrade.check found, then inspects again and
\* submits that plan.
ConfirmedIsSubmitted == Planned /\ cmd.sent # {} => cmd.sent = cmd.shown
=============================================================================
