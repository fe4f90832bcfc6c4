------------------------------- MODULE Updater -------------------------------
(***************************************************************************)
(* The self-update of the macOS application: choosing a release, `cued     *)
(* update install`, the detached helper script that replaces the bundle,   *)
(* its health check and roll-back, and the processes that keep running     *)
(* around it -- the menu-bar application, which starts a daemon whenever   *)
(* none runs (AppRuntime.swift), and the daemon, which migrates the        *)
(* database it opens.                                                      *)
(*                                                                         *)
(* A version stands for its bundle and for the schema its migrations make: *)
(* migrations are only ever added, and no code undoes one.  The legacy     *)
(* launch agent, the CLI symlink, telemetry and signatures are left out.   *)
(***************************************************************************)
EXTENDS Integers, Sequences, SequencesExt

CONSTANTS
    First,        \* the version installed at the start
    Feed,         \* the releases in the order they are published
    Channels,     \* the release channels an installation can be on
    MaxInstalls,  \* bound: calls of `update install`, bundles replaced by hand
    MaxStops,     \* bound: times the machine stops
    None          \* no version, no process, no backup

(* A version: its major.minor.patch as one number, and its pre-release     *)
(* identifiers, each a number or a word (its place in the alphabet).       *)
Identifier == [number : BOOLEAN, at : Nat]
Version == [core : Nat, pre : Seq(Identifier)]

ASSUME UpdaterAssumption ==
    /\ First \in Version
    /\ Feed \in Seq([version : Version, prerelease : BOOLEAN, installable : BOOLEAN])
    /\ Feed # <<>>
    /\ Channels \subseteq {"stable", "internal", "dev"}
    /\ MaxInstalls \in Nat /\ MaxStops \in Nat

Torn == [core |-> 0, pre |-> <<[number |-> FALSE, at |-> 0]>>]  \* a half-copied bundle
Known == {First} \cup {Feed[i].version : i \in DOMAIN Feed}

VARIABLES
    channel,    \* the release channel of the installation
    published,  \* how many releases of the feed are out (stands for the etag)
    bundle,     \* the version of the installed Cued.app, or Torn
    db,         \* the database file
    backup,     \* what `update install` copied: [app, db]
    ui,         \* the version of the running menu-bar application, or None
    daemon,     \* the running daemon, or None
    cli,        \* `update install`: where it is and what it installs
    helper,     \* where the helper script is
    written,    \* auxiliary: the kinds of daemon that ever wrote a row
    mixed,      \* auxiliary: a bundle met a newer database; see SchemaFits
    installs, stops     \* counters of the bounds

files == <<bundle, backup>>
procs == <<ui, daemon>>
aux == <<written, mixed>>
bounds == <<installs, stops>>
vars == <<channel, published, db, cli, helper, files, procs, aux, bounds>>

-----------------------------------------------------------------------------
(* Choosing a release. *)

CompareIdentifiers(left, right) ==
    IF left.number = right.number THEN left.at - right.at
    ELSE IF left.number THEN -1 ELSE 1

(* The first place where two lists of identifiers differ decides; a list   *)
(* that ends there comes first.                                            *)
ComparePrereleases(left, right) ==
    LET longer == IF Len(left) > Len(right) THEN Len(left) ELSE Len(right)
        differ == {i \in 1..longer :
                      \/ i > Len(left) \/ i > Len(right)
                      \/ CompareIdentifiers(left[i], right[i]) # 0}
    IN  IF differ = {} THEN 0
        ELSE LET i == CHOOSE k \in differ : \A j \in differ : k <= j
             IN  IF i > Len(left) THEN -1
                 ELSE IF i > Len(right) THEN 1
                 ELSE CompareIdentifiers(left[i], right[i])

CompareVersions(left, right) ==
    IF left.core # right.core THEN left.core - right.core
    ELSE IF left.pre = <<>> /\ right.pre = <<>> THEN 0
    ELSE IF left.pre = <<>> THEN 1
    ELSE IF right.pre = <<>> THEN -1
    ELSE ComparePrereleases(left.pre, right.pre)

Newer(v, w) == CompareVersions(v, w) > 0

Offered(release) ==
    release.installable /\ ~(channel = "stable" /\ release.prerelease)

(* MUTANT: the last release of the list that the channel may install. *)
PickLastRelease(releases) ==
    FoldLeft(LAMBDA best, release : IF Offered(release) THEN release.version ELSE best,
             None, releases)

(* The newest of those it may install; the first comes first, but equal    *)
(* versions are one.                                                       *)
PickReleaseForChannel(releases) ==
    LET offered == {releases[i].version : i \in {j \in DOMAIN releases : Offered(releases[j])}}
    IN  IF offered = {} THEN None
        ELSE CHOOSE v \in offered : \A w \in offered : ~Newer(w, v)

(* What is known of an update, kept in app_settings: the version whose     *)
(* start ends the wait for it, and the last error.                         *)
SetUpdateState(pending, error) == [db EXCEPT !.pending = pending, !.error = error]

(* What is known of the daemon, written by itself. *)
UpsertDaemonState(d, status, v) == [d EXCEPT !.status = status, !.version = v]

(* What a check by code of version v stores as update_release_state.  On a *)
(* 304, which only an unforced check can get, the latest version is the    *)
(* one the previous check stored.                                          *)
Checked(v, notModified) ==
    LET latest == IF channel = "dev" THEN v
                  ELSE IF notModified
                  THEN IF db.release.latest = None THEN db.release.current
                       ELSE db.release.latest
                  ELSE PickReleaseForChannel(SubSeq(Feed, 1, published))
    IN  [current |-> v, latest |-> latest, etag |-> published,
         available |-> IF latest # None /\ Newer(latest, v) THEN latest ELSE None]

(* The outcomes of checkForUpdates: a failed check records its error and   *)
(* leaves the release state of the last good check in place.               *)
CheckForUpdates(v, force, after) ==
    \/ /\ channel # "dev"
       /\ after = SetUpdateState(db.pending, "check")
    \/ after = [db EXCEPT !.release = Checked(v, FALSE), !.error = "none"]
    \/ /\ ~force /\ channel # "dev"
       /\ db.release # None /\ db.release.etag = published
       /\ after = [db EXCEPT !.release = Checked(v, TRUE), !.error = "none"]

-----------------------------------------------------------------------------
Init ==
    /\ channel \in Channels
    /\ published = 1
    /\ bundle = First
    /\ db = [schema |-> First, rows |-> {}, release |-> None, pending |-> None,
             error |-> "none", status |-> "stopped", version |-> First]
    /\ backup = [app |-> None, db |-> None]
    /\ ui \in {First, None}
    /\ daemon = None
    /\ cli = [pc |-> "idle", target |-> None, previous |-> None]
    /\ helper = "idle"
    /\ written = {} /\ mixed = FALSE
    /\ installs = 0 /\ stops = 0

(* Nothing reads the list of releases while an install is under way. *)
Publish ==
    /\ published < Len(Feed)
    /\ cli.pc = "idle" /\ helper \in {"idle", "dead"}
    /\ published' = published + 1
    /\ UNCHANGED <<channel, db, cli, helper, files, procs, aux, bounds>>

-----------------------------------------------------------------------------
(* The processes around an update. *)

Updating == cli.pc \in {"asked", "stopped", "copied", "backedUp", "recorded"}
            \/ helper \notin {"idle", "dead"}

(* When a daemon was started, as far as an update is concerned. *)
Era == CASE helper = "opened" -> "target"
         [] helper # "opened" /\ Updating -> "revived"
         [] OTHER -> "usual"

(* openCuedDatabase runs the migrations the file does not have yet. *)
Migrated(v) == IF Newer(v, db.schema) THEN v ELSE db.schema

(* MUTANT: the status row is believed, not the lock. *)
StartUnlessRunning ==
    /\ ui # None /\ daemon = None /\ bundle # Torn /\ db.status # "running"
    /\ daemon' = [version |-> bundle, era |-> Era, ready |-> FALSE, asked |-> FALSE]
    /\ db' = [db EXCEPT !.schema = Migrated(bundle)]
    /\ UNCHANGED <<channel, published, ui, cli, helper, files, aux, bounds>>

(* DaemonSupervisor.startIfNeeded, on the application's timer: the daemon  *)
(* is launched from the installed bundle and opens the database.           *)
StartIfNeeded ==
    /\ ui # None /\ daemon = None /\ bundle # Torn
    /\ daemon' = [version |-> bundle, era |-> Era, ready |-> FALSE, asked |-> FALSE]
    /\ db' = [db EXCEPT !.schema = Migrated(bundle)]
    /\ mixed' = (mixed \/ helper = "restored")
    /\ UNCHANGED <<channel, published, ui, cli, helper, files, written, bounds>>

(* The daemon reports itself; the version an update waits for ends it. *)
DaemonReady ==
    /\ daemon # None /\ ~daemon.ready
    /\ daemon' = [daemon EXCEPT !.ready = TRUE]
    /\ db' = UpsertDaemonState(
                 IF db.pending = daemon.version THEN SetUpdateState(None, "none") ELSE db,
                 "running", daemon.version)
    /\ UNCHANGED <<channel, published, ui, cli, helper, files, aux, bounds>>

DaemonWrites ==
    /\ daemon # None /\ daemon.ready
    /\ daemon.era \notin db.rows
    /\ db' = [db EXCEPT !.rows = @ \cup {daemon.era}]
    /\ written' = written \cup {daemon.era}
    /\ UNCHANGED <<channel, published, cli, helper, files, procs, mixed, bounds>>

(* The daemon's own checks: not forced on its timer, forced on request.    *)
(* A check that an update overtakes is left out.                           *)
DaemonChecks ==
    /\ daemon # None /\ daemon.ready /\ ~Updating
    /\ \E force \in BOOLEAN : CheckForUpdates(daemon.version, force, db')
    /\ UNCHANGED <<channel, published, cli, helper, files, procs, aux, bounds>>

(* A daemon that was asked to stop stops when its work is done. *)
DaemonStops ==
    /\ daemon # None /\ daemon.asked
    /\ daemon' = None
    /\ db' = UpsertDaemonState(db, "stopped", daemon.version)
    /\ UNCHANGED <<channel, published, ui, cli, helper, files, aux, bounds>>

(* The user, or the login item, opens the application. *)
OpenApp ==
    /\ ui = None /\ bundle # Torn
    /\ ui' = bundle
    /\ UNCHANGED <<channel, published, db, daemon, cli, helper, files, aux, bounds>>

(* The user replaces a bundle that is not running with the last release.  *)
InstallByHand ==
    /\ installs < MaxInstalls /\ ~Updating /\ cli.pc = "idle"
    /\ ui = None /\ daemon = None
    /\ LET latest == Feed[published]
       IN  /\ latest.installable
           /\ Newer(latest.version, bundle) /\ ~Newer(db.schema, latest.version)
           /\ bundle' = latest.version
    /\ installs' = installs + 1
    /\ UNCHANGED <<channel, published, db, backup, procs, cli, helper, aux, stops>>

(* The machine stops: no process survives, and nothing resumes an update.  *)
MachineStops ==
    /\ stops < MaxStops
    /\ ui' = None /\ daemon' = None
    /\ cli' = [cli EXCEPT !.pc = "idle"]
    /\ helper' = IF helper = "idle" THEN "idle" ELSE "dead"
    /\ mixed' = (mixed \/ helper = "restored")
    /\ stops' = stops + 1
    /\ UNCHANGED <<channel, published, db, files, written, installs>>

-----------------------------------------------------------------------------
(* `cued update install`, by the installed version. *)

(* A check, whose failure is not looked at: what counts is the release     *)
(* state it leaves behind.  Without a newer version there, and when the    *)
(* download or its verification fails, the command ends here.              *)
PrepareReleaseInstall ==
    /\ cli.pc = "idle" /\ helper \in {"idle", "dead"}
    /\ bundle # Torn /\ installs < MaxInstalls
    /\ CheckForUpdates(bundle, TRUE, db')
    /\ \/ UNCHANGED cli
       \/ /\ db'.release # None /\ db'.release.available # None
          /\ cli' = [pc |-> "prepared", target |-> db'.release.available,
                     previous |-> bundle]
    /\ installs' = installs + 1
    /\ UNCHANGED <<channel, published, helper, files, procs, aux, stops>>

DaemonReports == daemon # None /\ daemon.ready

(* A daemon that has not reported itself yet has no socket and no pid in   *)
(* the database: it is not asked, no more than one that starts later.      *)
RequestShutdownForUpdate ==
    /\ cli.pc = "prepared"
    /\ cli' = [cli EXCEPT !.pc = "asked"]
    /\ db' = SetUpdateState(db.pending, "none")
    /\ daemon' = IF DaemonReports
                 THEN [daemon EXCEPT !.asked = TRUE]
                 ELSE IF daemon # None THEN [daemon EXCEPT !.era = "revived"] ELSE None
    /\ UNCHANGED <<channel, published, ui, helper, files, aux, bounds>>

(* MUTANT: the daemon is asked to stop and not waited for. *)
DoNotWait ==
    /\ cli.pc = "asked"
    /\ cli' = [cli EXCEPT !.pc = "stopped"]
    /\ UNCHANGED <<channel, published, db, helper, files, procs, aux, bounds>>

WaitForDaemonExit ==
    /\ cli.pc = "asked" /\ ~DaemonReports
    /\ cli' = [cli EXCEPT !.pc = "stopped"]
    /\ UNCHANGED <<channel, published, db, helper, files, procs, aux, bounds>>

BackUpApp ==
    /\ cli.pc = "stopped"
    /\ backup' = [backup EXCEPT !.app = bundle]
    /\ cli' = [cli EXCEPT !.pc = "copied"]
    /\ UNCHANGED <<channel, published, db, helper, bundle, procs, aux, bounds>>

BackupDatabaseSnapshot ==
    /\ cli.pc = "copied"
    /\ backup' = [backup EXCEPT !.db = db]
    /\ cli' = [cli EXCEPT !.pc = "backedUp"]
    /\ UNCHANGED <<channel, published, db, helper, bundle, procs, aux, bounds>>

(* The staged release opened a second copy of the database (runPreflight). *)
RecordPendingRollback ==
    /\ cli.pc = "backedUp"
    /\ db' = SetUpdateState(cli.target, db.error)
    /\ cli' = [cli EXCEPT !.pc = "recorded"]
    /\ UNCHANGED <<channel, published, helper, files, procs, aux, bounds>>

(* Any step since the shutdown may fail, the wait for the daemon by its    *)
(* time-out; nothing starts the daemon again but the application.          *)
InstallFails ==
    /\ cli.pc \in {"prepared", "asked", "stopped", "copied", "backedUp", "recorded"}
    /\ db' = SetUpdateState(None, "install")
    /\ cli' = [cli EXCEPT !.pc = "idle"]
    /\ UNCHANGED <<channel, published, helper, files, procs, aux, bounds>>

(* The application that called the command quits; a terminal does not.     *)
SpawnUpdateHelper ==
    /\ cli.pc = "recorded"
    /\ helper' = "waiting"
    /\ cli' = [cli EXCEPT !.pc = "idle"]
    /\ ui' \in {ui, None}
    /\ mixed' = (mixed \/ Newer(cli.previous, cli.target))
    /\ UNCHANGED <<channel, published, db, daemon, files, written, bounds>>

-----------------------------------------------------------------------------
(* The helper script. *)

OldAppIsRunning == ui # None \/ daemon # None

(* What pkill leaves of a database whose daemon is told to stop, then      *)
(* killed: it may or may not have had the time to say that it stopped.     *)
Killed ==
    {db} \cup IF daemon = None THEN {}
               ELSE {UpsertDaemonState(db, "stopped", daemon.version)}

Helper(from, to) == helper = from /\ helper' = to

WaitForOldAppExit ==
    /\ Helper("waiting", "replacing")
    /\ ~OldAppIsRunning
    /\ UNCHANGED <<channel, published, db, cli, files, procs, aux, bounds>>

KillOldApp ==
    /\ Helper("waiting", "killed")
    /\ OldAppIsRunning
    /\ ui' = None /\ daemon' = None /\ db' \in Killed
    /\ UNCHANGED <<channel, published, cli, files, aux, bounds>>

(* Started again while the script slept: the update is given up. *)
LookAgain ==
    /\ IF OldAppIsRunning
       THEN Helper("killed", "idle") /\ db' = SetUpdateState(None, "install")
       ELSE Helper("killed", "replacing") /\ UNCHANGED db
    /\ UNCHANGED <<channel, published, cli, files, procs, aux, bounds>>

(* rsync takes a while. *)
BeginCopy ==
    /\ Helper("replacing", "copying")
    /\ bundle' = Torn
    /\ UNCHANGED <<channel, published, db, cli, backup, procs, aux, bounds>>

EndCopy ==
    /\ Helper("copying", "opening")
    /\ bundle' = cli.target
    /\ UNCHANGED <<channel, published, db, cli, backup, procs, aux, bounds>>

OpenTarget ==
    /\ Helper("opening", "opened")
    /\ ui' = IF ui = None THEN bundle ELSE ui
    /\ UNCHANGED <<channel, published, db, cli, daemon, files, aux, bounds>>

(* MUTANT: any daemon that runs is taken for the new one. *)
HealthyWhateverVersion == db.status = "running"

Healthy == db.status = "running" /\ db.version = cli.target

Succeed ==
    /\ Helper("opened", "idle")
    /\ Healthy
    /\ db' = SetUpdateState(None, "none")
    /\ UNCHANGED <<channel, published, cli, files, procs, aux, bounds>>

(* The time-out of the health check, whose last look was too early. *)
BeginRestore ==
    /\ Helper("opened", "restoring")
    /\ ui' = None /\ daemon' = None /\ db' \in Killed
    /\ bundle' = Torn
    /\ UNCHANGED <<channel, published, cli, backup, aux, bounds>>

RestoreApp ==
    /\ Helper("restoring", "restored")
    /\ bundle' = backup.app
    /\ UNCHANGED <<channel, published, db, cli, backup, procs, aux, bounds>>

RestoreDatabase ==
    /\ Helper("restored", "reopening")
    /\ db' = backup.db
    /\ UNCHANGED <<channel, published, cli, files, procs, aux, bounds>>

OpenPrevious ==
    /\ Helper("reopening", "reporting")
    /\ ui' = IF ui = None THEN bundle ELSE ui
    /\ UNCHANGED <<channel, published, db, cli, daemon, files, aux, bounds>>

ReportRollback ==
    /\ Helper("reporting", "idle")
    /\ db' = SetUpdateState(None, "install")
    /\ UNCHANGED <<channel, published, cli, files, procs, aux, bounds>>

(* set -e: a copy that fails ends the script where it stands. *)
CopyFails ==
    /\ helper \in {"copying", "restoring", "restored"}
    /\ helper' = "dead"
    /\ mixed' = (mixed \/ helper = "restored")
    /\ UNCHANGED <<channel, published, db, cli, files, procs, written, bounds>>

-----------------------------------------------------------------------------
DaemonNext == StartIfNeeded \/ DaemonReady \/ DaemonStops

InstallNext ==
    \/ RequestShutdownForUpdate \/ WaitForDaemonExit \/ BackUpApp
    \/ BackupDatabaseSnapshot \/ RecordPendingRollback \/ InstallFails \/ SpawnUpdateHelper

HelperNext ==
    \/ WaitForOldAppExit \/ KillOldApp \/ LookAgain \/ BeginCopy \/ EndCopy \/ OpenTarget
    \/ Succeed \/ BeginRestore \/ RestoreApp \/ RestoreDatabase \/ OpenPrevious
    \/ ReportRollback \/ CopyFails

Next ==
    \/ Publish
    \/ DaemonNext \/ DaemonWrites \/ DaemonChecks
    \/ OpenApp \/ InstallByHand \/ MachineStops
    \/ PrepareReleaseInstall \/ InstallNext
    \/ HelperNext

Spec == Init /\ [][Next]_vars

(* Timers and running programs go on; people and power failures need not.  *)
FairSpec == Spec /\ WF_vars(DaemonNext) /\ WF_vars(InstallNext) /\ WF_vars(HelperNext)

-----------------------------------------------------------------------------
(* Type invariant. *)
TypeOK ==
    /\ channel \in Channels /\ published \in 0..Len(Feed)
    /\ bundle \in Known \cup {Torn}
    /\ ui \in Known \cup {None}
    /\ daemon = None \/
          daemon \in [version : Known, era : {"usual", "revived", "target"},
                     ready : BOOLEAN, asked : BOOLEAN]
    /\ db.schema \in Known /\ db.version \in Known /\ db.pending \in Known \cup {None}
    /\ cli.target \in Known \cup {None} /\ cli.previous \in Known \cup {None}
    /\ backup.app \in Known \cup {None}

(* No code runs on a database that a newer release has migrated, whatever  *)
(* update was rolled back, given up or cut off -- but for a restore that   *)
(* is itself cut off, or overtaken, between bundle and database, and for   *)
(* the install of an older release that a stale check still offers.        *)
SchemaFits ==
    daemon # None /\ ~mixed => ~Newer(db.schema, daemon.version)

(* A roll-back loses no row that a daemon wrote before the update asked it *)
(* to stop.  It does lose rows of a daemon that the application started    *)
(* while the update was under way, and those of the release rolled back.   *)
RollbackKeepsWrites == "usual" \in written => "usual" \in db.rows

(* Whatever an install and its helper script do and leave undone, the      *)
(* database fits the code that opens it and keeps what was written.        *)
DatabaseSurvives == SchemaFits /\ RollbackKeepsWrites

(* When the script ends by itself, one version is left, whole: the target, *)
(* whose daemon runs, or the previous one with an error, on a database it  *)
(* understands; and no roll-back stays pending.                            *)
UpdateIsDecided ==
    [][helper \notin {"idle", "dead"} /\ helper' = "idle" =>
          /\ db'.pending = None
          /\ bundle' = IF db'.error = "none" THEN cli.target ELSE cli.previous
          /\ db'.error = "none" => db'.version = bundle' /\ (mixed \/ db'.schema = bundle')
          /\ mixed \/ ~Newer(db'.schema, bundle')]_vars

(* An update leaves a daemon at work, if an application was there to start *)
(* it again and neither the machine nor a copy failed.                     *)
DaemonComesBack ==
    (Updating /\ daemon = None) ~>
        \/ daemon # None /\ daemon.ready
        \/ stops > 0 \/ helper = "dead"
        \/ ~Updating /\ ui = None
=============================================================================
