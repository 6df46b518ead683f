------------------------------- MODULE Updater -------------------------------
(***************************************************************************)
(* The updater of an installed server (packages/server/update): it looks   *)
(* for a release, stages its package next to the binary (stage.ts), puts   *)
(* the files in place one rename after the other (install.ts), and hands   *)
(* over to a successor (service.ts).  What is on disk outlives the         *)
(* process; each awaited file operation is a step, and the process may die *)
(* between any two of them.                                                *)
(*                                                                         *)
(* A version is a number, 0 is none; a file is the version it belongs to.  *)
(* File 1 is the binary.  The release page, the user, the operator and the *)
(* supervisor are external.                                                *)
(***************************************************************************)
EXTENDS Naturals, FiniteSets, FiniteSetsExt

CONSTANTS
    MaxVersion,
    Package,        \* the files of each version's package
    Modes,          \* restart modes of installations, of "self", "supervisor", "none"
    MaxFailures,    \* steps that fail
    MaxCrashes,     \* processes that die
    MaxClicks,      \* what the user asks for and the operator does
    Env             \* optional behaviours

Behaviours == {
    "slowRemovals",   \* an unawaited removal is still under way at a later step
    "staleClient" }   \* a page offers a download that is already installed

Versions == 1 .. MaxVersion
Files == UNION {Package[v] : v \in Versions}

ASSUME UpdaterAssumption ==
    /\ MaxVersion \in Nat \ {0}
    /\ Package \in [Versions -> SUBSET (Nat \ {0})] /\ IsFiniteSet(Files)
    /\ \A v \in Versions : 1 \in Package[v]
    /\ \A v, w \in Versions : v < w => Package[v] \subseteq Package[w]
    /\ Modes \subseteq {"self", "supervisor", "none"}
    /\ {MaxFailures, MaxCrashes, MaxClicks} \subseteq Nat
    /\ Env \subseteq Behaviours

VARIABLES
    release,    \* the newest published version
    disk,       \* the files, and the staging area
    proc,       \* the server process
    status,     \* its UpdateService; "unmarked" is history: the version whose
                \* files it put in place and could not record as applied
    job,        \* the action that owns it (#busy), and how far it is
    clearing,   \* staging entries an unawaited clear still removes
    cleaning,   \* leftovers cleanupStaleFiles() still removes
    settings,   \* automatic update, automatic restart
    mode,       \* how the installation restarts
    failures, crashes, clicks,
    torn        \* history: a process died while it replaced files, or could not
                \* put them back

bounds == <<failures, crashes, clicks>>
removals == <<clearing, cleaning>>
vars == <<release, disk, proc, status, job, clearing, cleaning, settings, mode,
          failures, crashes, clicks, torn>>

NoFiles == [f \in Files |-> 0]
Installed(v) == [f \in Files |-> IF f \in Package[v] THEN v ELSE 0]

NoJob == [at |-> "none", v |-> 0, auto |-> FALSE, f |-> 0,
          moved |-> {}, added |-> {}]
Idle == job.at = "none"

Settle == job' = NoJob

Fails == failures < MaxFailures /\ failures' = failures + 1

\* What was asked of the file system and not awaited is through before the
\* next answer of a network or of a user comes in.
Prompt == "slowRemovals" \in Env \/ (clearing = {} /\ cleaning = {})

Up == proc.st = "up"
Alive == proc.st \in {"up", "draining"}

(***************************************************************************)
(* Restarting.                                                             *)
(***************************************************************************)
\* #fail(): whatever was under way is reported as over.
Failed(st) == [st EXCEPT !.restarting = FALSE]

\* restart() goes through.
MayRestart(st) == ~ st.restarting /\ mode # "none" /\ st.pending

\* restart(): scheduled, or refused with an error.
Restarts(st) ==
    IF MayRestart(st)
    THEN /\ status' = [st EXCEPT !.restarting = TRUE]
         /\ proc' = [proc EXCEPT !.restarts = @ + 1]
    ELSE /\ status' = IF st.restarting THEN st ELSE Failed(st)
         /\ UNCHANGED proc

\* The process is gone: its service, job and removals with it.  It was replacing
\* files if what is installed is not one version.
Whole == \E v \in Versions : disk.target = Installed(v)

Exits(next, promise) ==
    /\ proc' = [st |-> next, current |-> 0, restarts |-> 0, promise |-> promise]
    /\ status' = [status EXCEPT !.manifest = 0, !.staged = 0, !.available = FALSE,
                     !.ready = FALSE, !.applied = 0, !.pending = FALSE,
                     !.restarting = FALSE, !.unmarked = 0]
    /\ Settle /\ clearing' = {} /\ cleaning' = {}
    /\ torn' = (torn \/ ~ Whole)

\* A supervisor starts again what ends, unless it was told to stop it.
Supervised == IF mode = "supervisor" /\ Up THEN "starting" ELSE "down"

\* Mutation: whoever starts the new version is the supervisor.
LeftToTheSupervisor == Supervised

\* The process that goes starts its successor, or leaves it to the supervisor.
Successor == IF mode = "self" THEN "starting" ELSE Supervised

\* #performRestart(): the shutdown is through.
HandsOver ==
    /\ Alive /\ proc.restarts > 0
    /\ Exits(Successor, IF Up THEN status.applied ELSE 0)
    /\ UNCHANGED <<release, disk, settings, mode, bounds>>

\* The shutdown or the start of the successor fails: the process ends all the
\* same, and only a supervisor starts another one.
HandOverFails ==
    /\ Alive /\ proc.restarts > 0 /\ Fails
    /\ Exits(Supervised, 0)
    /\ UNCHANGED <<release, disk, settings, mode, crashes, clicks>>

(***************************************************************************)
(* A process begins (#reconcile) and ends.                                 *)
(***************************************************************************)
\* readStagedUpdate(): a record without its archive is none.
Readable(d) == IF d.archive # 0 THEN d.meta ELSE 0

\* #reconcile(): what a process finds on disk decides what it reports.
Reconciled(d, v) ==
    LET newer == Readable(d) > v IN
    [manifest |-> 0, staged |-> IF newer THEN Readable(d) ELSE 0,
     available |-> newer, ready |-> newer,
     applied |-> IF d.applied > v THEN d.applied ELSE 0, pending |-> d.applied > v,
     restarting |-> FALSE, unmarked |-> 0]

Staging == {"archive", "meta", "applied"}
Leftovers(d) == {e \in {"new", "old"} \X Files : d[e[1]][e[2]] # 0}

\* The binary that is installed starts, unless there is none.
Starts ==
    LET v == disk.target[1] IN
    /\ v # 0
    /\ proc' = [proc EXCEPT !.st = "up", !.current = v, !.promise = 0]
    /\ status' = Reconciled(disk, v)
    /\ clearing' = IF Readable(disk) \in 1 .. v \/ disk.applied = v
                   THEN Staging ELSE {}
    /\ cleaning' = Leftovers(disk)
    /\ UNCHANGED <<release, disk, job, settings, mode, failures, crashes, torn>>

SuccessorStarts == proc.st = "starting" /\ Starts /\ UNCHANGED clicks

OperatorStarts ==
    /\ proc.st = "down" /\ clicks < MaxClicks /\ clicks' = clicks + 1
    /\ Starts

Crash ==
    /\ Alive /\ crashes < MaxCrashes /\ crashes' = crashes + 1
    /\ Exits(Supervised, 0)
    /\ UNCHANGED <<release, disk, settings, mode, failures, clicks>>

\* The operator stops the server: no request and no tick any more, but what is
\* under way goes on until the process is through with closing.
Stop ==
    /\ Up /\ clicks < MaxClicks /\ clicks' = clicks + 1
    /\ proc' = [proc EXCEPT !.st = "draining"]
    /\ UNCHANGED <<release, disk, status, job, removals, settings, mode, failures,
                   crashes, torn>>

Stopped ==
    /\ proc.st = "draining"
    /\ Exits("down", 0)
    /\ UNCHANGED <<release, disk, settings, mode, bounds>>

(***************************************************************************)
(* Removals nobody awaits.                                                 *)
(***************************************************************************)
Cleared(e) ==
    /\ e \in clearing
    /\ clearing' = clearing \ {e}
    /\ disk' = [disk EXCEPT ![e] = 0]
    /\ UNCHANGED <<release, proc, status, job, cleaning, settings, mode, bounds, torn>>

Cleaned(e) ==
    /\ e \in cleaning
    /\ cleaning' = cleaning \ {e}
    /\ disk' = [disk EXCEPT ![e[1]][e[2]] = 0]
    /\ UNCHANGED <<release, proc, status, job, clearing, settings, mode, bounds, torn>>

(***************************************************************************)
(* download(), and the package on its way to being staged (stageUpdate).   *)
(***************************************************************************)
MayDownload(st) == st.manifest # 0 /\ st.available /\ ~ st.ready

Downloading(st) == [NoJob EXCEPT !.at = "downloading", !.v = st.manifest]

\* apply() goes on where the download ends.
MayApply(st) == st.staged # 0 /\ ~ st.pending

Applying(st) == [NoJob EXCEPT !.at = "unpacking", !.v = st.staged]

others == <<release, proc, settings, mode, torn>>

\* The download fails, or what is behind it: the rename to its name, and the
\* write of its record, once the package before is gone.
DownloadFails ==
    /\ job.at \in {"downloading", "place", "record"} /\ Fails
    /\ status' = Failed(status)
    /\ Settle
    /\ UNCHANGED <<others, disk, removals, crashes, clicks>>

Goes(at) == job' = [job EXCEPT !.at = at]

\* Mutation: the record of the package before is not removed.
NextOfStagingOver(at) ==
    CASE at = "downloading" -> "dropArchive" [] at = "dropArchive" -> "place"
      [] at = "place" -> "record"

\* The verified package replaces the one before: archive, record, archive, record.
NextOfStaging(at) ==
    CASE at = "downloading" -> "dropArchive" [] at = "dropArchive" -> "dropMeta"
      [] at = "dropMeta" -> "place" [] at = "place" -> "record"

Stages ==
    /\ \/ job.at = "downloading" /\ Prompt /\ UNCHANGED disk
       \/ job.at = "dropArchive" /\ disk' = [disk EXCEPT !.archive = 0]
       \/ job.at = "dropMeta" /\ disk' = [disk EXCEPT !.meta = 0]
       \/ job.at = "place" /\ disk' = [disk EXCEPT !.archive = job.v]
    /\ Goes(NextOfStaging(job.at))
    /\ UNCHANGED <<others, status, removals, bounds>>

\* The record is written: the package is staged, and applied right away in
\* automatic mode.
Staged ==
    LET st == [status EXCEPT !.staged = job.v, !.ready = TRUE] IN
    /\ job.at = "record"
    /\ disk' = [disk EXCEPT !.meta = job.v]
    /\ status' = st
    /\ job' = IF settings.auto /\ MayApply(st) THEN Applying(st) ELSE NoJob
    /\ UNCHANGED <<others, removals, bounds>>

(***************************************************************************)
(* check().                                                                *)
(***************************************************************************)
\* Mutation: a package that is ready stops every later check.
MayCheckUnlessReady == Idle /\ ~ status.pending /\ ~ status.ready

MayCheck == Idle /\ ~ status.pending

FetchFails ==
    /\ job.at = "fetching" /\ Fails
    /\ status' = Failed(status)
    /\ Settle
    /\ UNCHANGED <<others, disk, removals, crashes, clicks>>

\* The release is known and nothing staged stands in the way: in automatic mode
\* it is downloaded.
Offers(st) ==
    /\ status' = st
    /\ job' = IF job.auto /\ settings.auto /\ MayDownload(st)
              THEN Downloading(st) ELSE NoJob

FetchAnswers ==
    LET st == [status EXCEPT !.manifest = release] IN
    /\ job.at = "fetching" /\ Prompt
    /\ IF release <= proc.current
       THEN /\ status' = [status EXCEPT !.manifest = 0, !.staged = 0,
                             !.available = FALSE, !.ready = FALSE]
            /\ clearing' = clearing \cup {"archive", "meta"}
            /\ Settle
       ELSE IF status.staged = release
       THEN status' = [st EXCEPT !.available = TRUE] /\ Settle /\ UNCHANGED clearing
       ELSE IF status.staged # 0
       THEN /\ status' = [st EXCEPT !.staged = 0]
            /\ Goes("staleArchive")
            /\ UNCHANGED clearing
       ELSE /\ Offers([st EXCEPT !.available = TRUE, !.ready = FALSE])
            /\ UNCHANGED clearing
    /\ UNCHANGED <<others, disk, cleaning, bounds>>

\* A package that another release has overtaken is dropped first, awaited.
DropsStale ==
    /\ \/ /\ job.at = "staleArchive"
          /\ disk' = [disk EXCEPT !.archive = 0]
          /\ Goes("staleMeta") /\ UNCHANGED status
       \/ /\ job.at = "staleMeta"
          /\ disk' = [disk EXCEPT !.meta = 0]
          /\ Offers([status EXCEPT !.available = TRUE, !.ready = FALSE])
    /\ UNCHANGED <<others, removals, bounds>>

(***************************************************************************)
(* apply() (applyStagedUpdate).                                            *)
(***************************************************************************)
First(v) == Min(Package[v])
Later(v, f) == {g \in Package[v] : g > f}

NoNew == [disk EXCEPT !.new = NoFiles]

ApplyEndsFailed ==
    /\ status' = Failed(status)
    /\ Settle

\* 1. The package is unpacked and proved to be what its record says.
Unpacks ==
    /\ job.at = "unpacking" /\ Prompt /\ disk.archive = job.v
    /\ job' = [job EXCEPT !.at = "preparing", !.f = First(job.v)]
    /\ UNCHANGED <<others, disk, status, removals, bounds>>

UnpackFails ==
    /\ job.at = "unpacking"
    /\ IF disk.archive = job.v THEN Fails ELSE UNCHANGED failures
    /\ ApplyEndsFailed
    /\ UNCHANGED <<others, disk, removals, crashes, clicks>>

\* Phase at goes on with the next file, or phase next begins.
Onward(at, next) ==
    IF Later(job.v, job.f) = {}
    THEN [job EXCEPT !.at = next, !.f = First(job.v)]
    ELSE [job EXCEPT !.at = at, !.f = Min(Later(job.v, job.f))]

\* 2. Its files are moved next to the installed ones, under new names.
Prepares ==
    /\ job.at = "preparing"
    /\ disk' = [disk EXCEPT !.new[job.f] = job.v]
    /\ job' = Onward("preparing", "movingAside")
    /\ UNCHANGED <<others, status, removals, bounds>>

PrepareFails ==
    /\ job.at = "preparing" /\ Fails
    /\ disk' = NoNew
    /\ ApplyEndsFailed
    /\ UNCHANGED <<others, removals, crashes, clicks>>

\* 3. File by file, what is there is moved aside, if anything is, and the new
\* one takes its place.
MovesAside ==
    LET f == job.f IN
    /\ job.at = "movingAside"
    /\ disk' = [disk EXCEPT !.old[f] = disk.target[f], !.target[f] = 0]
    /\ job' = [job EXCEPT !.at = "movingIn",
                  !.moved = IF disk.target[f] # 0 THEN @ \cup {f} ELSE @]
    /\ UNCHANGED <<others, status, removals, bounds>>

MovesIn ==
    LET f == job.f IN
    /\ job.at = "movingIn" /\ disk.new[f] # 0
    /\ disk' = [disk EXCEPT !.target[f] = disk.new[f], !.new[f] = 0]
    /\ job' = [Onward("movingAside", "droppingArchive") EXCEPT
                  !.added = IF f \in job.moved THEN @ ELSE @ \cup {f}]
    /\ UNCHANGED <<others, status, removals, bounds>>

SwapFails ==
    /\ job.at \in {"movingAside", "movingIn"}
    /\ IF job.at = "movingIn" /\ disk.new[job.f] = 0 THEN UNCHANGED failures
                                                     ELSE Fails
    /\ Goes("restoring")
    /\ UNCHANGED <<others, disk, status, removals, crashes, clicks>>

\* The files that were moved aside come back, last first.
Restores ==
    LET f == Max(job.moved) IN
    /\ job.moved # {}
    /\ \/ /\ job.at = "restoring"
          /\ disk' = [disk EXCEPT !.target[f] = 0]
          /\ Goes("movingBack")
       \/ /\ job.at = "movingBack"
          /\ disk' = [disk EXCEPT !.target[f] = disk.old[f], !.old[f] = 0]
          /\ job' = [job EXCEPT !.at = "restoring", !.moved = @ \ {f}]
    /\ UNCHANGED <<others, status, removals, bounds>>

\* What was moved aside cannot be moved back, which nobody hears of.
RestoreFails ==
    /\ job.at = "movingBack" /\ Fails
    /\ job' = [job EXCEPT !.at = "restoring", !.moved = @ \ {Max(job.moved)}]
    /\ torn' = TRUE
    /\ UNCHANGED <<release, proc, settings, mode, disk, status, removals, crashes,
                   clicks>>

\* Mutation: what the package added stays.
UndoneButAdded(d) == [d EXCEPT !.new = NoFiles]

\* What the package added goes, and what it did not come to install.
Undone(d) ==
    [d EXCEPT !.new = NoFiles,
              !.target = [f \in Files |-> IF f \in job.added THEN 0 ELSE @[f]]]

RolledBack ==
    /\ job.at = "restoring" /\ job.moved = {}
    /\ disk' = Undone(disk)
    /\ ApplyEndsFailed
    /\ UNCHANGED <<others, removals, bounds>>

\* 4. The package is dropped and the new version recorded; a restart finishes it.
DropsPackage ==
    /\ \/ /\ job.at = "droppingArchive"
          /\ disk' = [disk EXCEPT !.archive = 0]
          /\ Goes("droppingMeta")
       \/ /\ job.at = "droppingMeta"
          /\ disk' = [disk EXCEPT !.meta = 0]
          /\ Goes("marking")
    /\ UNCHANGED <<others, status, removals, bounds>>

Applied ==
    LET st == [status EXCEPT !.staged = 0, !.ready = FALSE, !.applied = job.v,
                             !.pending = job.v # proc.current, !.unmarked = 0] IN
    /\ job.at = "marking"
    /\ disk' = [disk EXCEPT !.applied = job.v]
    /\ Settle
    /\ torn' = FALSE
    /\ IF settings.restart /\ st.pending
       THEN Restarts(st)
       ELSE status' = st /\ UNCHANGED proc
    /\ UNCHANGED <<release, settings, mode, removals, bounds>>

\* The marker cannot be written: the files are in place and the package is
\* gone, and a failure is reported as if neither were so.
MarkFails ==
    /\ job.at = "marking" /\ Fails
    /\ status' = [Failed(status) EXCEPT !.unmarked = job.v]
    /\ Settle
    /\ torn' = FALSE
    /\ UNCHANGED <<release, proc, settings, mode, disk, removals, crashes, clicks>>

(***************************************************************************)
(* The timer and the user.                                                 *)
(***************************************************************************)
Fetching(auto) == [NoJob EXCEPT !.at = "fetching", !.auto = auto]

Tick ==
    /\ Up /\ settings.auto /\ MayCheck
    /\ job' = Fetching(TRUE)
    /\ UNCHANGED <<others, disk, status, removals, bounds>>

Click == Up /\ Prompt /\ clicks < MaxClicks /\ clicks' = clicks + 1

ClickCheck ==
    /\ Click /\ MayCheck
    /\ job' = Fetching(FALSE)
    /\ UNCHANGED <<others, disk, status, removals, failures, crashes>>

ClickDownload ==
    /\ Click /\ Idle /\ MayDownload(status)
    /\ "staleClient" \in Env \/ ~ status.pending
    /\ job' = Downloading(status)
    /\ UNCHANGED <<others, disk, status, removals, failures, crashes>>

ClickInstall ==
    /\ Click /\ Idle /\ MayApply(status)
    /\ job' = Applying(status)
    /\ UNCHANGED <<others, disk, status, removals, failures, crashes>>

ClickRestart ==
    /\ Click
    /\ Restarts(status)
    /\ UNCHANGED <<release, settings, mode, torn, disk, job, removals, failures,
                   crashes>>

\* setAuto(): turning it on checks right away.
SetAuto ==
    /\ Click
    /\ settings' = [settings EXCEPT !.auto = ~ @]
    /\ job' = IF ~ settings.auto /\ MayCheck THEN Fetching(TRUE) ELSE job
    /\ UNCHANGED <<release, proc, mode, torn, disk, status, removals, failures,
                   crashes>>

\* setAutoRestart(): turning it on restarts into what is installed.
SetAutoRestart ==
    /\ Click
    /\ settings' = [settings EXCEPT !.restart = ~ @]
    /\ IF ~ settings.restart /\ status.pending
       THEN Restarts(status) ELSE UNCHANGED <<status, proc>>
    /\ UNCHANGED <<release, mode, torn, disk, job, removals, failures, crashes>>

Publish ==
    /\ release < MaxVersion
    /\ release' = release + 1
    /\ UNCHANGED <<proc, settings, mode, torn, disk, status, job, removals, bounds>>

(***************************************************************************)
(* The specification.                                                      *)
(***************************************************************************)
\* Version 1 has been installed and started by hand.
Init ==
    /\ release = 1 /\ mode \in Modes
    /\ disk = [target |-> Installed(1), new |-> NoFiles, old |-> NoFiles,
               archive |-> 0, meta |-> 0, applied |-> 0]
    /\ proc = [st |-> "up", current |-> 1, restarts |-> 0, promise |-> 0]
    /\ status = Reconciled(disk, 1)
    /\ settings \in [auto : BOOLEAN, restart : BOOLEAN]
    /\ job = NoJob /\ clearing = {} /\ cleaning = {}
    /\ failures = 0 /\ crashes = 0 /\ clicks = 0 /\ torn = FALSE

\* What a live process goes on with by itself.
JobStep ==
    \/ FetchAnswers \/ DropsStale \/ Stages \/ Staged
    \/ Unpacks \/ Prepares \/ MovesAside \/ MovesIn \/ Restores \/ RolledBack
    \/ DropsPackage \/ Applied
    \/ UnpackFails \/ SwapFails
Mishap ==
    \/ FetchFails \/ DownloadFails \/ PrepareFails \/ RestoreFails \/ MarkFails
    \/ HandOverFails \/ Crash
Removal ==
    \/ \E e \in clearing : Cleared(e)
    \/ \E e \in cleaning : Cleaned(e)
UserStep ==
    \/ ClickCheck \/ ClickDownload \/ ClickInstall \/ ClickRestart
    \/ SetAuto \/ SetAutoRestart \/ OperatorStarts \/ Stop

Next ==
    \/ JobStep \/ Mishap \/ Removal \/ UserStep
    \/ Tick \/ HandsOver \/ SuccessorStarts \/ Stopped \/ Publish

Spec == Init /\ [][Next]_vars

\* Requests and file operations return (timeouts bound both), the timer goes on
\* firing, a shutdown is through in the end, and what was started starts.
Fairness ==
    /\ WF_vars(JobStep) /\ WF_vars(Removal) /\ WF_vars(Tick)
    /\ WF_vars(HandsOver) /\ WF_vars(SuccessorStarts) /\ WF_vars(Stopped)

FairSpec == Spec /\ Fairness

(***************************************************************************)
(* Properties.                                                             *)
(***************************************************************************)
AnyVersion == 0 .. MaxVersion
Ats == {"none", "fetching", "staleArchive", "staleMeta", "downloading",
        "dropArchive", "dropMeta", "place", "record", "unpacking", "preparing",
        "movingAside", "movingIn", "restoring", "movingBack", "droppingArchive",
        "droppingMeta", "marking"}

TypeOK ==
    /\ release \in Versions /\ mode \in Modes /\ torn \in BOOLEAN
    /\ disk \in [target : [Files -> AnyVersion], new : [Files -> AnyVersion],
                 old : [Files -> AnyVersion], archive : AnyVersion,
                 meta : AnyVersion, applied : AnyVersion]
    /\ proc \in [st : {"up", "draining", "down", "starting"}, current : AnyVersion,
                 restarts : Nat, promise : AnyVersion]
    /\ status \in [manifest : AnyVersion, staged : AnyVersion, available : BOOLEAN,
                   ready : BOOLEAN, applied : AnyVersion, pending : BOOLEAN,
                   restarting : BOOLEAN, unmarked : AnyVersion]
    /\ job \in [at : Ats, v : AnyVersion, auto : BOOLEAN, f : Files \cup {0},
                moved : SUBSET Files, added : SUBSET Files]
    /\ settings \in [auto : BOOLEAN, restart : BOOLEAN]
    /\ clearing \subseteq Staging /\ cleaning \subseteq {"new", "old"} \X Files
    /\ failures \in 0 .. MaxFailures /\ crashes \in 0 .. MaxCrashes
    /\ clicks \in 0 .. MaxClicks

Swapping == job.at \in {"movingAside", "movingIn", "restoring", "movingBack"}

\* The version that should be installed while none is pending: the one that
\* runs, unless the marker of a newer one could not be written.
Base == IF status.unmarked # 0 THEN status.unmarked ELSE proc.current

\* What is installed is one version, all of its files and no other's: whatever
\* step of an update fails but the way back from a failure, and wherever a
\* process dies but in the middle of the swap itself.  It is the version the
\* process runs, the newer one it says a restart brings, or one it could not
\* record (install.ts, applyStagedUpdate).
InstallationIsWhole ==
    /\ TypeOK
    /\ ~ torn /\ ~ Swapping => Whole
    /\ Alive /\ ~ Swapping /\ ~ torn
       /\ job.at \notin {"droppingArchive", "droppingMeta", "marking"} =>
         disk.target[1] = IF status.pending THEN status.applied ELSE Base

\* The user is offered what is there: a package that is ready is newer than what
\* runs and on disk with its record, or has been installed and could not be
\* recorded; a restart that is promised brings a newer version; only that is
\* restarted for, and once (service.ts, status, #reconcile, restart).
StatusIsTrue ==
    Alive =>
      /\ status.ready /\ job.at \notin {"staleArchive", "staleMeta",
                                       "droppingArchive", "droppingMeta", "marking"} =>
           /\ status.staged > proc.current
           /\ \/ disk.archive = status.staged /\ disk.meta = status.staged
              \/ status.unmarked = status.staged
      /\ status.staged # 0 => status.ready
      /\ status.pending => status.applied > proc.current
      /\ status.restarting => status.pending /\ mode # "none"
      /\ proc.restarts = IF status.restarting THEN 1 ELSE 0

\* The successor is the version that was installed when it was promised.
PromisesAreKept ==
    [][proc.promise # 0 /\ proc'.st = "up" => proc'.current = proc.promise]_vars

\* A restart hands over to the version that was installed, and it serves
\* again (service.ts, restart, #performRestart).
RestartsHandOver ==
    /\ PromisesAreKept
    /\ (proc.promise # 0) ~> Up

\* With automatic updates and restarts on, the newest release runs in the end or
\* is ready to install and on disk, whatever older package was staged or failed
\* to install; unless the server is stopped or broken, or could not record that
\* it has installed it (service.ts, check, download, apply).
UpdatesArrive ==
    []<>( \/ ~ settings.auto \/ ~ Alive
          \/ proc.current = release \/ status.unmarked = release
          \/ status.ready /\ status.staged = release /\ disk.archive = release
          \/ status.pending /\ (~ settings.restart \/ mode = "none") )

\* "In auto mode ... an available update is downloaded and applied right away"
\* (service.ts:345-347): also one that was staged before.
StagedIsApplied ==
    []<>(~ settings.auto \/ ~ Alive \/ ~ status.ready)

\* "on any failure the previous files are restored ... (the staged package is
\* kept, so a retry is possible)" (install.ts:138-141).
FailedAppliesRestore ==
    Alive /\ Idle /\ ~ status.pending /\ ~ torn => disk.target[1] = proc.current

ReadyCanBeRetried == Alive /\ Idle /\ status.ready => disk.archive = status.staged

\* "(previous files were restored)", as a failed swap is reported (install.ts
\* :268-270): a file that was moved aside is back.
RollbacksRestore ==
    [][job.at = "movingBack" /\ job'.at = "restoring" =>
         disk'.target[Max(job.moved)] # 0]_vars

\* A server that was told to stop does not come back by itself.
StopIsFinal == [][proc.st = "draining" => proc'.st # "starting"]_vars

\* "a new binary with old assets is recoverable on its own" (install.ts:209-211):
\* what a crash tore is mended at the next start.
TearsMend == []<>(Whole \/ Swapping)
=============================================================================
