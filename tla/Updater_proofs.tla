---------------------------- MODULE Updater_proofs ----------------------------
(***************************************************************************)
(* What holds of the updater for any number of versions, any packages that *)
(* only grow, and any number of failures and crashes: an installation is   *)
(* one version, whole, and a status is true.                               *)
(***************************************************************************)
EXTENDS Updater, FiniteSetTheorems, WellFoundedInduction, TLAPS

DiskSet == [target : [Files -> AnyVersion], new : [Files -> AnyVersion],
            old : [Files -> AnyVersion], archive : AnyVersion,
            meta : AnyVersion, applied : AnyVersion]
ProcSet == [st : {"up", "draining", "down", "starting"}, current : AnyVersion,
            restarts : Nat, promise : AnyVersion]
StatusSet == [manifest : AnyVersion, staged : AnyVersion, available : BOOLEAN,
              ready : BOOLEAN, applied : AnyVersion, pending : BOOLEAN,
              restarting : BOOLEAN, unmarked : AnyVersion]
JobSet == [at : Ats, v : AnyVersion, auto : BOOLEAN, f : Files \cup {0},
           moved : SUBSET Files, added : SUBSET Files]

(***************************************************************************)
(* The invariant.                                                          *)
(***************************************************************************)
Fetchings == {"fetching", "staleArchive", "staleMeta"}
Stagings  == {"downloading", "dropArchive", "dropMeta", "place", "record"}
Swappings == {"movingAside", "movingIn", "restoring", "movingBack"}
Finishes  == {"droppingArchive", "droppingMeta", "marking"}
Installs  == {"preparing"} \cup Swappings \cup Finishes

\* A process that is gone left nothing but what is on disk.
GoneIsGone ==
    ~ Alive => /\ job = NoJob /\ clearing = {} /\ cleaning = {}
               /\ status.manifest = 0 /\ status.staged = 0 /\ ~ status.ready
               /\ ~ status.pending /\ proc.current = 0

\* Versions only grow: from the one that runs over the one that is staged to
\* the one that is published.
VersionsGrow ==
    /\ Alive => proc.current # 0
    /\ {status.manifest, status.staged, disk.meta, job.v, status.unmarked}
         \subseteq 0 .. release
    /\ \A x \in {status.manifest, status.staged, job.v} :
         x # 0 => proc.current < x /\ status.unmarked <= x
    /\ status.staged # 0 =>
         /\ status.ready
         /\ status.manifest # 0 => status.staged <= status.manifest
         /\ disk.meta # 0 => status.staged <= disk.meta

\* What the job is about, in each of its phases.
JobIsOf ==
    /\ job.at \in {"none"} \cup Fetchings => job.v = 0
    /\ job.at \in {"staleArchive", "staleMeta"} \cup Stagings => status.staged = 0
    /\ job.at \in Stagings => job.v # 0 /\ job.v = status.manifest
    /\ job.at \in {"unpacking"} \cup Installs =>
         job.v # 0 /\ job.v = status.staged /\ ~ status.pending
    /\ job.at \in Installs =>
         /\ clearing = {} /\ cleaning = {} /\ disk.applied = 0
         /\ job.f \in Package[job.v] /\ job.moved \cup job.added \subseteq Package[job.v]
    /\ job.at \notin Installs \/ job.at = "preparing" => job.moved = {} /\ job.added = {}

\* Every version that can still be installed has a place for each file that is.
Fits(v) == \A g \in Files : disk.target[g] # 0 => g \in Package[v]
NextFits ==
    \A x \in {release, status.manifest, status.staged, disk.meta, job.v} :
      x # 0 => Fits(x)

\* The way forward: the files before f are of the new version, the others wait.
Forward ==
    LET v == job.v  f == job.f IN
    /\ job.at = "preparing" => \A g \in Package[v] : g < f => disk.new[g] = v
    /\ job.at \in {"movingAside", "movingIn"} =>
         \A g \in Package[v] : IF g < f THEN disk.target[g] = v
                                        ELSE disk.new[g] = v
    /\ job.at = "movingIn" => disk.target[f] = 0
    /\ job.at \in Finishes => disk.target = Installed(v)

\* The way back to the version that was installed: what was moved aside is kept, what was
\* added is known, and the rest is as it was.
Back ==
    LET u == Base IN
    job.at \in Swappings /\ ~ torn =>
      /\ \A g \in job.moved : g \in Package[u] /\ disk.old[g] = u
      /\ \A g \in job.added : g \notin Package[u]
      /\ \A g \in Files \ (job.moved \cup job.added) :
           disk.target[g] = Installed(u)[g]
      /\ job.at = "movingAside" =>
           \A g \in Package[job.v] : g >= job.f => g \notin job.moved \cup job.added
      /\ job.at = "movingIn" =>
           /\ \A g \in Package[job.v] : g > job.f => g \notin job.moved \cup job.added
           /\ job.f \notin job.added

\* At rest, what is installed is the version that runs, that is pending, or that
\* could not be recorded.
Rest ==
    job.at \notin Swappings \cup Finishes /\ ~ torn =>
      /\ disk.target[1] # 0 /\ disk.target = Installed(disk.target[1])
      /\ Alive => disk.target[1] = IF status.pending THEN status.applied
                                                     ELSE Base

\* The mark of an applied version is of the one that is installed, until the
\* process that runs it has removed it.
MarkIsTrue ==
    disk.applied # 0 =>
      /\ ~ torn /\ disk.target = Installed(disk.applied)
      /\ Alive => status.pending \/ "applied" \in clearing

Shape == GoneIsGone /\ VersionsGrow /\ JobIsOf
InstallInv == TypeOK /\ Shape /\ NextFits /\ Forward /\ Back /\ Rest /\ MarkIsTrue

\* A package that is ready stays on disk until it is dropped, replaced or
\* installed, and nothing that was asked to be removed is it.
PackageStays ==
    /\ status.ready /\ job.at \notin {"staleArchive", "staleMeta"} \cup Finishes =>
         /\ status.staged # 0
         /\ \/ disk.archive = status.staged /\ disk.meta = status.staged
            \/ status.unmarked = status.staged
    /\ status.ready => clearing = {}
    /\ job.at \in Stagings => ~ status.ready
    /\ job.at \in Stagings \ {"downloading"} => clearing = {}
    /\ job.at = "record" => disk.archive = job.v
    /\ job.at \in {"place", "record"} => disk.meta = 0
    /\ disk.archive # 0 /\ disk.meta # 0 => disk.archive = disk.meta
    /\ disk.applied # 0 \/ job.at \in {"droppingMeta", "marking"} => disk.archive = 0

\* A restart is for what is installed, and there is one.
RestartIsDue ==
    /\ status.pending => Idle /\ status.applied > proc.current
    /\ status.restarting => status.pending /\ mode # "none"
    /\ proc.restarts = IF status.restarting THEN 1 ELSE 0

StatusInv == InstallInv /\ PackageStays /\ RestartIsDue

(***************************************************************************)
(* Versions, packages and their files.                                     *)
(***************************************************************************)
LEMMA PackagesAre ==
  /\ MaxVersion \in Nat /\ Versions \subseteq AnyVersion /\ 0 \in AnyVersion
  /\ Versions \subseteq Nat /\ AnyVersion \subseteq Nat
  /\ \A v \in AnyVersion : v # 0 => v \in Versions
  /\ 0 \notin Versions /\ 1 \in Versions
  /\ \A v \in Versions : /\ Package[v] \subseteq Files /\ 1 \in Package[v]
                         /\ Package[v] \subseteq Nat \ {0}
  /\ \A v, w \in Versions : v <= w => Package[v] \subseteq Package[w]
  /\ Files \subseteq Nat \ {0} /\ 1 \in Files /\ IsFiniteSet(Files)
<1>1. /\ MaxVersion \in Nat /\ Versions \subseteq AnyVersion /\ 0 \in AnyVersion
      /\ Versions \subseteq Nat /\ AnyVersion \subseteq Nat
      /\ \A v \in AnyVersion : v # 0 => v \in Versions
      /\ 0 \notin Versions /\ 1 \in Versions
  BY UpdaterAssumption DEF UpdaterAssumption, Versions, AnyVersion
<1>2. \A v \in Versions : /\ Package[v] \subseteq Files /\ 1 \in Package[v]
                          /\ Package[v] \subseteq Nat \ {0}
  BY UpdaterAssumption DEF UpdaterAssumption, Files
<1>3. \A v, w \in Versions : v <= w => Package[v] \subseteq Package[w]
  <2>1. \A v, w \in Versions : v < w => Package[v] \subseteq Package[w]
    BY UpdaterAssumption DEF UpdaterAssumption
  <2>2. \A v, w \in Versions : v <= w => v < w \/ v = w
    BY <1>1
  <2>3. QED BY <2>1, <2>2
<1>4. Files \subseteq Nat \ {0} /\ IsFiniteSet(Files)
  BY <1>2, UpdaterAssumption DEF UpdaterAssumption, Files
<1>5. 1 \in Files
  BY <1>1, <1>2
<1>6. QED BY <1>1, <1>2, <1>3, <1>4, <1>5

LEMMA InstalledIs ==
  ASSUME NEW v \in Versions
  PROVE  /\ Installed(v) \in [Files -> AnyVersion] /\ Installed(v)[1] = v
         /\ \A g \in Files : Installed(v)[g] = IF g \in Package[v] THEN v ELSE 0
         /\ \A g \in Files : Installed(v)[g] # 0 <=> g \in Package[v]
BY PackagesAre DEF Installed

LEMMA LeastIs ==
  ASSUME NEW S \in SUBSET Nat, S # {}
  PROVE  Min(S) \in S /\ \A y \in S : Min(S) <= y
<1>1. PICK x \in S : \A y \in S : ~ (<<y, x>> \in OpToRel(<, Nat))
  BY NatLessThanWellFounded, WFMin
<1>2. \A y \in S : ~ (y < x)
  BY <1>1 DEF OpToRel
<1>3. \A y \in S : x <= y
  BY <1>2
<1>4. QED BY <1>3 DEF Min

\* A finite set of numbers has a last one: take the smallest that had none.
LEMMA LastIs ==
  ASSUME NEW S \in SUBSET Files, S # {}
  PROVE  Max(S) \in S
<1> DEFINE Last(T) == \E x \in T : \A y \in T : x >= y
           sizes == {n \in Nat : \E T \in SUBSET Files :
                       T # {} /\ Cardinality(T) = n /\ ~ Last(T)}
<1>1. ASSUME sizes # {} PROVE FALSE
  <2>1. PICK n \in sizes : \A m \in sizes : n <= m
    BY <1>1, LeastIs
  <2>2. PICK T \in SUBSET Files : T # {} /\ Cardinality(T) = n /\ ~ Last(T)
    BY <2>1
  <2>3. PICK x \in T : TRUE
    BY <2>2
  <2>4. IsFiniteSet(T) /\ T \subseteq Nat /\ n \in Nat
    BY PackagesAre, FS_Subset, <2>1
  <2>5. /\ IsFiniteSet(T \ {x}) /\ Cardinality(T \ {x}) = n - 1
        /\ Cardinality(T \ {x}) \in Nat
    BY <2>2, <2>3, <2>4, FS_RemoveElement, FS_CardinalityType
  <2>6. CASE T \ {x} = {}
    <3>1. T = {x} /\ x \in Nat
      BY <2>3, <2>4, <2>6
    <3>2. Last(T)
      BY <3>1
    <3>3. QED BY <2>2, <3>2
  <2>7. CASE T \ {x} # {}
    <3> DEFINE U == T \ {x}
    <3>1. n - 1 \notin sizes /\ n - 1 \in Nat /\ U \in SUBSET Files
      BY <2>1, <2>4, <2>5
    <3> HIDE DEF Last
    <3>2. Last(U)
      BY <2>5, <2>7, <3>1
    <3> USE DEF Last
    <3>3. PICK z \in U : \A y \in U : z >= y
      BY <3>2
    <3>4. x \in Nat /\ z \in Nat /\ z \in T /\ \A y \in T : y = x \/ y \in U
      BY <2>3, <2>4
    <3>5. Last(T)
      <4>1. CASE z >= x
        BY <3>3, <3>4, <4>1
      <4>2. CASE x > z
        <5>1. \A y \in T : y \in Nat /\ x >= y
          BY <2>4, <3>3, <3>4, <4>2
        <5>2. QED BY <2>3, <5>1
      <4>3. QED BY <3>4, <4>1, <4>2
    <3>6. QED BY <2>2, <3>5
  <2>8. QED BY <2>6, <2>7
<1>2. IsFiniteSet(S) /\ Cardinality(S) \in Nat
  BY PackagesAre, FS_Subset, FS_CardinalityType
<1>3. Last(S)
  BY <1>1, <1>2
<1>4. QED BY <1>3 DEF Max

LEMMA FirstIs ==
  ASSUME NEW v \in Versions
  PROVE  First(v) \in Package[v] /\ \A g \in Package[v] : First(v) <= g
BY PackagesAre, LeastIs DEF First

\* A phase goes on with the next file of the package, or it is through.
LEMMA OnwardIs ==
  ASSUME NEW at, NEW next, job.v \in Versions, job.f \in Package[job.v]
  PROVE  \/ /\ Onward(at, next) = [job EXCEPT !.at = next, !.f = First(job.v)]
            /\ \A g \in Package[job.v] : g <= job.f
         \/ \E h \in Package[job.v] :
              /\ Onward(at, next) = [job EXCEPT !.at = at, !.f = h]
              /\ job.f < h /\ \A g \in Package[job.v] : g < h <=> g <= job.f
<1> DEFINE L == Later(job.v, job.f)
<1>1. Package[job.v] \subseteq Nat
  BY PackagesAre
<1>2. CASE L = {}
  <2>1. \A g \in Package[job.v] : ~ (g > job.f)
    BY <1>2 DEF Later
  <2>2. \A g \in Package[job.v] : g <= job.f
    BY <1>1, <2>1
  <2>3. QED BY <1>2, <2>2 DEF Onward
<1>3. CASE L # {}
  <2>1. L \in SUBSET Nat
    BY <1>1 DEF Later
  <2>2. Min(L) \in L /\ \A y \in L : Min(L) <= y
    BY <1>3, <2>1, LeastIs
  <2> DEFINE h == Min(L)
  <2> HIDE DEF h
  <2>3. h \in L /\ \A y \in L : h <= y
    BY <2>2 DEF h
  <2>4. h \in Package[job.v] /\ h > job.f
    BY <2>3 DEF Later
  <2>5. \A g \in Package[job.v] : g < h <=> g <= job.f
    BY <1>1, <2>3, <2>4 DEF Later
  <2>6. Onward(at, next) = [job EXCEPT !.at = at, !.f = h]
    BY <1>3 DEF Onward, h
  <2>7. job.f < h
    BY <1>1, <2>4
  <2>8. QED BY <2>4, <2>5, <2>6, <2>7
<1>4. QED BY <1>2, <1>3

LEMMA TypesAre ==
  TypeOK <=>
    /\ release \in Versions /\ mode \in Modes /\ torn \in BOOLEAN
    /\ disk \in DiskSet /\ proc \in ProcSet /\ status \in StatusSet /\ job \in JobSet
    /\ settings \in [auto : BOOLEAN, restart : BOOLEAN]
    /\ clearing \subseteq Staging /\ cleaning \subseteq {"new", "old"} \X Files
    /\ failures \in 0 .. MaxFailures /\ crashes \in 0 .. MaxCrashes
    /\ clicks \in 0 .. MaxClicks
BY DEF TypeOK, DiskSet, ProcSet, StatusSet, JobSet

LEMMA TypesAreNext ==
  ASSUME release' \in Versions, mode' \in Modes, torn' \in BOOLEAN,
         disk' \in DiskSet, proc' \in ProcSet, status' \in StatusSet, job' \in JobSet,
         settings' \in [auto : BOOLEAN, restart : BOOLEAN],
         clearing' \subseteq Staging, cleaning' \subseteq {"new", "old"} \X Files,
         failures' \in 0 .. MaxFailures, crashes' \in 0 .. MaxCrashes,
         clicks' \in 0 .. MaxClicks
  PROVE  TypeOK'
BY DEF TypeOK, DiskSet, ProcSet, StatusSet, JobSet

(***************************************************************************)
(* What a step does to the disk.                                           *)
(***************************************************************************)
SameFiles == /\ disk'.target = disk.target /\ disk'.new = disk.new
             /\ disk'.old = disk.old
SameStaging == /\ disk'.archive = disk.archive /\ disk'.meta = disk.meta
               /\ disk'.applied = disk.applied

\* A write to the staging area.
LEMMA StagingIs ==
  ASSUME disk \in DiskSet, NEW x \in AnyVersion
  PROVE  /\ [disk EXCEPT !.archive = x] \in DiskSet
         /\ [disk EXCEPT !.meta = x] \in DiskSet
         /\ [disk EXCEPT !.applied = x] \in DiskSet
BY DEF DiskSet

LEMMA StagesDo ==
  ASSUME disk \in DiskSet, NEW x \in AnyVersion
  PROVE  /\ disk' = [disk EXCEPT !.archive = x] =>
              /\ disk' \in DiskSet /\ SameFiles /\ disk'.archive = x
              /\ disk'.meta = disk.meta /\ disk'.applied = disk.applied
         /\ disk' = [disk EXCEPT !.meta = x] =>
              /\ disk' \in DiskSet /\ SameFiles /\ disk'.meta = x
              /\ disk'.archive = disk.archive /\ disk'.applied = disk.applied
         /\ disk' = [disk EXCEPT !.applied = x] =>
              /\ disk' \in DiskSet /\ SameFiles /\ disk'.applied = x
              /\ disk'.archive = disk.archive /\ disk'.meta = disk.meta
BY DEF DiskSet, SameFiles

LEMMA ClearedDoes ==
  ASSUME disk \in DiskSet, NEW e \in Staging, disk' = [disk EXCEPT ![e] = 0]
  PROVE  /\ disk' \in DiskSet /\ SameFiles
         /\ disk'.archive = IF e = "archive" THEN 0 ELSE disk.archive
         /\ disk'.meta = IF e = "meta" THEN 0 ELSE disk.meta
         /\ disk'.applied = IF e = "applied" THEN 0 ELSE disk.applied
<1>1. 0 \in AnyVersion
  BY PackagesAre
<1>2. CASE e = "archive"
  BY <1>1, <1>2, StagesDo
<1>3. CASE e = "meta"
  BY <1>1, <1>3, StagesDo
<1>4. CASE e = "applied"
  BY <1>1, <1>4, StagesDo
<1>5. QED BY <1>2, <1>3, <1>4 DEF Staging

LEMMA PreparesDo ==
  ASSUME disk \in DiskSet, NEW f \in Files, NEW x \in AnyVersion,
         disk' = [disk EXCEPT !.new[f] = x]
  PROVE  /\ disk' \in DiskSet /\ SameStaging
         /\ disk'.target = disk.target /\ disk'.old = disk.old
         /\ disk'.new[f] = x /\ \A g \in Files : g # f => disk'.new[g] = disk.new[g]
<1> DEFINE new == [disk.new EXCEPT ![f] = x]
<1>1. new \in [Files -> AnyVersion] /\ new[f] = x
      /\ \A g \in Files : g # f => new[g] = disk.new[g]
  BY DEF DiskSet
<1>2. disk' = [disk EXCEPT !.new = new]
  BY DEF DiskSet
<1> HIDE DEF new
<1>3. disk' \in DiskSet /\ SameStaging /\ disk'.new = new
      /\ disk'.target = disk.target /\ disk'.old = disk.old
  BY <1>1, <1>2 DEF DiskSet, SameStaging
<1>4. QED BY <1>1, <1>3

\* A file is removed from its place.
LEMMA RemovesDo ==
  ASSUME disk \in DiskSet, NEW f \in Files, disk' = [disk EXCEPT !.target[f] = 0]
  PROVE  /\ disk' \in DiskSet /\ SameStaging
         /\ disk'.new = disk.new /\ disk'.old = disk.old
         /\ disk'.target[f] = 0
         /\ \A g \in Files : g # f => disk'.target[g] = disk.target[g]
<1> DEFINE new == [disk.target EXCEPT ![f] = 0]
<1>1. new \in [Files -> AnyVersion] /\ new[f] = 0
      /\ \A g \in Files : g # f => new[g] = disk.target[g]
  BY PackagesAre DEF DiskSet
<1>2. disk' = [disk EXCEPT !.target = new]
  BY DEF DiskSet
<1> HIDE DEF new
<1>3. disk' \in DiskSet /\ SameStaging /\ disk'.target = new
      /\ disk'.new = disk.new /\ disk'.old = disk.old
  BY <1>1, <1>2 DEF DiskSet, SameStaging
<1>4. QED BY <1>1, <1>3

\* A file is moved aside, in, or back.
LEMMA MovesAsideDo ==
  ASSUME disk \in DiskSet, NEW f \in Files,
         disk' = [disk EXCEPT !.old[f] = disk.target[f], !.target[f] = 0]
  PROVE  /\ disk' \in DiskSet /\ SameStaging /\ disk'.new = disk.new
         /\ disk'.target[f] = 0 /\ disk'.old[f] = disk.target[f]
         /\ \A g \in Files : g # f => /\ disk'.target[g] = disk.target[g]
                                      /\ disk'.old[g] = disk.old[g]
<1> DEFINE there == [disk.target EXCEPT ![f] = 0]
           kept  == [disk.old EXCEPT ![f] = disk.target[f]]
<1>1. there \in [Files -> AnyVersion] /\ there[f] = 0
      /\ \A g \in Files : g # f => there[g] = disk.target[g]
  BY PackagesAre DEF DiskSet
<1>2. kept \in [Files -> AnyVersion] /\ kept[f] = disk.target[f]
      /\ \A g \in Files : g # f => kept[g] = disk.old[g]
  BY DEF DiskSet
<1>3. disk' = [disk EXCEPT !.old = kept, !.target = there]
  BY DEF DiskSet
<1> HIDE DEF there, kept
<1>4. disk' \in DiskSet /\ SameStaging /\ disk'.new = disk.new
      /\ disk'.target = there /\ disk'.old = kept
  BY <1>1, <1>2, <1>3 DEF DiskSet, SameStaging
<1>5. QED BY <1>1, <1>2, <1>4

LEMMA MovesInDo ==
  ASSUME disk \in DiskSet, NEW f \in Files,
         disk' = [disk EXCEPT !.target[f] = disk.new[f], !.new[f] = 0]
  PROVE  /\ disk' \in DiskSet /\ SameStaging /\ disk'.old = disk.old
         /\ disk'.target[f] = disk.new[f] /\ disk'.new[f] = 0
         /\ \A g \in Files : g # f => /\ disk'.target[g] = disk.target[g]
                                      /\ disk'.new[g] = disk.new[g]
<1> DEFINE there == [disk.target EXCEPT ![f] = disk.new[f]]
           fresh == [disk.new EXCEPT ![f] = 0]
<1>1. there \in [Files -> AnyVersion] /\ there[f] = disk.new[f]
      /\ \A g \in Files : g # f => there[g] = disk.target[g]
  BY DEF DiskSet
<1>2. fresh \in [Files -> AnyVersion] /\ fresh[f] = 0
      /\ \A g \in Files : g # f => fresh[g] = disk.new[g]
  BY PackagesAre DEF DiskSet
<1>3. disk' = [disk EXCEPT !.target = there, !.new = fresh]
  BY DEF DiskSet
<1> HIDE DEF there, fresh
<1>4. disk' \in DiskSet /\ SameStaging /\ disk'.old = disk.old
      /\ disk'.target = there /\ disk'.new = fresh
  BY <1>1, <1>2, <1>3 DEF DiskSet, SameStaging
<1>5. QED BY <1>1, <1>2, <1>4

LEMMA MovesBackDo ==
  ASSUME disk \in DiskSet, NEW f \in Files,
         disk' = [disk EXCEPT !.target[f] = disk.old[f], !.old[f] = 0]
  PROVE  /\ disk' \in DiskSet /\ SameStaging /\ disk'.new = disk.new
         /\ disk'.target[f] = disk.old[f] /\ disk'.old[f] = 0
         /\ \A g \in Files : g # f => /\ disk'.target[g] = disk.target[g]
                                      /\ disk'.old[g] = disk.old[g]
<1> DEFINE there == [disk.target EXCEPT ![f] = disk.old[f]]
           kept  == [disk.old EXCEPT ![f] = 0]
<1>1. there \in [Files -> AnyVersion] /\ there[f] = disk.old[f]
      /\ \A g \in Files : g # f => there[g] = disk.target[g]
  BY DEF DiskSet
<1>2. kept \in [Files -> AnyVersion] /\ kept[f] = 0
      /\ \A g \in Files : g # f => kept[g] = disk.old[g]
  BY PackagesAre DEF DiskSet
<1>3. disk' = [disk EXCEPT !.target = there, !.old = kept]
  BY DEF DiskSet
<1> HIDE DEF there, kept
<1>4. disk' \in DiskSet /\ SameStaging /\ disk'.new = disk.new
      /\ disk'.target = there /\ disk'.old = kept
  BY <1>1, <1>2, <1>3 DEF DiskSet, SameStaging
<1>5. QED BY <1>1, <1>2, <1>4

\* The end of a rollback, and of a preparation that fails.
LEMMA UndoneIs ==
  ASSUME disk \in DiskSet
  PROVE  /\ NoNew \in DiskSet
         /\ disk' = NoNew => /\ SameStaging /\ disk'.target = disk.target
                             /\ disk'.old = disk.old
         /\ Undone(disk) \in DiskSet
         /\ disk' = Undone(disk) =>
              /\ SameStaging
              /\ \A g \in Files : disk'.target[g] =
                   IF g \in job.added THEN 0 ELSE disk.target[g]
<1> DEFINE there == [g \in Files |-> IF g \in job.added THEN 0 ELSE disk.target[g]]
<1>1. NoFiles \in [Files -> AnyVersion]
  BY PackagesAre DEF NoFiles
<1>2. there \in [Files -> AnyVersion]
  BY PackagesAre DEF DiskSet
<1>3. \A g \in Files : there[g] = IF g \in job.added THEN 0 ELSE disk.target[g]
  OBVIOUS
<1>4. Undone(disk) = [disk EXCEPT !.new = NoFiles, !.target = there]
  BY DEF Undone, DiskSet
<1> HIDE DEF there
<1>5. QED BY <1>1, <1>2, <1>3, <1>4 DEF DiskSet, SameStaging, NoNew

\* A leftover goes.
LEMMA CleanedDoes ==
  ASSUME disk \in DiskSet, NEW e \in {"new", "old"} \X Files,
         disk' = [disk EXCEPT ![e[1]][e[2]] = 0]
  PROVE  disk' \in DiskSet /\ SameStaging /\ disk'.target = disk.target
<1>1. PICK k \in {"new", "old"}, f \in Files : e = <<k, f>>
  OBVIOUS
<1> DEFINE less == [disk[k] EXCEPT ![f] = 0]
<1>2. disk[k] \in [Files -> AnyVersion]
  BY <1>1 DEF DiskSet
<1>3. less \in [Files -> AnyVersion]
  BY <1>2, PackagesAre
<1>4. disk' = [disk EXCEPT ![k] = less]
  BY <1>1
<1> HIDE DEF less
<1>5. CASE k = "new"
  BY <1>3, <1>4, <1>5 DEF DiskSet, SameStaging
<1>6. CASE k = "old"
  BY <1>3, <1>4, <1>6 DEF DiskSet, SameStaging
<1>7. QED BY <1>5, <1>6

(***************************************************************************)
(* What a step does to the job and to the status.                          *)
(***************************************************************************)
LEMMA NoJobIs == /\ NoJob \in JobSet /\ NoJob.at = "none" /\ NoJob.v = 0
                 /\ NoJob.moved = {} /\ NoJob.added = {}
BY PackagesAre DEF NoJob, JobSet, Ats

\* A job that begins.
LEMMA BegunIs ==
  ASSUME NEW at \in Ats, NEW x \in AnyVersion, NEW auto \in BOOLEAN,
         NEW j, j = [NoJob EXCEPT !.at = at, !.v = x, !.auto = auto]
  PROVE  j \in JobSet /\ j.at = at /\ j.v = x /\ j.moved = {} /\ j.added = {}
BY NoJobIs DEF JobSet

LEMMA NewJobsAre ==
  ASSUME NEW st \in StatusSet
  PROVE  /\ \A auto \in BOOLEAN :
              /\ Fetching(auto) \in JobSet /\ Fetching(auto).at = "fetching"
              /\ Fetching(auto).v = 0
              /\ Fetching(auto).moved = {} /\ Fetching(auto).added = {}
         /\ Downloading(st) \in JobSet /\ Downloading(st).at = "downloading"
         /\ Downloading(st).v = st.manifest
         /\ Downloading(st).moved = {} /\ Downloading(st).added = {}
         /\ Applying(st) \in JobSet /\ Applying(st).at = "unpacking"
         /\ Applying(st).v = st.staged
         /\ Applying(st).moved = {} /\ Applying(st).added = {}
<1>1. {"fetching", "downloading", "unpacking"} \subseteq Ats
  BY DEF Ats
<1>2. st.manifest \in AnyVersion /\ st.staged \in AnyVersion
  BY DEF StatusSet
<1>3. ASSUME NEW auto \in BOOLEAN
      PROVE  /\ Fetching(auto) \in JobSet /\ Fetching(auto).at = "fetching"
             /\ Fetching(auto).v = 0
             /\ Fetching(auto).moved = {} /\ Fetching(auto).added = {}
  BY <1>1, NoJobIs DEF Fetching, JobSet
<1>4. /\ Downloading(st) \in JobSet /\ Downloading(st).at = "downloading"
      /\ Downloading(st).v = st.manifest
      /\ Downloading(st).moved = {} /\ Downloading(st).added = {}
  BY <1>1, <1>2, NoJobIs DEF Downloading, JobSet
<1>5. /\ Applying(st) \in JobSet /\ Applying(st).at = "unpacking"
      /\ Applying(st).v = st.staged
      /\ Applying(st).moved = {} /\ Applying(st).added = {}
  BY <1>1, <1>2, NoJobIs DEF Applying, JobSet
<1>6. QED BY <1>3, <1>4, <1>5

LEMMA GoesDoes ==
  ASSUME job \in JobSet, NEW at \in Ats, Goes(at)
  PROVE  /\ job' \in JobSet /\ job'.at = at /\ job'.v = job.v /\ job'.f = job.f
         /\ job'.moved = job.moved /\ job'.added = job.added
BY DEF Goes, JobSet

\* Nothing of what is staged or installed is said otherwise.
SameReport ==
    /\ status'.manifest = status.manifest /\ status'.staged = status.staged
    /\ status'.applied = status.applied /\ status'.unmarked = status.unmarked
    /\ (status'.ready <=> status.ready) /\ (status'.pending <=> status.pending)

LEMMA FailedIs ==
  ASSUME NEW st \in StatusSet
  PROVE  /\ Failed(st) \in StatusSet /\ ~ Failed(st).restarting
         /\ Failed(st).manifest = st.manifest /\ Failed(st).staged = st.staged
         /\ Failed(st).applied = st.applied /\ Failed(st).unmarked = st.unmarked
         /\ (Failed(st).ready <=> st.ready) /\ (Failed(st).pending <=> st.pending)
BY DEF Failed, StatusSet

\* The process goes on, with the version it runs.
SameProcess == (Alive' <=> Alive) /\ proc'.current = proc.current

LEMMA RestartsDo ==
  ASSUME NEW st \in StatusSet, proc \in ProcSet, Restarts(st)
  PROVE  /\ status' \in StatusSet /\ proc' \in ProcSet /\ SameProcess
         /\ status'.manifest = st.manifest /\ status'.staged = st.staged
         /\ status'.applied = st.applied /\ status'.unmarked = st.unmarked
         /\ (status'.ready <=> st.ready) /\ (status'.pending <=> st.pending)
         /\ status'.restarting => (st.restarting \/ MayRestart(st))
         /\ \/ /\ MayRestart(st) /\ status'.restarting
               /\ proc'.restarts = proc.restarts + 1
            \/ /\ (status'.restarting <=> st.restarting)
               /\ proc'.restarts = proc.restarts
<1>1. CASE MayRestart(st)
  <2>1. /\ status' = [st EXCEPT !.restarting = TRUE]
        /\ proc' = [proc EXCEPT !.restarts = @ + 1]
    BY <1>1 DEF Restarts
  <2>2. /\ status' \in StatusSet /\ status'.restarting
        /\ status'.manifest = st.manifest /\ status'.staged = st.staged
        /\ status'.applied = st.applied /\ status'.unmarked = st.unmarked
        /\ (status'.ready <=> st.ready) /\ (status'.pending <=> st.pending)
    BY <2>1 DEF StatusSet
  <2>3. /\ proc' \in ProcSet /\ proc'.restarts = proc.restarts + 1
        /\ proc'.st = proc.st /\ proc'.current = proc.current
    BY <2>1 DEF ProcSet
  <2>4. SameProcess
    BY <2>3 DEF SameProcess, Alive
  <2>5. QED BY <1>1, <2>2, <2>3, <2>4
<1>2. CASE ~ MayRestart(st)
  <2>1. /\ status' = IF st.restarting THEN st ELSE Failed(st)
        /\ proc' = proc
    BY <1>2 DEF Restarts
  <2>2. QED BY <2>1, FailedIs DEF SameProcess, Alive
<1>3. QED BY <1>1, <1>2

(***************************************************************************)
(* Steps that leave the installed files alone.                             *)
(***************************************************************************)
\* A job is under way in a live process only.
LEMMA JobsAreOfTheLiving ==
  ASSUME InstallInv, job.at # "none"
  PROVE  /\ Alive /\ proc.current \in Versions
         /\ job.at \notin Fetchings => job.v \in Versions
<1>1. Alive
  BY NoJobIs DEF InstallInv, Shape, GoneIsGone
<1>2. proc.current \in AnyVersion /\ proc.current # 0 /\ job.v \in AnyVersion
      /\ job.at \in Ats
  BY <1>1, TypesAre DEF InstallInv, Shape, VersionsGrow, ProcSet, JobSet
<1>3. job.at \notin Fetchings => job.v # 0
  BY <1>2 DEF InstallInv, Shape, JobIsOf, Ats, Fetchings, Stagings, Installs,
              Swappings, Finishes
<1>4. QED BY <1>1, <1>2, <1>3, PackagesAre

\* No candidate is older than the version that is being installed.
LEMMA CandidatesAreNewer ==
  ASSUME InstallInv, job.at \in {"unpacking"} \cup Installs,
         NEW x \in {release, status.manifest, status.staged, disk.meta, job.v}, x # 0
  PROVE  x \in Versions /\ job.v \in Versions /\ Package[job.v] \subseteq Package[x]
<1>1. job.v = status.staged /\ job.v # 0
  BY DEF InstallInv, Shape, JobIsOf
<1>2. /\ status.manifest \in AnyVersion /\ status.staged \in AnyVersion
      /\ disk.meta \in AnyVersion /\ release \in AnyVersion
  BY TypesAre, PackagesAre DEF InstallInv, StatusSet, DiskSet
<1>3. job.v <= x
  BY <1>1, <1>2, PackagesAre DEF InstallInv, Shape, VersionsGrow
<1>4. x \in Versions /\ job.v \in Versions
  BY <1>1, <1>2, PackagesAre
<1>5. QED BY <1>3, <1>4, PackagesAre

LEMMA FitsStay ==
  ASSUME InstallInv, disk'.target = disk.target, release' \in Versions, release <= release',
         {status'.manifest, status'.staged, disk'.meta, job'.v} \subseteq
           {0, release, status.manifest, status.staged, disk.meta, job.v}
  PROVE  NextFits'
<1>1. release \in Versions
  BY TypesAre DEF InstallInv
<1>2. Fits(release)
  BY <1>1, PackagesAre DEF InstallInv, NextFits
<1>3. \A g \in Files : disk'.target[g] # 0 => g \in Package[release']
  BY <1>1, <1>2, PackagesAre DEF Fits
<1>4. ASSUME NEW x \in {status'.manifest, status'.staged, disk'.meta, job'.v}, x # 0
      PROVE  \A g \in Files : disk'.target[g] # 0 => g \in Package[x]
  <2>1. Fits(x)
    BY <1>2, <1>4 DEF InstallInv, NextFits
  <2>2. QED BY <2>1 DEF Fits
<1>5. QED BY <1>3, <1>4 DEF NextFits, Fits

\* The rest of the invariant, in a step that begins and ends outside the swap.
LEMMA RestStays ==
  ASSUME InstallInv, job.at \notin Swappings \cup Finishes,
         job'.at \notin Swappings \cup Finishes,
         job'.at = "preparing" =>
           \A g \in Package[job'.v] : g < job'.f => disk'.new[g] = job'.v,
         disk'.target = disk.target, disk'.applied \in {0, disk.applied},
         torn' <=> torn, SameProcess,
         status'.pending <=> status.pending, status'.applied = status.applied,
         status'.unmarked = status.unmarked,
         disk'.applied # 0 /\ "applied" \in clearing => "applied" \in clearing'
  PROVE  Forward' /\ Back' /\ Rest' /\ MarkIsTrue'
<1>1. Forward'
  BY DEF Forward, Swappings, Finishes
<1>2. Back'
  BY DEF Back
<1>3. Rest'
  BY DEF InstallInv, Rest, SameProcess, Base
<1>4. MarkIsTrue'
  BY DEF InstallInv, MarkIsTrue, SameProcess
<1>5. QED BY <1>1, <1>2, <1>3, <1>4

\* What is left to show of such a step is the shape.
LEMMA OutsideSteps ==
  ASSUME InstallInv, TypeOK', Shape',
         job.at \notin Swappings \cup Finishes, job'.at \notin Installs,
         disk'.target = disk.target, disk'.applied \in {0, disk.applied},
         torn' <=> torn, SameProcess, release <= release',
         status'.pending <=> status.pending, status'.applied = status.applied,
         status'.unmarked = status.unmarked,
         disk'.applied # 0 /\ "applied" \in clearing => "applied" \in clearing',
         {status'.manifest, status'.staged, disk'.meta, job'.v} \subseteq
           {0, release, status.manifest, status.staged, disk.meta, job.v}
  PROVE  InstallInv'
<1>1. release' \in Versions
  BY TypesAre DEF TypeOK
<1>2. NextFits'
  BY <1>1, FitsStay
<1>3. job'.at \notin Swappings \cup Finishes /\ job'.at # "preparing"
  BY DEF Installs
<1>4. Forward' /\ Back' /\ Rest' /\ MarkIsTrue'
  BY <1>3, RestStays
<1>5. QED BY <1>2, <1>4 DEF InstallInv

(***************************************************************************)
(* Steps that say nothing new.                                             *)
(***************************************************************************)
\* The job goes on as it is, or another one begins or ends that installs nothing.
LEMMA QuietSteps ==
  ASSUME InstallInv, TypeOK', SameReport, SameProcess, release <= release',
         UNCHANGED <<removals, torn>>, disk'.target = disk.target, SameStaging,
         \/ job' = job /\ disk' = disk
         \/ /\ job.at \notin Swappings \cup Finishes
            /\ job'.at \in {"none", "fetching"} /\ job'.v = 0
            /\ job'.moved = {} /\ job'.added = {} /\ (job'.at = "fetching" => Alive),
         \* the process is gone, and its job with it, as before
         ~ Alive => job' = job /\ UNCHANGED status
  PROVE  InstallInv'
<1>1. /\ status \in StatusSet /\ disk \in DiskSet /\ job \in JobSet
      /\ release \in Versions /\ release' \in Versions
  BY TypesAre DEF InstallInv, TypeOK
<1>2. GoneIsGone'
  BY DEF InstallInv, Shape, GoneIsGone, SameProcess, SameReport, removals
<1>3. VersionsGrow'
  <2>1. {status'.manifest, status'.staged, disk'.meta, job'.v, status'.unmarked}
          \subseteq 0 .. release'
    <3>1. {status.manifest, status.staged, disk.meta, job.v, status.unmarked}
            \subseteq 0 .. release
      BY DEF InstallInv, Shape, VersionsGrow
    <3>2. 0 .. release \subseteq 0 .. release' /\ 0 \in 0 .. release'
      BY <1>1, PackagesAre
    <3>3. job'.v \in {0, job.v}
      OBVIOUS
    <3>4. QED BY <3>1, <3>2, <3>3 DEF SameReport, SameStaging
  <2>2. QED BY <2>1 DEF InstallInv, Shape, VersionsGrow, SameReport, SameStaging, SameProcess
<1>4. JobIsOf'
  <2>1. CASE job' = job
    BY <2>1 DEF InstallInv, Shape, JobIsOf, SameReport, SameStaging, removals
  <2>2. CASE job' # job
    BY <2>2 DEF JobIsOf, Stagings, Installs, Swappings, Finishes
  <2>3. QED BY <2>1, <2>2
<1>5. CASE job' = job /\ disk' = disk
  <2>1. NextFits'
    BY <1>1, <1>5, FitsStay DEF SameReport
  <2>2. Forward' /\ Back' /\ Rest' /\ MarkIsTrue'
    BY <1>5 DEF InstallInv, Forward, Back, Rest, MarkIsTrue, SameReport, SameProcess,
                removals, Base
  <2>3. QED BY <1>2, <1>3, <1>4, <2>1, <2>2 DEF InstallInv, Shape
<1>6. CASE /\ job.at \notin Swappings \cup Finishes
           /\ job'.at \in {"none", "fetching"} /\ job'.v = 0
  <2>1. job'.at \notin Installs
    BY <1>6 DEF Installs, Swappings, Finishes
  <2>2. {status'.manifest, status'.staged, disk'.meta, job'.v} \subseteq
           {0, release, status.manifest, status.staged, disk.meta, job.v}
    BY <1>6 DEF SameReport, SameStaging
  <2>3. disk'.applied = disk.applied /\ clearing' = clearing
    BY DEF SameStaging, removals
  <2>4. /\ status'.applied = status.applied /\ (status'.pending <=> status.pending)
        /\ status'.unmarked = status.unmarked
    BY DEF SameReport
  <2>5. Shape'
    BY <1>2, <1>3, <1>4 DEF Shape
  <2>6. QED BY <1>6, <2>1, <2>2, <2>3, <2>4, <2>5, OutsideSteps
<1>7. QED BY <1>5, <1>6

\* The bounds of a run.
LEMMA BoundsStay ==
  ASSUME TypeOK
  PROVE  /\ UNCHANGED bounds =>
              /\ failures' \in 0 .. MaxFailures /\ crashes' \in 0 .. MaxCrashes
              /\ clicks' \in 0 .. MaxClicks
         /\ Fails => failures' \in 0 .. MaxFailures
         /\ Click => clicks' \in 0 .. MaxClicks
         /\ clicks < MaxClicks /\ clicks' = clicks + 1 => clicks' \in 0 .. MaxClicks
         /\ crashes < MaxCrashes /\ crashes' = crashes + 1
              => crashes' \in 0 .. MaxCrashes
<1>1. /\ failures \in 0 .. MaxFailures /\ crashes \in 0 .. MaxCrashes
      /\ clicks \in 0 .. MaxClicks
  BY DEF TypeOK
<1>2. MaxFailures \in Nat /\ MaxCrashes \in Nat /\ MaxClicks \in Nat
  BY UpdaterAssumption DEF UpdaterAssumption
<1>3. failures < MaxFailures /\ failures' = failures + 1 => failures' \in 0 .. MaxFailures
  BY <1>1, <1>2
<1>4. clicks < MaxClicks /\ clicks' = clicks + 1 => clicks' \in 0 .. MaxClicks
  BY <1>1, <1>2
<1>5. crashes < MaxCrashes /\ crashes' = crashes + 1 => crashes' \in 0 .. MaxCrashes
  BY <1>1, <1>2
<1>6. QED BY <1>1, <1>3, <1>4, <1>5 DEF bounds, Fails, Click

LEMMA ReportsStay ==
  /\ UNCHANGED status => SameReport
  /\ UNCHANGED proc => SameProcess
  /\ status \in StatusSet /\ status' = Failed(status) => SameReport
  /\ UNCHANGED disk => SameStaging /\ SameFiles
BY FailedIs DEF SameReport, SameProcess, Alive, SameStaging, SameFiles

LEMMA RestartsAreQuiet ==
  ASSUME status \in StatusSet, proc \in ProcSet, Restarts(status)
  PROVE  SameReport
BY RestartsDo DEF SameReport

LEMMA FailuresKeepInstall ==
  ASSUME InstallInv, FetchFails \/ DownloadFails \/ UnpackFails
  PROVE  InstallInv'
<1>1. /\ status \in StatusSet /\ disk \in DiskSet /\ job \in JobSet
      /\ release \in Versions
      /\ TypeOK /\ proc \in ProcSet
  BY TypesAre DEF InstallInv
<1>2. /\ job.at \in {"fetching", "downloading", "place", "record", "unpacking"}
      /\ status' = Failed(status) /\ job' = NoJob
      /\ UNCHANGED <<others, disk, removals, crashes, clicks>>
      /\ Fails \/ UNCHANGED failures
  BY DEF FetchFails, DownloadFails, UnpackFails, ApplyEndsFailed, Settle
<1>3. /\ status' \in StatusSet /\ job' \in JobSet
      /\ failures' \in 0 .. MaxFailures
  BY <1>1, <1>2, FailedIs, NoJobIs, BoundsStay DEF TypeOK
<1>4. TypeOK'
  BY <1>1, <1>2, <1>3, TypesAreNext DEF TypeOK, others, removals
<1>5. SameReport /\ SameProcess /\ SameStaging
  BY <1>1, <1>2, ReportsStay DEF others
<1>6. Alive
  BY <1>2, JobsAreOfTheLiving
<1>7. release <= release' /\ UNCHANGED <<removals, torn>> /\ disk'.target = disk.target
  BY <1>1, <1>2, PackagesAre DEF others
<1>8. job.at \notin Swappings \cup Finishes
  BY <1>2 DEF Swappings, Finishes
<1>9. QED BY <1>2, <1>4, <1>5, <1>6, <1>7, <1>8, NoJobIs, QuietSteps

LEMMA RequestsKeepInstall ==
  ASSUME InstallInv, Tick \/ ClickCheck \/ SetAuto \/ ClickRestart \/ SetAutoRestart
  PROVE  InstallInv'
<1>1. /\ status \in StatusSet /\ disk \in DiskSet /\ job \in JobSet
      /\ release \in Versions
      /\ proc \in ProcSet /\ TypeOK /\ settings \in [auto : BOOLEAN, restart : BOOLEAN]
  BY TypesAre DEF InstallInv
<1>2. /\ UNCHANGED <<release, disk, mode, torn, removals, failures, crashes>>
      /\ Up /\ Alive
      /\ UNCHANGED bounds \/ Click
  BY DEF Tick, ClickCheck, SetAuto, ClickRestart, SetAutoRestart, others, Click, Up,
         Alive, bounds
<1>3. settings' \in [auto : BOOLEAN, restart : BOOLEAN]
  BY <1>1 DEF Tick, ClickCheck, SetAuto, ClickRestart, SetAutoRestart, others
<1>4. \/ UNCHANGED <<status, proc>>
      \/ Restarts(status)
  BY DEF Tick, ClickCheck, SetAuto, ClickRestart, SetAutoRestart, others
<1>5. status' \in StatusSet /\ proc' \in ProcSet /\ SameReport /\ SameProcess
  BY <1>1, <1>4, RestartsDo, RestartsAreQuiet, ReportsStay
<1>6. \/ job' = job
      \/ job.at = "none" /\ \E auto \in BOOLEAN : job' = Fetching(auto)
  <2>1. TRUE \in BOOLEAN /\ FALSE \in BOOLEAN
    OBVIOUS
  <2>2. QED BY <2>1 DEF Tick, ClickCheck, SetAuto, ClickRestart, SetAutoRestart,
                        MayCheck, Idle
<1>7. \/ job' = job
      \/ /\ job.at \notin Swappings \cup Finishes
         /\ job'.at \in {"none", "fetching"} /\ job'.v = 0
         /\ job'.moved = {} /\ job'.added = {}
  <2>1. "none" \notin Swappings \cup Finishes
    BY DEF Swappings, Finishes
  <2>2. QED BY <1>1, <1>6, <2>1, NewJobsAre
<1>8. job' \in JobSet
  BY <1>1, <1>6, NewJobsAre
<1>9. clicks' \in 0 .. MaxClicks
  BY <1>1, <1>2, BoundsStay
<1>10. TypeOK'
  BY <1>1, <1>2, <1>3, <1>5, <1>8, <1>9, TypesAreNext DEF TypeOK, removals
<1>11. SameStaging /\ release <= release' /\ disk'.target = disk.target
  BY <1>1, <1>2, PackagesAre, ReportsStay
<1>12. QED BY <1>2, <1>5, <1>7, <1>10, <1>11, QuietSteps

LEMMA BystandersKeepInstall ==
  ASSUME InstallInv, Publish \/ Stop \/ UNCHANGED vars
  PROVE  InstallInv'
<1>1. /\ status \in StatusSet /\ disk \in DiskSet /\ job \in JobSet
      /\ release \in Versions
      /\ proc \in ProcSet /\ TypeOK
  BY TypesAre DEF InstallInv
<1>2. UNCHANGED <<disk, status, job, removals, settings, mode, failures, crashes, torn>>
  BY DEF Publish, Stop, vars, removals, bounds
<1>3. release' \in Versions /\ release <= release'
  <2>1. \/ release' = release
        \/ release < MaxVersion /\ release' = release + 1
    BY DEF Publish, Stop, vars
  <2>2. QED BY <1>1, <2>1, UpdaterAssumption DEF UpdaterAssumption, Versions
<1>4. proc' \in ProcSet /\ SameProcess
  <2>1. CASE UNCHANGED proc
    BY <1>1, <2>1, ReportsStay
  <2>2. CASE Stop
    BY <1>1, <2>2 DEF Stop, Up, SameProcess, Alive, ProcSet
  <2>3. QED BY <2>1, <2>2 DEF Publish, vars
<1>5. clicks' \in 0 .. MaxClicks
  BY <1>1, BoundsStay DEF Publish, Stop, vars, bounds, TypeOK
<1>6. TypeOK'
  BY <1>1, <1>2, <1>3, <1>4, <1>5, TypesAreNext DEF TypeOK, removals
<1>7. SameReport /\ SameStaging /\ disk'.target = disk.target
  BY <1>2, ReportsStay
<1>8. QED BY <1>2, <1>3, <1>4, <1>6, <1>7, QuietSteps

(***************************************************************************)
(* Steps of a check and of a download.                                     *)
(***************************************************************************)
\* What the state is made of.
LEMMA StateIs ==
  ASSUME InstallInv
  PROVE  /\ status \in StatusSet /\ disk \in DiskSet /\ job \in JobSet
         /\ proc \in ProcSet /\ TypeOK
         /\ release \in Versions /\ release \in Nat
         /\ {status.manifest, status.staged, disk.meta, job.v} \subseteq 0 .. release
         /\ {status.manifest, status.staged, disk.meta, job.v} \subseteq AnyVersion
         /\ {status.manifest, status.staged, disk.meta, job.v, proc.current} \subseteq Nat
<1>1. /\ status \in StatusSet /\ disk \in DiskSet /\ job \in JobSet
      /\ proc \in ProcSet /\ TypeOK
      /\ release \in Versions
  BY TypesAre DEF InstallInv
<1>2. {status.manifest, status.staged, disk.meta, job.v} \subseteq 0 .. release
  BY DEF InstallInv, Shape, VersionsGrow
<1>3. {status.manifest, status.staged, disk.meta, job.v, proc.current} \subseteq AnyVersion
  BY <1>1 DEF StatusSet, DiskSet, JobSet, ProcSet
<1>4. QED BY <1>1, <1>2, <1>3, PackagesAre

\* A package whose record reads, is on offer or is fetched is of a version that runs
\* at most until it is installed.
LEMMA ClickDownloadKeepsInstall ==
  ASSUME InstallInv, ClickDownload
  PROVE  InstallInv'
<1>1. /\ job' = Downloading(status) /\ job.at = "none" /\ MayDownload(status) /\ Up
      /\ UNCHANGED <<others, disk, status, removals, failures, crashes>> /\ Click
  BY DEF ClickDownload, Click, Idle
<1>2. /\ job' \in JobSet /\ job'.at = "downloading" /\ job'.v = status.manifest
      /\ job'.moved = {} /\ job'.added = {}
  BY <1>1, StateIs, NewJobsAre
<1>3. clicks' \in 0 .. MaxClicks
  BY <1>1, StateIs, BoundsStay
<1>4. TypeOK'
  BY <1>1, <1>2, <1>3, StateIs, TypesAreNext DEF TypeOK, others, removals
<1>5. status.manifest # 0 /\ status.staged = 0
  BY <1>1 DEF MayDownload, InstallInv, Shape, VersionsGrow
<1>6. GoneIsGone'
  BY <1>1 DEF GoneIsGone, Up, Alive, others
<1>7. VersionsGrow'
  BY <1>1, <1>2 DEF InstallInv, Shape, VersionsGrow, others, Up, Alive
<1>8. JobIsOf'
  BY <1>1, <1>2, <1>5 DEF JobIsOf, Fetchings, Stagings, Installs, Swappings, Finishes
<1>9. job.at \notin Swappings \cup Finishes /\ job'.at \notin Installs
  BY <1>1, <1>2 DEF Swappings, Finishes, Installs
<1>10. SameProcess /\ release <= release' /\ (torn' <=> torn)
  BY <1>1, StateIs, ReportsStay DEF others
<1>11. {status'.manifest, status'.staged, disk'.meta, job'.v} \subseteq
           {0, release, status.manifest, status.staged, disk.meta, job.v}
  BY <1>1, <1>2
<1>12. Shape'
  BY <1>6, <1>7, <1>8 DEF Shape
<1>13. disk' = disk /\ status' = status /\ clearing' = clearing
  BY <1>1 DEF removals
<1>14. QED BY <1>4, <1>9, <1>10, <1>11, <1>12, <1>13, OutsideSteps

LEMMA ClickInstallKeepsInstall ==
  ASSUME InstallInv, ClickInstall
  PROVE  InstallInv'
<1>1. /\ job' = Applying(status) /\ job.at = "none" /\ MayApply(status) /\ Up
      /\ UNCHANGED <<others, disk, status, removals, failures, crashes>> /\ Click
  BY DEF ClickInstall, Click, Idle
<1>2. /\ job' \in JobSet /\ job'.at = "unpacking" /\ job'.v = status.staged
      /\ job'.moved = {} /\ job'.added = {}
  BY <1>1, StateIs, NewJobsAre
<1>3. clicks' \in 0 .. MaxClicks
  BY <1>1, StateIs, BoundsStay
<1>4. TypeOK'
  BY <1>1, <1>2, <1>3, StateIs, TypesAreNext DEF TypeOK, others, removals
<1>5. status.staged # 0 /\ ~ status.pending
  BY <1>1 DEF MayApply
<1>6. GoneIsGone'
  BY <1>1 DEF GoneIsGone, Up, Alive, others
<1>7. VersionsGrow'
  BY <1>1, <1>2 DEF InstallInv, Shape, VersionsGrow, others, Up, Alive
<1>8. JobIsOf'
  BY <1>1, <1>2, <1>5 DEF JobIsOf, Fetchings, Stagings, Installs, Swappings, Finishes
<1>9. job.at \notin Swappings \cup Finishes /\ job'.at \notin Installs
  BY <1>1, <1>2 DEF Swappings, Finishes, Installs
<1>10. SameProcess /\ release <= release' /\ (torn' <=> torn)
  BY <1>1, StateIs, ReportsStay DEF others
<1>11. {status'.manifest, status'.staged, disk'.meta, job'.v} \subseteq
           {0, release, status.manifest, status.staged, disk.meta, job.v}
  BY <1>1, <1>2
<1>12. Shape'
  BY <1>6, <1>7, <1>8 DEF Shape
<1>13. disk' = disk /\ status' = status /\ clearing' = clearing
  BY <1>1 DEF removals
<1>14. QED BY <1>4, <1>9, <1>10, <1>11, <1>12, <1>13, OutsideSteps

\* The release that is found, and what is done about it.
LEMMA OffersDo ==
  ASSUME NEW st \in StatusSet, Offers(st)
  PROVE  /\ status' = st /\ job' \in JobSet /\ job'.moved = {} /\ job'.added = {}
         /\ \/ job'.at = "none" /\ job'.v = 0
            \/ /\ job'.at = "downloading" /\ job'.v = st.manifest
               /\ st.manifest # 0 /\ ~ st.ready
<1>1. CASE job.auto /\ settings.auto /\ MayDownload(st)
  BY <1>1, NewJobsAre DEF Offers, MayDownload
<1>2. CASE ~ (job.auto /\ settings.auto /\ MayDownload(st))
  <2>1. job' = NoJob /\ status' = st
    BY <1>2 DEF Offers
  <2>2. QED BY <2>1, NoJobIs
<1>3. QED BY <1>1, <1>2

\* The report of a restart is left alone.
SameRestart ==
    /\ status'.applied = status.applied /\ (status'.pending <=> status.pending)
    /\ (status'.restarting <=> status.restarting) /\ status'.unmarked = status.unmarked

LEMMA FetchAnswersDo ==
  ASSUME InstallInv, FetchAnswers
  PROVE  /\ status' \in StatusSet /\ job' \in JobSet /\ SameRestart
         /\ job.at = "fetching" /\ job.v = 0 /\ job'.moved = {} /\ job'.added = {}
         /\ clearing \subseteq clearing' /\ clearing' \subseteq Staging
         /\ UNCHANGED <<others, disk, cleaning, bounds>> /\ Prompt
         /\ \/ /\ status'.manifest = 0 /\ status'.staged = 0 /\ ~ status'.ready
               /\ job'.at = "none" /\ job'.v = 0
            \/ /\ status'.manifest = release /\ proc.current < release
               /\ clearing' = clearing
               /\ \/ /\ status.staged = release /\ status'.staged = status.staged
                     /\ (status'.ready <=> status.ready)
                     /\ job'.at = "none" /\ job'.v = 0
                  \/ /\ status.staged # 0 /\ status'.staged = 0
                     /\ (status'.ready <=> status.ready)
                     /\ job'.at = "staleArchive" /\ job'.v = 0
                  \/ /\ status.staged = 0 /\ status'.staged = 0 /\ ~ status'.ready
                     /\ \/ job'.at = "none" /\ job'.v = 0
                        \/ job'.at = "downloading" /\ job'.v = release
<1> DEFINE st == [status EXCEPT !.manifest = release]
           off == [st EXCEPT !.available = TRUE, !.ready = FALSE]
<1>1. /\ job.at = "fetching" /\ UNCHANGED <<others, disk, cleaning, bounds>> /\ Prompt
      /\ job.v = 0 /\ job.moved = {} /\ job.added = {}
  BY DEF FetchAnswers, InstallInv, Shape, JobIsOf, Fetchings, Installs, Swappings,
         Finishes
<1>2. /\ status \in StatusSet /\ job \in JobSet /\ release \in AnyVersion
      /\ release \in Nat /\ proc.current \in Nat /\ clearing \subseteq Staging
      /\ 0 \in AnyVersion
  BY StateIs, PackagesAre DEF TypeOK
<1>3. NoJob \in JobSet /\ NoJob.at = "none" /\ NoJob.v = 0
      /\ NoJob.moved = {} /\ NoJob.added = {}
  BY NoJobIs
<1>4. CASE release <= proc.current
  <2>1. /\ status' = [status EXCEPT !.manifest = 0, !.staged = 0, !.available = FALSE,
                                    !.ready = FALSE]
        /\ clearing' = clearing \cup {"archive", "meta"} /\ job' = NoJob
    BY <1>4 DEF FetchAnswers, Settle
  <2>2. /\ status' \in StatusSet /\ SameRestart
        /\ status'.manifest = 0 /\ status'.staged = 0 /\ ~ status'.ready
    BY <1>2, <2>1 DEF StatusSet, SameRestart
  <2>3. clearing \subseteq clearing' /\ clearing' \subseteq Staging
    BY <1>2, <2>1 DEF Staging
  <2>4. QED BY <1>1, <1>3, <2>1, <2>2, <2>3
<1>5. CASE ~ (release <= proc.current)
  <2>1. proc.current < release
    BY <1>2, <1>5
  <2>2. CASE status.staged = release
    <3>1. status' = [st EXCEPT !.available = TRUE] /\ job' = NoJob /\ clearing' = clearing
      BY <1>5, <2>2 DEF FetchAnswers, Settle
    <3>2. /\ status' \in StatusSet /\ SameRestart /\ status'.manifest = release
          /\ status'.staged = status.staged /\ (status'.ready <=> status.ready)
      BY <1>2, <3>1 DEF StatusSet, SameRestart
    <3>3. QED BY <1>1, <1>2, <1>3, <2>1, <2>2, <3>1, <3>2
  <2>3. CASE status.staged # release /\ status.staged # 0
    <3>1. status' = [st EXCEPT !.staged = 0] /\ Goes("staleArchive") /\ clearing' = clearing
      BY <1>5, <2>3 DEF FetchAnswers
    <3>2. /\ status' \in StatusSet /\ SameRestart /\ status'.manifest = release
          /\ status'.staged = 0 /\ (status'.ready <=> status.ready)
      BY <1>2, <3>1 DEF StatusSet, SameRestart
    <3>3. /\ job' \in JobSet /\ job'.at = "staleArchive" /\ job'.v = 0
          /\ job'.moved = {} /\ job'.added = {}
      <4>1. "staleArchive" \in Ats
        BY DEF Ats
      <4>2. QED BY <1>1, <1>2, <3>1, <4>1, GoesDoes
    <3>4. QED BY <1>1, <1>2, <2>1, <2>3, <3>1, <3>2, <3>3
  <2>4. CASE status.staged # release /\ status.staged = 0
    <3>1. Offers(off) /\ clearing' = clearing
      BY <1>5, <2>4 DEF FetchAnswers
    <3>2. /\ off \in StatusSet /\ off.manifest = release /\ off.staged = 0 /\ ~ off.ready
          /\ off.applied = status.applied /\ (off.pending <=> status.pending)
          /\ (off.restarting <=> status.restarting) /\ off.unmarked = status.unmarked
      BY <1>2, <2>4 DEF StatusSet
    <3> HIDE DEF off, st
    <3>3. /\ status' = off /\ job' \in JobSet /\ job'.moved = {} /\ job'.added = {}
          /\ \/ job'.at = "none" /\ job'.v = 0
             \/ job'.at = "downloading" /\ job'.v = release
      BY <3>1, <3>2, OffersDo
    <3>4. SameRestart
      BY <3>2, <3>3 DEF SameRestart
    <3>5. QED BY <1>1, <1>2, <2>1, <2>4, <3>1, <3>2, <3>3, <3>4
  <2>5. QED BY <2>2, <2>3, <2>4
<1>6. QED BY <1>4, <1>5

LEMMA FetchAnswersKeepsInstall ==
  ASSUME InstallInv, FetchAnswers
  PROVE  InstallInv'
<1>1. TypeOK'
  BY FetchAnswersDo, StateIs, BoundsStay, TypesAreNext DEF TypeOK, others
<1>2. Alive /\ job.at \notin Swappings \cup Finishes
  BY FetchAnswersDo, JobsAreOfTheLiving DEF Swappings, Finishes
<1>3. SameProcess /\ release' = release /\ (torn' <=> torn) /\ disk' = disk
  BY FetchAnswersDo, ReportsStay DEF others
<1>4. GoneIsGone'
  BY <1>2, <1>3 DEF GoneIsGone, SameProcess
<1>5. VersionsGrow'
  <2>1. proc.current # 0 /\ Alive /\ Alive'
    BY <1>2, <1>3 DEF InstallInv, Shape, VersionsGrow, SameProcess
  <2>2. /\ {status.manifest, status.staged, disk.meta, job.v} \subseteq 0 .. release
        /\ status.staged # 0 => status.ready /\ proc.current < status.staged
        /\ status.staged # 0 => status.unmarked <= status.staged
        /\ status.staged # 0 /\ disk.meta # 0 => status.staged <= disk.meta
        /\ status.unmarked \in 0 .. release
    BY DEF InstallInv, Shape, VersionsGrow
  <2>u. status'.unmarked = status.unmarked /\ status.unmarked <= release
    BY <2>2, FetchAnswersDo, StateIs DEF SameRestart
  <2>3. {status'.manifest, status'.staged, disk'.meta, job'.v, status'.unmarked}
          \subseteq 0 .. release'
    BY <1>3, <2>2, <2>u, FetchAnswersDo, StateIs
  <2>4. \A x \in {status'.manifest, status'.staged, job'.v} :
          x # 0 => proc'.current < x /\ status'.unmarked <= x
    BY <1>3, <2>2, <2>u, FetchAnswersDo DEF SameProcess
  <2>5. status'.staged # 0 =>
          /\ status'.ready
          /\ status'.manifest # 0 => status'.staged <= status'.manifest
          /\ disk'.meta # 0 => status'.staged <= disk'.meta
    BY <1>3, <2>2, FetchAnswersDo, StateIs
  <2>6. QED BY <1>3, <2>1, <2>3, <2>4, <2>5 DEF VersionsGrow, SameProcess
<1>6. JobIsOf'
  <2>1. release # 0
    BY StateIs, PackagesAre
  <2>2. job'.at = "none" \/ job'.at = "staleArchive" \/ job'.at = "downloading"
    BY FetchAnswersDo
  <2>3. CASE job'.at = "none"
    BY <2>3, <2>1, FetchAnswersDo DEF JobIsOf, Fetchings, Stagings, Installs, Swappings,
          Finishes
  <2>4. CASE job'.at = "staleArchive"
    BY <2>4, FetchAnswersDo DEF JobIsOf, Fetchings, Stagings, Installs, Swappings,
          Finishes
  <2>5. CASE job'.at = "downloading"
    BY <2>5, <2>1, FetchAnswersDo DEF JobIsOf, Fetchings, Stagings, Installs, Swappings,
          Finishes
  <2>6. QED BY <2>2, <2>3, <2>4, <2>5
<1>7. job'.at \notin Installs
  <2>1. job'.at \in {"none", "staleArchive", "downloading"}
    BY FetchAnswersDo
  <2>2. QED BY <2>1 DEF Installs, Swappings, Finishes
<1>8. {status'.manifest, status'.staged, disk'.meta, job'.v} \subseteq
           {0, release, status.manifest, status.staged, disk.meta, job.v}
  BY <1>3, FetchAnswersDo
<1>9. Shape'
  BY <1>4, <1>5, <1>6 DEF Shape
<1>10. "applied" \in clearing => "applied" \in clearing'
  BY FetchAnswersDo
<1>11. /\ status'.applied = status.applied /\ (status'.pending <=> status.pending)
       /\ status'.unmarked = status.unmarked
  BY FetchAnswersDo DEF SameRestart
<1>12. release <= release'
  BY <1>3, StateIs
<1>13. QED BY <1>1, <1>2, <1>3, <1>7, <1>8, <1>9, <1>10, <1>11, <1>12, OutsideSteps

\* The package that was overtaken goes, then its record.
LEMMA DropsStaleDo ==
  ASSUME InstallInv, DropsStale
  PROVE  /\ status' \in StatusSet /\ job' \in JobSet /\ disk' \in DiskSet
         /\ SameRestart /\ SameFiles /\ disk'.applied = disk.applied
         /\ status'.manifest = status.manifest /\ status'.staged = 0 /\ status.staged = 0
         /\ job.v = 0 /\ job'.moved = {} /\ job'.added = {}
         /\ UNCHANGED <<others, removals, bounds>>
         /\ \/ /\ job.at = "staleArchive" /\ job'.at = "staleMeta" /\ job'.v = 0
               /\ (status'.ready <=> status.ready)
               /\ disk'.meta = disk.meta /\ disk'.archive = 0
            \/ /\ job.at = "staleMeta" /\ ~ status'.ready
               /\ disk'.meta = 0 /\ disk'.archive = disk.archive
               /\ \/ job'.at = "none" /\ job'.v = 0
                  \/ /\ job'.at = "downloading" /\ job'.v = status.manifest
                     /\ status.manifest # 0
<1> DEFINE off == [status EXCEPT !.available = TRUE, !.ready = FALSE]
<1>1. /\ job.at \in {"staleArchive", "staleMeta"}
      /\ UNCHANGED <<others, removals, bounds>>
      /\ job.v = 0 /\ job.moved = {} /\ job.added = {} /\ status.staged = 0
  BY DEF DropsStale, InstallInv, Shape, JobIsOf, Fetchings, Installs, Swappings,
         Finishes
<1>2. status \in StatusSet /\ job \in JobSet /\ disk \in DiskSet /\ 0 \in AnyVersion
  BY StateIs, PackagesAre
<1>3. CASE job.at = "staleArchive"
  <2>1. disk' = [disk EXCEPT !.archive = 0] /\ Goes("staleMeta") /\ UNCHANGED status
    BY <1>3 DEF DropsStale
  <2>2. /\ disk' \in DiskSet /\ SameFiles /\ disk'.applied = disk.applied
        /\ disk'.meta = disk.meta /\ disk'.archive = 0
    BY <1>2, <2>1, StagesDo
  <2>3. /\ job' \in JobSet /\ job'.at = "staleMeta" /\ job'.v = 0
        /\ job'.moved = {} /\ job'.added = {}
    <3>1. "staleMeta" \in Ats
      BY DEF Ats
    <3>2. QED BY <1>1, <1>2, <2>1, <3>1, GoesDoes
  <2>4. SameRestart
    BY <2>1 DEF SameRestart
  <2>5. QED BY <1>1, <1>2, <1>3, <2>1, <2>2, <2>3, <2>4
<1>4. CASE job.at = "staleMeta"
  <2>1. disk' = [disk EXCEPT !.meta = 0] /\ Offers(off)
    BY <1>4 DEF DropsStale
  <2>2. /\ disk' \in DiskSet /\ SameFiles /\ disk'.applied = disk.applied
        /\ disk'.meta = 0 /\ disk'.archive = disk.archive
    BY <1>2, <2>1, StagesDo
  <2>3. /\ off \in StatusSet /\ off.manifest = status.manifest
        /\ off.staged = status.staged /\ ~ off.ready
        /\ off.applied = status.applied /\ (off.pending <=> status.pending)
        /\ (off.restarting <=> status.restarting) /\ off.unmarked = status.unmarked
    BY <1>2 DEF StatusSet
  <2> HIDE DEF off
  <2>4. /\ status' = off /\ job' \in JobSet /\ job'.moved = {} /\ job'.added = {}
        /\ \/ job'.at = "none" /\ job'.v = 0
           \/ job'.at = "downloading" /\ job'.v = status.manifest /\ status.manifest # 0
    BY <2>1, <2>3, OffersDo
  <2>5. SameRestart
    BY <2>3, <2>4 DEF SameRestart
  <2>6. QED BY <1>1, <1>4, <2>2, <2>3, <2>4, <2>5
<1>5. QED BY <1>1, <1>3, <1>4

LEMMA DropsStaleKeepsInstall ==
  ASSUME InstallInv, DropsStale
  PROVE  InstallInv'
<1>1. TypeOK'
  BY DropsStaleDo, StateIs, BoundsStay, TypesAreNext DEF TypeOK, others, removals
<1>2. Alive /\ job.at \notin Swappings \cup Finishes
  BY DropsStaleDo, JobsAreOfTheLiving DEF Swappings, Finishes
<1>3. /\ SameProcess /\ release' = release /\ (torn' <=> torn) /\ clearing' = clearing
      /\ disk'.target = disk.target
  BY DropsStaleDo, ReportsStay DEF others, removals, SameFiles
<1>4. GoneIsGone'
  BY <1>2, <1>3 DEF GoneIsGone, SameProcess
<1>5. VersionsGrow'
  <2>1. /\ disk'.meta \in {0, disk.meta} /\ job'.v \in {0, status.manifest}
    BY DropsStaleDo
  <2>2. 0 \in 0 .. release
    BY StateIs
  <2>3. QED BY <1>2, <1>3, <2>1, <2>2, DropsStaleDo DEF InstallInv, Shape, VersionsGrow,
          SameProcess, SameRestart
<1>6. JobIsOf'
  <2>1. CASE job'.at = "none" \/ job'.at = "staleMeta"
    BY <2>1, DropsStaleDo DEF JobIsOf, Fetchings, Stagings, Installs, Swappings,
          Finishes
  <2>2. CASE job'.at = "downloading"
    BY <2>2, DropsStaleDo DEF JobIsOf, Fetchings, Stagings, Installs, Swappings,
          Finishes
  <2>3. QED BY <2>1, <2>2, DropsStaleDo
<1>7. job'.at \notin Installs
  <2>1. job'.at \in {"none", "staleMeta", "downloading"}
    BY DropsStaleDo
  <2>2. QED BY <2>1 DEF Installs, Swappings, Finishes
<1>8. {status'.manifest, status'.staged, disk'.meta, job'.v} \subseteq
           {0, release, status.manifest, status.staged, disk.meta, job.v}
  BY DropsStaleDo
<1>9. Shape'
  BY <1>4, <1>5, <1>6 DEF Shape
<1>10. /\ disk'.applied = disk.applied
       /\ status'.applied = status.applied /\ (status'.pending <=> status.pending)
       /\ status'.unmarked = status.unmarked
  BY DropsStaleDo DEF SameRestart
<1>11. release <= release'
  BY <1>3, StateIs
<1>12. QED BY <1>1, <1>2, <1>3, <1>7, <1>8, <1>9, <1>10, <1>11, OutsideSteps

\* The package that was fetched takes the place of the one before.
LEMMA StagesStep ==
  ASSUME InstallInv, Stages
  PROVE  /\ job' \in JobSet /\ disk' \in DiskSet /\ SameFiles
         /\ disk'.applied = disk.applied
         /\ UNCHANGED <<others, status, removals, bounds>>
         /\ status.staged = 0 /\ job.v # 0 /\ job.v = status.manifest
         /\ job'.v = job.v /\ job'.moved = {} /\ job'.added = {}
         /\ \/ /\ job.at = "downloading" /\ job'.at = "dropArchive"
               /\ disk' = disk /\ Prompt
            \/ /\ job.at = "dropArchive" /\ job'.at = "dropMeta"
               /\ disk'.archive = 0 /\ disk'.meta = disk.meta
            \/ /\ job.at = "dropMeta" /\ job'.at = "place"
               /\ disk'.archive = disk.archive /\ disk'.meta = 0
            \/ /\ job.at = "place" /\ job'.at = "record"
               /\ disk'.archive = job.v /\ disk'.meta = disk.meta
<1>1. /\ job.at \in {"downloading", "dropArchive", "dropMeta", "place"}
      /\ UNCHANGED <<others, status, removals, bounds>> /\ Goes(NextOfStaging(job.at))
  BY DEF Stages
<1>2. /\ status.staged = 0 /\ job.v # 0 /\ job.v = status.manifest
      /\ job.moved = {} /\ job.added = {}
  BY <1>1 DEF InstallInv, Shape, JobIsOf, Stagings, Installs, Swappings, Finishes
<1>3. job \in JobSet /\ disk \in DiskSet /\ 0 \in AnyVersion /\ job.v \in AnyVersion
  BY StateIs, PackagesAre
<1>4. /\ job.at = "downloading" => NextOfStaging(job.at) = "dropArchive"
      /\ job.at = "dropArchive" => NextOfStaging(job.at) = "dropMeta"
      /\ job.at = "dropMeta" => NextOfStaging(job.at) = "place"
      /\ job.at = "place" => NextOfStaging(job.at) = "record"
  BY DEF NextOfStaging
<1>5. /\ job' \in JobSet /\ job'.v = job.v /\ job'.moved = {} /\ job'.added = {}
      /\ job'.at = NextOfStaging(job.at)
  <2>1. NextOfStaging(job.at) \in Ats
    BY <1>1, <1>4 DEF Ats
  <2>2. QED BY <1>1, <1>2, <1>3, <2>1, GoesDoes
<1>6. CASE job.at = "downloading"
  BY <1>1, <1>2, <1>3, <1>4, <1>5, <1>6 DEF Stages, SameFiles
<1>7. CASE job.at = "dropArchive"
  <2>1. disk' = [disk EXCEPT !.archive = 0]
    BY <1>7 DEF Stages
  <2>2. QED BY <1>1, <1>2, <1>3, <1>4, <1>5, <1>7, <2>1, StagesDo
<1>8. CASE job.at = "dropMeta"
  <2>1. disk' = [disk EXCEPT !.meta = 0]
    BY <1>8 DEF Stages
  <2>2. QED BY <1>1, <1>2, <1>3, <1>4, <1>5, <1>8, <2>1, StagesDo
<1>9. CASE job.at = "place"
  <2>1. disk' = [disk EXCEPT !.archive = job.v]
    BY <1>9 DEF Stages
  <2>2. QED BY <1>1, <1>2, <1>3, <1>4, <1>5, <1>9, <2>1, StagesDo
<1>10. QED BY <1>1, <1>6, <1>7, <1>8, <1>9

LEMMA StagesKeepsInstall ==
  ASSUME InstallInv, Stages
  PROVE  InstallInv'
<1>1. TypeOK'
  BY StagesStep, StateIs, BoundsStay, TypesAreNext DEF TypeOK, others, removals
<1>2. Alive /\ job.at \notin Swappings \cup Finishes
  BY StagesStep, JobsAreOfTheLiving DEF Swappings, Finishes
<1>3. /\ SameProcess /\ release' = release /\ (torn' <=> torn) /\ clearing' = clearing
      /\ disk'.target = disk.target /\ status' = status
  BY StagesStep, ReportsStay DEF others, removals, SameFiles
<1>4. GoneIsGone'
  BY <1>2, <1>3 DEF GoneIsGone, SameProcess
<1>5. disk'.meta \in {0, disk.meta}
  BY StagesStep
<1>6. VersionsGrow'
  <2>1. 0 \in 0 .. release
    BY StateIs
  <2>2. QED BY <1>2, <1>3, <1>5, <2>1, StagesStep DEF InstallInv, Shape, VersionsGrow,
          SameProcess
<1>7. job'.at \in {"dropArchive", "dropMeta", "place", "record"}
  BY StagesStep
<1>8. JobIsOf'
  BY <1>3, <1>7, StagesStep DEF JobIsOf, Fetchings, Stagings, Installs, Swappings,
          Finishes
<1>9. job'.at \notin Installs
  BY <1>7 DEF Installs, Swappings, Finishes
<1>10. {status'.manifest, status'.staged, disk'.meta, job'.v} \subseteq
           {0, release, status.manifest, status.staged, disk.meta, job.v}
  BY <1>3, <1>5, StagesStep
<1>11. Shape'
  BY <1>4, <1>6, <1>8 DEF Shape
<1>12. disk'.applied = disk.applied /\ release <= release'
  BY <1>3, StagesStep, StateIs
<1>13. QED BY <1>1, <1>2, <1>3, <1>9, <1>10, <1>11, <1>12, OutsideSteps

LEMMA StagedDo ==
  ASSUME InstallInv, Staged
  PROVE  /\ job.at = "record" /\ job.v # 0 /\ job.v = status.manifest /\ status.staged = 0
         /\ status' \in StatusSet /\ SameRestart
         /\ status'.manifest = status.manifest /\ status'.staged = job.v /\ status'.ready
         /\ disk' \in DiskSet /\ SameFiles /\ disk'.meta = job.v
         /\ disk'.archive = disk.archive /\ disk'.applied = disk.applied
         /\ job' \in JobSet /\ job'.moved = {} /\ job'.added = {}
         /\ \/ job'.at = "none" /\ job'.v = 0
            \/ job'.at = "unpacking" /\ job'.v = job.v /\ ~ status.pending
         /\ UNCHANGED <<others, removals, bounds>>
<1> DEFINE st == [status EXCEPT !.staged = job.v, !.ready = TRUE]
<1>1. /\ job.at = "record" /\ UNCHANGED <<others, removals, bounds>>
      /\ disk' = [disk EXCEPT !.meta = job.v] /\ status' = st
      /\ job' = IF settings.auto /\ MayApply(st) THEN Applying(st) ELSE NoJob
  BY DEF Staged
<1>2. /\ status.staged = 0 /\ job.v # 0 /\ job.v = status.manifest
      /\ job.moved = {} /\ job.added = {}
  BY <1>1 DEF InstallInv, Shape, JobIsOf, Stagings, Installs, Swappings, Finishes
<1>3. job \in JobSet /\ disk \in DiskSet /\ status \in StatusSet /\ job.v \in AnyVersion
  BY StateIs
<1>4. /\ st \in StatusSet /\ st.staged = job.v /\ st.ready
      /\ st.manifest = status.manifest
      /\ st.applied = status.applied /\ (st.pending <=> status.pending)
      /\ (st.restarting <=> status.restarting) /\ st.unmarked = status.unmarked
  BY <1>3 DEF StatusSet
<1>5. /\ disk' \in DiskSet /\ SameFiles /\ disk'.meta = job.v
      /\ disk'.archive = disk.archive /\ disk'.applied = disk.applied
  BY <1>1, <1>3, StagesDo
<1> HIDE DEF st
<1>6. /\ job' \in JobSet /\ job'.moved = {} /\ job'.added = {}
      /\ \/ job'.at = "none" /\ job'.v = 0
         \/ job'.at = "unpacking" /\ job'.v = job.v /\ ~ status.pending
  <2>1. CASE settings.auto /\ MayApply(st)
    BY <1>1, <1>4, <2>1, NewJobsAre DEF MayApply
  <2>2. CASE ~ (settings.auto /\ MayApply(st))
    BY <1>1, <2>2, NoJobIs
  <2>3. QED BY <2>1, <2>2
<1>7. SameRestart
  BY <1>1, <1>4 DEF SameRestart
<1>8. QED BY <1>1, <1>2, <1>4, <1>5, <1>6, <1>7

LEMMA StagedKeepsInstall ==
  ASSUME InstallInv, Staged
  PROVE  InstallInv'
<1>1. TypeOK'
  BY StagedDo, StateIs, BoundsStay, TypesAreNext DEF TypeOK, others, removals
<1>2. Alive /\ job.at \notin Swappings \cup Finishes
  BY StagedDo, JobsAreOfTheLiving DEF Swappings, Finishes
<1>3. /\ SameProcess /\ release' = release /\ (torn' <=> torn) /\ clearing' = clearing
      /\ disk'.target = disk.target
  BY StagedDo, ReportsStay DEF others, removals, SameFiles
<1>4. GoneIsGone'
  BY <1>2, <1>3 DEF GoneIsGone, SameProcess
<1>5. VersionsGrow'
  <2>1. 0 \in 0 .. release /\ job.v <= job.v
    BY StateIs
  <2>2. {status'.manifest, status'.staged, disk'.meta, job'.v} \subseteq {0, job.v}
    BY StagedDo
  <2>3. QED BY <1>2, <1>3, <2>1, <2>2, StagedDo DEF InstallInv, Shape, VersionsGrow,
          SameProcess, SameRestart
<1>6. JobIsOf'
  BY StagedDo DEF JobIsOf, Fetchings, Stagings, Installs, Swappings, Finishes, SameRestart
<1>7. job'.at \notin Installs
  BY StagedDo DEF Installs, Swappings, Finishes
<1>8. {status'.manifest, status'.staged, disk'.meta, job'.v} \subseteq
           {0, release, status.manifest, status.staged, disk.meta, job.v}
  BY StagedDo
<1>9. Shape'
  BY <1>4, <1>5, <1>6 DEF Shape
<1>10. /\ disk'.applied = disk.applied /\ release <= release'
       /\ status'.applied = status.applied /\ (status'.pending <=> status.pending)
       /\ status'.unmarked = status.unmarked
  BY <1>3, StagedDo, StateIs DEF SameRestart
<1>11. QED BY <1>1, <1>2, <1>3, <1>7, <1>8, <1>9, <1>10, OutsideSteps

(***************************************************************************)
(* Steps of an installation.                                               *)
(***************************************************************************)
\* The next file of the package is taken, or the next phase begins.
LEMMA OnwardGoes ==
  ASSUME job \in JobSet, NEW at \in Ats, NEW next \in Ats, job.v \in Versions,
         job.f \in Package[job.v], NEW j, j = Onward(at, next)
  PROVE  /\ j \in JobSet /\ j.v = job.v /\ j.moved = job.moved /\ j.added = job.added
         /\ j.f \in Package[job.v]
         /\ \/ /\ j.at = next /\ j.f = First(job.v)
               /\ \A g \in Package[job.v] : g <= job.f
            \/ /\ j.at = at /\ job.f < j.f
               /\ \A g \in Package[job.v] : g < j.f <=> g <= job.f
<1>1. First(job.v) \in Package[job.v]
  BY FirstIs
<1>2. Package[job.v] \subseteq Files
  BY PackagesAre
<1>3. CASE /\ j = [job EXCEPT !.at = next, !.f = First(job.v)]
           /\ \A g \in Package[job.v] : g <= job.f
  BY <1>1, <1>2, <1>3 DEF JobSet
<1>4. ASSUME NEW h \in Package[job.v], j = [job EXCEPT !.at = at, !.f = h],
             job.f < h, \A g \in Package[job.v] : g < h <=> g <= job.f
      PROVE  /\ j \in JobSet /\ j.v = job.v /\ j.moved = job.moved /\ j.added = job.added
             /\ j.f = h /\ j.at = at
  BY <1>2, <1>4 DEF JobSet
<1>5. \/ /\ j = [job EXCEPT !.at = next, !.f = First(job.v)]
         /\ \A g \in Package[job.v] : g <= job.f
      \/ \E h \in Package[job.v] :
           /\ j = [job EXCEPT !.at = at, !.f = h]
           /\ job.f < h /\ \A g \in Package[job.v] : g < h <=> g <= job.f
  BY OnwardIs
<1>6. CASE \E h \in Package[job.v] :
             /\ j = [job EXCEPT !.at = at, !.f = h]
             /\ job.f < h /\ \A g \in Package[job.v] : g < h <=> g <= job.f
  <2>1. PICK h \in Package[job.v] :
               /\ j = [job EXCEPT !.at = at, !.f = h]
               /\ job.f < h /\ \A g \in Package[job.v] : g < h <=> g <= job.f
    BY <1>6
  <2>2. QED BY <1>4, <2>1
<1>7. QED BY <1>3, <1>5, <1>6

\* What holds at any step of an installation.
LEMMA InstallsAre ==
  ASSUME InstallInv, job.at \in Installs
  PROVE  /\ Alive /\ job.v \in Versions /\ proc.current \in Versions
         /\ proc.current < job.v /\ job.v = status.staged /\ ~ status.pending
         /\ Package[proc.current] \subseteq Package[job.v]
         /\ Package[job.v] \subseteq Files /\ job.f \in Package[job.v] /\ job.f \in Files
         /\ job.moved \cup job.added \subseteq Package[job.v]
         /\ clearing = {} /\ cleaning = {} /\ disk.applied = 0 /\ job.v \in AnyVersion
         /\ Fits(job.v)
         /\ Base \in Versions /\ Package[Base] \subseteq Package[job.v]
<1>1. Alive /\ proc.current \in Versions /\ job.v \in Versions
  BY JobsAreOfTheLiving DEF Installs, Swappings, Finishes, Fetchings
<1>2. /\ job.v # 0 /\ job.v = status.staged /\ ~ status.pending
      /\ clearing = {} /\ cleaning = {} /\ disk.applied = 0
      /\ job.f \in Package[job.v] /\ job.moved \cup job.added \subseteq Package[job.v]
  BY DEF InstallInv, Shape, JobIsOf
<1>3. proc.current < job.v
  BY <1>2 DEF InstallInv, Shape, VersionsGrow
<1>4. Package[proc.current] \subseteq Package[job.v]
  <2>1. proc.current <= job.v
    <3>1. proc.current \in Nat /\ job.v \in Nat
      BY <1>1, PackagesAre
    <3>2. QED BY <1>3, <3>1
  <2>2. QED BY <1>1, <2>1, PackagesAre
<1>5. Fits(job.v)
  BY <1>2 DEF InstallInv, NextFits
<1>6. Base \in Versions /\ Package[Base] \subseteq Package[job.v]
  <2>1. status.unmarked \in AnyVersion
    BY StateIs DEF StatusSet
  <2>2. status.unmarked # 0 => status.unmarked \in Versions /\ status.unmarked <= job.v
    BY <1>2, <2>1, PackagesAre DEF InstallInv, Shape, VersionsGrow
  <2>3. status.unmarked # 0 => Package[status.unmarked] \subseteq Package[job.v]
    BY <1>1, <2>2, PackagesAre
  <2>4. QED BY <1>1, <1>4, <2>2, <2>3 DEF Base
<1>7. QED BY <1>1, <1>2, <1>3, <1>4, <1>5, <1>6, PackagesAre

\* A step within an installation: what is left to show is about the files.
LEMMA InstallSteps ==
  ASSUME InstallInv, TypeOK', job.at \in Installs, job'.at \in Installs,
         job'.v = job.v, job'.f \in Package[job.v],
         job'.moved \cup job'.added \subseteq Package[job.v],
         job'.at = "preparing" => job'.moved = {} /\ job'.added = {},
         \A g \in Files : disk'.target[g] # 0 => g \in Package[job.v],
         disk'.applied = disk.applied, disk'.meta \in {0, disk.meta},
         UNCHANGED <<release, proc, status, removals>>
  PROVE  Shape' /\ NextFits' /\ MarkIsTrue'
<1>1. /\ Alive /\ SameProcess /\ Alive' /\ proc' = proc /\ release' = release
      /\ status' = status /\ clearing' = clearing /\ cleaning' = cleaning
  BY InstallsAre, ReportsStay DEF SameProcess, removals
<1>2. GoneIsGone'
  BY <1>1 DEF GoneIsGone
<1>3. VersionsGrow'
  <2>1. 0 \in 0 .. release
    BY StateIs
  <2>2. QED BY <1>1, <2>1 DEF InstallInv, Shape, VersionsGrow
<1>4. JobIsOf'
  BY <1>1, InstallsAre DEF JobIsOf, InstallInv, Shape, Installs, Swappings, Finishes,
     Stagings, Fetchings
<1>5. NextFits'
  <2>1. ASSUME NEW x \in {release', status'.manifest, status'.staged, disk'.meta, job'.v},
               x # 0
        PROVE  \A g \in Files : disk'.target[g] # 0 => g \in Package[x]
    <3>1. x \in {release, status.manifest, status.staged, disk.meta, job.v}
      BY <1>1, <2>1
    <3>2. job.at \in {"unpacking"} \cup Installs
      OBVIOUS
    <3>3. Package[job.v] \subseteq Package[x]
      BY <2>1, <3>1, <3>2, CandidatesAreNewer
    <3>4. QED BY <3>3
  <2>2. QED BY <2>1 DEF NextFits, Fits
<1>6. MarkIsTrue'
  BY InstallsAre DEF MarkIsTrue
<1>7. QED BY <1>2, <1>3, <1>4, <1>5, <1>6 DEF Shape

\* The removals of earlier steps are through when an installation begins.
LEMMA UnpacksKeepsInstall ==
  ASSUME InstallInv, "slowRemovals" \notin Env, Unpacks
  PROVE  InstallInv'
<1>1. /\ job.at = "unpacking" /\ clearing = {} /\ cleaning = {}
      /\ UNCHANGED <<others, disk, status, removals, bounds>>
      /\ job' = [job EXCEPT !.at = "preparing", !.f = First(job.v)]
  BY DEF Unpacks, Prompt
<1>2. /\ Alive /\ job.v \in Versions /\ job \in JobSet /\ job.moved = {} /\ job.added = {}
      /\ job.v = status.staged /\ job.v # 0 /\ ~ status.pending
  <2>1. "unpacking" \notin Fetchings \cup Installs
    BY DEF Fetchings, Installs, Swappings, Finishes
  <2>2. QED BY <1>1, <2>1, StateIs, JobsAreOfTheLiving DEF InstallInv, Shape, JobIsOf
<1>3. /\ First(job.v) \in Package[job.v] /\ First(job.v) \in Files
      /\ \A g \in Package[job.v] : ~ (g < First(job.v))
  <2>1. First(job.v) \in Package[job.v] /\ \A g \in Package[job.v] : First(job.v) <= g
    BY <1>2, FirstIs
  <2>2. Package[job.v] \subseteq Files /\ Package[job.v] \subseteq Nat
    BY <1>2, PackagesAre
  <2>3. QED BY <2>1, <2>2
<1>4. /\ job' \in JobSet /\ job'.at = "preparing" /\ job'.v = job.v
      /\ job'.f = First(job.v) /\ job'.moved = {} /\ job'.added = {}
  <2>1. "preparing" \in Ats
    BY DEF Ats
  <2>2. QED BY <1>1, <1>2, <1>3, <2>1 DEF JobSet
<1>5. TypeOK'
  BY <1>1, <1>4, StateIs, BoundsStay, TypesAreNext DEF TypeOK, others, removals
<1>6. SameProcess /\ release' = release /\ (torn' <=> torn)
  BY <1>1, ReportsStay DEF others
<1>7. disk.applied = 0
  BY <1>1, <1>2 DEF InstallInv, MarkIsTrue
<1>8. GoneIsGone'
  BY <1>2, <1>6 DEF GoneIsGone, SameProcess
<1>9. VersionsGrow'
  BY <1>1, <1>4, <1>6 DEF InstallInv, Shape, VersionsGrow, SameProcess
<1>10. JobIsOf'
  BY <1>1, <1>2, <1>3, <1>4, <1>7 DEF JobIsOf, Fetchings, Stagings, Installs, Swappings,
     Finishes, removals
<1>11. NextFits'
  BY <1>1, <1>4, <1>6, StateIs, FitsStay
<1>12. Forward' /\ Back' /\ Rest' /\ MarkIsTrue'
  <2>1. /\ job.at \notin Swappings \cup Finishes /\ job'.at \notin Swappings \cup Finishes
    BY <1>1, <1>4 DEF Swappings, Finishes
  <2>2. \A g \in Package[job'.v] : g < job'.f => disk'.new[g] = job'.v
    BY <1>3, <1>4
  <2>3. QED BY <1>1, <1>6, <2>1, <2>2, RestStays DEF removals
<1>13. QED BY <1>5, <1>8, <1>9, <1>10, <1>11, <1>12 DEF InstallInv, Shape

LEMMA PrepareFailsKeepsInstall ==
  ASSUME InstallInv, PrepareFails
  PROVE  InstallInv'
<1>1. /\ job.at = "preparing" /\ disk' = NoNew /\ status' = Failed(status) /\ job' = NoJob
      /\ UNCHANGED <<others, removals, crashes, clicks>> /\ Fails
  BY DEF PrepareFails, ApplyEndsFailed, Settle
<1>2. /\ disk' \in DiskSet /\ SameStaging /\ disk'.target = disk.target
  BY <1>1, StateIs, UndoneIs
<1>3. status' \in StatusSet /\ SameReport /\ job' \in JobSet
  BY <1>1, StateIs, FailedIs, ReportsStay, NoJobIs
<1>4. failures' \in 0 .. MaxFailures
  BY <1>1, StateIs, BoundsStay
<1>5. TypeOK'
  BY <1>1, <1>2, <1>3, <1>4, StateIs, TypesAreNext DEF TypeOK, others, removals
<1>6. Alive /\ job.at \notin Swappings \cup Finishes
  BY <1>1, JobsAreOfTheLiving DEF Swappings, Finishes
<1>7. SameProcess /\ release <= release' /\ UNCHANGED <<removals, torn>>
  BY <1>1, StateIs, ReportsStay DEF others
<1>8. QED BY <1>1, <1>2, <1>3, <1>5, <1>6, <1>7, NoJobIs, QuietSteps

LEMMA PreparesKeepsInstall ==
  ASSUME InstallInv, Prepares
  PROVE  InstallInv'
<1> DEFINE v == job.v  f == job.f
<1>1. /\ job.at = "preparing" /\ disk' = [disk EXCEPT !.new[f] = v]
      /\ job' = Onward("preparing", "movingAside")
      /\ UNCHANGED <<others, status, removals, bounds>>
  BY DEF Prepares
<1>2. job.at \in Installs /\ {"preparing", "movingAside"} \subseteq Installs \cap Ats
  BY <1>1 DEF Installs, Swappings, Ats
<1>3. /\ disk' \in DiskSet /\ SameStaging
      /\ disk'.target = disk.target /\ disk'.old = disk.old
      /\ disk'.new[f] = v /\ \A g \in Files : g # f => disk'.new[g] = disk.new[g]
  BY <1>1, <1>2, StateIs, InstallsAre, PreparesDo
<1>4. /\ job' \in JobSet /\ job'.v = v /\ job'.moved = job.moved /\ job'.added = job.added
      /\ job'.f \in Package[v]
      /\ \/ /\ job'.at = "movingAside" /\ job'.f = First(v)
            /\ \A g \in Package[v] : g <= f
         \/ /\ job'.at = "preparing" /\ f < job'.f
            /\ \A g \in Package[v] : g < job'.f <=> g <= f
  BY <1>1, <1>2, StateIs, InstallsAre, OnwardGoes
<1>5. TypeOK'
  BY <1>1, <1>3, <1>4, StateIs, BoundsStay, TypesAreNext DEF TypeOK, others, removals
<1>6. job.moved = {} /\ job.added = {}
  BY <1>1 DEF InstallInv, Shape, JobIsOf
<1>7. Shape' /\ NextFits' /\ MarkIsTrue'
  <2>1. /\ job'.at \in Installs /\ disk'.applied = disk.applied /\ disk'.meta = disk.meta
    BY <1>2, <1>3, <1>4 DEF SameStaging
  <2>2. \A g \in Files : disk'.target[g] # 0 => g \in Package[v]
    BY <1>2, <1>3, InstallsAre DEF Fits
  <2>3. QED BY <1>1, <1>2, <1>4, <1>5, <1>6, <2>1, <2>2, InstallSteps DEF others
\* The files up to this one are there.
<1>8. \A g \in Package[v] : g <= f => disk'.new[g] = v
  <2>1. \A g \in Package[v] : g < f => disk.new[g] = v
    BY <1>1 DEF InstallInv, Forward
  <2>2. Package[v] \subseteq Files /\ Package[v] \subseteq Nat /\ f \in Package[v]
    BY <1>2, InstallsAre, PackagesAre
  <2>3. QED BY <1>3, <2>1, <2>2
<1>9. Forward'
  <2>1. CASE job'.at = "preparing"
    BY <1>4, <1>8, <2>1 DEF Forward, Finishes
  <2>2. CASE job'.at = "movingAside"
    <3>1. \A g \in Package[v] : disk'.new[g] = v /\ ~ (g < job'.f)
      <4>1. \A g \in Package[v] : First(v) <= g
        BY <1>2, InstallsAre, FirstIs
      <4>2. Package[v] \subseteq Nat
        BY <1>2, InstallsAre, PackagesAre
      <4>3. QED BY <1>4, <1>8, <2>2, <4>1, <4>2
    <3>2. QED BY <1>4, <2>2, <3>1 DEF Forward, Finishes
  <2>3. QED BY <1>4, <2>1, <2>2
\* Nothing that is installed has been touched.
<1>10. ~ torn => disk.target = Installed(Base)
  <2>1. job.at \notin Swappings \cup Finishes /\ Alive /\ ~ status.pending
    BY <1>1, <1>2, InstallsAre DEF Swappings, Finishes
  <2>2. QED BY <2>1 DEF InstallInv, Rest
<1>11. Back'
  <2>1. Base' = Base
    BY <1>1 DEF Base, others
  <2>2. QED BY <1>1, <1>3, <1>4, <1>6, <1>10, <2>1 DEF Back, others
<1>12. Rest'
  <2>1. job.at \notin Swappings \cup Finishes
    BY <1>1 DEF Swappings, Finishes
  <2>2. SameProcess /\ status' = status /\ torn' = torn /\ Base' = Base
    BY <1>1, ReportsStay DEF others, Base
  <2>3. QED BY <1>3, <2>1, <2>2 DEF InstallInv, Rest, SameProcess
<1>13. QED BY <1>5, <1>7, <1>9, <1>11, <1>12 DEF InstallInv

(***************************************************************************)
(* The swap.                                                               *)
(***************************************************************************)
LEMMA MovesAsideKeepsInstall ==
  ASSUME InstallInv, MovesAside
  PROVE  InstallInv'
<1> DEFINE v == job.v  f == job.f  u == Base
<1>1. /\ job.at = "movingAside"
      /\ disk' = [disk EXCEPT !.old[f] = disk.target[f], !.target[f] = 0]
      /\ job' = [job EXCEPT !.at = "movingIn",
                   !.moved = IF disk.target[f] # 0 THEN @ \cup {f} ELSE @]
      /\ UNCHANGED <<others, status, removals, bounds>>
  BY DEF MovesAside
<1>2. job.at \in Installs /\ job.at \in Swappings
  BY <1>1 DEF Installs, Swappings
<1>3. /\ disk' \in DiskSet /\ SameStaging /\ disk'.new = disk.new
      /\ disk'.target[f] = 0 /\ disk'.old[f] = disk.target[f]
      /\ \A g \in Files : g # f => /\ disk'.target[g] = disk.target[g]
                                   /\ disk'.old[g] = disk.old[g]
  BY <1>1, <1>2, StateIs, InstallsAre, MovesAsideDo
<1>4. /\ job' \in JobSet /\ job'.at = "movingIn" /\ job'.v = v /\ job'.f = f
      /\ job'.moved = (IF disk.target[f] # 0 THEN job.moved \cup {f} ELSE job.moved)
      /\ job'.added = job.added
  <2>1. "movingIn" \in Ats /\ f \in Files
    BY <1>2, InstallsAre DEF Ats
  <2>2. QED BY <1>1, <2>1, StateIs DEF JobSet
<1>5. TypeOK'
  BY <1>1, <1>3, <1>4, StateIs, BoundsStay, TypesAreNext DEF TypeOK, others, removals
<1>6. Shape' /\ NextFits' /\ MarkIsTrue'
  <2>1. job'.at \in Installs /\ job'.at # "preparing"
    BY <1>4 DEF Installs, Swappings
  <2>2. \A g \in Files : disk'.target[g] # 0 => g \in Package[v]
    BY <1>2, <1>3, InstallsAre DEF Fits
  <2>3. job'.f \in Package[v] /\ job'.moved \cup job'.added \subseteq Package[v]
    BY <1>2, <1>4, InstallsAre
  <2>4. disk'.applied = disk.applied /\ disk'.meta = disk.meta
    BY <1>3 DEF SameStaging
  <2>5. QED BY <1>1, <1>2, <1>4, <1>5, <2>1, <2>2, <2>3, <2>4, InstallSteps DEF others
<1>7. Forward'
  <2>1. \A g \in Package[v] : IF g < f THEN disk.target[g] = v ELSE disk.new[g] = v
    BY <1>1 DEF InstallInv, Forward
  <2>2. Package[v] \subseteq Files /\ Package[v] \subseteq Nat /\ f \in Package[v]
    BY <1>2, InstallsAre, PackagesAre
  <2>3. \A g \in Package[v] : IF g < f THEN disk'.target[g] = v ELSE disk'.new[g] = v
    <3>1. \A g \in Package[v] : g < f => g # f /\ g \in Files
      BY <2>2
    <3>2. QED BY <1>3, <2>1, <3>1
  <2>4. QED BY <1>3, <1>4, <2>3 DEF Forward, Finishes
<1>8. Back'
  <2> SUFFICES ASSUME ~ torn
               PROVE  Back'
    BY <1>1 DEF Back, others
  <2>1. /\ \A g \in job.moved : g \in Package[u] /\ disk.old[g] = u
        /\ \A g \in job.added : g \notin Package[u]
        /\ \A g \in Files \ (job.moved \cup job.added) : disk.target[g] = Installed(u)[g]
        /\ \A g \in Package[v] : g >= f => g \notin job.moved \cup job.added
    BY <1>1, <1>2 DEF InstallInv, Back
  <2>2. /\ Package[v] \subseteq Files /\ Package[v] \subseteq Nat /\ f \in Package[v]
        /\ f \in Files /\ u \in Versions
        /\ job.moved \cup job.added \subseteq Files
    BY <1>2, InstallsAre, PackagesAre
  <2>f. f >= f
    BY <2>2
  <2>3. f \notin job.moved \cup job.added /\ disk.target[f] = Installed(u)[f]
    BY <2>1, <2>2, <2>f
  <2>4. /\ \A g \in Files : Installed(u)[g] = IF g \in Package[u] THEN u ELSE 0
        /\ \A g \in Files : Installed(u)[g] # 0 <=> g \in Package[u]
    BY <2>2, InstalledIs
  <2>5. \A g \in job'.moved : g \in Package[u] /\ disk'.old[g] = u
    <3>1. \A g \in job.moved : g \in Package[u] /\ disk'.old[g] = u
      BY <1>3, <2>1, <2>2, <2>3
    <3>2. disk.target[f] # 0 => f \in Package[u] /\ disk'.old[f] = u
      BY <1>3, <2>2, <2>3, <2>4
    <3>3. QED BY <1>4, <3>1, <3>2
  <2>6. \A g \in Files \ (job'.moved \cup job'.added) : disk'.target[g] = Installed(u)[g]
    BY <1>3, <1>4, <2>1, <2>3
  <2>7. /\ \A g \in Package[v] : g > f => g \notin job'.moved \cup job'.added
        /\ f \notin job'.added
    <3>1. \A g \in Package[v] : g > f => g # f /\ g >= f
      BY <2>2
    <3>2. QED BY <1>4, <2>1, <2>3, <3>1
  <2>8. Base' = Base
    BY <1>1 DEF others, Base
  <2>9. QED BY <1>4, <2>1, <2>5, <2>6, <2>7, <2>8 DEF Back
<1>9. Rest'
  BY <1>4 DEF Rest, Swappings
<1>10. QED BY <1>5, <1>6, <1>7, <1>8, <1>9 DEF InstallInv

LEMMA MovesInKeepsInstall ==
  ASSUME InstallInv, MovesIn
  PROVE  InstallInv'
<1> DEFINE v == job.v  f == job.f  u == Base
           next == Onward("movingAside", "droppingArchive")
<1>1. /\ job.at = "movingIn"
      /\ disk' = [disk EXCEPT !.target[f] = disk.new[f], !.new[f] = 0]
      /\ job' = [next EXCEPT !.added = IF f \in job.moved THEN @ ELSE @ \cup {f}]
      /\ UNCHANGED <<others, status, removals, bounds>>
  BY DEF MovesIn
<1>2. /\ job.at \in Installs /\ job.at \in Swappings
      /\ {"movingAside", "droppingArchive"} \subseteq Installs \cap Ats
      /\ "preparing" \notin {"movingAside", "droppingArchive"}
  BY <1>1 DEF Installs, Swappings, Ats, Finishes
<1>3. /\ disk' \in DiskSet /\ SameStaging /\ disk'.old = disk.old
      /\ disk'.target[f] = disk.new[f] /\ disk'.new[f] = 0
      /\ \A g \in Files : g # f => /\ disk'.target[g] = disk.target[g]
                                   /\ disk'.new[g] = disk.new[g]
  BY <1>1, <1>2, StateIs, InstallsAre, MovesInDo
<1>4. /\ next \in JobSet /\ next.v = v /\ next.moved = job.moved /\ next.added = job.added
      /\ next.f \in Package[v]
      /\ \/ /\ next.at = "droppingArchive" /\ next.f = First(v)
            /\ \A g \in Package[v] : g <= f
         \/ /\ next.at = "movingAside" /\ f < next.f
            /\ \A g \in Package[v] : g < next.f <=> g <= f
  BY <1>2, StateIs, InstallsAre, OnwardGoes
<1> HIDE DEF next
<1>5. /\ job' \in JobSet /\ job'.v = v /\ job'.moved = job.moved
      /\ job'.f = next.f /\ job'.at = next.at
      /\ job'.added = (IF f \in job.moved THEN job.added ELSE job.added \cup {f})
  <2>1. f \in Files
    BY <1>2, InstallsAre
  <2>2. QED BY <1>1, <1>4, <2>1 DEF JobSet
<1>6. TypeOK'
  BY <1>1, <1>3, <1>5, StateIs, BoundsStay, TypesAreNext DEF TypeOK, others, removals
<1>7. /\ Package[v] \subseteq Files /\ Package[v] \subseteq Nat /\ f \in Package[v]
      /\ f \in Files /\ u \in Versions /\ job.moved \cup job.added \subseteq Files
      /\ v \in Versions
  BY <1>2, InstallsAre, PackagesAre
<1>8. Shape' /\ NextFits' /\ MarkIsTrue'
  <2>1. job'.at \in Installs /\ job'.at # "preparing"
    BY <1>2, <1>4, <1>5
  <2>2. \A g \in Files : disk'.target[g] # 0 => g \in Package[v]
    BY <1>2, <1>3, <1>7, InstallsAre DEF Fits
  <2>3. job'.f \in Package[v] /\ job'.moved \cup job'.added \subseteq Package[v]
    BY <1>2, <1>4, <1>5, InstallsAre
  <2>4. disk'.applied = disk.applied /\ disk'.meta = disk.meta
    BY <1>3 DEF SameStaging
  <2>5. QED BY <1>1, <1>2, <1>5, <1>6, <2>1, <2>2, <2>3, <2>4, InstallSteps DEF others
\* The files up to this one are of the new version, the others still wait.
<1>9. /\ \A g \in Package[v] : g <= f => disk'.target[g] = v
      /\ \A g \in Package[v] : g > f => disk'.new[g] = v
  <2>1. \A g \in Package[v] : IF g < f THEN disk.target[g] = v ELSE disk.new[g] = v
    BY <1>1 DEF InstallInv, Forward
  <2>2. \A g \in Package[v] : /\ g <= f => g < f \/ g = f
                              /\ g > f => g # f /\ ~ (g < f)
                              /\ g < f => g # f
                              /\ ~ (f < f)
    BY <1>7
  <2>3. \A g \in Package[v] : g \in Files
    BY <1>7
  <2>4. QED BY <1>3, <1>7, <2>1, <2>2, <2>3
<1>10. Forward'
  <2>1. CASE next.at = "movingAside"
    <3>1. \A g \in Package[v] : IF g < next.f THEN disk'.target[g] = v
                                              ELSE disk'.new[g] = v
      <4>1. \A g \in Package[v] : ~ (g <= f) => g > f
        BY <1>7
      <4>2. /\ \A g \in Package[v] : g < next.f <=> g <= f
        BY <1>4, <2>1
      <4>3. QED BY <1>9, <4>1, <4>2
    <3>2. QED BY <1>5, <2>1, <3>1 DEF Forward, Finishes
  <2>2. CASE next.at = "droppingArchive"
    <3>1. \A g \in Package[v] : disk'.target[g] = v
      BY <1>4, <1>9, <2>2
    <3>2. \A g \in Files : g \notin Package[v] => disk'.target[g] = 0
      BY <1>2, <1>3, <1>7, InstallsAre DEF Fits
    <3>3. disk'.target = Installed(v)
      BY <1>3, <3>1, <3>2 DEF DiskSet, Installed
    <3>4. QED BY <1>5, <2>2, <3>3 DEF Forward
  <2>3. QED BY <1>4, <2>1, <2>2
<1>11. Back'
  <2> SUFFICES ASSUME ~ torn, next.at = "movingAside"
               PROVE  Back'
    BY <1>1, <1>4, <1>5 DEF Back, others, Swappings
  <2>1. /\ \A g \in job.moved : g \in Package[u] /\ disk.old[g] = u
        /\ \A g \in job.added : g \notin Package[u]
        /\ \A g \in Files \ (job.moved \cup job.added) : disk.target[g] = Installed(u)[g]
        /\ \A g \in Package[v] : g > f => g \notin job.moved \cup job.added
        /\ f \notin job.added /\ disk.target[f] = 0
    BY <1>1, <1>2 DEF InstallInv, Back, Forward
  <2>2. f \notin job.moved => f \notin Package[u]
    <3>1. Installed(u)[f] # 0 <=> f \in Package[u]
      BY <1>7, InstalledIs
    <3>2. QED BY <1>7, <2>1, <3>1
  <2>3. \A g \in job'.moved : g \in Package[u] /\ disk'.old[g] = u
    BY <1>3, <1>5, <2>1
  <2>4. \A g \in job'.added : g \notin Package[u]
    BY <1>5, <2>1, <2>2
  <2>5. \A g \in Files \ (job'.moved \cup job'.added) : disk'.target[g] = Installed(u)[g]
    BY <1>3, <1>5, <2>1
  <2>6. \A g \in Package[v] : g >= next.f => g \notin job'.moved \cup job'.added
    <3>1. next.f \in Nat
      BY <1>4, <1>7
    <3>2. \A g \in Package[v] : g >= next.f => g > f /\ g # f
      BY <1>4, <1>7, <3>1
    <3>3. QED BY <1>5, <2>1, <3>2
  <2>7. Base' = Base
    BY <1>1 DEF others, Base
  <2>8. QED BY <1>5, <2>3, <2>4, <2>5, <2>6, <2>7 DEF Back
<1>12. Rest'
  BY <1>4, <1>5 DEF Rest, Swappings, Finishes
<1>13. QED BY <1>6, <1>8, <1>10, <1>11, <1>12 DEF InstallInv

\* A step that fails: what has been moved so far is known.
LEMMA SwapFailsKeepsInstall ==
  ASSUME InstallInv, SwapFails
  PROVE  InstallInv'
<1>1. /\ job.at \in {"movingAside", "movingIn"} /\ Goes("restoring")
      /\ UNCHANGED <<others, disk, status, removals, crashes, clicks>>
      /\ Fails \/ UNCHANGED failures
  BY DEF SwapFails
<1>2. job.at \in Installs /\ job.at \in Swappings /\ "restoring" \in Ats
  BY <1>1 DEF Installs, Swappings, Ats
<1>3. /\ job' \in JobSet /\ job'.at = "restoring" /\ job'.v = job.v /\ job'.f = job.f
      /\ job'.moved = job.moved /\ job'.added = job.added
  BY <1>1, <1>2, StateIs, GoesDoes
<1>4. failures' \in 0 .. MaxFailures
  BY <1>1, StateIs, BoundsStay DEF TypeOK
<1>5. TypeOK'
  BY <1>1, <1>3, <1>4, StateIs, TypesAreNext DEF TypeOK, others, removals
<1>6. Shape' /\ NextFits' /\ MarkIsTrue'
  <2>1. job'.at \in Installs /\ job'.at # "preparing"
    BY <1>3 DEF Installs, Swappings
  <2>2. \A g \in Files : disk'.target[g] # 0 => g \in Package[job.v]
    BY <1>1, <1>2, InstallsAre DEF Fits
  <2>3. job'.f \in Package[job.v] /\ job'.moved \cup job'.added \subseteq Package[job.v]
    BY <1>2, <1>3, InstallsAre
  <2>4. disk'.applied = disk.applied /\ disk'.meta = disk.meta
    BY <1>1
  <2>5. QED BY <1>1, <1>2, <1>3, <1>5, <2>1, <2>2, <2>3, <2>4, InstallSteps DEF others
<1>7. Forward' /\ Rest'
  BY <1>3 DEF Forward, Rest, Swappings, Finishes
<1>8. Back'
  <2>1. disk' = disk /\ Base' = Base /\ torn' = torn
    BY <1>1 DEF others, Base
  <2>2. QED BY <1>2, <1>3, <2>1 DEF InstallInv, Back
<1>9. QED BY <1>5, <1>6, <1>7, <1>8 DEF InstallInv

\* A file that was moved aside comes back: its place is cleared, then it is moved.
LEMMA RestoresKeepsInstall ==
  ASSUME InstallInv, Restores
  PROVE  InstallInv'
<1> DEFINE v == job.v  f == Max(job.moved)  u == Base
<1>1. /\ job.moved # {} /\ job.at \in {"restoring", "movingBack"}
      /\ UNCHANGED <<others, status, removals, bounds>>
  BY DEF Restores
<1>2. job.at \in Installs /\ job.at \in Swappings /\ {"restoring", "movingBack"} \subseteq Ats
  BY <1>1 DEF Installs, Swappings, Ats
<1>3. /\ f \in job.moved /\ f \in Package[v] /\ f \in Files
      /\ Package[v] \subseteq Files /\ u \in Versions
  <2>1. job.moved \in SUBSET Files
    BY StateIs DEF JobSet
  <2>2. f \in job.moved
    BY <1>1, <2>1, LastIs
  <2>3. QED BY <1>2, <2>2, InstallsAre
<1>4. \/ /\ job.at = "restoring" /\ disk' = [disk EXCEPT !.target[f] = 0]
         /\ Goes("movingBack")
      \/ /\ job.at = "movingBack"
         /\ disk' = [disk EXCEPT !.target[f] = disk.old[f], !.old[f] = 0]
         /\ job' = [job EXCEPT !.at = "restoring", !.moved = @ \ {f}]
  BY DEF Restores
<1> HIDE DEF f
<1>5. /\ disk' \in DiskSet /\ SameStaging /\ disk'.new = disk.new
      /\ \A g \in Files : g # f => /\ disk'.target[g] = disk.target[g]
                                   /\ disk'.old[g] = disk.old[g]
      /\ job.at = "restoring" => disk'.old = disk.old
      /\ job.at = "movingBack" => disk'.target[f] = disk.old[f]
  <2>1. CASE job.at = "restoring"
    <3>1. disk' = [disk EXCEPT !.target[f] = 0]
      BY <1>4, <2>1
    <3>2. QED BY <1>3, <2>1, <3>1, StateIs, RemovesDo
  <2>2. CASE job.at = "movingBack"
    <3>1. disk' = [disk EXCEPT !.target[f] = disk.old[f], !.old[f] = 0]
      BY <1>4, <2>2
    <3>2. QED BY <1>3, <2>2, <3>1, StateIs, MovesBackDo
  <2>3. QED BY <1>1, <2>1, <2>2
<1>6. /\ job' \in JobSet /\ job'.v = v /\ job'.f = job.f /\ job'.added = job.added
      /\ \/ /\ job.at = "restoring" /\ job'.at = "movingBack" /\ job'.moved = job.moved
         \/ /\ job.at = "movingBack" /\ job'.at = "restoring"
            /\ job'.moved = job.moved \ {f}
  <2>1. CASE job.at = "restoring"
    BY <1>2, <1>4, <2>1, StateIs, GoesDoes
  <2>2. CASE job.at = "movingBack"
    <3>1. job' = [job EXCEPT !.at = "restoring", !.moved = @ \ {f}]
      BY <1>4, <2>2
    <3>2. QED BY <1>2, <2>2, <3>1, StateIs DEF JobSet
  <2>3. QED BY <1>1, <2>1, <2>2
<1>7. TypeOK'
  BY <1>1, <1>5, <1>6, StateIs, BoundsStay, TypesAreNext DEF TypeOK, others, removals
<1>8. job'.at \in Swappings /\ job'.at \in {"restoring", "movingBack"}
  BY <1>6 DEF Swappings
<1>9. Shape' /\ NextFits' /\ MarkIsTrue'
  <2>1. job'.at \in Installs /\ job'.at # "preparing"
    BY <1>8 DEF Installs
  <2>2. \A g \in Files : disk'.target[g] # 0 => g \in Package[v]
    BY <1>2, <1>3, <1>5, InstallsAre DEF Fits
  <2>3. job'.f \in Package[v] /\ job'.moved \cup job'.added \subseteq Package[v]
    BY <1>2, <1>6, InstallsAre
  <2>4. disk'.applied = disk.applied /\ disk'.meta = disk.meta
    BY <1>5 DEF SameStaging
  <2>5. QED BY <1>1, <1>2, <1>6, <1>7, <2>1, <2>2, <2>3, <2>4, InstallSteps DEF others
<1>10. Forward' /\ Rest'
  BY <1>8 DEF Forward, Rest, Swappings, Finishes
<1>11. Back'
  <2> SUFFICES ASSUME ~ torn
               PROVE  Back'
    BY <1>1 DEF Back, others
  <2>1. /\ \A g \in job.moved : g \in Package[u] /\ disk.old[g] = u
        /\ \A g \in job.added : g \notin Package[u]
        /\ \A g \in Files \ (job.moved \cup job.added) : disk.target[g] = Installed(u)[g]
    BY <1>2 DEF InstallInv, Back
  <2>2. job.moved \subseteq Files
    BY <1>2, <1>3, InstallsAre
  <2>3. \A g \in job'.moved : g \in Package[u] /\ disk'.old[g] = u
    BY <1>5, <1>6, <2>1, <2>2
  <2>4. \A g \in Files \ (job'.moved \cup job'.added) : disk'.target[g] = Installed(u)[g]
    <3>1. job.at = "movingBack" => disk'.target[f] = Installed(u)[f]
      BY <1>3, <1>5, <2>1, InstalledIs
    <3>2. QED BY <1>3, <1>5, <1>6, <2>1, <3>1
  <2>5. Base' = Base
    BY <1>1 DEF others, Base
  <2>6. QED BY <1>6, <1>8, <2>1, <2>3, <2>4, <2>5 DEF Back
<1>12. QED BY <1>7, <1>9, <1>10, <1>11 DEF InstallInv

\* A file that cannot be moved back is given up, and what is installed is no version.
LEMMA RestoreFailsKeepsInstall ==
  ASSUME InstallInv, RestoreFails
  PROVE  InstallInv'
<1>1. /\ job.at = "movingBack" /\ torn' = TRUE /\ Fails
      /\ job' = [job EXCEPT !.at = "restoring", !.moved = @ \ {Max(job.moved)}]
      /\ UNCHANGED <<release, proc, settings, mode, disk, status, removals, crashes,
                     clicks>>
  BY DEF RestoreFails
<1>2. job.at \in Installs /\ "restoring" \in Ats
  BY <1>1 DEF Installs, Swappings, Ats
<1>3. /\ job' \in JobSet /\ job'.at = "restoring" /\ job'.v = job.v /\ job'.f = job.f
      /\ job'.moved \subseteq job.moved /\ job'.added = job.added
  BY <1>1, <1>2, StateIs DEF JobSet
<1>4. failures' \in 0 .. MaxFailures
  BY <1>1, StateIs, BoundsStay
<1>5. TypeOK'
  BY <1>1, <1>3, <1>4, StateIs, TypesAreNext DEF TypeOK, removals
<1>6. Shape' /\ NextFits' /\ MarkIsTrue'
  <2>1. job'.at \in Installs /\ job'.at # "preparing"
    BY <1>3 DEF Installs, Swappings
  <2>2. \A g \in Files : disk'.target[g] # 0 => g \in Package[job.v]
    BY <1>1, <1>2, InstallsAre DEF Fits
  <2>3. job'.f \in Package[job.v] /\ job'.moved \cup job'.added \subseteq Package[job.v]
    BY <1>2, <1>3, InstallsAre
  <2>4. disk'.applied = disk.applied /\ disk'.meta = disk.meta
    BY <1>1
  <2>5. QED BY <1>1, <1>2, <1>3, <1>5, <2>1, <2>2, <2>3, <2>4, InstallSteps
<1>7. Forward' /\ Rest' /\ Back'
  BY <1>1, <1>3 DEF Forward, Rest, Back, Swappings, Finishes
<1>8. QED BY <1>5, <1>6, <1>7 DEF InstallInv

\* All are back, and what was added goes: the version before is installed again.
LEMMA RolledBackKeepsInstall ==
  ASSUME InstallInv, RolledBack
  PROVE  InstallInv'
<1> DEFINE u == Base
<1>1. /\ job.at = "restoring" /\ job.moved = {} /\ disk' = Undone(disk)
      /\ status' = Failed(status) /\ job' = NoJob
      /\ UNCHANGED <<others, removals, bounds>>
  BY DEF RolledBack, ApplyEndsFailed, Settle
<1>2. job.at \in Installs /\ job.at \in Swappings
  BY <1>1 DEF Installs, Swappings
<1>3. /\ disk' \in DiskSet /\ SameStaging
      /\ \A g \in Files : disk'.target[g] = IF g \in job.added THEN 0 ELSE disk.target[g]
  BY <1>1, StateIs, UndoneIs
<1>4. status' \in StatusSet /\ SameReport /\ job' \in JobSet
  BY <1>1, StateIs, FailedIs, ReportsStay, NoJobIs
<1>5. TypeOK'
  BY <1>1, <1>3, <1>4, StateIs, BoundsStay, TypesAreNext DEF TypeOK, others, removals
<1>6. /\ Alive /\ Alive' /\ proc' = proc /\ release' = release /\ torn' = torn
      /\ ~ status'.pending /\ disk'.applied = 0 /\ Base' = Base
  BY <1>1, <1>2, <1>3, <1>4, InstallsAre, ReportsStay DEF others, SameProcess, SameReport,
     SameStaging, Base
<1>7. GoneIsGone'
  BY <1>6 DEF GoneIsGone
<1>8. VersionsGrow'
  <2>1. 0 \in 0 .. release
    BY StateIs
  <2>2. QED BY <1>1, <1>3, <1>4, <1>6, <2>1, NoJobIs DEF InstallInv, Shape, VersionsGrow,
          SameReport, SameStaging
<1>9. JobIsOf'
  BY <1>1, NoJobIs DEF JobIsOf, Fetchings, Stagings, Installs, Swappings, Finishes
<1>10. NextFits'
  <2>1. ASSUME NEW x \in {release', status'.manifest, status'.staged, disk'.meta, job'.v},
               x # 0
        PROVE  \A g \in Files : disk'.target[g] # 0 => g \in Package[x]
    <3>1. x \in {release, status.manifest, status.staged, disk.meta, job.v}
      BY <1>1, <1>3, <1>4, <1>6, <2>1, NoJobIs DEF SameReport, SameStaging
    <3>2. Fits(x)
      BY <2>1, <3>1 DEF InstallInv, NextFits
    <3>3. QED BY <1>3, <3>2 DEF Fits
  <2>2. QED BY <2>1 DEF NextFits, Fits
<1>11. Forward' /\ Back' /\ MarkIsTrue'
  BY <1>1, <1>6, NoJobIs DEF Forward, Back, MarkIsTrue, Swappings, Finishes
<1>12. Rest'
  <2> SUFFICES ASSUME ~ torn
               PROVE  Rest'
    BY <1>6 DEF Rest
  <2>1. /\ \A g \in job.added : g \notin Package[u]
        /\ \A g \in Files \ job.added : disk.target[g] = Installed(u)[g]
    BY <1>1, <1>2 DEF InstallInv, Back
  <2>2. u \in Versions
    BY <1>2, InstallsAre
  <2>3. \A g \in Files : disk'.target[g] = Installed(u)[g]
    BY <1>3, <2>1, <2>2, InstalledIs
  <2>4. disk'.target = Installed(u)
    BY <1>3, <2>3 DEF DiskSet, Installed
  <2>5. disk'.target[1] = u /\ u # 0
    BY <2>2, <2>4, InstalledIs, PackagesAre
  <2>6. QED BY <1>6, <2>4, <2>5 DEF Rest
<1>13. QED BY <1>5, <1>7, <1>8, <1>9, <1>10, <1>11, <1>12 DEF InstallInv, Shape

(***************************************************************************)
(* The installation is recorded.                                           *)
(***************************************************************************)
LEMMA DropsPackageDo ==
  ASSUME InstallInv, DropsPackage
  PROVE  /\ disk' \in DiskSet /\ SameFiles /\ disk'.applied = disk.applied
         /\ job' \in JobSet /\ job'.v = job.v /\ job'.f = job.f
         /\ job'.moved = job.moved /\ job'.added = job.added
         /\ UNCHANGED <<others, status, removals, bounds>>
         /\ \/ /\ job.at = "droppingArchive" /\ job'.at = "droppingMeta"
               /\ disk'.archive = 0 /\ disk'.meta = disk.meta
            \/ /\ job.at = "droppingMeta" /\ job'.at = "marking"
               /\ disk'.archive = disk.archive /\ disk'.meta = 0
<1>1. UNCHANGED <<others, status, removals, bounds>>
  BY DEF DropsPackage
<1>2. job \in JobSet /\ disk \in DiskSet /\ 0 \in AnyVersion
      /\ {"droppingMeta", "marking"} \subseteq Ats
  BY StateIs, PackagesAre DEF Ats
<1>3. CASE /\ job.at = "droppingArchive" /\ disk' = [disk EXCEPT !.archive = 0]
           /\ Goes("droppingMeta")
  BY <1>1, <1>2, <1>3, GoesDoes, StagesDo
<1>4. CASE /\ job.at = "droppingMeta" /\ disk' = [disk EXCEPT !.meta = 0]
           /\ Goes("marking")
  BY <1>1, <1>2, <1>4, GoesDoes, StagesDo
<1>5. QED BY <1>3, <1>4 DEF DropsPackage

LEMMA DropsPackageKeepsInstall ==
  ASSUME InstallInv, DropsPackage
  PROVE  InstallInv'
<1>1. job.at \in Finishes /\ job'.at \in Finishes /\ job'.at \in Installs
      /\ job.at \in Installs /\ job'.at # "preparing"
  BY DropsPackageDo DEF Finishes, Installs
<1>2. TypeOK'
  BY DropsPackageDo, StateIs, BoundsStay, TypesAreNext DEF TypeOK, others, removals
<1>3. disk'.target = disk.target
  BY DropsPackageDo DEF SameFiles
<1>4. Shape' /\ NextFits' /\ MarkIsTrue'
  <2>1. \A g \in Files : disk'.target[g] # 0 => g \in Package[job.v]
    BY <1>1, <1>3, InstallsAre DEF Fits
  <2>2. job'.f \in Package[job.v] /\ job'.moved \cup job'.added \subseteq Package[job.v]
    BY <1>1, DropsPackageDo, InstallsAre
  <2>3. QED BY <1>1, <1>2, <2>1, <2>2, DropsPackageDo, InstallSteps DEF others
<1>5. Forward'
  BY <1>1, <1>3, DropsPackageDo DEF InstallInv, Forward, Finishes
<1>6. Back' /\ Rest'
  BY <1>1 DEF Back, Rest, Swappings, Finishes
<1>7. QED BY <1>2, <1>4, <1>5, <1>6 DEF InstallInv

\* The new version is marked, and a restart is due.
LEMMA AppliedDo ==
  ASSUME InstallInv, Applied
  PROVE  /\ job.at = "marking" /\ job' = NoJob /\ torn' = FALSE
         /\ UNCHANGED <<release, settings, mode, removals, bounds>>
         /\ disk' \in DiskSet /\ SameFiles /\ disk'.applied = job.v
         /\ disk'.archive = disk.archive /\ disk'.meta = disk.meta
         /\ status' \in StatusSet /\ proc' \in ProcSet /\ SameProcess
         /\ status'.manifest = status.manifest /\ status'.staged = 0 /\ ~ status'.ready
         /\ status'.applied = job.v /\ status'.pending /\ status'.unmarked = 0
         /\ \/ /\ ~ status.restarting /\ mode # "none" /\ status'.restarting
               /\ proc'.restarts = proc.restarts + 1
            \/ /\ (status'.restarting <=> status.restarting)
               /\ proc'.restarts = proc.restarts
<1> DEFINE st == [status EXCEPT !.staged = 0, !.ready = FALSE, !.applied = job.v,
                             !.pending = job.v # proc.current, !.unmarked = 0]
<1>1. /\ job.at = "marking" /\ job' = NoJob /\ torn' = FALSE
      /\ disk' = [disk EXCEPT !.applied = job.v]
      /\ UNCHANGED <<release, settings, mode, removals, bounds>>
      /\ IF settings.restart /\ st.pending
         THEN Restarts(st) ELSE status' = st /\ UNCHANGED proc
  BY DEF Applied, Settle
<1>2. job.at \in Installs
  BY <1>1 DEF Installs, Finishes
<1>3. job.v # proc.current /\ job.v \in AnyVersion
  <2>1. job.v \in Nat /\ proc.current \in Nat
    BY StateIs
  <2>2. QED BY <1>2, <2>1, InstallsAre
<1>4. /\ disk' \in DiskSet /\ SameFiles /\ disk'.applied = job.v
      /\ disk'.archive = disk.archive /\ disk'.meta = disk.meta
  BY <1>1, <1>3, StateIs, StagesDo
<1>5. /\ st \in StatusSet /\ st.manifest = status.manifest /\ st.staged = 0 /\ ~ st.ready
      /\ st.applied = job.v /\ st.pending /\ (st.restarting <=> status.restarting)
      /\ st.unmarked = 0
  BY <1>3, StateIs, PackagesAre DEF StatusSet
<1> HIDE DEF st
<1>6. \/ Restarts(st)
      \/ status' = st /\ UNCHANGED proc
  BY <1>1
<1>7. CASE Restarts(st)
  <2>1. proc \in ProcSet
    BY StateIs
  <2>2. QED BY <1>1, <1>4, <1>5, <1>7, <2>1, RestartsDo DEF MayRestart
<1>8. CASE status' = st /\ UNCHANGED proc
  BY <1>1, <1>4, <1>5, <1>8, StateIs, ReportsStay
<1>9. QED BY <1>6, <1>7, <1>8

LEMMA AppliedKeepsInstall ==
  ASSUME InstallInv, Applied
  PROVE  InstallInv'
<1> DEFINE v == job.v
<1>1. TypeOK'
  <2>1. job' \in JobSet /\ torn' \in BOOLEAN
    BY AppliedDo, NoJobIs
  <2>2. QED BY <2>1, AppliedDo, StateIs, BoundsStay, TypesAreNext DEF TypeOK, removals
<1>2. job.at \in Installs /\ job.at \in Finishes
  BY AppliedDo DEF Installs, Finishes
<1>3. /\ Alive' /\ proc'.current = proc.current /\ release' = release
      /\ disk'.target = disk.target /\ disk'.meta = disk.meta
      /\ job'.at = "none" /\ job'.v = 0 /\ job'.moved = {} /\ job'.added = {}
  BY <1>2, AppliedDo, InstallsAre, NoJobIs DEF SameProcess, SameFiles
<1>4. GoneIsGone'
  BY <1>3 DEF GoneIsGone
<1>5. VersionsGrow'
  <2>1. 0 \in 0 .. release /\ 0 <= status.manifest
    BY StateIs
  <2>2. Alive
    BY <1>2, InstallsAre
  <2>3. QED BY <1>3, <2>1, <2>2, AppliedDo DEF InstallInv, Shape, VersionsGrow
<1>6. JobIsOf'
  BY <1>3 DEF JobIsOf, Fetchings, Stagings, Installs, Swappings, Finishes
<1>7. NextFits'
  <2>1. {status'.manifest, status'.staged, disk'.meta, job'.v} \subseteq
           {0, release, status.manifest, status.staged, disk.meta, job.v}
    BY <1>3, AppliedDo
  <2>2. release' \in Versions /\ release <= release'
    BY <1>3, StateIs
  <2>3. QED BY <1>3, <2>1, <2>2, FitsStay
<1>8. disk'.target = Installed(v) /\ disk'.target[1] = v /\ v # 0
  <2>1. disk.target = Installed(v)
    BY <1>2 DEF InstallInv, Forward
  <2>2. v \in Versions
    BY <1>2, InstallsAre
  <2>3. Installed(v)[1] = v /\ v # 0
    BY <2>2, InstalledIs, PackagesAre
  <2>4. QED BY <1>3, <2>1, <2>3
<1>9. Forward' /\ Back'
  BY <1>3 DEF Forward, Back, Swappings, Finishes
<1>10. Rest'
  BY <1>3, <1>8, AppliedDo DEF Rest
<1>11. MarkIsTrue'
  BY <1>3, <1>8, AppliedDo DEF MarkIsTrue
<1>12. QED BY <1>1, <1>4, <1>5, <1>6, <1>7, <1>9, <1>10, <1>11 DEF InstallInv, Shape

\* The mark cannot be written: what is installed is known to be the new version all
\* the same.
LEMMA MarkFailsDo ==
  ASSUME InstallInv, MarkFails
  PROVE  /\ job.at = "marking" /\ job' = NoJob /\ torn' = FALSE
         /\ UNCHANGED <<release, proc, settings, mode, disk, removals, crashes, clicks>>
         /\ failures' \in 0 .. MaxFailures
         /\ status' \in StatusSet /\ status'.unmarked = job.v /\ ~ status'.restarting
         /\ status'.manifest = status.manifest /\ status'.staged = status.staged
         /\ status'.applied = status.applied
         /\ (status'.ready <=> status.ready) /\ (status'.pending <=> status.pending)
<1>1. /\ job.at = "marking" /\ job' = NoJob /\ torn' = FALSE /\ Fails
      /\ status' = [Failed(status) EXCEPT !.unmarked = job.v]
      /\ UNCHANGED <<release, proc, settings, mode, disk, removals, crashes, clicks>>
  BY DEF MarkFails, Settle
<1>2. job.v \in AnyVersion /\ status \in StatusSet /\ TypeOK
  BY StateIs
<1>3. /\ status' \in StatusSet /\ status'.unmarked = job.v /\ ~ status'.restarting
      /\ status'.manifest = status.manifest /\ status'.staged = status.staged
      /\ status'.applied = status.applied
      /\ (status'.ready <=> status.ready) /\ (status'.pending <=> status.pending)
  BY <1>1, <1>2 DEF Failed, StatusSet
<1>4. QED BY <1>1, <1>2, <1>3, BoundsStay

LEMMA MarkFailsKeepsInstall ==
  ASSUME InstallInv, MarkFails
  PROVE  InstallInv'
<1> DEFINE v == job.v
<1>1. TypeOK'
  <2>1. job' \in JobSet /\ torn' \in BOOLEAN
    BY MarkFailsDo, NoJobIs
  <2>2. QED BY <2>1, MarkFailsDo, StateIs, TypesAreNext DEF TypeOK, removals
<1>2. job.at \in Installs /\ job.at \in Finishes
  BY MarkFailsDo DEF Installs, Finishes
<1>3. /\ Alive' /\ Alive /\ proc' = proc /\ release' = release /\ disk' = disk
      /\ job'.at = "none" /\ job'.v = 0 /\ job'.moved = {} /\ job'.added = {}
      /\ v \in Versions /\ v = status.staged /\ ~ status'.pending /\ disk.applied = 0
  BY <1>2, MarkFailsDo, InstallsAre, NoJobIs DEF Alive
<1>4. GoneIsGone'
  BY <1>3 DEF GoneIsGone
<1>5. VersionsGrow'
  <2>1. 0 \in 0 .. release /\ status.staged <= status.staged /\ v # 0
    BY <1>3, StateIs, PackagesAre
  <2>2. QED BY <1>3, <2>1, MarkFailsDo DEF InstallInv, Shape, VersionsGrow
<1>6. JobIsOf'
  BY <1>3 DEF JobIsOf, Fetchings, Stagings, Installs, Swappings, Finishes
<1>7. NextFits'
  <2>1. {status'.manifest, status'.staged, disk'.meta, job'.v} \subseteq
           {0, release, status.manifest, status.staged, disk.meta, job.v}
    BY <1>3, MarkFailsDo
  <2>2. release' \in Versions /\ release <= release'
    BY <1>3, StateIs
  <2>3. QED BY <1>3, <2>1, <2>2, FitsStay
<1>8. disk.target = Installed(v) /\ disk.target[1] = v /\ v # 0
  <2>1. disk.target = Installed(v)
    BY <1>2 DEF InstallInv, Forward
  <2>2. QED BY <1>3, <2>1, InstalledIs, PackagesAre
<1>9. Forward' /\ Back' /\ MarkIsTrue'
  BY <1>3 DEF Forward, Back, MarkIsTrue, Swappings, Finishes
<1>10. Rest'
  <2>1. Base' = v
    BY <1>8, MarkFailsDo DEF Base
  <2>2. QED BY <1>3, <1>8, <2>1 DEF Rest
<1>11. QED BY <1>1, <1>4, <1>5, <1>6, <1>7, <1>9, <1>10 DEF InstallInv, Shape

(***************************************************************************)
(* A process ends, and another one begins.                                 *)
(***************************************************************************)
Ends == Stopped \/ HandsOver \/ HandOverFails \/ Crash

\* The process is gone; what is on disk stays.
LEMMA EndsDo ==
  ASSUME InstallInv, Ends
  PROVE  /\ job' = NoJob /\ clearing' = {} /\ cleaning' = {} /\ disk' = disk
         /\ proc' \in ProcSet /\ ~ Alive' /\ proc'.current = 0 /\ proc'.restarts = 0
         /\ status' \in StatusSet /\ status'.manifest = 0 /\ status'.staged = 0
         /\ ~ status'.ready /\ status'.applied = 0 /\ ~ status'.pending
         /\ ~ status'.restarting /\ status'.unmarked = 0
         /\ torn' = (torn \/ ~ Whole)
         /\ UNCHANGED <<release, settings, mode>>
         /\ failures' \in 0 .. MaxFailures /\ crashes' \in 0 .. MaxCrashes
         /\ clicks' \in 0 .. MaxClicks
<1>1. /\ failures' \in 0 .. MaxFailures /\ crashes' \in 0 .. MaxCrashes
      /\ clicks' \in 0 .. MaxClicks
  <2>1. /\ UNCHANGED bounds \/ (Fails /\ UNCHANGED <<crashes, clicks>>)
           \/ (/\ crashes < MaxCrashes /\ crashes' = crashes + 1
               /\ UNCHANGED <<failures, clicks>>)
    BY DEF Ends, Stopped, HandsOver, HandOverFails, Crash
  <2>2. /\ failures \in 0 .. MaxFailures /\ crashes \in 0 .. MaxCrashes
        /\ clicks \in 0 .. MaxClicks /\ TypeOK
    BY StateIs DEF TypeOK
  <2>3. QED BY <2>1, <2>2, BoundsStay
<1>2. UNCHANGED <<release, disk, settings, mode>>
  BY DEF Ends, Stopped, HandsOver, HandOverFails, Crash
<1>3. PICK next \in {"starting", "down"}, promise \in AnyVersion : Exits(next, promise)
  <2>1. Supervised \in {"starting", "down"} /\ Successor \in {"starting", "down"}
    BY DEF Supervised, Successor
  <2>2. 0 \in AnyVersion /\ (IF Up THEN status.applied ELSE 0) \in AnyVersion
    BY StateIs, PackagesAre DEF StatusSet
  <2>3. QED BY <2>1, <2>2 DEF Ends, Stopped, HandsOver, HandOverFails, Crash
<1>4. /\ job' = NoJob /\ clearing' = {} /\ cleaning' = {} /\ torn' = (torn \/ ~ Whole)
      /\ proc' = [st |-> next, current |-> 0, restarts |-> 0, promise |-> promise]
  BY <1>3 DEF Exits, Settle
<1>5. /\ proc' \in ProcSet /\ ~ Alive' /\ proc'.current = 0 /\ proc'.restarts = 0
  BY <1>4, PackagesAre DEF ProcSet, Alive
<1>6. /\ status' \in StatusSet /\ status'.manifest = 0 /\ status'.staged = 0
      /\ ~ status'.ready /\ status'.applied = 0 /\ ~ status'.pending
      /\ ~ status'.restarting /\ status'.unmarked = 0
  BY <1>3, StateIs, PackagesAre DEF Exits, StatusSet
<1>7. QED BY <1>1, <1>2, <1>4, <1>5, <1>6

LEMMA EndsKeepInstall ==
  ASSUME InstallInv, Ends
  PROVE  InstallInv'
<1>1. TypeOK'
  <2>1. torn' \in BOOLEAN /\ job' \in JobSet
    BY EndsDo, NoJobIs DEF Whole
  <2>2. clearing' \subseteq Staging /\ cleaning' \subseteq {"new", "old"} \X Files
    BY EndsDo
  <2>3. release' \in Versions /\ mode' \in Modes /\ disk' \in DiskSet
        /\ settings' \in [auto : BOOLEAN, restart : BOOLEAN]
    BY EndsDo, StateIs DEF TypeOK
  <2>4. QED BY <2>1, <2>2, <2>3, EndsDo, TypesAreNext
<1>2. Shape'
  <2>1. GoneIsGone'
    BY EndsDo DEF GoneIsGone
  <2>2. VersionsGrow'
    <3>1. 0 \in 0 .. release /\ disk.meta \in 0 .. release
      BY StateIs
    <3>2. QED BY <3>1, EndsDo, NoJobIs DEF VersionsGrow
  <2>3. JobIsOf'
    BY EndsDo, NoJobIs DEF JobIsOf, Fetchings, Stagings, Installs, Swappings, Finishes
  <2>4. QED BY <2>1, <2>2, <2>3 DEF Shape
<1>3. NextFits'
  <2>1. {status'.manifest, status'.staged, disk'.meta, job'.v} \subseteq
           {0, release, status.manifest, status.staged, disk.meta, job.v}
    BY EndsDo, NoJobIs
  <2>2. release' \in Versions /\ release <= release' /\ disk'.target = disk.target
    BY EndsDo, StateIs
  <2>3. QED BY <2>1, <2>2, FitsStay
<1>4. Forward' /\ Back'
  BY EndsDo, NoJobIs DEF Forward, Back, Swappings, Finishes
<1>5. Rest'
  <2> SUFFICES ASSUME ~ torn'
               PROVE  Rest'
    BY DEF Rest
  <2>1. PICK w \in Versions : disk.target = Installed(w)
    BY EndsDo DEF Whole
  <2>2. disk'.target = Installed(w) /\ disk'.target[1] = w /\ w # 0
    BY <2>1, EndsDo, InstalledIs, PackagesAre
  <2>3. QED BY <2>2, EndsDo DEF Rest
<1>6. MarkIsTrue'
  <2> SUFFICES ASSUME disk'.applied # 0
               PROVE  ~ torn' /\ disk'.target = Installed(disk'.applied)
    BY EndsDo DEF MarkIsTrue
  <2>1. ~ torn /\ disk.target = Installed(disk.applied)
    BY EndsDo DEF InstallInv, MarkIsTrue
  <2>2. disk.applied \in Versions
    BY EndsDo, StateIs, PackagesAre DEF DiskSet
  <2>3. Whole
    BY <2>1, <2>2 DEF Whole
  <2>4. QED BY <2>1, <2>3, EndsDo
<1>7. QED BY <1>1, <1>2, <1>3, <1>4, <1>5, <1>6 DEF InstallInv

\* The installed version begins, with what is on disk.
LEMMA BeginsDo ==
  ASSUME InstallInv, SuccessorStarts \/ OperatorStarts
  PROVE  LET v == disk.target[1] IN
         /\ ~ Alive /\ Alive' /\ v \in Versions /\ proc' \in ProcSet
         /\ proc'.current = v /\ proc'.restarts = proc.restarts
         /\ job' = job /\ job = NoJob /\ disk' = disk
         /\ status' \in StatusSet /\ status'.manifest = 0
         /\ status'.staged \in {0, disk.meta}
         /\ status'.staged # 0 => status'.staged > v /\ disk.archive # 0
         /\ (status'.ready <=> status'.staged # 0) /\ ~ status'.restarting
         /\ status'.unmarked = 0
         /\ status'.applied = (IF disk.applied > v THEN disk.applied ELSE 0)
         /\ (status'.pending <=> disk.applied > v)
         /\ disk.applied = v => "applied" \in clearing'
         /\ clearing' \subseteq Staging
         /\ clearing' # {} => (disk.applied = v \/ Readable(disk) \in 1 .. v)
         /\ status'.staged = IF Readable(disk) > v THEN Readable(disk) ELSE 0
         /\ cleaning' \subseteq {"new", "old"} \X Files
         /\ UNCHANGED <<release, settings, mode, failures, crashes, torn>>
         /\ clicks' \in 0 .. MaxClicks
<1> DEFINE v == disk.target[1]  r == Readable(disk)
<1>1. /\ proc.st \in {"starting", "down"} /\ v # 0
      /\ proc' = [proc EXCEPT !.st = "up", !.current = v, !.promise = 0]
      /\ status' = Reconciled(disk, v)
      /\ clearing' = IF r \in 1 .. v \/ disk.applied = v THEN Staging ELSE {}
      /\ cleaning' = Leftovers(disk)
      /\ UNCHANGED <<release, disk, job, settings, mode, failures, crashes, torn>>
  BY DEF SuccessorStarts, OperatorStarts, Starts
<1>2. clicks' \in 0 .. MaxClicks
  <2>1. TypeOK /\ clicks \in 0 .. MaxClicks
    BY StateIs DEF TypeOK
  <2>2. UNCHANGED clicks \/ (clicks < MaxClicks /\ clicks' = clicks + 1)
    BY DEF SuccessorStarts, OperatorStarts
  <2>3. QED BY <2>1, <2>2, BoundsStay
<1>3. /\ v \in Versions /\ v \in AnyVersion /\ v \in Nat /\ 0 \in AnyVersion
      /\ disk.meta \in AnyVersion /\ disk.applied \in AnyVersion
      /\ disk.meta \in Nat /\ disk.applied \in Nat
  <2>1. disk.target \in [Files -> AnyVersion]
    BY StateIs DEF DiskSet
  <2>2. QED BY <1>1, <2>1, StateIs, PackagesAre DEF DiskSet
<1>4. r \in {0, disk.meta} /\ r \in AnyVersion /\ r \in Nat /\ (r # 0 => disk.archive # 0)
  BY <1>3, PackagesAre DEF Readable
<1> HIDE DEF v, r
<1>5. ~ Alive /\ job = NoJob
  BY <1>1 DEF InstallInv, Shape, GoneIsGone, Alive
<1>6. /\ Alive' /\ proc' \in ProcSet /\ proc'.current = v
      /\ proc'.restarts = proc.restarts
  BY <1>1, <1>3, StateIs, PackagesAre DEF ProcSet, Alive
<1>7. status' = [manifest |-> 0, staged |-> IF r > v THEN r ELSE 0,
                 available |-> r > v, ready |-> r > v,
                 applied |-> IF disk.applied > v THEN disk.applied ELSE 0,
                 pending |-> disk.applied > v, restarting |-> FALSE,
                 unmarked |-> 0]
  BY <1>1 DEF Reconciled, r
<1>8. /\ status' \in StatusSet /\ status'.manifest = 0
      /\ status'.staged = (IF r > v THEN r ELSE 0)
      /\ (status'.ready <=> r > v) /\ ~ status'.restarting /\ status'.unmarked = 0
      /\ status'.applied = (IF disk.applied > v THEN disk.applied ELSE 0)
      /\ (status'.pending <=> disk.applied > v)
  <2> DEFINE newer == r > v  due == disk.applied > v
             staged == IF r > v THEN r ELSE 0
             applied == IF disk.applied > v THEN disk.applied ELSE 0
  <2>1. newer \in BOOLEAN /\ due \in BOOLEAN
    OBVIOUS
  <2>2. staged \in AnyVersion /\ applied \in AnyVersion /\ 0 \in AnyVersion
    BY <1>3, <1>4
  <2>3. status' = [manifest |-> 0, staged |-> staged, available |-> newer,
                   ready |-> newer, applied |-> applied, pending |-> due,
                   restarting |-> FALSE, unmarked |-> 0]
    BY <1>7
  <2> HIDE DEF newer, due, staged, applied
  <2>4. /\ status' \in StatusSet /\ status'.manifest = 0
        /\ status'.staged = staged /\ status'.applied = applied
        /\ (status'.ready <=> newer) /\ (status'.pending <=> due)
        /\ ~ status'.restarting /\ status'.unmarked = 0
    BY <2>1, <2>2, <2>3 DEF StatusSet
  <2>5. QED BY <2>4 DEF newer, due, staged, applied
<1>9. /\ status'.staged \in {0, disk.meta}
      /\ status'.staged # 0 => status'.staged > v /\ disk.archive # 0
      /\ (status'.ready <=> status'.staged # 0)
  BY <1>3, <1>4, <1>8
<1>10. /\ disk.applied = v => "applied" \in clearing'
       /\ clearing' \subseteq Staging
       /\ clearing' # {} => (disk.applied = v \/ r \in 1 .. v)
  BY <1>1 DEF Staging
<1>11. cleaning' \subseteq {"new", "old"} \X Files
  BY <1>1 DEF Leftovers
<1>12. QED BY <1>1, <1>2, <1>3, <1>5, <1>6, <1>8, <1>9, <1>10, <1>11 DEF v, r

LEMMA BeginsKeepInstall ==
  ASSUME InstallInv, SuccessorStarts \/ OperatorStarts
  PROVE  InstallInv'
<1> DEFINE v == disk.target[1]
<1>1. TypeOK'
  BY BeginsDo, StateIs, TypesAreNext DEF TypeOK
<1>2. /\ Alive' /\ job' = NoJob /\ disk' = disk /\ proc'.current = v /\ v \in Versions
      /\ v # 0 /\ v \in Nat /\ release' = release /\ (torn' <=> torn)
      /\ job'.at = "none" /\ job'.v = 0 /\ job'.moved = {} /\ job'.added = {}
  <2>1. /\ Alive' /\ job' = NoJob /\ disk' = disk /\ proc'.current = v /\ v \in Versions
        /\ release' = release /\ (torn' <=> torn)
    BY BeginsDo
  <2>2. QED BY <2>1, NoJobIs, PackagesAre
<1>3. GoneIsGone'
  BY <1>2 DEF GoneIsGone
<1>4. VersionsGrow'
  <2>1. 0 \in 0 .. release /\ disk.meta \in 0 .. release /\ disk.meta \in Nat
    BY StateIs
  <2>2. /\ status'.manifest = 0 /\ status'.staged \in {0, disk.meta}
        /\ status'.staged # 0 => status'.staged > v
        /\ status'.staged # 0 => status'.ready
        /\ status'.unmarked = 0
    BY BeginsDo
  <2>3. status'.staged # 0 => v < status'.staged /\ status'.staged <= disk.meta
    BY <1>2, <2>1, <2>2
  <2>4. QED BY <1>2, <2>1, <2>2, <2>3 DEF VersionsGrow
<1>5. JobIsOf'
  BY <1>2 DEF JobIsOf, Fetchings, Stagings, Installs, Swappings, Finishes
<1>6. NextFits'
  <2>1. {status'.manifest, status'.staged, disk'.meta, job'.v} \subseteq
           {0, release, status.manifest, status.staged, disk.meta, job.v}
    BY <1>2, BeginsDo
  <2>2. release' \in Versions /\ release <= release' /\ disk'.target = disk.target
    BY <1>2, StateIs
  <2>3. QED BY <2>1, <2>2, FitsStay
<1>7. Forward' /\ Back'
  BY <1>2 DEF Forward, Back, Swappings, Finishes
\* A mark on disk is of the version that starts: nothing is pending.
<1>8. disk.applied # 0 => disk.applied = v /\ ~ torn /\ disk.target = Installed(v)
  <2>1. disk.applied # 0 => ~ torn /\ disk.target = Installed(disk.applied)
    BY DEF InstallInv, MarkIsTrue
  <2>2. disk.applied # 0 => disk.applied \in Versions
    BY StateIs, PackagesAre DEF DiskSet
  <2>3. disk.applied # 0 => Installed(disk.applied)[1] = disk.applied
    BY <2>2, InstalledIs
  <2>4. QED BY <2>1, <2>3
<1>9. ~ status'.pending
  <2>1. ~ (disk.applied > v)
    BY <1>2, <1>8
  <2>2. QED BY <2>1, BeginsDo
<1>10. Rest'
  <2>1. job.at = "none"
    BY BeginsDo, NoJobIs
  <2>2. ~ torn => disk.target = Installed(v)
    BY <2>1 DEF InstallInv, Rest, Swappings, Finishes
  <2>3. Base' = v
    BY <1>2, BeginsDo DEF Base
  <2>4. QED BY <1>2, <1>9, <2>2, <2>3 DEF Rest
<1>11. MarkIsTrue'
  BY <1>2, <1>8, BeginsDo DEF MarkIsTrue
<1>12. QED BY <1>1, <1>3, <1>4, <1>5, <1>6, <1>7, <1>10, <1>11 DEF InstallInv, Shape

(***************************************************************************)
(* Removals.                                                               *)
(***************************************************************************)

LEMMA RemovalsDo ==
  ASSUME InstallInv, Removal
  PROVE  /\ disk' \in DiskSet /\ disk'.target = disk.target
         /\ disk'.meta \in {0, disk.meta} /\ disk'.applied \in {0, disk.applied}
         /\ disk'.applied # 0 /\ "applied" \in clearing => "applied" \in clearing'
         /\ disk'.archive \in {0, disk.archive}
         /\ clearing' \subseteq clearing /\ cleaning' \subseteq cleaning
         /\ clearing = {} => SameStaging
         /\ clearing # {} \/ cleaning # {}
         /\ UNCHANGED <<release, proc, status, job, settings, mode, bounds, torn>>
<1>1. ASSUME NEW e \in clearing, Cleared(e)
      PROVE  /\ disk' \in DiskSet /\ disk'.target = disk.target
             /\ disk'.meta \in {0, disk.meta} /\ disk'.applied \in {0, disk.applied}
             /\ disk'.archive \in {0, disk.archive}
             /\ disk'.applied # 0 /\ "applied" \in clearing => "applied" \in clearing'
             /\ clearing' \subseteq clearing /\ cleaning' \subseteq cleaning
             /\ clearing # {}
             /\ UNCHANGED <<release, proc, status, job, settings, mode, bounds, torn>>
  <2>1. /\ clearing' = clearing \ {e} /\ disk' = [disk EXCEPT ![e] = 0]
        /\ UNCHANGED <<release, proc, status, job, cleaning, settings, mode, bounds, torn>>
    BY <1>1 DEF Cleared
  <2>2. e \in Staging /\ disk \in DiskSet
    BY <1>1, StateIs DEF TypeOK
  <2>3. /\ disk' \in DiskSet /\ SameFiles
        /\ disk'.meta = (IF e = "meta" THEN 0 ELSE disk.meta)
        /\ disk'.archive = (IF e = "archive" THEN 0 ELSE disk.archive)
        /\ disk'.applied = IF e = "applied" THEN 0 ELSE disk.applied
    BY <2>1, <2>2, ClearedDoes
  <2>4. QED BY <1>1, <2>1, <2>3 DEF SameFiles
<1>2. ASSUME NEW e \in cleaning, Cleaned(e)
      PROVE  /\ disk' \in DiskSet /\ disk'.target = disk.target /\ SameStaging
             /\ clearing' = clearing /\ cleaning' \subseteq cleaning /\ cleaning # {}
             /\ UNCHANGED <<release, proc, status, job, settings, mode, bounds, torn>>
  <2>1. /\ cleaning' = cleaning \ {e} /\ disk' = [disk EXCEPT ![e[1]][e[2]] = 0]
        /\ UNCHANGED <<release, proc, status, job, clearing, settings, mode, bounds, torn>>
    BY <1>2 DEF Cleaned
  <2>2. e \in {"new", "old"} \X Files /\ disk \in DiskSet
    BY <1>2, StateIs DEF TypeOK
  <2>3. QED BY <1>2, <2>1, <2>2, CleanedDoes
<1>3. QED BY <1>1, <1>2 DEF Removal, SameStaging

LEMMA RemovalsKeepInstall ==
  ASSUME InstallInv, Removal
  PROVE  InstallInv'
<1>1. job.at \notin Installs
  BY RemovalsDo, InstallsAre
<1>2. TypeOK'
  <2>1. clearing' \subseteq Staging /\ cleaning' \subseteq {"new", "old"} \X Files
    BY RemovalsDo, StateIs DEF TypeOK
  <2>2. QED BY <2>1, RemovalsDo, StateIs, BoundsStay, TypesAreNext DEF TypeOK
<1>3. SameProcess /\ release <= release' /\ (torn' <=> torn) /\ status' = status
      /\ job' = job /\ release' = release
  BY RemovalsDo, StateIs, ReportsStay
<1>4. GoneIsGone'
  BY <1>3, RemovalsDo DEF InstallInv, Shape, GoneIsGone, SameProcess
<1>5. VersionsGrow'
  <2>1. 0 \in 0 .. release
    BY StateIs
  <2>2. QED BY <1>3, <2>1, RemovalsDo DEF InstallInv, Shape, VersionsGrow, SameProcess
<1>6. JobIsOf'
  BY <1>1, <1>3 DEF InstallInv, Shape, JobIsOf
<1>7. Shape'
  BY <1>4, <1>5, <1>6 DEF Shape
<1>8. job.at \notin Swappings \cup Finishes /\ job'.at \notin Installs
  BY <1>1, <1>3 DEF Installs
<1>9. {status'.manifest, status'.staged, disk'.meta, job'.v} \subseteq
           {0, release, status.manifest, status.staged, disk.meta, job.v}
  BY <1>3, RemovalsDo
<1>10. /\ disk'.target = disk.target /\ disk'.applied \in {0, disk.applied}
       /\ disk'.applied # 0 /\ "applied" \in clearing => "applied" \in clearing'
  BY RemovalsDo
<1>11. QED BY <1>2, <1>3, <1>7, <1>8, <1>9, <1>10, OutsideSteps

(***************************************************************************)
(* The first process, and the theorem.                                     *)
(***************************************************************************)
LEMMA InitIs ==
  ASSUME Init
  PROVE  /\ disk \in DiskSet /\ disk.target = Installed(1) /\ disk.target[1] = 1
         /\ disk.archive = 0 /\ disk.meta = 0 /\ disk.applied = 0
         /\ proc \in ProcSet /\ proc.current = 1 /\ proc.restarts = 0 /\ Alive
         /\ status \in StatusSet /\ status.manifest = 0 /\ status.staged = 0
         /\ ~ status.ready /\ status.applied = 0 /\ ~ status.pending
         /\ ~ status.restarting /\ status.unmarked = 0
         /\ job = NoJob /\ clearing = {} /\ cleaning = {} /\ torn = FALSE /\ release = 1
         /\ settings \in [auto : BOOLEAN, restart : BOOLEAN] /\ mode \in Modes
         /\ failures \in 0 .. MaxFailures /\ crashes \in 0 .. MaxCrashes
         /\ clicks \in 0 .. MaxClicks
<1>1. /\ disk = [target |-> Installed(1), new |-> NoFiles, old |-> NoFiles,
                 archive |-> 0, meta |-> 0, applied |-> 0]
      /\ status = Reconciled(disk, 1)
      /\ proc = [st |-> "up", current |-> 1, restarts |-> 0, promise |-> 0]
      /\ job = NoJob /\ clearing = {} /\ cleaning = {} /\ torn = FALSE /\ release = 1
      /\ settings \in [auto : BOOLEAN, restart : BOOLEAN] /\ mode \in Modes
      /\ failures = 0 /\ crashes = 0 /\ clicks = 0
  BY DEF Init
<1>2. /\ 1 \in Versions /\ 1 \in AnyVersion /\ 0 \in AnyVersion
      /\ NoFiles \in [Files -> AnyVersion]
      /\ Installed(1) \in [Files -> AnyVersion] /\ Installed(1)[1] = 1
  BY PackagesAre, InstalledIs DEF NoFiles
<1>3. /\ disk \in DiskSet /\ disk.target = Installed(1) /\ disk.target[1] = 1
      /\ disk.archive = 0 /\ disk.meta = 0 /\ disk.applied = 0
  BY <1>1, <1>2 DEF DiskSet
<1>4. proc \in ProcSet /\ proc.current = 1 /\ proc.restarts = 0 /\ Alive
  BY <1>1, <1>2 DEF ProcSet, Alive
<1>5. status = [manifest |-> 0, staged |-> 0, available |-> FALSE, ready |-> FALSE,
                applied |-> 0, pending |-> FALSE, restarting |-> FALSE,
                unmarked |-> 0]
  <2>1. Readable(disk) = 0 /\ ~ (0 > 1)
    BY <1>3 DEF Readable
  <2>2. (0 > 1) = FALSE
    BY <2>1
  <2>3. QED BY <1>1, <1>3, <2>1, <2>2 DEF Reconciled
<1>6. /\ status \in StatusSet /\ status.manifest = 0 /\ status.staged = 0
      /\ ~ status.ready /\ status.applied = 0 /\ ~ status.pending /\ ~ status.restarting
      /\ status.unmarked = 0
  BY <1>2, <1>5 DEF StatusSet
<1>7. 0 \in 0 .. MaxFailures /\ 0 \in 0 .. MaxCrashes /\ 0 \in 0 .. MaxClicks
  BY UpdaterAssumption DEF UpdaterAssumption
<1>8. QED BY <1>1, <1>3, <1>4, <1>6, <1>7

LEMMA InstallAtFirst ==
  ASSUME Init
  PROVE  InstallInv
<1>1. TypeOK
  <2>1. /\ release \in Versions /\ job \in JobSet /\ torn \in BOOLEAN
        /\ clearing \subseteq Staging /\ cleaning \subseteq {"new", "old"} \X Files
    BY InitIs, PackagesAre, NoJobIs
  <2>2. QED BY <2>1, InitIs, TypesAre
<1>2. job.at = "none" /\ job.v = 0 /\ job.moved = {} /\ job.added = {}
  BY InitIs, NoJobIs
<1>3. GoneIsGone /\ VersionsGrow
  <2>1. 0 \in 0 .. release
    BY InitIs
  <2>2. QED BY <1>2, <2>1, InitIs DEF GoneIsGone, VersionsGrow
<1>4. JobIsOf
  BY <1>2 DEF JobIsOf, Fetchings, Stagings, Installs, Swappings, Finishes
<1>5. NextFits
  <2>1. Fits(1)
    <3>1. 1 \in Versions
      BY PackagesAre
    <3>2. QED BY <3>1, InitIs, InstalledIs DEF Fits
  <2>2. QED BY <1>2, <2>1, InitIs DEF NextFits
<1>6. Forward /\ Back /\ Rest /\ MarkIsTrue
  BY <1>2, InitIs DEF Forward, Back, Rest, MarkIsTrue, Base, Swappings, Finishes
<1>7. QED BY <1>1, <1>3, <1>4, <1>5, <1>6 DEF InstallInv, Shape

\* Every step keeps the invariant.
LEMMA StepsKeepInstall ==
  ASSUME InstallInv, "slowRemovals" \notin Env, [Next]_vars
  PROVE  InstallInv'
<1>1. CASE JobStep
  BY <1>1, FetchAnswersKeepsInstall, DropsStaleKeepsInstall, StagesKeepsInstall,
     StagedKeepsInstall, UnpacksKeepsInstall, PreparesKeepsInstall,
     MovesAsideKeepsInstall, MovesInKeepsInstall, RestoresKeepsInstall,
     RolledBackKeepsInstall, DropsPackageKeepsInstall, AppliedKeepsInstall,
     FailuresKeepInstall, SwapFailsKeepsInstall DEF JobStep
<1>2. CASE Mishap
  BY <1>2, FailuresKeepInstall, PrepareFailsKeepsInstall, RestoreFailsKeepsInstall,
     MarkFailsKeepsInstall, EndsKeepInstall
     DEF Mishap, Ends
<1>3. CASE Removal
  BY <1>3, RemovalsKeepInstall
<1>4. CASE UserStep
  BY <1>4, RequestsKeepInstall, ClickDownloadKeepsInstall, ClickInstallKeepsInstall,
     BeginsKeepInstall, BystandersKeepInstall DEF UserStep
<1>5. CASE Tick \/ HandsOver \/ SuccessorStarts \/ Stopped \/ Publish
  BY <1>5, RequestsKeepInstall, EndsKeepInstall, BeginsKeepInstall,
     BystandersKeepInstall DEF Ends
<1>6. CASE UNCHANGED vars
  BY <1>6, BystandersKeepInstall
<1>7. QED BY <1>1, <1>2, <1>3, <1>4, <1>5, <1>6 DEF Next

\* Outside the swap, and unless it was torn, what is installed is one version, and the
\* one that runs, that is pending, or that could not be recorded.
LEMMA InstallIsWhole ==
  ASSUME InstallInv
  PROVE  InstallationIsWhole
<1>1. TypeOK
  BY DEF InstallInv
<1>2. Swapping <=> job.at \in Swappings
  BY DEF Swapping, Swappings
<1>3. ~ torn /\ ~ Swapping => Whole
  <2> SUFFICES ASSUME ~ torn, job.at \notin Swappings
               PROVE  Whole
    BY <1>2
  <2>1. CASE job.at \in Finishes
    <3>1. job.at \in Installs /\ disk.target = Installed(job.v)
      BY <2>1 DEF InstallInv, Forward, Installs
    <3>2. job.v \in Versions
      BY <3>1, InstallsAre
    <3>3. QED BY <3>1, <3>2 DEF Whole
  <2>2. CASE job.at \notin Finishes
    <3>1. disk.target[1] # 0 /\ disk.target = Installed(disk.target[1])
      BY <2>2 DEF InstallInv, Rest
    <3>2. disk.target[1] \in Versions
      BY <3>1, StateIs, PackagesAre DEF DiskSet
    <3>3. QED BY <3>1, <3>2 DEF Whole
  <2>3. QED BY <2>1, <2>2
<1>4. Alive /\ ~ Swapping /\ ~ torn
        /\ job.at \notin {"droppingArchive", "droppingMeta", "marking"} =>
          disk.target[1] = IF status.pending THEN status.applied ELSE Base
  BY <1>2 DEF InstallInv, Rest, Finishes
<1>5. QED BY <1>1, <1>3, <1>4 DEF InstallationIsWhole

\* Whatever step of an update fails but the way back from a failure, and wherever a
\* process dies but in the middle of the swap itself, what is installed is one
\* version, all of its files and no other's: the one that runs, the newer one that a
\* restart brings, or one whose marker could not be written (install.ts,
\* applyStagedUpdate; service.ts), provided that a removal nobody awaits is through
\* before the next answer of the network or of a user.
THEOREM InstallationStaysWhole ==
  ASSUME "slowRemovals" \notin Env
  PROVE  Spec => []InstallationIsWhole
<1>1. Init => InstallInv
  BY InstallAtFirst
<1>2. InstallInv /\ [Next]_vars => InstallInv'
  BY StepsKeepInstall
<1>3. InstallInv => InstallationIsWhole
  BY InstallIsWhole
<1>4. QED BY <1>1, <1>2, <1>3, PTL DEF Spec

(***************************************************************************)
(* What is said of packages and restarts.                                  *)
(***************************************************************************)
\* A service that is busy promises no restart.
LEMMA BusyIsQuiet ==
  ASSUME StatusInv, job.at # "none"
  PROVE  /\ ~ status.pending /\ ~ status.restarting /\ proc.restarts = 0
         /\ Alive /\ InstallInv
         /\ clearing = {} => disk.applied = 0
<1>1. ~ status.pending /\ ~ status.restarting /\ proc.restarts = 0
  BY DEF StatusInv, RestartIsDue, Idle
<1>2. Alive /\ InstallInv
  BY JobsAreOfTheLiving DEF StatusInv
<1>3. clearing = {} => disk.applied = 0
  BY <1>1, <1>2 DEF InstallInv, MarkIsTrue
<1>4. QED BY <1>1, <1>2, <1>3

\* Steps that touch neither the package nor what is said of it.
LEMMA PackageIsLeft ==
  ASSUME PackageStays, SameStaging, status'.ready <=> status.ready,
         status'.staged = status.staged, status'.unmarked = status.unmarked,
         clearing' = clearing,
         \/ job' = job
         \/ /\ job.at \notin {"staleArchive", "staleMeta"} \cup Finishes
            /\ job'.at \notin Stagings \cup {"droppingMeta", "marking"}
  PROVE  PackageStays'
<1>1. CASE job' = job
  BY <1>1 DEF PackageStays, SameStaging
<1>2. CASE /\ job.at \notin {"staleArchive", "staleMeta"} \cup Finishes
           /\ job'.at \notin Stagings \cup {"droppingMeta", "marking"}
  <2>1. job'.at \notin {"place", "record"}
    BY <1>2 DEF Stagings
  <2>2. QED BY <1>2, <2>1 DEF PackageStays, SameStaging
<1>3. QED BY <1>1, <1>2

\* Steps of a busy service that promise nothing.
LEMMA NothingIsDue ==
  ASSUME StatusInv, job.at # "none", status'.pending <=> status.pending,
         proc'.restarts = proc.restarts, status'.restarting => status.restarting
  PROVE  RestartIsDue'
BY BusyIsQuiet DEF RestartIsDue

LEMMA FailuresKeepStatus ==
  ASSUME StatusInv, FetchFails \/ DownloadFails \/ UnpackFails
  PROVE  PackageStays' /\ RestartIsDue'
<1>1. /\ job.at \in {"fetching", "downloading", "place", "record", "unpacking"}
      /\ status' = Failed(status) /\ job' = NoJob
      /\ UNCHANGED <<others, disk, removals>>
  BY DEF FetchFails, DownloadFails, UnpackFails, ApplyEndsFailed, Settle
<1>2. status \in StatusSet
  BY StateIs DEF StatusInv
<1>3. /\ SameReport /\ SameStaging /\ ~ status'.restarting /\ proc' = proc
      /\ clearing' = clearing
  BY <1>1, <1>2, FailedIs, ReportsStay DEF others, removals
<1>4. job'.at = "none" /\ job'.at \notin Stagings \cup {"droppingMeta", "marking"}
  BY <1>1, NoJobIs DEF Stagings
<1>5. job.at \notin {"staleArchive", "staleMeta"} \cup Finishes /\ job.at # "none"
  BY <1>1 DEF Finishes
<1>6. PackageStays'
  BY <1>3, <1>4, <1>5, PackageIsLeft DEF StatusInv, SameReport
<1>7. RestartIsDue'
  BY <1>3, <1>5, NothingIsDue DEF SameReport
<1>8. QED BY <1>6, <1>7

LEMMA RestartsKeepStatus ==
  ASSUME StatusInv, ClickRestart \/ SetAutoRestart
  PROVE  PackageStays' /\ RestartIsDue'
<1>1. /\ UNCHANGED <<disk, job, mode, removals>>
      /\ Restarts(status) \/ UNCHANGED <<status, proc>>
  BY DEF ClickRestart, SetAutoRestart
<1>2. status \in StatusSet /\ proc \in ProcSet
  BY StateIs DEF StatusInv
<1>3. CASE UNCHANGED <<status, proc>>
  <2>1. PackageStays'
    BY <1>1, <1>3, PackageIsLeft, ReportsStay DEF StatusInv, removals
  <2>2. RestartIsDue'
    BY <1>1, <1>3 DEF StatusInv, RestartIsDue, Idle
  <2>3. QED BY <2>1, <2>2
<1>4. CASE Restarts(status)
  <2>1. /\ status'.staged = status.staged /\ status'.applied = status.applied
        /\ status'.unmarked = status.unmarked
        /\ (status'.ready <=> status.ready) /\ (status'.pending <=> status.pending)
        /\ proc'.current = proc.current
        /\ \/ /\ MayRestart(status) /\ status'.restarting
              /\ proc'.restarts = proc.restarts + 1
           \/ /\ (status'.restarting <=> status.restarting)
              /\ proc'.restarts = proc.restarts
    BY <1>2, <1>4, RestartsDo DEF SameProcess
  <2>2. PackageStays'
    BY <1>1, <2>1, PackageIsLeft, ReportsStay DEF StatusInv, removals
  <2>3. CASE /\ MayRestart(status) /\ status'.restarting
             /\ proc'.restarts = proc.restarts + 1
    <3>1. ~ status.restarting /\ status.pending /\ mode # "none" /\ proc.restarts = 0
      BY <2>3 DEF MayRestart, StatusInv, RestartIsDue
    <3>2. proc'.restarts = 1
      BY <2>3, <3>1
    <3>3. RestartIsDue'
      BY <1>1, <2>1, <2>3, <3>1, <3>2 DEF StatusInv, RestartIsDue, Idle
    <3>4. QED BY <2>2, <3>3
  <2>4. CASE /\ (status'.restarting <=> status.restarting)
             /\ proc'.restarts = proc.restarts
    <3>1. RestartIsDue'
      BY <1>1, <2>1, <2>4 DEF StatusInv, RestartIsDue, Idle
    <3>2. QED BY <2>2, <3>1
  <2>5. QED BY <2>1, <2>3, <2>4
<1>5. QED BY <1>1, <1>3, <1>4

LEMMA ChecksKeepStatus ==
  ASSUME StatusInv, Tick \/ ClickCheck \/ SetAuto
  PROVE  PackageStays' /\ RestartIsDue'
<1>1. /\ UNCHANGED <<disk, status, proc, mode, removals>>
      /\ \/ job' = job
         \/ /\ MayCheck /\ \E auto \in BOOLEAN : job' = Fetching(auto)
  <2>1. TRUE \in BOOLEAN /\ FALSE \in BOOLEAN
    OBVIOUS
  <2>2. QED BY <2>1 DEF Tick, ClickCheck, SetAuto, others
<1>2. status \in StatusSet
  BY StateIs DEF StatusInv
<1>3. \/ job' = job
      \/ job.at = "none" /\ ~ status.pending /\ job'.at = "fetching"
  BY <1>1, <1>2, NewJobsAre DEF MayCheck, Idle
<1>4. PackageStays'
  <2>1. "none" \notin {"staleArchive", "staleMeta"} \cup Finishes
        /\ "fetching" \notin Stagings \cup {"droppingMeta", "marking"}
    BY DEF Finishes, Stagings
  <2>2. QED BY <1>1, <1>3, <2>1, PackageIsLeft, ReportsStay DEF StatusInv, removals
<1>5. RestartIsDue'
  BY <1>1, <1>3 DEF StatusInv, RestartIsDue, Idle
<1>6. QED BY <1>4, <1>5

LEMMA BystandersKeepStatus ==
  ASSUME StatusInv, Publish \/ Stop \/ UNCHANGED vars
  PROVE  PackageStays' /\ RestartIsDue'
<1>1. /\ UNCHANGED <<disk, status, job, mode, removals>>
      /\ proc'.restarts = proc.restarts /\ proc'.current = proc.current
  <2>1. proc \in ProcSet
    BY StateIs DEF StatusInv
  <2>2. QED BY <2>1 DEF Publish, Stop, vars, removals, ProcSet
<1>2. PackageStays'
  BY <1>1, PackageIsLeft, ReportsStay DEF StatusInv, removals
<1>3. RestartIsDue'
  BY <1>1 DEF StatusInv, RestartIsDue, Idle
<1>4. QED BY <1>2, <1>3

\* A download is for a service that has nothing ready and nothing pending.
LEMMA RequestsKeepStatus ==
  ASSUME StatusInv, "staleClient" \notin Env, ClickDownload \/ ClickInstall
  PROVE  PackageStays' /\ RestartIsDue'
<1>1. /\ UNCHANGED <<disk, status, proc, mode, removals>> /\ job.at = "none"
      /\ ~ status.pending
      /\ \/ job' = Downloading(status) /\ ~ status.ready
         \/ job' = Applying(status)
  BY DEF ClickDownload, ClickInstall, MayDownload, MayApply, Idle, others
<1>2. status \in StatusSet
  BY StateIs DEF StatusInv
<1>3. \/ job'.at = "downloading" /\ ~ status.ready
      \/ job'.at = "unpacking"
  BY <1>1, <1>2, NewJobsAre
<1>4. RestartIsDue'
  BY <1>1 DEF StatusInv, RestartIsDue
<1>5. PackageStays'
  <2>1. CASE job'.at = "downloading" /\ ~ status.ready
    BY <1>1, <2>1 DEF StatusInv, PackageStays, Stagings, removals
  <2>2. CASE job'.at = "unpacking"
    <3>1. "none" \notin {"staleArchive", "staleMeta"} \cup Finishes
          /\ "unpacking" \notin Stagings \cup {"droppingMeta", "marking"}
      BY DEF Finishes, Stagings
    <3>2. QED BY <1>1, <2>2, <3>1, PackageIsLeft, ReportsStay DEF StatusInv, removals
  <2>3. QED BY <1>3, <2>1, <2>2
<1>6. QED BY <1>4, <1>5

LEMMA FetchAnswersKeepsStatus ==
  ASSUME StatusInv, FetchAnswers
  PROVE  PackageStays' /\ RestartIsDue'
<1>1. InstallInv /\ job.at = "fetching" /\ job.at # "none"
  BY FetchAnswersDo DEF StatusInv
<1>2. RestartIsDue'
  BY <1>1, FetchAnswersDo, NothingIsDue DEF SameRestart, others
<1>3. disk' = disk /\ job'.at \in {"none", "staleArchive", "downloading"}
  BY <1>1, FetchAnswersDo
<1>4. PackageStays
  BY DEF StatusInv
<1>5. job.at \notin {"staleArchive", "staleMeta"} \cup Finishes
  BY <1>1 DEF Finishes
<1>6. PackageStays'
  <2>1. CASE ~ status'.ready
    BY <1>3, <1>4, <2>1 DEF PackageStays, Stagings
  <2>2. CASE status'.ready
    <3>1. /\ status.ready /\ clearing' = clearing /\ status'.unmarked = status.unmarked
          /\ \/ status'.staged = status.staged /\ job'.at = "none"
             \/ job'.at = "staleArchive"
      BY <1>1, <2>2, FetchAnswersDo DEF SameRestart
    <3>2. QED BY <1>3, <1>4, <1>5, <2>2, <3>1 DEF PackageStays, Stagings
  <2>3. QED BY <2>1, <2>2
<1>7. QED BY <1>2, <1>6

LEMMA DropsStaleKeepsStatus ==
  ASSUME StatusInv, DropsStale
  PROVE  PackageStays' /\ RestartIsDue'
<1>1. InstallInv /\ job.at \in {"staleArchive", "staleMeta"} /\ job.at # "none"
  BY DropsStaleDo DEF StatusInv
<1>2. RestartIsDue'
  BY <1>1, DropsStaleDo, NothingIsDue DEF SameRestart, others
<1>3. PackageStays /\ clearing' = clearing /\ disk'.applied = disk.applied
  BY <1>1, DropsStaleDo DEF StatusInv, removals
<1>4. PackageStays'
  <2>1. CASE job.at = "staleArchive"
    <3>1. /\ job'.at = "staleMeta" /\ (status'.ready <=> status.ready)
          /\ disk'.archive = 0
      BY <1>1, <2>1, DropsStaleDo
    <3>2. QED BY <1>3, <3>1 DEF PackageStays, Stagings
  <2>2. CASE job.at = "staleMeta"
    <3>1. /\ job'.at \in {"none", "downloading"} /\ ~ status'.ready
          /\ disk'.meta = 0 /\ disk'.archive = disk.archive
      BY <1>1, <2>2, DropsStaleDo
    <3>2. QED BY <1>3, <3>1 DEF PackageStays, Stagings
  <2>3. QED BY <1>1, <2>1, <2>2
<1>5. QED BY <1>2, <1>4

\* The archive and the record of the package before go first, so that no record
\* ever stands next to another package.
LEMMA StagesKeepsStatus ==
  ASSUME StatusInv, "slowRemovals" \notin Env, Stages
  PROVE  PackageStays' /\ RestartIsDue'
<1>1. InstallInv /\ job.at \in Stagings /\ job.at # "none"
  BY StagesStep DEF StatusInv, Stagings
<1>2. RestartIsDue'
  BY <1>1, StagesStep, NothingIsDue DEF others
<1>3. /\ PackageStays /\ clearing' = clearing /\ status' = status /\ ~ status.ready
      /\ disk'.applied = disk.applied
  BY <1>1, StagesStep DEF StatusInv, PackageStays, removals
<1>4. clearing = {} /\ disk.applied = 0
  <2>1. clearing = {}
    <3>1. CASE job.at = "downloading"
      BY <1>1, <3>1, StagesStep DEF Prompt
    <3>2. CASE job.at # "downloading"
      BY <1>1, <1>3, <3>2 DEF PackageStays
    <3>3. QED BY <3>1, <3>2
  <2>2. QED BY <1>1, <2>1, BusyIsQuiet
<1>5. PackageStays'
  <2>1. CASE job.at = "downloading"
    <3>1. job'.at = "dropArchive" /\ disk' = disk
      BY <1>1, <2>1, StagesStep
    <3>2. QED BY <1>3, <1>4, <3>1 DEF PackageStays, Stagings
  <2>2. CASE job.at = "dropArchive"
    <3>1. job'.at = "dropMeta" /\ disk'.archive = 0 /\ disk'.meta = disk.meta
      BY <1>1, <2>2, StagesStep
    <3>2. QED BY <1>3, <1>4, <3>1 DEF PackageStays, Stagings
  <2>3. CASE job.at = "dropMeta"
    <3>1. job'.at = "place" /\ disk'.meta = 0
      BY <1>1, <2>3, StagesStep
    <3>2. QED BY <1>3, <1>4, <3>1 DEF PackageStays, Stagings
  <2>4. CASE job.at = "place"
    <3>1. /\ job'.at = "record" /\ disk'.archive = job'.v /\ disk'.meta = 0
      BY <1>1, <1>3, <2>4, StagesStep DEF PackageStays
    <3>2. QED BY <1>3, <1>4, <3>1 DEF PackageStays, Stagings
  <2>5. QED BY <1>1, <2>1, <2>2, <2>3, <2>4, StagesStep
<1>6. QED BY <1>2, <1>5

LEMMA StagedKeepsStatus ==
  ASSUME StatusInv, Staged
  PROVE  PackageStays' /\ RestartIsDue'
<1>1. InstallInv /\ job.at = "record" /\ job.at # "none"
  BY StagedDo DEF StatusInv
<1>2. RestartIsDue'
  BY <1>1, StagedDo, NothingIsDue DEF SameRestart, others
<1>3. /\ disk.archive = job.v /\ clearing = {} /\ disk.applied = 0
  <2>1. disk.archive = job.v /\ clearing = {}
    BY <1>1 DEF StatusInv, PackageStays, Stagings
  <2>2. QED BY <1>1, <2>1, BusyIsQuiet
<1>4. /\ status'.ready /\ status'.staged = job.v /\ job.v # 0 /\ clearing' = {}
      /\ disk'.archive = job.v /\ disk'.meta = job.v /\ disk'.applied = 0
      /\ job'.at \in {"none", "unpacking"}
  BY <1>1, <1>3, StagedDo DEF removals
<1>5. PackageStays'
  BY <1>4 DEF PackageStays, Stagings
<1>6. QED BY <1>2, <1>5

\* The files are moved: the staging area and the report are left alone.
SwapStep == Unpacks \/ Prepares \/ MovesAside \/ MovesIn \/ SwapFails \/ Restores

LEMMA SwapsDo ==
  ASSUME InstallInv, SwapStep
  PROVE  /\ SameStaging /\ UNCHANGED <<others, status, removals>>
         /\ job.at \notin {"none", "staleArchive", "staleMeta"} \cup Finishes
         /\ job'.at \notin Stagings \cup {"droppingMeta", "marking"}
<1>1. /\ UNCHANGED <<others, status, removals>>
      /\ job.at \in {"unpacking", "preparing", "movingAside", "movingIn", "restoring",
                     "movingBack"}
  BY DEF SwapStep, Unpacks, Prepares, MovesAside, MovesIn, SwapFails, Restores
<1>2. job \in JobSet /\ disk \in DiskSet
  BY StateIs
<1>3. SameStaging
  <2>1. CASE Unpacks \/ SwapFails
    BY <2>1 DEF Unpacks, SwapFails, SameStaging
  <2>2. CASE Prepares
    BY <1>2, <2>2 DEF Prepares, SameStaging, DiskSet
  <2>3. CASE MovesAside
    BY <1>2, <2>3 DEF MovesAside, SameStaging, DiskSet
  <2>4. CASE MovesIn
    BY <1>2, <2>4 DEF MovesIn, SameStaging, DiskSet
  <2>5. CASE Restores
    BY <1>2, <2>5 DEF Restores, SameStaging, DiskSet
  <2>6. QED BY <2>1, <2>2, <2>3, <2>4, <2>5 DEF SwapStep
<1>4. job'.at \in {"preparing", "movingAside", "movingIn", "restoring", "movingBack",
                   "droppingArchive"}
  <2>1. CASE Unpacks \/ SwapFails \/ MovesAside \/ Restores
    BY <1>2, <2>1 DEF Unpacks, SwapFails, MovesAside, Restores, Goes, JobSet
  <2>2. CASE Prepares \/ MovesIn
    <3>1. \A at, next : Onward(at, next).at \in {at, next} /\ Onward(at, next) =
            [at |-> Onward(at, next).at, v |-> job.v, auto |-> job.auto,
             f |-> Onward(at, next).f, moved |-> job.moved, added |-> job.added]
      BY <1>2 DEF Onward, JobSet
    <3>2. QED BY <2>2, <3>1 DEF Prepares, MovesIn
  <2>3. QED BY <2>1, <2>2 DEF SwapStep
<1>5. QED BY <1>1, <1>3, <1>4 DEF Finishes, Stagings

LEMMA SwapsKeepStatus ==
  ASSUME StatusInv, SwapStep
  PROVE  PackageStays' /\ RestartIsDue'
<1>1. /\ SameStaging /\ UNCHANGED <<others, status, removals>>
      /\ job.at \notin {"none", "staleArchive", "staleMeta"} \cup Finishes
      /\ job'.at \notin Stagings \cup {"droppingMeta", "marking"}
  BY SwapsDo DEF StatusInv
<1>2. status' = status /\ proc' = proc /\ clearing' = clearing
  BY <1>1 DEF others, removals
<1>3. PackageStays'
  BY <1>1, <1>2, PackageIsLeft DEF StatusInv
<1>4. RestartIsDue'
  BY <1>1, <1>2, NothingIsDue
<1>5. QED BY <1>3, <1>4

\* A failed installation ends with the package still there.
LEMMA UndoingKeepsStatus ==
  ASSUME StatusInv, PrepareFails \/ RolledBack
  PROVE  PackageStays' /\ RestartIsDue'
<1>1. /\ job.at \in {"preparing", "restoring"} /\ status' = Failed(status) /\ job' = NoJob
      /\ disk' = NoNew \/ disk' = Undone(disk)
      /\ UNCHANGED <<others, removals>>
  BY DEF PrepareFails, RolledBack, ApplyEndsFailed, Settle
<1>2. status \in StatusSet /\ disk \in DiskSet
  BY StateIs DEF StatusInv
<1>3. SameStaging /\ SameReport /\ ~ status'.restarting /\ proc' = proc
      /\ clearing' = clearing
  BY <1>1, <1>2, UndoneIs, FailedIs, ReportsStay DEF others, removals
<1>4. /\ job'.at = "none" /\ job'.at \notin Stagings \cup {"droppingMeta", "marking"}
      /\ job.at \notin {"staleArchive", "staleMeta"} \cup Finishes /\ job.at # "none"
  BY <1>1, NoJobIs DEF Stagings, Finishes
<1>5. PackageStays'
  BY <1>3, <1>4, PackageIsLeft DEF StatusInv, SameReport
<1>6. RestartIsDue'
  BY <1>3, <1>4, NothingIsDue DEF SameReport
<1>7. QED BY <1>5, <1>6

LEMMA DropsPackageKeepsStatus ==
  ASSUME StatusInv, DropsPackage
  PROVE  PackageStays' /\ RestartIsDue'
<1>1. InstallInv /\ job.at \in {"droppingArchive", "droppingMeta"} /\ job.at # "none"
  BY DropsPackageDo DEF StatusInv
<1>2. status' = status /\ proc' = proc /\ clearing' = clearing
      /\ disk'.applied = disk.applied
  BY <1>1, DropsPackageDo DEF others, removals
<1>3. RestartIsDue'
  BY <1>1, <1>2, NothingIsDue
<1>4. /\ job'.at \in {"droppingMeta", "marking"} /\ disk'.archive = 0
  <2>1. job.at = "droppingMeta" => disk.archive = 0
    BY DEF StatusInv, PackageStays
  <2>2. QED BY <1>1, <2>1, DropsPackageDo
<1>5. PackageStays'
  BY <1>2, <1>4 DEF StatusInv, PackageStays, Stagings, Finishes
<1>6. QED BY <1>3, <1>5

LEMMA AppliedKeepsStatus ==
  ASSUME StatusInv, Applied
  PROVE  PackageStays' /\ RestartIsDue'
<1>1. InstallInv /\ job.at = "marking" /\ job.at # "none" /\ job.at \in Installs
  BY AppliedDo DEF StatusInv, Installs, Finishes
<1>2. disk.archive = 0 /\ disk'.archive = 0 /\ ~ status'.ready /\ job'.at = "none"
  BY <1>1, AppliedDo, NoJobIs DEF StatusInv, PackageStays
<1>3. PackageStays'
  BY <1>2 DEF PackageStays, Stagings
<1>4. RestartIsDue'
  <2>1. ~ status.restarting /\ proc.restarts = 0
    BY <1>1, BusyIsQuiet
  <2>2. /\ status'.pending /\ status'.applied = job.v /\ proc'.current = proc.current
        /\ job.v \in Nat /\ proc.current \in Nat /\ proc.current < job.v
    BY <1>1, AppliedDo, StateIs, InstallsAre DEF SameProcess
  <2>3. status'.applied > proc'.current
    BY <2>2
  <2>4. CASE status'.restarting /\ mode # "none" /\ proc'.restarts = proc.restarts + 1
    <3>1. proc'.restarts = 1
      BY <2>1, <2>4
    <3>2. mode' = mode
      BY <1>1, AppliedDo
    <3>3. QED BY <1>2, <2>2, <2>3, <2>4, <3>1, <3>2 DEF RestartIsDue, Idle
  <2>5. CASE ~ status'.restarting /\ proc'.restarts = 0
    BY <1>2, <2>2, <2>3, <2>5 DEF RestartIsDue, Idle
  <2>6. QED BY <1>1, <2>1, <2>4, <2>5, AppliedDo
<1>5. QED BY <1>3, <1>4

\* A file that cannot be moved back is not of the package.
LEMMA RestoreFailsKeepsStatus ==
  ASSUME StatusInv, RestoreFails
  PROVE  PackageStays' /\ RestartIsDue'
<1>1. /\ job.at = "movingBack" /\ job' = [job EXCEPT !.at = "restoring",
                                         !.moved = @ \ {Max(job.moved)}]
      /\ UNCHANGED <<proc, disk, status, removals>>
  BY DEF RestoreFails
<1>2. job'.at = "restoring" /\ clearing' = clearing
  BY <1>1, StateIs DEF StatusInv, JobSet, removals
<1>3. /\ job.at \notin {"staleArchive", "staleMeta"} \cup Finishes /\ job.at # "none"
      /\ job'.at \notin Stagings \cup {"droppingMeta", "marking"}
  BY <1>1, <1>2 DEF Stagings, Finishes
<1>4. PackageStays'
  BY <1>1, <1>2, <1>3, PackageIsLeft, ReportsStay DEF StatusInv
<1>5. RestartIsDue'
  BY <1>1, <1>3, NothingIsDue
<1>6. QED BY <1>4, <1>5

\* What is still said to be ready is what has been installed.
LEMMA MarkFailsKeepsStatus ==
  ASSUME StatusInv, MarkFails
  PROVE  PackageStays' /\ RestartIsDue'
<1>1. InstallInv /\ job.at = "marking" /\ job.at # "none" /\ job.at \in Installs
  BY MarkFailsDo DEF StatusInv, Installs, Finishes
<1>2. /\ disk.archive = 0 /\ disk' = disk /\ clearing' = {} /\ job'.at = "none"
      /\ status'.staged # 0 /\ status'.unmarked = status'.staged
  <2>1. disk.archive = 0
    BY <1>1 DEF StatusInv, PackageStays
  <2>2. clearing = {} /\ job.v = status.staged /\ job.v # 0
    BY <1>1, InstallsAre, PackagesAre
  <2>3. QED BY <1>1, <2>1, <2>2, MarkFailsDo, NoJobIs DEF removals
<1>3. PackageStays'
  BY <1>2 DEF PackageStays, Stagings
<1>4. RestartIsDue'
  BY <1>1, MarkFailsDo, NothingIsDue
<1>5. QED BY <1>3, <1>4

LEMMA EndsKeepStatus ==
  ASSUME StatusInv, Ends
  PROVE  PackageStays' /\ RestartIsDue'
<1>1. /\ disk' = disk /\ job'.at = "none" /\ ~ status'.ready /\ ~ status'.pending
      /\ ~ status'.restarting /\ proc'.restarts = 0
  BY EndsDo, NoJobIs DEF StatusInv
<1>2. PackageStays'
  BY <1>1 DEF StatusInv, PackageStays, Stagings
<1>3. RestartIsDue'
  BY <1>1 DEF RestartIsDue
<1>4. QED BY <1>2, <1>3

\* What a process finds on disk is one package with its record, or nothing it offers.
LEMMA BeginsKeepStatus ==
  ASSUME StatusInv, SuccessorStarts \/ OperatorStarts
  PROVE  PackageStays' /\ RestartIsDue'
<1> DEFINE v == disk.target[1]
<1>1. /\ InstallInv /\ ~ Alive /\ disk' = disk /\ job' = job /\ job.at = "none"
      /\ v \in Nat /\ v # 0 /\ disk.applied \in Nat
  <2>1. InstallInv
    BY DEF StatusInv
  <2>2. ~ Alive /\ disk' = disk /\ job' = job /\ job.at = "none" /\ v \in Versions
    BY <2>1, BeginsDo, NoJobIs
  <2>3. disk.applied \in Nat
    BY <2>1, StateIs, PackagesAre DEF DiskSet
  <2>4. QED BY <2>1, <2>2, <2>3, PackagesAre
<1>2. /\ proc'.current = v /\ proc'.restarts = proc.restarts /\ ~ status'.restarting
      /\ status'.applied = (IF disk.applied > v THEN disk.applied ELSE 0)
      /\ (status'.pending <=> disk.applied > v)
      /\ (status'.ready <=> status'.staged # 0) /\ status'.staged \in {0, disk.meta}
      /\ status'.staged # 0 => disk.archive # 0
      /\ clearing' # {} => (disk.applied = v \/ Readable(disk) \in 1 .. v)
      /\ status'.staged = IF Readable(disk) > v THEN Readable(disk) ELSE 0
  BY <1>1, BeginsDo
<1>3. RestartIsDue'
  <2>1. proc.restarts = 0
    BY <1>1 DEF StatusInv, RestartIsDue, InstallInv, Shape, GoneIsGone
  <2>2. QED BY <1>1, <1>2, <2>1 DEF RestartIsDue, Idle
<1>4. PackageStays'
  <2>1. PackageStays
    BY DEF StatusInv
  <2>2. ASSUME status'.ready
        PROVE  /\ status'.staged # 0 /\ disk.archive = status'.staged
               /\ disk.meta = status'.staged
    <3>1. status'.staged # 0 /\ disk.meta = status'.staged /\ disk.archive # 0
      BY <1>2, <2>2
    <3>2. QED BY <2>1, <3>1 DEF PackageStays
  <2>3. status'.ready => clearing' = {}
    <3> SUFFICES ASSUME status'.ready, clearing' # {}
                 PROVE  FALSE
      OBVIOUS
    <3>1. disk.archive # 0 /\ ~ (Readable(disk) \in 1 .. v)
      BY <1>1, <1>2, <2>2
    <3>2. disk.applied = v
      BY <1>2, <3>1
    <3>3. QED BY <1>1, <2>1, <3>1, <3>2 DEF PackageStays
  <2>4. QED BY <1>1, <2>1, <2>2, <2>3 DEF PackageStays, Stagings
<1>5. QED BY <1>3, <1>4

LEMMA RemovalsKeepStatus ==
  ASSUME StatusInv, Removal
  PROVE  PackageStays' /\ RestartIsDue'
<1>1. /\ disk'.meta \in {0, disk.meta} /\ disk'.applied \in {0, disk.applied}
      /\ disk'.archive \in {0, disk.archive}
      /\ clearing' \subseteq clearing
      /\ clearing = {} => SameStaging
      /\ status' = status /\ job' = job /\ proc' = proc /\ mode' = mode
  BY RemovalsDo DEF StatusInv
<1>2. RestartIsDue'
  BY <1>1 DEF StatusInv, RestartIsDue, Idle
<1>3. PackageStays'
  <2>1. CASE clearing = {}
    <3>1. clearing' = clearing /\ SameStaging
      BY <1>1, <2>1
    <3>2. QED BY <1>1, <3>1, PackageIsLeft DEF StatusInv
  <2>2. CASE clearing # {}
    <3>1. ~ status.ready /\ job.at \notin Stagings \ {"downloading"}
      BY <2>2 DEF StatusInv, PackageStays
    <3>2. QED BY <1>1, <3>1 DEF StatusInv, PackageStays, Stagings
  <2>3. QED BY <2>1, <2>2
<1>4. QED BY <1>2, <1>3

LEMMA StepsKeepStatus ==
  ASSUME StatusInv, "slowRemovals" \notin Env, "staleClient" \notin Env, [Next]_vars
  PROVE  StatusInv'
<1>1. InstallInv'
  BY StepsKeepInstall DEF StatusInv
<1>2. CASE JobStep
  BY <1>1, <1>2, FetchAnswersKeepsStatus, DropsStaleKeepsStatus, StagesKeepsStatus,
     StagedKeepsStatus, SwapsKeepStatus, UndoingKeepsStatus, DropsPackageKeepsStatus,
     AppliedKeepsStatus, FailuresKeepStatus DEF JobStep, SwapStep, StatusInv
<1>3. CASE Mishap
  BY <1>1, <1>3, FailuresKeepStatus, UndoingKeepsStatus, RestoreFailsKeepsStatus,
     MarkFailsKeepsStatus, EndsKeepStatus
     DEF Mishap, Ends, StatusInv
<1>4. CASE Removal
  BY <1>1, <1>4, RemovalsKeepStatus DEF StatusInv
<1>5. CASE UserStep
  BY <1>1, <1>5, ChecksKeepStatus, RequestsKeepStatus, RestartsKeepStatus,
     BeginsKeepStatus, BystandersKeepStatus DEF UserStep, StatusInv
<1>6. CASE Tick \/ HandsOver \/ SuccessorStarts \/ Stopped \/ Publish
  BY <1>1, <1>6, ChecksKeepStatus, EndsKeepStatus, BeginsKeepStatus,
     BystandersKeepStatus DEF Ends, StatusInv
<1>7. CASE UNCHANGED vars
  BY <1>1, <1>7, BystandersKeepStatus DEF StatusInv
<1>8. QED BY <1>2, <1>3, <1>4, <1>5, <1>6, <1>7 DEF Next

LEMMA StatusAtFirst ==
  ASSUME Init
  PROVE  StatusInv
<1>1. InstallInv
  BY InstallAtFirst
<1>2. job.at = "none"
  BY InitIs, NoJobIs
<1>3. PackageStays /\ RestartIsDue
  BY <1>2, InitIs DEF PackageStays, RestartIsDue, Stagings
<1>4. QED BY <1>1, <1>3 DEF StatusInv

\* What a user is offered is there: a package that is ready is newer than what runs and
\* on disk with its record, or has been installed and could not be recorded; a restart
\* that is promised brings a newer version, and it is asked for once (service.ts,
\* status, #reconcile, restart), provided that
\* removals are through before the next answer and that no page offers a download
\* that is already installed.
THEOREM StatusStaysTrue ==
  ASSUME "slowRemovals" \notin Env, "staleClient" \notin Env
  PROVE  Spec => []StatusIsTrue
<1>1. Init => StatusInv
  BY StatusAtFirst
<1>2. StatusInv /\ [Next]_vars => StatusInv'
  BY StepsKeepStatus
<1>3. StatusInv => StatusIsTrue
  <2> SUFFICES ASSUME StatusInv, Alive
               PROVE  /\ status.ready /\ job.at \notin {"staleArchive", "staleMeta",
                           "droppingArchive", "droppingMeta", "marking"} =>
                           /\ status.staged > proc.current
                           /\ \/ /\ disk.archive = status.staged
                                 /\ disk.meta = status.staged
                              \/ status.unmarked = status.staged
                      /\ status.staged # 0 => status.ready
                      /\ status.pending => status.applied > proc.current
                      /\ status.restarting => status.pending /\ mode # "none"
                      /\ proc.restarts = IF status.restarting THEN 1 ELSE 0
    BY DEF StatusIsTrue
  <2>1. /\ status.staged # 0 => status.ready
        /\ status.staged # 0 => proc.current < status.staged
    BY DEF StatusInv, InstallInv, Shape, VersionsGrow
  <2>2. status.staged \in Nat /\ proc.current \in Nat
    BY StateIs DEF StatusInv
  <2>3. status.staged # 0 => status.staged > proc.current
    BY <2>1, <2>2
  <2>4. QED BY <2>1, <2>3 DEF StatusInv, PackageStays, RestartIsDue, Finishes
<1>4. QED BY <1>1, <1>2, <1>3, PTL DEF Spec

(***************************************************************************)
(* A restart brings what it promised.                                      *)
(***************************************************************************)
\* What a process that went leaves to its successor is what is installed.
Promises ==
    /\ status.pending => ~ torn
    /\ proc.promise # 0 => ~ Alive /\ disk.target[1] = proc.promise

\* The version that begins is the one that was promised.
Kept == proc.promise # 0 /\ proc'.st = "up" => proc'.current = proc.promise

\* A process that goes on promises nothing.
LEMMA TheLivingPromiseNothing ==
  ASSUME Promises, Alive, Alive', proc'.promise = proc.promise,
         status'.pending => status.pending \/ ~ torn', torn' => torn
  PROVE  Promises' /\ Kept
BY DEF Promises, Kept

\* What a live process does by itself leaves its promise alone.
LEMMA JobsPromiseNothing ==
  ASSUME StatusInv, Promises,
         JobStep \/ FetchFails \/ DownloadFails \/ PrepareFails
  PROVE  Promises' /\ Kept
<1>1. InstallInv /\ proc \in ProcSet /\ status \in StatusSet /\ Alive
  <2>1. InstallInv /\ job.at # "none"
    BY DEF StatusInv, JobStep, FetchFails, DownloadFails, PrepareFails, FetchAnswers,
           DropsStale, Stages, Staged, Unpacks, Prepares, MovesAside, MovesIn, Restores,
           RolledBack, DropsPackage, Applied, UnpackFails, SwapFails
  <2>2. QED BY <2>1, StateIs, JobsAreOfTheLiving
<1>2. CASE Applied
  <2>1. torn' = FALSE /\ proc' \in {proc, [proc EXCEPT !.restarts = @ + 1]}
    BY <1>2 DEF Applied, Restarts
  <2>2. Alive' /\ proc'.promise = proc.promise
    BY <1>1, <2>1 DEF Alive, ProcSet
  <2>3. QED BY <1>1, <2>1, <2>2, TheLivingPromiseNothing
<1>3. CASE ~ Applied
  <2>1. proc' = proc /\ torn' = torn
    BY <1>3 DEF JobStep, FetchFails, DownloadFails, PrepareFails, FetchAnswers,
           DropsStale, Stages, Staged, Unpacks, Prepares, MovesAside, MovesIn, Restores,
           RolledBack, DropsPackage, UnpackFails, SwapFails, others
  <2>2. status'.pending <=> status.pending
    <3>1. CASE FetchAnswers \/ DropsStale \/ Staged
      BY <1>1, <3>1 DEF FetchAnswers, DropsStale, Offers, Staged, StatusSet, others
    <3>2. CASE ~ (FetchAnswers \/ DropsStale \/ Staged)
      <4>1. status' \in {status, Failed(status)}
        BY <1>3, <3>2 DEF JobStep, FetchFails, DownloadFails, PrepareFails, Stages,
           Unpacks, Prepares, MovesAside, MovesIn, Restores, RolledBack, DropsPackage,
           UnpackFails, SwapFails, others, ApplyEndsFailed
      <4>2. QED BY <1>1, <4>1 DEF Failed, StatusSet
    <3>3. QED BY <3>1, <3>2
  <2>3. Alive'
    BY <1>1, <2>1 DEF Alive
  <2>4. QED BY <1>1, <2>1, <2>2, <2>3, TheLivingPromiseNothing
<1>4. QED BY <1>2, <1>3

\* Nor does what fails in an installation: nothing is pending while it is under way.
LEMMA FailuresPromiseNothing ==
  ASSUME StatusInv, Promises, RestoreFails \/ MarkFails
  PROVE  Promises' /\ Kept
<1>1. InstallInv /\ job.at # "none" /\ proc' = proc
  BY DEF StatusInv, RestoreFails, MarkFails
<1>2. Alive /\ ~ status.pending
  BY <1>1, BusyIsQuiet
<1>3. ~ status'.pending
  BY <1>1, <1>2, MarkFailsDo DEF RestoreFails
<1>4. QED BY <1>1, <1>2, <1>3 DEF Promises, Kept, Alive

\* Nor does what a user asks of it, the timer, or a removal.
LEMMA RequestsPromiseNothing ==
  ASSUME StatusInv, Promises,
         \/ ClickCheck \/ ClickDownload \/ ClickInstall \/ ClickRestart
         \/ SetAuto \/ SetAutoRestart \/ Stop \/ Tick \/ Removal
  PROVE  Promises' /\ Kept
<1>1. InstallInv /\ proc \in ProcSet /\ status \in StatusSet
  BY StateIs DEF StatusInv
<1>2. CASE Removal
  <2>1. Alive
    BY <1>1, <1>2 DEF InstallInv, Shape, GoneIsGone, Removal
  <2>2. status' = status /\ proc' = proc /\ torn' = torn
    BY <1>2 DEF Removal, Cleared, Cleaned
  <2>3. QED BY <2>1, <2>2, TheLivingPromiseNothing DEF Alive
<1>3. CASE ~ Removal
  <2>1. /\ Up /\ torn' = torn
        /\ proc' \in {proc, [proc EXCEPT !.restarts = @ + 1],
                      [proc EXCEPT !.st = "draining"]}
        /\ status' \in {status, Failed(status), [status EXCEPT !.restarting = TRUE]}
    BY <1>3 DEF ClickCheck, ClickDownload, ClickInstall, ClickRestart, SetAuto,
                SetAutoRestart, Stop, Tick, Click, others, Restarts
  <2>2. Alive /\ Alive' /\ proc'.promise = proc.promise
    BY <1>1, <2>1 DEF Alive, Up, ProcSet
  <2>3. status'.pending <=> status.pending
    BY <1>1, <2>1 DEF Failed, StatusSet
  <2>4. QED BY <2>1, <2>2, <2>3, TheLivingPromiseNothing
<1>4. QED BY <1>2, <1>3

\* A process that restarts leaves the version that is installed.
LEMMA EndsPromiseWhatIsThere ==
  ASSUME StatusInv, Promises, Ends
  PROVE  Promises' /\ Kept
<1>1. InstallInv /\ disk' = disk /\ ~ Alive' /\ ~ status'.pending
  BY EndsDo DEF StatusInv
<1>2. proc'.promise # 0 => disk.target[1] = proc'.promise
  <2> SUFFICES ASSUME proc'.promise # 0 PROVE disk.target[1] = proc'.promise
    OBVIOUS
  <2>1. /\ Alive /\ proc.restarts > 0 /\ proc'.promise = status.applied
    BY DEF Ends, Stopped, HandsOver, HandOverFails, Crash, Exits
  <2>2. status.pending /\ job.at = "none"
    BY <2>1 DEF StatusInv, RestartIsDue, Idle
  <2>3. ~ torn /\ job.at \notin Swappings \cup Finishes
    BY <2>2 DEF Promises, Swappings, Finishes
  <2>4. QED BY <1>1, <2>1, <2>2, <2>3 DEF InstallInv, Rest
<1>3. Kept
  BY <1>1 DEF Kept, Alive
<1>4. QED BY <1>1, <1>2, <1>3 DEF Promises

\* And that is the one that begins.
LEMMA BeginsKeepPromises ==
  ASSUME StatusInv, Promises, SuccessorStarts \/ OperatorStarts
  PROVE  Promises' /\ Kept
<1>1. /\ disk' = disk /\ torn' = torn /\ proc \in ProcSet /\ InstallInv
      /\ proc' = [proc EXCEPT !.st = "up", !.current = disk.target[1], !.promise = 0]
  BY StateIs DEF SuccessorStarts, OperatorStarts, Starts, StatusInv
<1>2. proc'.promise = 0 /\ proc'.current = disk.target[1]
  BY <1>1 DEF ProcSet
<1>3. status'.pending => ~ torn'
  <2>1. status'.pending <=> disk.applied > disk.target[1]
    BY <1>1, BeginsDo
  <2>2. disk.applied = 0 \/ ~ torn
    BY <1>1 DEF InstallInv, MarkIsTrue
  <2>3. disk.target[1] \in Nat
    BY <1>1, BeginsDo, PackagesAre
  <2>4. QED BY <1>1, <2>1, <2>2, <2>3
<1>4. QED BY <1>2, <1>3 DEF Promises, Kept

\* A process that takes over from one that restarted runs the version that was
\* installed when that one went (service.ts, restart and #performRestart; mod.ts
\* starts the successor), under the hypotheses of StatusStaysTrue: no other update,
\* removal or rollback comes between.
THEOREM PromisesStand ==
  ASSUME "slowRemovals" \notin Env, "staleClient" \notin Env
  PROVE  Spec => PromisesAreKept
<1>1. Init => StatusInv /\ Promises
  <2> SUFFICES ASSUME Init PROVE StatusInv /\ Promises
    OBVIOUS
  <2>1. StatusInv
    BY StatusAtFirst
  <2>2. proc.promise = 0 /\ ~ torn
    BY DEF Init
  <2>3. QED BY <2>1, <2>2 DEF Promises
<1>2. ASSUME StatusInv, Promises, [Next]_vars PROVE Promises' /\ Kept
  <2>1. CASE Publish \/ UNCHANGED vars
    <3>1. proc' = proc /\ disk' = disk /\ status' = status /\ torn' = torn
      BY <2>1 DEF Publish, vars
    <3>2. proc.promise # 0 => proc.st # "up"
      BY <1>2 DEF Promises, Alive
    <3>3. QED BY <1>2, <3>1, <3>2 DEF Promises, Kept, Alive
  <2>2. CASE ~ (Publish \/ UNCHANGED vars)
    BY <1>2, <2>2, JobsPromiseNothing, FailuresPromiseNothing, RequestsPromiseNothing,
       EndsPromiseWhatIsThere, BeginsKeepPromises DEF Next, Mishap, UserStep, Ends
  <2>3. QED BY <2>1, <2>2
<1>3. StatusInv /\ [Next]_vars => StatusInv'
  BY StepsKeepStatus
<1>4. ASSUME StatusInv, Promises, [Next]_vars PROVE [Kept]_vars
  BY <1>2, <1>4
<1>5. Spec => [][Kept]_vars
  <2>1. StatusInv /\ Promises /\ [Next]_vars => Promises'
    BY <1>2
  <2> HIDE DEF Kept
  <2>2. QED BY <1>1, <1>3, <1>4, <2>1, PTL DEF Spec
<1>6. QED BY <1>5 DEF PromisesAreKept, Kept
=============================================================================
