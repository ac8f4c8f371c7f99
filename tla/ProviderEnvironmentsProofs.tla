--------------------- MODULE ProviderEnvironmentsProofs ---------------------
(***************************************************************************)
(* Theorems about ProviderEnvironments, for any versions and any number of *)
(* builds: what one process that may die at any step leaves behind. They   *)
(* are proved of one process: nothing locks the cache, and two that install*)
(* the same provider at once build in each other's staging directory.      *)
(***************************************************************************)
EXTENDS ProviderEnvironments, TLAPS

Alone == \E p : Procs = {p}

-----------------------------------------------------------------------------
(* Directories.                                                            *)

Holds(dir, venv, record) == dir.there /\ dir.venv = venv /\ dir.record = record
Whole(dir) == dir.there /\ dir.venv # 0 /\ dir.record = dir.venv

(* What is nowhere holds nothing. *)
Tidy(dir) == ~dir.there => dir.venv = 0 /\ dir.record = 0

(* What is in the directory of a version was built as that version, and    *)
(* its record is of the environment that was built with it.                *)
Truthful(dir, v) ==
  /\ dir \in Directory
  /\ Tidy(dir)
  /\ dir.record # 0 => version[dir.record] = v /\ dir.venv \in {0, dir.record}

(* A directory that is not there, and one that was just made, hold neither *)
(* environment nor record.                                                 *)
LEMMA Directories ==
  /\ 0 \notin Builds /\ NoDirectory \in Directory /\ ~NoDirectory.there
  /\ NoDirectory.venv = 0 /\ NoDirectory.record = 0
  /\ [NoDirectory EXCEPT !.there = TRUE] \in Directory
  /\ Holds([NoDirectory EXCEPT !.there = TRUE], 0, 0)
<1>1. 0 \notin Builds
  BY EnvironmentAssumption DEF Builds
<1> QED BY <1>1 DEF Directory, NoDirectory, Holds

(* shutil.rmtree only takes away, and takes the directory last.            *)
LEMMA ShrinkTakesAway ==
  ASSUME NEW dir \in Directory, NEW d \in Shrink(dir), dir.there
  PROVE  /\ d \in Directory /\ Tidy(d)
         /\ d.venv \in {0, dir.venv} /\ d.record \in {0, dir.record}
<1>1. d = NoDirectory \/ d = [dir EXCEPT !.venv = 0] \/ d = [dir EXCEPT !.record = 0]
  BY DEF Shrink
<1>2. CASE d = NoDirectory
  BY <1>2, Directories DEF Tidy
<1>3. CASE d = [dir EXCEPT !.venv = 0]
  BY <1>3 DEF Directory, Tidy
<1>4. CASE d = [dir EXCEPT !.record = 0]
  BY <1>4 DEF Directory, Tidy
<1> QED BY <1>1, <1>2, <1>3, <1>4

-----------------------------------------------------------------------------
(* The invariant of one process.                                           *)

CallTypes ==
  /\ pc \in [Procs -> Steps]
  /\ told \in [Procs -> Builds \cup {0}]
  /\ retiring \in [Procs -> SUBSET Versions]
  /\ interrupted \in BOOLEAN

(* Builds are answered for from when they are made. *)
DiskInv ==
  /\ builds \in 0 .. MaxBuilds
  /\ version \in [Builds -> Versions \cup {NoVersion}]
  /\ staging \in Directory
  /\ installed \in [Versions -> Directory]
  /\ \A b \in Builds : b > builds => version[b] = NoVersion
  /\ \A v \in Versions : Truthful(installed[v], v)

(* What the staging directory holds at each step of an install, and that   *)
(* what was published is there still when the install returns.             *)
StagingInv(p) ==
  /\ pc[p] = "mkdir" => staging = NoDirectory
  /\ pc[p] = "build" => Holds(staging, 0, 0)
  /\ pc[p] = "probe" => Holds(staging, staging.venv, 0) /\ version[staging.venv] \in Versions
  /\ pc[p] = "record" => Holds(staging, told[p], 0)
  /\ pc[p] \in {"evict", "rename"} => Holds(staging, told[p], told[p])
  /\ pc[p] \in {"siblings", "retire"} => Holds(installed[Target(p)], told[p], told[p])
  /\ pc[p] \in {"record", "evict", "rename", "siblings", "retire"} =>
       told[p] \in Builds /\ Target(p) \in Versions
  /\ pc[p] = "probe" => staging.venv \in Builds

(* What goes, and that everything else is gone then.                       *)
RetiringInv(p) ==
  /\ pc[p] = "rename" => ~installed[Target(p)].there
  /\ pc[p] = "retire" =>
       /\ Target(p) \notin retiring[p]
       /\ \A v \in Versions : installed[v].there => v \in retiring[p] \cup {Target(p)}
  /\ pc[p] = "remove" => \A v \in Versions : installed[v].there => v \in retiring[p]

(* Unless a call was cut short there is one version at most, and a whole   *)
(* one, except where one is evicted, removed, or has just been replaced.   *)
OneVersionInv(p) ==
  ~interrupted /\ pc[p] \notin {"siblings", "retire", "remove"} =>
    /\ \A v, w \in Versions : installed[v].there /\ installed[w].there => v = w
    /\ \A v \in Versions :
         installed[v].there /\ ~(pc[p] = "evict" /\ v = Target(p)) => Whole(installed[v])

CallInv(p) == StagingInv(p) /\ RetiringInv(p) /\ OneVersionInv(p)

EnvInv ==
  /\ CallTypes
  /\ DiskInv
  /\ \A p \in Procs : CallInv(p)

(* Nothing is installed, and nobody has called.                            *)
LEMMA EnvInitially == Init => EnvInv
<1> SUFFICES ASSUME Init PROVE EnvInv
  OBVIOUS
<1>1. 0 \in 0 .. MaxBuilds /\ "idle" \in Steps
  BY EnvironmentAssumption DEF Steps
<1>2. CallTypes
  BY <1>1 DEF Init, CallTypes
<1>3. \A v \in Versions : Truthful(installed[v], v) /\ ~installed[v].there
  BY Directories DEF Init, Truthful, Tidy
<1>4. DiskInv
  BY <1>1, <1>3, Directories DEF DiskInv, Init
<1> QED BY <1>2, <1>3, <1>4 DEF Init, EnvInv, CallInv, StagingInv, RetiringInv, OneVersionInv

(* The calls keep their types, and what they are about to retire are       *)
(* versions.                                                               *)
LEMMA StepKeepsCallTypes == CallTypes /\ DiskInv /\ [Next]_vars => CallTypes'
<1> SUFFICES ASSUME CallTypes, DiskInv, [Next]_vars PROVE CallTypes'
  OBVIOUS
<1> USE DEF CallTypes, Goto, Steps
<1>1. CASE UNCHANGED vars
  BY <1>1 DEF vars
<1>2. ASSUME NEW p \in Procs, Install(p) PROVE CallTypes'
  <2>1. CASE Begin(p) \/ MakeStaging(p) \/ MakeStagingFails(p) \/ Build(p) \/ WriteRecord(p)
             \/ Evict(p) \/ Evicted(p) \/ Rename(p)
    BY <2>1 DEF Begin, MakeStaging, MakeStagingFails, Build, WriteRecord, Evict, Evicted, Rename
  <2>2. CASE BuildFails(p) \/ ProbeFails(p) \/ RecordFails(p) \/ RenameFails(p) \/ Installed(p)
    BY <2>2 DEF BuildFails, ProbeFails, RecordFails, RenameFails, Abort, Installed
  <2>3. CASE Probe(p)
    BY <2>3 DEF Probe, DiskInv, Directory
  <2>4. CASE ListSiblings(p) \/ Retire(p) \/ Retired(p)
    BY <2>4 DEF ListSiblings, Retire, Retired
  <2> QED BY <1>2, <2>1, <2>2, <2>3, <2>4 DEF Install
<1>3. ASSUME NEW p \in Procs, BeginRemove(p) \/ Remove(p) \/ RemoveFails(p) \/ Removed(p) \/ Die(p)
      PROVE CallTypes'
  BY ZenonT(60), <1>3 DEF BeginRemove, Remove, RemoveFails, Removed, Die
<1> QED BY <1>1, <1>2, <1>3 DEF Next

-----------------------------------------------------------------------------
(* The steps of an install up to the publication: only the staging         *)
(* directory changes.                                                      *)

LEMMA StagingSteps ==
  ASSUME CallTypes, DiskInv, NEW p \in Procs, CallInv(p), UNCHANGED <<installed, retiring, interrupted>>,
         \/ Begin(p) \/ MakeStaging(p) \/ MakeStagingFails(p) \/ Probe(p) \/ WriteRecord(p)
         \/ BuildFails(p) \/ ProbeFails(p) \/ RecordFails(p) \/ RenameFails(p)
  PROVE  DiskInv' /\ CallInv(p)'
<1> USE DEF CallTypes, Goto, CallInv
<1>1. UNCHANGED <<builds, version>>
  BY DEF Begin, MakeStaging, MakeStagingFails, Probe, WriteRecord, disk,
         BuildFails, ProbeFails, RecordFails, RenameFails, Abort
<1>2. ASSUME staging' \in Directory PROVE DiskInv'
  BY <1>1, <1>2 DEF DiskInv, Truthful
<1>3. pc[p] \notin {"siblings", "retire", "remove", "evict"}
  BY DEF Begin, MakeStaging, MakeStagingFails, Probe, WriteRecord,
         BuildFails, ProbeFails, RecordFails, RenameFails, Abort
<1>4. ASSUME pc'[p] \notin {"siblings", "retire", "remove", "rename"} PROVE RetiringInv(p)' /\ OneVersionInv(p)'
  BY <1>3, <1>4 DEF RetiringInv, OneVersionInv
<1>5. CASE Begin(p)
  BY <1>2, <1>4, <1>5, Directories DEF Begin, StagingInv
<1>6. CASE MakeStaging(p)
  BY <1>2, <1>4, <1>6, Directories DEF MakeStaging, StagingInv
<1>7. CASE MakeStagingFails(p)
  BY <1>2, <1>4, <1>7 DEF MakeStagingFails, disk, StagingInv, DiskInv
<1>8. CASE Probe(p)
  <2>1. /\ pc[p] = "probe" /\ pc'[p] = "record" /\ told'[p] = staging.venv /\ UNCHANGED staging
    BY <1>8 DEF Probe, disk
  <2>2. StagingInv(p)'
    BY <1>1, <2>1 DEF StagingInv, Target, Holds
  <2> QED BY <1>2, <1>4, <2>1, <2>2 DEF DiskInv
<1>9. CASE WriteRecord(p)
  <2>1. /\ pc[p] = "record" /\ pc'[p] = "evict" /\ staging' = [staging EXCEPT !.record = told[p]]
        /\ UNCHANGED told
    BY <1>9 DEF WriteRecord
  <2>2. Holds(staging', told[p], told[p]) /\ staging' \in Directory
    BY <2>1 DEF StagingInv, Holds, DiskInv, Directory
  <2>3. StagingInv(p)'
    BY <1>1, <2>1, <2>2 DEF StagingInv, Target
  <2> QED BY <1>2, <1>4, <2>1, <2>2, <2>3
<1>10. CASE BuildFails(p) \/ ProbeFails(p) \/ RecordFails(p) \/ RenameFails(p)
  BY <1>2, <1>4, <1>10, Directories DEF BuildFails, ProbeFails, RecordFails, RenameFails, Abort, StagingInv
<1> QED BY <1>5, <1>6, <1>7, <1>8, <1>9, <1>10

(* The environment that is built is a new one, so no record is beside it or*)
(* speaks of it.                                                           *)
LEMMA BuildStep ==
  ASSUME CallTypes, DiskInv, NEW p \in Procs, CallInv(p), Build(p)
  PROVE  DiskInv' /\ CallInv(p)'
<1> USE DEF CallTypes, Goto, CallInv
<1> DEFINE b == builds + 1
<1>1. PICK v \in Versions : version' = [version EXCEPT ![b] = v]
  BY DEF Build
<1>2. /\ pc[p] = "build" /\ pc'[p] = "probe" /\ builds < MaxBuilds /\ builds' = b
      /\ staging' = [staging EXCEPT !.there = TRUE, !.venv = b]
      /\ UNCHANGED <<installed, told, retiring, interrupted>>
  BY DEF Build
<1>3. b \in Builds /\ builds' \in 0 .. MaxBuilds
  BY <1>2, EnvironmentAssumption DEF Builds, DiskInv
<1>4. staging' \in Directory /\ Holds(staging', b, 0)
  BY <1>2, <1>3 DEF StagingInv, Holds, DiskInv, Directory
<1>5. ASSUME NEW w \in Versions PROVE Truthful(installed[w], w)'
  <2>1. installed[w].record # b
    BY <1>2, <1>3, EnvironmentAssumption DEF DiskInv, Truthful, Builds
  <2>2. installed[w].record # 0 => version'[installed[w].record] = version[installed[w].record]
    BY <1>1, <2>1 DEF DiskInv, Directory
  <2> QED BY <1>2, <2>2 DEF DiskInv, Truthful
<1>6. \A d \in Builds : d > builds' => version'[d] = NoVersion
  BY <1>1, <1>2, <1>3 DEF DiskInv, Builds
<1>7. DiskInv'
  BY <1>1, <1>2, <1>3, <1>4, <1>5, <1>6 DEF DiskInv
<1>8. StagingInv(p)'
  BY <1>1, <1>2, <1>3, <1>4 DEF StagingInv, Holds, DiskInv
<1> QED BY <1>2, <1>7, <1>8 DEF RetiringInv, OneVersionInv

-----------------------------------------------------------------------------
(* The publication.                                                        *)

LEMMA InstalledShrinks ==
  ASSUME DiskInv, NEW v \in Versions, installed[v].there, NEW d \in Shrink(installed[v]),
         installed' = [installed EXCEPT ![v] = d], UNCHANGED <<builds, version, staging>>
  PROVE  /\ DiskInv'
         /\ installed'[v] = d /\ \A w \in Versions \ {v} : installed'[w] = installed[w]
<1>1. d \in Directory /\ Tidy(d) /\ d.venv \in {0, installed[v].venv}
      /\ d.record \in {0, installed[v].record}
  BY ShrinkTakesAway DEF DiskInv
<1>2. Truthful(d, v)'
  BY <1>1 DEF Truthful, DiskInv
<1>3. installed'[v] = d /\ \A w \in Versions \ {v} : installed'[w] = installed[w]
  BY DEF DiskInv
<1>4. \A w \in Versions : Truthful(installed[w], w)'
  BY <1>2, <1>3 DEF DiskInv, Truthful
<1> QED BY <1>1, <1>3, <1>4 DEF DiskInv

(* A removal of the version that is to be replaced takes away some of it,  *)
(* and adds nothing.                                                       *)
LEMMA EvictStep ==
  ASSUME CallTypes, DiskInv, NEW p \in Procs, CallInv(p), Evict(p)
  PROVE  DiskInv' /\ CallInv(p)'
<1>1. /\ pc[p] = "evict" /\ pc'[p] = "evict" /\ installed[Target(p)].there /\ Target(p) \in Versions
      /\ UNCHANGED <<builds, version, staging, told, retiring, interrupted>>
  BY DEF Evict, Goto, CallTypes, CallInv, StagingInv
<1>2. PICK d \in Shrink(installed[Target(p)]) : installed' = [installed EXCEPT ![Target(p)] = d]
  BY DEF Evict
<1>3. Target(p)' = Target(p)
  BY <1>1 DEF Target
<1>4. DiskInv' /\ \A w \in Versions \ {Target(p)} : installed'[w] = installed[w]
  BY <1>1, <1>2, InstalledShrinks
<1>5. StagingInv(p)' /\ RetiringInv(p)'
  BY <1>1, <1>3 DEF CallInv, StagingInv, RetiringInv
<1>6. OneVersionInv(p)'
  <2> SUFFICES ASSUME ~interrupted
               PROVE  /\ \A v, w \in Versions : installed'[v].there /\ installed'[w].there => v = w
                      /\ \A v \in Versions :
                           installed'[v].there /\ v # Target(p) => Whole(installed'[v])
    BY <1>1, <1>3 DEF OneVersionInv
  <2>1. \A w \in Versions : installed[w].there => w = Target(p)
    BY <1>1 DEF CallInv, OneVersionInv
  <2> QED BY <1>4, <2>1
<1> QED BY <1>4, <1>5, <1>6 DEF CallInv

(* The rename puts a true record in place, in an empty place; what is      *)
(* listed after it is every other version.                                 *)
LEMMA PublishSteps ==
  ASSUME CallTypes, DiskInv, NEW p \in Procs, CallInv(p), Evicted(p) \/ Rename(p) \/ ListSiblings(p)
  PROVE  DiskInv' /\ CallInv(p)'
<1> USE DEF CallTypes, Goto, CallInv
<1>1. CASE Evicted(p)
  <2>1. /\ pc[p] = "evict" /\ pc'[p] = "rename" /\ ~installed[Target(p)].there
        /\ UNCHANGED <<disk, told, retiring, interrupted>>
    BY <1>1 DEF Evicted
  <2>2. Target(p)' = Target(p)
    BY <2>1 DEF Target, disk
  <2>3. DiskInv' /\ StagingInv(p)' /\ RetiringInv(p)'
    BY <2>1, <2>2 DEF disk, DiskInv, Truthful, StagingInv, RetiringInv
  <2>4. OneVersionInv(p)'
    BY <2>1, <2>2 DEF disk, OneVersionInv
  <2> QED BY <2>3, <2>4
<1>2. CASE Rename(p)
  <2>1. /\ pc[p] = "rename" /\ pc'[p] = "siblings"
        /\ installed' = [installed EXCEPT ![Target(p)] = staging] /\ staging' = NoDirectory
        /\ UNCHANGED <<builds, version, told, retiring, interrupted>>
    BY <1>2 DEF Rename
  <2>2. /\ Holds(staging, told[p], told[p]) /\ told[p] \in Builds /\ Target(p) \in Versions
        /\ staging \in Directory
    BY <2>1 DEF StagingInv, DiskInv
  <2>3. ASSUME NEW d, d = staging, NEW v, v = Target(p) PROVE Truthful(d, v)'
    BY <2>1, <2>2, <2>3, Directories DEF Truthful, Holds, Tidy, Target
  <2>4. installed'[Target(p)] = staging /\ Target(p)' = Target(p)
    BY <2>1, <2>2 DEF DiskInv, Target
  <2>5. ASSUME NEW v \in Versions PROVE Truthful(installed[v], v)'
    <3>1. CASE v = Target(p)
      BY <2>3, <2>4, <3>1 DEF Truthful
    <3>2. CASE v # Target(p)
      BY <2>1, <3>2 DEF DiskInv, Truthful
    <3> QED BY <3>1, <3>2
  <2>6. DiskInv'
    BY <2>1, <2>2, <2>5, Directories DEF DiskInv
  <2> QED BY <2>1, <2>2, <2>4, <2>6 DEF StagingInv, RetiringInv, OneVersionInv
<1>3. CASE ListSiblings(p)
  <2>1. /\ pc[p] = "siblings" /\ pc'[p] = "retire"
        /\ retiring'[p] = {v \in Versions \ {Target(p)} : installed[v].there}
        /\ UNCHANGED <<disk, told, interrupted>>
    BY <1>3 DEF ListSiblings
  <2>2. Target(p)' = Target(p)
    BY <2>1 DEF Target, disk
  <2> QED BY <2>1, <2>2
          DEF disk, DiskInv, Truthful, StagingInv, RetiringInv, OneVersionInv
<1> QED BY <1>1, <1>2, <1>3

(* What is retired is never the version that was just put in place.        *)
LEMMA RetireSteps ==
  ASSUME CallTypes, DiskInv, NEW p \in Procs, CallInv(p), Retire(p) \/ Retired(p) \/ Installed(p)
  PROVE  DiskInv' /\ CallInv(p)'
<1> USE DEF CallTypes, Goto, CallInv
<1>1. pc[p] = "retire" /\ UNCHANGED <<builds, version, staging, interrupted>>
  BY DEF Retire, Retired, Installed, disk
<1>2. /\ Holds(installed[Target(p)], told[p], told[p]) /\ told[p] \in Builds /\ Target(p) \in Versions
      /\ Target(p) \notin retiring[p]
      /\ \A v \in Versions : installed[v].there => v \in retiring[p] \cup {Target(p)}
  BY <1>1 DEF StagingInv, RetiringInv
<1>3. CASE Retire(p)
  <2>1. PICK v \in retiring[p] :
          installed[v].there /\ \E d \in Shrink(installed[v]) : installed' = [installed EXCEPT ![v] = d]
    BY <1>3 DEF Retire
  <2>2. PICK d \in Shrink(installed[v]) : installed' = [installed EXCEPT ![v] = d]
    BY <2>1
  <2>3. v \in Versions /\ v # Target(p)
    BY <1>2
  <2>4. /\ DiskInv' /\ \A w \in Versions \ {v} : installed'[w] = installed[w]
    BY <1>1, <2>1, <2>2, <2>3, InstalledShrinks
  <2>5. UNCHANGED <<told, retiring>> /\ pc'[p] = "retire" /\ Target(p)' = Target(p)
    BY <1>1, <1>3 DEF Retire, Target
  <2> QED BY <1>2, <2>3, <2>4, <2>5 DEF StagingInv, RetiringInv, OneVersionInv
<1>4. CASE Retired(p)
  <2>1. PICK v \in retiring[p] :
          ~installed[v].there /\ retiring' = [retiring EXCEPT ![p] = @ \ {v}]
    BY <1>4 DEF Retired
  <2>2. UNCHANGED <<disk, told>> /\ pc'[p] = "retire" /\ Target(p)' = Target(p)
    BY <1>1, <1>4 DEF Retired, Target, disk
  <2>3. retiring'[p] = retiring[p] \ {v}
    BY <2>1
  <2> QED BY <1>2, <2>1, <2>2, <2>3
          DEF disk, DiskInv, Truthful, StagingInv, RetiringInv, OneVersionInv
<1>5. CASE Installed(p)
  <2>1. UNCHANGED disk /\ pc'[p] = "idle" /\ retiring[p] = {}
    BY <1>5 DEF Installed
  <2>2. Whole(installed[Target(p)]) /\ \A v \in Versions : installed[v].there => v = Target(p)
    BY <1>2, <2>1, Directories DEF Whole, Holds
  <2> QED BY <2>1, <2>2 DEF disk, DiskInv, Truthful, StagingInv, RetiringInv, OneVersionInv
<1> QED BY <1>3, <1>4, <1>5

-----------------------------------------------------------------------------
(* remove, and a death.                                                    *)

LEMMA RemoveSteps ==
  ASSUME CallTypes, DiskInv, NEW p \in Procs, CallInv(p),
         BeginRemove(p) \/ Remove(p) \/ RemoveFails(p) \/ Removed(p) \/ Die(p)
  PROVE  DiskInv' /\ CallInv(p)'
<1> USE DEF CallTypes, Goto, CallInv
<1>1. CASE BeginRemove(p)
  <2>1. /\ pc'[p] = "remove" /\ retiring'[p] = {v \in Versions : installed[v].there} /\ UNCHANGED disk
    BY <1>1 DEF BeginRemove
  <2> QED BY <2>1 DEF disk, DiskInv, Truthful, StagingInv, RetiringInv, OneVersionInv
<1>2. CASE Remove(p)
  <2>1. PICK v \in retiring[p] :
          /\ installed[v].there
          /\ \E d \in Shrink(installed[v]) :
               /\ installed' = [installed EXCEPT ![v] = d]
               /\ retiring' = [retiring EXCEPT ![p] = IF d.there THEN @ ELSE @ \ {v}]
    BY <1>2 DEF Remove
  <2>2. PICK d \in Shrink(installed[v]) :
          /\ installed' = [installed EXCEPT ![v] = d]
          /\ retiring' = [retiring EXCEPT ![p] = IF d.there THEN @ ELSE @ \ {v}]
    BY <2>1
  <2>3. pc[p] = "remove" /\ pc'[p] = "remove" /\ UNCHANGED <<builds, version, staging>>
    BY <1>2 DEF Remove
  <2>4. /\ DiskInv' /\ installed'[v] = d
        /\ \A w \in Versions \ {v} : installed'[w] = installed[w]
    BY <2>1, <2>2, <2>3, InstalledShrinks
  <2>5. retiring'[p] = IF d.there THEN retiring[p] ELSE retiring[p] \ {v}
    BY <2>2
  <2> QED BY <2>3, <2>4, <2>5 DEF StagingInv, RetiringInv, OneVersionInv
<1>3. CASE RemoveFails(p) \/ Die(p)
  BY <1>3 DEF RemoveFails, Die, disk, DiskInv, Truthful, StagingInv, RetiringInv, OneVersionInv
<1>4. CASE Removed(p)
  <2>1. pc[p] = "remove" /\ retiring[p] = {} /\ pc'[p] = "idle" /\ UNCHANGED disk
    BY <1>4 DEF Removed
  <2>2. \A v \in Versions : ~installed[v].there
    BY <2>1 DEF RetiringInv
  <2> QED BY <2>1, <2>2 DEF disk, DiskInv, Truthful, StagingInv, RetiringInv, OneVersionInv
<1> QED BY <1>1, <1>2, <1>3, <1>4

(* With one process, every step keeps the invariant.                       *)
LEMMA StepKeepsEnv == Alone /\ EnvInv /\ [Next]_vars => EnvInv'
<1> SUFFICES ASSUME Alone, EnvInv, [Next]_vars PROVE EnvInv'
  OBVIOUS
<1>1. CallTypes'
  BY StepKeepsCallTypes DEF EnvInv
<1>2. CASE UNCHANGED vars
  BY <1>2 DEF vars, disk, EnvInv, CallTypes, DiskInv, Truthful, CallInv, StagingInv, RetiringInv,
              OneVersionInv, Target
<1>3. ASSUME NEW p \in Procs, DiskInv' /\ CallInv(p)' PROVE EnvInv'
  BY <1>1, <1>3 DEF Alone, EnvInv
<1>4. ASSUME NEW p \in Procs, Install(p) PROVE DiskInv' /\ CallInv(p)'
  <2>1. CallTypes /\ DiskInv /\ CallInv(p)
    BY DEF EnvInv
  <2>2. CASE \/ Begin(p) \/ MakeStaging(p) \/ MakeStagingFails(p) \/ Probe(p) \/ WriteRecord(p)
             \/ BuildFails(p) \/ ProbeFails(p) \/ RecordFails(p) \/ RenameFails(p)
    <3>1. UNCHANGED <<installed, retiring, interrupted>>
      BY <2>2 DEF Begin, MakeStaging, MakeStagingFails, Probe, WriteRecord, disk,
                  BuildFails, ProbeFails, RecordFails, RenameFails, Abort
    <3> QED BY <2>1, <2>2, <3>1, StagingSteps
  <2>3. CASE Build(p) \/ Evict(p)
    BY <2>1, <2>3, BuildStep, EvictStep
  <2>4. CASE Evicted(p) \/ Rename(p) \/ ListSiblings(p) \/ Retire(p) \/ Retired(p) \/ Installed(p)
    BY <2>1, <2>4, PublishSteps, RetireSteps
  <2> QED BY <1>4, <2>2, <2>3, <2>4 DEF Install
<1>5. ASSUME NEW p \in Procs, BeginRemove(p) \/ Remove(p) \/ RemoveFails(p) \/ Removed(p) \/ Die(p)
      PROVE DiskInv' /\ CallInv(p)'
  BY <1>5, RemoveSteps DEF EnvInv
<1> QED BY <1>2, <1>3, <1>4, <1>5 DEF Next

(* The invariant holds of every behaviour of one process.                  *)
LEMMA EnvAlways ==
  ASSUME Alone
  PROVE  Spec => []EnvInv
<1>1. EnvInv /\ [Next]_vars => EnvInv'
  BY StepKeepsEnv
<1> QED BY <1>1, EnvInitially, PTL DEF Spec

-----------------------------------------------------------------------------
(* EnvironmentStore: with one process, the directory that is built in and  *)
(* the one of each version hold nothing but builds that were made, and a   *)
(* call is at one of its steps.                                            *)
THEOREM EnvironmentsTypeCorrect ==
  ASSUME Alone
  PROVE  Spec => []TypeOK
<1>1. EnvInv => TypeOK
  BY DEF EnvInv, CallTypes, DiskInv, TypeOK
<1> QED BY <1>1, EnvAlways, PTL

(* EnvironmentStore._probe and _publish: whatever was cut short, and       *)
(* wherever, a record is only ever found in the directory of the version   *)
(* that the environment it was written for answered with, and beside no    *)
(* other environment than that one.                                        *)
THEOREM RecordsStayTrue ==
  ASSUME Alone
  PROVE  Spec => []RecordsAreTrue
<1>1. EnvInv => RecordsAreTrue
  BY DEF EnvInv, DiskInv, Truthful, RecordsAreTrue, Discovered
<1> QED BY <1>1, EnvAlways, PTL

(* EnvironmentStore.install: when it returns there is the version it built *)
(* and no other, whatever calls that died have left; and where no call was *)
(* cut short there is never more than one version, and it can be started.  *)
THEOREM InstallsRepair ==
  ASSUME Alone
  PROVE  Spec => []InstallRepairs
<1>1. EnvInv => InstallRepairs
  <2> SUFFICES ASSUME EnvInv PROVE InstallRepairs
    OBVIOUS
  <2>1. ASSUME NEW p \in Procs, pc[p] = "retire", retiring[p] = {}
        PROVE  /\ \A v \in Versions : installed[v].there => v = Target(p)
               /\ installed[Target(p)] = [there |-> TRUE, venv |-> told[p], record |-> told[p]]
    <3>1. /\ Holds(installed[Target(p)], told[p], told[p]) /\ installed[Target(p)] \in Directory
          /\ \A v \in Versions : installed[v].there => v \in retiring[p] \cup {Target(p)}
      BY <2>1 DEF EnvInv, CallInv, StagingInv, RetiringInv, DiskInv
    <3> QED BY <2>1, <3>1 DEF Holds, Directory
  <2>2. ASSUME Idle, ~interrupted
        PROVE  /\ Discovered = Runnable
               /\ \A v, w \in Versions : installed[v].there /\ installed[w].there => v = w
    <3>1. PICK p : p \in Procs
      BY DEF Alone
    <3>2. OneVersionInv(p) /\ pc[p] = "idle" /\ DiskInv
      BY <2>2, <3>1 DEF Idle, EnvInv, CallInv
    <3> QED BY <2>2, <3>2 DEF OneVersionInv, DiskInv, Truthful, Tidy, Whole, Discovered, Runnable
  <2> QED BY <2>1, <2>2 DEF InstallRepairs
<1> QED BY <1>1, EnvAlways, PTL

(* EnvironmentStore._publish: the new version is in place before the old   *)
(* one goes. Only remove(), and the replacement of a version by itself,    *)
(* take away the last environment that can be started.                     *)
THEOREM UpgradesLeaveNoGap ==
  ASSUME Alone
  PROVE  Spec => UpgradeLeavesNoGap
<1>1. ASSUME EnvInv, [Next]_vars, Runnable # {}, Runnable' = {}
      PROVE  \E p \in Procs : \/ pc[p] = "remove"
                              \/ pc[p] = "evict" /\ Runnable = {Target(p)}
  <2>1. ASSUME UNCHANGED installed PROVE FALSE
    BY <1>1, <2>1 DEF Runnable, Discovered
  <2>2. ASSUME NEW v \in Versions, installed' = [installed EXCEPT ![v] = installed'[v]]
        PROVE  Runnable = {v} /\ v \notin Runnable'
    <3>1. \A w \in Versions \ {v} : installed'[w] = installed[w]
      BY <1>1, <2>2 DEF EnvInv, DiskInv
    <3>2. \A w \in Versions \ {v} : w \notin Runnable
      BY <1>1, <3>1 DEF Runnable, Discovered
    <3> QED BY <1>1, <3>2 DEF Runnable, Discovered
  <2>3. PICK p \in Procs : Evict(p) \/ Rename(p) \/ Retire(p) \/ Remove(p)
    BY <1>1, <2>1
    DEF Next, vars, disk, Install, Begin, MakeStaging, MakeStagingFails, Build, Probe, WriteRecord,
        BuildFails, ProbeFails, RecordFails, RenameFails, Abort, Evicted, ListSiblings, Retired,
        Installed, BeginRemove, RemoveFails, Removed, Die
  <2>4. CASE Evict(p)
    <3>1. pc[p] = "evict" /\ Target(p) \in Versions
      BY <1>1, <2>4 DEF Evict, Goto, EnvInv, CallInv, StagingInv
    <3>2. installed' = [installed EXCEPT ![Target(p)] = installed'[Target(p)]]
      BY <1>1, <2>4, <3>1 DEF Evict, EnvInv, DiskInv
    <3> QED BY <2>2, <3>1, <3>2
  <2>5. CASE Rename(p)
    <3>1. /\ Holds(staging, told[p], told[p]) /\ told[p] \in Builds /\ Target(p) \in Versions
          /\ installed' = [installed EXCEPT ![Target(p)] = staging]
      BY <1>1, <2>5 DEF Rename, Goto, EnvInv, CallInv, StagingInv
    <3>2. installed'[Target(p)] = staging
      BY <1>1, <3>1 DEF EnvInv, DiskInv
    <3>3. Target(p) \in Runnable'
      BY <3>1, <3>2, Directories DEF Runnable, Discovered, Holds
    <3> QED BY <1>1, <3>3
  <2>6. CASE Retire(p)
    <3>1. /\ Holds(installed[Target(p)], told[p], told[p]) /\ told[p] \in Builds
          /\ Target(p) \in Versions /\ Target(p) \notin retiring[p]
      BY <1>1, <2>6 DEF Retire, Goto, EnvInv, CallInv, StagingInv, RetiringInv
    <3>2. installed'[Target(p)] = installed[Target(p)]
      BY <1>1, <2>6, <3>1 DEF Retire, EnvInv, DiskInv
    <3>3. Target(p) \in Runnable'
      BY <3>1, <3>2, Directories DEF Runnable, Discovered, Holds
    <3> QED BY <1>1, <3>3
  <2>7. CASE Remove(p)
    BY <2>7 DEF Remove, Goto
  <2> QED BY <2>3, <2>4, <2>5, <2>6, <2>7
<1>2. EnvInv /\ [Next]_vars =>
        [Runnable # {} /\ Runnable' = {} =>
           \E p \in Procs : \/ pc[p] = "remove"
                            \/ pc[p] = "evict" /\ Runnable = {Target(p)}]_vars
  BY <1>1
<1> QED BY <1>2, EnvAlways, PTL DEF Spec, UpgradeLeavesNoGap
=============================================================================
