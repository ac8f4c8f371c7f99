------------------------ MODULE ArtifactStoreProofs ------------------------
(***************************************************************************)
(* Theorems about ArtifactStore, for any number of revisions, names and    *)
(* processes, and for any distribution of roles among the processes.       *)
(***************************************************************************)
EXTENDS ArtifactStore, TLAPS

(* The steps of a fit before its revision exists. *)
FitSteps == {"transforms", "train", "metadata", "publish"}

(* The steps at which the name of a call is about to be used on the disk. *)
NameSteps == {"check", "truncate", "write", "list", "manifests", "open_tree",
              "unlink_files", "unlink_alias"}

(* A fit has its staged revision to itself, and has written what the steps *)
(* it has taken write.                                                     *)
Staged(p) ==
  pc[p] \in FitSteps =>
    LET r == job[p].rev IN
    /\ r \in 1 .. minted
    /\ r \notin published
    /\ place[r] = "tmp"
    /\ lineage[r] = job[p].name
    /\ job[p].name \in Names
    /\ pc[p] = "transforms" => files[r] = {}
    /\ pc[p] = "train"      => files[r] = Complete(r) \cap {"transforms"}
    /\ pc[p] = "metadata"   => files[r] = (Complete(r) \cap {"transforms"}) \cup {"state"}
    /\ pc[p] = "publish"    => files[r] = Complete(r)

(* What set_alias has checked stays true until it writes: a revision never  *)
(* changes its lineage, though it may be gone by then.                     *)
Chosen(p) ==
  /\ pc[p] \in NameSteps => job[p].name \in Names
  /\ pc[p] \in {"check", "truncate", "write"} => job[p].rev \in Revisions
  /\ pc[p] \in {"truncate", "write"} =>
       job[p].rev \in published /\ lineage[job[p].rev] = job[p].name

(* A deletion takes files only from what it has declared doomed, and its   *)
(* listing holds every file that is left there.                            *)
Removing(p) ==
  pc[p] = "unlink_files" =>
    /\ job[p].rev \in doomed
    /\ files[job[p].rev] \subseteq job[p].listing

ProcessInv == \A p \in Procs : Staged(p) /\ Chosen(p) /\ Removing(p)

Apart ==
  \A p, q \in Procs :
    pc[p] \in FitSteps /\ pc[q] \in FitSteps /\ p # q => job[p].rev # job[q].rev

(* An id that was not drawn yet has left no trace. *)
Unborn ==
  \A r \in Revisions : r > minted =>
    place[r] = "none" /\ files[r] = {} /\ r \notin published

Placed ==
  /\ doomed \subseteq published
  /\ \A r \in published : r <= minted /\ lineage[r] \in Names /\ place[r] # "tmp"
  /\ \A r \in Revisions : place[r] = "models" => r \in published

IInv ==
  /\ TypeOK
  /\ ProcessInv
  /\ Apart
  /\ Unborn
  /\ Placed
  /\ PublishedIsComplete
  /\ AliasInLineage

-----------------------------------------------------------------------------

LEMMA InitInv == Init => IInv
<1> SUFFICES ASSUME Init PROVE IInv
  OBVIOUS
<1> USE StoreAssumption
<1>1. TypeOK
  BY DEF Init, TypeOK, Revisions, Steps, Job, NoJob, Tasks, Files
<1>2. ProcessInv
  BY DEF Init, ProcessInv, Staged, Chosen, Removing, FitSteps, NameSteps
<1>3. Apart
  BY DEF Init, Apart, FitSteps
<1>4. Unborn /\ Placed /\ PublishedIsComplete /\ AliasInLineage
  BY DEF Init, Unborn, Placed, PublishedIsComplete, AliasInLineage
<1> QED
  BY <1>1, <1>2, <1>3, <1>4 DEF IInv

-----------------------------------------------------------------------------
(* Every step leaves the state well typed.                                 *)

LEMMA NoJobType == NoJob \in Job
BY DEF NoJob, Job, Tasks

(* One field of one process's record, at a time. *)
LEMMA JobRev ==
  ASSUME NEW jb \in [Procs -> Job], NEW p \in Procs, NEW r \in Revisions
  PROVE  [jb EXCEPT ![p].rev = r] \in [Procs -> Job]
<1>1. [jb[p] EXCEPT !.rev = r] \in Job
  BY DEF Job
<1> QED
  BY <1>1

LEMMA JobTodo ==
  ASSUME NEW jb \in [Procs -> Job], NEW p \in Procs, NEW s \in SUBSET Revisions
  PROVE  [jb EXCEPT ![p].todo = s] \in [Procs -> Job]
<1>1. [jb[p] EXCEPT !.todo = s] \in Job
  BY DEF Job
<1> QED
  BY <1>1

LEMMA JobRevTodo ==
  ASSUME NEW jb \in [Procs -> Job], NEW p \in Procs,
         NEW r \in Revisions, NEW s \in SUBSET Revisions
  PROVE  [jb EXCEPT ![p].rev = r, ![p].todo = s] \in [Procs -> Job]
<1>1. [[jb[p] EXCEPT !.rev = r] EXCEPT !.todo = s] \in Job
  BY DEF Job
<1> QED
  BY <1>1

LEMMA JobApplied ==
  ASSUME NEW jb \in [Procs -> Job], NEW p \in Procs, NEW b \in BOOLEAN
  PROVE  [jb EXCEPT ![p].applied = b] \in [Procs -> Job]
<1>1. [jb[p] EXCEPT !.applied = b] \in Job
  BY DEF Job
<1> QED
  BY <1>1

(* A call gives its process a job and a place to begin at.                 *)
LEMMA CallTypes ==
  ASSUME TypeOK, NEW p \in Procs, NEW j \in Job, NEW step \in Steps, Call(p, j, step)
  PROVE  job' \in [Procs -> Job] /\ pc' \in [Procs -> Steps]
BY DEF TypeOK, Call

LEMMA TypeStep == IInv /\ [Next]_vars => TypeOK'
<1> SUFFICES ASSUME IInv, [Next]_vars PROVE TypeOK'
  OBVIOUS
<1> USE StoreAssumption, NoJobType DEF IInv, disk, history
<1>1. ASSUME NEW p \in Procs, Fit(p) PROVE TypeOK'
  <2>1. ASSUME NEW n \in Names, NEW t \in {"fit", "fit_quietly"}, BeginFit(p, n, t)
        PROVE TypeOK'
    <3>1. minted + 1 \in Revisions
      BY <2>1 DEF TypeOK, BeginFit, Revisions
    <3>2. [NoJob EXCEPT !.task = t, !.name = n, !.rev = minted + 1] \in Job
      BY <3>1 DEF NoJob, Job, Tasks
    <3>3. job' \in [Procs -> Job] /\ pc' \in [Procs -> Steps]
      BY <2>1, <3>2 DEF TypeOK, BeginFit, Call, Steps
    <3> QED
      BY <2>1, <3>1, <3>3 DEF TypeOK, BeginFit, Revisions
  <2>2. CASE WriteTransforms(p)
    BY <2>2 DEF TypeOK, WriteTransforms, Goto, Complete, Files, Steps
  <2>3. CASE FitSucceeds(p)
    BY <2>3 DEF TypeOK, FitSucceeds, Goto, Files, Steps
  <2>4. CASE FitFails(p)
    BY <2>4 DEF TypeOK, FitFails, End, Goto, Steps
  <2>5. CASE WriteMetadata(p)
    BY <2>5 DEF TypeOK, WriteMetadata, Goto, Files, Steps
  <2>6. CASE Publish(p)
    <3>1. job[p].rev \in Revisions
      BY <2>6 DEF Publish, ProcessInv, Staged, FitSteps, TypeOK, Revisions
    <3>2. job' \in [Procs -> Job] /\ pc' \in [Procs -> Steps]
      BY <2>6 DEF TypeOK, Publish, End, Goto, Steps
    <3> QED
      BY <2>6, <3>1, <3>2 DEF TypeOK, Publish
  <2> QED
    BY <1>1, <2>1, <2>2, <2>3, <2>4, <2>5, <2>6 DEF Fit
<1>2. ASSUME NEW p \in Procs, Select(p) PROVE TypeOK'
  <2>1. ASSUME NEW n \in Names, NEW r \in Revisions, BeginSelect(p, n, r)
        PROVE TypeOK'
    <3>1. [NoJob EXCEPT !.task = "select", !.name = n, !.rev = r] \in Job
      BY DEF NoJob, Job, Tasks
    <3>2. "check" \in Steps
      BY DEF Steps
    <3>3. job' \in [Procs -> Job] /\ pc' \in [Procs -> Steps]
      BY <2>1, <3>1, <3>2, CallTypes DEF BeginSelect
    <3> QED
      BY <2>1, <3>3 DEF TypeOK, BeginSelect
  <2>2. CASE CheckTarget(p)
    BY <2>2 DEF TypeOK, CheckTarget, End, Goto, Steps
  <2>3. CASE TruncateAlias(p)
    BY <2>3 DEF TypeOK, TruncateAlias, Goto, Steps
  <2>4. CASE WriteAlias(p)
    BY <2>4 DEF TypeOK, WriteAlias, End, Goto, Steps, ProcessInv, Chosen
  <2> QED
    BY <1>2, <2>1, <2>2, <2>3, <2>4 DEF Select
<1>3. ASSUME NEW p \in Procs, Delete(p) PROVE TypeOK'
  <2>1. ASSUME NEW r \in Revisions, BeginDelete(p, r) PROVE TypeOK'
    <3>1. [NoJob EXCEPT !.task = "delete", !.name = lineage[r], !.rev = r, !.todo = {r}] \in Job
      BY DEF TypeOK, NoJob, Job, Tasks
    <3>2. "open_tree" \in Steps
      BY DEF Steps
    <3>3. job' \in [Procs -> Job] /\ pc' \in [Procs -> Steps]
      BY <2>1, <3>1, <3>2, CallTypes DEF BeginDelete
    <3> QED
      BY <2>1, <3>3 DEF TypeOK, BeginDelete
  <2>2. ASSUME NEW n \in Names, BeginDeleteAll(p, n) PROVE TypeOK'
    <3>1. [NoJob EXCEPT !.task = "delete_all", !.name = n] \in Job
      BY DEF NoJob, Job, Tasks
    <3>2. "list" \in Steps
      BY DEF Steps
    <3>3. job' \in [Procs -> Job] /\ pc' \in [Procs -> Steps]
      BY <2>2, <3>1, <3>2, CallTypes DEF BeginDeleteAll
    <3> QED
      BY <2>2, <3>3 DEF TypeOK, BeginDeleteAll
  <2>3. CASE ListRevisions(p)
    BY ZenonT(60), <2>3 DEF TypeOK, ListRevisions, Goto, Job, Steps
  <2>4. CASE ManifestGone(p)
    BY <2>4 DEF TypeOK, ManifestGone, End, Goto, Steps
  <2>5. CASE PickVictims(p)
    <3>1. job' \in [Procs -> Job]
      <4>1. Remaining(p) \in SUBSET Revisions
        BY DEF TypeOK, Remaining, Job
      <4>2. CASE job' = [job EXCEPT ![p].todo = Remaining(p)]
        BY <4>1, <4>2, JobTodo DEF TypeOK
      <4>3. CASE job' = [job EXCEPT ![p] = NoJob]
        BY <4>3 DEF TypeOK
      <4> QED
        BY <2>5, <4>2, <4>3 DEF PickVictims, End
    <3>2. pc' \in [Procs -> Steps]
      BY <2>5 DEF TypeOK, PickVictims, Remaining, End, Goto, Steps
    <3> QED
      BY <2>5, <3>1, <3>2 DEF TypeOK, PickVictims
  <2>6. CASE FollowAlias(p)
    <3>1. job' \in [Procs -> Job]
      <4>1. Remaining(p) \subseteq Revisions /\ {} \in SUBSET Revisions
        BY DEF TypeOK, Remaining, Job
      <4>2. CASE job' = [job EXCEPT ![p].todo = {}]
        BY <4>1, <4>2, JobTodo DEF TypeOK
      <4>3. ASSUME NEW newest \in Remaining(p),
                   job' = [job EXCEPT ![p].rev = newest, ![p].todo = {}]
            PROVE job' \in [Procs -> Job]
        BY <4>1, <4>3, JobRevTodo DEF TypeOK
      <4> QED
        BY <2>6, <4>2, <4>3 DEF FollowAlias
    <3>2. pc' \in [Procs -> Steps]
      BY <2>6 DEF TypeOK, FollowAlias, Remaining, Goto, Steps
    <3> QED
      BY <2>6, <3>1, <3>2 DEF TypeOK, FollowAlias
  <2>7. CASE OpenTree(p)
    BY SMTT(40), <2>7 DEF TypeOK, OpenTree, End, Goto, Job, Steps
  <2>8. ASSUME NEW f \in Files, UnlinkFile(p, f) PROVE TypeOK'
    BY ZenonT(60), <2>8 DEF TypeOK, UnlinkFile, Goto, Job, Steps
  <2>9. ASSUME NEW f \in Files, FileGone(p, f) PROVE TypeOK'
    BY <2>9 DEF TypeOK, FileGone, End, Goto, Steps
  <2>10. CASE RemoveDirectory(p)
    <3>1. job' \in [Procs -> Job]
      BY SMTT(40), <2>10 DEF TypeOK, RemoveDirectory, End, Goto, Job
    <3>2. pc' \in [Procs -> Steps]
      BY <2>10 DEF TypeOK, RemoveDirectory, End, Goto, Steps
    <3> QED
      BY <2>10, <3>1, <3>2 DEF TypeOK, RemoveDirectory
  <2>11. CASE UnlinkAlias(p)
    BY <2>11 DEF TypeOK, UnlinkAlias, End, Goto, Steps
  <2> QED
    BY <1>3, <2>1, <2>2, <2>3, <2>4, <2>5, <2>6, <2>7, <2>8, <2>9, <2>10, <2>11 DEF Delete
<1>4. ASSUME NEW p \in Procs, Forecast(p) PROVE TypeOK'
  <2>1. ASSUME NEW n \in Names, BeginForecast(p, n) PROVE TypeOK'
    <3>1. [NoJob EXCEPT !.task = "forecast", !.name = n] \in Job
      BY DEF NoJob, Job, Tasks
    <3>2. "resolve" \in Steps
      BY DEF Steps
    <3>3. job' \in [Procs -> Job] /\ pc' \in [Procs -> Steps]
      BY <2>1, <3>1, <3>2, CallTypes DEF BeginForecast
    <3> QED
      BY <2>1, <3>3 DEF TypeOK, BeginForecast
  <2>2. ASSUME NEW r \in Revisions, BeginPinnedForecast(p, r) PROVE TypeOK'
    <3>1. [NoJob EXCEPT !.task = "forecast", !.rev = r] \in Job
      BY DEF NoJob, Job, Tasks
    <3>2. "manifest" \in Steps
      BY DEF Steps
    <3>3. job' \in [Procs -> Job] /\ pc' \in [Procs -> Steps]
      BY <2>2, <3>1, <3>2, CallTypes DEF BeginPinnedForecast
    <3> QED
      BY <2>2, <3>3 DEF TypeOK, BeginPinnedForecast
  <2>3. CASE ResolveAlias(p)
    <3>1. job' \in [Procs -> Job]
      BY <2>3, JobRev DEF TypeOK, ResolveAlias, Resolves
    <3>2. pc' \in [Procs -> Steps]
      BY <2>3 DEF TypeOK, ResolveAlias, Resolves, Goto, Steps
    <3> QED
      BY <2>3, <3>1, <3>2 DEF TypeOK, ResolveAlias
  <2>4. CASE ReadManifest(p)
    BY <2>4 DEF TypeOK, ReadManifest, Read, Goto, Steps
  <2>5. CASE ReadRecipe(p)
    BY ZenonT(60), <2>5 DEF TypeOK, ReadRecipe, Read, Goto, Job, Steps
  <2>6. CASE ReadTransforms(p)
    <3>1. job' \in [Procs -> Job]
      <4> DEFINE b == "transforms" \in files[job[p].rev]
      <4>1. b \in BOOLEAN
        OBVIOUS
      <4>2. job' = [job EXCEPT ![p].applied = b]
        BY <2>6 DEF ReadTransforms
      <4> HIDE DEF b
      <4> QED
        BY <4>1, <4>2, JobApplied DEF TypeOK
    <3>2. pc' \in [Procs -> Steps]
      BY <2>6 DEF TypeOK, ReadTransforms, Goto, Steps
    <3> QED
      BY <2>6, <3>1, <3>2 DEF TypeOK, ReadTransforms
  <2>7. CASE ReadState(p)
    BY <2>7 DEF TypeOK, ReadState, Goto, Steps
  <2>8. CASE Return(p)
    BY <2>8 DEF TypeOK, Return, End, Goto, Steps
  <2> QED
    BY <1>4, <2>1, <2>2, <2>3, <2>4, <2>5, <2>6, <2>7, <2>8 DEF Forecast
<1>5. ASSUME NEW p \in Procs, Die(p) PROVE TypeOK'
  BY <1>5 DEF TypeOK, Die, Steps
<1>6. CASE UNCHANGED vars
  BY <1>6 DEF TypeOK, vars
<1> QED
  BY <1>1, <1>2, <1>3, <1>4, <1>5, <1>6 DEF Next

-----------------------------------------------------------------------------
(* Every step keeps the rest of the invariant. Most of them change one     *)
(* process and leave the disk alone; for those the process itself is all   *)
(* there is to look at.                                                    *)

LEMMA QuietStep ==
  ASSUME IInv, NEW p \in Procs, UNCHANGED <<disk, history>>,
         pc' \in [Procs -> Steps], job' \in [Procs -> Job],
         \A q \in Procs \ {p} : pc'[q] = pc[q] /\ job'[q] = job[q],
         pc'[p] \notin FitSteps,
         Chosen(p)', Removing(p)'
  PROVE  IInv'
<1> USE DEF IInv, disk, history
<1>1. TypeOK'
  BY DEF TypeOK
<1>2. ProcessInv'
  <2> SUFFICES ASSUME NEW q \in Procs PROVE (Staged(q) /\ Chosen(q) /\ Removing(q))'
    BY DEF ProcessInv
  <2>1. CASE q = p
    BY <2>1 DEF Staged
  <2>2. CASE q # p
    <3>1. pc'[q] = pc[q] /\ job'[q] = job[q]
      BY <2>2
    <3>2. Staged(q) /\ Chosen(q) /\ Removing(q)
      BY DEF ProcessInv
    <3>3. Staged(q)'
      BY <3>1, <3>2 DEF Staged, Complete
    <3>4. Chosen(q)'
      BY <3>1, <3>2 DEF Chosen
    <3>5. Removing(q)'
      BY <3>1, <3>2 DEF Removing
    <3> QED
      BY <3>3, <3>4, <3>5
  <2> QED
    BY <2>1, <2>2
<1>3. Apart'
  BY DEF Apart
<1>4. Unborn' /\ Placed'
  BY DEF Unborn, Placed
<1>5. PublishedIsComplete' /\ AliasInLineage'
  BY DEF PublishedIsComplete, AliasInLineage, Complete
<1> QED
  BY <1>1, <1>2, <1>3, <1>4, <1>5

(* What the others rely on when one process changes the disk. *)
LEMMA OthersKeep ==
  ASSUME IInv, NEW p \in Procs,
         pc' \in [Procs -> Steps], job' \in [Procs -> Job],
         \A q \in Procs \ {p} : pc'[q] = pc[q] /\ job'[q] = job[q],
         minted <= minted', minted' \in Nat,
         published \subseteq published', doomed \subseteq doomed',
         \A q \in Procs \ {p} : pc[q] \in FitSteps =>
            /\ job[q].rev \notin published'
            /\ place'[job[q].rev] = place[job[q].rev]
            /\ lineage'[job[q].rev] = lineage[job[q].rev]
            /\ files'[job[q].rev] = files[job[q].rev],
         \A r \in published : lineage'[r] = lineage[r] /\ files'[r] \subseteq files[r],
         Staged(p)', Chosen(p)', Removing(p)'
  PROVE  ProcessInv'
<1> SUFFICES ASSUME NEW q \in Procs \ {p} PROVE (Staged(q) /\ Chosen(q) /\ Removing(q))'
  BY DEF ProcessInv
<1>1. pc'[q] = pc[q] /\ job'[q] = job[q]
  OBVIOUS
<1>2. Staged(q) /\ Chosen(q) /\ Removing(q)
  BY DEF ProcessInv, IInv
<1>3. Staged(q)'
  BY <1>1, <1>2 DEF Staged, IInv, TypeOK, Complete
<1>4. Chosen(q)'
  BY <1>1, <1>2 DEF Chosen
<1>5. Removing(q)'
  BY <1>1, <1>2 DEF Removing, IInv, Placed
<1> QED
  BY <1>3, <1>4, <1>5

(* A fit publishes what it staged, and nothing before it is whole. *)
LEMMA FitStep ==
  ASSUME IInv, TypeOK', NEW p \in Procs, Fit(p)
  PROVE  IInv'
<1> USE StoreAssumption DEF IInv, disk, history
<1>1. ASSUME NEW n \in Names, NEW t \in {"fit", "fit_quietly"}, BeginFit(p, n, t)
      PROVE IInv'
  <2> DEFINE r == minted + 1
  <2>1. r \in Revisions /\ r > minted /\ minted' = r
    BY <1>1 DEF BeginFit, TypeOK, Revisions
  <2>2. place[r] = "none" /\ files[r] = {} /\ r \notin published
    BY <2>1 DEF Unborn
  <2>3. job'[p].rev = r /\ job'[p].name = n /\ pc'[p] = "transforms"
    BY <1>1 DEF BeginFit, Call, NoJob, TypeOK
  <2>4. /\ place'[r] = "tmp" /\ lineage'[r] = n /\ files' = files
        /\ \A s \in Revisions \ {r} : place'[s] = place[s] /\ lineage'[s] = lineage[s]
    BY <1>1, <2>1 DEF BeginFit, TypeOK
  <2>5. \A q \in Procs \ {p} : pc'[q] = pc[q] /\ job'[q] = job[q]
    BY <1>1 DEF BeginFit, Call, TypeOK
  <2>6. \A q \in Procs \ {p} : pc[q] \in FitSteps =>
          job[q].rev \in Revisions \ {r} /\ job[q].rev \notin published
    BY <2>1 DEF ProcessInv, Staged, TypeOK, Revisions
  <2>7. \A s \in published : s \in Revisions \ {r}
    BY <2>2 DEF TypeOK
  <2>8. Staged(p)' /\ Chosen(p)' /\ Removing(p)'
    BY <2>1, <2>2, <2>3, <2>4, <1>1
       DEF Staged, Chosen, Removing, NameSteps, BeginFit, TypeOK
  <2>9. ProcessInv'
    BY <1>1, <2>1, <2>4, <2>5, <2>6, <2>7, <2>8, OthersKeep DEF BeginFit, TypeOK
  <2>10. Apart'
    BY <2>3, <2>5, <2>6 DEF Apart
  <2>11. Unborn' /\ Placed'
    <3>1. Unborn'
      BY <1>1, <2>1, <2>2, <2>4 DEF BeginFit, Unborn, TypeOK, Revisions
    <3>2. \A s \in published : s <= r /\ lineage'[s] \in Names /\ place'[s] # "tmp"
      BY <2>1, <2>4, <2>7 DEF Placed, TypeOK, Revisions
    <3>3. \A s \in Revisions : place'[s] = "models" => s \in published
      BY <2>4 DEF Placed
    <3> QED
      BY <1>1, <2>1, <3>1, <3>2, <3>3 DEF BeginFit, Placed
  <2>12. PublishedIsComplete' /\ AliasInLineage'
    BY <1>1, <2>4, <2>7 DEF BeginFit, PublishedIsComplete, AliasInLineage, Complete
  <2> QED
    BY <2>9, <2>10, <2>11, <2>12
<1>2. ASSUME WriteTransforms(p) \/ FitSucceeds(p) \/ WriteMetadata(p)
      PROVE IInv'
  <2> DEFINE r == job[p].rev
  <2>1. pc[p] \in FitSteps /\ pc'[p] \in FitSteps /\ job' = job
    BY <1>2 DEF WriteTransforms, FitSucceeds, WriteMetadata, Goto, FitSteps, TypeOK
  <2>2. r \in Revisions /\ r \notin published
    BY <2>1 DEF ProcessInv, Staged, TypeOK, Revisions
  <2>3. /\ UNCHANGED <<minted, place, lineage, alias, published, doomed>>
        /\ \A s \in Revisions \ {r} : files'[s] = files[s]
        /\ \A q \in Procs \ {p} : pc'[q] = pc[q]
    BY <1>2 DEF WriteTransforms, FitSucceeds, WriteMetadata, Goto, TypeOK
  <2>4. \A q \in Procs \ {p} : pc[q] \in FitSteps =>
          job[q].rev \in Revisions \ {r} /\ job[q].rev \notin published
    BY <2>1 DEF ProcessInv, Staged, TypeOK, Revisions, Apart
  <2>5. \A s \in published : s \in Revisions \ {r}
    BY <2>2 DEF TypeOK
  <2>6. Chosen(p)' /\ Removing(p)'
    BY <2>1 DEF Chosen, Removing, NameSteps, FitSteps
  <2>7. Staged(p)
    BY DEF ProcessInv
  <2>8. Staged(p)'
    <3>1. CASE WriteTransforms(p)
      BY <3>1, <2>1, <2>2, <2>7 DEF WriteTransforms, Goto, Staged, FitSteps, TypeOK, Complete
    <3>2. CASE FitSucceeds(p)
      BY <3>2, <2>1, <2>2, <2>7 DEF FitSucceeds, Goto, Staged, FitSteps, TypeOK, Complete
    <3>3. CASE WriteMetadata(p)
      <4>1. files'[r] = files[r] \cup {"manifest", "recipe"}
        BY <3>3, <2>2 DEF WriteMetadata, TypeOK
      <4>2. files[r] = (Complete(r) \cap {"transforms"}) \cup {"state"}
        BY <3>3, <2>7 DEF WriteMetadata, Goto, Staged, FitSteps
      <4>3. files'[r] = Complete(r)
        BY <4>1, <4>2 DEF Complete, Files
      <4> QED
        BY <3>3, <4>3, <2>1, <2>2, <2>7 DEF WriteMetadata, Goto, Staged, FitSteps, TypeOK, Complete
    <3> QED
      BY <1>2, <3>1, <3>2, <3>3
  <2>9. ProcessInv'
    BY <2>1, <2>3, <2>4, <2>5, <2>6, <2>8, OthersKeep DEF TypeOK
  <2>10. Apart'
    BY <2>1, <2>3, <2>4 DEF Apart
  <2>11. Unborn' /\ Placed'
    BY <2>1, <2>3, <2>7 DEF Unborn, Placed, Staged, TypeOK, Revisions
  <2>12. PublishedIsComplete' /\ AliasInLineage'
    BY <2>3, <2>5 DEF PublishedIsComplete, AliasInLineage, Complete
  <2> QED
    BY <2>9, <2>10, <2>11, <2>12
<1>3. CASE FitFails(p)
  <2> DEFINE r == job[p].rev
  <2>1. pc[p] \in FitSteps /\ pc'[p] = "idle"
    BY <1>3 DEF FitFails, End, Goto, FitSteps, TypeOK
  <2>2. r \in Revisions /\ r \notin published
    BY <2>1 DEF ProcessInv, Staged, TypeOK, Revisions
  <2>3. /\ UNCHANGED <<minted, lineage, alias, published, doomed>>
        /\ \A s \in Revisions \ {r} : files'[s] = files[s] /\ place'[s] = place[s]
        /\ files'[r] = {} /\ place'[r] = "none"
        /\ \A q \in Procs \ {p} : pc'[q] = pc[q] /\ job'[q] = job[q]
    BY <1>3, <2>2 DEF FitFails, End, Goto, TypeOK
  <2>4. \A q \in Procs \ {p} : pc[q] \in FitSteps =>
          job[q].rev \in Revisions \ {r} /\ job[q].rev \notin published
    BY <2>1 DEF ProcessInv, Staged, TypeOK, Revisions, Apart
  <2>5. \A s \in published : s \in Revisions \ {r}
    BY <2>2 DEF TypeOK
  <2>6. Staged(p)' /\ Chosen(p)' /\ Removing(p)'
    BY <2>1 DEF Staged, Chosen, Removing, NameSteps, FitSteps
  <2>7. ProcessInv'
    BY <2>3, <2>4, <2>5, <2>6, OthersKeep DEF TypeOK
  <2>8. Apart'
    BY <2>1, <2>3 DEF Apart, FitSteps
  <2>9. Unborn' /\ Placed'
    BY <2>2, <2>3, <2>5 DEF Unborn, Placed
  <2>10. PublishedIsComplete' /\ AliasInLineage'
    BY <2>3, <2>5 DEF PublishedIsComplete, AliasInLineage, Complete
  <2> QED
    BY <2>7, <2>8, <2>9, <2>10
<1>4. CASE Publish(p)
  <2> DEFINE r == job[p].rev
  <2>1. pc[p] = "publish" /\ pc'[p] \notin FitSteps
    BY <1>4 DEF Publish, End, Goto, FitSteps, TypeOK
  <2>2. /\ r \in Revisions /\ r \notin published /\ r <= minted
        /\ files[r] = Complete(r) /\ lineage[r] = job[p].name /\ job[p].name \in Names
    BY <2>1 DEF ProcessInv, Staged, TypeOK, Revisions, FitSteps
  <2>3. /\ UNCHANGED <<minted, files, lineage, alias, doomed>>
        /\ \A s \in Revisions \ {r} : place'[s] = place[s]
        /\ place'[r] = "models" /\ published' = published \cup {r}
        /\ \A q \in Procs \ {p} : pc'[q] = pc[q] /\ job'[q] = job[q]
    BY <1>4, <2>2 DEF Publish, End, Goto, TypeOK
  <2>4. \A q \in Procs \ {p} : pc[q] \in FitSteps =>
          job[q].rev \in Revisions \ {r} /\ job[q].rev \notin published
    BY <2>1 DEF ProcessInv, Staged, TypeOK, Revisions, Apart, FitSteps
  <2>5. \A s \in published : s \in Revisions \ {r}
    BY <2>2 DEF TypeOK
  <2>6. Staged(p)' /\ Removing(p)'
    BY <1>4, <2>1 DEF Staged, Removing, Publish, End, Goto, TypeOK
  <2>7. Chosen(p)'
    BY <1>4, <2>2 DEF Chosen, NameSteps, Publish, End, Goto, TypeOK
  <2>8. ProcessInv'
    BY <2>3, <2>4, <2>5, <2>6, <2>7, OthersKeep DEF TypeOK
  <2>9. Apart'
    BY <2>1, <2>3 DEF Apart
  <2>10. Unborn' /\ Placed'
    BY <2>2, <2>3, <2>5 DEF Unborn, Placed, TypeOK, Revisions
  <2>11. PublishedIsComplete' /\ AliasInLineage'
    <3>1. \A s \in published' \ doomed' : place'[s] = "models" /\ files'[s] = Complete(s)
      BY <2>2, <2>3, <2>5 DEF PublishedIsComplete
    <3>2. AliasInLineage'
      BY <2>2, <2>3 DEF AliasInLineage
    <3> QED
      BY <3>1, <3>2 DEF PublishedIsComplete, Complete
  <2> QED
    BY <2>8, <2>9, <2>10, <2>11
<1> QED
  BY <1>1, <1>2, <1>3, <1>4 DEF Fit

(* set_alias writes what it checked, and only that. *)
LEMMA SelectStep ==
  ASSUME IInv, TypeOK', NEW p \in Procs, Select(p)
  PROVE  IInv'
<1> USE StoreAssumption DEF IInv, disk, history
<1>1. ASSUME NEW n \in Names, NEW r \in Revisions, BeginSelect(p, n, r) PROVE IInv'
  <2>1. Chosen(p)' /\ Removing(p)' /\ pc'[p] \notin FitSteps
    BY <1>1 DEF BeginSelect, Call, NoJob, Chosen, Removing, NameSteps, FitSteps, ProcessInv, TypeOK
  <2>2. UNCHANGED <<disk, history>> /\ \A q \in Procs \ {p} : pc'[q] = pc[q] /\ job'[q] = job[q]
    BY <1>1 DEF BeginSelect, Call, NoJob, TypeOK
  <2> QED
    BY <2>1, <2>2, QuietStep DEF TypeOK
<1>2. CASE CheckTarget(p)
  <2>1. Chosen(p)' /\ Removing(p)' /\ pc'[p] \notin FitSteps
    BY <1>2 DEF CheckTarget, MayPointAt, Visible, Placed, End, Goto, NoJob, Chosen, Removing, NameSteps, FitSteps, ProcessInv, TypeOK
  <2>2. UNCHANGED <<disk, history>> /\ \A q \in Procs \ {p} : pc'[q] = pc[q] /\ job'[q] = job[q]
    BY <1>2 DEF CheckTarget, MayPointAt, Visible, Placed, End, Goto, NoJob, TypeOK
  <2> QED
    BY <2>1, <2>2, QuietStep DEF TypeOK
<1>3. ASSUME TruncateAlias(p) \/ WriteAlias(p) PROVE IInv'
  <2>1. pc[p] \in {"truncate", "write"} /\ pc'[p] \in {"write", "idle"}
    BY <1>3 DEF TruncateAlias, WriteAlias, End, Goto, TypeOK
  <2>2. /\ UNCHANGED <<minted, place, files, lineage, published, doomed>>
        /\ \A q \in Procs \ {p} : pc'[q] = pc[q] /\ job'[q] = job[q]
    BY <1>3 DEF TruncateAlias, WriteAlias, End, Goto, TypeOK
  <2>3. Chosen(p)' /\ Staged(p)' /\ Removing(p)'
    BY <1>3 DEF TruncateAlias, WriteAlias, End, Goto, TypeOK, ProcessInv,
                Chosen, Staged, Removing, NameSteps, FitSteps
  <2>4. \A q \in Procs \ {p} : pc[q] \in FitSteps => job[q].rev \notin published
    BY DEF ProcessInv, Staged
  <2>5. ProcessInv'
    BY <2>2, <2>3, <2>4, OthersKeep DEF TypeOK
  <2>6. Apart'
    BY <2>1, <2>2 DEF Apart, FitSteps
  <2>7. Unborn' /\ Placed' /\ PublishedIsComplete'
    BY <2>2 DEF Unborn, Placed, PublishedIsComplete, Complete
  <2>8. AliasInLineage'
    <3>1. job[p].rev \in published /\ lineage[job[p].rev] = job[p].name
      BY <2>1 DEF ProcessInv, Chosen
    <3>2. CASE TruncateAlias(p)
      BY <3>2, <2>2 DEF TruncateAlias, AliasInLineage, TypeOK
    <3>3. CASE WriteAlias(p)
      BY <3>1, <3>3, <2>2 DEF WriteAlias, AliasInLineage, TypeOK
    <3> QED
      BY <1>3, <3>2, <3>3
  <2> QED
    BY <2>5, <2>6, <2>7, <2>8
<1> QED
  BY <1>1, <1>2, <1>3 DEF Select

(* A deletion takes nothing from a revision that is not doomed. *)
LEMMA DeleteStep ==
  ASSUME IInv, TypeOK', NEW p \in Procs, Delete(p)
  PROVE  IInv'
<1> USE StoreAssumption DEF IInv, disk, history
<1>1. ASSUME NEW r \in Revisions, BeginDelete(p, r) PROVE IInv'
  <2>1. Chosen(p)' /\ Removing(p)' /\ pc'[p] \notin FitSteps
    BY <1>1 DEF BeginDelete, Visible, Placed, Call, NoJob, Chosen, Removing, NameSteps, FitSteps, ProcessInv, TypeOK
  <2>2. UNCHANGED <<disk, history>> /\ \A q \in Procs \ {p} : pc'[q] = pc[q] /\ job'[q] = job[q]
    BY <1>1 DEF BeginDelete, Visible, Placed, Call, NoJob, TypeOK
  <2> QED
    BY <2>1, <2>2, QuietStep DEF TypeOK
<1>2. ASSUME NEW n \in Names, BeginDeleteAll(p, n) PROVE IInv'
  <2>1. Chosen(p)' /\ Removing(p)' /\ pc'[p] \notin FitSteps
    BY <1>2 DEF BeginDeleteAll, Call, NoJob, Chosen, Removing, NameSteps, FitSteps, ProcessInv, TypeOK
  <2>2. UNCHANGED <<disk, history>> /\ \A q \in Procs \ {p} : pc'[q] = pc[q] /\ job'[q] = job[q]
    BY <1>2 DEF BeginDeleteAll, Call, NoJob, TypeOK
  <2> QED
    BY <2>1, <2>2, QuietStep DEF TypeOK
<1>3. CASE ListRevisions(p)
  <2>1. Chosen(p)' /\ Removing(p)' /\ pc'[p] \notin FitSteps
    BY <1>3 DEF ListRevisions, Goto, Chosen, Removing, NameSteps, FitSteps, ProcessInv, TypeOK
  <2>2. UNCHANGED <<disk, history>> /\ \A q \in Procs \ {p} : pc'[q] = pc[q] /\ job'[q] = job[q]
    BY <1>3 DEF ListRevisions, Goto, TypeOK
  <2> QED
    BY <2>1, <2>2, QuietStep DEF TypeOK
<1>4. CASE ManifestGone(p)
  <2>1. Chosen(p)' /\ Removing(p)' /\ pc'[p] \notin FitSteps
    BY <1>4 DEF ManifestGone, End, Goto, NoJob, Chosen, Removing, NameSteps, FitSteps, ProcessInv, TypeOK
  <2>2. UNCHANGED <<disk, history>> /\ \A q \in Procs \ {p} : pc'[q] = pc[q] /\ job'[q] = job[q]
    BY <1>4 DEF ManifestGone, End, Goto, NoJob, TypeOK
  <2> QED
    BY <2>1, <2>2, QuietStep DEF TypeOK
<1>5. CASE PickVictims(p)
  <2>1. Chosen(p)' /\ Removing(p)' /\ pc'[p] \notin FitSteps
    <3>1. CASE Goto(p, "manifests", "open_tree") /\ job' = [job EXCEPT ![p].todo = Remaining(p)]
      <4>1. job'[p].name = job[p].name /\ pc[p] = "manifests" /\ pc'[p] = "open_tree"
        BY <3>1 DEF Goto, TypeOK, Job
      <4>2. Chosen(p)
        BY DEF ProcessInv
      <4> QED
        BY <4>1, <4>2 DEF Chosen, Removing, NameSteps, FitSteps
    <3>2. CASE End(p, "manifests")
      BY <3>2 DEF End, Goto, Chosen, Removing, NameSteps, FitSteps, TypeOK
    <3> QED
      BY <1>5, <3>1, <3>2 DEF PickVictims
  <2>2. UNCHANGED <<disk, history>> /\ \A q \in Procs \ {p} : pc'[q] = pc[q] /\ job'[q] = job[q]
    BY <1>5 DEF PickVictims, End, Goto, NoJob, TypeOK
  <2> QED
    BY <2>1, <2>2, QuietStep DEF TypeOK
<1>6. CASE FollowAlias(p)
  <2>1. Chosen(p)' /\ Removing(p)' /\ pc'[p] \notin FitSteps
    <3> Chosen(p)
      BY DEF ProcessInv
    <3>1. ASSUME NEW newest \in Remaining(p), Goto(p, "manifests", "check"),
                 job' = [job EXCEPT ![p].rev = newest, ![p].todo = {}]
          PROVE Chosen(p)' /\ Removing(p)' /\ pc'[p] \notin FitSteps
      <4>1. newest \in Revisions
        BY DEF Remaining, TypeOK, Job
      <4>2. /\ job'[p].name = job[p].name /\ job'[p].rev = newest
            /\ pc[p] = "manifests" /\ pc'[p] = "check"
        BY <3>1 DEF Goto, TypeOK, Job
      <4> QED
        BY <4>1, <4>2 DEF Chosen, Removing, NameSteps, FitSteps
    <3>2. ASSUME Goto(p, "manifests", "unlink_alias"), job' = [job EXCEPT ![p].todo = {}]
          PROVE Chosen(p)' /\ Removing(p)' /\ pc'[p] \notin FitSteps
      <4>1. job'[p].name = job[p].name /\ pc[p] = "manifests" /\ pc'[p] = "unlink_alias"
        BY <3>2 DEF Goto, TypeOK, Job
      <4> QED
        BY <4>1 DEF Chosen, Removing, NameSteps, FitSteps
    <3> QED
      BY <1>6, <3>1, <3>2 DEF FollowAlias
  <2>2. UNCHANGED <<disk, history>> /\ \A q \in Procs \ {p} : pc'[q] = pc[q] /\ job'[q] = job[q]
    BY <1>6 DEF FollowAlias, Remaining, Job, Goto, TypeOK
  <2> QED
    BY <2>1, <2>2, QuietStep DEF TypeOK
<1>7. ASSUME NEW f \in Files, FileGone(p, f) PROVE IInv'
  <2>1. Chosen(p)' /\ Removing(p)' /\ pc'[p] \notin FitSteps
    BY <1>7 DEF FileGone, End, Goto, NoJob, Chosen, Removing, NameSteps, FitSteps, ProcessInv, TypeOK
  <2>2. UNCHANGED <<disk, history>> /\ \A q \in Procs \ {p} : pc'[q] = pc[q] /\ job'[q] = job[q]
    BY <1>7 DEF FileGone, End, Goto, NoJob, TypeOK
  <2> QED
    BY <2>1, <2>2, QuietStep DEF TypeOK
<1>8. CASE OpenTree(p)
  <2>1. CASE UNCHANGED doomed /\ End(p, "open_tree")
    <3>1. Chosen(p)' /\ Removing(p)' /\ pc'[p] \notin FitSteps
      BY <2>1 DEF End, Goto, Chosen, Removing, NameSteps, FitSteps, TypeOK
    <3>2. UNCHANGED <<disk, history>> /\ \A q \in Procs \ {p} : pc'[q] = pc[q] /\ job'[q] = job[q]
      BY <1>8, <2>1 DEF OpenTree, End, Goto, TypeOK
    <3> QED
      BY <3>1, <3>2, QuietStep DEF TypeOK
  <2>2. ASSUME NEW r \in job[p].todo, place[r] = "models",
               Goto(p, "open_tree", "unlink_files"),
               job' = [job EXCEPT ![p].rev = r, ![p].listing = files[r]],
               doomed' = doomed \cup {r}
        PROVE IInv'
    <3>1. r \in Revisions /\ r \in published
      BY <2>2 DEF TypeOK, Job, Placed
    <3>2. /\ UNCHANGED <<minted, place, files, lineage, alias, published>>
          /\ \A q \in Procs \ {p} : pc'[q] = pc[q] /\ job'[q] = job[q]
      BY <1>8, <2>2 DEF OpenTree, Goto, TypeOK
    <3>3. Staged(p)' /\ Chosen(p)' /\ Removing(p)'
      BY <2>2, <3>2 DEF Goto, Staged, Chosen, Removing, NameSteps, FitSteps, TypeOK, ProcessInv, Job
    <3>4. \A q \in Procs \ {p} : pc[q] \in FitSteps => job[q].rev \notin published
      BY DEF ProcessInv, Staged
    <3>5. ProcessInv'
      BY <2>2, <3>2, <3>3, <3>4, OthersKeep DEF TypeOK
    <3>6. Apart'
      BY <2>2, <3>2 DEF Apart, FitSteps, Goto, TypeOK
    <3>7. Unborn' /\ Placed' /\ PublishedIsComplete' /\ AliasInLineage'
      BY ZenonT(60), <2>2, <3>1, <3>2 DEF Unborn, Placed, PublishedIsComplete, AliasInLineage, Complete
    <3> QED
      BY <3>5, <3>6, <3>7
  <2> QED
    BY <1>8, <2>1, <2>2 DEF OpenTree
<1>9. ASSUME NEW f \in Files, UnlinkFile(p, f) PROVE IInv'
  <2> DEFINE r == job[p].rev
  <2>1. pc[p] = "unlink_files" /\ pc'[p] = "unlink_files"
    BY <1>9 DEF UnlinkFile, Goto, TypeOK
  <2>2. r \in doomed /\ r \in published /\ r \in Revisions /\ files[r] \subseteq job[p].listing
    BY <2>1 DEF ProcessInv, Removing, Placed, TypeOK
  <2>3. /\ UNCHANGED <<minted, place, lineage, alias, published, doomed>>
        /\ files'[r] = files[r] \ {f}
        /\ \A s \in Revisions \ {r} : files'[s] = files[s]
        /\ \A q \in Procs \ {p} : pc'[q] = pc[q] /\ job'[q] = job[q]
    BY <1>9, <2>2 DEF UnlinkFile, Goto, TypeOK
  <2>4. /\ job'[p].listing = job[p].listing \ {f}
        /\ job'[p].rev = r /\ job'[p].name = job[p].name
    BY <1>9 DEF UnlinkFile, TypeOK, Job
  <2>5. Staged(p)' /\ Chosen(p)' /\ Removing(p)'
    BY <2>1, <2>2, <2>3, <2>4 DEF Staged, Chosen, Removing, NameSteps, FitSteps, ProcessInv
  <2>6. \A q \in Procs \ {p} : pc[q] \in FitSteps =>
          job[q].rev \in Revisions \ {r} /\ job[q].rev \notin published
    BY <2>2 DEF ProcessInv, Staged, TypeOK, Revisions
  <2>7. \A s \in published : s \in Revisions /\ files'[s] \subseteq files[s]
    BY <2>3 DEF TypeOK
  <2>8. ProcessInv'
    BY <2>3, <2>5, <2>6, <2>7, OthersKeep DEF TypeOK
  <2>9. Apart'
    BY <2>1, <2>3 DEF Apart, FitSteps
  <2>10. Unborn'
    BY <2>2, <2>3 DEF Unborn, Placed
  <2>11. Placed' /\ AliasInLineage'
    BY <2>3 DEF Placed, AliasInLineage
  <2>12. PublishedIsComplete'
    BY <2>2, <2>3, <2>7 DEF PublishedIsComplete, Complete
  <2> QED
    BY <2>8, <2>9, <2>10, <2>11, <2>12
<1>10. CASE RemoveDirectory(p)
  <2> DEFINE r == job[p].rev
  <2>1. pc[p] = "unlink_files" /\ pc'[p] \in {"open_tree", "list", "unlink_alias", "idle"}
    BY <1>10 DEF RemoveDirectory, End, Goto, TypeOK
  <2>2. r \in doomed /\ r \in published /\ r \in Revisions
    BY <2>1 DEF ProcessInv, Removing, Placed, TypeOK
  <2>3. /\ UNCHANGED <<minted, files, lineage, alias, published, doomed>>
        /\ place'[r] \in {"none", place[r]}
        /\ \A s \in Revisions \ {r} : place'[s] = place[s]
        /\ \A q \in Procs \ {p} : pc'[q] = pc[q] /\ job'[q] = job[q]
    BY <1>10, <2>2 DEF RemoveDirectory, End, Goto, TypeOK
  <2>4. Staged(p)' /\ Chosen(p)' /\ Removing(p)'
    BY <1>10, <2>1 DEF RemoveDirectory, End, Goto, Staged, Chosen, Removing,
                       NameSteps, FitSteps, ProcessInv, TypeOK, Job
  <2>5. \A q \in Procs \ {p} : pc[q] \in FitSteps =>
          job[q].rev \in Revisions \ {r} /\ job[q].rev \notin published
    BY <2>2 DEF ProcessInv, Staged, TypeOK, Revisions
  <2>6. ProcessInv'
    BY <2>3, <2>4, <2>5, OthersKeep DEF TypeOK
  <2>7. Apart'
    BY <2>1, <2>3 DEF Apart, FitSteps
  <2>8. Unborn' /\ Placed'
    BY <2>2, <2>3 DEF Unborn, Placed, TypeOK
  <2>9. PublishedIsComplete' /\ AliasInLineage'
    BY ZenonT(60), <2>2, <2>3 DEF PublishedIsComplete, AliasInLineage, Complete, TypeOK
  <2> QED
    BY <2>6, <2>7, <2>8, <2>9
<1>11. CASE UnlinkAlias(p)
  <2>1. /\ UNCHANGED <<minted, place, files, lineage, published, doomed>>
        /\ pc'[p] = "idle"
        /\ \A q \in Procs \ {p} : pc'[q] = pc[q] /\ job'[q] = job[q]
    BY <1>11 DEF UnlinkAlias, End, Goto, TypeOK
  <2>2. Chosen(p)' /\ Staged(p)' /\ Removing(p)'
    BY <2>1 DEF Chosen, Staged, Removing, NameSteps, FitSteps
  <2>3. \A q \in Procs \ {p} : pc[q] \in FitSteps => job[q].rev \notin published
    BY DEF ProcessInv, Staged
  <2>4. ProcessInv'
    BY <2>1, <2>2, <2>3, OthersKeep DEF TypeOK
  <2>5. Apart'
    BY <2>1 DEF Apart, FitSteps
  <2>6. Unborn' /\ Placed' /\ PublishedIsComplete'
    BY <2>1 DEF Unborn, Placed, PublishedIsComplete, Complete
  <2>7. \A n \in Names : alias'[n] = alias[n] \/ alias'[n] = NoRevision
    BY <1>11 DEF UnlinkAlias, TypeOK
  <2>8. AliasInLineage'
    BY <2>1, <2>7 DEF AliasInLineage
  <2> QED
    BY <2>4, <2>5, <2>6, <2>8
<1> QED
  BY <1>1, <1>2, <1>3, <1>4, <1>5, <1>6, <1>7, <1>8, <1>9, <1>10, <1>11 DEF Delete

(* A forecast only reads. *)
LEMMA ForecastStep ==
  ASSUME IInv, TypeOK', NEW p \in Procs, Forecast(p) \/ Die(p)
  PROVE  IInv'
<1> USE StoreAssumption DEF IInv, disk, history
<1>1. pc'[p] \notin FitSteps \cup NameSteps
  <2> USE DEF FitSteps, NameSteps, TypeOK, Call, Goto, End
  <2>1. ASSUME NEW n \in Names, BeginForecast(p, n) PROVE pc'[p] = "resolve"
    BY <2>1 DEF BeginForecast
  <2>2. ASSUME NEW r \in Revisions, BeginPinnedForecast(p, r) PROVE pc'[p] = "manifest"
    BY <2>2 DEF BeginPinnedForecast
  <2>3. CASE ResolveAlias(p)
    BY <2>3 DEF ResolveAlias
  <2>4. CASE ReadManifest(p)
    BY <2>4 DEF ReadManifest, Read
  <2>5. CASE ReadRecipe(p)
    BY <2>5 DEF ReadRecipe, Read
  <2>6. CASE ReadTransforms(p)
    BY <2>6 DEF ReadTransforms
  <2>7. CASE ReadState(p)
    BY <2>7 DEF ReadState
  <2>8. CASE Return(p)
    BY <2>8 DEF Return
  <2>9. CASE Die(p)
    BY <2>9 DEF Die
  <2> QED
    BY <2>1, <2>2, <2>3, <2>4, <2>5, <2>6, <2>7, <2>8, <2>9 DEF Forecast
<1>2. UNCHANGED <<disk, history>> /\ \A q \in Procs \ {p} : pc'[q] = pc[q] /\ job'[q] = job[q]
  BY ZenonT(60) DEF Forecast, Die, BeginForecast, BeginPinnedForecast, ResolveAlias, ReadManifest,
         ReadRecipe, ReadTransforms, ReadState, Return, Read, Call, End, Goto, TypeOK
<1>3. Chosen(p)' /\ Removing(p)'
  BY <1>1 DEF Chosen, Removing, NameSteps
<1> QED
  BY <1>1, <1>2, <1>3, QuietStep DEF TypeOK

LEMMA InvStep == IInv /\ [Next]_vars => IInv'
<1> SUFFICES ASSUME IInv, [Next]_vars PROVE IInv'
  OBVIOUS
<1>1. TypeOK'
  BY TypeStep
<1>2. CASE UNCHANGED vars
  BY ZenonT(60), <1>2 DEF vars, disk, history, IInv, TypeOK, ProcessInv, Staged, Chosen, Removing, Apart,
              Unborn, Placed, PublishedIsComplete, AliasInLineage, Complete
<1>3. ASSUME NEW p \in Procs, Fit(p) \/ Select(p) \/ Delete(p) \/ Forecast(p) \/ Die(p)
      PROVE IInv'
  BY <1>1, <1>3, FitStep, SelectStep, DeleteStep, ForecastStep
<1> QED
  BY <1>2, <1>3 DEF Next

-----------------------------------------------------------------------------
(* The inductive invariant holds in every reachable state. *)
THEOREM Invariance == Spec => []IInv
BY InitInv, InvStep, PTL DEF Spec

(* Every variable keeps its type: TypeOK. *)
THEOREM TypeCorrect == Spec => []TypeOK
BY Invariance, PTL DEF IInv

(* Whatever is interleaved, whoever dies and wherever, a published revision *)
(* that nobody has begun to delete holds all that its fit wrote (stage,    *)
(* commit and publish of artifacts/store.py).                              *)
THEOREM NothingHalfPublished == Spec => []PublishedIsComplete
BY Invariance, PTL DEF IInv

(* An alias never names a revision of another lineage, nor one that was    *)
(* not published, although set_alias checks that some steps before it      *)
(* writes.                                                                 *)
THEOREM AliasStaysInLineage == Spec => []AliasInLineage
BY Invariance, PTL DEF IInv

-----------------------------------------------------------------------------
(* What one step can do to the disk, in one list: the facts the action     *)
(* property and the refinement rest on.                                    *)

Quiet == UNCHANGED <<place, files, lineage, alias, published, doomed>>

(* A fit writes, or gives up, a revision that is not published. *)
Drafts == \E r \in Revisions \ published :
  /\ place[r] # "models" /\ place'[r] # "models"
  /\ \A s \in Revisions \ {r} :
       place'[s] = place[s] /\ files'[s] = files[s] /\ lineage'[s] = lineage[s]
  /\ UNCHANGED <<alias, published, doomed>>

Publishes == \E r \in Revisions \ published :
  /\ lineage[r] \in Names
  /\ files[r] = Complete(r)
  /\ place' = [place EXCEPT ![r] = "models"]
  /\ published' = published \cup {r}
  /\ UNCHANGED <<files, lineage, alias, doomed>>

Points == \E n \in Names :
  /\ \/ alias' = [alias EXCEPT ![n] = NoRevision]
     \/ alias' = [alias EXCEPT ![n] = Torn]
     \/ \E r \in published : lineage[r] = n /\ alias' = [alias EXCEPT ![n] = r]
  /\ UNCHANGED <<place, files, lineage, published, doomed>>

Dooms ==
  /\ doomed \subseteq doomed'
  /\ UNCHANGED <<place, files, lineage, alias, published>>

Unlinks == \E r \in published : \E f \in files[r] :
  /\ r \in doomed
  /\ files' = [files EXCEPT ![r] = @ \ {f}]
  /\ UNCHANGED <<place, lineage, alias, published, doomed>>

RemovesEmpty == \E r \in published :
  /\ files[r] = {}
  /\ place' = [place EXCEPT ![r] = "none"]
  /\ UNCHANGED <<files, lineage, alias, published, doomed>>

DiskStep == Quiet \/ Drafts \/ Publishes \/ Points \/ Dooms \/ Unlinks \/ RemovesEmpty

LEMMA EveryStepIsOne == IInv /\ [Next]_vars => DiskStep
<1> SUFFICES ASSUME IInv, [Next]_vars PROVE DiskStep
  OBVIOUS
<1> USE StoreAssumption DEF IInv, disk, history
<1>1. ASSUME NEW p \in Procs, Fit(p) PROVE DiskStep
  <2>1. ASSUME NEW n \in Names, NEW t \in {"fit", "fit_quietly"}, BeginFit(p, n, t)
        PROVE Drafts
    <3> DEFINE r == minted + 1
    <3>1. r \in Revisions /\ r > minted
      BY <2>1 DEF BeginFit, TypeOK, Revisions
    <3>2. r \notin published /\ place[r] # "models"
      BY <3>1 DEF Unborn
    <3> HIDE DEF r
    <3>3. place'[r] # "models" /\ UNCHANGED <<files, alias, published, doomed>>
      BY <2>1, <3>1 DEF BeginFit, TypeOK, r
    <3>4. \A s \in Revisions \ {r} : place'[s] = place[s] /\ lineage'[s] = lineage[s]
      BY <2>1, <3>1 DEF BeginFit, TypeOK, r
    <3> QED
      BY <3>1, <3>2, <3>3, <3>4 DEF Drafts
  <2>2. ASSUME WriteTransforms(p) \/ FitSucceeds(p) \/ FitFails(p) \/ WriteMetadata(p)
        PROVE Drafts
    <3> DEFINE r == job[p].rev
    <3>1. pc[p] \in FitSteps
      BY <2>2 DEF WriteTransforms, FitSucceeds, FitFails, WriteMetadata, End, Goto, FitSteps
    <3>2. r \in Revisions /\ r \notin published /\ place[r] = "tmp"
      BY <3>1 DEF ProcessInv, Staged, TypeOK, Revisions
    <3>3. /\ place'[r] # "models"
          /\ \A s \in Revisions \ {r} : place'[s] = place[s] /\ files'[s] = files[s]
          /\ UNCHANGED <<lineage, alias, published, doomed>>
      BY <2>2, <3>2 DEF WriteTransforms, FitSucceeds, FitFails, WriteMetadata, TypeOK
    <3> QED
      BY <3>2, <3>3 DEF Drafts
  <2>3. CASE Publish(p)
    <3>1. pc[p] = "publish"
      BY <2>3 DEF Publish
    <3>2. /\ job[p].rev \in Revisions \ published
          /\ lineage[job[p].rev] \in Names
          /\ files[job[p].rev] = Complete(job[p].rev)
      BY <3>1 DEF ProcessInv, Staged, FitSteps, TypeOK, Revisions
    <3> QED
      BY <2>3, <3>2 DEF Publish, Publishes, DiskStep
  <2> QED
    BY <1>1, <2>1, <2>2, <2>3 DEF Fit, DiskStep
<1>2. ASSUME NEW p \in Procs, Select(p) PROVE DiskStep
  <2>1. ASSUME NEW n \in Names, NEW r \in Revisions, BeginSelect(p, n, r) PROVE Quiet
    BY <2>1 DEF BeginSelect, Quiet
  <2>2. CASE CheckTarget(p)
    BY <2>2 DEF CheckTarget, Quiet, DiskStep
  <2>3. CASE TruncateAlias(p)
    <3>1. job[p].name \in Names
      BY <2>3 DEF TruncateAlias, Goto, ProcessInv, Chosen, NameSteps
    <3> QED
      BY <2>3, <3>1 DEF TruncateAlias, Points, DiskStep
  <2>4. CASE WriteAlias(p)
    <3>1. /\ job[p].name \in Names
          /\ job[p].rev \in published /\ lineage[job[p].rev] = job[p].name
      BY <2>4 DEF WriteAlias, End, Goto, ProcessInv, Chosen, NameSteps
    <3> QED
      BY <2>4, <3>1 DEF WriteAlias, Points, DiskStep
  <2> QED
    BY <1>2, <2>1, <2>2, <2>3, <2>4 DEF Select, DiskStep
<1>3. ASSUME NEW p \in Procs, Delete(p) PROVE DiskStep
  <2>1. ASSUME \/ \E r \in Revisions : BeginDelete(p, r)
               \/ \E n \in Names : BeginDeleteAll(p, n)
               \/ ListRevisions(p) \/ ManifestGone(p) \/ PickVictims(p) \/ FollowAlias(p)
               \/ \E f \in Files : FileGone(p, f)
        PROVE Quiet
    BY <2>1 DEF BeginDelete, BeginDeleteAll, ListRevisions, ManifestGone, PickVictims,
                FollowAlias, FileGone, Quiet
  <2>2. CASE OpenTree(p)
    BY <2>2 DEF OpenTree, Dooms, DiskStep
  <2>3. ASSUME NEW f \in Files, UnlinkFile(p, f) PROVE Unlinks
    <3>1. job[p].rev \in doomed /\ job[p].rev \in published /\ f \in files[job[p].rev]
      BY <2>3 DEF UnlinkFile, Goto, ProcessInv, Removing, Placed
    <3> QED
      BY <2>3, <3>1 DEF UnlinkFile, Unlinks
  <2>4. CASE RemoveDirectory(p)
    <3>1. job[p].rev \in published /\ files[job[p].rev] = {}
      BY <2>4 DEF RemoveDirectory, ProcessInv, Removing, Placed
    <3> QED
      BY <2>4, <3>1 DEF RemoveDirectory, RemovesEmpty, Quiet, DiskStep
  <2>5. CASE UnlinkAlias(p)
    <3>1. job[p].name \in Names
      BY <2>5 DEF UnlinkAlias, End, Goto, ProcessInv, Chosen, NameSteps
    <3> QED
      BY <2>5, <3>1 DEF UnlinkAlias, Points, DiskStep
  <2> QED
    BY <1>3, <2>1, <2>2, <2>3, <2>4, <2>5 DEF Delete, DiskStep
<1>4. ASSUME NEW p \in Procs, Forecast(p) \/ Die(p) PROVE Quiet
  BY <1>4 DEF Forecast, Die, BeginForecast, BeginPinnedForecast, ResolveAlias, ReadManifest,
              ReadRecipe, ReadTransforms, ReadState, Return, Quiet
<1>5. CASE UNCHANGED vars
  BY <1>5 DEF vars, Quiet, DiskStep
<1> QED
  BY <1>1, <1>2, <1>3, <1>4, <1>5 DEF Next, DiskStep

(* Once published, a revision gains no file, keeps its lineage, and loses   *)
(* files to a deletion only.                                               *)
THEOREM RevisionsAreImmutable == Spec => Immutable
<1>1. ASSUME IInv, [Next]_vars
      PROVE  \A r \in published :
               /\ files'[r] \subseteq files[r]
               /\ lineage'[r] = lineage[r]
               /\ (files'[r] # files[r] => r \in doomed)
  <2> SUFFICES ASSUME NEW r \in published
               PROVE  /\ files'[r] \subseteq files[r]
                      /\ lineage'[r] = lineage[r]
                      /\ (files'[r] # files[r] => r \in doomed)
    OBVIOUS
  <2>1. r \in Revisions /\ files \in [Revisions -> SUBSET Files]
    BY <1>1 DEF IInv, TypeOK
  <2>2. CASE Drafts
    BY <2>1, <2>2 DEF Drafts
  <2>3. CASE Unlinks
    BY <2>1, <2>3 DEF Unlinks
  <2>4. CASE Quiet \/ Publishes \/ Points \/ Dooms \/ RemovesEmpty
    BY <2>4 DEF Quiet, Publishes, Points, Dooms, RemovesEmpty
  <2> QED
    BY <1>1, <2>2, <2>3, <2>4, EveryStepIsOne DEF DiskStep
<1>2. IInv /\ [Next]_vars =>
        [\A r \in published :
           /\ files'[r] \subseteq files[r]
           /\ lineage'[r] = lineage[r]
           /\ (files'[r] # files[r] => r \in doomed)]_vars
  BY <1>1
<1> QED
  BY <1>2, Invariance, PTL DEF Spec, Immutable

-----------------------------------------------------------------------------
(* The store implements RevisionLineage.                                   *)

Status == [r \in Revisions |-> StatusOf(r)]
Family == [r \in Revisions |-> IF r \in published THEN lineage[r] ELSE NoName]
Pointer == [n \in Names |-> IF alias[n] = Torn THEN NoRevision ELSE alias[n]]

LEMMA LineageStep ==
  ASSUME IInv, DiskStep
  PROVE  Lineage!Next \/ UNCHANGED <<Status, Family, Pointer>>
<1> USE StoreAssumption DEF IInv
<1>1. CASE Quiet \/ Dooms
  BY <1>1 DEF Quiet, Dooms, Status, Family, Pointer, StatusOf, Visible
<1>2. CASE Drafts
  <2>1. PICK r \in Revisions \ published :
          /\ \A s \in Revisions \ {r} :
               place'[s] = place[s] /\ files'[s] = files[s] /\ lineage'[s] = lineage[s]
          /\ UNCHANGED <<alias, published, doomed>>
    BY <1>2 DEF Drafts
  <2>2. \A s \in Revisions : StatusOf(s)' = StatusOf(s)
    BY <2>1 DEF StatusOf, Visible
  <2>3. Status' = Status
    BY <2>2 DEF Status
  <2>4. Family' = Family /\ Pointer' = Pointer
    BY <2>1 DEF Family, Pointer
  <2> QED
    BY <2>3, <2>4
<1>3. CASE Publishes
  <2>1. PICK r \in Revisions \ published :
          /\ lineage[r] \in Names
          /\ files[r] = Complete(r)
          /\ place' = [place EXCEPT ![r] = "models"]
          /\ published' = published \cup {r}
          /\ UNCHANGED <<files, lineage, alias, doomed>>
    BY <1>3 DEF Publishes
  <2>2. Status[r] = "unborn" /\ Pointer' = Pointer
    BY <2>1 DEF Status, StatusOf, Pointer
  <2>3. StatusOf(r)' = "live"
    BY <2>1 DEF StatusOf, Visible, Complete, Files, TypeOK
  <2>4. \A s \in Revisions \ {r} : StatusOf(s)' = StatusOf(s)
    BY <2>1 DEF StatusOf, Visible, TypeOK
  <2>5. Status' = [Status EXCEPT ![r] = "live"]
    BY <2>1, <2>3, <2>4 DEF Status
  <2>6. Family' = [Family EXCEPT ![r] = lineage[r]]
    BY <2>1 DEF Family
  <2>7. ASSUME NEW n \in Names, n = lineage[r] PROVE Lineage!Born(r, n)
    BY <2>2, <2>5, <2>6, <2>7 DEF Lineage!Born, Status, Family, Pointer
  <2> QED
    BY <2>1, <2>7 DEF Lineage!Next
<1>4. CASE Points
  <2>1. PICK n \in Names :
          /\ \/ alias' = [alias EXCEPT ![n] = NoRevision]
             \/ alias' = [alias EXCEPT ![n] = Torn]
             \/ \E r \in published : lineage[r] = n /\ alias' = [alias EXCEPT ![n] = r]
          /\ UNCHANGED <<place, files, lineage, published, doomed>>
    BY <1>4 DEF Points
  <2>2. Status' = Status /\ Family' = Family
    BY <2>1 DEF Status, Family, StatusOf, Visible
  <2>3. CASE alias' = [alias EXCEPT ![n] = NoRevision] \/ alias' = [alias EXCEPT ![n] = Torn]
    <3>1. Pointer' = [Pointer EXCEPT ![n] = NoRevision]
      BY <2>3 DEF Pointer, TypeOK
    <3>2. Lineage!Silence(n)
      BY <2>2, <3>1 DEF Lineage!Silence, Status, Family, Pointer
    <3> QED
      BY <3>2 DEF Lineage!Next
  <2>4. ASSUME NEW r \in published, lineage[r] = n, alias' = [alias EXCEPT ![n] = r]
        PROVE  Lineage!Next
    <3>1. r \in Revisions
      BY DEF TypeOK
    <3>2. Pointer' = [Pointer EXCEPT ![n] = r]
      BY <2>4, <3>1 DEF Pointer, TypeOK
    <3>3. Status[r] # "unborn" /\ Family[r] = n
      BY <2>4, <3>1 DEF Status, StatusOf, Family
    <3>4. Lineage!Point(n, r)
      BY <2>2, <3>2, <3>3 DEF Lineage!Point, Status, Family, Pointer
    <3> QED
      BY <3>1, <3>4 DEF Lineage!Next
  <2> QED
    BY <2>1, <2>3, <2>4
<1>5. CASE Unlinks
  <2>1. PICK r \in published, f \in Files :
          /\ f \in files[r]
          /\ files' = [files EXCEPT ![r] = @ \ {f}]
          /\ UNCHANGED <<place, lineage, alias, published, doomed>>
    BY <1>5 DEF Unlinks, TypeOK
  <2>2. r \in Revisions
    BY DEF TypeOK
  <2>3. \A s \in Revisions \ {r} : StatusOf(s)' = StatusOf(s)
    BY <2>1 DEF StatusOf, Visible, TypeOK
  <2>4. Family' = Family /\ Pointer' = Pointer
    BY <2>1 DEF Family, Pointer
  <2>5. CASE Visible(r) /\ f = "manifest"
    <3>1. Status[r] = "live" /\ StatusOf(r)' = "deleted"
      BY <2>1, <2>2, <2>5 DEF Status, StatusOf, Visible, TypeOK
    <3>2. Status' = [Status EXCEPT ![r] = "deleted"]
      BY <2>2, <2>3, <3>1 DEF Status
    <3>3. Lineage!Retire(r)
      BY <2>4, <3>1, <3>2 DEF Lineage!Retire, Status, Family, Pointer
    <3> QED
      BY <2>2, <3>3 DEF Lineage!Next
  <2>6. CASE ~(Visible(r) /\ f = "manifest")
    <3>1. Visible(r)' = Visible(r)
      BY <2>1, <2>2, <2>6 DEF Visible, TypeOK
    <3>2. StatusOf(r)' = StatusOf(r)
      BY <2>1, <3>1 DEF StatusOf
    <3>3. Status' = Status
      BY <2>3, <3>2 DEF Status
    <3> QED
      BY <2>4, <3>3
  <2> QED
    BY <2>5, <2>6
<1>6. CASE RemovesEmpty
  <2>1. PICK r \in published :
          /\ files[r] = {}
          /\ place' = [place EXCEPT ![r] = "none"]
          /\ UNCHANGED <<files, lineage, alias, published, doomed>>
    BY ZenonT(60), <1>6 DEF RemovesEmpty
  <2>2. \A s \in Revisions : Visible(s)' = Visible(s)
    BY <2>1 DEF Visible, TypeOK
  <2>3. \A s \in Revisions : StatusOf(s)' = StatusOf(s)
    BY <2>1, <2>2 DEF StatusOf
  <2> QED
    BY <2>1, <2>3 DEF Status, Family, Pointer
<1> QED
  BY <1>1, <1>2, <1>3, <1>4, <1>5, <1>6 DEF DiskStep

(* Whatever a reference means changes only as RevisionLineage allows: a     *)
(* revision is born whole and retired for good, and a name moves only      *)
(* within its lineage.                                                     *)
THEOREM StoreImplementsLineage == Spec => ImplementsLineage
<1>1. Init => Lineage!Init
  BY StoreAssumption DEF Init, Lineage!Init, StatusOf
<1>2. IInv /\ [Next]_vars => [Lineage!Next]_(Lineage!vars)
  BY EveryStepIsOne, LineageStep DEF Lineage!vars, Status, Family, Pointer
<1> QED
  BY <1>1, <1>2, Invariance, PTL DEF Spec, ImplementsLineage, Lineage!Spec

-----------------------------------------------------------------------------
(* A forecast answers from one revision.                                   *)

LookSteps == {"manifest", "recipe"}
ReadSteps == {"read_transforms", "read_state", "answered"}

(* A forecast reads a revision. Once the recipe has been read, it is that of the revision of the call;  *)
(* once the transforms have, they are too, unless a deletion has begun.    *)
Reading(p) ==
  /\ pc[p] \in LookSteps => job[p].rev \in Revisions
  /\ pc[p] \in ReadSteps => job[p].rev \in published /\ job[p].recipe = job[p].rev
  /\ pc[p] \in {"read_state", "answered"} /\ job[p].rev \notin doomed =>
       job[p].applied = (job[p].rev \in Transformed)

ReaderInv == \A p \in Procs : Reading(p)

(* Only these take a process to one of those steps. *)
Reads(p) ==
  \/ \E r \in Revisions : BeginPinnedForecast(p, r)
  \/ ResolveAlias(p) \/ ReadManifest(p) \/ ReadRecipe(p) \/ ReadTransforms(p) \/ ReadState(p)

LEMMA OnlyForecastsRead ==
  ASSUME TypeOK, NEW p \in Procs,
         Fit(p) \/ Select(p) \/ Delete(p) \/ Forecast(p) \/ Die(p),
         ~Reads(p)
  PROVE  pc'[p] \notin LookSteps \cup ReadSteps
<1> USE DEF TypeOK, Goto, End, Call, LookSteps, ReadSteps
<1>1. ASSUME Fit(p) PROVE pc'[p] \notin LookSteps \cup ReadSteps
  BY ZenonT(60), <1>1 DEF Fit, BeginFit, WriteTransforms, FitSucceeds, FitFails, WriteMetadata, Publish
<1>2. ASSUME Select(p) PROVE pc'[p] \notin LookSteps \cup ReadSteps
  BY <1>2 DEF Select, BeginSelect, CheckTarget, TruncateAlias, WriteAlias
<1>3. ASSUME Delete(p) PROVE pc'[p] \notin LookSteps \cup ReadSteps
  <2>1. ASSUME \/ \E r \in Revisions : BeginDelete(p, r)
               \/ \E n \in Names : BeginDeleteAll(p, n)
               \/ ListRevisions(p) \/ ManifestGone(p)
        PROVE pc'[p] \notin LookSteps \cup ReadSteps
    BY <2>1 DEF BeginDelete, BeginDeleteAll, ListRevisions, ManifestGone
  <2>2. ASSUME PickVictims(p) \/ FollowAlias(p) PROVE pc'[p] \notin LookSteps \cup ReadSteps
    BY <2>2 DEF PickVictims, FollowAlias
  <2>3. ASSUME OpenTree(p) \/ \E f \in Files : UnlinkFile(p, f) \/ FileGone(p, f)
        PROVE pc'[p] \notin LookSteps \cup ReadSteps
    BY <2>3 DEF OpenTree, UnlinkFile, FileGone
  <2>4. ASSUME RemoveDirectory(p) \/ UnlinkAlias(p) PROVE pc'[p] \notin LookSteps \cup ReadSteps
    BY <2>4 DEF RemoveDirectory, UnlinkAlias
  <2> QED
    BY <1>3, <2>1, <2>2, <2>3, <2>4 DEF Delete
<1>4. ASSUME Forecast(p) \/ Die(p) PROVE pc'[p] \notin LookSteps \cup ReadSteps
  <2>1. ASSUME NEW n \in Names, BeginForecast(p, n) PROVE pc'[p] \notin LookSteps \cup ReadSteps
    BY <2>1 DEF BeginForecast
  <2>2. ASSUME Return(p) \/ Die(p) PROVE pc'[p] \notin LookSteps \cup ReadSteps
    BY <2>2 DEF Return, Die
  <2> QED
    BY <1>4, <2>1, <2>2 DEF Forecast, Reads
<1> QED
  BY <1>1, <1>2, <1>3, <1>4

LEMMA HistoryGrows ==
  ASSUME DiskStep PROVE published \subseteq published' /\ doomed \subseteq doomed'
BY DEF DiskStep, Quiet, Drafts, Publishes, Points, Dooms, Unlinks, RemovesEmpty

LEMMA OthersUntouched ==
  ASSUME TypeOK, NEW p \in Procs,
         Fit(p) \/ Select(p) \/ Delete(p) \/ Forecast(p) \/ Die(p)
  PROVE  \A q \in Procs \ {p} : pc'[q] = pc[q] /\ job'[q] = job[q]
<1> USE DEF TypeOK, Goto, End, Call
<1>1. CASE Fit(p)
  BY ZenonT(60), <1>1 DEF Fit, BeginFit, WriteTransforms, FitSucceeds, FitFails, WriteMetadata, Publish
<1>2. CASE Select(p)
  BY <1>2 DEF Select, BeginSelect, CheckTarget, TruncateAlias, WriteAlias
<1>3. CASE Delete(p)
  BY ZenonT(60), <1>3 DEF Delete, BeginDelete, BeginDeleteAll, ListRevisions, ManifestGone, PickVictims,
              FollowAlias, OpenTree, UnlinkFile, FileGone, RemoveDirectory, UnlinkAlias
<1>4. CASE Forecast(p) \/ Die(p)
  BY <1>4 DEF Forecast, BeginForecast, BeginPinnedForecast, ResolveAlias, ReadManifest, Read,
              ReadRecipe, ReadTransforms, ReadState, Return, Die
<1> QED
  BY <1>1, <1>2, <1>3, <1>4

LEMMA ReaderStep == IInv /\ ReaderInv /\ [Next]_vars => ReaderInv'
<1> SUFFICES ASSUME IInv, ReaderInv, [Next]_vars PROVE ReaderInv'
  OBVIOUS
<1>1. TypeOK /\ published \subseteq published' /\ doomed \subseteq doomed'
  BY EveryStepIsOne, HistoryGrows DEF IInv
<1>2. ASSUME NEW q \in Procs, pc'[q] = pc[q], job'[q] = job[q] PROVE Reading(q)'
  BY <1>1, <1>2 DEF ReaderInv, Reading, LookSteps, ReadSteps
<1>3. CASE UNCHANGED vars
  BY <1>2, <1>3 DEF vars, ReaderInv
<1>4. ASSUME NEW p \in Procs, Fit(p) \/ Select(p) \/ Delete(p) \/ Forecast(p) \/ Die(p)
      PROVE ReaderInv'
  <2>1. Reading(p)'
    <3>1. CASE ReadRecipe(p)
      <4>1. \/ pc'[p] = "refused"
            \/ /\ pc'[p] = "read_transforms" /\ place[job[p].rev] = "models"
               /\ "recipe" \in files[job[p].rev]
        BY <3>1, <1>1 DEF ReadRecipe, Read, Visible, Goto, TypeOK
      <4>2. job'[p].rev = job[p].rev /\ job'[p].recipe = job[p].rev
        BY <3>1, <1>1 DEF ReadRecipe, TypeOK, Job
      <4>3. CASE pc'[p] = "refused"
        BY <4>3 DEF Reading, LookSteps, ReadSteps
      <4>4. CASE pc'[p] = "read_transforms" /\ place[job[p].rev] = "models"
        <5>1. pc[p] = "recipe" /\ job[p].rev \in Revisions
          BY <3>1 DEF ReaderInv, Reading, LookSteps, ReadRecipe, Read, Goto
        <5>2. job[p].rev \in published
          BY <4>4, <5>1 DEF IInv, Placed
        <5> QED
          BY <1>1, <4>2, <4>4, <5>2 DEF Reading, LookSteps
      <4> QED
        BY <4>1, <4>3, <4>4
    <3>2. CASE ReadTransforms(p)
      <4>1. job[p].rev \in published /\ job[p].recipe = job[p].rev
        BY <3>2 DEF ReaderInv, Reading, ReadSteps, ReadTransforms, Goto
      <4>2. /\ job'[p].rev = job[p].rev /\ job'[p].recipe = job[p].recipe
            /\ job'[p].applied = ("transforms" \in files[job[p].rev])
        BY <3>2, <1>1 DEF ReadTransforms, TypeOK, Job
      <4>3. job[p].rev \notin doomed =>
              (("transforms" \in files[job[p].rev]) <=> (job[p].rev \in Transformed))
        BY <4>1 DEF IInv, PublishedIsComplete, Complete, Files
      <4>4. job'[p].rev \notin doomed' => job'[p].applied = (job'[p].rev \in Transformed)
        BY <1>1, <4>2, <4>3
      <4>5. pc'[p] = "read_state"
        BY <3>2, <1>1 DEF ReadTransforms, Goto, TypeOK
      <4> QED
        BY <1>1, <4>1, <4>2, <4>4, <4>5 DEF Reading, LookSteps
    <3>3. CASE ReadState(p)
      <4>1. pc[p] = "read_state" /\ pc'[p] \in {"answered", "refused"} /\ job' = job
        BY <3>3, <1>1 DEF ReadState, Goto, TypeOK
      <4>2. Reading(p)
        BY DEF ReaderInv
      <4> QED
        BY <1>1, <4>1, <4>2 DEF Reading, LookSteps, ReadSteps
    <3>4. ASSUME NEW r \in Revisions, BeginPinnedForecast(p, r) PROVE Reading(p)'
      <4>1. pc'[p] = "manifest" /\ job'[p].rev = r
        BY <3>4, <1>1 DEF BeginPinnedForecast, Call, NoJob, TypeOK
      <4> QED
        BY <4>1 DEF Reading, LookSteps, ReadSteps
    <3>5. CASE ResolveAlias(p)
      <4>1. CASE Goto(p, "resolve", "manifest") /\ job' = [job EXCEPT ![p].rev = alias[job[p].name]]
        <5>1. alias[job[p].name] \in Revisions
          BY <3>5, <4>1, <1>1 DEF ResolveAlias, Resolves, Goto, TypeOK
        <5>2. pc'[p] = "manifest" /\ job'[p].rev = alias[job[p].name]
          BY <4>1, <1>1 DEF Goto, TypeOK, Job
        <5> QED
          BY <5>1, <5>2 DEF Reading, LookSteps, ReadSteps
      <4>2. CASE Goto(p, "resolve", "refused")
        BY <4>2, <1>1 DEF Goto, TypeOK, Reading, LookSteps, ReadSteps
      <4> QED
        BY <3>5, <4>1, <4>2 DEF ResolveAlias
    <3>6. CASE ReadManifest(p)
      <4>1. pc[p] = "manifest" /\ pc'[p] \in {"recipe", "refused"} /\ job' = job
        BY <3>6, <1>1 DEF ReadManifest, Read, Goto, TypeOK
      <4>2. Reading(p)
        BY DEF ReaderInv
      <4> QED
        BY <4>1, <4>2 DEF Reading, LookSteps, ReadSteps
    <3>7. CASE ~Reads(p)
      BY <1>1, <1>4, <3>7, OnlyForecastsRead DEF Reading, LookSteps, ReadSteps
    <3> QED
      BY <3>1, <3>2, <3>3, <3>4, <3>5, <3>6, <3>7 DEF Reads
  <2>2. \A q \in Procs \ {p} : Reading(q)'
    BY <1>1, <1>2, <1>4, OthersUntouched
  <2> QED
    BY <2>1, <2>2 DEF ReaderInv
<1> QED
  BY <1>3, <1>4 DEF Next

(* An answered forecast used the recipe and the transforms of the revision *)
(* it resolved, however the alias moved in between, unless that revision   *)
(* was being deleted (Engine.forecast, runtime/engine.py).                 *)
THEOREM ForecastsUseOneRevision == Spec => []AnsweredFromOneRevision
<1>1. Init => ReaderInv
  BY DEF Init, ReaderInv, Reading, LookSteps, ReadSteps
<1>2. ReaderInv => AnsweredFromOneRevision
  BY DEF ReaderInv, Reading, ReadSteps, AnsweredFromOneRevision, Faithful
<1> QED
  BY <1>1, <1>2, ReaderStep, Invariance, PTL DEF Spec

-----------------------------------------------------------------------------
(* One caller, and no crash.                                               *)

(* One caller, one call at a time.                                         *)
OneProcess == \E p : Procs = {p}

(* And no failure but that of a fit: how the store is used from a script   *)
(* or a notebook.                                                          *)
OneAtATime == Mortals = {} /\ OneProcess

(* A deletion that has begun, or an alias that is being written: the name  *)
(* of the call may for now mean what is going away, or nothing.            *)
Moving(p) ==
  \/ pc[p] \in {"open_tree", "unlink_files", "unlink_alias", "write"}
  \/ pc[p] \in {"list", "manifests", "check", "truncate"} /\ job[p].task = "delete"

(* What a deletion has still to remove is there, under its name; with the  *)
(* whole name, it is all there is of it. What was listed of a directory is *)
(* what is left in it.                                                     *)
Victims(p) ==
  /\ pc[p] \in {"open_tree", "unlink_files"} =>
       /\ job[p].task \in {"delete", "delete_all"}
       /\ \A r \in job[p].todo : place[r] = "models" /\ lineage[r] = job[p].name
       /\ job[p].task = "delete_all" =>
            \A r \in Revisions : Visible(r) /\ lineage[r] = job[p].name => r \in job[p].todo
  /\ pc[p] = "unlink_files" => job[p].rev \in job[p].todo /\ job[p].listing = files[job[p].rev]

(* What a deletion or a selection has looked at is still as it was.        *)
Followed(p) ==
  /\ pc[p] \in {"list", "manifests"} => job[p].task \in {"delete", "delete_all"}
  /\ pc[p] = "manifests" => job[p].todo = {r \in Revisions : Visible(r)}
  /\ pc[p] = "check" /\ job[p].task = "delete" => MayPointAt(job[p].name, job[p].rev)
  /\ pc[p] \in {"truncate", "write"} => Visible(job[p].rev)
  /\ pc[p] = "unlink_alias" => ~\E r \in Revisions : Visible(r) /\ lineage[r] = job[p].name

WorkInv(p) == Victims(p) /\ Followed(p)

(* Every other name means a revision that can be read.                     *)
Meant(p) == \A n \in Names : alias[n] # NoRevision => Resolves(n) \/ (n = job[p].name /\ Moving(p))

(* What was doomed is gone, but for what is being removed.                 *)
Cleared(p) == \A r \in doomed : place[r] = "models" => pc[p] = "unlink_files" /\ r = job[p].rev

(* What a forecast reads is not what was deleted.                          *)
Spared(p) == pc[p] \in ReadSteps => job[p].rev \notin doomed

RestInv(p) == WorkInv(p) /\ Meant(p) /\ Cleared(p) /\ Spared(p)

(* A call that removes finds what it looked at as it was, even where calls *)
(* before it were cut short: nobody else changes it.                       *)
LEMMA WorkStep ==
  ASSUME IInv, NEW p \in Procs, WorkInv(p), Procs = {p}, [Next]_vars
  PROVE  WorkInv(p)'
<1> USE DEF IInv, TypeOK, Goto, End, Call
<1>1. CASE UNCHANGED vars
  BY <1>1 DEF vars, disk, history, WorkInv, Victims, Followed, MayPointAt, Visible
<1>2. CASE Fit(p)
  <2>1. /\ pc'[p] \in {"idle", "check"} \cup FitSteps
        /\ pc'[p] = "check" => job'[p].task = "fit"
    BY <1>2, ZenonT(60) DEF Fit, BeginFit, WriteTransforms, FitSucceeds, FitFails, WriteMetadata, Publish, FitSteps
  <2> QED BY <2>1 DEF WorkInv, Victims, Followed, FitSteps
<1>3. CASE Forecast(p)
  <2>1. pc'[p] \in {"idle", "resolve", "manifest", "recipe", "read_transforms", "read_state", "answered", "refused"}
    BY <1>3 DEF Forecast, BeginForecast, BeginPinnedForecast, ResolveAlias, ReadManifest, ReadRecipe,
           Read, ReadTransforms, ReadState, Return
  <2> QED BY <2>1 DEF WorkInv, Victims, Followed
<1>4. CASE Die(p)
  BY <1>4 DEF Die, WorkInv, Victims, Followed
<1>5. CASE Select(p)
  <2>1. ASSUME NEW n \in Names, NEW r \in Revisions, BeginSelect(p, n, r) PROVE WorkInv(p)'
    <3>1. pc'[p] = "check" /\ job'[p].task = "select"
      BY <2>1 DEF BeginSelect, NoJob
    <3> QED BY <3>1 DEF WorkInv, Victims, Followed
  <2>2. CASE CheckTarget(p)
    <3>1. /\ UNCHANGED disk
          /\ \/ pc'[p] = "idle"
             \/ pc'[p] = "truncate" /\ job' = job /\ Visible(job[p].rev)
      BY <2>2 DEF CheckTarget, MayPointAt
    <3> QED BY <3>1 DEF WorkInv, Victims, Followed, Visible, disk
  <2>3. CASE TruncateAlias(p)
    <3>1. pc[p] = "truncate" /\ pc'[p] = "write" /\ job' = job /\ UNCHANGED <<place, files>>
      BY <2>3 DEF TruncateAlias
    <3> QED BY <3>1 DEF WorkInv, Victims, Followed, Visible
  <2>4. CASE WriteAlias(p)
    <3>1. pc'[p] = "idle"
      BY <2>4 DEF WriteAlias
    <3> QED BY <3>1 DEF WorkInv, Victims, Followed
  <2> QED BY <1>5, <2>1, <2>2, <2>3, <2>4 DEF Select
<1>6. CASE Delete(p)
  <2>1. ASSUME NEW r \in Revisions, BeginDelete(p, r) PROVE WorkInv(p)'
    <3>1. /\ pc'[p] = "open_tree" /\ UNCHANGED disk
          /\ job'[p].task = "delete" /\ job'[p].todo = {r} /\ job'[p].name = lineage[r] /\ Visible(r)
      BY <2>1 DEF BeginDelete, NoJob
    <3> QED BY <3>1 DEF WorkInv, Victims, Followed, Visible, disk
  <2>2. ASSUME NEW n \in Names, BeginDeleteAll(p, n) PROVE WorkInv(p)'
    <3>1. pc'[p] = "list" /\ job'[p].task = "delete_all"
      BY <2>2 DEF BeginDeleteAll, NoJob
    <3> QED BY <3>1 DEF WorkInv, Victims, Followed
  <2>3. CASE ListRevisions(p)
    <3>1. /\ pc[p] = "list" /\ pc'[p] = "manifests" /\ UNCHANGED disk /\ job'[p].task = job[p].task
          /\ job'[p].todo = {r \in Revisions : Visible(r)}
      BY <2>3 DEF ListRevisions, Job
    <3> QED BY <3>1 DEF WorkInv, Victims, Followed, Visible, disk
  <2>4. ~ManifestGone(p)
    BY DEF ManifestGone, WorkInv, Followed
  <2>5. CASE PickVictims(p)
    <3>1. /\ pc[p] = "manifests" /\ job[p].task = "delete_all" /\ UNCHANGED disk
          /\ job[p].todo = {r \in Revisions : Visible(r)}
      BY <2>5 DEF PickVictims, WorkInv, Followed
    <3>2. \/ pc'[p] = "idle"
          \/ /\ pc'[p] = "open_tree" /\ job'[p].task = "delete_all" /\ job'[p].name = job[p].name
             /\ job'[p].todo = Remaining(p)
      BY <2>5, <3>1 DEF PickVictims, Job
    <3> QED BY <3>1, <3>2 DEF WorkInv, Victims, Followed, Remaining, Visible, disk
  <2>6. CASE FollowAlias(p)
    <3>1. /\ pc[p] = "manifests" /\ job[p].task = "delete" /\ UNCHANGED disk
          /\ job[p].todo = {r \in Revisions : Visible(r)}
      BY <2>6 DEF FollowAlias, WorkInv, Followed
    <3>2. ASSUME NEW newest \in Remaining(p), Goto(p, "manifests", "check"),
                 job' = [job EXCEPT ![p].rev = newest, ![p].todo = {}]
          PROVE  WorkInv(p)'
      <4>1. pc'[p] = "check" /\ job'[p].name = job[p].name /\ job'[p].rev = newest
        BY <3>1, <3>2 DEF Job
      <4> QED BY <3>1, <4>1 DEF WorkInv, Victims, Followed, Remaining, MayPointAt, Visible, disk
    <3>3. CASE /\ Remaining(p) = {} /\ Goto(p, "manifests", "unlink_alias")
               /\ job' = [job EXCEPT ![p].todo = {}]
      <4>1. pc'[p] = "unlink_alias" /\ job'[p].name = job[p].name
        BY <3>1, <3>3 DEF Job
      <4> QED BY <3>1, <3>3, <4>1 DEF WorkInv, Victims, Followed, Remaining, Visible, disk
    <3> QED BY <2>6, <3>2, <3>3 DEF FollowAlias
  <2>7. CASE OpenTree(p)
    <3>1. PICK r \in job[p].todo :
            \/ /\ Goto(p, "open_tree", "unlink_files")
               /\ job' = [job EXCEPT ![p].rev = r, ![p].listing = files[r]]
            \/ place[r] # "models"
      BY <2>7 DEF OpenTree
    <3>2. pc[p] = "open_tree" /\ UNCHANGED disk /\ place[r] = "models"
      BY <2>7 DEF OpenTree, WorkInv, Victims
    <3>3. /\ pc'[p] = "unlink_files" /\ job'[p].rev = r /\ job'[p].listing = files[r]
          /\ job'[p].task = job[p].task /\ job'[p].name = job[p].name /\ job'[p].todo = job[p].todo
      BY <3>1, <3>2 DEF Job
    <3> QED BY <3>2, <3>3 DEF WorkInv, Victims, Followed, Visible, disk
  <2>8. ASSUME NEW f \in Files, UnlinkFile(p, f) PROVE WorkInv(p)'
    <3>0. job[p].rev \in Revisions
      BY <2>8 DEF UnlinkFile, ProcessInv, Removing
    <3> SUFFICES ASSUME NEW r \in Revisions, r = job[p].rev PROVE WorkInv(p)'
      BY <3>0
    <3>1. /\ pc[p] = "unlink_files" /\ pc'[p] = "unlink_files"
          /\ files' = [files EXCEPT ![r] = @ \ {f}] /\ UNCHANGED <<place, lineage>>
      BY <2>8 DEF UnlinkFile, history
    <3>2. /\ job'[p].rev = r /\ job'[p].listing = job[p].listing \ {f}
          /\ job'[p].task = job[p].task /\ job'[p].name = job[p].name /\ job'[p].todo = job[p].todo
      BY <2>8 DEF UnlinkFile, Job
    <3>3. \A s \in Revisions : Visible(s)' => Visible(s)
      BY <3>1 DEF Visible
    <3> QED BY <3>1, <3>2, <3>3 DEF WorkInv, Victims, Followed
  <2>9. ASSUME NEW f \in Files PROVE ~FileGone(p, f)
    BY DEF FileGone, WorkInv, Victims
  <2>10. CASE RemoveDirectory(p)
    <3>0. job[p].rev \in Revisions
      BY <2>10 DEF RemoveDirectory, ProcessInv, Removing
    <3> SUFFICES ASSUME NEW r \in Revisions, r = job[p].rev, NEW left, left = job[p].todo \ {r}
                 PROVE  WorkInv(p)'
      BY <3>0
    <3>1. pc[p] = "unlink_files" /\ r \in job[p].todo /\ place[r] = "models" /\ lineage[r] = job[p].name
      BY <2>10 DEF RemoveDirectory, WorkInv, Victims
    <3>2. /\ place' = [place EXCEPT ![r] = "none"] /\ UNCHANGED <<files, lineage>>
          /\ pc'[p] = IF left # {} THEN "open_tree"
                      ELSE IF job[p].task = "delete" THEN "list" ELSE "unlink_alias"
          /\ job'[p].todo = left /\ job'[p].task = job[p].task /\ job'[p].name = job[p].name
      BY <2>10, <3>1 DEF RemoveDirectory, history, Job
    <3>3. /\ \A s \in Revisions \ {r} : Visible(s)' = Visible(s)
          /\ ~Visible(r)'
      BY <3>1, <3>2 DEF Visible
    <3> QED BY <3>1, <3>2, <3>3 DEF WorkInv, Victims, Followed
  <2>11. CASE UnlinkAlias(p)
    <3>1. pc'[p] = "idle"
      BY <2>11 DEF UnlinkAlias
    <3> QED BY <3>1 DEF WorkInv, Victims, Followed
  <2> QED BY <1>6, <2>1, <2>2, <2>3, <2>4, <2>5, <2>6, <2>7, <2>8, <2>9, <2>10, <2>11 DEF Delete
<1> QED BY <1>1, <1>2, <1>3, <1>4, <1>5, <1>6 DEF Next

(* It holds of every behaviour of one process, mortal or not.              *)
LEMMA WorkAlways ==
  ASSUME OneProcess
  PROVE  Spec => [](IInv /\ \A p \in Procs : WorkInv(p))
<1>1. Init => \A p \in Procs : WorkInv(p)
  BY DEF Init, WorkInv, Victims, Followed
<1>2. IInv /\ (\A p \in Procs : WorkInv(p)) /\ [Next]_vars => (\A p \in Procs : WorkInv(p))'
  BY WorkStep DEF OneProcess
<1> QED BY <1>1, <1>2, Invariance, PTL DEF Spec

(* A fit writes to its own revision, which no alias means yet.             *)
LEMMA FitRests ==
  ASSUME IInv, NEW p \in Procs, RestInv(p), Fit(p), WorkInv(p)'
  PROVE  RestInv(p)'
<1> USE DEF IInv, TypeOK, Goto, End, Call, FitSteps, disk, history
<1>1. /\ pc[p] \in {"idle"} \cup FitSteps /\ pc'[p] \in {"idle", "check"} \cup FitSteps
      /\ UNCHANGED <<alias, doomed>>
  BY ZenonT(60) DEF Fit, BeginFit, WriteTransforms, FitSucceeds, FitFails, WriteMetadata, Publish
<1>2. \A r \in published : place'[r] = place[r] /\ files'[r] = files[r] /\ r \in Revisions
  <2>1. CASE \E n \in Names : BeginFit(p, n, "fit") \/ BeginFit(p, n, "fit_quietly")
    BY <2>1 DEF BeginFit, Placed
  <2>2. ASSUME pc[p] \in FitSteps PROVE job[p].rev \notin published
    BY <2>2 DEF ProcessInv, Staged
  <2>3. CASE WriteTransforms(p) \/ FitSucceeds(p) \/ FitFails(p) \/ WriteMetadata(p) \/ Publish(p)
    BY <2>2, <2>3 DEF WriteTransforms, FitSucceeds, FitFails, WriteMetadata, Publish
  <2> QED BY <2>1, <2>3 DEF Fit
<1>3. Spared(p)'
  BY <1>1 DEF Spared, ReadSteps
<1>4. Cleared(p)'
  BY <1>1, <1>2 DEF RestInv, Cleared, Placed
<1>5. Meant(p)'
  <2> SUFFICES ASSUME NEW n \in Names, alias[n] # NoRevision PROVE Resolves(n)'
    BY <1>1 DEF Meant
  <2>1. alias[n] \in Revisions /\ Visible(alias[n])
    BY <1>1 DEF RestInv, Meant, Moving, Resolves, WorkInv, Followed
  <2>2. alias[n] \in published
    BY <2>1 DEF AliasInLineage
  <2> QED BY <1>1, <1>2, <2>1, <2>2 DEF Resolves, Visible
<1> QED BY SMTT(40), <1>3, <1>4, <1>5 DEF RestInv

(* Steps that leave the disk alone, and do not leave a deletion half way.  *)
LEMMA SameDisk ==
  ASSUME IInv, NEW p \in Procs, RestInv(p), UNCHANGED <<disk, history>>,
         Moving(p) => Moving(p)' /\ job'[p].name = job[p].name,
         pc[p] = "unlink_files" => pc'[p] = "unlink_files" /\ job'[p].rev = job[p].rev
  PROVE  Meant(p)' /\ Cleared(p)'
BY DEF RestInv, Meant, Cleared, Resolves, Visible, disk, history

(* A forecast changes nothing, and finds no manifest of what was removed.  *)
LEMMA ForecastRests ==
  ASSUME IInv, NEW p \in Procs, RestInv(p), Forecast(p), WorkInv(p)'
  PROVE  RestInv(p)'
<1> USE DEF IInv, TypeOK, Goto, End, Call, ReadSteps
<1>1. UNCHANGED <<disk, history>>
  BY DEF Forecast, BeginForecast, BeginPinnedForecast, ResolveAlias, ReadManifest, ReadRecipe,
         ReadTransforms, ReadState, Return
<1>2. /\ pc[p] \in {"idle", "resolve", "manifest", "recipe", "read_transforms", "read_state", "answered", "refused"}
      /\ pc'[p] \in {"idle", "resolve", "manifest", "recipe", "read_transforms", "read_state", "answered", "refused"}
  BY DEF Forecast, BeginForecast, BeginPinnedForecast, ResolveAlias, ReadManifest, ReadRecipe,
         Read, ReadTransforms, ReadState, Return
<1>3. Meant(p)' /\ Cleared(p)'
  BY <1>1, <1>2, SameDisk DEF Moving
<1>4. Spared(p)'
  <2>1. CASE ReadRecipe(p)
    <3>1. job'[p].rev = job[p].rev
      BY <2>1 DEF ReadRecipe, Job
    <3>2. pc'[p] \in ReadSteps => place[job[p].rev] = "models"
      BY <2>1 DEF ReadRecipe, Read, Visible
    <3> QED BY <1>1, <1>2, <2>1, <3>1, <3>2 DEF RestInv, Cleared, Spared, history, ReadRecipe, Read
  <2>2. CASE ReadTransforms(p) \/ ReadState(p)
    <3>1. job'[p].rev = job[p].rev /\ pc[p] \in ReadSteps
      BY <2>2 DEF ReadTransforms, ReadState, Job
    <3> QED BY <1>1, <3>1 DEF RestInv, Spared, history
  <2>3. ASSUME ~ReadRecipe(p), ~ReadTransforms(p), ~ReadState(p) PROVE pc'[p] \notin ReadSteps
    BY <2>3 DEF Forecast, BeginForecast, BeginPinnedForecast, ResolveAlias, ReadManifest, Read, Return
  <2> QED BY <2>1, <2>2, <2>3 DEF Spared
<1> QED BY <1>3, <1>4 DEF RestInv

(* A name is only ever pointed at what is there and is not being removed.  *)
LEMMA SelectRests ==
  ASSUME IInv, NEW p \in Procs, RestInv(p), Select(p), WorkInv(p)'
  PROVE  RestInv(p)'
<1> USE DEF IInv, TypeOK, Goto, End, Call, ReadSteps
<1>1. pc[p] \in {"idle", "check", "truncate", "write"} /\ pc'[p] \in {"idle", "check", "truncate", "write"}
      /\ UNCHANGED <<place, files, lineage, doomed>>
  BY DEF Select, BeginSelect, CheckTarget, TruncateAlias, WriteAlias, disk, history
<1>2. Spared(p)' /\ Cleared(p)'
  BY <1>1 DEF Spared, RestInv, Cleared
<1>3. ASSUME NEW n \in Names, NEW r \in Revisions, BeginSelect(p, n, r) PROVE Meant(p)'
  <2>1. pc[p] = "idle" /\ pc'[p] = "check" /\ job'[p].task = "select" /\ UNCHANGED <<disk, history>>
    BY <1>3 DEF BeginSelect, NoJob
  <2> QED BY <2>1, SameDisk DEF Moving
<1>4. CASE CheckTarget(p)
  <2>1. UNCHANGED <<disk, history>> /\ pc[p] = "check"
    BY <1>4 DEF CheckTarget
  <2>2. CASE MayPointAt(job[p].name, job[p].rev)
    <3>1. pc'[p] = "truncate" /\ job' = job
      BY <1>4, <2>2 DEF CheckTarget
    <3> QED BY <1>2, <2>1, <3>1, SameDisk DEF Moving, RestInv
  <2>3. CASE ~MayPointAt(job[p].name, job[p].rev)
    <3>1. pc'[p] = "idle" /\ job[p].task # "delete"
      BY <1>4, <2>1, <2>3 DEF CheckTarget, RestInv, WorkInv, Followed
    <3> QED BY <1>2, <2>1, <3>1, SameDisk DEF Moving, RestInv
  <2> QED BY <2>2, <2>3
<1>5. CASE TruncateAlias(p)
  <2>1. /\ pc[p] = "truncate" /\ pc'[p] = "write" /\ job' = job
        /\ \A n \in Names : n # job[p].name => alias'[n] = alias[n]
    BY <1>5 DEF TruncateAlias
  <2>2. Meant(p)'
    BY <1>1, <2>1 DEF RestInv, Meant, Moving, Resolves, Visible
  <2> QED BY <1>2, <2>2 DEF RestInv
<1>6. CASE WriteAlias(p)
  <2>1. /\ pc[p] = "write" /\ pc'[p] = "idle"
        /\ alias' = [alias EXCEPT ![job[p].name] = job[p].rev]
    BY <1>6 DEF WriteAlias
  <2>2. Visible(job[p].rev) /\ job[p].rev \in Revisions
    BY <2>1 DEF RestInv, WorkInv, Followed, ProcessInv, Chosen
  <2>3. Meant(p)'
    BY <1>1, <2>1, <2>2 DEF RestInv, Meant, Moving, Resolves, Visible
  <2> QED BY <1>2, <2>3 DEF RestInv
<1> QED BY <1>2, <1>3, <1>4, <1>5, <1>6 DEF Select, RestInv

(* A deletion finds all it listed, so it ends with the alias on the newest *)
(* revision left, or without one.                                          *)
LEMMA DeleteRests ==
  ASSUME IInv, NEW p \in Procs, RestInv(p), Delete(p), WorkInv(p)'
  PROVE  RestInv(p)'
<1> USE DEF IInv, TypeOK, Goto, End, Call
<1>1. ASSUME NEW r \in Revisions, BeginDelete(p, r) PROVE RestInv(p)'
  <2>1. /\ pc[p] = "idle" /\ pc'[p] = "open_tree" /\ UNCHANGED <<disk, history>>
        /\ job'[p].task = "delete" /\ job'[p].todo = {r} /\ job'[p].name = lineage[r] /\ Visible(r)
    BY <1>1 DEF BeginDelete, NoJob
  <2>2. Meant(p)' /\ Cleared(p)'
    BY <2>1, SameDisk DEF Moving
  <2> QED BY <2>1, <2>2 DEF RestInv, Spared, ReadSteps
<1>2. ASSUME NEW n \in Names, BeginDeleteAll(p, n) PROVE RestInv(p)'
  <2>1. /\ pc[p] = "idle" /\ pc'[p] = "list" /\ UNCHANGED <<disk, history>> /\ job'[p].task = "delete_all"
    BY <1>2 DEF BeginDeleteAll, NoJob
  <2>2. Meant(p)' /\ Cleared(p)'
    BY <2>1, SameDisk DEF Moving
  <2> QED BY <2>1, <2>2 DEF RestInv, Spared, ReadSteps
<1>3. CASE ListRevisions(p)
  <2>1. /\ pc[p] = "list" /\ pc'[p] = "manifests" /\ UNCHANGED <<disk, history>>
        /\ job'[p].task = job[p].task /\ job'[p].name = job[p].name
        /\ job'[p].todo = {r \in Revisions : Visible(r)}
    BY <1>3 DEF ListRevisions, Job
  <2>2. Meant(p)' /\ Cleared(p)'
    BY <2>1, SameDisk DEF Moving
  <2> QED BY <2>1, <2>2 DEF RestInv, Spared, ReadSteps
<1>4. ~ManifestGone(p)
  BY DEF ManifestGone, RestInv, WorkInv, Followed
<1>5. CASE PickVictims(p)
  <2>1. /\ pc[p] = "manifests" /\ job[p].task = "delete_all" /\ UNCHANGED <<disk, history>>
        /\ job[p].todo = {r \in Revisions : Visible(r)}
    BY <1>5 DEF PickVictims, RestInv, WorkInv, Followed
  <2>2. CASE Goto(p, "manifests", "open_tree") /\ job' = [job EXCEPT ![p].todo = Remaining(p)]
    <3>1. /\ pc'[p] = "open_tree" /\ job'[p].task = "delete_all" /\ job'[p].name = job[p].name
          /\ job'[p].todo = Remaining(p)
      BY <2>1, <2>2 DEF Job
    <3>2. Meant(p)' /\ Cleared(p)'
      BY <2>1, <3>1, SameDisk DEF Moving
    <3> QED BY <3>1, <3>2 DEF RestInv, Spared, ReadSteps
  <2>3. CASE End(p, "manifests")
    <3>1. pc'[p] = "idle"
      BY <2>3
    <3>2. Meant(p)' /\ Cleared(p)'
      BY <2>1, <3>1, SameDisk DEF Moving
    <3> QED BY <3>1, <3>2 DEF RestInv, Spared, ReadSteps
  <2> QED BY <1>5, <2>2, <2>3 DEF PickVictims
<1>6. CASE FollowAlias(p)
  <2>1. /\ pc[p] = "manifests" /\ job[p].task = "delete" /\ UNCHANGED <<disk, history>>
        /\ job[p].todo = {r \in Revisions : Visible(r)}
    BY <1>6 DEF FollowAlias, RestInv, WorkInv, Followed
  <2>2. ASSUME NEW newest \in Remaining(p), Goto(p, "manifests", "check"),
               job' = [job EXCEPT ![p].rev = newest, ![p].todo = {}]
        PROVE  RestInv(p)'
    <3>1. /\ pc'[p] = "check" /\ job'[p].task = "delete" /\ job'[p].name = job[p].name
          /\ job'[p].rev = newest
      BY <2>1, <2>2 DEF Job
    <3>2. Meant(p)' /\ Cleared(p)'
      BY <2>1, <3>1, SameDisk DEF Moving
    <3> QED BY <3>1, <3>2 DEF RestInv, Spared, ReadSteps
  <2>3. CASE /\ Remaining(p) = {} /\ Goto(p, "manifests", "unlink_alias")
             /\ job' = [job EXCEPT ![p].todo = {}]
    <3>1. pc'[p] = "unlink_alias" /\ job'[p].name = job[p].name
      BY <2>1, <2>3 DEF Job
    <3>2. Meant(p)' /\ Cleared(p)'
      BY <2>1, <3>1, SameDisk DEF Moving
    <3> QED BY <3>1, <3>2 DEF RestInv, Spared, ReadSteps
  <2> QED BY <1>6, <2>2, <2>3 DEF FollowAlias
<1>7. CASE OpenTree(p)
  <2>1. PICK r \in job[p].todo :
          \/ /\ Goto(p, "open_tree", "unlink_files") /\ doomed' = doomed \cup {r}
             /\ job' = [job EXCEPT ![p].rev = r, ![p].listing = files[r]]
          \/ place[r] # "models"
    BY <1>7 DEF OpenTree
  <2>2. pc[p] = "open_tree" /\ UNCHANGED disk
    BY <1>7 DEF OpenTree
  <2>3. place[r] = "models" /\ lineage[r] = job[p].name /\ r \in Revisions
    BY <2>2 DEF RestInv, WorkInv, Victims, Job
  <2>4. /\ pc'[p] = "unlink_files" /\ doomed' = doomed \cup {r}
        /\ job'[p].rev = r /\ job'[p].listing = files[r]
        /\ job'[p].task = job[p].task /\ job'[p].name = job[p].name /\ job'[p].todo = job[p].todo
    BY <2>1, <2>3 DEF Job
  <2>5. Cleared(p)'
    BY <2>2, <2>4 DEF RestInv, Cleared, disk
  <2>6. Meant(p)'
    BY <2>2, <2>4 DEF RestInv, Meant, Moving, Resolves, Visible, disk
  <2> QED BY <2>4, <2>5, <2>6 DEF RestInv, Spared, ReadSteps
<1>8. ASSUME NEW f \in Files, UnlinkFile(p, f) PROVE RestInv(p)'
  <2>0. job[p].rev \in Revisions
    BY <1>8 DEF UnlinkFile, ProcessInv, Removing
  <2> SUFFICES ASSUME NEW r \in Revisions, r = job[p].rev PROVE RestInv(p)'
    BY <2>0
  <2>1. /\ pc[p] = "unlink_files" /\ pc'[p] = "unlink_files"
        /\ files' = [files EXCEPT ![r] = @ \ {f}] /\ UNCHANGED <<place, lineage, alias, doomed>>
        /\ r \in job[p].todo
    BY <1>8 DEF UnlinkFile, history, RestInv, WorkInv, Victims, ProcessInv, Removing
  <2>2. /\ job'[p].rev = r /\ job'[p].listing = job[p].listing \ {f}
        /\ job'[p].task = job[p].task /\ job'[p].name = job[p].name /\ job'[p].todo = job[p].todo
    BY <1>8 DEF UnlinkFile, Job
  <2>3. \A s \in Revisions \ {r} : Visible(s) => Visible(s)'
    BY <2>1 DEF Visible
  <2>4. lineage[r] = job[p].name
    BY <2>1 DEF RestInv, WorkInv, Victims
  <2>5. Cleared(p)'
    BY <2>1, <2>2 DEF RestInv, Cleared
  <2>6. Meant(p)'
    BY <2>1, <2>2, <2>3, <2>4 DEF RestInv, Meant, Moving, Resolves, AliasInLineage
  <2> QED BY <2>1, <2>5, <2>6 DEF RestInv, Spared, ReadSteps
<1>9. ASSUME NEW f \in Files PROVE ~FileGone(p, f)
  BY DEF FileGone, RestInv, WorkInv, Victims
<1>10. CASE RemoveDirectory(p)
  <2>0. job[p].rev \in Revisions
    BY <1>10 DEF RemoveDirectory, ProcessInv, Removing
  <2> SUFFICES ASSUME NEW r \in Revisions, r = job[p].rev,
                      NEW left, left = job[p].todo \ {r}
               PROVE  RestInv(p)'
    BY <2>0
  <2>1. /\ pc[p] = "unlink_files" /\ r \in job[p].todo /\ place[r] = "models"
        /\ lineage[r] = job[p].name /\ r \in doomed
    BY <1>10 DEF RemoveDirectory, RestInv, WorkInv, Victims, ProcessInv, Removing
  <2>2. /\ place' = [place EXCEPT ![r] = "none"] /\ UNCHANGED <<files, lineage, alias, doomed>>
        /\ pc'[p] = IF left # {} THEN "open_tree"
                    ELSE IF job[p].task = "delete" THEN "list" ELSE "unlink_alias"
        /\ job'[p].todo = left /\ job'[p].task = job[p].task /\ job'[p].name = job[p].name
    BY <1>10, <2>1 DEF RemoveDirectory, history, Job
  <2>3. /\ \A s \in Revisions \ {r} : Visible(s)' = Visible(s)
        /\ ~Visible(r)'
    BY <2>1, <2>2 DEF Visible
  <2>4. Cleared(p)'
    BY <2>1, <2>2 DEF RestInv, Cleared
  <2>5. Meant(p)'
    BY <2>1, <2>2, <2>3 DEF RestInv, Meant, Moving, Resolves, AliasInLineage
  <2> QED BY <2>2, <2>4, <2>5 DEF RestInv, Spared, ReadSteps
<1>11. CASE UnlinkAlias(p)
  <2>1. /\ pc[p] = "unlink_alias" /\ pc'[p] = "idle"
        /\ alias' = [alias EXCEPT ![job[p].name] = NoRevision]
        /\ UNCHANGED <<place, files, lineage, doomed>>
    BY <1>11 DEF UnlinkAlias, history
  <2>2. Meant(p)'
    BY <2>1 DEF RestInv, Meant, Moving, Resolves, Visible
  <2>3. Cleared(p)'
    BY <2>1 DEF RestInv, Cleared
  <2> QED BY <2>1, <2>2, <2>3 DEF RestInv, Spared, ReadSteps
<1> QED BY <1>1, <1>2, <1>3, <1>4, <1>5, <1>6, <1>7, <1>8, <1>9, <1>10, <1>11 DEF Delete

(* With one caller and no crash, every step keeps this.                    *)
LEMMA RestStep ==
  ASSUME OneAtATime, IInv, \A p \in Procs : RestInv(p), [Next]_vars
  PROVE  \A p \in Procs : RestInv(p)'
<1> SUFFICES ASSUME NEW p \in Procs PROVE RestInv(p)'
  OBVIOUS
<1>0. WorkInv(p)' /\ Procs = {p}
  BY WorkStep DEF OneAtATime, OneProcess, RestInv
<1>1. CASE UNCHANGED vars
  BY <1>0, <1>1, SameDisk DEF vars, disk, history, RestInv, Meant, Cleared, Spared, Moving, Resolves, Visible
<1>2. CASE Next
  <2>1. ~Die(p)
    BY DEF OneAtATime, Die
  <2> QED BY <1>0, <1>2, <2>1, FitRests, SelectRests, DeleteRests, ForecastRests DEF Next
<1> QED BY <1>1, <1>2

(* It holds of every behaviour of such a caller.                           *)
LEMMA RestAlways ==
  ASSUME OneAtATime
  PROVE  Spec => [](IInv /\ \A p \in Procs : RestInv(p))
<1>1. Init => \A p \in Procs : RestInv(p)
  BY DEF Init, RestInv, WorkInv, Victims, Followed, Meant, Cleared, Spared, ReadSteps
<1>2. IInv /\ (\A p \in Procs : RestInv(p)) /\ [Next]_vars => (\A p \in Procs : RestInv(p))'
  BY RestStep
<1> QED BY <1>1, <1>2, Invariance, PTL DEF Spec

(* Engine.forecast: for a caller that does one thing at a time, a forecast *)
(* that is answered used the recipe and the transforms of the revision it  *)
(* resolved, with no exception.                                            *)
THEOREM ForecastsAreFaithful ==
  ASSUME OneAtATime
  PROVE  Spec => []AnsweredIsFaithful
<1>1. ReaderInv /\ (\A p \in Procs : RestInv(p)) => AnsweredIsFaithful
  BY DEF ReaderInv, Reading, RestInv, Spared, ReadSteps, AnsweredIsFaithful, Faithful
<1>2. Init => ReaderInv
  BY DEF Init, ReaderInv, Reading, LookSteps, ReadSteps
<1> QED BY <1>1, <1>2, ReaderStep, RestAlways, PTL DEF Spec

(* ArtifactStore.delete and set_alias: for such a caller, between two calls*)
(* every name that has an alias can be forecast with.                      *)
THEOREM AliasesMeanSomething ==
  ASSUME OneAtATime
  PROVE  Spec => []AliasResolvesAtRest
<1>1. (\A p \in Procs : RestInv(p)) => AliasResolvesAtRest
  BY DEF OneAtATime, OneProcess, RestInv, Meant, Moving, AliasResolvesAtRest
<1> QED BY <1>1, RestAlways, PTL

(* ArtifactStore.delete: for one process, even one whose calls are cut     *)
(* short anywhere, the alias of a name is removed only when no revision of *)
(* the name is left.                                                       *)
THEOREM AliasesAreTheLastToGo ==
  ASSUME OneProcess
  PROVE  Spec => AliasOutlivesItsLineage
<1>1. ASSUME IInv, \A p \in Procs : WorkInv(p), [Next]_vars,
             NEW n \in Names, alias[n] # NoRevision, alias'[n] = NoRevision
      PROVE  ~\E r \in Revisions : Visible(r) /\ lineage[r] = n
  <2> USE DEF IInv, TypeOK
  <2>1. PICK p \in Procs : Fit(p) \/ Select(p) \/ Delete(p) \/ Forecast(p) \/ Die(p)
    BY <1>1 DEF Next, vars, disk
  <2>2. CASE UnlinkAlias(p)
    <3>1. pc[p] = "unlink_alias" /\ n = job[p].name
      BY <1>1, <2>2 DEF UnlinkAlias, End, Goto
    <3> QED BY <1>1, <3>1 DEF WorkInv, Followed
  <2>3. CASE TruncateAlias(p) \/ WriteAlias(p)
    <3>1. pc[p] = "write" => job[p].rev \in Revisions
      BY <1>1 DEF ProcessInv, Chosen
    <3> QED BY <1>1, <2>3, <3>1, StoreAssumption DEF TruncateAlias, WriteAlias, End, Goto
  <2>4. ASSUME ~UnlinkAlias(p), ~TruncateAlias(p), ~WriteAlias(p) PROVE UNCHANGED alias
    <3>1. CASE Fit(p) \/ Select(p)
      BY ZenonT(60), <2>4, <3>1 DEF disk, Fit, BeginFit, WriteTransforms, FitSucceeds, FitFails, WriteMetadata,
                        Publish, Select, BeginSelect, CheckTarget
    <3>2. CASE Delete(p)
      BY ZenonT(60), <2>4, <3>2 DEF disk, Delete, BeginDelete, BeginDeleteAll, ListRevisions, ManifestGone,
                        PickVictims, FollowAlias, OpenTree, UnlinkFile, FileGone, RemoveDirectory
    <3>3. CASE Forecast(p) \/ Die(p)
      BY <3>3 DEF disk, Forecast, BeginForecast, BeginPinnedForecast, ResolveAlias, ReadManifest,
                  ReadRecipe, ReadTransforms, ReadState, Return, Die
    <3> QED BY SMTT(40), <2>1, <3>1, <3>2, <3>3
  <2> QED BY <1>1, <2>2, <2>3, <2>4
<1>2. IInv /\ (\A p \in Procs : WorkInv(p)) /\ [Next]_vars =>
        [\A n \in Names : alias[n] # NoRevision /\ alias'[n] = NoRevision =>
           ~\E r \in Revisions : Visible(r) /\ lineage[r] = n]_vars
  BY <1>1
<1> QED BY <1>2, WorkAlways, PTL DEF Spec, AliasOutlivesItsLineage
=============================================================================
