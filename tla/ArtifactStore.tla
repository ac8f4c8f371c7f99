--------------------------- MODULE ArtifactStore ---------------------------
(***************************************************************************)
(* The artifact store (artifacts/store.py) as the processes and threads    *)
(* that share its directory see it: one step per filesystem operation that *)
(* another of them can observe.                                            *)
(*                                                                         *)
(*     .tmp/<id>/       a fit being written             place[r] = "tmp"   *)
(*     models/<id>/     a published revision            place[r] = "models"*)
(*     aliases/<name>   the revision a name means       alias[n]           *)
(*                                                                         *)
(* A revision holds at most four things that a forecast reads separately:  *)
(* "manifest", "recipe" (recipe.json and schema.json, written together and *)
(* read together), "transforms" (the fitted transforms, absent when the    *)
(* recipe has none) and "state" (what the provider persisted). JSON, hash  *)
(* checks and protocol versions are left out: nothing here edits a file.   *)
(*                                                                         *)
(* Nothing in the store takes a lock.                                      *)
(***************************************************************************)
EXTENDS Naturals

CONSTANTS
  MaxRevisions,  (* how many fits may be started. Bounds the model.        *)
  Names,         (* the names a model may be fitted under                  *)
  Transformed,   (* the revisions whose recipe has transforms              *)
  Procs,         (* the processes and threads that share the directory     *)
  Fitters,       (* those that fit and publish                             *)
  Selectors,     (* those that call set_alias                              *)
  Deleters,      (* those that call delete                                 *)
  Forecasters,   (* those that forecast from the store                     *)
  Mortals,       (* those that may die, or meet an I/O error, in a call    *)
  NoRevision, Torn, NoName

Revisions == 1 .. MaxRevisions

ASSUME StoreAssumption ==
  /\ MaxRevisions \in Nat
  /\ Transformed \subseteq Revisions
  /\ Fitters \cup Selectors \cup Deleters \cup Forecasters \cup Mortals \subseteq Procs
  /\ NoRevision \notin Revisions
  /\ Torn \notin Revisions \cup {NoRevision}
  /\ NoName \notin Names

Files == {"manifest", "recipe", "transforms", "state"}

(* What a finished fit has written: transforms only where the recipe has them. *)
Complete(r) == IF r \in Transformed THEN Files ELSE Files \ {"transforms"}

VARIABLES
  minted,     (* how many artifact ids were drawn; an id sorts by its age  *)
  place,      (* where the directory of a revision is                      *)
  files,      (* what is in it                                             *)
  lineage,    (* the name its manifest carries                             *)
  alias,      (* what aliases/<name>.json says; Torn is a truncated file   *)
  pc,         (* the step each process is about to take                    *)
  job,        (* the local variables of the call each process is in        *)
  published,  (* history: the revisions that were ever renamed into models *)
  doomed      (* history: the revisions some deletion has begun to remove  *)

disk == <<minted, place, files, lineage, alias>>
history == <<published, doomed>>
vars == <<disk, pc, job, history>>

Tasks == {"none", "fit", "fit_quietly", "select", "delete", "delete_all", "forecast"}

Steps == {"idle", "transforms", "train", "metadata", "publish",
          "check", "truncate", "write",
          "list", "manifests", "open_tree", "unlink_files", "rmdir", "unlink_alias",
          "resolve", "manifest", "recipe", "read_transforms", "read_state",
          "answered", "refused"}

NoJob == [task |-> "none", name |-> NoName, rev |-> NoRevision,
          todo |-> {}, listing |-> {}, recipe |-> NoRevision, applied |-> FALSE]

Job == [task : Tasks, name : Names \cup {NoName}, rev : Revisions \cup {NoRevision},
        todo : SUBSET Revisions, listing : SUBSET Files,
        recipe : Revisions \cup {NoRevision}, applied : BOOLEAN]

(* ArtifactStore.contains_revision: the manifest is a file under models/. *)
Visible(r) == place[r] = "models" /\ "manifest" \in files[r]

TypeOK ==
  /\ minted \in 0 .. MaxRevisions
  /\ place \in [Revisions -> {"none", "tmp", "models"}]
  /\ files \in [Revisions -> SUBSET Files]
  /\ lineage \in [Revisions -> Names \cup {NoName}]
  /\ alias \in [Names -> Revisions \cup {NoRevision, Torn}]
  /\ pc \in [Procs -> Steps]
  /\ job \in [Procs -> Job]
  /\ published \subseteq Revisions
  /\ doomed \subseteq Revisions

Init ==
  /\ minted = 0
  /\ place = [r \in Revisions |-> "none"]
  /\ files = [r \in Revisions |-> {}]
  /\ lineage = [r \in Revisions |-> NoName]
  /\ alias = [n \in Names |-> NoRevision]
  /\ pc = [p \in Procs |-> "idle"]
  /\ job = [p \in Procs |-> NoJob]
  /\ published = {}
  /\ doomed = {}

-----------------------------------------------------------------------------
(* A call starts, moves to its next step, or ends by returning or raising. *)

Call(p, j, step) ==
  /\ pc[p] = "idle"
  /\ pc' = [pc EXCEPT ![p] = step]
  /\ job' = [job EXCEPT ![p] = j]

Goto(p, from, to) ==
  /\ pc[p] = from
  /\ pc' = [pc EXCEPT ![p] = to]

End(p, from) ==
  /\ Goto(p, from, "idle")
  /\ job' = [job EXCEPT ![p] = NoJob]

-----------------------------------------------------------------------------
(* Engine.fit inside ArtifactStore.stage. *)

(* Mutant of BeginFit: an id is drawn twice. *)
BeginFitUnderUsedId(p, n, task) ==
  LET r == IF minted = 0 THEN 1 ELSE minted IN
  /\ p \in Fitters
  /\ Call(p, [NoJob EXCEPT !.task = task, !.name = n, !.rev = r], "transforms")
  /\ place[r] = "none"
  /\ minted' = r
  /\ place' = [place EXCEPT ![r] = "tmp"]
  /\ lineage' = [lineage EXCEPT ![r] = n]
  /\ UNCHANGED <<files, alias, history>>

(* A fresh id is drawn and .tmp/<id>/provider is made. The id is new, so   *)
(* neither refusal of ArtifactStaging.__init__ can apply to it.            *)
BeginFit(p, n, task) ==
  LET r == minted + 1 IN
  /\ p \in Fitters
  /\ minted < MaxRevisions
  /\ Call(p, [NoJob EXCEPT !.task = task, !.name = n, !.rev = r], "transforms")
  /\ minted' = r
  /\ place' = [place EXCEPT ![r] = "tmp"]
  /\ lineage' = [lineage EXCEPT ![r] = n]
  /\ UNCHANGED <<files, alias, history>>

(* Mutant of WriteTransforms: what was fitted is not persisted. *)
ForgetTransforms(p) ==
  /\ Goto(p, "transforms", "train")
  /\ UNCHANGED <<disk, job, history>>

(* write_state, for a recipe that has transforms. *)
WriteTransforms(p) ==
  LET r == job[p].rev IN
  /\ Goto(p, "transforms", "train")
  /\ files' = [files EXCEPT ![r] = @ \cup (Complete(r) \cap {"transforms"})]
  /\ UNCHANGED <<minted, place, lineage, alias, job, history>>

(* Mutant of FitSucceeds: the rename comes before the metadata. *)
PublishThenDescribe(p) ==
  /\ Goto(p, "train", "metadata")
  /\ files' = [files EXCEPT ![job[p].rev] = @ \cup {"state"}]
  /\ place' = [place EXCEPT ![job[p].rev] = "models"]
  /\ published' = published \cup {job[p].rev}
  /\ UNCHANGED <<minted, lineage, alias, job, doomed>>

(* provider.fit returned: its state is under provider/. *)
FitSucceeds(p) ==
  /\ Goto(p, "train", "metadata")
  /\ files' = [files EXCEPT ![job[p].rev] = @ \cup {"state"}]
  /\ UNCHANGED <<minted, place, lineage, alias, job, history>>

(* Mutant of FitFails: the exception is swallowed, and stage() commits. *)
FitFailsUnnoticed(p) ==
  /\ Goto(p, "train", "metadata")
  /\ UNCHANGED <<disk, job, history>>

(* provider.fit raised: ArtifactStaging.abort removes the staged directory. *)
FitFails(p) ==
  LET r == job[p].rev IN
  /\ End(p, "train")
  /\ place' = [place EXCEPT ![r] = "none"]
  /\ files' = [files EXCEPT ![r] = {}]
  /\ UNCHANGED <<minted, lineage, alias, history>>

(* The first half of ArtifactStaging.commit. Nobody reads .tmp, so the three *)
(* files are one step.                                                      *)
WriteMetadata(p) ==
  /\ Goto(p, "metadata", "publish")
  /\ files' = [files EXCEPT ![job[p].rev] = @ \cup {"manifest", "recipe"}]
  /\ UNCHANGED <<minted, place, lineage, alias, job, history>>

(* ArtifactStore.publish up to its rename, the moment the revision exists. *)
Publish(p) ==
  LET r == job[p].rev IN
  /\ pc[p] = "publish"
  /\ place' = [place EXCEPT ![r] = "models"]
  /\ published' = published \cup {r}
  /\ \/ job[p].task = "fit" /\ Goto(p, "publish", "check") /\ UNCHANGED job
     \/ job[p].task = "fit_quietly" /\ End(p, "publish")
  /\ UNCHANGED <<minted, files, lineage, alias, doomed>>

-----------------------------------------------------------------------------
(* ArtifactStore.set_alias, called by a user, by publish or by delete. *)

BeginSelect(p, n, r) ==
  /\ p \in Selectors
  /\ Call(p, [NoJob EXCEPT !.task = "select", !.name = n, !.rev = r], "check")
  /\ UNCHANGED <<disk, history>>

(* Mutant of MayPointAt: one check of the two. *)
AnyOfLineage(n, r) == lineage[r] = n

(* The revision has to be there and to be of the name's own lineage. *)
MayPointAt(n, r) == Visible(r) /\ lineage[r] = n

CheckTarget(p) ==
  /\ pc[p] = "check"
  /\ \/ /\ MayPointAt(job[p].name, job[p].rev)
        /\ Goto(p, "check", "truncate")
        /\ UNCHANGED job
     \/ /\ ~MayPointAt(job[p].name, job[p].rev)
        /\ End(p, "check")
  /\ UNCHANGED <<disk, history>>

(* Path.write_text opens the alias for writing, which empties it ...       *)
TruncateAlias(p) ==
  /\ Goto(p, "truncate", "write")
  /\ alias' = [alias EXCEPT ![job[p].name] = Torn]
  /\ UNCHANGED <<minted, place, files, lineage, job, history>>

(* Mutant of WriteAlias: the name is written where the revision belongs. *)
WriteNameAsRevision(p) ==
  /\ End(p, "write")
  /\ alias' = [alias EXCEPT ![job[p].name] = job[p].name]
  /\ UNCHANGED <<minted, place, files, lineage, history>>

(* ... and only then writes what it now says. *)
WriteAlias(p) ==
  /\ End(p, "write")
  /\ alias' = [alias EXCEPT ![job[p].name] = job[p].rev]
  /\ UNCHANGED <<minted, place, files, lineage, history>>

-----------------------------------------------------------------------------
(* ArtifactStore.delete. *)

(* A pinned reference: get() has to find the revision under that name. *)
BeginDelete(p, r) ==
  /\ p \in Deleters
  /\ Visible(r)
  /\ Call(p, [NoJob EXCEPT !.task = "delete", !.name = lineage[r], !.rev = r,
                           !.todo = {r}], "open_tree")
  /\ UNCHANGED <<disk, history>>

(* An unpinned one: every revision of the name is listed first. *)
BeginDeleteAll(p, n) ==
  /\ p \in Deleters
  /\ Call(p, [NoJob EXCEPT !.task = "delete_all", !.name = n], "list")
  /\ UNCHANGED <<disk, history>>

(* ArtifactStore.list: the directories that have a manifest ...            *)
ListRevisions(p) ==
  /\ Goto(p, "list", "manifests")
  /\ job' = [job EXCEPT ![p].todo = {r \in Revisions : Visible(r)}]
  /\ UNCHANGED <<disk, history>>

(* ... and then the manifest of each, which raises for one that is gone by *)
(* then, whatever its lineage. What is left is ArtifactStore.revisions.    *)
Remaining(p) == {r \in job[p].todo : lineage[r] = job[p].name}

ManifestGone(p) ==
  /\ \E r \in job[p].todo : ~Visible(r)
  /\ End(p, "manifests")
  /\ UNCHANGED <<disk, history>>

(* delete of a name: nothing fitted under it is an error. *)
PickVictims(p) ==
  /\ job[p].task = "delete_all"
  /\ \A r \in job[p].todo : Visible(r)
  /\ \/ /\ Remaining(p) # {}
        /\ Goto(p, "manifests", "open_tree")
        /\ job' = [job EXCEPT ![p].todo = Remaining(p)]
     \/ /\ Remaining(p) = {}
        /\ End(p, "manifests")
  /\ UNCHANGED <<disk, history>>

(* Mutants of FollowAlias: the alias of the last revision is left behind, *)
(* and the alias is removed while others remain.                          *)
FollowAliasOnlyToOthers(p) ==
  /\ job[p].task = "delete"
  /\ \A r \in job[p].todo : Visible(r)
  /\ \/ \E newest \in Remaining(p) :
          /\ \A r \in Remaining(p) : r <= newest
          /\ Goto(p, "manifests", "check")
          /\ job' = [job EXCEPT ![p].rev = newest, ![p].todo = {}]
     \/ Remaining(p) = {} /\ End(p, "manifests")
  /\ UNCHANGED <<disk, history>>

DropAlias(p) ==
  /\ job[p].task = "delete"
  /\ Goto(p, "manifests", "unlink_alias")
  /\ UNCHANGED <<disk, job, history>>

(* delete of a revision: the alias is moved to the newest one left, or     *)
(* removed with the last.                                                  *)
FollowAlias(p) ==
  /\ job[p].task = "delete"
  /\ \A r \in job[p].todo : Visible(r)
  /\ \/ \E newest \in Remaining(p) :
          /\ \A r \in Remaining(p) : r <= newest
          /\ Goto(p, "manifests", "check")
          /\ job' = [job EXCEPT ![p].rev = newest, ![p].todo = {}]
     \/ /\ Remaining(p) = {}
        /\ Goto(p, "manifests", "unlink_alias")
        /\ job' = [job EXCEPT ![p].todo = {}]
  /\ UNCHANGED <<disk, history>>

(* shutil.rmtree reads the directory once, the oldest revision's first. A  *)
(* directory that is gone raises.                                          *)
OpenTree(p) ==
  /\ pc[p] = "open_tree"
  /\ \E r \in job[p].todo :
       /\ \A s \in job[p].todo : r <= s
       /\ \/ /\ place[r] = "models"
             /\ Goto(p, "open_tree", "unlink_files")
             /\ job' = [job EXCEPT ![p].rev = r, ![p].listing = files[r]]
             /\ doomed' = doomed \cup {r}
          \/ /\ place[r] # "models"
             /\ End(p, "open_tree")
             /\ UNCHANGED doomed
  /\ UNCHANGED <<disk, published>>

(* The files it read go one by one, in whatever order they were listed.    *)
UnlinkFile(p, f) ==
  /\ f \in job[p].listing
  /\ f \in files[job[p].rev]
  /\ Goto(p, "unlink_files", "unlink_files")
  /\ job' = [job EXCEPT ![p].listing = @ \ {f}]
  /\ files' = [files EXCEPT ![job[p].rev] = @ \ {f}]
  /\ UNCHANGED <<minted, place, lineage, alias, history>>

(* A file somebody else has removed since raises, and nothing more is done. *)
FileGone(p, f) ==
  /\ f \in job[p].listing
  /\ f \notin files[job[p].rev]
  /\ End(p, "unlink_files")
  /\ UNCHANGED <<disk, history>>

(* The empty directory goes last, and raises if somebody else removed it.  *)
RemoveDirectory(p) ==
  LET r    == job[p].rev
      left == job[p].todo \ {r}
  IN
  /\ pc[p] = "unlink_files"
  /\ job[p].listing = {}
  /\ \/ /\ place[r] = "models"
        /\ place' = [place EXCEPT ![r] = "none"]
        /\ Goto(p, "unlink_files", IF left # {} THEN "open_tree"
                                   ELSE IF job[p].task = "delete" THEN "list"
                                   ELSE "unlink_alias")
        /\ job' = [job EXCEPT ![p].todo = left]
     \/ /\ place[r] # "models"
        /\ End(p, "unlink_files")
        /\ UNCHANGED place
  /\ UNCHANGED <<minted, files, lineage, alias, history>>

UnlinkAlias(p) ==
  /\ End(p, "unlink_alias")
  /\ alias' = [alias EXCEPT ![job[p].name] = NoRevision]
  /\ UNCHANGED <<minted, place, files, lineage, history>>

-----------------------------------------------------------------------------
(* Engine.forecast: resolve a reference, then load what it names.          *)

(* A reference that pins nothing goes through the alias. *)
BeginForecast(p, n) ==
  /\ p \in Forecasters
  /\ Call(p, [NoJob EXCEPT !.task = "forecast", !.name = n], "resolve")
  /\ UNCHANGED <<disk, history>>

(* A pinned reference does not. (A handle skips the manifest as well; the  *)
(* recipe step reads it again either way.)                                 *)
BeginPinnedForecast(p, r) ==
  /\ p \in Forecasters
  /\ Call(p, [NoJob EXCEPT !.task = "forecast", !.rev = r], "manifest")
  /\ UNCHANGED <<disk, history>>

(* ArtifactStore.alias: a missing file, an unreadable one and one that     *)
(* points at nothing are three refusals.                                   *)
Resolves(n) == alias[n] \in Revisions /\ Visible(alias[n])

ResolveAlias(p) ==
  /\ pc[p] = "resolve"
  /\ \/ /\ Resolves(job[p].name)
        /\ Goto(p, "resolve", "manifest")
        /\ job' = [job EXCEPT ![p].rev = alias[job[p].name]]
     \/ /\ ~Resolves(job[p].name)
        /\ Goto(p, "resolve", "refused")
        /\ UNCHANGED job
  /\ UNCHANGED <<disk, history>>

(* A read that finds its file moves on, and refuses the call otherwise. *)
Read(p, file, from, to) ==
  LET found == Visible(job[p].rev) /\ file \in files[job[p].rev] IN
  Goto(p, from, IF found THEN to ELSE "refused")

(* ArtifactStore.get: the manifest of the revision. *)
ReadManifest(p) ==
  /\ Read(p, "manifest", "manifest", "recipe")
  /\ UNCHANGED <<disk, job, history>>

(* Mutant of ReadRecipe: the unpinned reference is resolved once more. *)
ReadRecipeByName(p) ==
  /\ Read(p, "recipe", "recipe", "read_transforms")
  /\ job' = [job EXCEPT ![p].recipe =
               IF job[p].name \in Names /\ Resolves(job[p].name)
               THEN alias[job[p].name] ELSE job[p].rev]
  /\ UNCHANGED <<disk, history>>

(* ArtifactStore.read, by the handle's own pinned reference. *)
ReadRecipe(p) ==
  /\ Read(p, "recipe", "recipe", "read_transforms")
  /\ job' = [job EXCEPT ![p].recipe = job[p].rev]
  /\ UNCHANGED <<disk, history>>

(* read_state: no file means that nothing was fitted, so nothing is applied. *)
ReadTransforms(p) ==
  /\ Goto(p, "read_transforms", "read_state")
  /\ job' = [job EXCEPT ![p].applied = "transforms" \in files[job[p].rev]]
  /\ UNCHANGED <<disk, history>>

(* provider.forecast loads what provider.fit persisted. It is handed the   *)
(* directory and looks for nothing but its own state.                      *)
ReadState(p) ==
  /\ Goto(p, "read_state",
          IF "state" \in files[job[p].rev] THEN "answered" ELSE "refused")
  /\ UNCHANGED <<disk, job, history>>

Return(p) ==
  /\ \/ End(p, "answered")
     \/ End(p, "refused")
  /\ UNCHANGED <<disk, history>>

-----------------------------------------------------------------------------
(* The process dies in a call and is started again, or a write it did not   *)
(* expect to fail raised (stage() aborts nothing once the fit is over).     *)
(* What is on disk stays there.                                             *)
Die(p) ==
  /\ p \in Mortals
  /\ pc[p] # "idle"
  /\ pc' = [pc EXCEPT ![p] = "idle"]
  /\ job' = [job EXCEPT ![p] = NoJob]
  /\ UNCHANGED <<disk, history>>

Fit(p) ==
  \/ \E n \in Names : BeginFit(p, n, "fit") \/ BeginFit(p, n, "fit_quietly")
  \/ WriteTransforms(p) \/ FitSucceeds(p) \/ FitFails(p)
  \/ WriteMetadata(p) \/ Publish(p)

Select(p) ==
  \/ \E n \in Names, r \in Revisions : r <= minted /\ BeginSelect(p, n, r)
  \/ CheckTarget(p) \/ TruncateAlias(p) \/ WriteAlias(p)

Delete(p) ==
  \/ \E r \in Revisions : BeginDelete(p, r)
  \/ \E n \in Names : BeginDeleteAll(p, n)
  \/ ListRevisions(p) \/ ManifestGone(p) \/ PickVictims(p) \/ FollowAlias(p)
  \/ OpenTree(p)
  \/ \E f \in Files : UnlinkFile(p, f) \/ FileGone(p, f)
  \/ RemoveDirectory(p) \/ UnlinkAlias(p)

Forecast(p) ==
  \/ \E n \in Names : BeginForecast(p, n)
  \/ \E r \in Revisions : r <= minted /\ BeginPinnedForecast(p, r)
  \/ ResolveAlias(p) \/ ReadManifest(p) \/ ReadRecipe(p)
  \/ ReadTransforms(p) \/ ReadState(p) \/ Return(p)

Next == \E p \in Procs : Fit(p) \/ Select(p) \/ Delete(p) \/ Forecast(p) \/ Die(p)

Spec == Init /\ [][Next]_vars

-----------------------------------------------------------------------------
(* What has to hold whatever the processes do and whenever they die.       *)

(* A published revision that nobody has begun to delete holds everything   *)
(* its fit wrote: "Nothing is published until the fit has succeeded".      *)
PublishedIsComplete ==
  \A r \in published \ doomed : place[r] = "models" /\ files[r] = Complete(r)

(* A name means a revision that was published under that name: set_alias   *)
(* checks the lineage some steps before it writes.                         *)
AliasInLineage ==
  \A n \in Names : alias[n] \in Revisions =>
    alias[n] \in published /\ lineage[alias[n]] = n

(* A revision is immutable: once published, nothing is added to it, it does *)
(* not move to another lineage, and it loses files to a deletion only.     *)
Immutable ==
  [][\A r \in published :
       /\ files'[r] \subseteq files[r]
       /\ lineage'[r] = lineage[r]
       /\ (files'[r] # files[r] => r \in doomed)]_vars

(* A forecast that is answered used the recipe and the transforms of the   *)
(* revision it resolved, however the alias moved in the meantime, unless   *)
(* that revision was being deleted.                                        *)
Faithful(p) ==
  /\ job[p].recipe = job[p].rev
  /\ job[p].applied = (job[p].rev \in Transformed)

AnsweredFromOneRevision ==
  \A p \in Procs : pc[p] = "answered" /\ job[p].rev \notin doomed => Faithful(p)

(* The same with no exception: what a reader of the module's docstring is  *)
(* told of a revision that is still resolvable.                            *)
AnsweredIsFaithful ==
  \A p \in Procs : pc[p] = "answered" => Faithful(p)

(* Between two calls a name that has an alias can be forecast with: no     *)
(* alias is left on a revision that a delete has removed.                  *)
AliasResolvesAtRest ==
  (\A p \in Procs : pc[p] = "idle") =>
    \A n \in Names : alias[n] # NoRevision => Resolves(n)

(* The alias of a name is removed only when no revision of it is left.     *)
AliasOutlivesItsLineage ==
  [][\A n \in Names : alias[n] # NoRevision /\ alias'[n] = NoRevision =>
       ~\E r \in Revisions : Visible(r) /\ lineage[r] = n]_vars

(* delete moves an alias only if that alias pointed at what it deleted: it *)
(* leaves alone one that still means another revision.                     *)
DeleteMovesOnlyItsAlias ==
  [][\A p \in Procs :
       /\ job[p].task = "delete"
       /\ pc[p] = "truncate" /\ pc'[p] = "write"
       /\ Resolves(job[p].name)
       => alias[job[p].name] = job[p].rev]_vars

-----------------------------------------------------------------------------
(* The promise the store implements. An alias that cannot be read is       *)
(* silent, and a revision stops resolving with its manifest.               *)
StatusOf(r) ==
  IF r \notin published THEN "unborn" ELSE IF Visible(r) THEN "live" ELSE "deleted"

Lineage == INSTANCE RevisionLineage WITH
  status  <- [r \in Revisions |-> StatusOf(r)],
  family  <- [r \in Revisions |-> IF r \in published THEN lineage[r] ELSE NoName],
  pointer <- [n \in Names |-> IF alias[n] = Torn THEN NoRevision ELSE alias[n]]

(* Whatever is interleaved and whoever dies, what a reference means changes *)
(* only in the ways RevisionLineage allows.                                *)
ImplementsLineage == Lineage!Spec
=============================================================================
