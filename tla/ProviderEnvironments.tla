------------------------ MODULE ProviderEnvironments ------------------------
(***************************************************************************)
(* Installing, upgrading and removing one provider's environment           *)
(* (runtime/environments.py), as the processes that share the cache see it.*)
(*                                                                         *)
(*     .tmp/<name>/             staging, named after the provider          *)
(*     <name>/<version>/        installed[v]                               *)
(*                                                                         *)
(* A directory holds a virtual environment and environment.json. Every     *)
(* attempt builds an environment of its own, numbered here: venv is the    *)
(* build that is in a directory, record the build that environment.json    *)
(* describes, 0 for neither. What a build answers to a handshake is its    *)
(* version. shutil.rmtree takes the two entries one by one, in any order,  *)
(* and the one that ignores errors is taken to have none. Whatever else    *)
(* install and remove ask of the disk or of uv may fail at any time.       *)
(***************************************************************************)
EXTENDS Naturals

CONSTANTS
  Procs,      (* the processes that install and remove                     *)
  Mortals,    (* those that may die at any step                            *)
  Versions,   (* the versions a source may turn out to be                  *)
  NoVersion,
  MaxBuilds   (* how many environments may be built; bounds runs           *)

ASSUME EnvironmentAssumption ==
  /\ Mortals \subseteq Procs
  /\ NoVersion \notin Versions
  /\ MaxBuilds \in Nat

Builds == 1 .. MaxBuilds
Directory == [there : BOOLEAN, venv : Builds \cup {0}, record : Builds \cup {0}]
NoDirectory == [there |-> FALSE, venv |-> 0, record |-> 0]

VARIABLES
  builds,      (* how many environments were built                         *)
  version,     (* the version each build answers with                      *)
  staging,
  installed,
  pc,
  told,        (* the build each install has probed, or 0                  *)
  retiring,    (* the versions each install or removal is to delete        *)
  interrupted  (* history: a call died, or a removal raised, half way      *)

disk == <<builds, version, staging, installed>>
vars == <<disk, pc, told, retiring, interrupted>>

Steps == {"idle", "mkdir", "build", "probe", "record", "evict", "rename",
          "siblings", "retire", "remove"}

TypeOK ==
  /\ builds \in 0 .. MaxBuilds
  /\ version \in [Builds -> Versions \cup {NoVersion}]
  /\ staging \in Directory
  /\ installed \in [Versions -> Directory]
  /\ pc \in [Procs -> Steps]
  /\ told \in [Procs -> Builds \cup {0}]
  /\ retiring \in [Procs -> SUBSET Versions]
  /\ interrupted \in BOOLEAN

Init ==
  /\ builds = 0
  /\ version = [b \in Builds |-> NoVersion]
  /\ staging = NoDirectory
  /\ installed = [v \in Versions |-> NoDirectory]
  /\ pc = [p \in Procs |-> "idle"]
  /\ told = [p \in Procs |-> 0]
  /\ retiring = [p \in Procs |-> {}]
  /\ interrupted = FALSE

Goto(p, from, to) ==
  /\ pc[p] = from
  /\ pc' = [pc EXCEPT ![p] = to]

(* What list() yields: the versions that have a record. *)
Discovered == {v \in Versions : installed[v].record # 0}

(* Where an install is going: the version the handshake reported. *)
Target(p) == version[told[p]]

(* One step of shutil.rmtree: an entry, or the directory once it is empty. *)
Shrink(dir) ==
  IF dir.venv = 0 /\ dir.record = 0 THEN {NoDirectory}
  ELSE {d \in {[dir EXCEPT !.venv = 0], [dir EXCEPT !.record = 0]} : d # dir}

-----------------------------------------------------------------------------
(* install *)

(* Mutant of Begin: the installed versions are cleared away first. *)
BeginAfresh(p) ==
  /\ Goto(p, "idle", "mkdir")
  /\ staging' = NoDirectory
  /\ installed' = [v \in Versions |-> NoDirectory]
  /\ UNCHANGED <<builds, version, told, retiring, interrupted>>

(* Whatever is in the staging directory of that name goes.                 *)
Begin(p) ==
  /\ Goto(p, "idle", "mkdir")
  /\ staging' = NoDirectory
  /\ UNCHANGED <<builds, version, installed, told, retiring, interrupted>>

MakeStaging(p) ==
  /\ Goto(p, "mkdir", "build")
  /\ ~staging.there
  /\ staging' = [NoDirectory EXCEPT !.there = TRUE]
  /\ UNCHANGED <<builds, version, installed, told, retiring, interrupted>>

(* Somebody else may have made it since. Nothing is cleaned up then: it is *)
(* not inside the try.                                                     *)
MakeStagingFails(p) ==
  /\ Goto(p, "mkdir", "idle")
  /\ UNCHANGED <<disk, told, retiring, interrupted>>

(* An exception inside the try removes whatever the staging directory holds. *)
Abort(p, from) ==
  /\ Goto(p, from, "idle")
  /\ staging' = NoDirectory
  /\ told' = [told EXCEPT ![p] = 0]
  /\ UNCHANGED <<builds, version, installed, retiring, interrupted>>

(* uv venv and uv pip install. *)
Build(p) ==
  /\ Goto(p, "build", "probe")
  /\ builds < MaxBuilds
  /\ builds' = builds + 1
  /\ \E v \in Versions : version' = [version EXCEPT ![builds + 1] = v]
  /\ staging' = [staging EXCEPT !.there = TRUE, !.venv = builds + 1]
  /\ UNCHANGED <<installed, told, retiring, interrupted>>

BuildFails(p) == Abort(p, "build")

(* Mutant of Probe: what was answered the first time is good enough. *)
ProbeOnce(p) ==
  /\ Goto(p, "probe", "record")
  /\ staging.venv # 0
  /\ told' = [told EXCEPT ![p] = 1]
  /\ UNCHANGED <<disk, retiring, interrupted>>

(* Whoever is in the staging directory answers the handshake. *)
Probe(p) ==
  /\ Goto(p, "probe", "record")
  /\ staging.venv # 0
  /\ told' = [told EXCEPT ![p] = staging.venv]
  /\ UNCHANGED <<disk, retiring, interrupted>>

ProbeFails(p) == Abort(p, "probe")

WriteRecord(p) ==
  /\ Goto(p, "record", "evict")
  /\ staging.there
  /\ staging' = [staging EXCEPT !.record = told[p]]
  /\ UNCHANGED <<builds, version, installed, told, retiring, interrupted>>

RecordFails(p) == Abort(p, "record")

(* _publish: the same version goes first, ...                              *)
Evict(p) ==
  /\ Goto(p, "evict", "evict")
  /\ installed[Target(p)].there
  /\ \E d \in Shrink(installed[Target(p)]) :
       installed' = [installed EXCEPT ![Target(p)] = d]
  /\ UNCHANGED <<builds, version, staging, told, retiring, interrupted>>

Evicted(p) ==
  /\ Goto(p, "evict", "rename")
  /\ ~installed[Target(p)].there
  /\ UNCHANGED <<disk, told, retiring, interrupted>>

(* ... then the staged directory takes its place, ...                      *)
Rename(p) ==
  /\ Goto(p, "rename", "siblings")
  /\ staging.there
  /\ installed[Target(p)].venv = 0 /\ installed[Target(p)].record = 0
  /\ installed' = [installed EXCEPT ![Target(p)] = staging]
  /\ staging' = NoDirectory
  /\ UNCHANGED <<builds, version, told, retiring, interrupted>>

(* The version that was evicted is gone by then. *)
RenameFails(p) == Abort(p, "rename")

(* Mutant of ListSiblings: the older versions are left. *)
KeepSiblings(p) ==
  /\ Goto(p, "siblings", "retire")
  /\ UNCHANGED <<disk, told, retiring, interrupted>>

(* ... and the other versions go.                                          *)
ListSiblings(p) ==
  /\ Goto(p, "siblings", "retire")
  /\ retiring' = [retiring EXCEPT ![p] =
                    {v \in Versions \ {Target(p)} : installed[v].there}]
  /\ UNCHANGED <<disk, told, interrupted>>

Retire(p) ==
  /\ Goto(p, "retire", "retire")
  /\ \E v \in retiring[p] :
       /\ installed[v].there
       /\ \E d \in Shrink(installed[v]) : installed' = [installed EXCEPT ![v] = d]
  /\ UNCHANGED <<builds, version, staging, told, retiring, interrupted>>

Retired(p) ==
  /\ Goto(p, "retire", "retire")
  /\ \E v \in retiring[p] :
       /\ ~installed[v].there
       /\ retiring' = [retiring EXCEPT ![p] = @ \ {v}]
  /\ UNCHANGED <<disk, told, interrupted>>

Installed(p) ==
  /\ Goto(p, "retire", "idle")
  /\ retiring[p] = {}
  /\ told' = [told EXCEPT ![p] = 0]
  /\ UNCHANGED <<disk, retiring, interrupted>>

-----------------------------------------------------------------------------
(* remove: the directory of the provider, with every version in it.        *)

BeginRemove(p) ==
  /\ Goto(p, "idle", "remove")
  /\ Discovered # {}
  /\ retiring' = [retiring EXCEPT ![p] = {v \in Versions : installed[v].there}]
  /\ UNCHANGED <<disk, told, interrupted>>

Remove(p) ==
  /\ Goto(p, "remove", "remove")
  /\ \E v \in retiring[p] :
       /\ installed[v].there
       /\ \E d \in Shrink(installed[v]) :
            /\ installed' = [installed EXCEPT ![v] = d]
            /\ retiring' = [retiring EXCEPT ![p] = IF d.there THEN @ ELSE @ \ {v}]
  /\ UNCHANGED <<builds, version, staging, told, interrupted>>

(* Unlike install, it lets an entry that cannot be removed, or is gone     *)
(* already, raise.                                                         *)
RemoveFails(p) ==
  /\ Goto(p, "remove", "idle")
  /\ retiring[p] # {}
  /\ retiring' = [retiring EXCEPT ![p] = {}]
  /\ interrupted' = TRUE
  /\ UNCHANGED <<disk, told>>

Removed(p) ==
  /\ Goto(p, "remove", "idle")
  /\ retiring[p] = {}
  /\ UNCHANGED <<disk, told, retiring, interrupted>>

Die(p) ==
  /\ p \in Mortals
  /\ pc[p] # "idle"
  /\ pc' = [pc EXCEPT ![p] = "idle"]
  /\ told' = [told EXCEPT ![p] = 0]
  /\ retiring' = [retiring EXCEPT ![p] = {}]
  /\ interrupted' = TRUE
  /\ UNCHANGED disk

Install(p) ==
  \/ Begin(p) \/ MakeStaging(p) \/ MakeStagingFails(p)
  \/ Build(p) \/ BuildFails(p) \/ Probe(p) \/ ProbeFails(p)
  \/ WriteRecord(p) \/ RecordFails(p) \/ Evict(p) \/ Evicted(p) \/ Rename(p) \/ RenameFails(p)
  \/ ListSiblings(p) \/ Retire(p) \/ Retired(p) \/ Installed(p)

Next ==
  \E p \in Procs :
    \/ Install(p)
    \/ BeginRemove(p) \/ Remove(p) \/ RemoveFails(p) \/ Removed(p)
    \/ Die(p)

Spec == Init /\ [][Next]_vars

-----------------------------------------------------------------------------
(* "Nothing is written down that the provider did not itself say": the     *)
(* record of an installed environment is what its own venv answered, and   *)
(* it is where that says it is. (The record of a half-removed environment  *)
(* may have outlived its venv.)                                            *)
RecordsAreTrue ==
  \A v \in Discovered :
    /\ version[installed[v].record] = v
    /\ installed[v].venv \in {0, installed[v].record}

Idle == \A p \in Procs : pc[p] = "idle"
Runnable == {v \in Discovered : installed[v].venv # 0}

(* An install that returns leaves the version it built and no other,       *)
(* whatever earlier calls that died have left in its way; and unless a call *)
(* died or a removal raised, installs and removals, failed ones included,  *)
(* leave at most one version, which can be started.                        *)
InstallRepairs ==
  /\ \A p \in Procs : pc[p] = "retire" /\ retiring[p] = {} =>
       /\ \A v \in Versions : installed[v].there => v = Target(p)
       /\ installed[Target(p)] = [there |-> TRUE, venv |-> told[p], record |-> told[p]]
  /\ Idle /\ ~interrupted =>
       /\ Discovered = Runnable
       /\ \A v, w \in Versions : installed[v].there /\ installed[w].there => v = w

(* An upgrade leaves no gap: a provider that can be discovered and started *)
(* stays so at every step, except in remove() and while a version is       *)
(* replaced by the same version.                                           *)
UpgradeLeavesNoGap ==
  [][Runnable # {} /\ Runnable' = {} =>
       \E p \in Procs : \/ pc[p] = "remove"
                        \/ pc[p] = "evict" /\ Runnable = {Target(p)}]_vars
=============================================================================
