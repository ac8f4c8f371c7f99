# OpenForecast in TLA+

A verification project for OpenForecast: TLA+ modules for the parts of it that
keep state between steps, TLC configurations that check them on small instances,
and TLAPS proofs of what matters most for every instance. `PROJECT.json` lists the
components, runs, mutants, theorems and hazards, and says which lines of the
source each definition models. Paths below are relative to `src/src/openforecast/`.

## The system

| Component | State it keeps | Operations | What is hard about it |
|---|---|---|---|
| Artifact store, `artifacts/store.py` | directories `.tmp/<id>`, `models/<id>`, files `aliases/<name>.json` | stage, commit, publish, abort, get, read, list, set_alias, delete | no locks; several processes; a crash or an I/O error at any step; an alias is written in place |
| Engine, `runtime/engine.py`, `runtime/transforms.py` | none beyond a call | fit, forecast | reads an artifact in five steps while others may delete it or move its alias |
| Subprocess provider, `runtime/subprocess.py` | child process, line queue, what was recorded of the provider | start, handshake, exchange, fail, kill, close | a child that dies, mutters, stays silent or answers late; pump threads that outlive it; responses without ids |
| Provider server, `providers/serve.py` | none beyond a request | handshake, fit, forecast | libraries that write to the protocol's file descriptor |
| Provider environments, `runtime/environments.py` | `.tmp/<name>`, `<name>/<version>` with a venv and a record | install, remove, list | upgrade is publish-then-retire, every step may fail or be the last |
| Registries and catalog, `runtime/provider.py`, `registry/`, `models/catalog.py` | dictionaries filled at start | register, resolve | one name, one provider |
| Point-in-time data, `data/` | immutable frames | at_origin, up_to, with_lead_time | nothing may be used before it was known; vintages revise each other; instances start at different times; gaps |
| Views and planner, `views/` | immutable views | fit_view, forecast_view | windows at the edges of history and vintage; observed features masked per sample |
| Tasks and origins, `tasks/` | values | select | closed and open bounds |
| Recipes, `recipes/`, and fitted transforms, `runtime/transforms.py` | statistics in `transforms.json` | leaves, weights; fit, apply, invert, write, read | member order is the order of state directories and training records; scales must be undone per member and in reverse |
| Model vocabulary, `models/` | immutable values | the checks of a request against a descriptor | a descriptor is all the engine knows before it starts a provider |
| Backtesting, `evaluation/` | rows of a result | backtest, folds, eligibility | a refit per fold, each on what was known then; any step may raise after others have published |
| Metrics and results, `evaluation/metrics.py`, `predictions.py`, `result.py` | the metric and the prediction table | measure, metrics_by, leaderboard, best | nulls, partial forecasts, labels that clash; the tables must say the same |
| Built-in and native providers, `providers/`; integrations, `src/integrations/` | the state of a fitted model in its directory | descriptors, fit, forecast | every library has a layout of its own; answers come back by place or by label, and a model may be asked long after its fit |
| Service, transports and client, `server/`, `client.py`, `errors.py` | one engine per service | the engine's, over HTTP | endpoints run in worker threads that share the engine and its providers; callers that give up; failures that must mean the same on the other side |
| Commands, docs generators | none of their own | | I/O and text |

The client calls the engine, in its own process or through HTTP. The engine
resolves a reference in the registries or the store, materializes a view, and
calls a provider through `ProviderClient`: built in, or a `SubprocessProvider` that
was found by its environment's record. A fit happens inside `store.stage`, so the
provider writes into a staging directory and the store publishes it by a rename.
Processes meet in the two directories on disk; threads of one service meet in
the provider objects.

For the store the properties that make it correct are: published revisions are
whole and do not change, an alias means a revision of its own lineage, and a
forecast uses one revision. For the wire: calls return, answers reach the request
they answer, no child is leaked, only a verified child executes. For the
environments: what is discoverable is what runs, one version at a time, and a failed
install costs nothing. For the data, its views and the backtests on them: no fit and
no forecast uses what was not known at its origin, no artifact is scored on what it
learned from, and the rows of a result can be compared. For the engine: what can be
refused is refused before anything runs, every member of a recipe is asked as it was
trained, and the combined forecast is complete, on the caller's scale and weighted as
written. For the models: a number is of the instance and the moment it is labelled
with, and a descriptor says neither more nor less than the model does. For results:
every metric can be derived from the predictions beside it, and the winner can be
used. For the service: what a caller is told is true of what was published, and an
error means the same wherever the work was done.

## Modules

**`ArtifactStore`** models the store and the engine's use of it. `place`, `files` and
`lineage` are the revision directories, `alias` the alias files (`Torn` is a
truncated one), `pc` and `job` the call each process is in. There is one action per
filesystem operation another process can observe:

| Code | Actions |
|---|---|
| `Engine.fit` in `stage`, `commit`, `publish` | `BeginFit`, `WriteTransforms`, `FitSucceeds` or `FitFails`, `WriteMetadata`, `Publish` |
| `set_alias` | `BeginSelect`, `CheckTarget`, `TruncateAlias`, `WriteAlias`; `Publish` and `FollowAlias` go on to the same steps |
| `delete` | `BeginDelete` or `BeginDeleteAll`, `ListRevisions`, `ManifestGone`, `PickVictims` or `FollowAlias`, `OpenTree`, `UnlinkFile`, `FileGone`, `RemoveDirectory`, `UnlinkAlias` |
| `Engine.forecast`, `get`, `read`, `read_state` | `BeginForecast` or `BeginPinnedForecast`, `ResolveAlias`, `ReadManifest`, `ReadRecipe`, `ReadTransforms`, `ReadState`, `Return` |
| a crash, or an I/O error that nothing handles | `Die` |

`published` and `doomed` are history variables the properties speak about and no
guard reads. The three metadata files are one step because nobody reads `.tmp`;
`recipe.json` and `schema.json` are one file because they are read together.
Revisions are numbered by age, as their ULIDs sort when they are drawn in different
milliseconds.

**`RevisionLineage`** is what the store promises, without files or processes:
revisions are born into a lineage, live and die, and a name points at one of its
lineage or at nothing. `ArtifactStore` implements it under `Lineage`, which hides a
revision until its rename and reads an alias that is torn as one that points at
nothing.

**`ProviderWire`** models both ends of the pipes to a child, and the threads that pump
the child's output into the queue the caller reads. Children are numbered as they
are spawned; `stdin` and `out` are their pipes, `queue` is the queue of the last
start and `feeder` the child whose pump was started with it. Lines of an earlier
child go to a queue nobody reads and vanish, but its end of output goes to the queue
of the moment, because the callback looks the attribute up when it runs. The `to` of
a line is the model's own: a response does not say what it answers, so `TakeAnswer`
does not look at it. A handshake's result does differ from others, and `Accept` and
`Refuse` tell them apart as validation does. `Callers` is a set, because worker
threads of the service share one provider without a lock.

**`ProviderCalls`** is what the engine expects of any provider: a call is asked once,
performed at most once, and ends in a success only if it was performed.
`ProviderWire` implements it with one caller.

**`ProviderEnvironments`** models install, remove and discovery over the two kinds of
directory. Environments are numbered as they are built, so that `venv` and `record`
can be told apart when they stem from different builds. `shutil.rmtree` takes the two
entries one at a time in either order. `MakeStagingFails`, `BuildFails`, `ProbeFails`,
`RecordFails` and `RenameFails` are exceptions at those steps, `Die` a death at any.
`rmtree(..., ignore_errors=True)` is taken to meet no errors.

**`PointInTime`** is the two semantic sources as operators. A table is the set of its
rows, and a row stands for its values, so that the same cell in two vintages is two
rows and a property can say which of them was read. Constructors that refuse their
input are predicates (`IsFrame`, `IsDataset`, `HasContext`), operations are operators
(`FrameUpTo`, `UpTo`, `AtOrigin`, `ContextOf`), and what an operation refuses is again a
predicate (`FrameReaches`, `Reaches`). A row of a context's history carries the outcomes and the
feature values it was gathered from.

**`Views`** is the view planner: for each training contract, the samples of the view,
each with the rows its targets, known features and observed features were read from;
and the cells of a forecast view. `FrameSource` and `DatasetSource` are the two
sources the planner reads alike. A view that is refused is the empty set, which no
view that is built ever is.

**`Backtest`** is a feed and the backtest of what it collected. The feed has no code in
the repository: at each moment each instance may record an outcome, one without a
value, or none, and issue a vintage; it departs from its schedule at most `MaxIrregular` times,
which yields gaps, null outcomes, missing vintages and instances that start late.
`asKnown` remembers what the feed held after each moment, and no action reads it: it is what a caller
would have had at the time, and the fold properties compare folds against it. The
backtest's actions are:

| Code | Actions |
|---|---|
| `RollingOrigin.folds`, `ForecastOriginValidation.folds` | `StartRolling`, `StartOrigins`: all folds at once, or `Raise` |
| `_fit_for` with the engine's `fit_view` | `Fit`, `FitRaises` |
| `_measure`, `_predictions`, the loops of `backtest` | `Forecast` (with `Advance`), `ForecastRaises` |

A forecast has a prediction for every cell it was asked for, and may leave the value of some of them out: a null or a
NaN, for which the outcome is recorded and no error is computed. A pair is scored when the outcome and the
forecast are both there (`IsScorable`), so a candidate that leaves a value out has fewer pairs than its
neighbours. A candidate is a training contract with the origins and the context of its plan; a
pinned revision and a pretrained model are both "standing", for neither is fitted.
What a provider or the missing-value checks may refuse is `FitRaises` and
`ForecastRaises`, which are always possible.

**`Engine`** is `fit`, `forecast` and the screening of models for recipes of several
leaves, on **`Recipes`** (trees, leaves, weights), **`FittedTransforms`** (what is scaled
and what undoes it) and **`ModelDescriptors`** (declarations, requests, and the checks of the one
against the other). `catalogued` is what the process's catalog names and `installed` what the client
has providers for; `Open` is a client opened in this process or another one, which may
find other providers installed and starts from an empty catalog only in a new process.
`asked` is what providers were asked in the current call.

| Code | Actions |
|---|---|
| `install_default_providers` | `Open` |
| `Engine.fit`: references, transforms, `_materialize` of every leaf, then the providers in `stage` | `BeginFit`, `Prepare`, `FitLeaf` or `FitLeafRaises` |
| `Engine.forecast` of an artifact: `_fitted`, `_answer` per leaf, `_combine` | `BeginForecast`, `Ask`, `TooShort` or `AskRaises` |
| `Engine.forecast` of a pretrained model | `BeginZeroShot`, `ZeroShot` or `ZeroShotRaises` |

A number is not computed: of a value the model keeps the share each leaf has in it, as a
fraction, and the statistics it was scaled by and not yet unscaled. Answers of a provider are what
was asked for, or, at most `MaxDepartures` times, rows too few, too many, of another
kind or without a value. `Engine` says nothing of files; `ArtifactStore` says the same calls file by
file, for one model.

**`ModelAnswers`** composes the planner of `Views` with the adapters of every provider of the
repository: `SeasonalNaive`, `NixtlaModels`, `DartsModels`, `SktimeModels`,
`SklearnModels`, `ChronosModel`. The adapters share **`ModelViews`**, what a library finds
in a view and answers with, and **`NativeParameters`**, how parameters are read off a constructor,
published, checked and put over defaults. Whatever a library sorts is a set taken in an
order (`InOrder`): the future rows of a view, by instance or by event, and the rows of a series by their time,
in a view or in a table of predictions. A number is what it was worked out from:
the instance and the last moment looked at, and the moment it is meant for. The
libraries are external; they forecast what follows what they were given, as often as they
were asked, or fewer times.

| Code | Actions |
|---|---|
| an adapter's `fit`, from the view to the state it writes | `Fit`, `RefuseParameters` |
| a provider's memory and directory between calls | `Load`, `Discard` |
| an adapter's `forecast`, from the view to the rows | `Ask`, `AskRaises` |

**`Scores`** is a backtest seen from its result, on **`Metrics`**: which metric a request can be
scored by, what each measures, the prediction and the metric table, grouping, ranking and winner;
and what identifies a candidate: its label, the slug its artifacts are named by, its plan
and its settings. Folds are numbers and forecasts are any small integers, which is what
`Backtest` leaves out, as `Scores` leaves out what a fold is.

| Code | Actions |
|---|---|
| `_check_metrics`, `_candidates` | `Check` |
| `_standing`, `_fit_for` | `Fit`, or `SettingsRejected` |
| `_predictions`, `_measure` | `Forecast` |
| a fit or a forecast that raises | `Raises` |

**`Service`** is callers with an engine of their own and callers of a service over HTTP, on
**`Failures`**: the error classes by what they derive from, what a provider's process makes
of one, what the application's handler does, and what the transport raises from it.

| Code | Actions |
|---|---|
| `client.py`, before anything is sent | `RefusedHere`, `Ask` |
| `HttpTransport._call` | `Unreachable`, `GiveUp`, `Receive` |
| the engine, called by `LocalTransport` in either process | `Refuse`, `AskProvider`, `Complain`, `ProviderLost`, `Perform`, `Publish`, `Name`, `PublishFails`, `NameFails` |
| the end of the service's process | `ServiceDies` |

`urllib` reports a service that cannot be reached as `URLError`, but an answer that does
not come in time or a connection that breaks as builtin errors, which `_call` lets
through. A disk that fails before the rename is a builtin error and has published nothing
(`PublishFails`). After it, `set_alias` reads the manifest again and writes the name: it may fail with a builtin
error, or, where the manifest cannot be read or a deletion was faster, with an `UnknownModelError`, and the revision is
there all the same (`NameFails`). Deletions, and what two fits of one name do to each other, are `ArtifactStore`'s.

The modules whose names begin with `MC` are what TLC runs. The proofs of a module's theorems
are in the module of its name with `Proofs` at the end. `TypeOK` of `ProviderWire`, `ProviderEnvironments`,
`Backtest` and `Engine` says what their variables range over, for the reader and for the proofs; the runs
spend their properties on what could go wrong.

Operators whose comment starts with "Mutant of" are plausible bugs. None is used by a
specification; putting one in the place of the definition it belongs to has to make a
property fail, which shows that the property says something about that code.

## Runs

| Run | Instance | Shows |
|---|---|---|
| `store_concurrent` | 2 processes, 1 name, 2 revisions, one process mortal | publication, lineage, immutability and one-revision forecasts under every interleaving and a death at any step; the store implements `RevisionLineage` |
| `store_sequential` | 1 process, 2 names, 3 revisions, no death | between calls every alias resolves; an alias goes only with its lineage; no forecast is unfaithful |
| `wire_one_caller` | 1 caller, 3 calls, 2 children, 2 identities, at most 1 muttered line unread | calls return, no leaked child, both sides in step between calls, one verified identity, `ProviderCalls` implemented |
| `env_install` | 1 process, mortal, 2 versions, 3 builds | true records; an install repairs what deaths left, and leaves one version that runs; an upgrade leaves no gap |
| `backtest_folds` | 2 instances, one of them possibly late, moments 0 to 8 with an event every 2, horizon 2, at most 1 departure from schedule and 1 value left out by a forecast, 4 validations, 2 lists of 2 candidates | folds are as known at their origin, nothing scored was learned from, forecasts condition on one vintage, candidates are asked and measured alike and differ in pairs only by what their predictions show to be left out, a result is complete |
| `engine` | 12 recipes of up to three leaves over 3 fittable models and a pretrained one, 4 data sets, 4 outputs, 2 plans, 3 horizons, 2 calls, 1 departing answer, one provider installed or not | refusals come before any provider runs, artifacts are whole, models are asked as trained, forecasts are complete in their cells and in their levels or draws, weighted as written and on the caller's scale, screening agrees with fitting |
| `model_answers` | every adapter, 2 instances, 5 worlds of 6 moments (late, short, gapped, unmeasured), fits and forecasts at 2 moments, 2 origin selections, 2 horizons, 3 sets of features, 3 outputs, 12 bags of parameters, a class whose parameter has a name the recipe keeps for itself, state kept or reloaded | an answer is for its cell, complete, of what was known; a model learns its samples; levels do not cross; descriptors are true |
| `scores` | 17 calls of one or two candidates (clashing slugs, repeated labels, standing candidates, plans, pinned members), 3 sets of outcomes with nulls, absences and zeros, 7 lists of metrics, one value left out | the metric table follows from the prediction table, what was not refused is measured, the winner is reproducible |
| `service` | 1 local and 1 remote caller with an older build, 3 requests, 5 refusals, 5 complaints, providers in and out of process, a disk that fails before the rename or after it | what a caller is told is true of what was published; errors keep their meaning |

Two revisions are enough in `store_concurrent` for an alias to have somewhere to move
and for two fits, or a fit and a deletion, to overlap; a third revision and a second
name come in sequentially, where rollbacks need them. Only the number of fits is
bounded, not the number of other calls. Three calls and two children let a call be
followed by a call to the same child and by one to a new child. Three builds let a
version be replaced by itself, by another, and back after a death. Five events per
instance leave room for two folds with a horizon of two after an event to train on,
and for strides that make folds overlap; moments between two events are there for
vintages that are issued off the grid. One departure is enough for a gap, a null outcome
or a vintage issued off its schedule to meet every validation; a late instance comes
on top of it. One value left out, in any place of any forecast, is enough for two candidates at one fold to differ
in their pairs, and for an outcome that was not measured to be among those left out. Two calls of the engine are a fit and a forecast from it, between which clients
may be opened; three leaves are the fewest that nest one ensemble in another, and a
member with two transforms is the fewest whose order matters. Six moments leave two origins
with a context of two and a horizon of two on either side of a fit. Two candidates and two folds
are what it takes for rows to be mixed up, and three requests for a caller to give
up, ask again and be answered beside another one.

Further properties, each the words of a comment or docstring, are violated by
what the code does, and the runs that show it are kept as such:

* `store_delete_alias`: deleting a revision moves the alias even when it pointed
  elsewhere, after a rollback for instance.
* `wire_end_of_output`: the end of a killed child's output lands on the next child's
  queue, and kills that one.
* `wire_two_callers`: two threads take each other's answers, so a fit that was never
  performed is reported as a success.

The models also have behaviour that a reader may not expect, with no run of its own:

* A forecast that meets a deletion half way may find the state of the provider but no
  transforms any more, takes it that none were fitted, and answers on the wrong scale
  (`AnsweredIsFaithful` holds without concurrent deletions only).
* A child that answered the very first handshake with an error is kept.
* A death in the middle of an upgrade leaves two environments of one name, which the registry
  refuses until the next install.
* A rolling origin that falls into a gap of a frame is taken by the engine for the last event before
  it: the steps and the `origin_time` of its predictions disagree.
* Statistics per instance are written as JSON, so instance keys that are dates are not found again
  when they are read (`KeysSurvive = FALSE`: TLC then finds `AskedAsTrained` violated).
  The docstring of `apply_to_forecast_view` has "Scale an inference view the way the training view was
  scaled".
* The engine checks every member before it asks the first, but for two things: a member
  whose context is longer than the history (`TooShort`), and a provider the catalog still names
  and the client does not have; both are found when that member's turn comes.
* `supports_unseen_instances` and `origin_scope` of a descriptor are consulted by nobody, and an
  artifact's `provider_version` is recorded but not compared.
* The seasonal naive model repeats the tail of its fit, so after a gap in the history the
  season it counts from is out of phase; Chronos reads histories by position and does not ask whether they
  reach the origin.
* A plan or parameters on a candidate that is never fitted are refused only when that candidate is
  reached, after earlier ones were fitted and published; so is a MAPE of an outcome that is zero.
* A remote `ProviderError`, an `UnknownModelError` and any builtin error say nothing of whether a fit was published: a
  caller that retries may leave a second revision. The `UnknownModelError` comes of `set_alias`, after the rename:
  `publish` says of that rename that it "is the last thing that happens"
  (`src/src/openforecast/artifacts/store.py:195-196`), which it is not when a name is to be moved as well.
* A model may publish a parameter that no recipe can carry. The catalogs leave out the few names each integration sets
  itself (one, for sktime: `src/integrations/sktime/src/openforecast_sktime/catalog.py:82`), and a recipe refuses the
  eighteen of `recipes/nodes.py:67`; `window_length` of a class of sktime is published and refused.
* Rows of one fold may have different numbers of `pairs`, when a candidate's forecast leaves a value out.
  Nothing in the metric table says so but `pairs` itself.

`CHECK_DEADLOCK FALSE` stands in `backtest_folds`, `scores`, `engine` and `service`, whose behaviours end when
the backtest returns or raises, or when the bounded calls are used up. Every other run checks for deadlock.

## Fairness

Only `ProviderWire` states fairness: weak fairness of `Proceed(p)` for each caller, the
steps a caller takes inside a call. `Popen`, a write of one line and
`queue.get(timeout=...)` return whatever the child does, so a caller that can go on
does. Nothing is assumed of the child, of its pump, or of a user calling again.
`TimeOut` is enabled whenever no line is on the queue: how long the deadline is does
not matter to the property, that there is one does.

## Proofs

`ArtifactStoreProofs` proves for every number of processes, names and revisions, and
every distribution of roles among the processes:

* `TypeCorrect`, `NothingHalfPublished`, `AliasStaysInLineage` and
  `ForecastsUseOneRevision`: the invariants `TypeOK`, `PublishedIsComplete`,
  `AliasInLineage` and `AnsweredFromOneRevision`;
* `RevisionsAreImmutable`: the action property `Immutable`;
* `StoreImplementsLineage`: the refinement of `RevisionLineage`.

The only assumption is `StoreAssumption`, that roles are given to processes and that
the three sentinels are not values of what they stand beside. The invariants of
interest are not inductive. `IInv` adds what each process knows about
the revision it works on: a fitter owns an unpublished revision, in staging,
holding what its steps have written (`Staged`); a process about to write an alias
holds a revision that was published under that name (`Chosen`), which is what
carries the check of `set_alias` across the steps to its write; a process that
removes files has doomed the revision (`Removing`); no two fitters have one revision
(`Apart`); revisions that were not minted do not exist (`Unborn`); published ones are
not in staging (`Placed`). `DiskStep` sorts the actions by what they do to the disk,
and `EveryStepIsOne` shows that every step is of one of these kinds, so that each conjunct
is proved once per kind rather than once per action. `ForecastsUseOneRevision` adds an
invariant of its own for readers (`ReaderInv`): as long as its revision is not
doomed, what a reader has read so far is that revision's.

`BacktestProofs` proves for any instances, frequency, horizon, feed, validations and
candidates:

* `NoLookahead`: the invariant `FoldsAreAsKnown`. Its inductive part is `FeedInv`: what the
  feed held after moment t is what it holds now, cut at t. `FoldInv` then says of
  every fold that it was cut at its own origin, and `ContextOfThePast` that `AtOrigin` of
  the data cut at an origin is `AtOrigin` of the whole, so the two meet.
* `NothingScoredWasLearned`: the invariant `LearnedBeforeTheOrigin`. `FitViewLearnsUpTo` is
  about the planner alone: from a source of what happened up to t, every view of every
  contract has samples that learn from outcomes up to t, from their own
  vintage, and from observed features up to their own origin. `RunInv` and `ScoredInv`
  carry that from the fit to the prediction; they need that the fold being measured is one of the folds
  (`FoldIsOfThePending`), which comes down to a set of naturals having a least
  element (`LeastIsOneOfThem`).

* `ForecastsSpeakFromTheirOrigin`: the invariant `ForecastFromItsOrigin`. `FoldOriginInv` says of every
  fold what may be answered from it: nothing but its own vintage, steps that count from the last
  event of its context, and outcomes within the horizon.
* `CandidatesAreComparable` and `ReturnsAreComplete`: the invariants `RowsAreComparable` and
  `DoneIsComplete`. `ResultInv` says that there is one row for each candidate and fold that the run has
  passed and no other (`MeasuredInv`), that no two rows hold one artifact that was fitted
  (`ArtifactInv`), that what is asked and measured at one origin depends on nothing but the fold, and the pairs are what was
  measured less what the candidate left out (`SameInv`, with `Missed`), and that predictions are placed on the events of theirs (`PlacedInv`).

The assumptions are `PeriodAssumption` and `BacktestAssumption`: that numbers of steps,
windows and strides are positive, as the code's fields require, and that candidates and
validations are of the kinds there are.

`ServiceProofs` proves for any callers, local or remote, any older build, any refusals and any
number of requests:

* `AnswersAreTrue`: the invariant `AnswerTellsTheTruth`. What makes it inductive is `TruthInv`, which
  says it of what is still on its way as well: an error whose class the client's build knows, but for
  those of `LeavesItOpen`, is only ever sent of a request that is over and has published nothing, so a caller that
  waits, gives up or is told something else changes nothing about it. `ProgressInv` says that
  only fits are published, and that a published fit has but to be named.
* `MeaningIsKept`: the invariant `FailuresKeepTheirMeaning`. The facts about the classes of errors
  are proved from the table of what each derives from (`BasesByName`): which envelope a class is put
  into by the clauses in their order, and what the client raises from it, derive from what
  derived from the cause. `ServiceAssumption` says what an older
  build has to know: every class that the pipe carries or that a provider may raise.

`ProviderWireProofs` proves for any number of callers:

* `WireTypeCorrect`: `TypeOK`; and `OneIdentity`: the invariant `VerifiedAreKnown`, by `ChildInv`.

and, under the hypothesis `Alone`, that there is one caller:

* `NothingLeftRunning` and `StaysInStep`: the invariants `OneLiveChild` and `InStep`. `AloneInv` says what may
  be on the way between the two sides: nothing while the caller does not read, and else the one request
  it waits for or the one answer to it (`Awaiting`), among lines that answer nothing;
* `WireImplementsCalls`: the refinement of `ProviderCalls`, step by step.

`wire_two_callers` and `wire_end_of_output` show what comes of the three with two callers, so the
hypothesis cannot be dropped.

`ProviderEnvironmentsProofs` proves for any versions, any number of builds and a death at any step, under the
hypothesis that there is one process:

* `EnvironmentsTypeCorrect`: `TypeOK`;
* `RecordsStayTrue`, `InstallsRepair` and `UpgradesLeaveNoGap`: `RecordsAreTrue`, `InstallRepairs` and the
  action property `UpgradeLeavesNoGap`. `EnvInv` says what the staging directory holds at each step of an
  install (`StagingInv`), that what is to be retired is everything but the version just put in place
  (`RetiringInv`), and that without a death there is one version at most, which runs, but in the
  window between the rename and the retirement (`OneVersionInv`). With two processes, TLC finds each of these
  three violated: nothing locks the cache, and both build in one staging directory.

`ArtifactStoreProofs` proves in a section of its own, for any number of revisions and names:

* `ForecastsAreFaithful` and `AliasesMeanSomething`: the invariants `AnsweredIsFaithful` and
  `AliasResolvesAtRest`, under the hypothesis `OneAtATime`, that there is one process and it does not die.
  `RestInv` says that whatever was doomed is gone but for what is being removed, and that every name's alias
  means something, but for the name of a deletion that has begun;
* `AliasesAreTheLastToGo`: the action property `AliasOutlivesItsLineage`, of one process that may die at any
  step (`OneProcess`). `WorkInv` says what a deletion has still to remove, and what it knows when it
  removes the alias.

A concurrent deletion violates all three, and a death in the middle of one the two invariants.

`EngineProofs` proves for any recipes, however deep, any catalog, data, plans and outputs, and
providers that answer what they like:

* `EngineTypeCorrect`: `TypeOK`;
* `NoProviderIsStartedForNothing`, `ArtifactsAreWhole`, `ForecastsAreComplete` and `TheScreenIsTheFit`: the
  invariants `RefusedBeforeAnythingRuns`, `PublishedIsWhole`, `EveryCellIsAnswered` and
  `ScreenedAsFitted`. A forecast has a row for every cell and, over all of its cells, every level or draw that was asked
  for and no other. One cell of several may lack a level: the engine compares the levels of the whole answer
  (`src/src/openforecast/runtime/engine.py:749-765`), not of each cell;
* `ModelsAreAskedAsTrained` and `ForecastsAreScaledBack`: `AskedAsTrained` and `OnTheCallersScale`,
  under the hypothesis `KeysSurvive`, that instance keys are read back from JSON as they were written. Keys
  that are dates are not, and then both fail, so the hypothesis cannot be dropped;
* `EnsemblesFollowTheirWeights`: `SharesFollowTheWeights`, for any whole weights above zero.

The inductive invariant is `EngineInv`. During a fit (`FitInv`), what was prepared is the leaves of
the recipe in their order, each accepted by the checks of its contract, and the directory holds what was
written of those that were asked, each under its own path. So what is published was made by one call from
all of its leaves (`ArtifactInv`, with `MadeBy`), which is what a forecast then relies on (`AskInv`,
`ScaleInv`, `AnswersInv`).

The leaves of a recipe are defined by recursion over the recipe, and a recursive function is only
what its definition says if there is such a function. `Recursion` proves that there is, for `Leaves`, `Executable`
and `Shares`, since no recipe is among its own members, however deep (`RecipeAssumption`). The folds over lists that undo transforms and join leaves are unfolded
in the same way, by induction in the form of a least counterexample (`LeastNumber`): `UndoneInFull` is the lemma that
undoing all steps in reverse takes any value back to where it came from, whatever the steps
touch.

The shares of the models of a recipe are recursive twice, over the recipe and over the running totals of its
weights. `RecipesAreShared` says of every recipe that its shares are one for each leaf and add up to one:
`TotalOfJoined` and `TotalOfWeighted` take a total apart along the members, `NormalizedWeightsAddUp` says that
the weights of the members are fractions of one sum, and `PartOfJoined` finds the share of a member where
its leaves are. Fractions are compared as such (`SameShare`), since sums of them are not reduced. That a
forecast has the shares of its recipe is the invariant `SharedInv`.

`ModelAnswersProofs` proves for any frames of finitely many rows, any context, horizon and origins, any classes
the libraries have, any parameters and any number of steps a library answers:

* `ModelsAnswerForTheirCells`, `ModelsAnswerInFull`, `ModelsLookAtThePast`, `ModelsLearnTheirSamples` and
  `QuantilesDoNotCross`: the invariants `AnsweredForItsCell`, `AnsweredInFull`,
  `NothingFromAfterTheOrigin`, `LearnsItsSamples` and `LevelsDoNotCross`;
* `ModelsAnswerWhatTheyDeclare`: `AnswersWhatItDeclares`. A model refuses no forecast of a kind it declares while its
  library does its part, and no parameters that its published schema admits, but for a parameter under a name
  that belongs to the recipe. That exception is the code's: nothing keeps a catalog from publishing such a name,
  and the run has a class that does.

The assumptions on constants are `AnswersAssumption` and `PeriodAssumption`: frames are what their constructor
lets through, horizons and contexts are positive, and an output is one that `OutputSpec` allows.

The argument goes through what an answer is. `IsAnswer` says of rows that they are one for each instance,
step and part, each with a value of that instance, of nothing after the origin, and of the moment it is for where
the series is known to be whole. Every integration has one lemma, that what it makes of the predictions of its
library `Serves`: it is an answer, or a refusal, and a refusal only if something was wrong (a library that
answered too little, a horizon or a kind that was not declared, a gap, an instance that was not fitted). The
lemma of an integration that answers by position rests on `InOrderIsSorted`, that taking a finite set
in an order lists each element once and the earlier ones first: it gives the rows of a series by their
times, and the future rows of a view in either layout. What the planner lays out is `IsView` for a forecast and
`IsSeries` and `IsSample` for a fit; what a fit learned is `IsLearned`, with one lemma for all adapters
(`AFitIsLearned`).

The inductive invariant is `AnswersInv`: what is fitted was learned in a fit from some view (`IsFit`), refused for
its parameters (`IsRefusal`) or loaded as it is (`IsLoaded`), and what was answered last is what
that model made of what it was asked (`IsTold`). The properties alone are not inductive: that a
number is of its moment depends on the state a fit wrote, which none of them mentions.

`ScoresProofs` proves for any candidates, metrics, folds of finitely many cells, forecasts and values left out:

* `WinnersAreReproducible`: `WinnerIsReproducible`. `ScoresInv` says of what is being forecast with, and of what
  every row so far names, that it is the candidate's own (`IsOwn`); that it stays so needs that what was
  published is never published again (`ListsGrow`, `OwnStays`);
* `WhatIsAskedIsMeasured`: `AskedIsMeasured`. `CheckedIsScorable` says that rows which say all parts of an output
  can be scored by a metric if and only if `_check_metrics` lets it through, and both halves of the property
  follow from it: of a forecast that left nothing out (`ScoredInFull`), where the outcomes that were
  scored are one for each cell that is known, and of the ideal one a refusal is measured against
  (`IdealSaysAll`). `MeasuredInv` adds that a row stays counted when others are added (`CountedStays`).

The assumptions on constants are `ScoresAssumption`: a call has a model and a metric, a run a fold, and
cells are finitely many.

What stays with TLC:

* liveness (`CallsReturn`), which the prover does not do;
* `DerivableFromPredictions`, which compares sums of fractions that are not reduced, taken in an order that is
  not said, and rests on `SelectSeq` and `SortSeq`, which the provers have no definition of.

## Plan

What is left, in this order:

1. `DerivableFromPredictions`, with fractions compared as `SameShare` of `EngineProofs` compares them.
2. `Frequency`: calendar steps as operators, and instances on grids that are not in
   phase.

## Not modelled

* What is in a manifest and its hashes, view bundles and Arrow files, sample ids and provenance.
* Floating-point arithmetic: metrics are computed over small integers and levels in tenths, RMSE is left
  out, scales and shares are symbolic, and the libraries' forecasts are what they were worked
  out from.
* The validators of immutable values (references, frames, plans, recipes) where they do no more than refuse
  a malformed value, and the conversions from other table types.
* The discovery of a library's classes beyond one class of each kind the catalogs tell apart.
* The calendar: events are evenly spaced, and a shift by a month or a year is a step. All data in
  `PointInTime` declare one target, one known and one observed feature. The clock behind artifact ids is abstracted to
  their order.
* An interrupt (Ctrl-C) of a caller that waits for a child, after which the two are no longer in step.
* The read-only endpoints, the OpenAPI document, the command line, logging, printing and the
  generation of documentation: text and I/O around calls that are modelled.
