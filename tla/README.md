# profile-operator in TLA+

A model, checked with TLC and partly proved with TLAPS, of
[profile-operator](../src/README.md): a Kubernetes operator with two custom
resources. A `Profile` is a cluster-wide patch; a `ProfileBinding` names a Profile and
selects the resources it is applied to. Paths below are relative to
`src/internal/controller/` unless they say otherwise.

## 1. Inventory

| component | state it keeps | operations | talks to |
|---|---|---|---|
| `ProfileBindingAgent` (`profile_binding_agent.go`) | `activeBindings` (key → last spec acted on), `mutex` | `Start` (list at start-up, wait, `Stop`), `HandleProfileBindingChange` | informer cache; `InformerManager` |
| comparison (`hasBindingChanged`, same file) | – | is a new spec worth new watches? | – |
| `InformerManager` (`informer_manager.go`) | `bindingWatches` (`sync.Map`: key → `BindingWatches` with its cancel function) | `SetupInformersForBinding`, `StopInformersForBinding`, `StopAllInformers` | one goroutine per watched kind |
| monitor goroutines (`monitorResources`, same file) | their context | list the targets once, apply the profile | API server; `ProfileApplicator` |
| `ProfileApplicator` (`profile_applicator.go`) | – | apply to each target with SSA or Patch | API server |
| `ProfileBindingReconciler` (`profilebinding_controller.go`) | – (the object's finalizer and status) | `Reconcile` | agent; cache; API server |
| `ProfileReconciler` (`profile_controller.go`) | – (the object's finalizer and status) | `Reconcile` | cache; API server |
| API types, CRDs (`src/api/v1alpha1`) | – | defaults, validation, deep copies | – |
| wiring (`src/cmd/main.go`) | the manager and its context | start everything, shut down | – |

How they interact. One manager starts, at the same time, the informer-driven
controllers (one worker each, the default `MaxConcurrentReconciles`) and the agent's
`Start`. The binding controller's worker and `Start` both call
`HandleProfileBindingChange` and share nothing but the agent's mutex. Reads go to an
informer cache that lags behind the API server, writes go to the API server.
Everything stops when the one context of the manager is cancelled, and every watch's
context is a child of it (the reconcile context when the worker set the watch up, the
agent's when the start-up loop did).

What is hard: the worker against the start-up list (which is stale by the time its
items are handled); the steps between taking a watch out of the map, cancelling it,
starting and storing its successor; `Stop` against a worker that drains its queue;
stale reads, conflicts and swallowed errors in the reconcilers; goroutines that are
cancelled but not waited for; lists that are old when they are written back; requests
that arrive after their sender gave up; a restart between two calls. `PROJECT.json` lists each hazard at its line, with the
properties that cover it or the reason that none does yet.

What makes each component correct:

* agent and informer manager: at most one live watch per binding, none leaks, the two
  maps agree, an unchanged binding is left alone, a changed or deleted one is acted on,
  shutdown ends;
* comparison: when it says "unchanged", the kept spec selects the same objects;
* Profile reconciler: when it has nothing left to do the status is true and no
  deletion waits; it does come to rest; a verdict is never reset;
* binding reconciler: the agent forgets a binding before its finalizer goes; the status
  it writes is that of the cluster it read; a deletion is released;
* monitors and applicator: users keep what they wrote; an old watch does not undo what a
  newer one wrote; a failed target or namespace does not stop the others; what is counted
  as updated is; goroutines end.

## 2. Modules

| module | models | state and actions ↔ code |
|---|---|---|
| `TargetSelector` | pure operators: comparison, watched kinds, what a spec selects | one operator per function, with its name |
| `BindingChange` (+ `MCBindingChange`) | one binding that a user edits, and the copy the agent keeps | `tracked` = `activeBindings[key]`; `Handle` = create/update path |
| `TargetSelectorProofs`, `BindingChangeProofs` | lemmas about the operators of the first, theorems about the second | – |
| `BindingAgent` (+ `MCBindingAgent`) | `ProfileBindingAgent`, the watch life cycle of `InformerManager`, the worker, shutdown | `activeBindings`, `bindingWatches`, `mutex` as in the code; `watch` the `BindingWatches` objects that are not cancelled; `pc`, `call`, `hand` the position, arguments and local variable of each goroutine; one action per access another goroutine can see |
| `WatchRegistry` | what agent and informer manager promise, without maps, mutex or goroutines | `open` (the manager's context), `task` (the call being handled), `live` (each watch's binding and spec, or `Cancelled`); actions `Begin`, `Withdraw`, `Serve`, `Finish`, `Close` |
| `BindingAgentInvariant` | the inductive invariant of `BindingAgent` | – |
| `BindingAgentProofs` | theorems about `BindingAgent` | – |
| `BindingAgentRefinement` | the proof that `BindingAgent` implements `WatchRegistry` | – |
| `ResourceMonitor` (on `TargetSelector`; + `MCResourceMonitor`) | `monitorResources`, `applyProfileToExistingResources`, `ProfileApplicator`, the API server's side of their requests, users who edit targets and Profiles | `pc`, `profile`, `namespaces`, `allResources` the locals of each goroutine (one per watch and kind), `results` the counts `updated` and `failed` in the order they were made; one action per API call, sending and handling apart |
| `ResourceMonitorProofs` | theorems about `ResourceMonitor` | – |
| `ApiObject` | one object on the API server, its informer cache, the workqueue | external to the code: `versions` from the cached state of the object to the live one, `fresh` whether the reconciler's copy has the live resourceVersion; `Known` the states the cache can still show, `Precedes` their order |
| `ApiObjectProofs` | lemmas about them: what a write, a delivery of the cache or a relist does to `Known` | – |
| `ProfileController` (on `ApiObject`) | `ProfileReconciler` for one Profile | `profile` the working copy; one action per API call |
| `BindingController` (on `ApiObject` and `TargetSelector`; + `MCBindingController`) | `ProfileBindingReconciler` for one binding, the agent as one atomic step, its start-up loop, the one-shot application of a watch | `binding` the working copy, `requeue` the result of `Reconcile` while the deferred status write runs; `activeBinding` = `activeBindings[key]`; one action per API call or call of the agent |
| `ProfileControllerProofs`, `BindingControllerProofs` | theorems about the two reconcilers (each inductive invariant stands at the end of the module it is about) | – |

`BindingAgent` extends `TargetSelector`, so its decision to keep or replace a watch is
the real comparison on real specs, not a Boolean. It implements `WatchRegistry`
(`Registry` is the `INSTANCE` with its refinement mapping, `ImplementsRegistry` the property).
`ResourceMonitor` takes a call of the agent in one step (`WatchRegistry`'s cancellation
and creation together): a goroutine cannot tell when between two of its own steps it was
cancelled. Definitions marked `(mutant)` are
plausible bugs: replacing a definition by its mutant must break the property named in
`PROJECT.json`, which shows that the property depends on the code.

Abstractions worth knowing:

* Specs are records of the fields the operator reads. `updateStrategy` is absent
  because nothing reads it. Strings are values that are only compared. A nil `enabled`
  is `"unset"`.
* A ProfileBinding in `BindingAgent` is its spec and whether it is being deleted. The
  reconcile that only adds the finalizer never reaches the agent and always leads to
  another one; it is a key that stays queued. The error branches around
  `SetupInformersForBinding` are dead code: `createWatchForGVK` returns nil on every path.
* `CacheEvent` lets the cached object become anything, so edits, deletion, re-creation
  and the collapsing of events are all in. A status write is a change to the same spec.
* `resourceMatchesSelector` has no caller in the repository. It is modelled, and compared
  with the List path, because it is the event-time half of a watch to come.
* `lastCaller` is a history variable: it guards nothing.
* In `BindingController` the agent's call is one step because it holds the agent's mutex
  from end to end; `BindingAgent` is the same call taken apart, over several bindings.
  The reconcile of a binding that is gone returns before the status write is deferred.
  `Initializing` is overwritten before any write, so no state of the object has it, and
  the `Failed` branch needs an error the agent never returns.
* `Restart` of the two controllers is a crash: the working copy and the queue are lost,
  the cache is listed again. For a Profile it reaches only states a failed call reaches too;
  for a binding it also empties the agent, which lists the bindings at start-up. The new
  process's List is taken to show nothing older than the old one saw: an API server
  that answers it from a cache behind another server's is outside the model, and so
  are `VerdictIsNotReset` and the `Quiet...` properties there.
* A selector is refused for its expressions only; malformed keys and values of `matchLabels`,
  which the API machinery refuses as well, do not occur.
* In `ResourceMonitor` a target is its labels, for everything users write, and its overlay,
  the fields a Profile sets. Patches do not touch the labels selectors look at. A profile
  is merged into an object by replacing the overlay; a patch that cannot be merged is a
  request refused at once. The typed Get of the Profile is answered by the cache; Lists
  and writes of unstructured objects go to the API server (the manager's client does not
  cache them). Server-side apply sends the listed object, so the server compares its
  resourceVersion and uid; a strategic merge patch only needs the object to exist.
* A List returns its objects in any order; the empty namespace is all of them. Namespaces
  may overlap (`listType=set` only forbids repeating one), and then an object has two
  turns in the loop.
* An object that has the patch already may be sent all the same: the code compares the
  texts before and after the merge, and a merge may lay a text out differently. The server
  then has nothing to change, or refuses a stale object.
* Not in `ResourceMonitor`: a patch that sets the labels its own binding selects on (the API
  allows it; `ExistingTargetIsCounted` would not hold for a target that a goroutine of
  another binding moves into the selection after the List), the API server's rule about `metadata.managedFields` in an
  applied object (a hazard with a note), cluster-scoped kinds (`InNamespace` has no effect on
  them), and shutdown, which is the same to a goroutine as the deletion of its binding.
* In `ProfileController` a template is valid or not; conditions are `none`, `pending`,
  `ready` or `invalid` (Ready and Valid are always set together). Finalizers are the
  operator's and one of somebody else.

## 3. Runs

| run | module, cfg | shows |
|---|---|---|
| `comparison` | `MCBindingChange`, `BindingChange.cfg` | `KeptCopyIsEquivalent`: after any sequence of edits (every pair among 384 specs), the copy kept selects what the current spec selects, provided both selectors are plain (no expressions, no empty label value). `MatchAgreesWithList`, unless a namespace is the empty name: only List reads that as all of them. `IInv` |
| `agent` | `MCBindingAgent`, `BindingAgent.cfg` | `WatchesAgreeWithActive`, `WorkerLeavesBindingInStep`, `OnlyChangesCancelWatches`, `ImplementsRegistry`; `GoneBindingIsTornDown`, `ShutdownCompletes`, `SettledBindingIsTracked`, with 1 binding, 3 specs |
| `agent_two` | `MCBindingAgent`, `BindingAgentTwo.cfg` | `AtMostOneLiveWatch`, `LiveWatchIsReachable`, `IInv`, `ImplementsRegistry`, with 2 bindings |
| `profile` | `ProfileController`, `ProfileController.cfg` | `QuietMeansValidated`, `QuietMeansReleased`, `VerdictIsNotReset`, `IInv`; `Converges`, `DeletionIsReleased`, `LostStatusIsRepaired` |
| `binding` | `MCBindingController`, `BindingController.cfg` | `FinalizerCoversWatches`, `QuietMeansReleased`, `QuietMeansTracked`, `ObservedMeansJudged`, `QuietMeansReported`, `IInv`; `Converges`, `DeletionIsReleased` |
| `monitor` | `MCResourceMonitor`, `ResourceMonitor.cfg` | `UsersHaveTheLastWord`, `NewerWatchWins`, `UpdatedMeansApplied`, `ExistingTargetIsCounted`, `IInv`; `MonitorsEnd` |
| `selector_changes`, `agent_gone`, `agent_stop`, `profile_generation`, `binding_ready`, `targets_follow` | | the findings of section 6: TLC finds each violated |

Bounds, and why they are enough:

* `agent`: the three specs are one, one switched off, and one the comparison cannot tell
  from the first. Two threads handle a binding at a time at most, so three watches are one
  more than can be in use: `CreateWatchesForTargets` never waits for an identity. One
  binding: bindings interact through the mutex and the order of the queue only, and with
  two of them the liveness check takes too long.
* `agent_two`: the threads are on different keys, or on the same one, while a third
  party could see an inconsistency; bindings are symmetric (no temporal property is
  checked with symmetry). One spec is enough because the specs of two bindings are
  never compared. Four watches: again one spare.
* `comparison` has no bound but its set of specs: every field the comparison looks at
  varies, with lists that are prefixes of each other, the empty list that means a
  default, duplicates that name one kind twice, nil and empty selectors, a label with an
  empty value, and an expression the API machinery refuses.
* `monitor`: one binding, since goroutines of two bindings meet in the targets only, as
  those of two watches do; two watches, an old and a new one; two specs, the default
  namespace and all namespaces with one of them repeated by name. Either both targets
  exist and users do nothing, or one does and users create, edit or delete a target or
  edit the Profile once (`Budget`), which is the edit between a List and the write that
  follows it. One request at a time is in flight without its sender (`MaxLate`). A Profile
  has the strategy SSA or Patch, or no patch. `targets_follow` needs one watch.
* `ProfileController` and `BindingController` bound what users, other controllers and
  failing calls may do, all together, by `Budget` (4 and 3): create, delete, re-create or
  edit, with a failed call or a restart in between, in any order.
  The reconciler's own steps, the cache and the conflicts they cause are not bounded.
  `CHECK_DEADLOCK FALSE` there because a Profile that is gone, with the budget spent,
  leaves nothing to do. `BindingAgent` never deadlocks: its cache can always change.

## 4. Fairness

* Goroutines run: weak fairness of each thread's steps.
* `sync.Mutex` in starvation mode hands over to the longest waiter: strong fairness of
  `LockMutex` and of the last `Lock` of `Stop`.
* The workqueue is first in, first out: strong fairness of `WorkerTake` for each key. A
  worker drains its queue before it stops (`WorkerExit`).
* Reconcilers: weak fairness of the worker, and of the cache's catching up.
* Goroutines of watches: one weak fairness for all of them and for the requests in
  flight. A request is handled, refused or lost; a loss is noticed. No goroutine waits
  for another, so it does not matter which of them runs.
* Nothing is assumed of users, of the cache's contents or of `Shutdown`. Resyncs (the
  manager's default `SyncPeriod`, ten hours) are part of the agent's fairness, where only
  `SettledBindingIsTracked` needs them; in the reconcilers' modules a property that needs
  them says so (`LostStatusIsRepaired`), and `Converges` is about the time without them.
* `Converges` of `ProfileController` needs one proviso, stated in the property: the cache is up to date time
  and again when a reconcile begins. Without it two reconciles that each read before
  the other's write arrived can exchange two values of `observedGeneration` for ever,
  because `updateProfileStatus` copies the whole status of the working copy
  (`profile_controller.go:183`). `BindingController` needs no proviso: its status write is
  refused unless it starts from the live version.

## 5. Proofs

Every safety invariant and every action property that a passing run checks is also a
theorem, for every value of the constants; so is the refinement of `WatchRegistry`. Each proof
has the same shape: an inductive invariant `IInv`, which TLC checks in a run before it is
proved; one lemma that the initial states satisfy it; one lemma per part of it, with one
step per action; and the theorems as consequences. The bounds of the runs (budgets,
numbers of watches and late requests) are arbitrary numbers here.

### The agent

`BindingAgentProofs` proves, for any bindings, specs and watches, every safety property
of `agent` and `agent_two`: `TypeCorrect`, `OneLiveWatchPerBinding`, `NoWatchLeaks`,
`MapsAgree`, `WorkerIsUpToDate`, `NoNeedlessRestart`, all from `Invariance`.

Assumptions on the constants: markers (`NoBinding`, `NoWatch`, `Cancelled`, `Absent`,
`NoCall`, `NoThread`) are none of the values they stand beside. Nothing is assumed
finite. TLC evaluates the assumptions in every run of `BindingAgent`.

Why a stronger invariant. None of the properties is inductive: while a thread holds the
mutex the maps disagree. `IInv` says

* `ControlInv`: where each thread is, that the mutex is held exactly by the thread in
  the critical section, and that a thread outside it holds no watch;
* `HolderProgress`: at each label, what the holder has done to the maps of its binding;
* `OthersAgree`: every binding that the holder is not working on has maps that agree;
* `WatchInv`: a watch that is not cancelled is in the map under its own key or in the
  hand of the holder, and conversely;
* `WorkerInv`: the worker's argument is what the cache asks for, or the key is queued
  again, and a binding the worker handled last is in step.

The parts about the maps are conditioned on `running`: `StopAllInformers` takes no lock, so
they are false during shutdown (finding `agent_stop`). The proof has one lemma per part
(`ControlStep`, `WatchStep`, `WorkerStep`) with one step per action, and a few lemmas
that the actions share (`HolderFacts`, `CancelKeepsMapped`, `StoreKeepsHeld`,
`ActivateAgrees`). `SameSpecIsNoChange` (`TargetSelectorProofs`) is the fact about the comparison they need: a spec is
never a change of itself. `CancelStep` is the step of the action property.

### The agent implements its promise

`BindingAgentRefinement` proves `AgentImplementsRegistry` (`ImplementsRegistry`) from the same
`IInv`, step by step. `LockMutex` is `Begin`. `KeepInformers`, `ActivateBinding` and, for a
deletion, `CancelStopped` return, and are `Finish`; for an edit `CancelStopped` is `Withdraw`.
`CreateWatchesForTargets` is `Serve`. `Shutdown`, or a failed start-up list, is `Close`. All
other steps are stutters: those of the environment, of the start-up loop outside its calls,
and those of a call that move a watch between the map, the hand and nowhere, or fill in
`activeBindings`.

What has to be shown is that the maps tell the truth at those points. `HolderWatches`: the
watches of the binding being handled are the one in the map and the one in the hand, and
no others. Hence a watch that is about to be stored is the binding's only one; what
`KeepInformers` keeps is the one the comparison accepted; and a call that returns leaves
exactly what it was asked for. After `Close` there is nothing to show, since the abstract
watches are all cancelled: what `StopAllInformers` does without the mutex is invisible.

### The comparison and the selection

`BindingChangeProofs` proves `KeptCopyIsGood` (`KeptCopyIsEquivalent`), `MatchIsList`
(`MatchAgreesWithList`) and `ChangeTypeCorrect`. `IInv` says that a handled spec is not a change
of the copy. The rest are the lemmas of `TargetSelectorProofs` about the operators:
`EqualListsAreOne` and `EqualLabelsAreOne` (as many labels, and every label looked up is the
same, is equality, provided no label requires the empty value, which is what a lookup of a
missing key yields), `UnchangedSelectsTheSame` and `EventsAgreeWithLists`. Assumptions: the lists
of a spec are sequences, its label map is finite (both true of any Go value), and the
namespace of a binding is not empty (it is a namespaced resource). Specs and objects are
any sets.

### The reconcilers

`ApiObjectProofs` is about any object behind an informer cache: what a write adds to `Known`,
that a delivery or a relist only forgets older states, and that the order of the rest stays.

`ProfileControllerProofs`: `ProfileTypeCorrect`, `QuietIsValidated`, `QuietIsReleased` and the
action property `VerdictIsKept`, from `ProfileInvariant`. The difficulty is that the finalizer is
written by a merge patch without a resourceVersion, and the whole status is copied from
a stale Profile onto one just read, so neither write is protected by a conflict. What
protects them is the order of what the cache shows:

* `HistoryInv`: a finalizer that has changed since a state the cache can still show has not
  changed back, and conditions that were set are not lost while it stays;
* `PatchInv`: a patch on its way adds (or removes) the finalizer only if that has been done
  already or if every state in between still lacks (or has) it;
* `StatusInv`: a status on its way is the initial one only while nobody has judged the Profile;
* `RestInv`: a reconcile that nothing will repeat works on the cached state, and has
  something to change, so that if the cache is live its write is accepted.

`BindingControllerProofs`: `BindingTypeCorrect`, `WatchesAreCovered` (`FinalizerCoversWatches`),
`QuietIsReleased`, `QuietIsTracked`, `ObservedIsJudged` and `QuietIsReported`, from
`BindingInvariant`. Here every write carries the resourceVersion it was read with:

* `VersionsInv`: each state the cache can show is sound by itself (a verdict on its own generation is
  about its own spec), and the finalizer it shows on a living binding is still there;
* `CopyInv`: where `Reconcile` is says what its copy looks like, so that what it will write is
  sound;
* `FreshInv`: a copy the API server will accept is what the server holds, the status apart;
* `RestInv`: an undisturbed reconcile has a fresh copy or will be repeated, and does not
  end before the finalizer is right and the status is written;
* `AgentInv`: if the reconciler was the last to call the agent, the agent's copy is that of
  the binding, and a copy is held only while the finalizer is there. It says nothing when
  the start-up loop called last, which is finding `agent_gone`.

Assumptions: `Absent` is no object, `NoBinding` no spec, and the budget is a number.

### The goroutines of the watches

`ResourceMonitorProofs` proves, for any number of bindings, specs, watches, targets,
namespaces, Profiles and late requests: `TypeCorrect`, `UpdatedIsApplied`
(`UpdatedMeansApplied`), `NoTargetIsForgotten` (`ExistingTargetIsCounted`),
`UsersHaveTheLastWordTheorem` and `NewerWatchWinsTheorem`, all from `Invariant`.

Assumptions: the targets are finite (a List is a sequence), a spec names a Profile and a
list of namespaces, a Profile has a patch field and a strategy, and markers are none of
the values they stand beside.

Why a stronger invariant. That a request is harmless when it arrives depends on what its
sender saw when it listed, several steps before. `IInv` says

* `ProgressInv`: a goroutine runs for a watch that was created, has read its Profile when it
  lists, has counted no more than it listed, and a request is for an element of its list;
* `SnapshotInv`: what was listed is what the cluster has, if the version is the same, and
  something older otherwise. With it an accepted server-side apply is an edit of the
  current object, which is `UsersHaveTheLastWord`: it overwrites nothing its sender has not seen;
* `OrderInv`: watches of a binding are cancelled in the order they were created, only a
  watch that is not cancelled lists, so nobody has listed what a newer watch of the same
  binding wrote. With the resourceVersion this is `NewerWatchWins`;
* `AppliedInv`: an object last written by a goroutine has its patch, and what it counts as
  updated was so;
* `CoverageInv`: a goroutine that is not cancelled has in `allResources` every untouched
  target of the namespaces it has been through, and it has been through all of them when
  it writes. Writes of other goroutines do not hide a target from a later list, because
  they keep its labels (`ResultKeepsLabels`).

One lemma per part (`TypeStep`, `ProgressStep`, `SnapshotStep`, `OrderStep`, `AppliedStep`,
`CoverageStep`), one step per action. `PageOfListed` (a List's answer has every object once),
`ResultKeepsLabels`, `HandleStores`, `CountIsTyped` and `ListAddsCurrentObjects` are what the
actions share. With the strategy Patch neither of
the two action properties rests on a version: a patch keeps the labels, but a late one does
undo a newer watch's patch, or a user's reset of the fields it sets, which is why
`NewerWatchWins` and the part of `UsersHaveTheLastWord` about the overlay speak of SSA.

### Model-checked only

What holds under fairness (`GoneBindingIsTornDown`, `ShutdownCompletes`, `SettledBindingIsTracked`,
`Converges`, `DeletionIsReleased`, `LostStatusIsRepaired`, `MonitorsEnd`) stays with TLC: liveness is
out of the prover's reach, ENABLED included. That the bounds let every step happen is also
TLC's to show.

## 6. Findings

* `selector_changes`: the comparison ignores `matchExpressions`, and treats a missing
  label as an empty one, although a comment calls any change of the object selector
  significant.
* `agent_gone`: the start-up loop sets up informers for a listed binding whose deletion
  the worker has already handled; nothing tears them down.
* `agent_stop`: `Stop` does not clean up all informers: the draining worker puts
  entries back.
* `profile_generation`: a Profile's `observedGeneration` stays at the generation of its
  first reconcile.
* `binding_ready`: Ready with reason Applied says that the reconciler found the Profile,
  not that it was applied; when the Profile appears between the goroutines' Get and the
  reconciler's, it never is.
* `targets_follow`: a watch applies the Profile once. Targets created later and edits of
  the Profile are not followed, although the reconciler relies on informers for them.

Seen on the way, without a run: the status fields `targetedResources`,
`updatedResources` and `failedResources` are never set, though
`src/test/e2e/e2e_test.go:414` waits for one of them; with overlapping namespaces and SSA the
second turn of an object is refused, and counted as failed, because the first one
changed it; a late request of an old watch can land after a newer watch found the target
up to date and wrote nothing (`NewerWatchWins` is about writes).

## 7. Not modelled, and the plan

Not modelled: logging, events, metrics and health endpoints, flags, certificates and
leader election (start-up I/O), generated deep copies, the tests. What is left of the
implementation's lines is that, and the type declarations.

Order of work:

1. *(done)* comparison; agent and watches, with proofs; Profile reconciler.
2. *(done)* `BindingController`; crash and restart in both reconcilers.
3. *(done)* `ResourceMonitor`: goroutines and `ProfileApplicator`, with proofs.
4. *(done)* `WatchRegistry`, implemented by `BindingAgent`, with the proof.
5. *(done)* Proofs of every invariant and action property of the runs.
6. Proofs still worth having: action properties of the binding reconciler that are so far
   only implied by its invariants (the generation its status names never goes back while
   the binding lives), and what the exactness of the comparison means for `BindingAgent` (the
   live watch of a binding selects what its spec selects).
