---------------------------- MODULE BindingAgent ----------------------------
(***************************************************************************)
(* ProfileBindingAgent and InformerManager: the map of tracked bindings,   *)
(* the map of running watches, and the two goroutines that change them.    *)
(*                                                                         *)
(*   worker   the only worker of the ProfileBinding controller: it takes a *)
(*            key from the workqueue, reads the informer cache and calls   *)
(*            HandleProfileBindingChange;                                  *)
(*   starter  the agent's own runnable: it lists the cache, calls          *)
(*            HandleProfileBindingChange for every item of that list, then *)
(*            waits for the manager's context and stops all informers.     *)
(*                                                                         *)
(* They start together and share nothing but the agent's mutex, which      *)
(* HandleProfileBindingChange holds for the whole call and                 *)
(* StopAllInformers does not take.                                         *)
(*                                                                         *)
(* A ProfileBinding is its spec and whether it is being deleted.  The      *)
(* reconcile that only adds the finalizer does not reach the agent and is  *)
(* always followed by another one: here it is a key that stays queued.     *)
(* What a watch does with its resources is in other modules.               *)
(***************************************************************************)
EXTENDS TargetSelector

CONSTANTS
    Bindings,       \* the keys (namespace/name) of ProfileBindings
    Specs,          \* the specs a ProfileBinding can have
    Watches,        \* identities of *BindingWatches
    NoWatch,        \* the key is not in the bindingWatches map
    Cancelled,      \* state of a watch whose context was cancelled (or never created)
    Absent,         \* the binding is not in the informer cache
    NoThread,       \* nobody holds the mutex
    NoCall          \* the thread is not handling a binding

ASSUME SpecsAreNotMarkers == NoBinding \notin Specs
ASSUME WatchesAreNotMarkers == NoWatch \notin Watches
ASSUME StatesAreNotMarkers ==
    /\ Cancelled \notin [binding : Bindings, spec : Specs]
    /\ Absent \notin [spec : Specs, deleting : BOOLEAN]
    /\ NoCall \notin [binding : Bindings, spec : Specs \cup {NoBinding}]

Worker == "worker"
Starter == "starter"
Threads == {Worker, Starter}
ASSUME ThreadsAreNotMarkers == NoThread \notin Threads

ProfileBinding == [spec : Specs, deleting : BOOLEAN]

VARIABLES
    cache,          \* the informer cache that List and Get read
    queue,          \* keys with an event on its way to the worker
    mutex,          \* agent.mutex: who holds it
    activeBindings, \* agent.activeBindings
    bindingWatches, \* im.bindingWatches
    watch,          \* the BindingWatches objects that are not cancelled
    running,        \* the manager's context, the parent of every watch's context
    pc,             \* where each thread is
    call,           \* the binding a thread is handling; spec = NoBinding is a deletion
    hand,           \* the BindingWatches object a thread holds outside the map
    todo,           \* what is left of the list of initializeExistingBindings
    toVisit,        \* the keys Range of StopAllInformers has not come to
    lastCaller      \* (history) the thread that last handled each binding

environment == <<cache, queue, running>>
maps == <<activeBindings, bindingWatches, watch>>
starterVars == <<todo, toVisit>>
agentVars == <<mutex, maps, pc, call, hand, starterVars>>
vars == <<environment, lastCaller, agentVars>>

-----------------------------------------------------------------------------
(* Types                                                                   *)

WorkerPc == {"idle", "exited"}
StarterPc == {"list", "next", "waiting", "range", "rangeCancel", "rangeDelete",
              "clear", "stopped", "failed"}

\* Inside HandleProfileBindingChange, with the mutex
CriticalPc == {"locked", "stop", "cancel", "setup", "create", "store", "activate"}
HandlePc == {"lock"} \cup CriticalPc

Call == [binding : Bindings, spec : Specs \cup {NoBinding}]

TypeOK ==
    /\ cache \in [Bindings -> ProfileBinding \cup {Absent}]
    /\ queue \subseteq Bindings
    /\ mutex \in Threads \cup {NoThread}
    /\ activeBindings \in [Bindings -> Specs \cup {NoBinding}]
    /\ bindingWatches \in [Bindings -> Watches \cup {NoWatch}]
    /\ watch \in [Watches -> [binding : Bindings, spec : Specs] \cup {Cancelled}]
    /\ running \in BOOLEAN
    /\ pc \in [Threads -> WorkerPc \cup StarterPc \cup HandlePc]
    /\ call \in [Threads -> Call \cup {NoCall}]
    /\ hand \in [Threads -> Watches \cup {NoWatch}]
    /\ todo \subseteq [binding : Bindings, spec : Specs]
    /\ toVisit \subseteq Bindings
    /\ lastCaller \in [Bindings -> Threads \cup {NoThread}]

\* The controller's initial list queues every binding the cache holds
Init ==
    /\ cache \in [Bindings -> ProfileBinding \cup {Absent}]
    /\ queue = { b \in Bindings : cache[b] # Absent }
    /\ mutex = NoThread
    /\ activeBindings = [b \in Bindings |-> NoBinding]
    /\ bindingWatches = [b \in Bindings |-> NoWatch]
    /\ watch = [w \in Watches |-> Cancelled]
    /\ running = TRUE
    /\ pc = [t \in Threads |-> IF t = Worker THEN "idle" ELSE "list"]
    /\ call = [t \in Threads |-> NoCall]
    /\ hand = [t \in Threads |-> NoWatch]
    /\ todo = {}
    /\ toVisit = {}
    /\ lastCaller = [b \in Bindings |-> NoThread]

Live(w) == running /\ watch[w] # Cancelled

Goto(t, label) == pc' = [pc EXCEPT ![t] = label]
Cancel(w) == watch' = [watch EXCEPT ![w] = Cancelled]

-----------------------------------------------------------------------------
(* The environment                                                         *)

\* The cached object changes in any way, a write to its status included; an
\* informer that lists again may skip states in between.  A workqueue that is
\* shutting down takes no key.
CacheEvent(b) ==
    /\ \E object \in ProfileBinding \cup {Absent} : cache' = [cache EXCEPT ![b] = object]
    /\ queue' = IF running THEN queue \cup {b} ELSE queue
    /\ UNCHANGED <<running, lastCaller, agentVars>>

\* The informer delivers every cached object again, once per SyncPeriod
Resync(b) ==
    /\ running
    /\ cache[b] # Absent
    /\ queue' = queue \cup {b}
    /\ UNCHANGED <<cache, running, lastCaller, agentVars>>

\* The manager's context is cancelled
Shutdown ==
    /\ running
    /\ running' = FALSE
    /\ UNCHANGED <<cache, queue, lastCaller, agentVars>>

-----------------------------------------------------------------------------
(* The worker's calls, and the starter's                                   *)

\* (mutant) Reconcile goes on with the object that Get did not fill
RequestedSpecUnchecked(b) == IF cache[b] = Absent THEN Absent ELSE cache[b].spec

\* (mutant) Reconcile does not look at the DeletionTimestamp
RequestedSpecAlive(b) == IF cache[b] = Absent THEN NoBinding ELSE cache[b].spec

\* What Reconcile asks of the agent: a deletion, or the spec to act on
RequestedSpec(b) ==
    IF cache[b] = Absent THEN NoBinding
    ELSE IF cache[b].deleting THEN NoBinding
    ELSE cache[b].spec

\* Reconcile, up to its call of the agent
WorkerTake(b) ==
    /\ pc[Worker] = "idle"
    /\ b \in queue
    /\ queue' = queue \ {b}
    /\ call' = [call EXCEPT ![Worker] = [binding |-> b, spec |-> RequestedSpec(b)]]
    /\ Goto(Worker, "lock")
    /\ UNCHANGED <<cache, running, lastCaller, mutex, maps, hand, starterVars>>

\* The worker drains the queue before it stops
WorkerExit ==
    /\ pc[Worker] = "idle"
    /\ ~running
    /\ queue = {}
    /\ Goto(Worker, "exited")
    /\ UNCHANGED <<environment, lastCaller, mutex, maps, call, hand, starterVars>>

\* initializeExistingBindings lists the cache: objects being deleted included
StarterList ==
    /\ pc[Starter] = "list"
    /\ todo' = { [binding |-> b, spec |-> cache[b].spec] :
                     b \in { c \in Bindings : cache[c] # Absent } }
    /\ Goto(Starter, "next")
    /\ UNCHANGED <<environment, lastCaller, mutex, maps, call, hand, toVisit>>

\* Start returns the error, and the manager stops without a call of Stop
StarterListFails ==
    /\ pc[Starter] = "list"
    /\ Goto(Starter, "failed")
    /\ running' = FALSE
    /\ UNCHANGED <<cache, queue, lastCaller, mutex, maps, call, hand, starterVars>>

\* One iteration of its loop.  The loop never looks at the context.
StarterNext ==
    /\ pc[Starter] = "next"
    /\ \E item \in todo :
           /\ todo' = todo \ {item}
           /\ call' = [call EXCEPT ![Starter] = item]
    /\ Goto(Starter, "lock")
    /\ UNCHANGED <<environment, lastCaller, mutex, maps, hand, toVisit>>

StarterReady ==
    /\ pc[Starter] = "next"
    /\ todo = {}
    /\ Goto(Starter, "waiting")
    /\ UNCHANGED <<environment, lastCaller, mutex, maps, call, hand, starterVars>>

-----------------------------------------------------------------------------
(* HandleProfileBindingChange                                              *)

\* Where a thread goes on after the call
AfterCall(t) == IF t = Worker THEN "idle" ELSE "next"

\* (mutant) a return path without the Unlock
ReturnLocked(t) ==
    /\ UNCHANGED mutex
    /\ Goto(t, AfterCall(t))
    /\ call' = [call EXCEPT ![t] = NoCall]

\* The call returns, and the deferred Unlock runs
Return(t) ==
    /\ mutex' = NoThread
    /\ Goto(t, AfterCall(t))
    /\ call' = [call EXCEPT ![t] = NoCall]

\* (mutant) no mutual exclusion
MutexIsIgnored == TRUE

MutexIsFree == mutex = NoThread

LockMutex(t) ==
    /\ pc[t] = "lock"
    /\ MutexIsFree
    /\ mutex' = t
    /\ lastCaller' = [lastCaller EXCEPT ![call[t].binding] = t]
    /\ Goto(t, "locked")
    /\ UNCHANGED <<environment, maps, call, hand, starterVars>>

\* The isDelete argument
IsDelete(t) == call[t].spec = NoBinding

\* (mutant) every update restarts the informers
IsAnyUpdate(t) == ~IsDelete(t)

\* (mutant) only a binding that is not tracked yet is acted on
IsNewBinding(t) == ~IsDelete(t) /\ activeBindings[call[t].binding] = NoBinding

IsChange(t) ==
    ~IsDelete(t) /\ hasBindingChanged(call[t].spec, activeBindings[call[t].binding])

\* (mutant) the entry of a deleted binding stays in the map
KeepActive(b) == UNCHANGED activeBindings

DeleteActive(b) == activeBindings' = [activeBindings EXCEPT ![b] = NoBinding]

\* handleProfileBindingDelete forgets the binding first
ForgetBinding(t) ==
    /\ pc[t] = "locked"
    /\ IsDelete(t)
    /\ DeleteActive(call[t].binding)
    /\ Goto(t, "stop")
    /\ UNCHANGED <<environment, lastCaller, mutex, bindingWatches, watch, call, hand,
                   starterVars>>

\* "ProfileBinding has not changed significantly, keeping existing informers"
KeepInformers(t) ==
    /\ pc[t] = "locked"
    /\ ~IsDelete(t)
    /\ ~IsChange(t)
    /\ Return(t)
    /\ UNCHANGED <<environment, lastCaller, maps, hand, starterVars>>

UpdateInformers(t) ==
    /\ pc[t] = "locked"
    /\ IsChange(t)
    /\ Goto(t, "stop")
    /\ UNCHANGED <<environment, lastCaller, mutex, maps, call, hand, starterVars>>

\* bindingWatches.LoadAndDelete of StopInformersForBinding
StopInformersForBinding(t) ==
    /\ pc[t] = "stop"
    /\ hand' = [hand EXCEPT ![t] = bindingWatches[call[t].binding]]
    /\ bindingWatches' = [bindingWatches EXCEPT ![call[t].binding] = NoWatch]
    /\ Goto(t, "cancel")
    /\ UNCHANGED <<environment, lastCaller, mutex, activeBindings, watch, call,
                   starterVars>>

\* (mutant) the watch leaves the map without a call of cancelCtx
DropHand(t) == hand' = [hand EXCEPT ![t] = NoWatch] /\ UNCHANGED watch

\* cancelCtx of what LoadAndDelete returned
CancelHand(t) ==
    /\ hand' = [hand EXCEPT ![t] = NoWatch]
    /\ IF hand[t] = NoWatch THEN UNCHANGED watch ELSE Cancel(hand[t])

CancelStopped(t) ==
    /\ pc[t] = "cancel"
    /\ CancelHand(t)
    /\ IF IsDelete(t) THEN Return(t)
                      ELSE Goto(t, "setup") /\ UNCHANGED <<mutex, call>>
    /\ UNCHANGED <<environment, lastCaller, activeBindings, bindingWatches, starterVars>>

\* SetupInformersForBinding does LoadAndDelete and cancelCtx once more
SetupInformersForBinding(t) ==
    /\ pc[t] = "setup"
    /\ LET existing == bindingWatches[call[t].binding]
       IN  IF existing = NoWatch THEN UNCHANGED watch ELSE Cancel(existing)
    /\ bindingWatches' = [bindingWatches EXCEPT ![call[t].binding] = NoWatch]
    /\ Goto(t, IF IsDisabled(call[t].spec) THEN "activate" ELSE "create")
    /\ UNCHANGED <<environment, lastCaller, mutex, activeBindings, call, hand,
                   starterVars>>

\* A watch nobody refers to; a new one must be different from those in use
Unused(w) ==
    /\ watch[w] = Cancelled
    /\ \A b \in Bindings : bindingWatches[b] # w
    /\ \A t \in Threads : hand[t] # w

NewWatch == CHOOSE w \in Watches : Unused(w)

\* createWatchesForTargets starts the goroutines before the watch is stored;
\* it has no error to return
CreateWatchesForTargets(t) ==
    /\ pc[t] = "create"
    /\ \E w \in Watches : Unused(w)
    /\ watch' = [watch EXCEPT ![NewWatch] = call[t]]
    /\ hand' = [hand EXCEPT ![t] = NewWatch]
    /\ Goto(t, "store")
    /\ UNCHANGED <<environment, lastCaller, mutex, activeBindings, bindingWatches, call,
                   starterVars>>

StoreWatches(t) ==
    /\ pc[t] = "store"
    /\ bindingWatches' = [bindingWatches EXCEPT ![call[t].binding] = hand[t]]
    /\ hand' = [hand EXCEPT ![t] = NoWatch]
    /\ Goto(t, "activate")
    /\ UNCHANGED <<environment, lastCaller, mutex, activeBindings, watch, call,
                   starterVars>>

ActivateBinding(t) ==
    /\ pc[t] = "activate"
    /\ activeBindings' = [activeBindings EXCEPT ![call[t].binding] = call[t].spec]
    /\ Return(t)
    /\ UNCHANGED <<environment, lastCaller, bindingWatches, watch, hand, starterVars>>

-----------------------------------------------------------------------------
(* Stop                                                                    *)

\* StopAllInformers takes no lock
StopAllInformers ==
    /\ pc[Starter] = "waiting"
    /\ ~running
    /\ toVisit' = Bindings
    /\ Goto(Starter, "range")
    /\ UNCHANGED <<environment, lastCaller, mutex, maps, call, hand, todo>>

\* Range of a sync.Map comes to each key at most once, at any time of the call
RangeVisit(b) ==
    /\ pc[Starter] = "range"
    /\ b \in toVisit
    /\ toVisit' = toVisit \ {b}
    /\ IF bindingWatches[b] = NoWatch
       THEN UNCHANGED <<pc, call, hand>>
       ELSE /\ call' = [call EXCEPT ![Starter] = [binding |-> b, spec |-> NoBinding]]
            /\ hand' = [hand EXCEPT ![Starter] = bindingWatches[b]]
            /\ Goto(Starter, "rangeCancel")
    /\ UNCHANGED <<environment, lastCaller, mutex, maps, todo>>

RangeCancel ==
    /\ pc[Starter] = "rangeCancel"
    /\ CancelHand(Starter)
    /\ Goto(Starter, "rangeDelete")
    /\ UNCHANGED <<environment, lastCaller, mutex, activeBindings, bindingWatches, call,
                   starterVars>>

\* Delete(key), whatever the key maps to by now
RangeDelete ==
    /\ pc[Starter] = "rangeDelete"
    /\ bindingWatches' = [bindingWatches EXCEPT ![call[Starter].binding] = NoWatch]
    /\ call' = [call EXCEPT ![Starter] = NoCall]
    /\ Goto(Starter, "range")
    /\ UNCHANGED <<environment, lastCaller, mutex, activeBindings, watch, hand,
                   starterVars>>

RangeDone ==
    /\ pc[Starter] = "range"
    /\ toVisit = {}
    /\ Goto(Starter, "clear")
    /\ UNCHANGED <<environment, lastCaller, mutex, maps, call, hand, starterVars>>

\* Lock, assign a fresh map, Unlock
ClearActiveBindings ==
    /\ pc[Starter] = "clear"
    /\ MutexIsFree
    /\ activeBindings' = [b \in Bindings |-> NoBinding]
    /\ Goto(Starter, "stopped")
    /\ UNCHANGED <<environment, lastCaller, mutex, bindingWatches, watch, call, hand,
                   starterVars>>

-----------------------------------------------------------------------------

Environment ==
    \/ \E b \in Bindings : CacheEvent(b) \/ Resync(b)
    \/ Shutdown

HandleProfileBindingChange(t) ==
    \/ LockMutex(t)
    \/ ForgetBinding(t) \/ KeepInformers(t) \/ UpdateInformers(t)
    \/ StopInformersForBinding(t) \/ CancelStopped(t)
    \/ SetupInformersForBinding(t) \/ CreateWatchesForTargets(t) \/ StoreWatches(t)
    \/ ActivateBinding(t)

StarterStep ==
    \/ StarterList \/ StarterListFails \/ StarterNext \/ StarterReady
    \/ StopAllInformers
    \/ \E b \in Bindings : RangeVisit(b)
    \/ RangeCancel \/ RangeDelete \/ RangeDone
    \/ ClearActiveBindings

Next ==
    \/ Environment
    \/ \E b \in Bindings : WorkerTake(b)
    \/ WorkerExit
    \/ StarterStep
    \/ \E t \in Threads : HandleProfileBindingChange(t)

Spec == Init /\ [][Next]_vars

\* Goroutines are scheduled; sync.Mutex does not starve a waiter; the workqueue
\* is first in, first out, so no key waits for ever while others are taken; the
\* informer delivers again what it caches.
Fairness ==
    /\ \A b \in Bindings : SF_vars(WorkerTake(b))
    /\ WF_vars(WorkerExit)
    /\ WF_vars(StarterStep) /\ SF_vars(ClearActiveBindings)
    /\ \A t \in Threads :
           SF_vars(LockMutex(t)) /\ WF_vars(HandleProfileBindingChange(t))
    /\ \A b \in Bindings : WF_vars(Resync(b))

FairSpec == Spec /\ Fairness

-----------------------------------------------------------------------------
(* Safety                                                                  *)

\* Two sets of goroutines never apply profiles for the same binding at once,
\* whatever the interleaving of the worker and the starter: the old watch is
\* cancelled before a new one exists.
AtMostOneLiveWatch ==
    \A v, w \in Watches :
        Live(v) /\ Live(w) /\ watch[v].binding = watch[w].binding => v = w

\* No watch leaks: every watch that still runs can be found, to be cancelled,
\* under its binding's key in bindingWatches or in the hand of the thread that
\* holds the mutex.
LiveWatchIsReachable ==
    \A w \in Watches :
        Live(w) => \/ bindingWatches[watch[w].binding] = w
                   \/ \E t \in Threads : mutex = t /\ hand[t] = w

\* The two maps agree whenever a thread can look at them: while the operator
\* runs and the mutex is free, exactly the tracked bindings that are enabled
\* have a watch, it runs, and it was made from the tracked spec.
WatchesAgreeWithActive ==
    running /\ mutex = NoThread =>
        \A b \in Bindings :
            IF activeBindings[b] = NoBinding \/ IsDisabled(activeBindings[b])
            THEN bindingWatches[b] = NoWatch
            ELSE /\ bindingWatches[b] # NoWatch
                 /\ watch[bindingWatches[b]] = [binding |-> b, spec |-> activeBindings[b]]

Quiet(b) ==
    /\ b \notin queue
    /\ \A t \in Threads : call[t] # NoCall => call[t].binding # b

Gone(b) == IF cache[b] = Absent THEN TRUE ELSE cache[b].deleting

\* The agent's copy stands for what the informer cache holds
InStep(b) ==
    IF Gone(b) THEN activeBindings[b] = NoBinding
               ELSE ~hasBindingChanged(cache[b].spec, activeBindings[b])

\* Edits, deletions and re-creations are never lost in the worker's path: when
\* no event of a binding is on its way and the worker was the last to handle it,
\* the agent tracks what the cache holds.
WorkerLeavesBindingInStep ==
    \A b \in Bindings :
        running /\ Quiet(b) /\ lastCaller[b] = Worker => InStep(b)

\* The step cancels no watch, except one that the thread holding the mutex
\* replaces or tears down.
CancelIsDue ==
    \A w \in Watches :
        Live(w) /\ running' /\ watch'[w] # watch[w] =>
            \E t \in Threads :
                /\ mutex = t
                /\ call[t].binding = watch[w].binding
                /\ IsDelete(t) \/ hasBindingChanged(call[t].spec, watch[w].spec)

\* Informers are never restarted for nothing: a watch that runs is cancelled
\* only by the thread that holds the mutex, for a deletion of its binding or
\* for a spec that differs from the one the watch was made from.
OnlyChangesCancelWatches == [][CancelIsDue]_vars

\* The maps, the mutex and the steps between them implement WatchRegistry: calls
\* are answered one at a time, a watch is cancelled only for a call that supersedes
\* it, its successor starts only once it is cancelled, and the call returns with the
\* binding watched as it asked, whatever the other thread does in between.
Registry ==
    INSTANCE WatchRegistry WITH
        open <- running,
        task <- IF mutex = NoThread THEN NoCall ELSE call[mutex],
        live <- [w \in Watches |-> IF running THEN watch[w] ELSE Cancelled]

ImplementsRegistry == Registry!RegistrySpec

\* "It acts as an agent that automatically sets up and tears down informers based
\* on ProfileBinding changes" (profile_binding_agent.go:34): once everything has
\* been handled, a binding that no longer exists is no longer tracked.
GoneBindingsAreTornDown ==
    (running /\ pc[Starter] = "waiting") =>
        \A b \in Bindings :
            Quiet(b) /\ cache[b] = Absent => activeBindings[b] = NoBinding

\* "Stop stops the agent and cleans up all informers" (profile_binding_agent.go:91)
StopCleansUp ==
    pc[Starter] = "stopped" =>
        \A b \in Bindings : bindingWatches[b] = NoWatch /\ activeBindings[b] = NoBinding

-----------------------------------------------------------------------------
(* Liveness                                                                *)

\* A binding that is gone, with its event still to come, loses its watch, unless
\* it comes back or the operator stops: the start-up list is the only thing that
\* can interfere, and it is over.
GoneBindingIsTornDown ==
    \A b \in Bindings :
        Gone(b) /\ b \in queue /\ pc[Starter] = "waiting"
            ~> \/ ~Gone(b)
               \/ ~running
               \/ activeBindings[b] = NoBinding /\ bindingWatches[b] = NoWatch

\* A binding nobody touches any more is tracked as it is, for good, even when
\* the stale start-up list had the last word: the next resync repairs it.
SettledBindingIsTracked ==
    \A b \in Bindings : \A spec \in Specs :
        <>[](running /\ cache[b] = [spec |-> spec, deleting |-> FALSE])
            => <>[](activeBindings[b] # NoBinding /\ InStep(b))

\* Shutting down ends: the worker drains its queue and the starter gets through
\* Range and the last Lock.
ShutdownCompletes ==
    ~running ~> pc[Worker] = "exited" /\ pc[Starter] \in {"stopped", "failed"}

=============================================================================
