------------------------ MODULE BindingAgentRefinement ------------------------
(* BindingAgent implements WatchRegistry, for any bindings, specs and watches. *)
EXTENDS BindingAgentProofs

\* What Registry sees of the state: the call that is being handled, and the watches whose
\* context is not cancelled
Task == IF mutex = NoThread THEN NoCall ELSE call[mutex]

LiveWatches == [w \in Watches |-> IF running THEN watch[w] ELSE Cancelled]

-----------------------------------------------------------------------------
(* The definitions of WatchRegistry in these terms                         *)

\* Both modules compare specs alike.
LEMMA SameComparison ==
    ASSUME NEW new, NEW existing
    PROVE  /\ Registry!hasBindingChanged(new, existing) <=> hasBindingChanged(new, existing)
           /\ Registry!IsDisabled(new) <=> IsDisabled(new)
BY DEF Registry!hasBindingChanged, hasBindingChanged,
       Registry!targetSelectorsEqual, targetSelectorsEqual,
       Registry!resourceRulesEqual, resourceRulesEqual,
       Registry!objectSelectorsEqual, objectSelectorsEqual,
       Registry!MatchLabelsEqual, MatchLabelsEqual, Registry!ListsEqual, ListsEqual,
       Registry!LabelAt, LabelAt, Registry!IsDisabled, IsDisabled,
       Registry!Cardinality, Cardinality

\* The variables of Registry.
LEMMA SameVariables ==
    /\ Registry!registryVars = <<running, Task, LiveWatches>>
    /\ Registry!Call = Call
BY DEF Registry!registryVars, Registry!Call, Task, LiveWatches, Call

\* A call begins.
LEMMA Begins ==
    ASSUME NEW c \in Call, Task = NoCall, Task' = c, UNCHANGED <<running, LiveWatches>>
    PROVE  Registry!RegistryNext
<1>1. Registry!Begin(c)
  BY DEF Registry!Begin, Task, LiveWatches
<1>2. c \in Registry!Call
  BY SameVariables
<1>3. QED
  BY <1>1, <1>2 DEF Registry!RegistryNext

\* A call returns, its last act being a cancellation or none.
LEMMA Finishes ==
    ASSUME Task # NoCall, Task' = NoCall, running' = running,
           LiveWatches' = LiveWatches \/ \E w \in Watches : Registry!Cancel(w),
           running => Registry!Answered(LiveWatches')
    PROVE  Registry!RegistryNext
<1>1. Registry!Finish
  BY DEF Registry!Finish, Task, LiveWatches
<1>2. QED
  BY <1>1 DEF Registry!RegistryNext

\* A watch is cancelled before the call has its own.
LEMMA Withdraws ==
    ASSUME NEW w \in Watches, Registry!Cancel(w), Task # NoCall, UNCHANGED <<running, Task>>
    PROVE  Registry!RegistryNext
<1>1. Registry!Withdraw(w)
  BY DEF Registry!Withdraw, Task
<1>2. QED
  BY <1>1 DEF Registry!RegistryNext

\* A watch starts when the binding has none.
LEMMA Serves ==
    ASSUME NEW w \in Watches, running, Task # NoCall, UNCHANGED <<running, Task>>,
           Registry!WantsWatch(Task.spec),
           Registry!WatchesOf(LiveWatches, Task.binding) = {},
           LiveWatches[w] = Cancelled,
           LiveWatches' = [LiveWatches EXCEPT ![w] = Task]
    PROVE  Registry!RegistryNext
<1>1. Registry!Serve(w)
  BY DEF Registry!Serve, Task, LiveWatches
<1>2. QED
  BY <1>1 DEF Registry!RegistryNext

\* The manager's context ends.
LEMMA Closes ==
    ASSUME running = TRUE, running' = FALSE, UNCHANGED Task
    PROVE  Registry!RegistryNext
<1>1. Registry!Close
  BY DEF Registry!Close, Task
<1>2. QED
  BY <1>1 DEF Registry!RegistryNext

\* A cancellation that is due, by the thread that handles the call.
LEMMA Cancels ==
    ASSUME NEW t \in Threads, mutex = t, running, TypeOK, running' = running,
           NEW w \in Watches, watch' = [watch EXCEPT ![w] = Cancelled],
           w \in Registry!WatchesOf(watch, call[t].binding),
           IsDelete(t) \/ hasBindingChanged(call[t].spec, watch[w].spec)
    PROVE  Registry!Cancel(w)
<1>1. Task = call[t] /\ LiveWatches = watch
  BY ThreadsAreNotMarkers DEF Task, LiveWatches, TypeOK
<1>2. LiveWatches' = [LiveWatches EXCEPT ![w] = Cancelled]
  BY <1>1 DEF LiveWatches, TypeOK
<1>3. Registry!Supersedes(call[t].spec, watch[w].spec)
  BY SameComparison DEF Registry!Supersedes, IsDelete
<1>4. Registry!Cancel(w) <=> /\ w \in Registry!WatchesOf(LiveWatches, Task.binding)
                            /\ Registry!Supersedes(Task.spec, LiveWatches[w].spec)
                            /\ LiveWatches' = [LiveWatches EXCEPT ![w] = Cancelled]
  BY DEF Registry!Cancel, Task, LiveWatches
<1>5. QED
  BY <1>1, <1>2, <1>3, <1>4

\* The binding of the call has the one watch it asked for, or needs none and has none.
LEMMA Answers ==
    ASSUME NEW t \in Threads, mutex = t, NEW watches,
           LET Of == Registry!WatchesOf(watches, call[t].binding)
           IN  IF IsDelete(t) \/ IsDisabled(call[t].spec)
               THEN Of = {}
               ELSE \E w \in Watches :
                        Of = {w} /\ ~hasBindingChanged(call[t].spec, watches[w].spec)
    PROVE  Registry!Answered(watches)
<1>1. Task = call[t]
  BY ThreadsAreNotMarkers DEF Task
<1>2. Registry!WantsWatch(call[t].spec) <=> ~(IsDelete(t) \/ IsDisabled(call[t].spec))
  BY SameComparison DEF Registry!WantsWatch, IsDelete
<1>3. ~IsDelete(t) => \A s : Registry!Supersedes(call[t].spec, s)
                                <=> hasBindingChanged(call[t].spec, s)
  BY SameComparison DEF Registry!Supersedes, IsDelete
<1>4. Registry!Answered(watches) <=>
          IF Registry!WantsWatch(Task.spec)
          THEN \E w \in Watches :
                   /\ Registry!WatchesOf(watches, Task.binding) = {w}
                   /\ ~Registry!Supersedes(Task.spec, watches[w].spec)
          ELSE Registry!WatchesOf(watches, Task.binding) = {}
  BY DEF Registry!Answered, Task
<1>5. QED
  BY <1>1, <1>2, <1>3, <1>4

-----------------------------------------------------------------------------
(* What the thread in the critical section works on                        *)

\* The watches of the holder's binding: the one in the map and the one in its hand.
LEMMA HolderWatches ==
    ASSUME IInv, running, NEW t \in Threads, mutex = t
    PROVE  /\ call[t] \in Call /\ call[t] # NoCall
           /\ Progress(t)
           /\ \A w \in Watches : w \in Registry!WatchesOf(watch, call[t].binding)
                  <=> w = bindingWatches[call[t].binding] \/ w = hand[t]
<1>1. pc[t] \in CriticalPc
  BY DEF IInv, ControlInv
<1>2. call[t] \in Call /\ Progress(t)
  BY <1>1, HolderFacts DEF IInv
<1>3. /\ UncancelledIsHeld /\ MappedIsUncancelled /\ HandIsUncancelled
      /\ call[t] # NoCall /\ call[t].binding \in Bindings
  BY <1>2, StatesAreNotMarkers DEF IInv, WatchInv, Call
<1>4. ASSUME NEW w \in Watches
      PROVE  w \in Registry!WatchesOf(watch, call[t].binding)
                 <=> w = bindingWatches[call[t].binding] \/ w = hand[t]
  <2>1. w \in Registry!WatchesOf(watch, call[t].binding)
            <=> watch[w] # Cancelled /\ watch[w].binding = call[t].binding
    BY DEF Registry!WatchesOf
  <2>2. ASSUME NEW u \in Threads, mutex = u PROVE u = t
    BY <2>2
  <2>3. QED
    BY <1>3, <2>1, <2>2, WatchesAreNotMarkers
       DEF UncancelledIsHeld, MappedIsUncancelled, HandIsUncancelled
<1>5. QED
  BY <1>2, <1>3, <1>4

\* While the operator runs, Registry sees the watches as they are.
LEMMA WatchesSeen ==
    /\ TypeOK /\ running => LiveWatches = watch
    /\ TypeOK' /\ running' => LiveWatches' = watch'
    /\ UNCHANGED <<running, watch>> => LiveWatches' = LiveWatches
    /\ ~running /\ ~running' => LiveWatches' = LiveWatches
BY DEF TypeOK, LiveWatches

\* The holder of the mutex is in the critical section, and it alone decides what Registry
\* sees of the calls.
LEMMA CallSeen ==
    ASSUME IInv, NEW t \in Threads
    PROVE  /\ mutex = t => Task = call[t] /\ Task \in Call /\ Task # NoCall
           /\ pc[t] \in CriticalPc => mutex = t
           /\ pc[t] \notin CriticalPc /\ mutex' = mutex
                  /\ (\A u \in Threads \ {t} : call'[u] = call[u]) => Task' = Task
           /\ mutex' = NoThread => Task' = NoCall
<1>1. mutex = t <=> pc[t] \in CriticalPc
  BY DEF IInv, ControlInv
<1>2. mutex = t => Task = call[t] /\ Task \in Call /\ Task # NoCall
  BY <1>1, ThreadsAreNotMarkers DEF Task, IInv, TypeOK, ControlInv, HandlePc
<1>3. pc[t] \notin CriticalPc /\ mutex' = mutex
          /\ (\A u \in Threads \ {t} : call'[u] = call[u]) => Task' = Task
  BY <1>1 DEF Task, IInv, TypeOK
<1>4. mutex' = NoThread => Task' = NoCall
  BY DEF Task
<1>5. QED
  BY <1>1, <1>2, <1>3, <1>4

-----------------------------------------------------------------------------
(* The steps                                                               *)

\* A step of users, the informer, the worker outside its call or the starter is none of
\* Registry, the end of the manager's context excepted.
LEMMA OutsideStep ==
    ASSUME IInv, Environment \/ (\E b \in Bindings : WorkerTake(b)) \/ WorkerExit \/ StarterStep
    PROVE  Registry!RegistryNext \/ UNCHANGED <<running, Task, LiveWatches>>
<1> USE TwoThreads
<1>0. TypeOK /\ ControlInv
  BY DEF IInv
<1>1. ASSUME UNCHANGED <<running, mutex, call, watch>>
      PROVE  UNCHANGED <<running, Task, LiveWatches>>
  BY <1>1, WatchesSeen DEF Task
<1>2. ASSUME NEW t \in Threads, NEW c, pc[t] \notin CriticalPc,
             UNCHANGED <<running, mutex, watch>>, call' = [call EXCEPT ![t] = c]
      PROVE  UNCHANGED <<running, Task, LiveWatches>>
  <2>1. \A u \in Threads \ {t} : call'[u] = call[u]
    BY <1>0, <1>2 DEF TypeOK
  <2>2. QED
    BY <1>2, <2>1, CallSeen, WatchesSeen
<1>3. ASSUME NEW b \in Bindings, CacheEvent(b) \/ Resync(b)
      PROVE  UNCHANGED <<running, Task, LiveWatches>>
  BY <1>1, <1>3 DEF CacheEvent, Resync, agentVars, maps
<1>4. ASSUME Shutdown PROVE Registry!RegistryNext
  <2>1. running = TRUE /\ running' = FALSE /\ UNCHANGED <<mutex, call>>
    BY <1>0, <1>4 DEF Shutdown, agentVars, TypeOK
  <2>2. QED
    BY <2>1, Closes DEF Task
<1>5. ASSUME NEW b \in Bindings, WorkerTake(b)
      PROVE  UNCHANGED <<running, Task, LiveWatches>>
  <2>1. pc[Worker] \notin CriticalPc
    BY <1>5 DEF WorkerTake, CriticalPc
  <2>2. QED
    BY <1>2, <1>5, <2>1 DEF WorkerTake, maps
<1>6. ASSUME WorkerExit \/ StarterList \/ StarterReady \/ StopAllInformers \/ RangeDone
             \/ ClearActiveBindings
      PROVE  UNCHANGED <<running, Task, LiveWatches>>
  BY <1>1, <1>6 DEF WorkerExit, StarterList, StarterReady, StopAllInformers, RangeDone,
                    ClearActiveBindings, maps, environment
<1>7. ASSUME StarterListFails
      PROVE  Registry!RegistryNext \/ UNCHANGED <<running, Task, LiveWatches>>
  <2>1. running' = FALSE /\ running \in {TRUE, FALSE} /\ UNCHANGED <<mutex, call>>
    BY <1>0, <1>7 DEF StarterListFails, TypeOK
  <2>2. CASE running = TRUE
    BY <2>1, <2>2, Closes DEF Task
  <2>3. CASE running = FALSE
    BY <2>1, <2>3, WatchesSeen DEF Task
  <2>4. QED
    BY <2>1, <2>2, <2>3
<1>8. ASSUME StarterNext PROVE UNCHANGED <<running, Task, LiveWatches>>
  <2>1. pc[Starter] \notin CriticalPc
    BY <1>8 DEF StarterNext, CriticalPc
  <2>2. QED
    BY <1>2, <1>8, <2>1 DEF StarterNext, maps, environment
<1>9. ASSUME NEW b \in Bindings, RangeVisit(b)
      PROVE  UNCHANGED <<running, Task, LiveWatches>>
  <2>1. pc[Starter] \notin CriticalPc
    BY <1>9 DEF RangeVisit, CriticalPc
  <2>2. QED
    BY <1>1, <1>2, <1>9, <2>1 DEF RangeVisit, maps, environment
<1>10. ASSUME RangeCancel PROVE UNCHANGED <<running, Task, LiveWatches>>
  <2>1. ~running /\ running' = running /\ UNCHANGED <<mutex, call>>
    BY <1>0, <1>10 DEF RangeCancel, ControlInv, HandlePc, CriticalPc, environment
  <2>2. QED
    BY <2>1, WatchesSeen DEF Task
<1>11. ASSUME RangeDelete PROVE UNCHANGED <<running, Task, LiveWatches>>
  <2>1. pc[Starter] \notin CriticalPc
    BY <1>11 DEF RangeDelete, CriticalPc
  <2>2. QED
    BY <1>2, <1>11, <2>1 DEF RangeDelete, environment
<1>12. QED
  BY <1>3, <1>4, <1>5, <1>6, <1>7, <1>8, <1>9, <1>10, <1>11 DEF Environment, StarterStep

\* What KeepInformers leaves alone is what the call asked for.
LEMMA KeepStep ==
    ASSUME IInv, TypeOK', NEW t \in Threads, KeepInformers(t)
    PROVE  Registry!RegistryNext
<1>1. /\ pc[t] = "locked" /\ pc[t] \in CriticalPc
      /\ ~IsDelete(t) /\ ~IsChange(t)
      /\ mutex' = NoThread /\ UNCHANGED <<running, activeBindings, bindingWatches, watch>>
  BY DEF KeepInformers, Return, environment, maps, CriticalPc
<1>2. /\ mutex = t /\ Task \in Call /\ Task # NoCall /\ Task' = NoCall
      /\ LiveWatches' = LiveWatches
  BY <1>1, CallSeen, WatchesSeen
<1>3. running => Registry!Answered(LiveWatches')
  <2> SUFFICES ASSUME running PROVE Registry!Answered(watch)
    BY <1>2, WatchesSeen DEF IInv
  <2> DEFINE b == call[t].binding
             active == activeBindings[b]
  <2>1. Agree(b) /\ b \in Bindings
    BY <1>1, <1>2, HolderWatches DEF Progress, Call
  <2>2. hand[t] = NoWatch
    BY <1>1 DEF IInv, ControlInv
  <2>3. \A w \in Watches : w \in Registry!WatchesOf(watch, b) <=> w = bindingWatches[b]
    BY <1>2, <2>2, HolderWatches, WatchesAreNotMarkers
  <2>4. ~hasBindingChanged(call[t].spec, active)
    BY <1>1 DEF IsChange
  <2>5. active # NoBinding /\ (IsDisabled(call[t].spec) <=> IsDisabled(active))
    BY <2>4 DEF hasBindingChanged, IsDisabled
  <2>6. Registry!WatchesOf(watch, b) \subseteq Watches
    BY DEF Registry!WatchesOf
  <2>7. bindingWatches[b] \in Watches \cup {NoWatch}
    BY <2>1 DEF IInv, TypeOK
  <2>8. CASE IsDisabled(call[t].spec)
    <3>1. Registry!WatchesOf(watch, b) = {}
      BY <2>1, <2>3, <2>5, <2>6, <2>8, WatchesAreNotMarkers DEF Agree
    <3>2. QED
      BY <1>2, <2>8, <3>1, Answers
  <2>9. CASE ~IsDisabled(call[t].spec)
    <3>1. /\ bindingWatches[b] \in Watches
          /\ watch[bindingWatches[b]].spec = active
      BY <2>1, <2>5, <2>7, <2>9 DEF Agree
    <3>2. Registry!WatchesOf(watch, b) = {bindingWatches[b]}
      BY <2>3, <2>6, <3>1
    <3>3. QED
      BY <1>1, <1>2, <2>4, <2>9, <3>1, <3>2, Answers
  <2>10. QED
    BY <2>8, <2>9
<1>4. QED
  BY <1>1, <1>2, <1>3, Finishes

\* What ActivateBinding returns with is what the call asked for.
LEMMA ActivateStep ==
    ASSUME IInv, TypeOK', NEW t \in Threads, ActivateBinding(t)
    PROVE  Registry!RegistryNext
<1>1. /\ pc[t] = "activate" /\ pc[t] \in CriticalPc /\ ~IsDelete(t)
      /\ mutex' = NoThread /\ UNCHANGED <<running, bindingWatches, watch>>
  BY DEF ActivateBinding, Return, environment, CriticalPc, IInv, ControlInv
<1>2. /\ mutex = t /\ Task \in Call /\ Task # NoCall /\ Task' = NoCall
      /\ LiveWatches' = LiveWatches
  BY <1>1, CallSeen, WatchesSeen
<1>3. running => Registry!Answered(LiveWatches')
  <2> SUFFICES ASSUME running PROVE Registry!Answered(watch)
    BY <1>2, WatchesSeen DEF IInv
  <2> DEFINE b == call[t].binding
  <2>1. /\ Progress(t) /\ b \in Bindings
        /\ call[t].spec # NoBinding
    BY <1>1, <1>2, HolderWatches DEF Call, IsDelete
  <2>2. hand[t] = NoWatch
    BY <1>1 DEF IInv, ControlInv
  <2>3. \A w \in Watches : w \in Registry!WatchesOf(watch, b) <=> w = bindingWatches[b]
    BY <1>2, <2>2, HolderWatches, WatchesAreNotMarkers
  <2>4. Registry!WatchesOf(watch, b) \subseteq Watches
    BY DEF Registry!WatchesOf
  <2>5. bindingWatches[b] \in Watches \cup {NoWatch}
    BY <2>1 DEF IInv, TypeOK
  <2>6. CASE IsDisabled(call[t].spec)
    <3>1. Registry!WatchesOf(watch, b) = {}
      BY <1>1, <2>1, <2>3, <2>4, <2>6, WatchesAreNotMarkers DEF Progress
    <3>2. QED
      BY <1>2, <2>6, <3>1, Answers
  <2>7. CASE ~IsDisabled(call[t].spec)
    <3>1. bindingWatches[b] \in Watches /\ watch[bindingWatches[b]] = call[t]
      BY <1>1, <2>1, <2>5, <2>7 DEF Progress
    <3>2. Registry!WatchesOf(watch, b) = {bindingWatches[b]}
      BY <2>3, <2>4, <3>1
    <3>3. ~hasBindingChanged(call[t].spec, watch[bindingWatches[b]].spec)
      BY <2>1, <3>1, SameSpecIsNoChange
    <3>4. QED
      BY <1>1, <1>2, <2>7, <3>1, <3>2, <3>3, Answers
  <2>8. QED
    BY <2>6, <2>7
<1>4. QED
  BY <1>1, <1>2, <1>3, Finishes

\* Cancelling what was taken out of the map ends the call that deletes the binding, and is
\* due in any case.
LEMMA CancelStoppedStep ==
    ASSUME IInv, TypeOK', NEW t \in Threads, CancelStopped(t)
    PROVE  Registry!RegistryNext \/ UNCHANGED <<running, Task, LiveWatches>>
<1>1. /\ pc[t] = "cancel" /\ pc[t] \in CriticalPc
      /\ IF hand[t] = NoWatch THEN watch' = watch ELSE watch' = [watch EXCEPT ![hand[t]] = Cancelled]
      /\ IF IsDelete(t) THEN mutex' = NoThread ELSE UNCHANGED <<mutex, call>>
      /\ UNCHANGED <<running, bindingWatches>>
  BY DEF CancelStopped, CancelHand, Cancel, Return, environment, CriticalPc
<1>2. mutex = t /\ Task = call[t] /\ Task \in Call /\ Task # NoCall
  BY <1>1, CallSeen
<1>3. IsDelete(t) => Task' = NoCall
  BY <1>1, CallSeen
<1>4. ~IsDelete(t) => Task' = Task
  BY <1>1 DEF Task
<1>5. CASE ~running
  <2>1. LiveWatches' = LiveWatches
    BY <1>1, <1>5, WatchesSeen
  <2>2. QED
    BY <1>1, <1>2, <1>3, <1>4, <1>5, <2>1, Finishes
<1>6. CASE running
  <2> DEFINE b == call[t].binding
  <2>1. /\ bindingWatches[b] = NoWatch
        /\ hand[t] # NoWatch /\ ~IsDelete(t) =>
               hasBindingChanged(call[t].spec, watch[hand[t]].spec)
    BY <1>1, <1>2, <1>6, HolderWatches DEF Progress, IsChange
  <2>2. /\ \A w \in Watches : w \in Registry!WatchesOf(watch, b) <=> w = hand[t]
        /\ hand[t] # NoWatch => hand[t] \in Watches
    BY <1>2, <1>6, <2>1, HolderWatches, WatchesAreNotMarkers DEF IInv, TypeOK
  <2>3. LiveWatches' = watch' /\ LiveWatches = watch
    BY <1>1, <1>6, WatchesSeen DEF IInv
  <2>4. ASSUME NEW w \in Watches, w = hand[t], w # NoWatch
        PROVE  Registry!Cancel(w)
    <3>1. /\ watch' = [watch EXCEPT ![w] = Cancelled]
          /\ w \in Registry!WatchesOf(watch, call[t].binding)
          /\ IsDelete(t) \/ hasBindingChanged(call[t].spec, watch[w].spec)
      BY <1>1, <2>1, <2>2, <2>4
    <3>2. TypeOK /\ running' = running
      BY <1>1 DEF IInv
    <3>3. QED
      BY <1>2, <1>6, <3>1, <3>2, Cancels
  <2>5. CASE IsDelete(t)
    <3>1. Registry!WatchesOf(watch', b) = {}
      <4>1. \A f, w : w \in Registry!WatchesOf(f, b) <=>
                /\ w \in Watches
                /\ f[w] # Cancelled /\ f[w].binding = b
        BY DEF Registry!WatchesOf
      <4>2. \A w \in Watches : watch'[w] = Cancelled \/ (w # hand[t] /\ watch'[w] = watch[w])
        BY <1>1, WatchesAreNotMarkers DEF IInv, TypeOK
      <4>3. \A w : w \notin Registry!WatchesOf(watch', b)
        BY <2>2, <4>1, <4>2
      <4>4. QED
        BY <4>3
    <3>2. Registry!Answered(LiveWatches')
      BY <1>2, <2>3, <2>5, <3>1, Answers
    <3>3. LiveWatches' = LiveWatches \/ \E w \in Watches : Registry!Cancel(w)
      <4>1. CASE hand[t] = NoWatch
        BY <1>1, <2>3, <4>1
      <4>2. CASE hand[t] # NoWatch
        BY <2>2, <2>4, <4>2
      <4>3. QED
        BY <4>1, <4>2
    <3>4. QED
      BY <1>1, <1>2, <1>3, <2>5, <3>2, <3>3, Finishes
  <2>6. CASE ~IsDelete(t)
    <3>1. CASE hand[t] = NoWatch
      BY <1>1, <1>4, <2>3, <2>6, <3>1
    <3>2. CASE hand[t] # NoWatch
      <4>1. PICK w \in Watches : Registry!Cancel(w)
        BY <2>2, <2>4, <3>2
      <4>2. QED
        BY <1>1, <1>2, <1>4, <2>6, <4>1, Withdraws
    <3>3. QED
      BY <3>1, <3>2
  <2>7. QED
    BY <2>5, <2>6
<1>7. QED
  BY <1>5, <1>6

\* A new watch starts only when its binding has none.
LEMMA CreateStep ==
    ASSUME IInv, TypeOK', NEW t \in Threads, CreateWatchesForTargets(t)
    PROVE  Registry!RegistryNext \/ UNCHANGED <<running, Task, LiveWatches>>
<1>1. /\ pc[t] = "create" /\ pc[t] \in CriticalPc /\ ~IsDelete(t) /\ hand[t] = NoWatch
      /\ watch' = [watch EXCEPT ![NewWatch] = call[t]]
      /\ UNCHANGED <<running, mutex, call>>
  BY DEF CreateWatchesForTargets, environment, CriticalPc, IInv, ControlInv
<1>2. mutex = t /\ Task = call[t] /\ Task \in Call /\ Task # NoCall /\ Task' = Task
  BY <1>1, CallSeen DEF Task
<1>3. CASE ~running
  BY <1>1, <1>2, <1>3, WatchesSeen
<1>4. CASE running
  <2>1. NewWatch \in Watches /\ watch[NewWatch] = Cancelled
    BY NewWatchIsUnused DEF CreateWatchesForTargets, Unused
  <2>2. ~IsDisabled(call[t].spec) /\ bindingWatches[call[t].binding] = NoWatch
    BY <1>1, <1>2, <1>4, HolderWatches DEF Progress
  <2>3. Registry!WatchesOf(watch, call[t].binding) = {}
    <3>1. Registry!WatchesOf(watch, call[t].binding) \subseteq Watches
      BY DEF Registry!WatchesOf
    <3>2. QED
      BY <1>1, <1>2, <1>4, <2>2, <3>1, HolderWatches, WatchesAreNotMarkers
  <2>4. LiveWatches' = watch' /\ LiveWatches = watch
    BY <1>1, <1>4, WatchesSeen DEF IInv
  <2>5. Registry!WantsWatch(call[t].spec)
    BY <1>1, <2>2, SameComparison DEF Registry!WantsWatch, IsDelete
  <2>6. QED
    BY <1>1, <1>2, <1>4, <2>1, <2>3, <2>4, <2>5, Serves
<1>5. QED
  BY <1>3, <1>4

\* Each step of a call is one step of Registry or none.
LEMMA HandleStep ==
    ASSUME IInv, TypeOK', NEW t \in Threads, HandleProfileBindingChange(t)
    PROVE  Registry!RegistryNext \/ UNCHANGED <<running, Task, LiveWatches>>
<1>1. CASE LockMutex(t)
  <2>1. /\ pc[t] = "lock" /\ mutex = NoThread /\ mutex' = t
        /\ UNCHANGED <<running, call, watch>>
    BY <1>1 DEF LockMutex, MutexIsFree, environment, maps
  <2>2. call[t] \in Call
    BY <2>1, StatesAreNotMarkers DEF IInv, TypeOK, ControlInv, HandlePc
  <2>3. Task = NoCall /\ Task' = call[t]
    BY <2>1, ThreadsAreNotMarkers DEF Task
  <2>4. QED
    BY <2>1, <2>2, <2>3, WatchesSeen, Begins
<1>2. CASE ForgetBinding(t) \/ UpdateInformers(t) \/ StopInformersForBinding(t)
           \/ StoreWatches(t)
  <2>1. UNCHANGED <<running, mutex, call, watch>>
    BY <1>2 DEF ForgetBinding, UpdateInformers, StopInformersForBinding, StoreWatches,
                environment, maps
  <2>2. QED
    BY <2>1, WatchesSeen DEF Task
<1>3. CASE SetupInformersForBinding(t)
  <2>1. /\ pc[t] = "setup" /\ pc[t] \in CriticalPc
        /\ bindingWatches[call[t].binding] = NoWatch => watch' = watch
        /\ UNCHANGED <<running, mutex, call>>
    BY <1>3 DEF SetupInformersForBinding, environment, CriticalPc
  <2>2. running => bindingWatches[call[t].binding] = NoWatch
    BY <2>1, CallSeen, HolderWatches DEF Progress
  <2>3. QED
    BY <2>1, <2>2, WatchesSeen DEF Task
<1>4. QED
  BY <1>1, <1>2, <1>3, KeepStep, CancelStoppedStep, CreateStep, ActivateStep
     DEF HandleProfileBindingChange

-----------------------------------------------------------------------------
(* The theorem                                                             *)

\* The maps, the mutex and the steps between them implement WatchRegistry: calls are
\* answered one at a time, a watch is cancelled only for a call that supersedes it, its
\* successor starts only once it is cancelled, and the call returns with the binding
\* watched as it asked, whatever the other thread does in between.
THEOREM AgentImplementsRegistry == Spec => ImplementsRegistry
<1>1. Init => Registry!RegistryInit
  BY DEF Init, Registry!RegistryInit
<1>2. IInv /\ IInv' /\ [Next]_vars => [Registry!RegistryNext]_(Registry!registryVars)
  <2> SUFFICES ASSUME IInv, TypeOK', [Next]_vars
               PROVE  Registry!RegistryNext \/ UNCHANGED <<running, Task, LiveWatches>>
    BY DEF IInv, Registry!registryVars, Task, LiveWatches
  <2>1. CASE Next
    BY <2>1, OutsideStep, HandleStep DEF Next
  <2>2. CASE UNCHANGED vars
    BY <2>2, WatchesSeen DEF Task, vars, environment, agentVars, maps
  <2>3. QED
    BY <2>1, <2>2
<1>3. QED
  BY <1>1, <1>2, Invariance, PTL DEF Spec, ImplementsRegistry, Registry!RegistrySpec
=============================================================================
