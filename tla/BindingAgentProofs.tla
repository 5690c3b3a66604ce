------------------------- MODULE BindingAgentProofs -------------------------
(* The safety properties of BindingAgent, for any bindings, specs and watches. *)
EXTENDS BindingAgentInvariant, TargetSelectorProofs

(* Facts about the operators *)

\* The watch CreateWatchesForTargets makes is one that nobody refers to.
LEMMA NewWatchIsUnused ==
    ASSUME NEW w \in Watches, Unused(w)
    PROVE  NewWatch \in Watches /\ Unused(NewWatch)
BY DEF NewWatch

\* Worker and starter are two threads.
LEMMA TwoThreads ==
    /\ Worker \in Threads /\ Starter \in Threads /\ Worker # Starter
    /\ \A t \in Threads : t = Worker \/ t = Starter
BY DEF Threads, Worker, Starter

\* The initial state satisfies the invariant.
LEMMA InitIInv == Init => IInv
<1> SUFFICES ASSUME Init PROVE IInv
  OBVIOUS
<1> USE TwoThreads, ThreadsAreNotMarkers
<1>1. TypeOK
  BY DEF Init, TypeOK, WorkerPc, StarterPc
<1>2. ControlInv
  BY DEF Init, ControlInv, WorkerPc, StarterPc, HandlePc, CriticalPc, RangePc
<1>3. WatchInv
  BY DEF Init, WatchInv, Agree, UncancelledIsHeld, MappedIsUncancelled, HandIsUncancelled,
         HolderProgress, OthersAgree
<1>4. WorkerInv
  BY DEF Init, WorkerInv, CriticalPc
<1>5. QED
  BY <1>1, <1>2, <1>3, <1>4 DEF IInv

\* Types and control: one step per action.
LEMMA ControlStep == TypeOK /\ ControlInv /\ [Next]_vars => TypeOK' /\ ControlInv'
<1> SUFFICES ASSUME TypeOK, ControlInv, [Next]_vars PROVE TypeOK' /\ ControlInv'
  OBVIOUS
<1> USE TwoThreads, ThreadsAreNotMarkers, StatesAreNotMarkers
<1> USE DEF TypeOK, ControlInv, WorkerPc, StarterPc, HandlePc, CriticalPc, RangePc, Goto, Call,
        agentVars, environment, maps, starterVars, IsDelete
<1>1. ASSUME NEW b \in Bindings, CacheEvent(b) PROVE TypeOK' /\ ControlInv'
  BY <1>1 DEF CacheEvent
<1>2. ASSUME NEW b \in Bindings, Resync(b) PROVE TypeOK' /\ ControlInv'
  BY <1>2 DEF Resync
<1>3. CASE Shutdown
  BY <1>3 DEF Shutdown
<1>4. ASSUME NEW b \in Bindings, WorkerTake(b) PROVE TypeOK' /\ ControlInv'
  <2>1. RequestedSpec(b) \in Specs \cup {NoBinding}
    BY DEF RequestedSpec, ProfileBinding
  <2>2. call'[Worker] \in Call /\ call'[Worker] # NoCall
    BY <1>4, <2>1 DEF WorkerTake
  <2>3. QED
    BY <1>4, <2>2 DEF WorkerTake
<1>5. CASE WorkerExit
  BY <1>5 DEF WorkerExit
<1>6. CASE StarterList
  BY <1>6 DEF StarterList, ProfileBinding
<1>7. CASE StarterListFails
  BY <1>7 DEF StarterListFails
<1>8. CASE StarterNext
  BY <1>8 DEF StarterNext
<1>9. CASE StarterReady
  BY <1>9 DEF StarterReady
<1>10. CASE StopAllInformers
  BY <1>10 DEF StopAllInformers
<1>11. ASSUME NEW b \in Bindings, RangeVisit(b) PROVE TypeOK' /\ ControlInv'
  BY <1>11 DEF RangeVisit
<1>12. CASE RangeCancel
  BY <1>12 DEF RangeCancel, CancelHand, Cancel
<1>13. CASE RangeDelete
  BY <1>13 DEF RangeDelete
<1>14. CASE RangeDone
  BY <1>14 DEF RangeDone
<1>15. CASE ClearActiveBindings
  BY <1>15 DEF ClearActiveBindings
<1>16. ASSUME NEW t \in Threads, LockMutex(t) PROVE TypeOK' /\ ControlInv'
  BY <1>16 DEF LockMutex, MutexIsFree
<1>17. ASSUME NEW t \in Threads, ForgetBinding(t) PROVE TypeOK' /\ ControlInv'
  BY <1>17 DEF ForgetBinding, DeleteActive
<1>18. ASSUME NEW t \in Threads, KeepInformers(t) PROVE TypeOK' /\ ControlInv'
  BY <1>18 DEF KeepInformers, Return, AfterCall
<1>19. ASSUME NEW t \in Threads, UpdateInformers(t) PROVE TypeOK' /\ ControlInv'
  BY <1>19 DEF UpdateInformers
<1>20. ASSUME NEW t \in Threads, StopInformersForBinding(t) PROVE TypeOK' /\ ControlInv'
  BY <1>20 DEF StopInformersForBinding
<1>21. ASSUME NEW t \in Threads, CancelStopped(t) PROVE TypeOK' /\ ControlInv'
  BY <1>21 DEF CancelStopped, CancelHand, Cancel, Return, AfterCall
<1>22. ASSUME NEW t \in Threads, SetupInformersForBinding(t) PROVE TypeOK' /\ ControlInv'
  BY <1>22 DEF SetupInformersForBinding, Cancel
<1>23. ASSUME NEW t \in Threads, CreateWatchesForTargets(t) PROVE TypeOK' /\ ControlInv'
  BY <1>23, NewWatchIsUnused DEF CreateWatchesForTargets
<1>24. ASSUME NEW t \in Threads, StoreWatches(t) PROVE TypeOK' /\ ControlInv'
  BY <1>24 DEF StoreWatches
<1>25. ASSUME NEW t \in Threads, ActivateBinding(t) PROVE TypeOK' /\ ControlInv'
  BY <1>25 DEF ActivateBinding, Return, AfterCall
<1>26. CASE UNCHANGED vars
  BY <1>26 DEF vars, agentVars, environment, maps, starterVars
<1>27. QED
  BY <1>1, <1>2, <1>3, <1>4, <1>5, <1>6, <1>7, <1>8, <1>9, <1>10, <1>11, <1>12, <1>13, <1>14,
     <1>15, <1>16, <1>17, <1>18, <1>19, <1>20, <1>21, <1>22, <1>23, <1>24, <1>25, <1>26
     DEF Next, Environment, StarterStep, HandleProfileBindingChange

\* The thread that holds the mutex handles a known binding, and its progress is
\* as WatchInv says.
LEMMA HolderFacts ==
    ASSUME TypeOK, ControlInv, WatchInv, running, NEW t \in Threads, pc[t] \in CriticalPc
    PROVE  /\ mutex = t
           /\ call[t] \in Call
           /\ Progress(t)
<1>1. mutex = t
  BY DEF ControlInv
<1>2. call[t] \in Call
  BY DEF TypeOK, ControlInv, HandlePc
<1>3. Progress(t)
  BY <1>1 DEF WatchInv, HolderProgress
<1>4. QED
  BY <1>1, <1>2, <1>3

\* Cancelling what was popped touches no watch of the map.
LEMMA CancelKeepsMapped ==
    ASSUME TypeOK, ControlInv, WatchInv, running, NEW t \in Threads, CancelStopped(t)
    PROVE  MappedIsUncancelled'
<1>1. /\ bindingWatches' = bindingWatches
      /\ watch' = IF hand[t] = NoWatch THEN watch
                  ELSE [watch EXCEPT ![hand[t]] = Cancelled]
  BY DEF CancelStopped, CancelHand, Cancel
<1>2. pc[t] = "cancel" /\ pc[t] \in CriticalPc
  BY DEF CancelStopped, CriticalPc
<1>3. bindingWatches[call[t].binding] = NoWatch
  BY <1>2, HolderFacts DEF Progress
<1>4. hand[t] # NoWatch => watch[hand[t]].binding = call[t].binding
  BY DEF WatchInv, HandIsUncancelled
<1>5. ASSUME NEW b \in Bindings, bindingWatches[b] # NoWatch
      PROVE  /\ watch'[bindingWatches[b]] # Cancelled
             /\ watch'[bindingWatches[b]].binding = b
  <2>1. watch[bindingWatches[b]] # Cancelled /\ watch[bindingWatches[b]].binding = b
    BY <1>5 DEF WatchInv, MappedIsUncancelled
  <2>2. bindingWatches[b] # hand[t]
    BY <2>1, <1>3, <1>4, <1>5
  <2>3. QED
    BY <1>1, <2>1, <2>2 DEF TypeOK
<1>6. QED
  BY <1>1, <1>5 DEF MappedIsUncancelled

\* Storing the new watch overwrites no entry of the map.
LEMMA StoreKeepsHeld ==
    ASSUME TypeOK, ControlInv, WatchInv, running, NEW t \in Threads, StoreWatches(t)
    PROVE  UncancelledIsHeld'
<1>1. /\ bindingWatches' = [bindingWatches EXCEPT ![call[t].binding] = hand[t]]
      /\ watch' = watch
      /\ pc[t] = "store" /\ pc[t] \in CriticalPc
  BY DEF StoreWatches, CriticalPc
<1>2. mutex = t /\ call[t] \in Call /\ Progress(t)
  BY <1>1, HolderFacts
<1>3. /\ bindingWatches[call[t].binding] = NoWatch
      /\ hand[t] # NoWatch /\ watch[hand[t]] = call[t]
  BY <1>1, <1>2 DEF Progress
<1>4. ASSUME NEW w \in Watches, watch[w] # Cancelled
      PROVE  bindingWatches'[watch[w].binding] = w
  <2>1. bindingWatches[watch[w].binding] = w \/ hand[t] = w
    BY <1>2, <1>4 DEF WatchInv, UncancelledIsHeld
  <2>2. watch[w].binding \in Bindings
    BY <1>4 DEF TypeOK
  <2>3. QED
    BY <1>1, <1>3, <2>1, <2>2, WatchesAreNotMarkers DEF TypeOK
<1>5. QED
  BY <1>1, <1>4 DEF UncancelledIsHeld

\* The last step of an update makes the two maps agree.
LEMMA ActivateAgrees ==
    ASSUME TypeOK, ControlInv, WatchInv, running, NEW t \in Threads, ActivateBinding(t)
    PROVE  OthersAgree'
<1>1. /\ activeBindings' = [activeBindings EXCEPT ![call[t].binding] = call[t].spec]
      /\ bindingWatches' = bindingWatches /\ watch' = watch
      /\ pc[t] = "activate" /\ pc[t] \in CriticalPc
  BY DEF ActivateBinding, Return, CriticalPc
<1>2. mutex = t /\ call[t] \in Call /\ Progress(t) /\ ~IsDelete(t)
  BY <1>1, HolderFacts DEF ControlInv
<1>3. /\ call[t].binding \in Bindings /\ call[t].spec # NoBinding
      /\ call[t] = [binding |-> call[t].binding, spec |-> call[t].spec]
  BY <1>2 DEF Call, IsDelete
<1>4. IF IsDisabled(call[t].spec)
      THEN bindingWatches[call[t].binding] = NoWatch
      ELSE /\ bindingWatches[call[t].binding] # NoWatch
           /\ watch[bindingWatches[call[t].binding]] = call[t]
  BY <1>1, <1>2 DEF Progress
<1>5. ASSUME NEW b \in Bindings, b = call[t].binding PROVE Agree(b)'
  BY <1>1, <1>3, <1>4, <1>5 DEF Agree, TypeOK
<1>6. ASSUME NEW b \in Bindings, b # call[t].binding PROVE Agree(b)'
  <2>1. Agree(b)
    BY <1>2, <1>6, TwoThreads DEF WatchInv, OthersAgree
  <2>2. QED
    BY <1>1, <1>6, <2>1 DEF Agree, TypeOK
<1>7. QED
  BY <1>5, <1>6 DEF OthersAgree

\* The maps: one step per action.
LEMMA WatchStep ==
    TypeOK /\ ControlInv /\ WatchInv /\ [Next]_vars => WatchInv'
<1> SUFFICES ASSUME TypeOK, ControlInv, WatchInv, [Next]_vars, running'
             PROVE  /\ UncancelledIsHeld'
                    /\ MappedIsUncancelled'
                    /\ HandIsUncancelled'
                    /\ HolderProgress'
                    /\ OthersAgree'
  BY DEF WatchInv
<1> DEFINE Goal == /\ UncancelledIsHeld'
                   /\ MappedIsUncancelled'
                   /\ HandIsUncancelled'
                   /\ HolderProgress'
                   /\ OthersAgree'
<1>a. TypeOK' /\ ControlInv'
  BY ControlStep
<1>b. ASSUME NEW t \in Threads, CancelStopped(t) PROVE MappedIsUncancelled'
  <2>1. running
    BY <1>b DEF CancelStopped, environment
  <2>2. QED
    BY <1>b, <2>1, CancelKeepsMapped
<1>c. ASSUME NEW t \in Threads, StoreWatches(t) PROVE UncancelledIsHeld'
  <2>1. running
    BY <1>c DEF StoreWatches, environment
  <2>2. QED
    BY <1>c, <2>1, StoreKeepsHeld
<1>d. ASSUME NEW t \in Threads, ActivateBinding(t) PROVE OthersAgree'
  <2>1. running
    BY <1>d DEF ActivateBinding, environment
  <2>2. QED
    BY <1>d, <2>1, ActivateAgrees
<1> USE TwoThreads, ThreadsAreNotMarkers, StatesAreNotMarkers, WatchesAreNotMarkers,
        SpecsAreNotMarkers, <1>a
<1> USE DEF WatchInv, UncancelledIsHeld, MappedIsUncancelled, HandIsUncancelled, HolderProgress,
        OthersAgree, Progress, Agree, IsDelete, IsChange, CriticalPc, HandlePc, RangePc, Goto,
        TypeOK, ControlInv, Call, agentVars, environment, maps, starterVars, WorkerPc, StarterPc
<1>1. ASSUME NEW b \in Bindings, CacheEvent(b) PROVE Goal
  BY <1>1 DEF CacheEvent
<1>2. ASSUME NEW b \in Bindings, Resync(b) PROVE Goal
  BY <1>2 DEF Resync
<1>3. CASE Shutdown
  BY <1>3 DEF Shutdown
<1>4. ASSUME NEW b \in Bindings, WorkerTake(b) PROVE Goal
  BY <1>4 DEF WorkerTake
<1>5. CASE WorkerExit
  BY <1>5 DEF WorkerExit
<1>6. CASE StarterList
  BY <1>6 DEF StarterList
<1>7. CASE StarterListFails
  BY <1>7 DEF StarterListFails
<1>8. CASE StarterNext
  BY <1>8 DEF StarterNext
<1>9. CASE StarterReady
  BY <1>9 DEF StarterReady
<1>10. CASE StopAllInformers
  BY <1>10 DEF StopAllInformers
<1>11. ASSUME NEW b \in Bindings, RangeVisit(b) PROVE Goal
  BY <1>11 DEF RangeVisit
<1>12. CASE RangeCancel
  BY <1>12 DEF RangeCancel, CancelHand, Cancel
<1>13. CASE RangeDelete
  BY <1>13 DEF RangeDelete
<1>14. CASE RangeDone
  BY <1>14 DEF RangeDone
<1>15. CASE ClearActiveBindings
  BY <1>15 DEF ClearActiveBindings
<1>16. ASSUME NEW t \in Threads, LockMutex(t) PROVE Goal
  BY <1>16 DEF LockMutex, MutexIsFree
<1>17. ASSUME NEW t \in Threads, ForgetBinding(t) PROVE Goal
  BY <1>17 DEF ForgetBinding, DeleteActive
<1>18. ASSUME NEW t \in Threads, KeepInformers(t) PROVE Goal
  BY <1>18 DEF KeepInformers, Return, AfterCall
<1>19. ASSUME NEW t \in Threads, UpdateInformers(t) PROVE Goal
  BY <1>19 DEF UpdateInformers
<1>20. ASSUME NEW t \in Threads, StopInformersForBinding(t) PROVE Goal
  BY <1>20 DEF StopInformersForBinding
<1>21. ASSUME NEW t \in Threads, CancelStopped(t) PROVE Goal
  <2>1. UncancelledIsHeld'
    BY <1>21 DEF CancelStopped, CancelHand, Cancel, Return, AfterCall
  <2>2. MappedIsUncancelled'
    BY <1>21, <1>b
  <2>3. HandIsUncancelled'
    BY <1>21 DEF CancelStopped, CancelHand, Cancel, Return, AfterCall
  <2>4. HolderProgress'
    BY <1>21 DEF CancelStopped, CancelHand, Cancel, Return, AfterCall
  <2>5. OthersAgree'
    BY <1>21 DEF CancelStopped, CancelHand, Cancel, Return, AfterCall
  <2>6. QED
    BY <2>1, <2>2, <2>3, <2>4, <2>5
<1>22. ASSUME NEW t \in Threads, SetupInformersForBinding(t) PROVE Goal
  BY <1>22 DEF SetupInformersForBinding, Cancel
<1>23. ASSUME NEW t \in Threads, CreateWatchesForTargets(t) PROVE Goal
  BY <1>23, NewWatchIsUnused DEF CreateWatchesForTargets, Unused
<1>24. ASSUME NEW t \in Threads, StoreWatches(t) PROVE Goal
  <2>1. UncancelledIsHeld'
    BY <1>24, <1>c
  <2>2. MappedIsUncancelled'
    BY <1>24 DEF StoreWatches
  <2>3. HandIsUncancelled'
    BY <1>24 DEF StoreWatches
  <2>4. HolderProgress'
    BY <1>24 DEF StoreWatches
  <2>5. OthersAgree'
    BY <1>24 DEF StoreWatches
  <2>6. QED
    BY <2>1, <2>2, <2>3, <2>4, <2>5
<1>25. ASSUME NEW t \in Threads, ActivateBinding(t) PROVE Goal
  <2>1. UncancelledIsHeld'
    BY <1>25 DEF ActivateBinding, Return, AfterCall
  <2>2. MappedIsUncancelled'
    BY <1>25 DEF ActivateBinding, Return, AfterCall
  <2>3. HandIsUncancelled'
    BY <1>25 DEF ActivateBinding, Return, AfterCall
  <2>4. HolderProgress'
    BY <1>25 DEF ActivateBinding, Return, AfterCall
  <2>5. OthersAgree'
    BY <1>25, <1>d
  <2>6. QED
    BY <2>1, <2>2, <2>3, <2>4, <2>5
<1>26. CASE UNCHANGED vars
  BY <1>26 DEF vars, agentVars, environment, maps, starterVars
<1>27. QED
  BY <1>1, <1>2, <1>3, <1>4, <1>5, <1>6, <1>7, <1>8, <1>9, <1>10, <1>11, <1>12, <1>13,
     <1>14, <1>15, <1>16, <1>17, <1>18, <1>19, <1>20, <1>21, <1>22, <1>23, <1>24, <1>25, <1>26
     DEF Next, Environment, StarterStep, HandleProfileBindingChange

\* The worker's knowledge: one step per action.
LEMMA WorkerStep ==
    TypeOK /\ ControlInv /\ WatchInv /\ WorkerInv /\ [Next]_vars => WorkerInv'
<1> SUFFICES ASSUME TypeOK, ControlInv, WatchInv, WorkerInv, [Next]_vars, running'
             PROVE  WorkerInv'
  BY DEF WorkerInv
<1>a. ControlInv'
  BY ControlStep
<1>b. ASSUME running, NEW t \in Threads, pc[t] \in CriticalPc
      PROVE  mutex = t /\ call[t] \in Call /\ Progress(t)
  BY <1>b, HolderFacts
<1> USE TwoThreads, ThreadsAreNotMarkers, StatesAreNotMarkers, SpecsAreNotMarkers
<1> USE DEF WorkerInv, InStep, RequestedSpec, Gone, IsDelete, CriticalPc, HandlePc, RangePc, Goto,
        TypeOK, ControlInv, Call, ProfileBinding, agentVars, environment, maps, starterVars,
        WorkerPc, StarterPc
<1>1. ASSUME NEW b \in Bindings, CacheEvent(b) PROVE WorkerInv'
  BY <1>1 DEF CacheEvent
<1>2. ASSUME NEW b \in Bindings, Resync(b) PROVE WorkerInv'
  BY <1>2 DEF Resync
<1>3. CASE Shutdown
  BY <1>3 DEF Shutdown
<1>4. ASSUME NEW b \in Bindings, WorkerTake(b) PROVE WorkerInv'
  BY <1>4 DEF WorkerTake
<1>5. CASE WorkerExit
  BY <1>5 DEF WorkerExit
<1>6. CASE StarterList
  BY <1>6 DEF StarterList
<1>7. CASE StarterListFails
  BY <1>7 DEF StarterListFails
<1>8. CASE StarterNext
  BY <1>8 DEF StarterNext
<1>9. CASE StarterReady
  BY <1>9 DEF StarterReady
<1>10. CASE StopAllInformers
  BY <1>10 DEF StopAllInformers
<1>11. ASSUME NEW b \in Bindings, RangeVisit(b) PROVE WorkerInv'
  BY <1>11 DEF RangeVisit
<1>12. CASE RangeCancel
  BY <1>12 DEF RangeCancel, CancelHand, Cancel
<1>13. CASE RangeDelete
  BY <1>13 DEF RangeDelete
<1>14. CASE RangeDone
  BY <1>14 DEF RangeDone
<1>15. CASE ClearActiveBindings
  BY <1>15 DEF ClearActiveBindings
<1>16. ASSUME NEW t \in Threads, LockMutex(t) PROVE WorkerInv'
  BY <1>16 DEF LockMutex, MutexIsFree
<1>17. ASSUME NEW t \in Threads, ForgetBinding(t) PROVE WorkerInv'
  BY <1>17 DEF ForgetBinding, DeleteActive
<1>18. ASSUME NEW t \in Threads, KeepInformers(t) PROVE WorkerInv'
  BY <1>18 DEF KeepInformers, Return, AfterCall, IsChange
<1>19. ASSUME NEW t \in Threads, UpdateInformers(t) PROVE WorkerInv'
  BY <1>19 DEF UpdateInformers
<1>20. ASSUME NEW t \in Threads, StopInformersForBinding(t) PROVE WorkerInv'
  BY <1>20 DEF StopInformersForBinding
<1>21. ASSUME NEW t \in Threads, CancelStopped(t) PROVE WorkerInv'
  BY <1>21, <1>b DEF CancelStopped, CancelHand, Cancel, Return, AfterCall, Progress
<1>22. ASSUME NEW t \in Threads, SetupInformersForBinding(t) PROVE WorkerInv'
  BY <1>22 DEF SetupInformersForBinding, Cancel
<1>23. ASSUME NEW t \in Threads, CreateWatchesForTargets(t) PROVE WorkerInv'
  BY <1>23 DEF CreateWatchesForTargets
<1>24. ASSUME NEW t \in Threads, StoreWatches(t) PROVE WorkerInv'
  BY <1>24 DEF StoreWatches
<1>25. ASSUME NEW t \in Threads, ActivateBinding(t) PROVE WorkerInv'
  BY <1>25, <1>b, SameSpecIsNoChange DEF ActivateBinding, Return, AfterCall
<1>26. CASE UNCHANGED vars
  BY <1>26 DEF vars, agentVars, environment, maps, starterVars
<1>27. QED
  BY <1>1, <1>2, <1>3, <1>4, <1>5, <1>6, <1>7, <1>8, <1>9, <1>10, <1>11, <1>12, <1>13,
     <1>14, <1>15, <1>16, <1>17, <1>18, <1>19, <1>20, <1>21, <1>22, <1>23, <1>24, <1>25, <1>26
     DEF Next, Environment, StarterStep, HandleProfileBindingChange

\* A step cancels no watch for nothing: only CancelStopped changes the state of a
\* live watch while the operator runs.
LEMMA CancelStep == IInv /\ [Next]_vars => [CancelIsDue]_vars
<1> SUFFICES ASSUME IInv, Next, running',
                    NEW w \in Watches, Live(w), watch'[w] # watch[w]
             PROVE  \E t \in Threads :
                        /\ mutex = t
                        /\ call[t].binding = watch[w].binding
                        /\ IsDelete(t) \/ hasBindingChanged(call[t].spec, watch[w].spec)
  BY DEF CancelIsDue
<1> USE TwoThreads
<1>1. TypeOK /\ ControlInv /\ WatchInv
  BY DEF IInv
<1>2. running /\ watch[w] # Cancelled
  BY DEF Live
<1>3. ASSUME NEW t \in Threads, CancelStopped(t)
      PROVE  /\ mutex = t
             /\ call[t].binding = watch[w].binding
             /\ IsDelete(t) \/ hasBindingChanged(call[t].spec, watch[w].spec)
  <2>1. pc[t] = "cancel" /\ pc[t] \in CriticalPc
    BY <1>3 DEF CancelStopped, CriticalPc
  <2>2. hand[t] = w /\ hand[t] # NoWatch
    BY <1>1, <1>3, WatchesAreNotMarkers DEF CancelStopped, CancelHand, Cancel, TypeOK
  <2>3. watch[w].binding = call[t].binding
    BY <1>1, <1>2, <2>2 DEF WatchInv, HandIsUncancelled
  <2>4. mutex = t /\ Progress(t)
    BY <1>1, <1>2, <2>1, HolderFacts
  <2>5. ~IsDelete(t) => hasBindingChanged(call[t].spec, watch[w].spec)
    BY <2>1, <2>2, <2>4 DEF Progress, IsChange
  <2>6. QED
    BY <2>3, <2>4, <2>5
<1>4. ASSUME NEW t \in Threads, SetupInformersForBinding(t) PROVE FALSE
  <2>1. pc[t] = "setup" /\ pc[t] \in CriticalPc
    BY <1>4 DEF SetupInformersForBinding, CriticalPc
  <2>2. bindingWatches[call[t].binding] = NoWatch
    BY <1>1, <1>2, <2>1, HolderFacts DEF Progress
  <2>3. QED
    BY <1>4, <2>2 DEF SetupInformersForBinding
<1>5. ASSUME NEW t \in Threads, CreateWatchesForTargets(t) PROVE FALSE
  <2>1. NewWatch # w
    BY <1>2, <1>5, NewWatchIsUnused DEF CreateWatchesForTargets, Unused
  <2>2. QED
    BY <1>1, <1>5, <2>1 DEF CreateWatchesForTargets, TypeOK
<1>6. CASE RangeCancel
  BY <1>1, <1>2, <1>6 DEF RangeCancel, ControlInv, HandlePc, CriticalPc
<1>7. CASE UNCHANGED watch
  BY <1>7
<1>8. QED
  BY <1>3, <1>4, <1>5, <1>6, <1>7
     DEF Next, Environment, CacheEvent, Resync, Shutdown, WorkerTake, WorkerExit, StarterStep,
         StarterList, StarterListFails, StarterNext, StarterReady, StopAllInformers, RangeVisit,
         RangeDelete, RangeDone, ClearActiveBindings, HandleProfileBindingChange, LockMutex,
         ForgetBinding, KeepInformers, UpdateInformers, StopInformersForBinding, StoreWatches,
         ActivateBinding, agentVars, environment, maps, starterVars

-----------------------------------------------------------------------------
(* The theorems                                                            *)

\* The invariant holds in every reachable state.
THEOREM Invariance == Spec => []IInv
<1>1. Init => IInv
  BY InitIInv
<1>2. IInv /\ [Next]_vars => IInv'
  BY ControlStep, WatchStep, WorkerStep DEF IInv
<1>3. QED
  BY <1>1, <1>2, PTL DEF Spec

\* Every variable keeps its type (the fields and maps of ProfileBindingAgent and
\* InformerManager).
THEOREM TypeCorrect == Spec => []TypeOK
<1>1. IInv => TypeOK
  BY DEF IInv
<1>2. QED
  BY <1>1, Invariance, PTL

\* Worker and starter never leave two running watches for one ProfileBinding.
THEOREM OneLiveWatchPerBinding == Spec => []AtMostOneLiveWatch
<1>1. IInv => AtMostOneLiveWatch
  <2> SUFFICES ASSUME IInv,
                      NEW v \in Watches, NEW w \in Watches,
                      running, watch[v] # Cancelled, watch[w] # Cancelled,
                      watch[v].binding = watch[w].binding
               PROVE  v = w
    BY DEF AtMostOneLiveWatch, Live
  <2> DEFINE Mapped(x) == bindingWatches[watch[x].binding] = x
             Held(x) == \E t \in Threads : mutex = t /\ hand[t] = x
  <2>1. TypeOK /\ ControlInv /\ WatchInv
    BY DEF IInv
  <2>2. /\ Mapped(v) \/ Held(v)
        /\ Mapped(w) \/ Held(w)
    BY <2>1 DEF WatchInv, UncancelledIsHeld
  <2>3. ASSUME NEW x \in Watches, watch[x] # Cancelled, Held(x)
        PROVE  bindingWatches[watch[x].binding] # NoWatch => Mapped(x)
    <3>1. PICK t \in Threads : mutex = t /\ hand[t] = x
      BY <2>3
    <3>2. pc[t] \in {"cancel", "store"} /\ pc[t] \in CriticalPc
      BY <2>1, <3>1, WatchesAreNotMarkers DEF ControlInv, CriticalPc
    <3>3. bindingWatches[call[t].binding] = NoWatch
      BY <2>1, <3>2, HolderFacts DEF Progress
    <3>4. watch[x].binding = call[t].binding
      BY <2>1, <3>1, WatchesAreNotMarkers DEF WatchInv, HandIsUncancelled
    <3>5. QED
      BY <3>3, <3>4
  <2>4. CASE Mapped(v) /\ Mapped(w)
    BY <2>4
  <2>5. CASE Held(v) /\ Held(w)
    BY <2>5
  <2>6. CASE Mapped(v) /\ Held(w)
    BY <2>3, <2>6, WatchesAreNotMarkers
  <2>7. CASE Held(v) /\ Mapped(w)
    BY <2>3, <2>7, WatchesAreNotMarkers
  <2>8. QED
    BY <2>2, <2>4, <2>5, <2>6, <2>7
<1>2. QED
  BY <1>1, Invariance, PTL

\* No running watch is ever out of reach of the code that must cancel it.
THEOREM NoWatchLeaks == Spec => []LiveWatchIsReachable
<1>1. IInv => LiveWatchIsReachable
  BY DEF IInv, WatchInv, UncancelledIsHeld, LiveWatchIsReachable, Live
<1>2. QED
  BY <1>1, Invariance, PTL

\* activeBindings and bindingWatches agree whenever the mutex is free.
THEOREM MapsAgree == Spec => []WatchesAgreeWithActive
<1>1. IInv => WatchesAgreeWithActive
  BY ThreadsAreNotMarkers DEF IInv, WatchInv, OthersAgree, Agree, WatchesAgreeWithActive
<1>2. QED
  BY <1>1, Invariance, PTL

\* The worker's path loses no edit, deletion or re-creation.
THEOREM WorkerIsUpToDate == Spec => []WorkerLeavesBindingInStep
<1>1. IInv => WorkerLeavesBindingInStep
  BY TwoThreads DEF IInv, WorkerInv, WorkerLeavesBindingInStep, Quiet
<1>2. QED
  BY <1>1, Invariance, PTL

\* Informers are restarted only for a deletion or a significant change.
THEOREM NoNeedlessRestart == Spec => OnlyChangesCancelWatches
<1>1. IInv /\ [Next]_vars => [CancelIsDue]_vars
  BY CancelStep
<1>2. QED
  BY <1>1, Invariance, PTL DEF Spec, OnlyChangesCancelWatches
=============================================================================
