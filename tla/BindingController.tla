-------------------------- MODULE BindingController --------------------------
(***************************************************************************)
(* ProfileBindingReconciler (profilebinding_controller.go) for one         *)
(* ProfileBinding, against the API server and a lagging informer cache:    *)
(* the finalizer, the calls of the agent, the condition and the deferred   *)
(* status write.                                                           *)
(*                                                                         *)
(* HandleProfileBindingChange holds the agent's mutex from end to end, so  *)
(* it is one step here (BindingAgent takes it apart).  The agent's         *)
(* start-up loop is the second caller, as in BindingAgent.  The goroutines *)
(* of a watch apply the Profile once: what matters here is whether they    *)
(* have, and that they only can while the Profile exists.                  *)
(***************************************************************************)
EXTENDS TargetSelector, ApiObject

CONSTANT Specs      \* the specs a user may write

ASSUME SpecsAreNotMarkers == NoBinding \notin Specs

VARIABLES
    profileExists,  \* the referenced Profile is in the informer cache
    pc,             \* where Reconcile is
    binding,        \* its working copy
    requeue,        \* what it will return, once the deferred status write is done
    lost,           \* the last status write failed, and not for a conflict
    activeBinding,  \* agent.activeBindings[key]
    application,    \* what became of the watch the agent has for the binding
    starter,        \* the agent's start-up loop
    listed,         \* the binding in its list
    lastCaller      \* (history) who last called HandleProfileBindingChange

agentVars == <<activeBinding, application, lastCaller>>
starterVars == <<starter, listed>>
work == <<pc, binding, requeue, lost>>
apiVars == <<versions, queued, fresh, budget>>
vars == <<apiVars, profileExists, work, agentVars, starterVars>>

-----------------------------------------------------------------------------
(* Types                                                                   *)

\* The reason of the Ready condition; "none": there is no condition
Reasons == {"none", "Disabled", "ProfileNotFound", "Applied"}

ProfileBinding ==
    [spec : Specs, finalizers : SUBSET Finalizers, deleting : BOOLEAN,
     generation : 1..Budget, ready : Reasons, observed : 0..Budget]

ASSUME AbsentIsNoBinding == Absent \notin ProfileBinding

TypeOK ==
    /\ ApiTypeOK(ProfileBinding)
    /\ profileExists \in BOOLEAN
    /\ pc \in {"idle", "delete", "update", "handle", "condition", "status"}
    /\ binding \in ProfileBinding \cup {Absent}
    /\ pc \notin {"idle", "delete"} => binding # Absent
    /\ requeue \in BOOLEAN
    /\ lost \in BOOLEAN
    /\ activeBinding \in Specs \cup {NoBinding}
    /\ application \in {"none", "pending", "applied", "failed"}
    /\ starter \in {"list", "handle", "waiting"}
    /\ listed \in Specs \cup {NoBinding}
    /\ lastCaller \in {"nobody", "worker", "starter"}

Init ==
    /\ ApiInit
    /\ profileExists \in BOOLEAN
    /\ pc = "idle"
    /\ binding = Absent
    /\ requeue = FALSE
    /\ lost = FALSE
    /\ activeBinding = NoBinding
    /\ application = "none"
    /\ starter = "list"
    /\ listed = NoBinding
    /\ lastCaller = "nobody"

-----------------------------------------------------------------------------
(* Users, other controllers and the informers                              *)

UserCreates ==
    \E spec \in Specs, finalizers \in {{}, {"other"}} :
        Create([spec |-> spec, finalizers |-> finalizers, deleting |-> FALSE,
                generation |-> 1, ready |-> "none", observed |-> 0])

UserEdits ==
    /\ Live # Absent
    /\ Spend
    /\ \E spec \in Specs \ {Live.spec} :
           Write([Live EXCEPT !.spec = spec, !.generation = Live.generation + 1])

OthersWrite ==
    /\ UserCreates \/ UserEdits \/ Delete \/ OthersFinalizer
    /\ UNCHANGED <<queued, profileExists, work, agentVars, starterVars>>

\* The binding's controller does not watch Profiles: no key is queued
ProfileChanges ==
    /\ Spend
    /\ profileExists' = ~profileExists
    /\ UNCHANGED <<versions, queued, fresh, work, agentVars, starterVars>>

CacheStep ==
    CacheCatchesUp /\ UNCHANGED <<profileExists, work, agentVars, starterVars>>

ResyncStep ==
    Resync /\ UNCHANGED <<profileExists, work, agentVars, starterVars>>

-----------------------------------------------------------------------------
(* The agent                                                               *)

\* handleProfileBindingDelete
ForgetBinding(caller) ==
    /\ activeBinding' = NoBinding
    /\ application' = "none"
    /\ lastCaller' = caller

\* handleProfileBindingCreateOrUpdate: a change starts a new watch
HandleBinding(caller, spec) ==
    /\ lastCaller' = caller
    /\ IF hasBindingChanged(spec, activeBinding)
       THEN /\ activeBinding' = spec
            /\ application' = IF IsDisabled(spec) THEN "none" ELSE "pending"
       ELSE UNCHANGED <<activeBinding, application>>

\* A goroutine of the watch gets the Profile and applies it, or finds nothing
\* to apply.  It runs once.
MonitorRuns ==
    /\ application = "pending"
    /\ application' = IF profileExists THEN "applied" ELSE "failed"
    /\ UNCHANGED <<apiVars, profileExists, work, activeBinding, lastCaller, starterVars>>

\* initializeExistingBindings: List, then HandleProfileBindingChange for the item
StarterLists ==
    /\ starter = "list"
    /\ IF Cached = Absent THEN starter' = "waiting" /\ UNCHANGED listed
                          ELSE starter' = "handle" /\ listed' = Cached.spec
    /\ UNCHANGED <<apiVars, profileExists, work, agentVars>>

StarterHandles ==
    /\ starter = "handle"
    /\ HandleBinding("starter", listed)
    /\ starter' = "waiting"
    /\ listed' = NoBinding
    /\ UNCHANGED <<apiVars, profileExists, work>>

-----------------------------------------------------------------------------
(* Reconcile                                                               *)

\* Reconcile returns; the result decides whether the key comes back
Return(again) ==
    /\ pc' = "idle"
    /\ binding' = Absent
    /\ requeue' = FALSE
    /\ queued' = (queued \/ again)

\* What a reconcile does first
FirstStep(object) ==
    IF object = Absent THEN "delete"
    ELSE IF object.deleting THEN "delete"
    ELSE IF ~HasFinalizer(object) THEN "update"
    ELSE "handle"

\* The Get
Reconcile ==
    /\ pc = "idle"
    /\ queued
    /\ queued' = FALSE
    /\ lost' = FALSE
    /\ pc' = FirstStep(Cached)
    /\ binding' = Cached
    /\ fresh' = (CacheIsLive /\ Cached # Absent)
    /\ UNCHANGED <<versions, budget, profileExists, requeue, agentVars, starterVars>>

\* (mutant) the agent is told after the finalizer has been removed, so never
DeleteWithoutAgent ==
    /\ pc = "delete"
    /\ UNCHANGED <<agentVars, lost>>
    /\ IF binding = Absent THEN Return(FALSE)
                           ELSE pc' = "update" /\ UNCHANGED <<binding, requeue, queued>>
    /\ UNCHANGED <<versions, fresh, budget, profileExists, starterVars>>

\* (mutant) a binding being deleted is treated as one that is gone
DeleteAsGone ==
    /\ pc = "delete"
    /\ ForgetBinding("worker")
    /\ Return(FALSE)
    /\ UNCHANGED <<versions, fresh, budget, profileExists, lost, starterVars>>

\* The agent forgets the binding, then the finalizer goes.  A binding that is
\* gone has no status to update.
ReconcileDelete ==
    /\ pc = "delete"
    /\ ForgetBinding("worker")
    /\ IF binding = Absent THEN Return(FALSE)
                           ELSE pc' = "update" /\ UNCHANGED <<binding, requeue, queued>>
    /\ UNCHANGED <<versions, fresh, budget, profileExists, lost, starterVars>>

WantedFinalizers ==
    IF binding.deleting THEN binding.finalizers \ {"own"} ELSE binding.finalizers \cup {"own"}

\* Update of the whole object, its status excepted.  Without an error only the
\* addition of the finalizer comes back, a second later.
UpdateFinalizer ==
    /\ pc = "update"
    /\ ~Conflict
    /\ WriteBack([Live EXCEPT !.finalizers = WantedFinalizers])
    /\ binding' = [binding EXCEPT !.finalizers = WantedFinalizers]
    /\ requeue' = ~binding.deleting
    /\ pc' = "status"
    /\ UNCHANGED <<queued, budget, profileExists, lost, agentVars, starterVars>>

\* (mutant) the error is not returned
UpdateGivesUp ==
    /\ pc = "update"
    /\ IF Conflict THEN UNCHANGED budget ELSE Spend
    /\ pc' = "status"
    /\ UNCHANGED <<versions, queued, fresh, profileExists, binding, requeue, lost,
                   agentVars, starterVars>>

\* A conflict, or any other error, is returned
UpdateFails ==
    /\ pc = "update"
    /\ IF Conflict THEN UNCHANGED budget ELSE Spend
    /\ requeue' = TRUE
    /\ pc' = "status"
    /\ UNCHANGED <<versions, queued, fresh, profileExists, binding, lost, agentVars,
                   starterVars>>

\* (mutant) the agent is only told of bindings without a condition
HandleOnce ==
    /\ pc = "handle"
    /\ IF binding.ready = "none"
       THEN HandleBinding("worker", binding.spec)
       ELSE lastCaller' = "worker" /\ UNCHANGED <<activeBinding, application>>
    /\ pc' = "condition"
    /\ UNCHANGED <<apiVars, profileExists, binding, requeue, lost, starterVars>>

HandleProfileBindingChange ==
    /\ pc = "handle"
    /\ HandleBinding("worker", binding.spec)
    /\ pc' = "condition"
    /\ UNCHANGED <<apiVars, profileExists, binding, requeue, lost, starterVars>>

\* (mutant) the condition of a binding that has none stays as initialized
ReasonOnce == IF binding.ready = "none" THEN "Initializing" ELSE binding.ready

\* The agent has just started the goroutines; whether they apply anything is
\* not looked at
Reason ==
    IF IsDisabled(binding.spec) THEN "Disabled"
    ELSE IF profileExists THEN "Applied"
    ELSE "ProfileNotFound"

SetReadyCondition ==
    /\ pc = "condition"
    /\ binding' = [binding EXCEPT !.ready = Reason]
    /\ pc' = "status"
    /\ UNCHANGED <<apiVars, profileExists, requeue, lost, agentVars, starterVars>>

\* (mutant) observedGeneration is set with the first condition only
FirstGeneration(object) == IF object.observed = 0 THEN object.generation ELSE object.observed

ObservedGeneration(object) == object.generation

\* (mutant) the status goes to the latest version of the object
ForcedStatus ==
    /\ pc = "status"
    /\ Live # Absent
    /\ Write([Live EXCEPT !.ready = binding.ready, !.observed = ObservedGeneration(Live)])
    /\ Return(requeue)
    /\ UNCHANGED <<budget, profileExists, lost, agentVars, starterVars>>

\* (mutant) every reconcile asks for another one
RequeueingStatus ==
    /\ pc = "status"
    /\ ~Conflict
    /\ Write([Live EXCEPT !.ready = binding.ready, !.observed = ObservedGeneration(binding)])
    /\ Return(TRUE)
    /\ UNCHANGED <<budget, profileExists, lost, agentVars, starterVars>>

\* The deferred updateStatus, on the object as this reconcile knows it
UpdateStatus ==
    /\ pc = "status"
    /\ ~Conflict
    /\ Write([Live EXCEPT !.ready = binding.ready, !.observed = ObservedGeneration(binding)])
    /\ Return(requeue)
    /\ UNCHANGED <<budget, profileExists, lost, agentVars, starterVars>>

\* Any error of it is logged, and nothing else
UpdateStatusFails ==
    /\ pc = "status"
    /\ IF Conflict THEN UNCHANGED <<budget, lost>> ELSE Spend /\ lost' = TRUE
    /\ Return(requeue)
    /\ UNCHANGED <<versions, fresh, profileExists, agentVars, starterVars>>

-----------------------------------------------------------------------------

Controller ==
    \/ Reconcile \/ ReconcileDelete
    \/ UpdateFinalizer \/ UpdateFails
    \/ HandleProfileBindingChange \/ SetReadyCondition
    \/ UpdateStatus \/ UpdateStatusFails

Agent == StarterLists \/ StarterHandles \/ MonitorRuns

\* The agent forgets its bindings and its goroutines end with the process; Start lists again
Restart ==
    /\ Relist
    /\ pc' = "idle"
    /\ binding' = Absent
    /\ requeue' = FALSE
    /\ lost' = FALSE
    /\ activeBinding' = NoBinding
    /\ application' = "none"
    /\ starter' = "list"
    /\ listed' = NoBinding
    /\ lastCaller' = "nobody"
    /\ UNCHANGED profileExists

Next ==
    OthersWrite \/ ProfileChanges \/ CacheStep \/ ResyncStep \/ Controller \/ Agent \/ Restart

Spec == Init /\ [][Next]_vars

\* The worker, the start-up loop and the goroutines run; the informer's watch
\* delivers
Fairness ==
    /\ WF_vars(Controller)
    /\ WF_vars(StarterLists \/ StarterHandles)
    /\ WF_vars(MonitorRuns)
    /\ WF_vars(CacheStep)

FairSpec == Spec /\ Fairness

-----------------------------------------------------------------------------
(* Properties                                                              *)

Quiet == pc = "idle" /\ ~queued /\ CacheIsLive

Alive == IF Live = Absent THEN FALSE ELSE ~Live.deleting

\* The finalizer does its job: as long as the agent, told by the reconciler, runs
\* the watches of a binding, the API server still holds the binding with the
\* operator's finalizer on it, however stale the copies reconciled in between.
FinalizerCoversWatches ==
    lastCaller = "worker" /\ activeBinding # NoBinding =>
        IF Live = Absent THEN FALSE ELSE HasFinalizer(Live)

\* When the reconciler has nothing left to do, no deleted binding waits for its
\* finalizer to go, and a binding that stays has it.
QuietMeansReleased ==
    Quiet /\ Live # Absent => (HasFinalizer(Live) <=> ~Live.deleting)

\* From the API server to the agent: when the reconciler has nothing left to do and
\* called the agent last, the agent's copy stands for the live spec.
QuietMeansTracked ==
    Quiet /\ lastCaller = "worker" =>
        IF Alive THEN ~hasBindingChanged(Live.spec, activeBinding)
                 ELSE activeBinding = NoBinding

\* An up-to-date observedGeneration vouches for the condition beside it, even
\* before the reconciler comes to rest: a status is never written on a spec other
\* than the one it was computed from.
ObservedMeansJudged ==
    Alive =>
        (Live.ready # "none" /\ Live.observed = Live.generation =>
            (Live.ready = "Disabled" <=> IsDisabled(Live.spec)))

\* When the reconciler has nothing left to do, the live generation has been
\* observed and has a condition, unless the last status write was lost to an error
\* other than a conflict.
QuietMeansReported ==
    Quiet /\ ~lost /\ Alive => Live.ready # "none" /\ Live.observed = Live.generation

\* The reconciler's own writes stop waking it up: between two resyncs it comes to
\* rest.
Converges == <>[][~ResyncStep]_vars => <>[](pc = "idle" /\ ~queued)

\* A binding being deleted is released, however stale the cache, and whatever
\* fails or conflicts on the way.
DeletionIsReleased ==
    (Live # Absent /\ Live.deleting) ~> (Live = Absent \/ ~HasFinalizer(Live))

-----------------------------------------------------------------------------
(* The inductive invariant behind them                                     *)

LiveHasFinalizer == IF Live = Absent THEN FALSE ELSE HasFinalizer(Live)

\* A binding without the finalizer has never been judged, and a verdict that names
\* the binding's generation is about its spec
Sound(object) ==
    /\ object.observed <= object.generation
    /\ ~object.deleting =>
           /\ ~HasFinalizer(object) => object.ready = "none"
           /\ object.ready # "none" /\ object.observed = object.generation =>
                  (object.ready = "Disabled" <=> IsDisabled(object.spec))

\* The finalizer stays as long as the cache can show the binding alive with it
VersionsInv ==
    /\ \A object \in Known \ {Absent} :
           /\ Sound(object)
           /\ HasFinalizer(object) /\ ~object.deleting => LiveHasFinalizer
    /\ Live # Absent => Live.generation + budget <= Budget

\* Reconcile has not changed its copy yet
Reading == pc \in {"delete", "update", "handle", "condition"}

\* What the copy is, where Reconcile is with it
CopyInv ==
    /\ pc = "delete" => binding = Absent \/ binding.deleting
    /\ pc = "update" => binding.deleting \/ ~HasFinalizer(binding)
    /\ pc \in {"handle", "condition"} =>
           ~binding.deleting /\ HasFinalizer(binding) /\ LiveHasFinalizer
    /\ Reading /\ binding # Absent => Sound(binding)
    /\ pc = "status" /\ ~binding.deleting /\ binding.ready # "none" =>
           /\ HasFinalizer(binding)
           /\ binding.ready = "Disabled" <=> IsDisabled(binding.spec)

\* A copy the API server will accept is what it holds, the status apart
FreshInv ==
    /\ fresh /\ Reading => CacheIsLive /\ Live # Absent /\ binding = Live
    /\ fresh /\ pc = "status" =>
           /\ Live # Absent
           /\ binding.spec = Live.spec
           /\ binding.finalizers = Live.finalizers
           /\ binding.deleting = Live.deleting
           /\ binding.generation = Live.generation

\* Nothing will wake the reconciler up
Undisturbed == ~queued /\ CacheIsLive

Released == Live # Absent => (HasFinalizer(Live) <=> ~Live.deleting)

\* An undisturbed reconcile works on the live object, and does not end before the object
\* has or has lost the finalizer and the status is about to be written
RestInv ==
    /\ Reading /\ ~queued => binding = Cached
    /\ pc # "idle" /\ Undisturbed => fresh \/ Live = Absent \/ (pc = "status" /\ requeue)
    /\ pc = "status" /\ Undisturbed /\ ~requeue =>
           Released /\ (Alive => binding.ready # "none")
    /\ pc = "idle" /\ Undisturbed => Released
    /\ pc = "idle" /\ Undisturbed /\ ~lost /\ Alive =>
           Live.ready # "none" /\ Live.observed = Live.generation

\* What the agent was told by the reconciler, and whether it still holds
InStep ==
    IF Alive THEN ~hasBindingChanged(Live.spec, activeBinding)
             ELSE activeBinding = NoBinding

AgentInv ==
    lastCaller = "worker" =>
        /\ activeBinding # NoBinding => LiveHasFinalizer
        /\ pc = "update" /\ binding.deleting => activeBinding = NoBinding
        /\ pc = "condition" => ~hasBindingChanged(binding.spec, activeBinding)
        /\ pc = "status" /\ Undisturbed /\ ~requeue => InStep
        /\ pc = "idle" /\ Undisturbed => InStep

\* What relates the versions of the binding, the copy a reconcile works on and the
\* agent, between any two calls of the API server or the agent.
IInv == TypeOK /\ VersionsInv /\ CopyInv /\ FreshInv /\ RestInv /\ AgentInv

-----------------------------------------------------------------------------

\* Ready: "ProfileBinding has successfully applied the profile"
\* (profilebinding_controller.go:41): once reconciler and goroutines are at rest
\* and no status write was lost, a binding that is Ready has had its Profile applied.
ReadyMeansApplied ==
    Quiet /\ ~lost /\ application # "pending" /\ Alive =>
        (Live.ready = "Applied" => application = "applied")
=============================================================================
