-------------------------- MODULE ProfileController --------------------------
(***************************************************************************)
(* ProfileReconciler (profile_controller.go) for one Profile: it keeps a   *)
(* finalizer on it, validates its template and reports the outcome in its  *)
(* status.  Profiles share nothing, so one is enough.                      *)
(***************************************************************************)
EXTENDS ApiObject

VARIABLES
    pc,             \* where Reconcile is
    profile,        \* its working copy
    wanted,         \* the finalizer list a patch sends
    lost            \* the last status write failed for good

work == <<pc, profile, wanted, lost>>
vars == <<versions, queued, fresh, budget, work>>

-----------------------------------------------------------------------------
(* Types                                                                   *)

\* "none": no conditions; "pending": as initializeProfileConditions sets them
Conditions == {"none", "pending", "ready", "invalid"}

\* valid: what validateProfile says of the template.  observed: the
\* observedGeneration, 0 when it is nil.
Profile ==
    [finalizers : SUBSET Finalizers, deleting : BOOLEAN, valid : BOOLEAN,
     generation : 1..Budget, condition : Conditions, observed : 0..Budget]

ASSUME AbsentIsNoProfile == Absent \notin Profile

TypeOK ==
    /\ ApiTypeOK(Profile)
    /\ pc \in {"idle", "patchGet", "patch", "statusGet", "statusUpdate"}
    /\ profile \in Profile \cup {Absent}
    /\ pc # "idle" => profile # Absent
    /\ wanted \subseteq Finalizers
    /\ lost \in BOOLEAN

Init ==
    /\ ApiInit
    /\ pc = "idle"
    /\ profile = Absent
    /\ wanted = {}
    /\ lost = FALSE

-----------------------------------------------------------------------------
(* Users and other controllers                                             *)

UserCreates ==
    /\ \E valid \in BOOLEAN, finalizers \in {{}, {"other"}} :
           Create([finalizers |-> finalizers, deleting |-> FALSE, valid |-> valid,
                   generation |-> 1, condition |-> "none", observed |-> 0])
    /\ UNCHANGED <<queued, work>>

UserEdits ==
    /\ Live # Absent
    /\ Spend
    /\ \E valid \in BOOLEAN :
           Write([Live EXCEPT !.valid = valid, !.generation = Live.generation + 1])
    /\ UNCHANGED <<queued, work>>

Environment ==
    \/ UserCreates \/ UserEdits
    \/ (Delete \/ OthersFinalizer) /\ UNCHANGED <<queued, work>>

-----------------------------------------------------------------------------
(* Reconcile                                                               *)

Done(requeue) ==
    /\ pc' = "idle"
    /\ profile' = Absent
    /\ wanted' = {}
    /\ queued' = (queued \/ requeue)

\* (mutant) the conditions are initialized every time
InitialConditionsAlways(object) == [object EXCEPT !.condition = "pending"]

\* (mutant) an invalid template is reported as ready
ReadyWithoutValidation(object) ==
    IF object.condition = "none"
    THEN [object EXCEPT !.condition = "pending", !.observed = object.generation]
    ELSE [object EXCEPT !.condition = "ready"]

\* (mutant) an edit starts the validation over
InitialConditionsOnEdit(object) ==
    IF object.condition = "none" \/ object.observed # object.generation
    THEN [object EXCEPT !.condition = "pending", !.observed = object.generation]
    ELSE [object EXCEPT !.condition = IF object.valid THEN "ready" ELSE "invalid"]

\* (mutant) a verdict, once given, stays
VerdictForEver(object) ==
    IF object.condition = "none"
    THEN [object EXCEPT !.condition = "pending", !.observed = object.generation]
    ELSE IF object.condition = "pending"
    THEN [object EXCEPT !.condition = IF object.valid THEN "ready" ELSE "invalid"]
    ELSE object

\* (mutant) the observedGeneration is one too high
ObservedTooHigh(object) ==
    [object EXCEPT !.condition = "pending", !.observed = object.generation + 1]

\* initializeProfileConditions, or validateProfile and markProfileAs*: only the
\* former sets the observedGeneration
NextStatus(object) ==
    IF object.condition = "none"
    THEN [object EXCEPT !.condition = "pending", !.observed = object.generation]
    ELSE [object EXCEPT !.condition = IF object.valid THEN "ready" ELSE "invalid"]

\* A deleted object needs the patch if it has the finalizer, another one if not
NeedsPatch(object) == object.deleting <=> HasFinalizer(object)

\* Reconcile reads the cache and goes to reconcileDelete or reconcileNormal
Reconcile ==
    /\ pc = "idle"
    /\ queued
    /\ queued' = FALSE
    /\ lost' = FALSE
    /\ IF Cached = Absent
       THEN UNCHANGED <<pc, profile>>
       ELSE IF NeedsPatch(Cached)
       THEN pc' = "patchGet" /\ profile' = Cached
       ELSE IF Cached.deleting
       THEN UNCHANGED <<pc, profile>>
       ELSE pc' = "statusGet" /\ profile' = NextStatus(Cached)
    /\ UNCHANGED <<versions, fresh, wanted, budget>>

\* CreateOrPatch gets the object again, from the cache, and mutates it.  When it
\* is gone, Create is refused because the copy has a resourceVersion.  With
\* nothing to change the call succeeds: requeue only on the normal path.
PatchGet ==
    /\ pc = "patchGet"
    /\ IF Cached = Absent
       THEN Done(TRUE)
       ELSE LET mutated == IF profile.deleting THEN Cached.finalizers \ {"own"}
                                               ELSE Cached.finalizers \cup {"own"}
            IN  IF mutated = Cached.finalizers
                THEN Done(~profile.deleting)
                ELSE /\ wanted' = mutated
                     /\ pc' = "patch"
                     /\ UNCHANGED <<profile, queued>>
    /\ UNCHANGED <<versions, fresh, lost, budget>>

\* The API server refuses to patch an object that is gone, and to add a
\* finalizer to one that is being deleted
PatchRefused ==
    IF Live = Absent THEN TRUE ELSE Live.deleting /\ ~(wanted \subseteq Live.finalizers)

\* A merge patch replaces the whole list and carries no resourceVersion
Patch ==
    /\ pc = "patch"
    /\ ~PatchRefused
    /\ Write([Live EXCEPT !.finalizers = wanted])
    /\ Done(~profile.deleting)
    /\ UNCHANGED <<lost, budget>>

\* (mutant) the error is logged and the key forgotten
PatchGivesUp ==
    /\ pc = "patch"
    /\ IF PatchRefused THEN UNCHANGED budget ELSE Spend
    /\ Done(FALSE)
    /\ UNCHANGED <<versions, fresh, lost>>

\* Reconcile returns the error, so the key is queued again
PatchFails ==
    /\ pc = "patch"
    /\ IF PatchRefused THEN UNCHANGED budget ELSE Spend
    /\ Done(TRUE)
    /\ UNCHANGED <<versions, fresh, lost>>

\* updateProfileStatus gets the latest object, from the cache.  Only the reconcile
\* that initialized the conditions asks to be requeued.
StatusGet ==
    /\ pc = "statusGet"
    /\ IF Cached = Absent
       THEN Done(profile.condition = "pending") /\ UNCHANGED fresh
       ELSE /\ pc' = "statusUpdate"
            /\ fresh' = CacheIsLive
            /\ UNCHANGED <<profile, wanted, queued>>
    /\ UNCHANGED <<versions, lost, budget>>

\* Status().Update: the status of the working copy, on the object just read
StatusUpdate ==
    /\ pc = "statusUpdate"
    /\ ~Conflict
    /\ Write([Live EXCEPT !.condition = profile.condition, !.observed = profile.observed])
    /\ Done(profile.condition = "pending")
    /\ UNCHANGED <<lost, budget>>

\* A conflict, or any other error, is logged and swallowed
StatusUpdateFails ==
    /\ pc = "statusUpdate"
    /\ IF Conflict THEN UNCHANGED <<lost, budget>> ELSE Spend /\ lost' = TRUE
    /\ Done(profile.condition = "pending")
    /\ UNCHANGED <<versions, fresh>>

-----------------------------------------------------------------------------

Controller ==
    \/ Reconcile \/ PatchGet \/ Patch \/ PatchFails
    \/ StatusGet \/ StatusUpdate \/ StatusUpdateFails

CacheStep == CacheCatchesUp /\ UNCHANGED work

ResyncStep == Resync /\ UNCHANGED work

\* Wherever Reconcile is: its working copy is lost
Restart ==
    /\ Relist
    /\ pc' = "idle"
    /\ profile' = Absent
    /\ wanted' = {}
    /\ lost' = FALSE

Next == Environment \/ CacheStep \/ ResyncStep \/ Controller \/ Restart

Spec == Init /\ [][Next]_vars

\* The worker runs, and the informer's watch delivers
Fairness == WF_vars(Controller) /\ WF_vars(CacheStep)

FairSpec == Spec /\ Fairness

-----------------------------------------------------------------------------
(* Properties                                                              *)

Quiet == pc = "idle" /\ ~queued /\ CacheIsLive

\* The status of an object that is not being deleted says what its template is
StatusIsTrue ==
    Live # Absent =>
        \/ Live.deleting
        \/ HasFinalizer(Live) /\ Live.condition = IF Live.valid THEN "ready" ELSE "invalid"

\* Stale reads, conflicts and patches of the whole finalizer list leave nothing
\* undone: when the controller has nothing left to do, the Profile has the
\* finalizer and the right conditions, unless the last status write was lost to
\* an error that no later event makes up for.
QuietMeansValidated == Quiet /\ ~lost => StatusIsTrue

\* A deleted Profile never waits for a controller that has nothing left to do.
QuietMeansReleased ==
    Quiet /\ Live # Absent => ~(Live.deleting /\ HasFinalizer(Live))

\* A verdict is never taken back: no write from a stale copy resets the
\* conditions of a Profile that has been validated.
VerdictIsNotReset ==
    [][(Live # Absent /\ Live' # Absent) =>
           (Live.condition \in {"ready", "invalid"} => Live'.condition # "pending")]_vars

\* Status writes and patches queue the Profile again, and that ends: between two
\* resyncs the controller comes to rest, provided the cache is up to date time and again when a reconcile
\* begins.  Without that proviso two reconciles can put back, for ever, the
\* observedGeneration each of them read before the other's write arrived.
Converges ==
    []<>(pc = "idle" /\ CacheIsLive) /\ <>[][~ResyncStep]_vars
        => <>[](pc = "idle" /\ ~queued)

\* A Profile being deleted is released, however stale the cache and whatever
\* finalizers others hold.
DeletionIsReleased ==
    (Live # Absent /\ Live.deleting) ~> (Live = Absent \/ ~HasFinalizer(Live))

\* A status write that was lost is made up for by a resync.
LostStatusIsRepaired == WF_vars(ResyncStep) => <>[]StatusIsTrue

-----------------------------------------------------------------------------
(* The inductive invariant behind the safety properties                    *)

HasOwn(object) == IF object = Absent THEN FALSE ELSE HasFinalizer(object)
Kept(object) == IF object = Absent THEN FALSE ELSE HasFinalizer(object) /\ ~object.deleting
Leaving(object) == IF object = Absent THEN FALSE ELSE HasFinalizer(object) /\ object.deleting

\* The finalizer is there, so that the next step is to initialize the conditions
Raw(object) ==
    IF object = Absent THEN FALSE
    ELSE HasFinalizer(object) /\ ~object.deleting /\ object.condition = "none"

Judged(object) ==
    IF object = Absent THEN FALSE ELSE object.condition \in {"ready", "invalid"}

\* What the cache can still show is never older than one change of the finalizer.
\* A Profile that has it keeps it, and its conditions, until the cache shows the
\* deletion; only then can another one of that name come.
HistoryInv ==
    /\ \A a, b \in Known : Precedes(a, b) =>
           /\ ~(HasOwn(a) <=> HasOwn(b)) => (HasOwn(Live) <=> HasOwn(b))
           /\ Kept(a) => HasOwn(b)
           /\ Leaving(a) => ~Kept(b)
           /\ Kept(a) /\ a.condition # "none" => b.condition # "none"
    /\ Judged(Live) => \A object \in Known : ~Raw(object)
    /\ Live # Absent => Live.generation + budget <= Budget

\* What a patch will do to the finalizer it has done already, or does to all that
\* the cache can show
PatchInv ==
    /\ pc \in {"patchGet", "patch"} =>
           IF profile.deleting
           THEN /\ \A object \in Known : ~Kept(object)
                /\ HasOwn(Live) => \A object \in Known : HasOwn(object)
           ELSE HasOwn(Live) \/ \A object \in Known : ~HasOwn(object)
    /\ pc = "patch" => ("own" \in wanted <=> ~profile.deleting)

\* Conditions are initialized before anybody has judged the Profile, and judged
\* when the cache can no longer show it without conditions
StatusInv ==
    /\ pc \in {"statusGet", "statusUpdate"} =>
           /\ \A object \in Known : HasOwn(object)
           /\ \/ profile.condition = "pending" /\ ~Judged(Live)
              \/ /\ profile.condition \in {"ready", "invalid"}
                 /\ \A object \in Known : ~Raw(object)
    /\ pc = "statusUpdate" /\ fresh => CacheIsLive /\ Live # Absent

\* An undisturbed reconcile works on the cached state and changes something, unless
\* there is nothing to change
RestInv ==
    /\ ~queued /\ pc # "idle" => Cached # Absent
    /\ ~queued /\ pc \in {"patchGet", "patch"} => profile = Cached /\ NeedsPatch(Cached)
    /\ ~queued /\ pc = "patch" => wanted # Cached.finalizers
    /\ ~queued /\ pc \in {"statusGet", "statusUpdate"} =>
           ~Cached.deleting /\ HasFinalizer(Cached) /\ profile = NextStatus(Cached)
    /\ ~queued /\ CacheIsLive /\ pc = "statusUpdate" => fresh
    /\ Quiet /\ Live # Absent => ~NeedsPatch(Live)
    /\ Quiet /\ ~lost => StatusIsTrue

\* What relates the versions of the Profile and the copy a reconcile works on,
\* between any two calls of the API server.
IInv == TypeOK /\ HistoryInv /\ PatchInv /\ StatusInv /\ RestInv

-----------------------------------------------------------------------------

\* "observedGeneration reflects the generation most recently observed by the
\* controller" (profile_types.go:83)
GenerationIsObserved ==
    Quiet /\ ~lost /\ Live # Absent =>
        Live.deleting \/ Live.observed = Live.generation
=============================================================================
