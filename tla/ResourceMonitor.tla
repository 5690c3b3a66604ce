--------------------------- MODULE ResourceMonitor ---------------------------
(***************************************************************************)
(* What a watch does: for each of its kinds a goroutine (monitorResources) *)
(* reads the Profile, lists the targets and has ProfileApplicator write    *)
(* the Profile into each of them, once.  A call of the agent takes effect  *)
(* in one step, as WatchRegistry has it: a goroutine cannot tell when      *)
(* between its own steps it was cancelled or its successor started.  It    *)
(* is told by its context, and nobody waits for it.                        *)
(*                                                                         *)
(* Lists and writes go straight to the API server, since the manager's     *)
(* client caches no unstructured objects.  A request is in flight from the *)
(* moment it is sent until the server handles it, or it is lost; its       *)
(* sender may have given it up by then.                                    *)
(*                                                                         *)
(* A target is its labels, for everything users write, and its overlay,    *)
(* the fields a Profile sets.  `version` stands for resourceVersion and    *)
(* uid: it is never used twice for one name.                               *)
(***************************************************************************)
EXTENDS TargetSelector, SequencesExt

CONSTANTS
    Bindings,       \* the keys (namespace/name) of ProfileBindings
    Specs,          \* the specs a ProfileBinding can have
    MaxWatches,     \* bound: watches ever created
    Targets,        \* the names of the objects of the cluster
    KindOf,         \* target |-> its GVK
    NamespaceOf,    \* target |-> its namespace
    OwnNamespace,   \* the namespace of the bindings
    LabelSets,      \* the labels users give to targets
    ProfileNames,
    ProfileStates,  \* the Profiles users write, each [patch, strategy]
    NoPatch,        \* patchStrategicMerge is nil
    Plain,          \* the overlay of an object no profile was applied to
    Absent,         \* the object does not exist
    Nobody,         \* no goroutine
    Budget,         \* bound: what users do to Profiles and targets
    MaxLate         \* bound: requests in flight nobody waits for

ASSUME BoundsAreNumbers == {MaxWatches, Budget, MaxLate} \subseteq Nat

VARIABLES
    cluster,        \* the targets, on the API server
    version,        \* their resourceVersions
    profiles,       \* the Profiles, in the informer cache
    binding,        \* the binding a BindingWatches was made from
    cancelled,      \* the watches whose context is cancelled
    pc,             \* where each goroutine is
    profile,        \* the Profile it read
    namespaces,     \* the namespaces it has not listed yet
    unlisted,       \* (history) the namespaces it could not list
    allResources,   \* what its lists returned
    results,        \* how it went for the first of them: "updated" or "failed"
    inFlight,       \* requests the API server has not handled
    writer,         \* (history) the goroutine that wrote a target's overlay
    touched,        \* (history) the targets users created, edited or deleted
    budget          \* what users may still do

clusterVars == <<cluster, version, writer>>
watchVars == <<binding, cancelled>>
userVars == <<touched, budget>>
progress == <<pc, profile, namespaces, unlisted, allResources>>
vars == <<clusterVars, profiles, watchVars, progress, results, inFlight, userVars>>

-----------------------------------------------------------------------------
(* Types                                                                   *)

Watches == 1..MaxWatches

GVKs == UNION { WatchedGVKs(spec) : spec \in Specs }
Namespaces == UNION { TargetNamespaces(spec, OwnNamespace) : spec \in Specs }

\* One goroutine for each watch and kind
Monitors == [watch : Watches, gvk : GVKs]

Patches == { state.patch : state \in ProfileStates } \ {NoPatch}

Object == [labels : LabelSets, overlay : Patches \cup {Plain}]

\* A target as a List returned it
Item == [target : Targets, version : Nat, object : Object]

\* The write of an element of allResources
Request == [monitor : Monitors, index : Nat]

ASSUME TargetsAreFinite == IsFiniteSet(Targets)

ASSUME SpecsNameAProfile ==
    \A spec \in Specs :
        /\ spec.profileRef \in ProfileNames
        /\ spec.namespaces \in Seq(Range(spec.namespaces))
ASSUME ProfilesAreComplete ==
    ProfileStates \subseteq [patch    : { state.patch : state \in ProfileStates },
                            strategy : {"SSA", "Patch"}]
ASSUME MarkersAreDistinct ==
    /\ Absent \notin ProfileStates \cup Object
    /\ NoBinding \notin [key : Bindings, spec : Specs]
    /\ Nobody \notin Monitors

TypeOK ==
    /\ cluster \in [Targets -> Object \cup {Absent}]
    /\ version \in [Targets -> Nat]
    /\ writer \in [Targets -> Monitors \cup {Nobody}]
    /\ profiles \in [ProfileNames -> ProfileStates \cup {Absent}]
    /\ binding \in [Watches -> [key : Bindings, spec : Specs] \cup {NoBinding}]
    /\ cancelled \subseteq Watches
    /\ pc \in [Monitors -> {"off", "profile", "list", "apply", "done"}]
    /\ profile \in [Monitors -> ProfileStates \cup {Absent}]
    /\ namespaces \in [Monitors -> Seq(Namespaces)]
    /\ unlisted \in [Monitors -> SUBSET Namespaces]
    /\ allResources \in [Monitors -> Seq(Item)]
    /\ results \in [Monitors -> Seq({"updated", "failed"})]
    /\ inFlight \subseteq Request
    /\ touched \subseteq Targets
    /\ budget \in 0..Budget

Init ==
    /\ cluster \in [Targets -> [labels : LabelSets, overlay : {Plain}] \cup {Absent}]
    /\ version = [t \in Targets |-> 0]
    /\ writer = [t \in Targets |-> Nobody]
    /\ profiles \in [ProfileNames -> ProfileStates \cup {Absent}]
    /\ binding = [w \in Watches |-> NoBinding]
    /\ cancelled = {}
    /\ pc = [m \in Monitors |-> "off"]
    /\ profile = [m \in Monitors |-> Absent]
    /\ namespaces = [m \in Monitors |-> <<>>]
    /\ unlisted = [m \in Monitors |-> {}]
    /\ allResources = [m \in Monitors |-> <<>>]
    /\ results = [m \in Monitors |-> <<>>]
    /\ inFlight = {}
    /\ touched = {}
    /\ budget \in 0..Budget

-----------------------------------------------------------------------------
(* Users and other controllers                                             *)

Spend == budget > 0 /\ budget' = budget - 1

Store(t, object, who) ==
    /\ cluster' = [cluster EXCEPT ![t] = object]
    /\ version' = [version EXCEPT ![t] = @ + 1]
    /\ writer' = [writer EXCEPT ![t] = who]

UserCreates(t) ==
    /\ cluster[t] = Absent
    /\ \E labels \in LabelSets : Store(t, [labels |-> labels, overlay |-> Plain], Nobody)

UserEdits(t) ==
    /\ cluster[t] # Absent
    /\ \E object \in [labels : LabelSets, overlay : {cluster[t].overlay, Plain}] \ {cluster[t]} :
           Store(t, object, Nobody)

UserDeletes(t) ==
    /\ cluster[t] # Absent
    /\ Store(t, Absent, Nobody)

TargetChanges(t) ==
    /\ Spend
    /\ UserCreates(t) \/ UserEdits(t) \/ UserDeletes(t)
    /\ touched' = touched \cup {t}
    /\ UNCHANGED <<watchVars, profiles, progress, results, inFlight>>

ProfileChanges(p) ==
    /\ Spend
    /\ \E state \in (ProfileStates \cup {Absent}) \ {profiles[p]} :
           profiles' = [profiles EXCEPT ![p] = state]
    /\ UNCHANGED <<watchVars, clusterVars, progress, results, inFlight, touched>>

-----------------------------------------------------------------------------
(* The agent                                                               *)

WatchesOf(b) ==
    { w \in Watches \ cancelled : binding[w] # NoBinding /\ binding[w].key = b }

\* createWatchesForTargets: the next BindingWatches, one goroutine for each kind of the rule
CreateWatches(w, b, spec) ==
    /\ { v \in Watches : binding[v] # NoBinding } = 1..(w - 1)
    /\ binding' = [binding EXCEPT ![w] = [key |-> b, spec |-> spec]]
    /\ pc' = [m \in Monitors |->
                  IF m.watch = w /\ m.gvk \in WatchedGVKs(spec) THEN "profile" ELSE pc[m]]

\* (mutant) the new watch takes the place of the old one in the map, uncancelled
ReplaceWatch(b, spec) ==
    /\ \A w \in WatchesOf(b) : hasBindingChanged(spec, binding[w].spec)
    /\ UNCHANGED cancelled
    /\ IF IsDisabled(spec) THEN UNCHANGED <<binding, pc>>
                           ELSE \E w \in Watches : CreateWatches(w, b, spec)

\* A binding that did not change keeps its watch.  The old watch is not waited for.
SetupInformersForBinding(b, spec) ==
    /\ \A w \in WatchesOf(b) : hasBindingChanged(spec, binding[w].spec)
    /\ cancelled' = cancelled \cup WatchesOf(b)
    /\ IF IsDisabled(spec) THEN UNCHANGED <<binding, pc>>
                           ELSE \E w \in Watches : CreateWatches(w, b, spec)

\* Deletion, and shutdown as the goroutines of this binding see it
StopInformersForBinding(b) ==
    /\ cancelled' = cancelled \cup WatchesOf(b)
    /\ UNCHANGED <<binding, pc>>

AgentStep ==
    /\ \E b \in Bindings :
           \/ \E spec \in Specs : SetupInformersForBinding(b, spec)
           \/ StopInformersForBinding(b)
    /\ UNCHANGED <<clusterVars, profiles, profile, namespaces, unlisted, allResources,
                   results, inFlight, userVars>>

\* The goroutine's context, and its WatchHandler.binding
IsCancelled(m) == m.watch \in cancelled
SpecOf(m) == binding[m.watch].spec

-----------------------------------------------------------------------------
(* applyProfileToExistingResources                                         *)

Goto(m, label) == pc' = [pc EXCEPT ![m] = label]

NamespacesInOrder(spec) ==
    IF spec.namespaces = <<>> THEN <<OwnNamespace>> ELSE spec.namespaces

\* The Get is answered by the cache, with or without a context
GetProfile(m) ==
    /\ pc[m] = "profile"
    /\ profiles[SpecOf(m).profileRef] # Absent
    /\ Goto(m, "list")
    /\ profile' = [profile EXCEPT ![m] = profiles[SpecOf(m).profileRef]]
    /\ namespaces' = [namespaces EXCEPT ![m] = NamespacesInOrder(SpecOf(m))]
    /\ UNCHANGED <<watchVars, clusterVars, profiles, unlisted, allResources,
                   results, inFlight, userVars>>

\* Not found, or any other error: it is logged, and that is all
GetProfileFails(m) ==
    /\ pc[m] = "profile"
    /\ Goto(m, "done")
    /\ UNCHANGED <<watchVars, clusterVars, profiles, profile, namespaces, unlisted,
                   allResources, results, inFlight, userVars>>

Described(t) ==
    [name |-> t, gvk |-> KindOf[t], namespace |-> NamespaceOf[t], labels |-> cluster[t].labels]

Existing == { Described(t) : t \in { u \in Targets : cluster[u] # Absent } }

Listed(m, n) ==
    { [target |-> o.name, version |-> version[o.name], object |-> cluster[o.name]] :
          o \in getResourcesInNamespace(Existing, m.gvk, n, SpecOf(m)) }

AfterList(m) == IF Len(namespaces[m]) > 1 THEN "list" ELSE "apply"

\* A List returns its objects in some order
ListNamespace(m) ==
    /\ pc[m] = "list"
    /\ namespaces[m] # <<>>
    /\ ~IsCancelled(m)
    /\ SelectorIsValid(SpecOf(m).objectSelector)
    /\ namespaces' = [namespaces EXCEPT ![m] = Tail(@)]
    /\ \E page \in SetToSeqs(Listed(m, Head(namespaces[m]))) :
           allResources' = [allResources EXCEPT ![m] = @ \o page]
    /\ Goto(m, AfterList(m))
    /\ UNCHANGED <<watchVars, clusterVars, profiles, profile, unlisted,
                   results, inFlight, userVars>>

\* (mutant) the first error ends the loop over the namespaces
ListEnds(m) ==
    /\ pc[m] = "list"
    /\ namespaces[m] # <<>>
    /\ namespaces' = [namespaces EXCEPT ![m] = <<>>]
    /\ unlisted' = [unlisted EXCEPT ![m] = @ \cup {Head(namespaces[m])}]
    /\ Goto(m, "apply")
    /\ UNCHANGED <<watchVars, clusterVars, profiles, profile, allResources,
                   results, inFlight, userVars>>

\* Any error: it is logged, and the next namespace's turn
ListFails(m) ==
    /\ pc[m] = "list"
    /\ namespaces[m] # <<>>
    /\ namespaces' = [namespaces EXCEPT ![m] = Tail(@)]
    /\ unlisted' = [unlisted EXCEPT ![m] = @ \cup {Head(namespaces[m])}]
    /\ Goto(m, AfterList(m))
    /\ UNCHANGED <<watchVars, clusterVars, profiles, profile, allResources,
                   results, inFlight, userVars>>

-----------------------------------------------------------------------------
(* ApplyProfileToResources                                                 *)

\* The element of the loop's present turn, and whether its write was sent
Turn(m) == Len(results[m]) + 1
Waits(m) == [monitor |-> m, index |-> Turn(m)] \in inFlight

\* (mutant) what failed is tried again
CountSuccesses(m, result) ==
    results' = [results EXCEPT ![m] = IF result = "updated" THEN Append(@, result) ELSE @]

\* The call returned: updated++ or failed++, and the loop goes on
Count(m, result) == results' = [results EXCEPT ![m] = Append(@, result)]

\* applyProfileSSA merges the patch into the listed object, and is done when that
\* changes nothing; the Patch strategy does not look
IsUpToDate(m, item) ==
    /\ profile[m].strategy = "SSA"
    /\ profile[m].patch # NoPatch
    /\ item.object.overlay = profile[m].patch

KeepTarget(m, item) ==
    /\ IsUpToDate(m, item)
    /\ Count(m, "updated")
    /\ UNCHANGED inFlight

\* A template without a patch, a cancelled context: there is no request.  (A patch that
\* cannot be merged, or no connection, is the same as a request refused at once.)
FailEarly(m, item) ==
    /\ IsCancelled(m) \/ profile[m].patch = NoPatch
    /\ Count(m, "failed")
    /\ UNCHANGED inFlight

\* (mutant) a nil patch is not noticed
SendAnyPatch(m, item) ==
    /\ ~IsCancelled(m)
    /\ inFlight' = inFlight \cup {[monitor |-> m, index |-> Turn(m)]}
    /\ UNCHANGED results

\* An up-to-date object is sent too, if the merge lays its text out differently: the code
\* compares the texts
Send(m, item) ==
    /\ ~IsCancelled(m)
    /\ profile[m].patch # NoPatch
    /\ inFlight' = inFlight \cup {[monitor |-> m, index |-> Turn(m)]}
    /\ UNCHANGED results

ApplyProfile(m) ==
    /\ pc[m] = "apply"
    /\ Turn(m) <= Len(allResources[m])
    /\ ~Waits(m)
    /\ LET item == allResources[m][Turn(m)]
       IN  KeepTarget(m, item) \/ FailEarly(m, item) \/ Send(m, item)
    /\ UNCHANGED <<watchVars, clusterVars, profiles, progress, userVars>>

\* The goroutine has returned: with an error, with nothing to apply, or after the loop
Ended(m) ==
    \/ pc[m] = "done"
    \/ pc[m] = "apply" /\ Len(results[m]) = Len(allResources[m])

-----------------------------------------------------------------------------
(* The requests                                                            *)

ItemOf(r) == allResources[r.monitor][r.index]
Target(r) == ItemOf(r).target

\* The goroutine has not given the request up
IsAwaited(r) == r.index = Turn(r.monitor)

\* (mutant) the resourceVersion is removed from the object that is applied
AcceptsAnyVersion(r) == cluster[Target(r)] # Absent

\* Server-side apply sends the listed object, resourceVersion and uid included.  A
\* patch only needs the object to exist.
Accepts(r) ==
    IF profile[r.monitor].strategy = "SSA"
    THEN cluster[Target(r)] # Absent /\ version[Target(r)] = ItemOf(r).version
    ELSE cluster[Target(r)] # Absent

\* (mutant) the patch is merged into the listed object and sent whole
WholeObject(r) == [ItemOf(r).object EXCEPT !.overlay = profile[r.monitor].patch]

\* The object the server stores
Result(r) ==
    LET base == IF profile[r.monitor].strategy = "SSA" THEN ItemOf(r).object
                                                       ELSE cluster[Target(r)]
    IN  [base EXCEPT !.overlay = profile[r.monitor].patch]

Handle(r) ==
    /\ Accepts(r)
    /\ inFlight' = inFlight \ {r}
    /\ IF Result(r) = cluster[Target(r)]
       THEN UNCHANGED clusterVars
       ELSE Store(Target(r), Result(r), r.monitor)
    /\ IF IsAwaited(r) THEN Count(r.monitor, "updated") ELSE UNCHANGED results
    /\ UNCHANGED <<watchVars, profiles, progress, userVars>>

\* (mutant) the error of the request is swallowed
RefuseSilently(r) ==
    /\ inFlight' = inFlight \ {r}
    /\ IF IsAwaited(r) THEN Count(r.monitor, "updated") ELSE UNCHANGED results
    /\ UNCHANGED <<watchVars, clusterVars, profiles, progress, userVars>>

\* A conflict, any other refusal, or a request that gets lost
Refuse(r) ==
    /\ inFlight' = inFlight \ {r}
    /\ IF IsAwaited(r) THEN Count(r.monitor, "failed") ELSE UNCHANGED results
    /\ UNCHANGED <<watchVars, clusterVars, profiles, progress, userVars>>

\* The context is cancelled, or the connection is lost: the call returns an error,
\* the request is still on its way
GiveUp(r) ==
    /\ IsAwaited(r)
    /\ Cardinality({ q \in inFlight : ~IsAwaited(q) }) < MaxLate
    /\ Count(r.monitor, "failed")
    /\ UNCHANGED <<watchVars, clusterVars, profiles, progress, inFlight, userVars>>

-----------------------------------------------------------------------------

Environment ==
    \/ \E t \in Targets : TargetChanges(t)
    \/ \E p \in ProfileNames : ProfileChanges(p)

MonitorStep(m) ==
    \/ GetProfile(m)
    \/ GetProfileFails(m)
    \/ ListNamespace(m)
    \/ ListFails(m)
    \/ ApplyProfile(m)

RequestStep == \E r \in inFlight : Handle(r) \/ Refuse(r) \/ GiveUp(r)

Next ==
    \/ Environment
    \/ AgentStep
    \/ \E m \in Monitors : MonitorStep(m)
    \/ RequestStep

Spec == Init /\ [][Next]_vars

\* Goroutines run, and no request stays in flight for ever
Fairness == WF_vars((\E m \in Monitors : MonitorStep(m)) \/ RequestStep)

FairSpec == Spec /\ Fairness

-----------------------------------------------------------------------------
(* Properties                                                              *)

\* Targets belong to their users: no step of the operator creates a target, brings a
\* deleted one back, or changes the labels users gave it.  Server-side apply sends whole
\* objects from a stale list (profile_applicator.go:143), and only the resourceVersion in
\* them protects users: what it overwrites, the overlay included, is what its sender listed,
\* so that no edit made since is undone.  (A patch is made for the object as it is by then:
\* a late one does undo a user's reset of the overlay.)
UsersHaveTheLastWord ==
    [][budget' = budget =>
           \A t \in Targets :
               /\ cluster'[t] = Absent <=> cluster[t] = Absent
               /\ cluster[t] # Absent => cluster'[t].labels = cluster[t].labels
               /\ cluster'[t] # cluster[t] =>
                      (profile[writer'[t]].strategy = "SSA" =>
                           \E i \in Range(allResources[writer'[t]]) :
                               i.target = t /\ i.object = cluster[t])]_vars

\* A request sent before its watch was cancelled (informer_manager.go:83) can arrive after
\* the new watch of the binding has written the same target.  With server-side apply it
\* does not undo that write, however late it is.
NewerWatchWins ==
    [][\A t \in Targets :
           LET old == writer[t]
               new == writer'[t]
           IN  new # old /\ old # Nobody /\ new # Nobody =>
                   (profile[new].strategy = "SSA" /\ binding[new.watch].key = binding[old.watch].key
                        => new.watch >= old.watch)]_vars

\* "Successfully applied profile to resource" (profile_applicator.go:69) is true: a
\* target a goroutine counts as updated has the patch of the Profile it read, until
\* somebody else writes the target.
UpdatedMeansApplied ==
    \A m \in Monitors : \A k \in DOMAIN results[m] :
        LET i == allResources[m][k]
        IN  results[m][k] = "updated" /\ (version[i.target] = i.version \/ writer[i.target] = m)
                => cluster[i.target] # Absent /\ cluster[i.target].overlay = profile[m].patch

\* A List of one of these namespaces would return the target as it is now
Reaches(m, t, searched) ==
    /\ cluster[t] # Absent
    /\ \E n \in searched :
           Described(t) \in getResourcesInNamespace(Existing, m.gvk, n, SpecOf(m))

\* The namespaces of the goroutine's spec
Searched(m) == IF pc[m] = "off" THEN {} ELSE TargetNamespaces(SpecOf(m), OwnNamespace)

\* No target is forgotten: a goroutine that ends has counted, as updated or as failed, every
\* target it was started for and that users left alone, whatever failed for other targets
\* or in other namespaces, unless it was cancelled or could not read the Profile or any
\* namespace the target is listed in.
ExistingTargetIsCounted ==
    \A m \in Monitors, t \in Targets :
        (/\ Ended(m)
         /\ profile[m] # Absent
         /\ ~IsCancelled(m)
         /\ Reaches(m, t, Searched(m) \ unlisted[m])
         /\ t \notin touched) => \E k \in DOMAIN results[m] : allResources[m][k].target = t

\* Nobody waits for a goroutine, cancelled or not: it ends by itself, whatever it meets on
\* the way, and no leftover of an old watch runs for ever.
MonitorsEnd ==
    (\E m \in Monitors : pc[m] # "off" /\ ~Ended(m))
        ~> (\A m \in Monitors : pc[m] = "off" \/ Ended(m))

-----------------------------------------------------------------------------
(* The inductive invariant                                                 *)

Created(w) == binding[w] # NoBinding

\* A goroutine runs for a watch that was created, and has what it needs where it is
ProgressInv ==
    /\ \A m \in Monitors : pc[m] # "off" => Created(m.watch)
    /\ \A m \in Monitors : pc[m] \in {"list", "apply"} => profile[m] # Absent
    /\ \A m \in Monitors : pc[m] \notin {"list", "apply"} => allResources[m] = <<>>
    /\ \A m \in Monitors : pc[m] # "apply" => results[m] = <<>>
    /\ \A m \in Monitors : Len(results[m]) <= Len(allResources[m])
    /\ \A r \in inFlight :
           /\ pc[r.monitor] = "apply"
           /\ profile[r.monitor].patch # NoPatch
           /\ r.index \in DOMAIN allResources[r.monitor]

\* What a goroutine listed is what the cluster has, or has had before
SnapshotInv ==
    \A m \in Monitors : \A i \in Range(allResources[m]) :
        /\ i.version <= version[i.target]
        /\ i.version = version[i.target] => cluster[i.target] = i.object

\* Only the newest watch of a binding is not cancelled, and only such a watch lists: a
\* goroutine has never seen what a newer watch wrote
OrderInv ==
    /\ \A v, w \in Watches : v < w /\ Created(w) => Created(v)
    /\ \A v, w \in Watches :
           v < w /\ Created(w) /\ binding[v].key = binding[w].key => v \in cancelled
    /\ \A t \in Targets : writer[t] # Nobody => Created(writer[t].watch)
    /\ \A m \in Monitors : \A i \in Range(allResources[m]) :
           LET old == writer[i.target]
           IN  i.version = version[i.target] /\ old # Nobody =>
                   (binding[m.watch].key = binding[old.watch].key => m.watch >= old.watch)

\* What a goroutine was the last to write has its patch, and what it counts is true
AppliedInv ==
    /\ \A t \in Targets :
           writer[t] # Nobody =>
               /\ pc[writer[t]] = "apply"
               /\ cluster[t] # Absent
               /\ cluster[t].overlay = profile[writer[t]].patch
    /\ UpdatedMeansApplied

\* What a List returned is in allResources: a goroutine has every target of the namespaces
\* it has been through, and it goes through all of them before it writes
CoverageInv ==
    /\ \A m \in Monitors : profile[m] # Absent => pc[m] \in {"list", "apply"}
    /\ \A m \in Monitors : pc[m] = "apply" => namespaces[m] = <<>>
    /\ \A m \in Monitors, t \in Targets \ touched :
           (/\ pc[m] \in {"list", "apply"}
            /\ ~IsCancelled(m)
            /\ Reaches(m, t, Searched(m) \ (unlisted[m] \cup Range(namespaces[m])))) =>
               \E i \in Range(allResources[m]) : i.target = t

IInv == TypeOK /\ ProgressInv /\ SnapshotInv /\ OrderInv /\ AppliedInv /\ CoverageInv

-----------------------------------------------------------------------------
(* What the repository says and the code does not do                       *)

\* Every goroutine has ended without an error
AtRest ==
    /\ inFlight = {}
    /\ \A m \in Monitors :
           \/ pc[m] = "off"
           \/ Ended(m) /\ profile[m] # Absent /\ "failed" \notin Range(results[m]) /\ unlisted[m] = {}

\* "No requeue needed - informers will handle resource changes automatically"
\* (profilebinding_controller.go:137): when the watches have nothing left to do and nothing
\* failed, every target of a watched binding has the Profile.
TargetsFollowTheProfile ==
    AtRest =>
        \A m \in Monitors, t \in Targets :
            ~IsCancelled(m) /\ Reaches(m, t, Searched(m)) =>
                LET state == profiles[SpecOf(m).profileRef]
                IN  state # Absent => cluster[t].overlay = state.patch
=============================================================================
