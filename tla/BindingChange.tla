---------------------------- MODULE BindingChange ----------------------------
(***************************************************************************)
(* One ProfileBinding whose spec a user edits, and the copy the agent      *)
(* keeps of it.  The agent only replaces its copy, and restarts the        *)
(* watches, when hasBindingChanged says so: an edit the comparison misses  *)
(* leaves the old copy in force for every later edit to be compared with.  *)
(***************************************************************************)
EXTENDS TargetSelector

CONSTANTS
    Specs,          \* the specs a user may write
    Objects,        \* the objects of the cluster, each [gvk, namespace, labels]
    OwnNamespace    \* the namespace of the ProfileBinding

ASSUME SpecsAreSpecs == \A spec \in Specs : IsSpec(spec)
ASSUME BindingsAreNamespaced == OwnNamespace # EmptyValue

VARIABLES
    current,        \* the spec in the cluster
    tracked,        \* agent.activeBindings[bindingKey], or NoBinding
    handled         \* whether the agent has been called for the current spec

vars == <<current, tracked, handled>>

TypeOK ==
    /\ current \in Specs
    /\ tracked \in Specs \cup {NoBinding}
    /\ handled \in BOOLEAN

Init ==
    /\ current \in Specs
    /\ tracked = NoBinding
    /\ handled = FALSE

\* A user edits the spec
Edit ==
    /\ handled
    /\ \E spec \in Specs : current' = spec
    /\ handled' = FALSE
    /\ UNCHANGED tracked

\* (mutant) the agent keeps a part of the binding
HandleSelector ==
    /\ ~handled
    /\ tracked' = current.objectSelector
    /\ handled' = TRUE
    /\ UNCHANGED current

\* (mutant) only a binding that has no copy yet is stored
HandleFirst ==
    /\ ~handled
    /\ tracked' = IF tracked = NoBinding THEN current ELSE tracked
    /\ handled' = TRUE
    /\ UNCHANGED current

\* handleProfileBindingCreateOrUpdate, as far as activeBindings is concerned
Handle ==
    /\ ~handled
    /\ tracked' = IF hasBindingChanged(current, tracked) THEN current ELSE tracked
    /\ handled' = TRUE
    /\ UNCHANGED current

Next == Edit \/ Handle

Spec == Init /\ [][Next]_vars

-----------------------------------------------------------------------------

\* Keeping the old copy is harmless: once the agent has handled a spec, the copy
\* it keeps (profile_binding_agent.go:155) applies the same Profile, with the
\* same enabled flag, to the same objects as the spec in the cluster, provided
\* both use plain selectors.
KeptCopyIsEquivalent ==
    (handled /\ PlainSelector(current.objectSelector)
             /\ PlainSelector(tracked.objectSelector)) =>
        /\ tracked.profileRef = current.profileRef
        /\ IsDisabled(tracked) = IsDisabled(current)
        /\ Selected(Objects, tracked, OwnNamespace)
               = Selected(Objects, current, OwnNamespace)

\* The inductive invariant: whatever copy the agent was left with by earlier edits, once it
\* has handled a spec (profile_binding_agent.go:155) it has a copy from which the spec
\* differs in nothing the comparison sees.
IInv ==
    /\ TypeOK
    /\ handled => tracked # NoBinding /\ ~hasBindingChanged(current, tracked)

\* resourceMatchesSelector (informer_manager.go:262) accepts an object of a
\* watched kind exactly when the List calls of applyProfileToExistingResources
\* (informer_manager.go:185) return it, invalid selectors included, unless the
\* spec asks for all namespaces: only List knows what an empty name means.
MatchAgreesWithList ==
    EmptyValue \notin Range(current.namespaces) =>
    \A o \in Objects :
        o.gvk \in WatchedGVKs(current) =>
            (resourceMatchesSelector(o, current, OwnNamespace)
                 <=> o \in Selected(Objects, current, OwnNamespace))

\* "we'll consider any change to object selector as significant"
\* (profile_binding_agent.go:226): after the agent handled a spec, its copy has
\* the object selector of that spec.
SelectorChangesAreSignificant ==
    handled => tracked.objectSelector = current.objectSelector

=============================================================================
