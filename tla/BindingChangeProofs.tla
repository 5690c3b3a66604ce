------------------------- MODULE BindingChangeProofs -------------------------
(* The copy the agent keeps is as good as the spec in the cluster, and events *)
(* and lists select the same objects: for any specs and objects.              *)
EXTENDS BindingChange, TargetSelectorProofs

\* The inductive invariant holds in every reachable state.
THEOREM ChangeInvariant == Spec => []IInv
<1>1. Init => IInv
  BY DEF Init, IInv, TypeOK
<1>2. IInv /\ [Next]_vars => IInv'
  <2> SUFFICES ASSUME IInv, [Next]_vars PROVE IInv'
    OBVIOUS
  <2> USE DEF IInv, TypeOK
  <2>1. CASE Edit
    BY <2>1 DEF Edit
  <2>2. CASE Handle
    <3>1. current # NoBinding
      BY SpecsAreSpecs DEF IsSpec
    <3>2. current' = current /\ tracked' \in {current, tracked} /\ handled' = TRUE
      BY <2>2 DEF Handle
    <3>3. CASE hasBindingChanged(current, tracked)
      <4>1. tracked' = current
        BY <2>2, <3>3 DEF Handle
      <4>2. ~hasBindingChanged(current, current)
        BY <3>1, SameSpecIsNoChange
      <4>3. QED
        BY <3>1, <3>2, <4>1, <4>2
    <3>4. CASE ~hasBindingChanged(current, tracked)
      <4>1. tracked' = tracked
        BY <2>2, <3>4 DEF Handle
      <4>2. tracked # NoBinding
        BY <3>4 DEF hasBindingChanged
      <4>3. QED
        BY <3>2, <3>4, <4>1, <4>2
    <3>5. QED
      BY <3>3, <3>4
  <2>3. CASE UNCHANGED vars
    BY <2>3 DEF vars
  <2>4. QED
    BY <2>1, <2>2, <2>3 DEF Next
<1>3. QED
  BY <1>1, <1>2, PTL DEF Spec

\* The agent keeps whole specs, never a part of one.
THEOREM ChangeTypeCorrect == Spec => []TypeOK
BY ChangeInvariant, PTL DEF IInv

\* A spec whose edit the comparison misses still selects what the copy selects: on plain
\* selectors the comparison (profile_binding_agent.go:183) is exact in all that matters to
\* the watches.
THEOREM KeptCopyIsGood == Spec => []KeptCopyIsEquivalent
<1>1. IInv => KeptCopyIsEquivalent
  <2> SUFFICES ASSUME IInv, handled, PlainSelector(current.objectSelector),
                      PlainSelector(tracked.objectSelector)
               PROVE  /\ tracked.profileRef = current.profileRef
                      /\ IsDisabled(tracked) = IsDisabled(current)
                      /\ Selected(Objects, tracked, OwnNamespace)
                             = Selected(Objects, current, OwnNamespace)
    BY DEF KeptCopyIsEquivalent
  <2>1. IsSpec(current) /\ IsSpec(tracked) /\ ~hasBindingChanged(current, tracked)
    BY SpecsAreSpecs DEF IInv, TypeOK
  <2>2. /\ tracked.profileRef = current.profileRef /\ tracked.enabled = current.enabled
        /\ \A objects, own : Selected(objects, tracked, own) = Selected(objects, current, own)
    BY <2>1, UnchangedSelectsTheSame
  <2>3. QED
    BY <2>2 DEF IsDisabled
<1>2. QED
  BY <1>1, ChangeInvariant, PTL

\* An object is accepted by resourceMatchesSelector exactly when the lists return it, for
\* every spec that does not ask for all namespaces (informer_manager.go:262).
THEOREM MatchIsList == Spec => []MatchAgreesWithList
<1>1. TypeOK => MatchAgreesWithList
  <2> SUFFICES ASSUME TypeOK, EmptyValue \notin Range(current.namespaces),
                      NEW o \in Objects, o.gvk \in WatchedGVKs(current)
               PROVE  resourceMatchesSelector(o, current, OwnNamespace)
                          <=> o \in Selected(Objects, current, OwnNamespace)
    BY DEF MatchAgreesWithList
  <2>1. EmptyValue \notin TargetNamespaces(current, OwnNamespace)
    BY BindingsAreNamespaced DEF TargetNamespaces
  <2>2. QED
    BY <2>1, EventsAgreeWithLists
<1>2. QED
  BY <1>1, ChangeTypeCorrect, PTL
=============================================================================
