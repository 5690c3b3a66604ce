------------------------ MODULE TargetSelectorProofs ------------------------
(* What the comparison of two specs says of them, and what they select, for *)
(* any specs and objects.                                                   *)
EXTENDS TargetSelector, FiniteSetTheorems, SequenceTheorems, TLAPS

\* A binding whose spec is the one the agent tracks has not changed.
LEMMA SameSpecIsNoChange ==
    ASSUME NEW spec, spec # NoBinding
    PROVE  ~hasBindingChanged(spec, spec)
BY DEF hasBindingChanged, targetSelectorsEqual, resourceRulesEqual, objectSelectorsEqual,
       MatchLabelsEqual, ListsEqual, LabelAt

\* Comparing lists element by element is exact.
LEMMA EqualListsAreOne ==
    ASSUME NEW a, NEW b, IsList(a), IsList(b), ListsEqual(a, b)
    PROVE  a = b
<1> DEFINE S == Range(a) \cup Range(b)
<1>1. a \in Seq(S) /\ b \in Seq(S)
  BY DEF IsList
<1>2. Len(a) = Len(b) /\ \A i \in 1..Len(a) : a[i] = b[i]
  BY DEF ListsEqual
<1>3. QED
  BY <1>1, <1>2, SeqEqual

\* Counting the labels and looking each of them up is exact when no label requires the
\* value a lookup of a missing key yields.
LEMMA EqualLabelsAreOne ==
    ASSUME NEW a, NEW b, IsLabelMap(a), IsLabelMap(b),
           EmptyValue \notin Range(a), MatchLabelsEqual(a, b)
    PROVE  a = b
<1>1. ASSUME NEW key \in DOMAIN a PROVE key \in DOMAIN b /\ b[key] = a[key]
  BY DEF MatchLabelsEqual, LabelAt, Range
<1>2. DOMAIN a = DOMAIN b
  <2>1. DOMAIN a \in SUBSET DOMAIN b
    BY <1>1
  <2>2. IsFiniteSet(DOMAIN b) /\ Cardinality(DOMAIN b) = Cardinality(DOMAIN a)
    BY DEF IsLabelMap, MatchLabelsEqual
  <2>3. QED
    BY <2>1, <2>2, FS_Subset
<1>3. QED
  BY <1>1, <1>2 DEF IsLabelMap

\* A spec that has not changed asks for the same Profile, and selects the same objects
\* if its selector and the one it is compared with are plain.
LEMMA UnchangedSelectsTheSame ==
    ASSUME NEW new, NEW existing, IsSpec(new), IsSpec(existing),
           PlainSelector(new.objectSelector), PlainSelector(existing.objectSelector),
           ~hasBindingChanged(new, existing)
    PROVE  /\ existing.profileRef = new.profileRef /\ existing.enabled = new.enabled
           /\ \A objects, own : Selected(objects, existing, own) = Selected(objects, new, own)
<1>1. /\ existing.profileRef = new.profileRef /\ existing.enabled = new.enabled
      /\ targetSelectorsEqual(new, existing)
  BY DEF hasBindingChanged, IsSpec
<1>2. existing.namespaces = new.namespaces
  BY <1>1, EqualListsAreOne DEF targetSelectorsEqual, IsSpec
<1>3. /\ existing.rule.apiGroups = new.rule.apiGroups
      /\ existing.rule.apiVersions = new.rule.apiVersions
      /\ existing.rule.resources = new.rule.resources
  BY <1>1, EqualListsAreOne DEF targetSelectorsEqual, resourceRulesEqual, IsSpec
<1>4. /\ existing.objectSelector = NoSelector <=> new.objectSelector = NoSelector
      /\ new.objectSelector # NoSelector =>
             /\ existing.objectSelector.matchLabels = new.objectSelector.matchLabels
             /\ existing.objectSelector.matchExpressions = new.objectSelector.matchExpressions
  BY <1>1, EqualLabelsAreOne DEF targetSelectorsEqual, objectSelectorsEqual, IsSpec, PlainSelector
<1>5. WatchedGVKs(existing) = WatchedGVKs(new)
  BY <1>3 DEF WatchedGVKs
<1>6. \A own : TargetNamespaces(existing, own) = TargetNamespaces(new, own)
  BY <1>2 DEF TargetNamespaces
<1>7. \A objects, gvk, namespace :
          getResourcesInNamespace(objects, gvk, namespace, existing)
              = getResourcesInNamespace(objects, gvk, namespace, new)
  <2>1. SelectorIsValid(existing.objectSelector) <=> SelectorIsValid(new.objectSelector)
    BY <1>4 DEF SelectorIsValid
  <2>2. \A labels : SelectorMatches(existing.objectSelector, labels)
                        <=> SelectorMatches(new.objectSelector, labels)
    BY <1>4 DEF SelectorMatches
  <2>3. QED
    BY <2>1, <2>2 DEF getResourcesInNamespace
<1>8. \A objects, gvk, own :
          ResourcesOf(objects, gvk, existing, own) = ResourcesOf(objects, gvk, new, own)
  BY <1>6, <1>7 DEF ResourcesOf
<1>9. \A objects, own : Selected(objects, existing, own) = Selected(objects, new, own)
  BY <1>5, <1>8 DEF Selected
<1>10. QED
  BY <1>1, <1>9

\* The event-time test and the lists agree on the objects of a watched kind, unless the
\* spec asks for all namespaces.
LEMMA EventsAgreeWithLists ==
    ASSUME NEW spec, NEW own, NEW objects, NEW o \in objects, o.gvk \in WatchedGVKs(spec),
           EmptyValue \notin TargetNamespaces(spec, own)
    PROVE  resourceMatchesSelector(o, spec, own) <=> o \in Selected(objects, spec, own)
<1> DEFINE Accepted == /\ SelectorIsValid(spec.objectSelector)
                       /\ SelectorMatches(spec.objectSelector, o.labels)
<1>1. ASSUME NEW gvk, NEW namespace \in TargetNamespaces(spec, own)
      PROVE  o \in getResourcesInNamespace(objects, gvk, namespace, spec)
                 <=> o.gvk = gvk /\ o.namespace = namespace /\ Accepted
  BY DEF getResourcesInNamespace, InNamespace
<1>2. ASSUME NEW gvk
      PROVE  o \in ResourcesOf(objects, gvk, spec, own)
                 <=> o.gvk = gvk /\ o.namespace \in TargetNamespaces(spec, own) /\ Accepted
  BY <1>1 DEF ResourcesOf
<1>3. o \in Selected(objects, spec, own)
          <=> o.namespace \in TargetNamespaces(spec, own) /\ Accepted
  BY <1>2 DEF Selected
<1>4. QED
  BY <1>3 DEF resourceMatchesSelector
=============================================================================
