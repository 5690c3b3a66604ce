--------------------------- MODULE TargetSelector ---------------------------
(***************************************************************************)
(* The pure part of the ProfileBinding agent: what a ProfileBinding spec   *)
(* selects (informer_manager.go), and the comparison that decides whether  *)
(* a new spec deserves new informers (profile_binding_agent.go).           *)
(*                                                                         *)
(* A spec is a record with the fields of ProfileBindingSpec the operator   *)
(* reads.  Lists are sequences, a label map is a function whose domain is  *)
(* the set of its keys, a nil *LabelSelector is NoSelector and a missing   *)
(* map entry is NoBinding.  Strings that are only compared (names,         *)
(* namespaces, labels) are whatever values the instance chooses.           *)
(***************************************************************************)
EXTENDS Naturals, Sequences, FiniteSets, Functions

CONSTANTS
    NoBinding,      \* the key is not in the map
    NoSelector,     \* objectSelector is nil
    EmptyValue,     \* Go's zero string, what indexing a map with a missing key yields
    Capitalised     \* resource name |-> the name with its first letter in upper case

\* []string
IsList(s) == s \in Seq(Range(s))

\* map[string]string
IsLabelMap(f) == IsFiniteSet(DOMAIN f) /\ f = [key \in DOMAIN f |-> f[key]]

\* The fields the comparison goes through
IsSpec(spec) ==
    /\ spec # NoBinding
    /\ IsList(spec.namespaces)
    /\ \A list \in {spec.rule.apiGroups, spec.rule.apiVersions, spec.rule.resources} : IsList(list)
    /\ spec.objectSelector # NoSelector => IsLabelMap(spec.objectSelector.matchLabels)

-----------------------------------------------------------------------------
(* The comparison of two specs                                             *)

\* (mutant) the lengths are not compared
ListsEqualPrefix(a, b) ==
    /\ Len(a) <= Len(b)
    /\ \A i \in 1..Len(a) : a[i] = b[i]

ListsEqual(a, b) ==
    /\ Len(a) = Len(b)
    /\ \A i \in 1..Len(a) : a[i] = b[i]

\* b.MatchLabels[key]: the zero value when the key is missing
LabelAt(labels, key) ==
    IF key \in DOMAIN labels THEN labels[key] ELSE EmptyValue

MatchLabelsEqual(a, b) ==
    /\ Cardinality(DOMAIN a) = Cardinality(DOMAIN b)
    /\ \A key \in DOMAIN a : LabelAt(b, key) = a[key]

\* matchExpressions is not looked at
objectSelectorsEqual(a, b) ==
    /\ (a = NoSelector) <=> (b = NoSelector)
    /\ (a # NoSelector /\ b # NoSelector)
           => MatchLabelsEqual(a.matchLabels, b.matchLabels)

resourceRulesEqual(a, b) ==
    /\ ListsEqual(a.apiGroups, b.apiGroups)
    /\ ListsEqual(a.apiVersions, b.apiVersions)
    /\ ListsEqual(a.resources, b.resources)

targetSelectorsEqual(a, b) ==
    /\ ListsEqual(a.namespaces, b.namespaces)
    /\ resourceRulesEqual(a.rule, b.rule)
    /\ objectSelectorsEqual(a.objectSelector, b.objectSelector)

\* existing is agent.activeBindings[bindingKey]
hasBindingChanged(new, existing) ==
    IF existing = NoBinding THEN TRUE
    ELSE ~ /\ new.enabled = existing.enabled
           /\ targetSelectorsEqual(new, existing)
           /\ new.profileRef = existing.profileRef

\* The selectors on which the comparison is exact: no matchExpressions, and no
\* label whose required value is the empty string.
PlainSelector(selector) ==
    selector # NoSelector =>
        /\ selector.matchExpressions = {}
        /\ EmptyValue \notin Range(selector.matchLabels)

\* "unset" is a nil pointer: every test of the code treats it as enabled
IsDisabled(spec) == spec.enabled = "false"

-----------------------------------------------------------------------------
(* What a spec selects                                                     *)

KnownKinds ==
    [deployments  |-> "Deployment",  statefulsets |-> "StatefulSet",
     daemonsets   |-> "DaemonSet",   replicasets  |-> "ReplicaSet",
     pods         |-> "Pod",         services     |-> "Service",
     configmaps   |-> "ConfigMap",   secrets      |-> "Secret"]

resourceToKind(resource) ==
    IF resource \in DOMAIN KnownKinds THEN KnownKinds[resource]
                                      ELSE Capitalised[resource]

\* The keys of BindingWatches.watches once createWatchesForTargets returned:
\* one handler, and one goroutine, per distinct GVK of the rule
WatchedGVKs(spec) ==
    { [group |-> g, version |-> v, kind |-> resourceToKind(r)] :
        g \in Range(spec.rule.apiGroups),
        v \in Range(spec.rule.apiVersions),
        r \in Range(spec.rule.resources) }

TargetNamespaces(spec, own) ==
    IF spec.namespaces = <<>> THEN {own} ELSE Range(spec.namespaces)

\* metav1.LabelSelectorAsSelector rejects a requirement it cannot build (of matchLabels, only
\* malformed keys and values, which the specs here do not have)
ValidExpression(e) ==
    \/ e.operator \in {"In", "NotIn"} /\ e.values # {}
    \/ e.operator \in {"Exists", "DoesNotExist"} /\ e.values = {}

ExpressionHolds(e, labels) ==
    CASE e.operator = "In"     -> e.key \in DOMAIN labels /\ labels[e.key] \in e.values
      [] e.operator = "NotIn"  -> e.key \in DOMAIN labels => labels[e.key] \notin e.values
      [] e.operator = "Exists" -> e.key \in DOMAIN labels
      [] OTHER                 -> e.key \notin DOMAIN labels

SelectorIsValid(selector) ==
    selector # NoSelector => \A e \in selector.matchExpressions : ValidExpression(e)

SelectorMatches(selector, labels) ==
    selector # NoSelector =>
        /\ \A key \in DOMAIN selector.matchLabels :
               key \in DOMAIN labels /\ labels[key] = selector.matchLabels[key]
        /\ \A e \in selector.matchExpressions : ExpressionHolds(e, labels)

\* client.InNamespace: the empty string stands for every namespace
InNamespace(o, namespace) == namespace \in {o.namespace, EmptyValue}

\* One List call: an invalid selector is an error, and the caller goes on
\* with the next namespace
getResourcesInNamespace(objects, gvk, namespace, spec) ==
    IF SelectorIsValid(spec.objectSelector)
    THEN { o \in objects : /\ o.gvk = gvk
                           /\ InNamespace(o, namespace)
                           /\ SelectorMatches(spec.objectSelector, o.labels) }
    ELSE {}

\* allResources of applyProfileToExistingResources
ResourcesOf(objects, gvk, spec, own) ==
    UNION { getResourcesInNamespace(objects, gvk, namespace, spec) :
                namespace \in TargetNamespaces(spec, own) }

\* Everything the watches of one spec reach
Selected(objects, spec, own) ==
    UNION { ResourcesOf(objects, gvk, spec, own) : gvk \in WatchedGVKs(spec) }

\* (mutant) an empty list of namespaces selects nothing
MatchesListedNamespace(o, spec, own) ==
    /\ o.namespace \in Range(spec.namespaces)
    /\ SelectorIsValid(spec.objectSelector)
    /\ SelectorMatches(spec.objectSelector, o.labels)

\* The event-time counterpart of the List above (kind excluded)
resourceMatchesSelector(o, spec, own) ==
    /\ o.namespace \in TargetNamespaces(spec, own)
    /\ SelectorIsValid(spec.objectSelector)
    /\ SelectorMatches(spec.objectSelector, o.labels)

=============================================================================
