-------------------------- MODULE MCResourceMonitor --------------------------
(* One binding that is edited, between its own namespace and all of them,   *)
(* for ResourceMonitor                                                      *)
EXTENDS ResourceMonitor

AppLabels == [app |-> "web"]

BindingSpec(searched, resources) ==
    [enabled        |-> "true",
     profileRef     |-> "p1",
     namespaces     |-> searched,
     rule           |-> [apiGroups |-> <<"">>, apiVersions |-> <<"v1">>,
                         resources |-> resources],
     objectSelector |-> [matchLabels |-> AppLabels, matchExpressions |-> {}]]

GVK(kind) == [group |-> "", version |-> "v1", kind |-> kind]

MCSpecs == { BindingSpec(<<>>, <<"services">>),
             BindingSpec(<<"", "own">>, <<"services">>) }

MCTargets == {"s1", "s2"}
MCKindOf == [s1 |-> GVK("Service"), s2 |-> GVK("Service")]
MCNamespaceOf == [s1 |-> "own", s2 |-> "shop"]
MCLabelSets == {AppLabels, [app |-> "db"]}
ServerSide == [patch |-> "a", strategy |-> "SSA"]
MergePatch == [patch |-> "b", strategy |-> "Patch"]
Empty == [patch |-> NoPatch, strategy |-> "SSA"]
MCProfileStates == {ServerSide, MergePatch, Empty}
MCCapitalised == [endpoints |-> "Endpoints"]

\* Two targets nobody else touches, or one target, either kind of Profile and a user
MCInit ==
    /\ Init
    /\ cluster["s1"] = [labels |-> AppLabels, overlay |-> Plain]
    /\ \/ budget = 0 /\ profiles["p1"] = ServerSide /\ cluster["s2"] = cluster["s1"]
       \/ budget = 1 /\ profiles["p1"] \in {ServerSide, MergePatch} /\ cluster["s2"] = Absent

MCSpec == MCInit /\ [][Next]_vars /\ Fairness
=============================================================================
