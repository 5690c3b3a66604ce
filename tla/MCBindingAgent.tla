--------------------------- MODULE MCBindingAgent ---------------------------
(* Specs for BindingAgent: an edit the agent must act on, one it must not,   *)
(* and a binding switched off.                                              *)
EXTENDS BindingAgentInvariant, TLC

NoLabels == [key \in {} |-> ""]

Exists(key) == [key |-> key, operator |-> "Exists", values |-> {}]

BindingSpec(enabled, profile, expressions) ==
    [enabled        |-> enabled,
     profileRef     |-> profile,
     namespaces     |-> <<>>,
     rule           |-> [apiGroups |-> <<"apps">>, apiVersions |-> <<"v1">>,
                         resources |-> <<"deployments">>],
     objectSelector |-> [matchLabels |-> NoLabels, matchExpressions |-> expressions]]

On    == BindingSpec("unset", "p1", {})
Off   == BindingSpec("false", "p1", {})
Alike == BindingSpec("unset", "p1", {Exists("app")})

MCOneSpec == {On}
MCThreeSpecs == {On, Off, Alike}

BindingSymmetry == Permutations(Bindings)

MCCapitalised == [deployments |-> "Deployments"]
=============================================================================
