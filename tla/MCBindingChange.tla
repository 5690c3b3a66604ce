--------------------------- MODULE MCBindingChange ---------------------------
(* A small cluster for BindingChange: four kinds of objects in two          *)
(* namespaces, and specs that vary every field the comparison looks at.     *)
EXTENDS BindingChange, TLC

Selector(labels, exprs) == [matchLabels |-> labels, matchExpressions |-> exprs]
NoLabels == [key \in {} |-> ""]
Expr(key, operator, values) == [key |-> key, operator |-> operator, values |-> values]

MCCapitalised == [pod |-> "Pod", ingresses |-> "Ingresses"]

Rule(resources) ==
    [apiGroups |-> <<"core">>, apiVersions |-> <<"v1">>, resources |-> resources]

MCSelectors ==
    { NoSelector,
      Selector(NoLabels, {}),
      Selector("app" :> "web", {}),
      Selector("app" :> "", {}),
      Selector("tier" :> "db", {}),
      Selector("app" :> "web" @@ "tier" :> "db", {}),
      Selector("app" :> "web", {Expr("tier", "Exists", {}), Expr("tier", "NotIn", {"db"})}),
      Selector("app" :> "web", {Expr("tier", "In", {})}) }

MCSpecs ==
    [enabled        : {"unset", "false"},
     profileRef     : {"p1", "p2"},
     namespaces     : {<<>>, <<"own">>, <<"own", "other">>, <<"">>},
     rule           : {Rule(<<"pods">>), Rule(<<"pods", "pod">>), Rule(<<"pods", "services">>)},
     objectSelector : MCSelectors]

MCObjects ==
    [gvk       : {[group |-> "core", version |-> "v1", kind |-> k] : k \in {"Pod", "Service"}},
     namespace : {"own", "other"},
     labels    : {NoLabels, "app" :> "web", "app" :> "", "tier" :> "db",
                  "app" :> "web" @@ "tier" :> "db"}]
=============================================================================
