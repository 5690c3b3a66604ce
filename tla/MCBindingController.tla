------------------------- MODULE MCBindingController -------------------------
(* A binding that is enabled or not, for BindingController *)
EXTENDS BindingController

BindingSpec(enabled) ==
    [enabled        |-> enabled,
     profileRef     |-> "p1",
     namespaces     |-> <<>>,
     rule           |-> [apiGroups |-> <<"apps">>, apiVersions |-> <<"v1">>,
                         resources |-> <<"deployments">>],
     objectSelector |-> NoSelector]

MCSpecs == {BindingSpec("true"), BindingSpec("false")}

MCCapitalised == [deployments |-> "Deployments"]
=============================================================================
