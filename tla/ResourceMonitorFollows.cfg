CONSTANTS
    NoBinding = NoBinding
    NoSelector = NoSelector
    EmptyValue = ""
    Capitalised <- MCCapitalised
    Bindings = {b1}
    Specs <- MCSpecs
    MaxWatches = 1
    Targets <- MCTargets
    KindOf <- MCKindOf
    NamespaceOf <- MCNamespaceOf
    OwnNamespace = "own"
    LabelSets <- MCLabelSets
    ProfileNames = {"p1"}
    ProfileStates <- MCProfileStates
    NoPatch = NoPatch
    Plain = Plain
    Absent = Absent
    Nobody = Nobody
    Budget = 1
    MaxLate = 1
SPECIFICATION MCSpec
INVARIANT TargetsFollowTheProfile
CHECK_DEADLOCK FALSE
