CONSTANTS
    NoBinding = NoBinding
    NoSelector = NoSelector
    EmptyValue = ""
    Capitalised <- MCCapitalised
    Bindings = {b1}
    Specs <- MCSpecs
    MaxWatches = 2
    Targets <- MCTargets
    KindOf <- MCKindOf
    NamespaceOf <- MCNamespaceOf
    OwnNamespace = "own"
    LabelSets <- MCLabelSets
    ProfileNames = {"p1"}
    ProfileStates <- MCProfileStates
    NoPatch = NoPatch
    Plain = Plain
    Absent = Absent
    Nobody = Nobody
    Budget = 1
    MaxLate = 1
SPECIFICATION MCSpec
INVARIANTS
    TypeOK
    UpdatedMeansApplied
    ExistingTargetIsCounted
    IInv
PROPERTIES
    UsersHaveTheLastWord
    NewerWatchWins
    MonitorsEnd
\* Everything may be done, and the budget spent
CHECK_DEADLOCK FALSE
