CONSTANTS
    NoBinding = NoBinding
    NoSelector = NoSelector
    EmptyValue = ""
    Capitalised <- MCCapitalised
    Specs <- MCSpecs
    Absent = Absent
    Budget = 3
SPECIFICATION Spec
INVARIANT
    ReadyMeansApplied
\* Once the object is gone and the budget is spent, nothing is left to happen
CHECK_DEADLOCK FALSE
