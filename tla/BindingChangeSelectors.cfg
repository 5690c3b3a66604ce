\* Every pair of specs of MCSpecs is compared; there is no bound to reach.
CONSTANTS
    NoBinding = NoBinding
    NoSelector = NoSelector
    EmptyValue = ""
    Capitalised <- MCCapitalised
    Specs <- MCSpecs
    Objects <- MCObjects
    OwnNamespace = "own"
SPECIFICATION Spec
INVARIANT
    SelectorChangesAreSignificant
