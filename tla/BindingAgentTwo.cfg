CONSTANTS
    NoBinding = NoBinding
    NoSelector = NoSelector
    EmptyValue = ""
    Capitalised <- MCCapitalised
    Bindings = {b1, b2}
    Specs <- MCOneSpec
    Watches = {w1, w2, w3, w4}
    NoWatch = NoWatch
    Cancelled = Cancelled
    Absent = Absent
    NoThread = NoThread
    NoCall = NoCall
SPECIFICATION Spec
SYMMETRY BindingSymmetry
INVARIANTS
    AtMostOneLiveWatch
    LiveWatchIsReachable
    IInv
PROPERTY
    ImplementsRegistry
