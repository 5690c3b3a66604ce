CONSTANTS
    NoBinding = NoBinding
    NoSelector = NoSelector
    EmptyValue = ""
    Capitalised <- MCCapitalised
    Bindings = {b1}
    Specs <- MCOneSpec
    Watches = {w1, w2, w3}
    NoWatch = NoWatch
    Cancelled = Cancelled
    Absent = Absent
    NoThread = NoThread
    NoCall = NoCall
SPECIFICATION Spec
INVARIANT
    StopCleansUp
