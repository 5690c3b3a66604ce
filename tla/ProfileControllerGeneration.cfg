CONSTANTS
    Absent = Absent
    Budget = 3
SPECIFICATION Spec
INVARIANT
    GenerationIsObserved
\* Once the object is gone and the budget is spent, nothing is left to happen
CHECK_DEADLOCK FALSE
