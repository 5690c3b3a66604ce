CONSTANTS
    Absent = Absent
    Budget = 4
SPECIFICATION FairSpec
INVARIANTS
    TypeOK
    QuietMeansValidated
    QuietMeansReleased
    IInv
PROPERTIES
    VerdictIsNotReset
    Converges
    DeletionIsReleased
    LostStatusIsRepaired
\* Once the object is gone and the budget is spent, nothing is left to happen
CHECK_DEADLOCK FALSE
