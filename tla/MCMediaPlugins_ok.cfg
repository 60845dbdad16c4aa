\* The four plugins of a call, whose left leg sends reports.  It ends when they are gone.
CONSTANT Reporting = {"left"}
SPECIFICATION Spec
CHECK_DEADLOCK FALSE
INVARIANTS
    TypeOK
    CountIsHolders
    CrashNeedsRace
    NothingLeaks
    IInv
PROPERTY
    PushBeginsInTime
