CONSTANTS
    Periods <- OnlyFirst
    TopPlan = 2
    MaxAttempts = 2
    MaxToggles = 2
SPECIFICATION FairSpec
CHECK_DEADLOCK FALSE
INVARIANTS
    TypeOK
    OneChargePerPeriod
PROPERTIES
    ChargeNeedsConsent
    RefusalStands
    PeriodEnds
    ChargedIsRenewed
