CONSTANTS
    TopPlan = 2
    Period = 2
    Bonus = 2
    Cap = 3
    Purchases <- BasicThricePremiumOnce
    Horizon = 4
    MaxChanges = 2
    MaxReadings = 1
SPECIFICATION FairSpec
CHECK_DEADLOCK FALSE
INVARIANTS
    TypeOK
PROPERTIES
    NoEarlyDemotion
    PaidTimeIsKept
    PrepaidPlanArrives
    DueChangeSettles
    PeriodEnds
