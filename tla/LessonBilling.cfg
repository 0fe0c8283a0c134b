CONSTANTS
    Lessons <- FirstTwo
    Payments <- OnlyOne
    Amounts <- OnlyOne
    Price = 2
    Units = 0
    Requests = {q1, q2}
    MaxBegun = 3
    MaxEntries = 2
SPECIFICATION FairSpec
CHECK_DEADLOCK FALSE
INVARIANTS
    TypeOK
    SettledOnce
    SettlementIsReal
PROPERTIES
    UnitsAddUp
    MoneyStays
    FreshLessonIsBilled
