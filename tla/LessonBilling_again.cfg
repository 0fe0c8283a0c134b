CONSTANTS
    Lessons <- FirstTwo
    Payments <- OnlyOne
    Amounts <- OnlyOne
    Price = 2
    Units = 0
    Requests = {q1, q2}
    MaxBegun = 2
    MaxEntries = 2
SPECIFICATION Spec
CHECK_DEADLOCK FALSE
INVARIANTS
    CompletionBills
