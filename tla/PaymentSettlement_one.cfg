CONSTANTS
    p1 = p1
    p2 = p2
    month = month
    year = year
    Payments <- OnePayment
    NoPayment = NoPayment
    Offer <- TwoOffers
    PromoPayments <- FirstOnly
    PromotionPayments <- FirstOnly
    Submits = 2
    CancelSuperseded = FALSE
    Faults <- RestOfFaults
SPECIFICATION FairSpec
CHECK_DEADLOCK FALSE
INVARIANTS
    PaidOnlyWhenCharged
    PromoFollowsPayment
    RepeatOnlyAfterReversal
PROPERTIES
    PaidLostOnlyOnRefund
    KeepsPromise
