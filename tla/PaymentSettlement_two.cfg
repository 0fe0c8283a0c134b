CONSTANTS
    p1 = p1
    p2 = p2
    month = month
    year = year
    Payments <- TwoPayments
    NoPayment = NoPayment
    Offer <- TwoOffers
    PromoPayments <- FirstOnly
    PromotionPayments <- FirstOnly
    Submits = 1
    CancelSuperseded = TRUE
    Faults <- RepliesLost
SPECIFICATION FairSpec
CHECK_DEADLOCK FALSE
INVARIANTS
    OneActivationPerReport
PROPERTIES
    KeepsPromise
