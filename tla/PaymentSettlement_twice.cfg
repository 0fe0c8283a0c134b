CONSTANTS
    p1 = p1
    p2 = p2
    month = month
    year = year
    Payments <- OnePayment
    NoPayment = NoPayment
    Offer <- TwoOffers
    PromoPayments <- FirstOnly
    PromotionPayments <- FirstOnly
    Submits = 1
    CancelSuperseded = FALSE
    Faults <- RefundOnly
SPECIFICATION Spec
CHECK_DEADLOCK FALSE
INVARIANTS
    ActivatedAtMostOnce
