------------------------- MODULE MCPaymentSettlement -------------------------
(* One payment posted twice, or two payments of one teacher for different   *)
(* offers.                                                                 *)
EXTENDS PaymentSettlement, TLC

CONSTANTS p1, p2, month, year

TwoPayments   == {p1, p2}
OnePayment    == {p1}
TwoOffers     == p1 :> month @@ p2 :> year
FirstOnly     == {p1}

RefundOnly    == {"refund"}
RepliesLost   == {"lost_reply"}
RestOfFaults  == FaultKinds \ RepliesLost

===============================================================================
