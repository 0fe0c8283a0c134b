------------------------ MODULE MCSubscriptionPeriod ------------------------
(* A teacher buys the higher plan once and the lower one three times: the  *)
(* first two can carry the end beyond the days a third one builds upon.    *)
EXTENDS SubscriptionPeriod

BasicThricePremiumOnce == [plan \in PaidPlans |-> IF plan = 1 THEN 3 ELSE 1]
===============================================================================
