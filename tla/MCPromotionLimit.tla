---------------------------- MODULE MCPromotionLimit ----------------------------
(* Two payments of the first teacher, one each of two others; one request  *)
(* may be posted again or die.                                             *)
EXTENDS PromotionLimit, TLC

CONSTANTS p1, p2, p3, p4, first, second, third

FourPayments  == {p1, p2, p3, p4}
ThreeTeachers == p1 :> first @@ p2 :> first @@ p3 :> second @@ p4 :> third
OneGrant      == {p3}
OneFaulty     == [p \in FourPayments |-> IF p = p4 THEN FaultKinds ELSE {}]
=================================================================================
