---------------------------- MODULE MCPromoCodeLimit ----------------------------
(* Two payments of one teacher, one of another.                            *)
EXTENDS PromoCodeLimit, TLC

CONSTANTS p1, p2, p3, first, second

ThreePayments == {p1, p2, p3}
TwoTeachers   == p1 :> first @@ p2 :> first @@ p3 :> second
AllFaults     == FaultKinds
=================================================================================
