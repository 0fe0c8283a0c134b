-------------------------- MODULE PromotionLimit_proofs --------------------------
(***************************************************************************)
(* PromotionLimit for any payments, teachers, limits and faults: the lock  *)
(* on the promotion row is enough for the limits, although settlements     *)
(* change what is counted without taking it.                               *)
(***************************************************************************)
EXTENDS PromotionLimit, FiniteSetTheorems, TLAPS

(* Counting.                                                               *)

LEMMA CountsAreNumbers ==
    /\ IsFiniteSet(Redeemed) /\ Cardinality(Redeemed) \in Nat
    /\ \A t : IsFiniteSet(RedeemedBy(t)) /\ Cardinality(RedeemedBy(t)) \in Nat
<1>1. Redeemed \in SUBSET Payments /\ \A t : RedeemedBy(t) \in SUBSET Payments
  BY DEF Redeemed, RedeemedBy
<1>2. IsFiniteSet(Redeemed) /\ \A t : IsFiniteSet(RedeemedBy(t))
  BY <1>1, FS_Subset, PromotionAssumption
<1> QED BY <1>2, FS_CardinalityType

\* While nobody redeems, the places that are left stay.
LEMMA PlacesStay ==
    ASSUME Redeemed' \subseteq Redeemed
    PROVE  /\ PlaceLeft => PlaceLeft'
           /\ \A p : TeacherPlaceLeft(p) => TeacherPlaceLeft(p)'
<1>1. Cardinality(Redeemed') <= Cardinality(Redeemed) /\ Cardinality(Redeemed') \in Nat
  <2>1. IsFiniteSet(Redeemed')
    BY CountsAreNumbers, FS_Subset
  <2> QED BY <2>1, CountsAreNumbers, FS_Subset, FS_CardinalityType
<1>2. ASSUME NEW t
      PROVE  /\ Cardinality(RedeemedBy(t)') <= Cardinality(RedeemedBy(t))
             /\ Cardinality(RedeemedBy(t)') \in Nat
  <2>1. RedeemedBy(t)' \in SUBSET RedeemedBy(t)
    BY DEF RedeemedBy
  <2>2. IsFiniteSet(RedeemedBy(t)')
    BY <2>1, CountsAreNumbers, FS_Subset
  <2> QED BY <2>1, <2>2, CountsAreNumbers, FS_Subset, FS_CardinalityType
<1>3. PlaceLeft => PlaceLeft'
  BY <1>1, CountsAreNumbers, PromotionAssumption DEF PlaceLeft
<1>4. ASSUME NEW p, TeacherPlaceLeft(p) PROVE TeacherPlaceLeft(p)'
  BY <1>2, <1>4, CountsAreNumbers, PromotionAssumption DEF TeacherPlaceLeft
<1> QED BY <1>3, <1>4

(* The invariant.                                                          *)

LEMMA InitHolds == Init => LimitInv
<1> SUFFICES ASSUME Init PROVE LimitInv
  OBVIOUS
<1>1. TypeOK
  BY DEF Init, TypeOK, Steps
<1>2. OneHolder /\ CountStands /\ NotYetRedeemed
  BY DEF Init, OneHolder, CountStands, NotYetRedeemed
<1> QED BY <1>1, <1>2 DEF LimitInv

LEMMA StepTypes == TypeOK /\ [Next]_vars => TypeOK'
<1> SUFFICES ASSUME TypeOK, [Next]_vars PROVE TypeOK'
  OBVIOUS
<1>1. ASSUME NEW p \in Payments, Request(p) PROVE TypeOK'
  <2>1. CASE Price(p) \/ CreateRow(p) \/ Lock(p) \/ CountAll(p) \/ CountOwn(p)
    BY <2>1 DEF TypeOK, Steps, Price, CreateRow, Lock, CountAll, CountOwn
  <2>2. CASE Refuse(p) \/ Reserve(p) \/ Grant(p)
    BY <2>2 DEF TypeOK, Steps, Refuse, Reserve, Grant
  <2>3. CASE OpenForm(p) \/ Resubmit(p) \/ FormFails(p)
    BY <2>3 DEF TypeOK, Steps, OpenForm, Resubmit, FormFails
  <2>4. CASE Release(p) \/ Crash(p)
    BY <2>4 DEF TypeOK, Steps, Release, Released, Crash
  <2> QED BY <1>1, <2>1, <2>2, <2>3, <2>4 DEF Request
<1>2. ASSUME NEW p \in Payments, SettlePaid(p) \/ SettleUnsuccessful(p) PROVE TypeOK'
  BY <1>2 DEF TypeOK, SettlePaid, Confirmed, SettleUnsuccessful, Released
<1>3. ASSUME NEW p \in Payments, Withdraw(p) PROVE TypeOK'
  BY <1>3 DEF TypeOK, Withdraw
<1>4. CASE UNCHANGED vars
  BY <1>4 DEF TypeOK, vars
<1> QED BY <1>1, <1>2, <1>3, <1>4 DEF Next

\* The two steps that redeem also give the lock back.
Redeems(p) == Reserve(p) \/ Grant(p)

LEMMA OthersDoNotRedeem ==
    ASSUME LimitInv, NEW p \in Payments,
           \/ Request(p) /\ ~Redeems(p)
           \/ SettlePaid(p) \/ SettleUnsuccessful(p) \/ Withdraw(p)
    PROVE  Redeemed' \subseteq Redeemed
<1>1. CASE UNCHANGED redemption
  BY <1>1 DEF Redeemed
<1>2. CASE Release(p) \/ SettlePaid(p) \/ SettleUnsuccessful(p)
  BY <1>2
  DEF Redeemed, Counted, Release, Released, SettlePaid, Confirmed, SettleUnsuccessful,
      LimitInv, TypeOK
<1> QED
  BY <1>1, <1>2
  DEF Request, Redeems, Price, CreateRow, Lock, CountAll, CountOwn, Refuse, OpenForm,
      Resubmit, FormFails, Crash, Withdraw

LEMMA StepHolder == LimitInv /\ [Next]_vars => OneHolder'
<1> SUFFICES ASSUME LimitInv, [Next]_vars PROVE OneHolder'
  OBVIOUS
<1> USE DEF LimitInv, OneHolder
<1>1. ASSUME NEW p \in Payments, Request(p) PROVE OneHolder'
  <2>1. CASE Lock(p)
    <3>1. \A q \in Payments : step[q] \notin {"locked", "counted", "allowed"}
      BY <2>1, PromotionAssumption DEF Lock
    <3> QED BY <2>1, <3>1 DEF Lock, TypeOK
  <2>2. CASE CountAll(p) \/ CountOwn(p)
    BY <2>2 DEF CountAll, CountOwn, TypeOK
  <2>3. CASE Refuse(p) \/ Reserve(p) \/ Grant(p)
    <3>1. holder = p
      BY <2>3 DEF Refuse, Reserve, Grant
    <3>2. \A q \in Payments \ {p} : step[q] \notin {"locked", "counted", "allowed"}
      BY <3>1
    <3> QED BY <2>3, <3>2 DEF Refuse, Reserve, Grant, TypeOK
  <2>4. CASE Crash(p)
    BY <2>4 DEF Crash, TypeOK
  <2>5. CASE Price(p) \/ CreateRow(p) \/ OpenForm(p) \/ Resubmit(p)
             \/ FormFails(p) \/ Release(p)
    BY <2>5 DEF Price, CreateRow, OpenForm, Resubmit, FormFails, Release, TypeOK
  <2> QED BY <1>1, <2>1, <2>2, <2>3, <2>4, <2>5 DEF Request
<1>2. ASSUME NEW p \in Payments, SettlePaid(p) \/ SettleUnsuccessful(p) \/ Withdraw(p)
      PROVE  OneHolder'
  BY <1>2 DEF SettlePaid, SettleUnsuccessful, Withdraw
<1>3. CASE UNCHANGED vars
  BY <1>3 DEF vars
<1> QED BY <1>1, <1>2, <1>3 DEF Next

LEMMA StepCounts == LimitInv /\ [Next]_vars => CountStands'
<1> SUFFICES ASSUME LimitInv, [Next]_vars PROVE CountStands'
  OBVIOUS
<1>1. ASSUME NEW p \in Payments, Redeems(p) PROVE CountStands'
  <2>1. holder = p
    BY <1>1 DEF Redeems, Reserve, Grant, LimitInv, OneHolder
  <2>2. \A q \in Payments : step'[q] \notin {"counted", "allowed"}
    BY <1>1, <2>1 DEF Redeems, Reserve, Grant, LimitInv, OneHolder, TypeOK
  <2> QED BY <2>2 DEF CountStands
<1>2. ASSUME Redeemed' \subseteq Redeemed,
             \A q \in Payments :
                \/ step'[q] = step[q]
                \/ step'[q] \notin {"counted", "allowed"}
                \/ step'[q] = "counted" /\ PlaceLeft
                \/ step'[q] = "allowed" /\ step[q] = "counted" /\ TeacherPlaceLeft(q)
      PROVE  CountStands'
  <2>1. PlaceLeft => PlaceLeft'
    BY <1>2, PlacesStay
  <2>2. \A q \in Payments : TeacherPlaceLeft(q) => TeacherPlaceLeft(q)'
    BY <1>2, PlacesStay
  <2>3. ASSUME NEW q \in Payments
        PROVE  /\ step'[q] \in {"counted", "allowed"} => PlaceLeft'
               /\ step'[q] = "allowed" => TeacherPlaceLeft(q)'
    BY <1>2, <2>1, <2>2 DEF LimitInv, CountStands
  <2> QED BY <2>3 DEF CountStands
<1>3. ASSUME NEW p \in Payments, Request(p), ~Redeems(p) PROVE CountStands'
  <2>1. Redeemed' \subseteq Redeemed
    BY <1>3, OthersDoNotRedeem
  <2>2. \A q \in Payments :
                \/ step'[q] = step[q]
                \/ step'[q] \notin {"counted", "allowed"}
                \/ step'[q] = "counted" /\ PlaceLeft
                \/ step'[q] = "allowed" /\ step[q] = "counted" /\ TeacherPlaceLeft(q)
    BY <1>3
    DEF LimitInv, TypeOK, Request, Redeems, Price, CreateRow, Lock, CountAll, CountOwn,
        Refuse, OpenForm, Resubmit, FormFails, Release, Crash
  <2> QED BY <1>2, <2>1, <2>2
<1>4. ASSUME NEW p \in Payments, SettlePaid(p) \/ SettleUnsuccessful(p) \/ Withdraw(p)
      PROVE  CountStands'
  <2>1. Redeemed' \subseteq Redeemed
    BY <1>4, OthersDoNotRedeem
  <2>2. step' = step
    BY <1>4 DEF SettlePaid, SettleUnsuccessful, Withdraw
  <2> QED BY <1>2, <2>1, <2>2
<1>5. CASE UNCHANGED vars
  BY <1>2, <1>5 DEF vars, Redeemed
<1> QED BY <1>1, <1>3, <1>4, <1>5 DEF Next

LEMMA StepFresh == LimitInv /\ [Next]_vars => NotYetRedeemed'
<1> SUFFICES ASSUME LimitInv, [Next]_vars PROVE NotYetRedeemed'
  OBVIOUS
<1> USE DEF LimitInv, NotYetRedeemed
<1>1. ASSUME NEW p \in Payments, Request(p) PROVE NotYetRedeemed'
  <2>1. CASE Price(p) \/ CreateRow(p) \/ Lock(p) \/ CountAll(p) \/ CountOwn(p)
    BY <2>1 DEF TypeOK, Price, CreateRow, Lock, CountAll, CountOwn
  <2>2. CASE Refuse(p) \/ Reserve(p) \/ Grant(p)
    BY <2>2 DEF TypeOK, Refuse, Reserve, Grant
  <2>3. CASE OpenForm(p) \/ Resubmit(p) \/ FormFails(p) \/ Release(p) \/ Crash(p)
    BY <2>3 DEF TypeOK, OpenForm, Resubmit, FormFails, Release, Released, Crash
  <2> QED BY <1>1, <2>1, <2>2, <2>3 DEF Request
<1>2. ASSUME NEW p \in Payments, SettlePaid(p) \/ SettleUnsuccessful(p) \/ Withdraw(p)
      PROVE  NotYetRedeemed'
  BY <1>2 DEF TypeOK, SettlePaid, Confirmed, SettleUnsuccessful, Released, Withdraw
<1>3. CASE UNCHANGED vars
  BY <1>3 DEF vars
<1> QED BY <1>1, <1>2, <1>3 DEF Next

\* The variables keep their types.
THEOREM TypeCorrect == Spec => []TypeOK
<1>1. Init => TypeOK
  BY InitHolds DEF LimitInv
<1> QED BY <1>1, StepTypes, PTL DEF Spec

\* Only the request that holds the promotion row redeems, and what it has
\* counted still stands when it does.
THEOREM LimitInvHolds == Spec => []LimitInv
<1>1. LimitInv /\ [Next]_vars => LimitInv'
  BY StepTypes, StepHolder, StepCounts, StepFresh DEF LimitInv
<1> QED BY InitHolds, <1>1, PTL DEF Spec

(* The refinement.                                                         *)

PlaceOf(p) ==
    CASE redemption[p] = "applied"  -> "used"
      [] redemption[p] = "reserved" -> "held"
      [] OTHER                      -> "free"

Place == [p \in Payments |-> PlaceOf(p)]

LEMMA TakenIsRedeemed ==
    /\ Limited!Taken = Redeemed
    /\ \A t : Limited!TakenBy(t) = RedeemedBy(t)
<1>1. \A p \in Payments : PlaceOf(p) # "free" <=> redemption[p] \in Counted
  BY DEF PlaceOf, Counted
<1>2. Limited!Taken = Redeemed
  BY <1>1 DEF Limited!Taken, Redeemed, PlaceOf
<1> QED BY <1>2 DEF Limited!TakenBy, RedeemedBy

\* Both modules count with the same operator.
LEMMA SameCount == \A S : Limited!Cardinality(S) = Cardinality(S)
  BY DEF Limited!Cardinality, Cardinality

LEMMA MapRedeem ==
    ASSUME LimitInv, NEW p \in Payments, Redeems(p)
    PROVE  Limited!Next
<1>1. PICK as \in {"held", "used"} : Place' = [Place EXCEPT ![p] = as]
  <2>1. CASE Reserve(p)
    <3>1. Place' = [Place EXCEPT ![p] = "held"]
      BY <2>1 DEF Reserve, Place, PlaceOf, LimitInv, TypeOK
    <3> QED BY <3>1
  <2>2. CASE Grant(p)
    <3>1. Place' = [Place EXCEPT ![p] = "used"]
      BY <2>2 DEF Grant, Place, PlaceOf, LimitInv, TypeOK
    <3> QED BY <3>1
  <2> QED BY <2>1, <2>2 DEF Redeems
<1>2. step[p] = "allowed"
  BY DEF Redeems, Reserve, Grant
<1>3. PlaceOf(p) = "free"
  BY <1>2 DEF LimitInv, NotYetRedeemed, PlaceOf
<1>4. PlaceLeft /\ TeacherPlaceLeft(p)
  BY <1>2 DEF LimitInv, CountStands
<1>5. Limited!Take(p, as)
  BY <1>1, <1>3, <1>4, TakenIsRedeemed, SameCount
  DEF Limited!Take, Place, PlaceOf, PlaceLeft, TeacherPlaceLeft
<1> QED BY <1>5 DEF Limited!Next

LEMMA MapRelease ==
    ASSUME LimitInv, NEW p \in Payments,
           redemption' = [redemption EXCEPT ![p] = Released(p)]
    PROVE  Limited!Next \/ Place' = Place
<1>1. CASE redemption[p] = "reserved"
  <2>1. PlaceOf(p) = "held" /\ Place' = [Place EXCEPT ![p] = "free"]
    BY <1>1 DEF Released, Place, PlaceOf, LimitInv, TypeOK
  <2>2. Limited!GiveBack(p)
    BY <2>1 DEF Limited!GiveBack, Place, PlaceOf
  <2> QED BY <2>2 DEF Limited!Next
<1>2. CASE redemption[p] # "reserved"
  BY <1>2 DEF Released, Place, PlaceOf, LimitInv, TypeOK
<1> QED BY <1>1, <1>2

LEMMA MapConfirm ==
    ASSUME LimitInv, NEW p \in Payments,
           redemption' = [redemption EXCEPT ![p] = Confirmed(p)]
    PROVE  Limited!Next \/ Place' = Place
<1>1. CASE redemption[p] = "reserved"
  <2>1. PlaceOf(p) = "held" /\ Place' = [Place EXCEPT ![p] = "used"]
    BY <1>1 DEF Confirmed, Place, PlaceOf, LimitInv, TypeOK
  <2>2. Limited!Use(p)
    BY <2>1 DEF Limited!Use, Place, PlaceOf
  <2> QED BY <2>2 DEF Limited!Next
<1>2. CASE redemption[p] # "reserved"
  BY <1>2 DEF Confirmed, Place, PlaceOf, LimitInv, TypeOK
<1> QED BY <1>1, <1>2

LEMMA MapStep == LimitInv /\ [Next]_vars => Limited!Next \/ Place' = Place
<1> SUFFICES ASSUME LimitInv, [Next]_vars PROVE Limited!Next \/ Place' = Place
  OBVIOUS
<1>1. ASSUME UNCHANGED redemption PROVE Place' = Place
  BY <1>1 DEF Place, PlaceOf
<1>2. ASSUME NEW p \in Payments, Request(p) PROVE Limited!Next \/ Place' = Place
  <2>1. CASE Redeems(p)
    BY <2>1, MapRedeem
  <2>2. CASE Release(p)
    BY <2>2, MapRelease DEF Release
  <2>3. CASE ~Redeems(p) /\ ~Release(p)
    BY <1>1, <1>2, <2>3
    DEF Request, Redeems, Price, CreateRow, Lock, CountAll, CountOwn, Refuse, OpenForm,
        Resubmit, FormFails, Crash
  <2> QED BY <2>1, <2>2, <2>3
<1>3. ASSUME NEW p \in Payments, SettlePaid(p) PROVE Limited!Next \/ Place' = Place
  BY <1>3, MapConfirm DEF SettlePaid
<1>4. ASSUME NEW p \in Payments, SettleUnsuccessful(p) PROVE Limited!Next \/ Place' = Place
  BY <1>4, MapRelease DEF SettleUnsuccessful
<1>5. ASSUME NEW p \in Payments, Withdraw(p) PROVE Place' = Place
  BY <1>1, <1>5 DEF Withdraw
<1>6. CASE UNCHANGED vars
  BY <1>1, <1>6 DEF vars
<1> QED BY <1>2, <1>3, <1>4, <1>5, <1>6 DEF Next

\* The promotion keeps the promise of LimitedUse: no interleaving of requests,
\* grants, settlements and crashes exceeds a limit.
THEOREM LimitsRespected == Spec => RespectsLimits
<1>1. Init => Limited!Init
  BY DEF Init, Limited!Init
<1>2. LimitInv /\ [Next]_vars => Limited!Next \/ UNCHANGED Place
  BY MapStep
<1>3. LimitInv /\ [Next]_vars =>
        [Limited!Next]_[p \in Payments |->
                            CASE redemption[p] = "applied"  -> "used"
                              [] redemption[p] = "reserved" -> "held"
                              [] OTHER                      -> "free"]
  BY <1>2 DEF Place, PlaceOf
<1> QED BY <1>1, <1>3, LimitInvHolds, PTL DEF Spec, RespectsLimits, Limited!Spec
(* Failed checkouts.                                                       *)

\* A form that exists before the request is over is the work of a second
\* request for the same payment.
EarlyFormIsResubmitted ==
    \A p \in Payments : form[p] /\ step[p] # "done" => "double_submit" \in Faults[p]

\* The payment of a request that still runs, or of a redemption that is still
\* reserved, has failed only because of such a form.
Overtaken(p) == "double_submit" \in Faults[p] /\ form[p]

FailedIsOvertaken ==
    \A p \in Payments :
        status[p] = "failed" /\ step[p] \notin {"releasing", "abandoned"}
            => \/ Overtaken(p)
               \/ step[p] = "done" /\ redemption[p] # "reserved"

ReleaseInv == LimitInv /\ EarlyFormIsResubmitted /\ FailedIsOvertaken

LEMMA StepEarlyForm == ReleaseInv /\ [Next]_vars => EarlyFormIsResubmitted'
<1> SUFFICES ASSUME ReleaseInv, [Next]_vars PROVE EarlyFormIsResubmitted'
  OBVIOUS
<1> USE DEF ReleaseInv, LimitInv, TypeOK, EarlyFormIsResubmitted
<1>1. ASSUME NEW p \in Payments, Request(p) PROVE EarlyFormIsResubmitted'
  <2>1. CASE Price(p) \/ CreateRow(p) \/ Lock(p) \/ CountAll(p) \/ CountOwn(p)
    BY <2>1 DEF Price, CreateRow, Lock, CountAll, CountOwn
  <2>2. CASE Refuse(p) \/ Reserve(p) \/ Grant(p)
    BY <2>2 DEF Refuse, Reserve, Grant
  <2>3. CASE OpenForm(p) \/ Resubmit(p) \/ FormFails(p) \/ Release(p) \/ Crash(p)
    BY <2>3 DEF OpenForm, Resubmit, FormFails, Release, Crash
  <2> QED BY <1>1, <2>1, <2>2, <2>3 DEF Request
<1>2. ASSUME NEW p \in Payments, SettlePaid(p) \/ SettleUnsuccessful(p) \/ Withdraw(p)
      PROVE  EarlyFormIsResubmitted'
  BY <1>2 DEF SettlePaid, SettleUnsuccessful, Withdraw
<1>3. CASE UNCHANGED vars
  BY <1>3 DEF vars
<1> QED BY <1>1, <1>2, <1>3 DEF Next

LEMMA StepFailed == ReleaseInv /\ [Next]_vars => FailedIsOvertaken'
<1> SUFFICES ASSUME ReleaseInv, [Next]_vars PROVE FailedIsOvertaken'
  OBVIOUS
<1> USE DEF ReleaseInv, LimitInv, TypeOK, FailedIsOvertaken, Overtaken
<1>1. ASSUME NEW p \in Payments, Request(p) PROVE FailedIsOvertaken'
  <2>1. CASE Price(p) \/ CreateRow(p) \/ Lock(p) \/ CountAll(p) \/ CountOwn(p)
    BY <2>1 DEF Price, CreateRow, Lock, CountAll, CountOwn
  <2>2. CASE Refuse(p)
    <3>1. redemption[p] = "none"
      BY <2>2 DEF Refuse, NotYetRedeemed
    <3> QED BY <2>2, <3>1 DEF Refuse
  <2>3. CASE Reserve(p) \/ Grant(p)
    BY <2>3 DEF Reserve, Grant
  <2>4. CASE OpenForm(p) \/ Resubmit(p)
    BY <2>4 DEF OpenForm, Resubmit
  <2>5. CASE FormFails(p) \/ Release(p) \/ Crash(p)
    BY <2>5 DEF FormFails, Release, Released, Crash
  <2> QED BY <1>1, <2>1, <2>2, <2>3, <2>4, <2>5 DEF Request
<1>2. ASSUME NEW p \in Payments, SettlePaid(p) PROVE FailedIsOvertaken'
  BY <1>2 DEF SettlePaid
<1>3. ASSUME NEW p \in Payments, SettleUnsuccessful(p) PROVE FailedIsOvertaken'
  <2>1. redemption'[p] # "reserved"
    BY <1>3 DEF SettleUnsuccessful, Released
  <2>2. form[p] /\ step[p] \notin {"done", "abandoned"} => Overtaken(p)
    BY DEF EarlyFormIsResubmitted
  <2>3. step[p] \notin {"done", "abandoned"} => Overtaken(p)
    BY <1>3, <2>2 DEF SettleUnsuccessful
  <2>4. \A q \in Payments \ {p} : status'[q] = status[q] /\ redemption'[q] = redemption[q]
    BY <1>3 DEF SettleUnsuccessful
  <2> QED BY <1>3, <2>1, <2>3, <2>4 DEF SettleUnsuccessful
<1>4. ASSUME NEW p \in Payments, Withdraw(p) PROVE FailedIsOvertaken'
  BY <1>4 DEF Withdraw
<1>5. CASE UNCHANGED vars
  BY <1>5 DEF vars
<1> QED BY <1>1, <1>2, <1>3, <1>4, <1>5 DEF Next

\* A payment that failed has given its place back by the end of its request:
\* the redemption is created before the form, so that a declined form always
\* finds it, and a checkout that gets no form releases it itself.
THEOREM FailedGivesItsPlaceBack == Spec => []NoPlaceLeftBehind
<1>1. Init => ReleaseInv
  <2>1. Init => EarlyFormIsResubmitted /\ FailedIsOvertaken
    BY DEF Init, EarlyFormIsResubmitted, FailedIsOvertaken
  <2> QED BY <2>1, InitHolds DEF ReleaseInv
<1>2. ReleaseInv /\ [Next]_vars => ReleaseInv'
  <2>1. LimitInv /\ [Next]_vars => LimitInv'
    BY StepTypes, StepHolder, StepCounts, StepFresh DEF LimitInv
  <2> QED BY <2>1, StepEarlyForm, StepFailed DEF ReleaseInv
<1>3. ReleaseInv => NoPlaceLeftBehind
  BY DEF ReleaseInv, FailedIsOvertaken, Overtaken, NoPlaceLeftBehind
<1> QED BY <1>1, <1>2, <1>3, PTL DEF Spec
================================================================================
