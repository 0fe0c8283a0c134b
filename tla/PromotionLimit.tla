----------------------------- MODULE PromotionLimit ----------------------------
(***************************************************************************)
(* How the places of a limited promotion are given out:                    *)
(* get_applicable_promotion, reserve_redemption, confirm_for_payment and   *)
(* release_for_payment of Cabinet/promotion_service.py, as the checkout,   *)
(* the zero-price grant and the settlement of a payment call them.         *)
(*                                                                         *)
(* Requests overlap.  reserve_redemption and the grant lock the promotion  *)
(* row and then count redemptions by two queries; settlement takes no such *)
(* lock and changes what is counted between the two.                       *)
(***************************************************************************)
EXTENDS Integers, FiniteSets

CONSTANTS
    Payments,       \* the payments for which the promotion sets the price
    NoPayment,      \* "the promotion row is not locked"
    Teacher,        \* whose payment each one is
    Grants,         \* the payments whose promotional price is zero
    Limit,          \* Promotion.max_redemptions
    TeacherLimit,   \* Promotion.max_redemptions_per_user
    Faults          \* what may go wrong with the request of a payment, see FaultKinds

FaultKinds ==
    { "crash",          \* the worker dies in the middle
      "double_submit" } \* the checkout is posted again with the same key

ASSUME PromotionAssumption ==
    /\ IsFiniteSet(Payments)
    /\ NoPayment \notin Payments
    /\ Grants \subseteq Payments
    /\ Limit \in Nat
    /\ TeacherLimit \in Nat
    /\ Faults \in [Payments -> SUBSET FaultKinds]

VARIABLES
    eligible,       \* for whom the promotion is active, in its window and meant
    status,         \* Payment.status, "none" before the row exists
    redemption,     \* PromotionRedemption.status of the payment's redemption
    form,           \* the bank has given the payment a form
    step,           \* where the request that creates the payment stands
    holder          \* the request whose transaction holds the promotion row

vars == <<eligible, status, redemption, form, step, holder>>

Counted == {"reserved", "applied"}

Steps == {"idle", "priced", "created", "locked", "counted", "allowed", "reserved",
          "releasing", "abandoned", "done"}

TypeOK ==
    /\ eligible \subseteq Payments
    /\ status \in [Payments -> {"none", "pending", "paid", "failed"}]
    /\ redemption \in [Payments -> {"none", "reserved", "applied", "cancelled"}]
    /\ form \in [Payments -> BOOLEAN]
    /\ step \in [Payments -> Steps]
    /\ holder \in Payments \cup {NoPayment}

Init ==
    /\ eligible = Payments
    /\ status = [p \in Payments |-> "none"]
    /\ redemption = [p \in Payments |-> "none"]
    /\ form = [p \in Payments |-> FALSE]
    /\ step = [p \in Payments |-> "idle"]
    /\ holder = NoPayment

--------------------------------------------------------------------------------
(* redemption_count, in all and for one teacher.                           *)

Redeemed == {p \in Payments : redemption[p] \in Counted}

RedeemedBy(t) == {p \in Redeemed : Teacher[p] = t}

PlaceLeft == Cardinality(Redeemed) < Limit

TeacherPlaceLeft(p) == Cardinality(RedeemedBy(Teacher[p])) < TeacherLimit

--------------------------------------------------------------------------------
(* The request.                                                            *)

\* calculate_subscription_price takes the promotional price, without a lock.
Price(p) ==
    /\ step[p] = "idle"
    /\ p \in eligible
    /\ PlaceLeft
    /\ TeacherPlaceLeft(p)
    /\ step' = [step EXCEPT ![p] = "priced"]
    /\ UNCHANGED <<eligible, status, redemption, form, holder>>

CreateRow(p) ==
    /\ step[p] = "priced"
    /\ p \notin Grants
    /\ step' = [step EXCEPT ![p] = "created"]
    /\ status' = [status EXCEPT ![p] = "pending"]
    /\ UNCHANGED <<eligible, redemption, form, holder>>

\* Mutant: the promotion is read without FOR UPDATE.
LockShared(p) ==
    /\ step[p] = IF p \in Grants THEN "priced" ELSE "created"
    /\ step' = [step EXCEPT ![p] = "locked"]
    /\ UNCHANGED <<eligible, status, redemption, form, holder>>

\* select_for_update on the promotion.
Lock(p) ==
    /\ step[p] = IF p \in Grants THEN "priced" ELSE "created"
    /\ holder = NoPayment
    /\ holder' = p
    /\ step' = [step EXCEPT ![p] = "locked"]
    /\ UNCHANGED <<eligible, status, redemption, form>>

\* is_active, the window and user_eligible are looked at again, then all
\* redemptions are counted ...
CountAll(p) ==
    /\ step[p] = "locked"
    /\ p \in eligible
    /\ PlaceLeft
    /\ step' = [step EXCEPT ![p] = "counted"]
    /\ UNCHANGED <<eligible, status, redemption, form, holder>>

\* ... and then those of the teacher.
CountOwn(p) ==
    /\ step[p] = "counted"
    /\ TeacherPlaceLeft(p)
    /\ step' = [step EXCEPT ![p] = "allowed"]
    /\ UNCHANGED <<eligible, status, redemption, form, holder>>

\* PromotionError: the transaction rolls back; a checkout's payment fails in a
\* write of its own, a grant has created nothing.
Refuse(p) ==
    /\ \/ step[p] = "locked" /\ (p \notin eligible \/ ~PlaceLeft)
       \/ step[p] = "counted" /\ ~TeacherPlaceLeft(p)
    /\ holder' = NoPayment
    /\ step' = [step EXCEPT ![p] = "done"]
    /\ status' = IF p \in Grants THEN status ELSE [status EXCEPT ![p] = "failed"]
    /\ UNCHANGED <<eligible, redemption, form>>

\* The redemption is created and the row unlocked by the commit.
Reserve(p) ==
    /\ step[p] = "allowed"
    /\ p \notin Grants
    /\ redemption' = [redemption EXCEPT ![p] = "reserved"]
    /\ holder' = NoPayment
    /\ step' = [step EXCEPT ![p] = "reserved"]
    /\ UNCHANGED <<eligible, status, form>>

\* _grant_zero_price_promotion reserves, confirms and activates in the one
\* transaction that holds the lock: others see it paid and applied.
Grant(p) ==
    /\ step[p] = "allowed"
    /\ p \in Grants
    /\ redemption' = [redemption EXCEPT ![p] = "applied"]
    /\ status' = [status EXCEPT ![p] = "paid"]
    /\ holder' = NoPayment
    /\ step' = [step EXCEPT ![p] = "done"]
    /\ UNCHANGED <<eligible, form>>

\* create_checkout: the bank opens a form.
OpenForm(p) ==
    /\ step[p] = "reserved"
    /\ form' = [form EXCEPT ![p] = TRUE]
    /\ step' = [step EXCEPT ![p] = "done"]
    /\ UNCHANGED <<eligible, status, redemption, holder>>

\* The same idempotency key again: a pending payment without a form gets one,
\* whether or not the first request has reserved the redemption.
Resubmit(p) ==
    /\ "double_submit" \in Faults[p]
    /\ status[p] = "pending"
    /\ ~form[p]
    /\ form' = [form EXCEPT ![p] = TRUE]
    /\ UNCHANGED <<eligible, status, redemption, step, holder>>

\* create_checkout fails: the payment first, then the redemption.
FormFails(p) ==
    /\ step[p] = "reserved"
    /\ status' = [status EXCEPT ![p] = "failed"]
    /\ step' = [step EXCEPT ![p] = "releasing"]
    /\ UNCHANGED <<eligible, redemption, form, holder>>

\* release_for_payment lets go of a redemption that is not applied.
Released(p) == IF redemption[p] = "reserved" THEN "cancelled" ELSE redemption[p]

\* Mutant: the redemption of a failed checkout is forgotten.
ReleaseNothing(p) ==
    /\ step[p] = "releasing"
    /\ step' = [step EXCEPT ![p] = "done"]
    /\ UNCHANGED <<eligible, status, redemption, form, holder>>

Release(p) ==
    /\ step[p] = "releasing"
    /\ redemption' = [redemption EXCEPT ![p] = Released(p)]
    /\ step' = [step EXCEPT ![p] = "done"]
    /\ UNCHANGED <<eligible, status, form, holder>>

\* The worker dies; an open transaction is rolled back.
Crash(p) ==
    /\ "crash" \in Faults[p]
    /\ step[p] \notin {"idle", "abandoned", "done"}
    /\ holder' = IF holder = p THEN NoPayment ELSE holder
    /\ step' = [step EXCEPT ![p] = "abandoned"]
    /\ UNCHANGED <<eligible, status, redemption, form>>

--------------------------------------------------------------------------------
(* Settlement: handle_webhook, in one transaction each.                    *)

Confirmed(p) == IF redemption[p] = "reserved" THEN "applied" ELSE redemption[p]

\* Money arrives, at the first attempt or after a declined one.
SettlePaid(p) ==
    /\ form[p]
    /\ status[p] # "paid"
    /\ status' = [status EXCEPT ![p] = "paid"]
    /\ redemption' = [redemption EXCEPT ![p] = Confirmed(p)]
    /\ UNCHANGED <<eligible, form, step, holder>>

\* A declined attempt, an expired form or a refund; for a payment whose request
\* died, the reconcile job's verdict that it has no form.
SettleUnsuccessful(p) ==
    /\ \/ form[p]
       \/ step[p] = "abandoned" /\ status[p] = "pending"
    /\ status' = [status EXCEPT ![p] = "failed"]
    /\ redemption' = [redemption EXCEPT ![p] = Released(p)]
    /\ UNCHANGED <<eligible, form, step, holder>>

\* The promotion ends, is switched off, or the teacher is no longer meant.
Withdraw(p) ==
    /\ p \in eligible
    /\ eligible' = eligible \ {p}
    /\ UNCHANGED <<status, redemption, form, step, holder>>

--------------------------------------------------------------------------------

Request(p) ==
    \/ Price(p) \/ CreateRow(p) \/ Lock(p) \/ CountAll(p) \/ CountOwn(p)
    \/ Refuse(p) \/ Reserve(p) \/ Grant(p) \/ OpenForm(p) \/ Resubmit(p)
    \/ FormFails(p) \/ Release(p) \/ Crash(p)

Next ==
    \E p \in Payments :
        \/ Request(p) \/ SettlePaid(p) \/ SettleUnsuccessful(p) \/ Withdraw(p)

Spec == Init /\ [][Next]_vars

--------------------------------------------------------------------------------
(* Properties.                                                             *)

\* The promise of LimitedUse: however requests, settlements and crashes overlap,
\* reserved and applied redemptions together never exceed the promotion's limit
\* or the teacher's, and an applied one is never given back.
Limited == INSTANCE LimitedUse
           WITH place <- [p \in Payments |->
                            CASE redemption[p] = "applied"  -> "used"
                              [] redemption[p] = "reserved" -> "held"
                              [] OTHER                      -> "free"]

RespectsLimits == Limited!Spec

\* Why: only the request that holds the row adds a redemption, so what it has
\* counted can only have fallen since.
OneHolder ==
    \A p \in Payments : step[p] \in {"locked", "counted", "allowed"} => holder = p

CountStands ==
    \A p \in Payments :
        /\ step[p] \in {"counted", "allowed"} => PlaceLeft
        /\ step[p] = "allowed" => TeacherPlaceLeft(p)

\* A redemption is created once per payment.
NotYetRedeemed ==
    \A p \in Payments :
        step[p] \in {"idle", "priced", "created", "locked", "counted", "allowed"}
            => redemption[p] = "none"

LimitInv == TypeOK /\ OneHolder /\ CountStands /\ NotYetRedeemed

\* A payment that has failed keeps no place of the promotion once its request
\* is over, so that an unpaid checkout does not use the promotion up.  A request
\* that died is excepted, and so is one that a second request has overtaken: a
\* form that is declined before the redemption exists releases nothing.
NoPlaceLeftBehind ==
    \A p \in Payments :
        /\ step[p] = "done"
        /\ status[p] = "failed"
        /\ "double_submit" \in Faults[p] => ~form[p]
        => redemption[p] # "reserved"
================================================================================
