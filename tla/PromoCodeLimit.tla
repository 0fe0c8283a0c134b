----------------------------- MODULE PromoCodeLimit -----------------------------
(***************************************************************************)
(* How the uses of a promo code are counted: PromoCodeService of           *)
(* Cabinet/subscription_service.py, as create_payment and handle_webhook   *)
(* call it.                                                                *)
(*                                                                         *)
(* apply reads the code, counts the usages by two queries and creates its  *)
(* own, with nothing locked.  confirm_for_payment locks the usages and     *)
(* their code and writes uses_count back.                                  *)
(***************************************************************************)
EXTENDS Integers, FiniteSets

CONSTANTS
    Payments,       \* the payments opened with the code
    Teacher,        \* whose payment each one is
    Limit,          \* PromoCode.max_uses
    TeacherLimit,   \* PromoCode.max_uses_per_user
    Faults          \* what may go wrong, see FaultKinds

FaultKinds ==
    { "crash",          \* a worker dies in the middle
      "double_submit" } \* the checkout is posted again with the same key

ASSUME PromoCodeAssumption ==
    /\ IsFiniteSet(Payments)
    /\ Limit \in Nat
    /\ TeacherLimit \in Nat
    /\ Faults \subseteq FaultKinds

VARIABLES
    status,         \* Payment.status, "none" before the row exists
    usage,          \* PromoCodeUsage.status of the payment's usage
    form,           \* the bank has given the payment a form
    step,           \* where create_payment stands
    seen,           \* the uses_count that apply has read
    confirming,     \* the uses_count an open confirmation has read
    usesCount       \* PromoCode.uses_count

vars == <<status, usage, form, step, seen, confirming, usesCount>>

Steps == {"idle", "created", "read", "counted", "allowed", "reserved",
          "releasing", "abandoned", "done"}

NotConfirming == -1

TypeOK ==
    /\ status \in [Payments -> {"none", "pending", "paid", "failed"}]
    /\ usage \in [Payments -> {"none", "reserved", "applied", "cancelled"}]
    /\ form \in [Payments -> BOOLEAN]
    /\ step \in [Payments -> Steps]
    /\ seen \in [Payments -> Nat]
    /\ confirming \in [Payments -> Nat \cup {NotConfirming}]
    /\ usesCount \in Nat

Init ==
    /\ status = [p \in Payments |-> "none"]
    /\ usage = [p \in Payments |-> "none"]
    /\ form = [p \in Payments |-> FALSE]
    /\ step = [p \in Payments |-> "idle"]
    /\ seen = [p \in Payments |-> 0]
    /\ confirming = [p \in Payments |-> NotConfirming]
    /\ usesCount = 0

--------------------------------------------------------------------------------
UsagesIn(statuses) == {p \in Payments : usage[p] \in statuses}

Reserved == Cardinality(UsagesIn({"reserved"}))

UsedBy(t) ==
    Cardinality({p \in UsagesIn({"reserved", "applied"}) : Teacher[p] = t})

--------------------------------------------------------------------------------
(* create_payment and PromoCodeService.apply.                              *)

\* The price is taken with the code, and the payment is created.
CreateRow(p) ==
    /\ step[p] = "idle"
    /\ usesCount + Reserved < Limit
    /\ UsedBy(Teacher[p]) < TeacherLimit
    /\ step' = [step EXCEPT ![p] = "created"]
    /\ status' = [status EXCEPT ![p] = "pending"]
    /\ UNCHANGED <<usage, form, seen, confirming, usesCount>>

\* validate, once more: the code and its uses_count are read, ...
ReadCode(p) ==
    /\ step[p] = "created"
    /\ seen' = [seen EXCEPT ![p] = usesCount]
    /\ step' = [step EXCEPT ![p] = "read"]
    /\ UNCHANGED <<status, usage, form, confirming, usesCount>>

\* ... the reservations are counted, ...
CountReserved(p) ==
    /\ step[p] = "read"
    /\ seen[p] + Reserved < Limit
    /\ step' = [step EXCEPT ![p] = "counted"]
    /\ UNCHANGED <<status, usage, form, seen, confirming, usesCount>>

\* ... and the usages of the teacher.
CountOwn(p) ==
    /\ step[p] = "counted"
    /\ UsedBy(Teacher[p]) < TeacherLimit
    /\ step' = [step EXCEPT ![p] = "allowed"]
    /\ UNCHANGED <<status, usage, form, seen, confirming, usesCount>>

\* PromoCodeError: the payment fails in a write of its own.
Refuse(p) ==
    /\ \/ step[p] = "read" /\ seen[p] + Reserved >= Limit
       \/ step[p] = "counted" /\ UsedBy(Teacher[p]) >= TeacherLimit
    /\ confirming[p] = NotConfirming
    /\ step' = [step EXCEPT ![p] = "done"]
    /\ status' = [status EXCEPT ![p] = "failed"]
    /\ UNCHANGED <<usage, form, seen, confirming, usesCount>>

Reserve(p) ==
    /\ step[p] = "allowed"
    /\ usage' = [usage EXCEPT ![p] = "reserved"]
    /\ step' = [step EXCEPT ![p] = "reserved"]
    /\ UNCHANGED <<status, form, seen, confirming, usesCount>>

\* create_checkout: the bank opens a form.
OpenForm(p) ==
    /\ step[p] = "reserved"
    /\ form' = [form EXCEPT ![p] = TRUE]
    /\ step' = [step EXCEPT ![p] = "done"]
    /\ UNCHANGED <<status, usage, seen, confirming, usesCount>>

\* The same idempotency key again: a pending payment without a form gets one.
Resubmit(p) ==
    /\ "double_submit" \in Faults
    /\ status[p] = "pending"
    /\ ~form[p]
    /\ form' = [form EXCEPT ![p] = TRUE]
    /\ UNCHANGED <<status, usage, step, seen, confirming, usesCount>>

\* create_checkout fails: the payment first, then the usage.  Both wait for a
\* settlement that holds these rows.
FormFails(p) ==
    /\ step[p] = "reserved"
    /\ confirming[p] = NotConfirming
    /\ status' = [status EXCEPT ![p] = "failed"]
    /\ step' = [step EXCEPT ![p] = "releasing"]
    /\ UNCHANGED <<usage, form, seen, confirming, usesCount>>

Released(p) == IF usage[p] = "reserved" THEN "cancelled" ELSE usage[p]

Release(p) ==
    /\ step[p] = "releasing"
    /\ confirming[p] = NotConfirming
    /\ usage' = [usage EXCEPT ![p] = Released(p)]
    /\ step' = [step EXCEPT ![p] = "done"]
    /\ UNCHANGED <<status, form, seen, confirming, usesCount>>

Crash(p) ==
    /\ "crash" \in Faults
    /\ step[p] \notin {"idle", "abandoned", "done"}
    /\ step' = [step EXCEPT ![p] = IF status[p] = "pending" THEN "abandoned" ELSE "done"]
    /\ UNCHANGED <<status, usage, form, seen, confirming, usesCount>>

--------------------------------------------------------------------------------
(* Settlement: handle_webhook, with the payment row locked.                *)

\* Mutant: confirm_for_payment reads the code without locking it.
ConfirmReadUnlocked(p) ==
    /\ form[p]
    /\ status[p] # "paid"
    /\ usage[p] = "reserved"
    /\ confirming[p] = NotConfirming
    /\ confirming' = [confirming EXCEPT ![p] = usesCount]
    /\ UNCHANGED <<status, usage, form, step, seen, usesCount>>

\* confirm_for_payment: FOR UPDATE on the usage and the code.
ConfirmRead(p) ==
    /\ form[p]
    /\ status[p] # "paid"
    /\ usage[p] = "reserved"
    /\ \A q \in Payments : confirming[q] = NotConfirming
    /\ confirming' = [confirming EXCEPT ![p] = usesCount]
    /\ UNCHANGED <<status, usage, form, step, seen, usesCount>>

\* The payment is paid, its usage applied and the use counted by one commit.
ConfirmCommit(p) ==
    /\ confirming[p] # NotConfirming
    /\ usesCount' = confirming[p] + 1
    /\ usage' = [usage EXCEPT ![p] = "applied"]
    /\ status' = [status EXCEPT ![p] = "paid"]
    /\ confirming' = [confirming EXCEPT ![p] = NotConfirming]
    /\ UNCHANGED <<form, step, seen>>

\* The worker dies and the transaction is rolled back.
ConfirmAborts(p) ==
    /\ "crash" \in Faults
    /\ confirming[p] # NotConfirming
    /\ confirming' = [confirming EXCEPT ![p] = NotConfirming]
    /\ UNCHANGED <<status, usage, form, step, seen, usesCount>>

\* Money for a payment whose usage is not reserved (any more): there is
\* nothing to confirm.
PaidWithoutUsage(p) ==
    /\ form[p]
    /\ status[p] # "paid"
    /\ usage[p] # "reserved"
    /\ status' = [status EXCEPT ![p] = "paid"]
    /\ UNCHANGED <<usage, form, step, seen, confirming, usesCount>>

SettleUnsuccessful(p) ==
    /\ form[p] \/ (step[p] = "abandoned" /\ status[p] = "pending")
    /\ confirming[p] = NotConfirming
    /\ status' = [status EXCEPT ![p] = "failed"]
    /\ usage' = [usage EXCEPT ![p] = Released(p)]
    /\ UNCHANGED <<form, step, seen, confirming, usesCount>>

--------------------------------------------------------------------------------

Request(p) ==
    \/ CreateRow(p) \/ ReadCode(p) \/ CountReserved(p) \/ CountOwn(p)
    \/ Refuse(p) \/ Reserve(p) \/ OpenForm(p) \/ Resubmit(p)
    \/ FormFails(p) \/ Release(p) \/ Crash(p)

Settlement(p) ==
    \/ ConfirmRead(p) \/ ConfirmCommit(p) \/ ConfirmAborts(p)
    \/ PaidWithoutUsage(p) \/ SettleUnsuccessful(p)

Next == \E p \in Payments : Request(p) \/ Settlement(p)

Spec == Init /\ [][Next]_vars

--------------------------------------------------------------------------------
(* Properties.                                                             *)

\* uses_count is the number of applied usages at every moment, however many
\* payments are confirmed at once and whichever of them fail half-way: no
\* increment is lost, none is made twice.
UsesCounted == usesCount = Cardinality(UsagesIn({"applied"}))

\* Why: one confirmation at a time has the code locked, and what it has read
\* is still there when it writes.
ConfirmationHoldsCode ==
    \A p \in Payments : confirming[p] # NotConfirming =>
        /\ confirming[p] = usesCount
        /\ usage[p] = "reserved"
        /\ \A q \in Payments \ {p} : confirming[q] = NotConfirming

\* A usage is created once per payment.
NotYetUsed ==
    \A p \in Payments :
        step[p] \in {"idle", "created", "read", "counted", "allowed"}
            => usage[p] = "none"

CountInv == TypeOK /\ UsesCounted /\ ConfirmationHoldsCode /\ NotYetUsed
================================================================================
