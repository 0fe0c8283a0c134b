--------------------------- MODULE PaymentSettlement ---------------------------
(***************************************************************************)
(* How a subscription payment is opened, paid at the bank and settled      *)
(* locally: PaymentProviderService.create_payment, handle_webhook and      *)
(* sync_payment_from_provider, the reconcile_pending_payments job and the  *)
(* promo code reservation that travels with the payment.                   *)
(*                                                                         *)
(* A row may have several forms at the bank, each with a PaymentId of its  *)
(* own: a checkout posted again with the same key sends an Init of its own *)
(* while the row shows no form.  Every form whose address was handed out   *)
(* can be paid; the row remembers the PaymentId that was written last.     *)
(*                                                                         *)
(* handle_webhook and sync_payment_from_provider run in one database       *)
(* transaction that holds the payment row, so each is one action.          *)
(* create_payment and reconcile are sequences of transactions with calls   *)
(* to the bank in between, so each of their steps is an action.            *)
(*                                                                         *)
(* The bank is external: it moves on its own and posts a notification of   *)
(* every move, which may arrive late, twice, in any order or, where Spec   *)
(* rather than FairSpec is assumed, never.                                 *)
(***************************************************************************)
EXTENDS Integers

CONSTANTS
    Payments,           \* the payment rows one teacher may create
    NoPayment,          \* "no payment" in superseded_by
    Offer,              \* the plan and billing period each payment is for
    PromoPayments,      \* the payments whose price used a promo code
    PromotionPayments,  \* the payments whose price used a promotion
    Submits,            \* how often one checkout may be posted with one key
    CancelSuperseded,   \* the setting TBANK_CANCEL_SUPERSEDED
    Faults              \* what the environment may do, see FaultKinds

FaultKinds ==
    { "lost_reply",     \* a handled notification is delivered again
      "form_retry",     \* the payer succeeds after a declined attempt
      "refund",         \* the bank returns the money of a payment
      "crash" }         \* the worker running create_payment dies

ASSUME SettlementAssumption ==
    /\ NoPayment \notin Payments
    /\ PromoPayments \subseteq Payments
    /\ PromotionPayments \subseteq Payments
    /\ Submits \in Nat \ {0}
    /\ CancelSuperseded \in BOOLEAN
    /\ Faults \subseteq FaultKinds

VARIABLES
    status,         \* Payment.status, "none" before the row exists
    pid,            \* the form Payment.provider_payment_id names, 0 when empty
    supersededBy,   \* metadata.superseded_by
    promo,          \* PromoCodeUsage.status of the payment's usage
    step,           \* where create_payment stands for this payment
    todo,           \* superseded forms create_payment still has to cancel
    probed,         \* the form whose GetState said NEW, cancelled next
    resubmitted,    \* forms a repeated request is asking the bank for
    events,         \* PaymentWebhookEvent rows with processed = True
    reading,        \* what reconcile read about a payment and has not applied
    activated,      \* how many times reports of a form activated the plan
    bank,           \* the status the bank holds for a form
    payable,        \* forms whose address has reached the payer
    notes           \* notifications on their way from the bank

rowVars    == <<status, pid, supersededBy, promo>>
createVars == <<step, todo, probed, resubmitted>>
bankVars   == <<bank, payable, notes>>
vars == <<status, pid, supersededBy, promo, step, todo, probed, resubmitted,
          events, reading, activated, bank, payable, notes>>

--------------------------------------------------------------------------------
(* Statuses and forms.                                                     *)

LocalStatus == {"none", "pending", "paid", "failed", "cancelled", "refunded"}
BankStatus  == {"none", "NEW", "CONFIRMED", "AUTH_FAIL", "DEADLINE_EXPIRED",
                "CANCELED", "REFUNDED"}
Unsuccessful == {"AUTH_FAIL", "DEADLINE_EXPIRED", "CANCELED", "REFUNDED"}
PromoStatus == {"none", "reserved", "applied", "released"}

\* A request ends "done" with a form, "failed" with its reservations released,
\* "unreleased" when the promotion could not be reserved, or "dead".
Ended == {"done", "failed", "unreleased", "dead"}
Steps == {"idle", "checked", "created", "reserved", "inited", "cancelling",
          "releasing"} \cup Ended

\* Form 1 is the one the first request asks for, the others are those of
\* repeated requests.  <<p, 0>> stands for the row where no form is named.
Forms == Payments \X (1 .. Submits)
NoForm == <<NoPayment, 0>>

\* Mutant: a declined attempt counts as a payment.
LocalOfDeclinedIsPaid(s) ==
    CASE s \in {"CONFIRMED", "AUTH_FAIL"}         -> "paid"
      [] s = "REFUNDED"                           -> "refunded"
      [] s \in {"CANCELED", "DEADLINE_EXPIRED"}   -> "cancelled"
      [] s = "NO_ID"                              -> "failed"
      [] OTHER                                    -> "pending"

\* map_tbank_status, on the statuses the bank settles on.
LocalOf(s) ==
    CASE s = "CONFIRMED"                          -> "paid"
      [] s = "REFUNDED"                           -> "refunded"
      [] s \in {"CANCELED", "DEADLINE_EXPIRED"}   -> "cancelled"
      [] s \in {"AUTH_FAIL", "NO_ID"}             -> "failed"
      [] OTHER                                    -> "pending"

\* The key of a processed event.  A notification, a GetState answer and a
\* job of our own name the same bank status in different keys.
Event(source, f, s) == <<source, f, s>>
EventKeys ==
    {"tbank", "sync", "reconcile"} \X (Payments \X (0 .. Submits))
        \X (Unsuccessful \cup {"CONFIRMED", "NO_ID", "SUPERSEDED"})

Charged(f) == bank[f] \in {"CONFIRMED", "REFUNDED"}

\* reconcile has not listed the payment; "LISTED": it has, and asks the bank.
NotReading == <<0, "none">>
Readings == (0 .. Submits) \X (Unsuccessful \cup {"none", "LISTED", "CONFIRMED"})

TypeOK ==
    /\ status \in [Payments -> LocalStatus]
    /\ pid \in [Payments -> 0 .. Submits]
    /\ supersededBy \in [Payments -> Payments \cup {NoPayment}]
    /\ promo \in [Payments -> PromoStatus]
    /\ step \in [Payments -> Steps]
    /\ todo \in [Payments -> SUBSET Forms]
    /\ probed \in [Payments -> Forms \cup {NoForm}]
    /\ resubmitted \subseteq Forms
    /\ events \subseteq EventKeys
    /\ reading \in [Payments -> Readings]
    /\ activated \in [Forms -> Nat]
    /\ bank \in [Forms -> BankStatus]
    /\ payable \subseteq Forms
    /\ notes \subseteq Forms \X (Unsuccessful \cup {"CONFIRMED"})

Init ==
    /\ status = [p \in Payments |-> "none"]
    /\ pid = [p \in Payments |-> 0]
    /\ supersededBy = [p \in Payments |-> NoPayment]
    /\ promo = [p \in Payments |-> "none"]
    /\ step = [p \in Payments |-> "idle"]
    /\ todo = [p \in Payments |-> {}]
    /\ probed = [p \in Payments |-> NoForm]
    /\ resubmitted = {}
    /\ events = {}
    /\ reading = [p \in Payments |-> NotReading]
    /\ activated = [f \in Forms |-> 0]
    /\ bank = [f \in Forms |-> "none"]
    /\ payable = {}
    /\ notes = {}

--------------------------------------------------------------------------------
(* The transaction every settlement goes through: handle_webhook, for a    *)
(* report about the form f.                                                *)

PromoAfter(p, new) ==
    CASE promo[p] = "reserved" /\ new = "paid" -> "applied"
      [] promo[p] = "reserved" /\ new # "paid" -> "released"
      [] OTHER                                 -> promo[p]

\* The event was processed before: nothing is read or written.
Duplicate(e) ==
    /\ e \in events
    /\ UNCHANGED <<events, status, pid, promo, activated>>

\* The plan is activated, the promo code is confirmed, and the row takes the
\* PaymentId of the report.
MarkPaid(e, f) ==
    /\ events' = events \cup {e}
    /\ status' = [status EXCEPT ![f[1]] = "paid"]
    /\ pid' = [pid EXCEPT ![f[1]] = f[2]]
    /\ promo' = [promo EXCEPT ![f[1]] = PromoAfter(f[1], "paid")]
    /\ activated' = [activated EXCEPT ![f] = @ + 1]

\* Mutant: the event table is not consulted.
SettlePaidNoEventCheck(e, f) == status[f[1]] # "paid" /\ MarkPaid(e, f)

\* Mutant: a payment that is PAID already is activated again.
SettlePaidNoStatusCheck(e, f) == e \notin events /\ MarkPaid(e, f)

\* Mutant: only a PENDING payment may be settled as paid.
SettlePaidFromPending(e, f) ==
    /\ e \notin events
    /\ status[f[1]] = "pending"
    /\ MarkPaid(e, f)

\* Mutant: the money of a superseded form is refused.
SettlePaidUnlessSuperseded(e, f) ==
    /\ e \notin events
    /\ status[f[1]] # "paid"
    /\ supersededBy[f[1]] = NoPayment
    /\ MarkPaid(e, f)

\* Money has arrived for a payment that is not PAID.
SettlePaid(e, f) ==
    /\ e \notin events
    /\ status[f[1]] # "paid"
    /\ MarkPaid(e, f)

\* A second report of the same money, or the money of a second form of the
\* row: only the card token is stored.
SettlePaidAgain(e, f) ==
    /\ e \notin events
    /\ status[f[1]] = "paid"
    /\ events' = events \cup {e}
    /\ UNCHANGED <<status, pid, promo, activated>>

\* Mutant: the reservation is not released.
SettleUnsuccessfulKeepsPromo(e, f, new) ==
    /\ e \notin events
    /\ events' = events \cup {e}
    /\ status' = [status EXCEPT ![f[1]] = new]
    /\ UNCHANGED <<pid, promo, activated>>

\* A failed, cancelled or refunded report overwrites the status, whatever
\* it was, and releases the reservation.  An empty PaymentId is filled in.
SettleUnsuccessful(e, f, new) ==
    /\ e \notin events
    /\ events' = events \cup {e}
    /\ status' = [status EXCEPT ![f[1]] = new]
    /\ pid' = [pid EXCEPT ![f[1]] = IF @ = 0 THEN f[2] ELSE @]
    /\ promo' = [promo EXCEPT ![f[1]] = PromoAfter(f[1], new)]
    /\ UNCHANGED activated

HandleWebhook(e, f, new) ==
    \/ Duplicate(e)
    \/ new = "paid" /\ (SettlePaid(e, f) \/ SettlePaidAgain(e, f))
    \/ new # "paid" /\ SettleUnsuccessful(e, f, new)

--------------------------------------------------------------------------------
(* create_payment                                                          *)

\* _reusable_pending_checkout hands a live form for the same offer out again,
\* which changes nothing.  There may always be none: forms are superseded, grow
\* too old for it, and a new price asks for a new form.
CheckReuse(p) ==
    /\ step[p] = "idle"
    /\ step' = [step EXCEPT ![p] = "checked"]
    /\ UNCHANGED <<rowVars, todo, probed, resubmitted, events, reading, activated,
                   bankVars>>

CreateRow(p) ==
    /\ step[p] = "checked"
    /\ step' = [step EXCEPT ![p] = "created"]
    /\ status' = [status EXCEPT ![p] = "pending"]
    /\ UNCHANGED <<pid, supersededBy, promo, todo, probed, resubmitted, events,
                   reading, activated, bankVars>>

\* PromoCodeService.apply, for a payment that uses a code.
ReservePromo(p) ==
    /\ step[p] = "created"
    /\ step' = [step EXCEPT ![p] = "reserved"]
    /\ promo' = IF p \in PromoPayments
                THEN [promo EXCEPT ![p] = "reserved"]
                ELSE promo
    /\ UNCHANGED <<status, pid, supersededBy, todo, probed, resubmitted,
                   events, reading, activated, bankVars>>

\* The code was used up meanwhile: the payment fails before it reaches the
\* bank.  FAILED is written without a look at what the status is by now.
ReservePromoFails(p) ==
    /\ step[p] = "created"
    /\ p \in PromoPayments
    /\ step' = [step EXCEPT ![p] = "failed"]
    /\ status' = [status EXCEPT ![p] = "failed"]
    /\ UNCHANGED <<pid, supersededBy, promo, todo, probed, resubmitted,
                   events, reading, activated, bankVars>>

\* The code is reserved, and the promotion has no place left: the payment
\* fails, and the reservation of the code stays behind.
ReservePromotionFails(p) ==
    /\ step[p] = "reserved"
    /\ p \in PromotionPayments
    /\ step' = [step EXCEPT ![p] = "unreleased"]
    /\ status' = [status EXCEPT ![p] = "failed"]
    /\ UNCHANGED <<pid, supersededBy, promo, todo, probed, resubmitted,
                   events, reading, activated, bankVars>>

\* The bank has opened the form f, which nobody may learn of.
Opens(f) == bank' = [bank EXCEPT ![f] = "NEW"]

\* Init answers: the row takes the PaymentId, over the one it had, and the
\* payer is sent to the form.
HandOut(f) ==
    /\ Opens(f)
    /\ pid' = [pid EXCEPT ![f[1]] = f[2]]
    /\ payable' = payable \cup {f}

InitOk(p) ==
    /\ step[p] = "reserved"
    /\ step' = [step EXCEPT ![p] = "inited"]
    /\ HandOut(<<p, 1>>)
    /\ UNCHANGED <<status, supersededBy, promo, todo, probed, resubmitted,
                   events, reading, activated, notes>>

\* Init fails, possibly after the bank has opened the payment.  The status
\* is written without a lock and without a look at what it is by now.
InitFails(p) ==
    /\ step[p] = "reserved"
    /\ step' = [step EXCEPT ![p] = "releasing"]
    /\ status' = [status EXCEPT ![p] = "failed"]
    /\ UNCHANGED bank \/ Opens(<<p, 1>>)
    /\ UNCHANGED <<pid, supersededBy, promo, todo, probed, resubmitted,
                   events, reading, activated, payable, notes>>

\* The reservation is released in a transaction of its own.
ReleaseAfterInitFailure(p) ==
    /\ step[p] = "releasing"
    /\ step' = [step EXCEPT ![p] = "failed"]
    /\ promo' = [promo EXCEPT ![p] = PromoAfter(p, "failed")]
    /\ UNCHANGED <<status, pid, supersededBy, todo, probed, resubmitted,
                   events, reading, activated, bankVars>>

\* Payments for other offers that are still waiting to be paid.
Outdated(p) ==
    { q \in Payments \ {p} :
        /\ status[q] = "pending"
        /\ Offer[q] # Offer[p]
        /\ supersededBy[q] = NoPayment }

\* _supersede_other_pending marks them; their status stays PENDING.
SupersedeOthers(p) ==
    /\ step[p] = "inited"
    /\ supersededBy' = [q \in Payments |->
                          IF q \in Outdated(p) THEN p ELSE supersededBy[q]]
    /\ todo' = [todo EXCEPT ![p] = IF CancelSuperseded
                                   THEN {f \in Forms : f[1] \in Outdated(p) /\ f[2] = pid[f[1]]}
                                   ELSE {}]
    /\ step' = [step EXCEPT ![p] = "cancelling"]
    /\ UNCHANGED <<status, pid, promo, probed, resubmitted, events, reading,
                   activated, bankVars>>

\* GetState before the cancel: only an untouched form goes on to Cancel.
ProbeSuperseded(p, f) ==
    /\ step[p] = "cancelling"
    /\ probed[p] = NoForm
    /\ f \in todo[p]
    /\ todo' = [todo EXCEPT ![p] = @ \ {f}]
    /\ probed' = [probed EXCEPT ![p] = IF bank[f] = "NEW" THEN f ELSE NoForm]
    /\ UNCHANGED <<rowVars, step, resubmitted, events, reading, activated, bankVars>>

\* Cancel at the bank: an unpaid form is closed, a charged payment is paid
\* back, any other is refused.  A successful Cancel is settled at once.
CancelSupersededForm(p, f) ==
    /\ step[p] = "cancelling"
    /\ probed[p] = f
    /\ probed' = [probed EXCEPT ![p] = NoForm]
    /\ \/ \E s \in {<<"NEW", "CANCELED">>, <<"CONFIRMED", "REFUNDED">>} :
             /\ bank[f] = s[1]
             /\ bank' = [bank EXCEPT ![f] = s[2]]
             /\ notes' = notes \cup {<<f, s[2]>>}
             /\ HandleWebhook(Event("reconcile", <<f[1], 0>>, "SUPERSEDED"), f, "cancelled")
       \/ /\ bank[f] \notin {"NEW", "CONFIRMED"}
          /\ UNCHANGED <<bank, notes, events, status, pid, promo, activated>>
    /\ UNCHANGED <<supersededBy, step, todo, resubmitted, reading, payable>>

FinishCheckout(p) ==
    /\ step[p] = "cancelling"
    /\ todo[p] = {}
    /\ probed[p] = NoForm
    /\ step' = [step EXCEPT ![p] = "done"]
    /\ UNCHANGED <<rowVars, todo, probed, resubmitted, events, reading, activated,
                   bankVars>>

\* The worker dies between two transactions of create_payment, or while it
\* waits for Init.
Crash(p) ==
    /\ "crash" \in Faults
    /\ step[p] \in {"created", "reserved", "inited", "cancelling", "releasing"}
    /\ step' = [step EXCEPT ![p] = "dead"]
    /\ todo' = [todo EXCEPT ![p] = {}]
    /\ probed' = [probed EXCEPT ![p] = NoForm]
    /\ UNCHANGED bank \/ (step[p] = "reserved" /\ Opens(<<p, 1>>))
    /\ UNCHANGED <<rowVars, resubmitted, events, reading, activated, payable, notes>>

\* The same idempotency key again, while the first request is still running or
\* after it has died: the row is PENDING and shows no form yet.
Resubmit(f) ==
    /\ f[2] > 1
    /\ status[f[1]] = "pending"
    /\ pid[f[1]] = 0
    /\ bank[f] = "none"
    /\ f \notin resubmitted
    /\ resubmitted' = resubmitted \cup {f}
    /\ UNCHANGED <<rowVars, step, todo, probed, events, reading, activated, bankVars>>

\* It sends an Init of its own, whatever has become of the row by now.
ResubmitInitOk(f) ==
    /\ f \in resubmitted
    /\ resubmitted' = resubmitted \ {f}
    /\ HandOut(f)
    /\ UNCHANGED <<status, supersededBy, promo, step, todo, probed, events,
                   reading, activated, notes>>

\* Its Init fails or its worker dies: the row is left alone.
ResubmitInitFails(f) ==
    /\ f \in resubmitted
    /\ resubmitted' = resubmitted \ {f}
    /\ UNCHANGED bank \/ Opens(f)
    /\ UNCHANGED <<rowVars, step, todo, probed, events, reading, activated, payable,
                   notes>>

--------------------------------------------------------------------------------
(* The bank                                                                *)

BankMoves(f, s) ==
    /\ bank' = [bank EXCEPT ![f] = s]
    /\ notes' = notes \cup {<<f, s>>}
    /\ UNCHANGED <<rowVars, createVars, events, reading, activated, payable>>

\* The payer has the form and pays, at the first attempt or a later one.
PayerConfirms(f) ==
    /\ f \in payable
    /\ \/ bank[f] = "NEW"
       \/ bank[f] = "AUTH_FAIL" /\ "form_retry" \in Faults
    /\ BankMoves(f, "CONFIRMED")

PayerDeclined(f) ==
    /\ f \in payable
    /\ bank[f] = "NEW"
    /\ BankMoves(f, "AUTH_FAIL")

FormExpires(f) ==
    /\ bank[f] = "NEW"
    /\ BankMoves(f, "DEADLINE_EXPIRED")

BankRefunds(f) ==
    /\ "refund" \in Faults
    /\ bank[f] = "CONFIRMED"
    /\ BankMoves(f, "REFUNDED")

--------------------------------------------------------------------------------
(* Settlement                                                              *)

\* PaymentWebhookView: a notification is handled and answered with OK.
Notification(n) ==
    /\ n \in notes
    /\ HandleWebhook(Event("tbank", n[1], n[2]), n[1], LocalOf(n[2]))
    /\ notes' = notes \ {n}
    /\ UNCHANGED <<supersededBy, createVars, reading, bank, payable>>

\* The bank never sees the OK, so it will post the notification again.
NotificationReplyLost(n) ==
    /\ "lost_reply" \in Faults
    /\ n \in notes
    /\ HandleWebhook(Event("tbank", n[1], n[2]), n[1], LocalOf(n[2]))
    /\ UNCHANGED <<supersededBy, createVars, reading, bankVars>>

\* What GetState of the row's form says is worth settling.
SyncWorks(p) ==
    /\ pid[p] # 0
    /\ \/ status[p] # "paid" /\ bank[<<p, pid[p]>>] = "CONFIRMED"
       \/ status[p] = "pending" /\ bank[<<p, pid[p]>>] \in Unsuccessful

\* sync_payment_from_provider, with the payment row locked: GetState now.
SyncNow(p) ==
    LET f == <<p, pid[p]>>
    IN  /\ SyncWorks(p)
        /\ HandleWebhook(Event("sync", f, bank[f]), f, LocalOf(bank[f]))

\* The payer comes back from the form and the page asks for the status.
Sync(p) ==
    /\ SyncNow(p)
    /\ UNCHANGED <<supersededBy, createVars, reading, bankVars>>

\* Mutant: a payment is reconciled however young it is.
ReconcileListYoung(p) ==
    /\ reading[p] = NotReading
    /\ status[p] = "pending"
    /\ reading' = [reading EXCEPT ![p] = <<pid[p], "LISTED">>]
    /\ UNCHANGED <<rowVars, createVars, events, activated, bankVars>>

\* reconcile lists payments pending for half an hour, with no row locked.  By
\* then the request that created the payment works on it no more.
ReconcileList(p) ==
    /\ reading[p] = NotReading
    /\ status[p] = "pending"
    /\ step[p] \in Ended
    /\ reading' = [reading EXCEPT ![p] = <<pid[p], "LISTED">>]
    /\ UNCHANGED <<rowVars, createVars, events, activated, bankVars>>

\* It asks the bank about the form it has listed; one that is still open is
\* left for the next time.
ReconcileAsks(p) ==
    LET f == <<p, reading[p][1]>>
    IN  /\ reading[p][2] = "LISTED"
        /\ f[2] # 0
        /\ reading' = [reading EXCEPT ![p] =
                          IF bank[f] = "NEW" THEN NotReading ELSE <<f[2], bank[f]>>]
        /\ UNCHANGED <<rowVars, createVars, events, activated, bankVars>>

\* reconcile acts on what it read: a payment reported as paid is synced, one
\* listed without a form fails, any other is settled as read.
ReconcileApply(p) ==
    LET f == <<p, reading[p][1]>>
    IN  /\ \/ /\ reading[p][2] = "CONFIRMED"
              /\ SyncNow(p)
           \/ /\ reading[p][2] = "CONFIRMED"
              /\ ~ SyncWorks(p)
              /\ UNCHANGED <<events, status, pid, promo, activated>>
           \/ /\ reading[p] = <<0, "LISTED">>
              /\ HandleWebhook(Event("reconcile", f, "NO_ID"), f, LocalOf("NO_ID"))
           \/ /\ reading[p][2] \in Unsuccessful
              /\ HandleWebhook(Event("sync", f, reading[p][2]), f, LocalOf(reading[p][2]))
        /\ reading' = [reading EXCEPT ![p] = NotReading]
        /\ UNCHANGED <<supersededBy, createVars, bankVars>>

--------------------------------------------------------------------------------

Checkout(p) ==
    \/ CheckReuse(p)
    \/ CreateRow(p)
    \/ ReservePromo(p)
    \/ ReservePromoFails(p)
    \/ ReservePromotionFails(p)
    \/ InitOk(p)
    \/ InitFails(p)
    \/ ReleaseAfterInitFailure(p)
    \/ SupersedeOthers(p)
    \/ \E f \in Forms : ProbeSuperseded(p, f) \/ CancelSupersededForm(p, f)
    \/ FinishCheckout(p)
    \/ Crash(p)

Repeated(f) ==
    \/ Resubmit(f)
    \/ ResubmitInitOk(f)
    \/ ResubmitInitFails(f)

Bank(f) ==
    \/ PayerConfirms(f)
    \/ PayerDeclined(f)
    \/ FormExpires(f)
    \/ BankRefunds(f)

Settle(p) ==
    \/ Sync(p)
    \/ ReconcileList(p)
    \/ ReconcileAsks(p)
    \/ ReconcileApply(p)

Next ==
    \/ \E p \in Payments : Checkout(p) \/ Settle(p)
    \/ \E f \in Forms : Repeated(f) \/ Bank(f)
    \/ \E n \in notes : Notification(n) \/ NotificationReplyLost(n)

Spec == Init /\ [][Next]_vars

\* The bank repeats a notification until it is answered with OK.
BankRepeats ==
    \A n \in Forms \X (Unsuccessful \cup {"CONFIRMED"}) :
        WF_vars(Notification(n))

FairSpec == Spec /\ BankRepeats
--------------------------------------------------------------------------------
(* Properties                                                              *)

\* A payment is PAID, and a form has activated a plan, only if the bank has
\* really taken the money: no notification, GetState answer or stale reconcile
\* reading may be mistaken for a confirmation.
PaidOnlyWhenCharged ==
    /\ \A f \in Forms : activated[f] > 0 => Charged(f)
    /\ \A p \in Payments :
          status[p] = "paid" => \E k \in 1 .. Submits : Charged(<<p, k>>)

\* Redelivered notifications and repeated syncs add nothing: a bank payment has
\* activated the plan no more often than there are distinct reports of its
\* confirmation, one by notification and one by GetState.
OneActivationPerReport ==
    \A f \in Forms :
        activated[f] <=   (IF Event("tbank", f, "CONFIRMED") \in events THEN 1 ELSE 0)
                        + (IF Event("sync", f, "CONFIRMED") \in events THEN 1 ELSE 0)

\* The processed reports that a form of the row was declined, closed or paid
\* back, or that it has none.
RevokingEvents(p) ==
    {e \in events : e[2][1] = p /\ e[3] # "CONFIRMED"}

\* The checkout was posted again while the row showed no form.
Resubmitted(p) ==
    \E k \in 2 .. Submits : <<p, k>> \in resubmitted \/ bank[<<p, k>>] # "none"

\* The request that created the row has written FAILED, over whatever it found.
OwnRequestFailed(p) == step[p] \in {"releasing", "failed", "unreleased", "dead"}

ActivatedTwice(p) ==
    \E k, l \in 1 .. Submits :
        /\ activated[<<p, k>>] > 0
        /\ k = l => activated[<<p, k>>] > 1
        /\ k # l => activated[<<p, l>>] > 0

\* The same payment activates the plan again only after a processed report
\* that it was declined, cancelled or refunded, or, where it was posted again,
\* after its first request has failed and written FAILED over PAID.
RepeatOnlyAfterReversal ==
    \A p \in Payments :
        ActivatedTwice(p) =>
            \/ RevokingEvents(p) # {}
            \/ Resubmitted(p) /\ OwnRequestFailed(p)

\* When the checkout is over, a PAID payment has its promo code counted and an
\* unsuccessful one holds no reservation.  The code leaves this open where the
\* row was posted again (the second form may be settled before the code is
\* reserved); a payment may be PAID without its code when a report of failure,
\* which released the code, came first; and a failed payment keeps the
\* reservation when its request died or could not reserve the promotion.
PromoFollowsPayment ==
    \A p \in PromoPayments :
        step[p] \in Ended /\ ~ Resubmitted(p) =>
            /\ status[p] = "paid" =>
                  promo[p] = "applied" \/ RevokingEvents(p) # {}
            /\ status[p] \in {"failed", "cancelled", "refunded"} =>
                  promo[p] # "reserved" \/ step[p] \in {"dead", "unreleased"}

\* A payment stops being PAID only when the bank has returned money of it, or
\* through a report, processed for the first time, of an attempt on one of its
\* forms that was declined; a row that was posted again also through a report
\* about its other form or the failure of its first request.  No report undoes
\* a payment twice, and no stale reading of reconcile does.
PaidLostOnlyOnRefund ==
    [][\A p \in Payments :
          status[p] = "paid" /\ status'[p] # "paid" =>
              \/ \E k \in 1 .. Submits : bank'[<<p, k>>] = "REFUNDED"
              \/ \E e \in events' \ events : e[2][1] = p /\ e[3] = "AUTH_FAIL"
              \/ /\ Resubmitted(p)
                 /\ \/ events' # events
                    \/ step'[p] # step[p] /\ OwnRequestFailed(p)']_vars

\* The pipeline keeps the promise of PaidAccess: only charges grant access,
\* access once granted is not taken back by the pipeline, and (with a bank that
\* repeats its notifications) every charge is granted, but for a further charge
\* of a payment that has been granted for another form: it is absorbed.
Promise == INSTANCE PaidAccess
           WITH Charges <- Forms,
                PaymentOf <- [f \in Forms |-> f[1]],
                charged <- {f \in Forms : Charged(f)},
                granted <- {f \in Forms : activated[f] > 0},
                absorbed <- {f \in Forms : /\ activated[f] = 0
                                           /\ \E e \in events : e[2] = f /\ e[3] = "CONFIRMED"}

KeepsPromise == Promise!Spec

\* sync_payment_from_provider is documented as idempotent "through the same
\* webhook path" (src/Cabinet/payment_service.py:616): one payment would then
\* activate the plan at most once.
ActivatedAtMostOnce ==
    \A f \in Forms : activated[f] <= 1
================================================================================
