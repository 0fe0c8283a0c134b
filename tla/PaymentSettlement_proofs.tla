------------------------ MODULE PaymentSettlement_proofs ------------------------
(***************************************************************************)
(* PaymentSettlement for any set of payments, any number of submissions,   *)
(* any offers and any faults: type correctness, the safety invariants, the *)
(* action property and the safety half of the promise of PaidAccess.       *)
(***************************************************************************)
EXTENDS PaymentSettlement, TLAPS

(* What handle_webhook does to the variables it may change.                *)

RowForms == Payments \X (0 .. Submits)
settledVars == <<events, status, pid, promo, activated>>

\* Every outcome of handle_webhook keeps the types of what it writes, for a
\* legal event key.
LEMMA WebhookTypes ==
    ASSUME TypeOK, NEW e \in EventKeys, NEW f \in RowForms, NEW new \in LocalStatus,
           HandleWebhook(e, f, new), new = "paid" => f \in Forms
    PROVE  /\ status' \in [Payments -> LocalStatus]
           /\ pid' \in [Payments -> 0 .. Submits]
           /\ promo' \in [Payments -> PromoStatus]
           /\ events' \subseteq EventKeys
           /\ activated' \in [Forms -> Nat]
<1>0. f[1] \in Payments /\ f[2] \in 0 .. Submits
  BY DEF RowForms
<1>1. PromoAfter(f[1], new) \in PromoStatus /\ PromoAfter(f[1], "paid") \in PromoStatus
  BY <1>0 DEF PromoAfter, TypeOK, PromoStatus
<1>2. CASE Duplicate(e)
  BY <1>2 DEF Duplicate, TypeOK
<1>3. CASE new = "paid" /\ SettlePaid(e, f)
  BY <1>0, <1>1, <1>3 DEF SettlePaid, MarkPaid, TypeOK, LocalStatus
<1>4. CASE SettlePaidAgain(e, f)
  BY <1>4 DEF SettlePaidAgain, TypeOK
<1>5. CASE SettleUnsuccessful(e, f, new)
  BY <1>0, <1>1, <1>5 DEF SettleUnsuccessful, TypeOK
<1> QED
  BY <1>2, <1>3, <1>4, <1>5 DEF HandleWebhook

\* A settlement is of its own row and adds at most the key of its report.
LEMMA WebhookLocal ==
    ASSUME TypeOK, NEW e, NEW f \in RowForms, NEW new, HandleWebhook(e, f, new),
           new = "paid" => f \in Forms
    PROVE  /\ events \subseteq events' /\ events' \subseteq events \cup {e}
           /\ \A q \in Payments \ {f[1]} : /\ status'[q] = status[q]
                                          /\ pid'[q] = pid[q]
                                          /\ promo'[q] = promo[q]
           /\ \A g \in Forms \ {f} : activated'[g] = activated[g]
           /\ pid[f[1]] # 0 => pid'[f[1]] # 0
<1>1. CASE Duplicate(e)
  BY <1>1 DEF Duplicate
<1>2. CASE new = "paid" /\ SettlePaid(e, f)
  BY <1>2 DEF SettlePaid, MarkPaid, TypeOK, Forms, RowForms
<1>3. CASE SettlePaidAgain(e, f)
  BY <1>3 DEF SettlePaidAgain
<1>4. CASE SettleUnsuccessful(e, f, new)
  BY <1>4 DEF SettleUnsuccessful, TypeOK, RowForms
<1> QED BY <1>1, <1>2, <1>3, <1>4 DEF HandleWebhook

\* What a settlement does to its row, by outcome.
LEMMA WebhookOutcome ==
    ASSUME TypeOK, NEW e, NEW f \in RowForms, NEW new, HandleWebhook(e, f, new),
           new = "paid" => f \in Forms
    PROVE  \/ UNCHANGED settledVars
           \/ /\ new = "paid" /\ status[f[1]] = "paid"
              /\ e \notin events /\ events' = events \cup {e}
              /\ UNCHANGED <<status, pid, promo, activated>>
           \/ /\ new = "paid" /\ status[f[1]] # "paid" /\ status'[f[1]] = "paid"
              /\ e \notin events /\ events' = events \cup {e}
              /\ activated'[f] = activated[f] + 1
              /\ promo'[f[1]] = IF promo[f[1]] = "reserved" THEN "applied" ELSE promo[f[1]]
           \/ /\ new # "paid" /\ status'[f[1]] = new
              /\ e \notin events /\ events' = events \cup {e}
              /\ UNCHANGED activated
              /\ promo'[f[1]] = IF promo[f[1]] = "reserved" THEN "released" ELSE promo[f[1]]
<1>0. f[1] \in Payments
  BY DEF RowForms
<1>1. CASE Duplicate(e)
  BY <1>1 DEF Duplicate, settledVars
<1>2. CASE new = "paid" /\ SettlePaid(e, f)
  BY <1>0, <1>2 DEF SettlePaid, MarkPaid, TypeOK, PromoAfter
<1>3. CASE new = "paid" /\ SettlePaidAgain(e, f)
  BY <1>3 DEF SettlePaidAgain
<1>4. CASE new # "paid" /\ SettleUnsuccessful(e, f, new)
  BY <1>0, <1>4 DEF SettleUnsuccessful, TypeOK, PromoAfter
<1> QED BY <1>1, <1>2, <1>3, <1>4 DEF HandleWebhook

\* The bank statuses that are reported have a local counterpart, and only
\* CONFIRMED is a payment.
Failed == {"failed", "cancelled", "refunded"}

LEMMA Reported ==
    /\ \A s \in Unsuccessful \cup {"CONFIRMED"} :
          /\ LocalOf(s) \in LocalStatus
          /\ LocalOf(s) = "paid" <=> s = "CONFIRMED"
          /\ s \in Unsuccessful => LocalOf(s) \in Failed
    /\ LocalOf("NO_ID") = "failed"
  BY DEF LocalOf, LocalStatus, Unsuccessful, Failed

LEMMA FormsAreRows == \A f \in Forms : f \in RowForms /\ f[1] \in Payments /\ f[2] \in 1 .. Submits
  BY SettlementAssumption DEF Forms, RowForms

LEMMA KeysOfReports ==
    /\ \A f \in Forms, s \in Unsuccessful \cup {"CONFIRMED"} :
          Event("tbank", f, s) \in EventKeys /\ Event("sync", f, s) \in EventKeys
    /\ \A p \in Payments :
          /\ Event("reconcile", <<p, 0>>, "NO_ID") \in EventKeys
          /\ Event("reconcile", <<p, 0>>, "SUPERSEDED") \in EventKeys
          /\ <<p, 0>> \in RowForms
  BY SettlementAssumption DEF Event, EventKeys, Forms, RowForms

--------------------------------------------------------------------------------
(* Every settlement handles a report about a form, or the finding that a   *)
(* row has none.                                                           *)

\* What is known of a form from a report about it that is under way: it has the
\* bank status s, or had it at an attempt before the one that paid.
Known(f, s) ==
    /\ s = "CONFIRMED" => Charged(f)
    /\ s \in Unsuccessful => bank[f] = s \/ (s = "AUTH_FAIL" /\ Charged(f))

\* A row listed without a form shows none to the payer: its request is over.
ReportInv ==
    /\ \A n \in notes : Known(n[1], n[2])
    /\ \A p \in Payments :
          /\ reading[p][2] \in Unsuccessful => reading[p][1] # 0
          /\ reading[p] # NotReading => step[p] \in Ended
    /\ \A f \in Forms :
          /\ reading[f[1]][1] = f[2] /\ reading[f[1]][2] \in Unsuccessful =>
                Known(f, reading[f[1]][2])
          /\ reading[f[1]] = <<0, "LISTED">> /\ f[2] = 1 => f \notin payable

BeforeInit == {"idle", "checked", "created", "reserved"}

\* The row's own request is the one to open form 1, a repeated request opens the
\* form it stands for, and nothing happens to a row before it exists.
FormOK(f) ==
    /\ f[2] = 1 /\ step[f[1]] \in BeforeInit => bank[f] = "none"
    /\ f[2] = 1 /\ step[f[1]] \in BeforeInit \cup {"releasing", "failed", "unreleased"} =>
          f \notin payable
    /\ step[f[1]] \in {"idle", "checked"} => bank[f] = "none" /\ f \notin resubmitted
    /\ f \in resubmitted => f[2] > 1 /\ bank[f] = "none"
    /\ f \in payable => bank[f] # "none" /\ pid[f[1]] # 0
    /\ Charged(f) => f \in payable

FormInv ==
    /\ \A p \in Payments : step[p] \in {"idle", "checked"} => status[p] = "none"
    /\ \A f \in Forms : FormOK(f)

\* What every settlement knows of the report it handles.
Report(e, f, new) ==
    /\ HandleWebhook(e, f, new)
    /\ e[2][1] = f[1]
    /\ \/ /\ new = "paid" /\ f \in Forms /\ Charged(f) /\ UNCHANGED bank
          /\ e \in {Event("tbank", f, "CONFIRMED"), Event("sync", f, "CONFIRMED")}
       \/ /\ new \in Failed /\ f \in Forms /\ e[3] \in Unsuccessful /\ UNCHANGED bank
          /\ bank[f] = e[3] \/ (e[3] = "AUTH_FAIL" /\ Charged(f))
       \/ /\ new \in Failed /\ f \in Forms /\ e[3] = "SUPERSEDED"
          /\ bank[f] = "NEW" \/ (bank[f] = "CONFIRMED" /\ bank'[f] = "REFUNDED")
       \/ /\ new \in Failed /\ e[3] = "NO_ID" /\ UNCHANGED bank
          /\ reading[f[1]] = <<0, "LISTED">> /\ f = <<f[1], 0>>

ReportStep ==
    \E e \in EventKeys, f \in RowForms, new \in LocalStatus : Report(e, f, new)

Reports == UNCHANGED settledVars \/ ReportStep

LEMMA FailedAreLocal == Failed \subseteq LocalStatus /\ "paid" \in LocalStatus /\ "paid" \notin Failed
  BY DEF Failed, LocalStatus

LEMMA SyncReports ==
    ASSUME TypeOK, NEW p \in Payments, SyncNow(p), UNCHANGED bank
    PROVE  ReportStep
<1> DEFINE f == <<p, pid[p]>>
<1>1. f \in Forms /\ f \in RowForms /\ f[1] = p
  BY SettlementAssumption DEF SyncNow, SyncWorks, TypeOK, Forms, RowForms
<1>2. /\ bank[f] \in Unsuccessful \cup {"CONFIRMED"}
      /\ HandleWebhook(Event("sync", f, bank[f]), f, LocalOf(bank[f]))
  BY DEF SyncNow, SyncWorks
<1>3. /\ Event("sync", f, bank[f]) \in EventKeys
      /\ LocalOf(bank[f]) \in LocalStatus
  BY <1>1, <1>2, KeysOfReports, Reported
<1>4. /\ Event("sync", f, bank[f])[2] = f
      /\ Event("sync", f, bank[f])[3] = bank[f]
  BY DEF Event
<1>5. CASE bank[f] = "CONFIRMED"
  <2>1. LocalOf(bank[f]) = "paid" /\ Charged(f)
    BY <1>5, Reported DEF Charged
  <2> HIDE DEF f
  <2>2. Report(Event("sync", f, bank[f]), f, LocalOf(bank[f]))
    BY <1>1, <1>2, <1>4, <1>5, <2>1 DEF Report
  <2> QED BY <1>1, <1>3, <2>2 DEF ReportStep
<1>6. CASE bank[f] \in Unsuccessful
  <2>1. LocalOf(bank[f]) \in Failed
    BY <1>6, Reported
  <2> HIDE DEF f
  <2>2. Report(Event("sync", f, bank[f]), f, LocalOf(bank[f]))
    BY <1>1, <1>2, <1>4, <1>6, <2>1 DEF Report
  <2> QED BY <1>1, <1>3, <2>2 DEF ReportStep
<1> QED BY <1>2, <1>5, <1>6

\* A report of failure that is handled as such.
LEMMA FailureReports ==
    ASSUME TypeOK, NEW f \in Forms, NEW s \in Unsuccessful, NEW e \in EventKeys,
           e \in {Event("tbank", f, s), Event("sync", f, s)},
           HandleWebhook(e, f, LocalOf(s)), UNCHANGED bank,
           bank[f] = s \/ (s = "AUTH_FAIL" /\ Charged(f))
    PROVE  ReportStep
<1>1. e[2] = f /\ e[3] = s /\ e[2][1] = f[1]
  BY DEF Event
<1>2. LocalOf(s) \in Failed /\ LocalOf(s) \in LocalStatus
  BY Reported
<1>3. Report(e, f, LocalOf(s))
  BY <1>1, <1>2 DEF Report
<1> QED BY <1>2, <1>3, FormsAreRows DEF ReportStep

LEMMA SettleReports ==
    ASSUME TypeOK, ReportInv, NEW p \in Payments, Settle(p)
    PROVE  Reports
<1>1. UNCHANGED bank
  BY DEF Settle, Sync, ReconcileList, ReconcileAsks, ReconcileApply, bankVars
<1>2. CASE SyncNow(p)
  BY <1>1, <1>2, SyncReports DEF Reports
<1>3. CASE UNCHANGED settledVars
  BY <1>3 DEF Reports
<1> DEFINE f == <<p, reading[p][1]>>
<1>4. CASE /\ reading[p] = <<0, "LISTED">>
           /\ HandleWebhook(Event("reconcile", f, "NO_ID"), f, LocalOf("NO_ID"))
  <2>1. f = <<p, 0>>
    BY <1>4
  <2>2. /\ Event("reconcile", f, "NO_ID") \in EventKeys /\ f \in RowForms
        /\ LocalOf("NO_ID") \in Failed /\ LocalOf("NO_ID") \in LocalStatus
    BY <2>1, KeysOfReports, Reported, FailedAreLocal DEF Failed
  <2>3. /\ Event("reconcile", f, "NO_ID")[2] = f
        /\ Event("reconcile", f, "NO_ID")[3] = "NO_ID"
        /\ f[1] = p /\ reading[f[1]] = <<0, "LISTED">> /\ f = <<f[1], 0>>
    BY <1>4, <2>1 DEF Event
  <2>4. HandleWebhook(Event("reconcile", f, "NO_ID"), f, LocalOf("NO_ID"))
    BY <1>4
  <2> HIDE DEF f
  <2>5. Report(Event("reconcile", f, "NO_ID"), f, LocalOf("NO_ID"))
    BY <1>1, <2>2, <2>3, <2>4 DEF Report
  <2> QED BY <2>2, <2>5 DEF Reports, ReportStep
<1>5. CASE /\ reading[p][2] \in Unsuccessful
           /\ HandleWebhook(Event("sync", f, reading[p][2]), f, LocalOf(reading[p][2]))
  <2>0. reading[p] \in Readings /\ reading[p][1] # 0
    BY <1>5 DEF ReportInv, TypeOK
  <2>1. f \in Forms
    BY <2>0, SettlementAssumption DEF Readings, Forms
  <2>2. bank[f] = reading[p][2] \/ (reading[p][2] = "AUTH_FAIL" /\ Charged(f))
    <3>1. f[1] = p /\ f[2] = reading[p][1]
      OBVIOUS
    <3> HIDE DEF f
    <3> QED BY <1>5, <2>1, <3>1 DEF ReportInv, Known
  <2>3. Event("sync", f, reading[p][2]) \in EventKeys
    BY <1>5, <2>1, KeysOfReports
  <2>4. HandleWebhook(Event("sync", f, reading[p][2]), f, LocalOf(reading[p][2]))
    BY <1>5
  <2> HIDE DEF f
  <2> QED BY <1>1, <1>5, <2>1, <2>2, <2>3, <2>4, FailureReports DEF Reports
<1> QED
  BY <1>2, <1>3, <1>4, <1>5
  DEF Settle, Sync, ReconcileList, ReconcileAsks, ReconcileApply, rowVars, settledVars

LEMMA NotificationReports ==
    ASSUME TypeOK, ReportInv, NEW n \in notes, Notification(n) \/ NotificationReplyLost(n)
    PROVE  ReportStep
<1>1. n[1] \in Forms /\ n[2] \in Unsuccessful \cup {"CONFIRMED"}
  BY DEF TypeOK
<1>2. /\ HandleWebhook(Event("tbank", n[1], n[2]), n[1], LocalOf(n[2]))
      /\ UNCHANGED bank
  BY DEF Notification, NotificationReplyLost, bankVars
<1>3. Event("tbank", n[1], n[2]) \in EventKeys
  BY <1>1, KeysOfReports
<1>4. CASE n[2] = "CONFIRMED"
  <2>1. LocalOf(n[2]) = "paid" /\ LocalOf(n[2]) \in LocalStatus /\ Charged(n[1])
    BY <1>1, <1>4, Reported DEF ReportInv, Known
  <2>2. Event("tbank", n[1], n[2])[2] = n[1]
    BY DEF Event
  <2>3. Report(Event("tbank", n[1], n[2]), n[1], LocalOf(n[2]))
    BY <1>1, <1>2, <1>4, <2>1, <2>2 DEF Report
  <2> QED BY <1>1, <1>3, <2>1, <2>3, FormsAreRows DEF ReportStep
<1>5. CASE n[2] \in Unsuccessful
  <2>1. bank[n[1]] = n[2] \/ (n[2] = "AUTH_FAIL" /\ Charged(n[1]))
    BY <1>5 DEF ReportInv, Known
  <2> QED BY <1>1, <1>2, <1>3, <1>5, <2>1, FailureReports
<1> QED BY <1>1, <1>4, <1>5

LEMMA CancelReports ==
    ASSUME TypeOK, NEW p \in Payments, NEW f \in Forms, CancelSupersededForm(p, f)
    PROVE  Reports
<1>1. CASE UNCHANGED <<bank, notes, events, status, pid, promo, activated>>
  BY <1>1 DEF Reports, settledVars
<1>2. CASE \E s \in {<<"NEW", "CANCELED">>, <<"CONFIRMED", "REFUNDED">>} :
             /\ bank[f] = s[1]
             /\ bank' = [bank EXCEPT ![f] = s[2]]
             /\ HandleWebhook(Event("reconcile", <<f[1], 0>>, "SUPERSEDED"), f, "cancelled")
  <2>1. bank[f] = "NEW" \/ (bank[f] = "CONFIRMED" /\ bank'[f] = "REFUNDED")
    BY <1>2 DEF TypeOK
  <2>2. /\ Event("reconcile", <<f[1], 0>>, "SUPERSEDED")[2][1] = f[1]
        /\ Event("reconcile", <<f[1], 0>>, "SUPERSEDED")[3] = "SUPERSEDED"
    BY DEF Event
  <2>3. /\ Event("reconcile", <<f[1], 0>>, "SUPERSEDED") \in EventKeys
        /\ "cancelled" \in LocalStatus /\ "cancelled" \in Failed
    BY FormsAreRows, KeysOfReports DEF LocalStatus, Failed
  <2>4. Report(Event("reconcile", <<f[1], 0>>, "SUPERSEDED"), f, "cancelled")
    BY <1>2, <2>1, <2>2, <2>3 DEF Report
  <2> QED BY <2>3, <2>4, FormsAreRows DEF Reports, ReportStep
<1> QED BY <1>1, <1>2 DEF CancelSupersededForm

--------------------------------------------------------------------------------
(* Type correctness.                                                       *)

LEMMA InitTypes == Init => TypeOK
<1> SUFFICES ASSUME Init PROVE TypeOK
  OBVIOUS
<1>1. NotReading \in Readings
  BY SettlementAssumption DEF NotReading, Readings
<1> QED
  BY <1>1, SettlementAssumption
  DEF Init, TypeOK, LocalStatus, PromoStatus, Steps, BankStatus

SettledTypes ==
    /\ status' \in [Payments -> LocalStatus]
    /\ pid' \in [Payments -> 0 .. Submits]
    /\ promo' \in [Payments -> PromoStatus]
    /\ events' \subseteq EventKeys
    /\ activated' \in [Forms -> Nat]

LEMMA NotificationTypes ==
    ASSUME TypeOK, NEW n \in notes, Notification(n) \/ NotificationReplyLost(n)
    PROVE  TypeOK'
<1>1. n[1] \in Forms /\ n[2] \in Unsuccessful \cup {"CONFIRMED"}
  BY DEF TypeOK
<1>2. HandleWebhook(Event("tbank", n[1], n[2]), n[1], LocalOf(n[2]))
  BY DEF Notification, NotificationReplyLost
<1>3. /\ Event("tbank", n[1], n[2]) \in EventKeys
      /\ n[1] \in RowForms
      /\ LocalOf(n[2]) \in LocalStatus
  BY <1>1, KeysOfReports, FormsAreRows, Reported
<1>4. SettledTypes
  BY <1>1, <1>2, <1>3, WebhookTypes DEF SettledTypes
<1>5. UNCHANGED <<supersededBy, createVars, reading, bank, payable>> /\ notes' \subseteq notes
  BY DEF Notification, NotificationReplyLost, bankVars
<1> QED BY <1>4, <1>5 DEF SettledTypes, TypeOK, createVars

LEMMA SyncTypes ==
    ASSUME TypeOK, NEW p \in Payments, SyncNow(p)
    PROVE  SettledTypes
<1> DEFINE f == <<p, pid[p]>>
<1>1. f \in Forms
  BY SettlementAssumption DEF SyncNow, SyncWorks, TypeOK, Forms
<1>2. /\ bank[f] \in Unsuccessful \cup {"CONFIRMED"}
      /\ HandleWebhook(Event("sync", f, bank[f]), f, LocalOf(bank[f]))
  BY DEF SyncNow, SyncWorks
<1>3. /\ Event("sync", f, bank[f]) \in EventKeys
      /\ LocalOf(bank[f]) \in LocalStatus
      /\ f \in RowForms
  BY <1>1, <1>2, KeysOfReports, Reported, FormsAreRows
<1> HIDE DEF f
<1> QED BY <1>1, <1>2, <1>3, WebhookTypes DEF SettledTypes

LEMMA ReconcileTypes ==
    ASSUME TypeOK, NEW p \in Payments, ReconcileApply(p)
    PROVE  SettledTypes
<1> DEFINE f == <<p, reading[p][1]>>
<1>0. reading[p] \in Readings /\ f \in RowForms
  BY SettlementAssumption DEF TypeOK, Readings, RowForms
<1>1. CASE SyncNow(p)
  BY <1>1, SyncTypes
<1>2. CASE UNCHANGED <<events, status, pid, promo, activated>>
  BY <1>2 DEF SettledTypes, TypeOK
<1>3. CASE /\ reading[p] = <<0, "LISTED">>
           /\ HandleWebhook(Event("reconcile", f, "NO_ID"), f, LocalOf("NO_ID"))
  <2>1. /\ Event("reconcile", f, "NO_ID") \in EventKeys
        /\ LocalOf("NO_ID") = "failed" /\ LocalOf("NO_ID") \in LocalStatus
    BY <1>3, KeysOfReports, Reported DEF LocalStatus
  <2>2. HandleWebhook(Event("reconcile", f, "NO_ID"), f, LocalOf("NO_ID"))
    BY <1>3
  <2> HIDE DEF f
  <2> QED BY <1>0, <2>1, <2>2, WebhookTypes DEF SettledTypes
<1>4. CASE /\ reading[p][2] \in Unsuccessful
           /\ HandleWebhook(Event("sync", f, reading[p][2]), f, LocalOf(reading[p][2]))
  <2>1. Event("sync", f, reading[p][2]) \in EventKeys
    BY <1>0, <1>4 DEF Event, EventKeys, RowForms
  <2>2. LocalOf(reading[p][2]) \in LocalStatus /\ LocalOf(reading[p][2]) # "paid"
    BY <1>4, Reported, FailedAreLocal
  <2>3. HandleWebhook(Event("sync", f, reading[p][2]), f, LocalOf(reading[p][2]))
    BY <1>4
  <2> HIDE DEF f
  <2> QED BY <1>0, <2>1, <2>2, <2>3, WebhookTypes DEF SettledTypes
<1> QED BY <1>1, <1>2, <1>3, <1>4 DEF ReconcileApply

LEMMA SettleTypes ==
    ASSUME TypeOK, NEW p \in Payments, Settle(p)
    PROVE  TypeOK'
<1>1. reading[p] \in Readings /\ NotReading \in Readings
  BY SettlementAssumption DEF TypeOK, Readings, NotReading
<1>2. CASE Sync(p)
  BY <1>2, SyncTypes DEF Sync, SettledTypes, TypeOK, createVars, bankVars
<1>3. CASE ReconcileList(p)
  <2>1. <<pid[p], "LISTED">> \in Readings
    BY DEF TypeOK, Readings
  <2> QED BY <1>3, <2>1 DEF ReconcileList, TypeOK, rowVars, createVars, bankVars
<1>4. CASE ReconcileAsks(p)
  <2> DEFINE f == <<p, reading[p][1]>>
  <2>1. f \in Forms
    BY <1>1, <1>4, SettlementAssumption DEF ReconcileAsks, Readings, Forms
  <2>2. bank[f] # "NEW" => <<f[2], bank[f]>> \in Readings
    BY <1>1, <2>1 DEF TypeOK, BankStatus, Readings, Unsuccessful
  <2>3. reading' = [reading EXCEPT ![p] =
                       IF bank[f] = "NEW" THEN NotReading ELSE <<f[2], bank[f]>>]
    BY <1>4 DEF ReconcileAsks
  <2> HIDE DEF f
  <2>4. reading' \in [Payments -> Readings]
    BY <1>1, <2>2, <2>3 DEF TypeOK
  <2> QED BY <1>4, <2>4 DEF ReconcileAsks, TypeOK, rowVars, createVars, bankVars
<1>5. CASE ReconcileApply(p)
  <2>1. reading' = [reading EXCEPT ![p] = NotReading]
        /\ UNCHANGED <<supersededBy, createVars, bankVars>>
    BY <1>5 DEF ReconcileApply
  <2>2. reading' \in [Payments -> Readings]
    BY <1>1, <2>1 DEF TypeOK
  <2> QED BY <1>5, <2>1, <2>2, ReconcileTypes DEF SettledTypes, TypeOK, createVars, bankVars
<1> QED BY <1>2, <1>3, <1>4, <1>5 DEF Settle

LEMMA CancelTypes ==
    ASSUME TypeOK, NEW p \in Payments, NEW f \in Forms, CancelSupersededForm(p, f)
    PROVE  TypeOK'
<1>1. /\ probed' = [probed EXCEPT ![p] = NoForm]
      /\ UNCHANGED <<supersededBy, step, todo, resubmitted, reading, payable>>
  BY DEF CancelSupersededForm
<1>2. probed' \in [Payments -> Forms \cup {NoForm}]
  BY <1>1 DEF TypeOK
<1>3. CASE UNCHANGED <<bank, notes, events, status, pid, promo, activated>>
  BY <1>1, <1>2, <1>3 DEF TypeOK
<1>4. CASE \E s \in {<<"NEW", "CANCELED">>, <<"CONFIRMED", "REFUNDED">>} :
             /\ bank[f] = s[1]
             /\ bank' = [bank EXCEPT ![f] = s[2]]
             /\ notes' = notes \cup {<<f, s[2]>>}
             /\ HandleWebhook(Event("reconcile", <<f[1], 0>>, "SUPERSEDED"), f, "cancelled")
  <2>1. bank' \in [Forms -> BankStatus]
    BY <1>4 DEF TypeOK, BankStatus
  <2>2. notes' \subseteq Forms \X (Unsuccessful \cup {"CONFIRMED"})
    BY <1>4 DEF TypeOK, Unsuccessful
  <2>3. SettledTypes
    BY <1>4, FormsAreRows, KeysOfReports, WebhookTypes DEF SettledTypes, LocalStatus
  <2> QED BY <1>1, <1>2, <2>1, <2>2, <2>3 DEF SettledTypes, TypeOK
<1> QED BY <1>3, <1>4 DEF CancelSupersededForm

LEMMA OpensTypes ==
    ASSUME TypeOK, NEW f \in Forms, Opens(f) \/ UNCHANGED bank
    PROVE  bank' \in [Forms -> BankStatus]
  BY DEF TypeOK, Opens, BankStatus

LEMMA FirstForms == \A p \in Payments : <<p, 1>> \in Forms
  BY SettlementAssumption DEF Forms

\* Every step of create_payment keeps the types.
LEMMA CheckoutTypes ==
    ASSUME TypeOK, NEW p \in Payments, Checkout(p)
    PROVE  TypeOK'
<1> USE DEF TypeOK, rowVars, bankVars, Steps, Ended
<1>1. CASE CheckReuse(p)
  BY <1>1 DEF CheckReuse
<1>2. CASE CreateRow(p)
  BY <1>2 DEF CreateRow, LocalStatus
<1>3. CASE ReservePromo(p)
  BY <1>3 DEF ReservePromo, PromoStatus
<1>4. CASE ReservePromoFails(p)
  BY <1>4 DEF ReservePromoFails, LocalStatus
<1>5. CASE ReservePromotionFails(p)
  BY <1>5 DEF ReservePromotionFails, LocalStatus
<1>6. CASE InitOk(p)
  <2>1. bank' \in [Forms -> BankStatus]
    BY <1>6, FirstForms, OpensTypes DEF InitOk, HandOut
  <2> QED BY <1>6, <2>1, FirstForms, SettlementAssumption DEF InitOk, HandOut
<1>7. CASE InitFails(p)
  <2>1. bank' \in [Forms -> BankStatus]
    BY <1>7, FirstForms, OpensTypes DEF InitFails
  <2> QED BY <1>7, <2>1 DEF InitFails, LocalStatus
<1>8. CASE ReleaseAfterInitFailure(p)
  BY <1>8 DEF ReleaseAfterInitFailure, PromoAfter, PromoStatus
<1>9. CASE SupersedeOthers(p)
  BY <1>9 DEF SupersedeOthers
<1>10. ASSUME NEW f \in Forms, ProbeSuperseded(p, f) PROVE TypeOK'
  BY <1>10 DEF ProbeSuperseded
<1>11. ASSUME NEW f \in Forms, CancelSupersededForm(p, f) PROVE TypeOK'
  BY <1>11, CancelTypes
<1>12. CASE FinishCheckout(p)
  BY <1>12 DEF FinishCheckout
<1>13. CASE Crash(p)
  <2>1. bank' \in [Forms -> BankStatus]
    BY <1>13, FirstForms, OpensTypes DEF Crash
  <2> QED BY <1>13, <2>1 DEF Crash
<1> HIDE DEF TypeOK
<1> QED
  BY <1>1, <1>2, <1>3, <1>4, <1>5, <1>6, <1>7, <1>8, <1>9, <1>10, <1>11, <1>12, <1>13
  DEF Checkout

LEMMA RepeatedTypes ==
    ASSUME TypeOK, NEW f \in Forms, Repeated(f)
    PROVE  TypeOK'
<1>0. f[1] \in Payments /\ f[2] \in 0 .. Submits
  BY FormsAreRows
<1>1. CASE Resubmit(f)
  BY <1>1 DEF Resubmit, TypeOK, rowVars, bankVars
<1>2. CASE ResubmitInitOk(f)
  <2>1. bank' \in [Forms -> BankStatus]
    BY <1>2, OpensTypes DEF ResubmitInitOk, HandOut
  <2> QED BY <1>0, <1>2, <2>1 DEF ResubmitInitOk, HandOut, TypeOK
<1>3. CASE ResubmitInitFails(f)
  <2>1. bank' \in [Forms -> BankStatus]
    BY <1>3, OpensTypes DEF ResubmitInitFails
  <2> QED BY <1>3, <2>1 DEF ResubmitInitFails, TypeOK, rowVars
<1> QED BY <1>1, <1>2, <1>3 DEF Repeated

LEMMA BankMoveTypes ==
    ASSUME TypeOK, NEW f \in Forms, NEW s \in Unsuccessful \cup {"CONFIRMED"}, BankMoves(f, s)
    PROVE  TypeOK'
  BY DEF BankMoves, TypeOK, BankStatus, Unsuccessful, rowVars, createVars

LEMMA BankTypes ==
    ASSUME TypeOK, NEW f \in Forms, Bank(f)
    PROVE  TypeOK'
<1>1. \E s \in Unsuccessful \cup {"CONFIRMED"} : BankMoves(f, s)
  BY DEF Bank, PayerConfirms, PayerDeclined, FormExpires, BankRefunds, Unsuccessful
<1> QED BY <1>1, BankMoveTypes

LEMMA StepTypes == TypeOK /\ [Next]_vars => TypeOK'
<1> SUFFICES ASSUME TypeOK, [Next]_vars PROVE TypeOK'
  OBVIOUS
<1>1. ASSUME NEW p \in Payments, Checkout(p) \/ Settle(p) PROVE TypeOK'
  BY <1>1, CheckoutTypes, SettleTypes
<1>2. ASSUME NEW f \in Forms, Repeated(f) \/ Bank(f) PROVE TypeOK'
  BY <1>2, RepeatedTypes, BankTypes
<1>3. ASSUME NEW n \in notes, Notification(n) \/ NotificationReplyLost(n) PROVE TypeOK'
  BY <1>3, NotificationTypes
<1>4. CASE UNCHANGED vars
  BY <1>4 DEF vars, TypeOK
<1> QED BY <1>1, <1>2, <1>3, <1>4 DEF Next

\* Every reachable state is well typed.
THEOREM TypeCorrect == Spec => []TypeOK
  BY InitTypes, StepTypes, PTL DEF Spec

--------------------------------------------------------------------------------
(* The invariants about forms and reports under way.                       *)

IInv == TypeOK /\ FormInv /\ ReportInv

LEMMA SameForm == \A f, g \in Forms : f[1] = g[1] /\ f[2] = g[2] => f = g
  BY DEF Forms

LEMMA NotListed ==
    /\ \A k : <<k, "LISTED">> # NotReading
    /\ NotReading[2] = "none"
    /\ {"LISTED", "none", "NEW"} \cap Unsuccessful = {}
  BY DEF NotReading, Unsuccessful

LEMMA InitForms == Init => IInv
<1> SUFFICES ASSUME Init PROVE IInv
  OBVIOUS
<1>1. TypeOK
  BY InitTypes
<1>2. /\ \A f \in Forms : bank[f] = "none" /\ ~ Charged(f)
      /\ payable = {} /\ resubmitted = {} /\ notes = {}
      /\ \A p \in Payments : reading[p] = NotReading /\ status[p] = "none"
  BY DEF Init, Charged
<1>3. FormInv
  BY <1>2 DEF FormInv, FormOK
<1>4. ReportInv
  BY <1>2, FormsAreRows, NotListed DEF ReportInv, NotReading
<1> QED BY <1>1, <1>3, <1>4 DEF IInv

\* A report settles a row that has been created.
LEMMA ReportRow ==
    ASSUME IInv, NEW e \in EventKeys, NEW f \in RowForms, NEW new \in LocalStatus,
           Report(e, f, new)
    PROVE  /\ f[1] \in Payments
           /\ step[f[1]] \notin {"idle", "checked"}
           /\ \A q \in Payments : q # f[1] => status'[q] = status[q]
           /\ \A q \in Payments : pid[q] # 0 => pid'[q] # 0
<1>0. f[1] \in Payments
  BY DEF RowForms
<1>1. HandleWebhook(e, f, new) /\ (new = "paid" => f \in Forms) /\ TypeOK
  BY FailedAreLocal DEF Report, IInv
<1>2. /\ \A q \in Payments \ {f[1]} : status'[q] = status[q] /\ pid'[q] = pid[q]
      /\ pid[f[1]] # 0 => pid'[f[1]] # 0
  BY <1>1, WebhookLocal
<1>3. f \in Forms /\ bank[f] # "none" => step[f[1]] \notin {"idle", "checked"}
  BY DEF IInv, FormInv, FormOK
<1>4. reading[f[1]] = <<0, "LISTED">> => step[f[1]] \in Ended
  BY <1>0, NotListed DEF IInv, ReportInv
<1>5. step[f[1]] \notin {"idle", "checked"}
  BY <1>3, <1>4 DEF Report, Charged, Unsuccessful, Ended
<1> QED BY <1>0, <1>2, <1>5

\* A step that only settles a report, and leaves the forms as they are.
LEMMA SettledForms ==
    ASSUME IInv, Reports, UNCHANGED <<step, resubmitted, payable>>,
           \A g \in Forms : /\ Charged(g)' <=> Charged(g)
                            /\ bank'[g] = "none" <=> bank[g] = "none"
    PROVE  FormInv'
<1>1. CASE UNCHANGED settledVars
  <2>1. UNCHANGED <<status, pid>>
    BY <1>1 DEF settledVars
  <2> QED BY <2>1 DEF IInv, FormInv, FormOK
<1>2. ASSUME NEW e \in EventKeys, NEW f \in RowForms, NEW new \in LocalStatus,
             Report(e, f, new)
      PROVE  FormInv'
  <2>1. /\ step[f[1]] \notin {"idle", "checked"}
        /\ \A q \in Payments : q # f[1] => status'[q] = status[q]
        /\ \A q \in Payments : pid[q] # 0 => pid'[q] # 0
    BY <1>2, ReportRow
  <2> QED BY <2>1, FormsAreRows DEF IInv, FormInv, FormOK
<1> QED BY <1>1, <1>2 DEF Reports, ReportStep

\* A step that moves no form but to a status that what is known of it allows.
LEMMA KnownReports ==
    ASSUME IInv, UNCHANGED payable,
           \A q \in Payments : step[q] \in Ended => step'[q] \in Ended,
           \A n \in notes' : n \in notes \/ (n[1] \in Forms /\ Known(n[1], n[2])'),
           \A q \in Payments : reading'[q] \in {reading[q], NotReading},
           \A g \in Forms, t \in Unsuccessful \cup {"CONFIRMED"} : Known(g, t) => Known(g, t)'
    PROVE  ReportInv'
<1>1. \A n \in notes' : Known(n[1], n[2])'
  BY DEF IInv, TypeOK, ReportInv
<1>2. \A q \in Payments : /\ reading'[q][2] \in Unsuccessful => reading'[q][1] # 0
                          /\ reading'[q] # NotReading => step'[q] \in Ended
  BY NotListed DEF IInv, ReportInv, NotReading
<1>3. \A f \in Forms : reading'[f[1]][1] = f[2] /\ reading'[f[1]][2] \in Unsuccessful =>
                          Known(f, reading[f[1]][2])'
  BY FormsAreRows, NotListed DEF IInv, ReportInv, NotReading
<1>4. \A f \in Forms : reading'[f[1]] = <<0, "LISTED">> /\ f[2] = 1 => f \notin payable'
  BY FormsAreRows, NotListed DEF IInv, ReportInv
<1> QED BY <1>1, <1>2, <1>3, <1>4 DEF ReportInv

LEMMA NotificationForms ==
    ASSUME IInv, NEW n \in notes, Notification(n) \/ NotificationReplyLost(n)
    PROVE  FormInv' /\ ReportInv'
<1>1. Reports
  BY NotificationReports DEF IInv, Reports
<1>2. /\ UNCHANGED <<step, resubmitted, bank, payable, reading>>
      /\ notes' \subseteq notes
  BY DEF Notification, NotificationReplyLost, createVars, bankVars
<1>3. ReportInv'
  BY <1>2, KnownReports DEF Known, Charged
<1>4. FormInv'
  BY <1>1, <1>2, SettledForms DEF Charged
<1> QED BY <1>3, <1>4

LEMMA SettleForms ==
    ASSUME IInv, NEW p \in Payments, Settle(p)
    PROVE  FormInv' /\ ReportInv'
<1>1. Reports
  BY SettleReports DEF IInv
<1>2. UNCHANGED <<step, resubmitted, bank, payable, notes>>
  BY DEF Settle, Sync, ReconcileList, ReconcileAsks, ReconcileApply, createVars, bankVars
<1>3. FormInv'
  BY <1>1, <1>2, SettledForms DEF Charged
<1>4. CASE UNCHANGED reading \/ reading' = [reading EXCEPT ![p] = NotReading]
  <2>1. \A q \in Payments : reading'[q] \in {reading[q], NotReading}
    BY <1>4 DEF IInv, TypeOK
  <2> QED BY <1>2, <1>3, <2>1, KnownReports DEF Known, Charged
<1>5. ASSUME NEW r \in Readings, reading' = [reading EXCEPT ![p] = r],
             r[2] \in Unsuccessful => r[1] # 0,
             step[p] \in Ended,
             r = <<0, "LISTED">> => pid[p] = 0,
             \A f \in Forms : f[1] = p /\ f[2] = r[1] => Known(f, r[2])
      PROVE  ReportInv'
  <2>1. /\ \A q \in Payments : q # p => reading'[q] = reading[q]
        /\ reading'[p] = r
    BY <1>5 DEF IInv, TypeOK
  <2>2. \A n \in notes : Known(n[1], n[2])'
    BY <1>2 DEF IInv, ReportInv, Known, Charged
  <2>3. \A f \in Forms : reading'[f[1]][1] = f[2] /\ reading'[f[1]][2] \in Unsuccessful =>
                            Known(f, reading[f[1]][2])'
    BY <1>2, <1>5, <2>1, FormsAreRows DEF IInv, ReportInv, Known, Charged
  <2>4. \A f \in Forms : reading'[f[1]] = <<0, "LISTED">> /\ f[2] = 1 => f \notin payable'
    BY <1>2, <1>5, <2>1, FormsAreRows DEF IInv, ReportInv, FormInv, FormOK
  <2> QED BY <1>2, <1>5, <2>1, <2>2, <2>3, <2>4 DEF IInv, ReportInv
<1>6. CASE ReconcileList(p)
  <2> DEFINE r == <<pid[p], "LISTED">>
  <2>1. /\ reading' = [reading EXCEPT ![p] = r]
        /\ step[p] \in Ended
    BY <1>6 DEF ReconcileList
  <2>2. r \in Readings /\ r[2] = "LISTED" /\ (r = <<0, "LISTED">> => pid[p] = 0)
    BY DEF IInv, TypeOK, Readings
  <2>3. \A f \in Forms : Known(f, "LISTED")
    BY NotListed DEF Known
  <2> HIDE DEF r
  <2> QED BY <1>3, <1>5, <2>1, <2>2, <2>3, NotListed
<1>7. CASE ReconcileAsks(p)
  <2> DEFINE f == <<p, reading[p][1]>>
  <2>1. /\ reading[p][2] = "LISTED" /\ reading[p][1] # 0
        /\ reading' = [reading EXCEPT ![p] =
                          IF bank[f] = "NEW" THEN NotReading ELSE <<f[2], bank[f]>>]
    BY <1>7 DEF ReconcileAsks
  <2>2. step[p] \in Ended
    BY <2>1, NotListed DEF IInv, ReportInv, NotReading
  <2>3. reading[p] \in Readings
    BY DEF IInv, TypeOK
  <2>4. f \in Forms /\ f[1] = p /\ f[2] = reading[p][1]
    BY <2>1, <2>3, SettlementAssumption DEF Readings, Forms
  <2> HIDE DEF f
  <2>5. CASE bank[f] = "NEW"
    BY <1>3, <1>4, <2>1, <2>5
  <2>6. CASE bank[f] # "NEW"
    <3> DEFINE r == <<f[2], bank[f]>>
    <3>1. bank[f] \in BankStatus \ {"NEW"}
      BY <2>4, <2>6 DEF IInv, TypeOK
    <3>2. r \in Readings /\ r[2] = bank[f] /\ r[1] = f[2] /\ r[2] # "LISTED"
      BY <2>1, <2>3, <2>4, <3>1 DEF Readings, BankStatus, Unsuccessful
    <3>3. \A g \in Forms : g[1] = p /\ g[2] = r[1] => Known(g, r[2])
      BY <2>4, <3>2, SameForm DEF Known, Charged
    <3>4. reading' = [reading EXCEPT ![p] = r]
      BY <2>1, <2>6
    <3>5. r # <<0, "LISTED">>
      BY <3>2
    <3> HIDE DEF r
    <3> QED BY <1>3, <1>5, <2>1, <2>2, <2>4, <3>2, <3>3, <3>4, <3>5
  <2> QED BY <2>5, <2>6
<1> QED BY <1>3, <1>4, <1>6, <1>7 DEF Settle, Sync, ReconcileApply

LEMMA CancelForms ==
    ASSUME IInv, NEW p \in Payments, NEW f \in Forms, CancelSupersededForm(p, f)
    PROVE  FormInv' /\ ReportInv'
<1>1. UNCHANGED <<step, resubmitted, reading, payable>> /\ Reports
  BY CancelReports DEF CancelSupersededForm, IInv
<1>2. CASE UNCHANGED <<bank, notes>>
  <2>1. FormInv'
    BY <1>1, <1>2, SettledForms DEF Charged
  <2>2. ReportInv'
    BY <1>1, <1>2, KnownReports DEF Known, Charged
  <2> QED BY <2>1, <2>2
<1>3. ASSUME NEW s \in {<<"NEW", "CANCELED">>, <<"CONFIRMED", "REFUNDED">>},
             bank[f] = s[1], bank' = [bank EXCEPT ![f] = s[2]],
             notes' = notes \cup {<<f, s[2]>>}
      PROVE  FormInv' /\ ReportInv'
  <2>1. bank'[f] = s[2] /\ \A g \in Forms \ {f} : bank'[g] = bank[g]
    BY <1>3 DEF IInv, TypeOK
  <2>2. \A g \in Forms : /\ Charged(g)' <=> Charged(g)
                         /\ bank'[g] = "none" <=> bank[g] = "none"
    BY <1>3, <2>1 DEF Charged
  <2>3. FormInv'
    BY <1>1, <2>2, SettledForms
  <2>4. \A g \in Forms, t \in Unsuccessful \cup {"CONFIRMED"} : Known(g, t) => Known(g, t)'
    BY <1>3, <2>1 DEF Known, Charged, Unsuccessful
  <2>5. Known(f, s[2])'
    BY <1>3, <2>1 DEF Known, Charged
  <2>6. \A n \in notes' : n \in notes \/ (n[1] \in Forms /\ Known(n[1], n[2])')
    BY <1>3, <2>5
  <2>7. ReportInv'
    BY <1>1, <2>4, <2>6, KnownReports
  <2> QED BY <2>3, <2>7
<1> QED BY <1>2, <1>3 DEF CancelSupersededForm

\* A step that opens a form nothing was known of, or none at all.
LEMMA OpenedForm ==
    ASSUME IInv, NEW g \in Forms, bank[g] = "none", Opens(g) \/ UNCHANGED bank
    PROVE  /\ \A h \in Forms : h # g => bank'[h] = bank[h]
           /\ bank'[g] \in {"none", "NEW"}
           /\ Opens(g) => bank'[g] = "NEW"
           /\ \A h \in Forms : Charged(h)' <=> Charged(h)
           /\ \A h \in Forms, t \in Unsuccessful \cup {"CONFIRMED"} :
                 Known(h, t) <=> Known(h, t)'
<1>1. /\ \A h \in Forms : h # g => bank'[h] = bank[h]
      /\ bank'[g] \in {"none", "NEW"}
      /\ Opens(g) => bank'[g] = "NEW"
  BY DEF Opens, IInv, TypeOK
<1>2. \A h \in Forms : Charged(h)' <=> Charged(h)
  BY <1>1 DEF Charged
<1>3. \A h \in Forms, t \in Unsuccessful : bank'[h] = t <=> bank[h] = t
  BY <1>1 DEF Unsuccessful
<1>4. \A h \in Forms, t \in Unsuccessful \cup {"CONFIRMED"} : Known(h, t) <=> Known(h, t)'
  BY <1>2, <1>3 DEF Known
<1> QED BY <1>1, <1>2, <1>4

LEMMA OpenedReports ==
    ASSUME IInv, NEW g \in Forms, bank[g] = "none", Opens(g) \/ UNCHANGED bank,
           UNCHANGED <<notes, reading>>,
           \A q \in Payments : step[q] \in Ended => step'[q] \in Ended,
           payable' = payable \/ (payable' = payable \cup {g} /\
                                  (g[2] = 1 => step[g[1]] \notin Ended))
    PROVE  ReportInv'
<1>1. \A h \in Forms, t \in Unsuccessful \cup {"CONFIRMED"} : Known(h, t) <=> Known(h, t)'
  BY OpenedForm
<1>2. \A n \in notes' : Known(n[1], n[2])'
  BY <1>1 DEF IInv, TypeOK, ReportInv
<1>3. \A q \in Payments : /\ reading'[q][2] \in Unsuccessful => reading'[q][1] # 0
                          /\ reading'[q] # NotReading => step'[q] \in Ended
  BY DEF IInv, ReportInv
<1>4. \A f \in Forms : reading'[f[1]][1] = f[2] /\ reading'[f[1]][2] \in Unsuccessful =>
                          Known(f, reading[f[1]][2])'
  BY <1>1 DEF IInv, ReportInv
<1>5. \A f \in Forms : reading'[f[1]] = <<0, "LISTED">> /\ f[2] = 1 => f \notin payable'
  BY FormsAreRows, NotListed DEF IInv, ReportInv
<1> QED BY <1>2, <1>3, <1>4, <1>5 DEF ReportInv

\* A step of create_payment that opens no form.
LEMMA PlainReports ==
    ASSUME IInv, UNCHANGED <<bank, notes, reading, payable>>,
           \A q \in Payments : step[q] \in Ended => step'[q] \in Ended
    PROVE  ReportInv'
  BY KnownReports DEF Known, Charged

LEMMA CheckoutForms ==
    ASSUME IInv, NEW p \in Payments, Checkout(p)
    PROVE  FormInv' /\ ReportInv'
<1>0. <<p, 1>> \in Forms /\ \A f \in Forms : f[1] = p /\ f[2] = 1 => f = <<p, 1>>
  BY FirstForms, SameForm
<1> DEFINE Moves(s) == step' = [step EXCEPT ![p] = s]
<1>a. \A s \in Steps : Moves(s) => step'[p] = s /\ \A q \in Payments \ {p} : step'[q] = step[q]
  BY DEF IInv, TypeOK
<1>b. ASSUME NEW s \in Steps, Moves(s), step[p] \notin Ended
      PROVE  \A q \in Payments : step[q] \in Ended => step'[q] \in Ended
  BY <1>a, <1>b
<1>1. CASE CheckReuse(p)
  <2>1. step[p] = "idle" /\ Moves("checked") /\ "checked" \in Steps
    BY <1>1 DEF CheckReuse, Steps
  <2>2. UNCHANGED <<status, pid, resubmitted, bank, notes, reading, payable>>
    BY <1>1 DEF CheckReuse, rowVars, bankVars
  <2>3. ReportInv'
    BY <1>b, <2>1, <2>2, PlainReports DEF Ended
  <2> QED BY <1>a, <2>1, <2>2, <2>3, FormsAreRows DEF IInv, FormInv, FormOK, BeforeInit, Charged
<1>2. CASE CreateRow(p)
  <2>1. step[p] = "checked" /\ Moves("created") /\ "created" \in Steps
    BY <1>2 DEF CreateRow, Steps
  <2>2. /\ UNCHANGED <<pid, resubmitted, bank, notes, reading, payable>>
        /\ \A q \in Payments \ {p} : status'[q] = status[q]
    BY <1>2 DEF CreateRow, bankVars, IInv, TypeOK
  <2>3. ReportInv'
    BY <1>b, <2>1, <2>2, PlainReports DEF Ended
  <2> QED BY <1>a, <2>1, <2>2, <2>3, FormsAreRows DEF IInv, FormInv, FormOK, BeforeInit, Charged
<1>3. CASE ReservePromo(p)
  <2>1. step[p] = "created" /\ Moves("reserved") /\ "reserved" \in Steps
    BY <1>3 DEF ReservePromo, Steps
  <2>2. UNCHANGED <<status, pid, resubmitted, bank, notes, reading, payable>>
    BY <1>3 DEF ReservePromo, bankVars
  <2>3. ReportInv'
    BY <1>b, <2>1, <2>2, PlainReports DEF Ended
  <2> QED BY <1>a, <2>1, <2>2, <2>3, FormsAreRows DEF IInv, FormInv, FormOK, BeforeInit, Charged
<1>4. CASE ReservePromoFails(p) \/ ReservePromotionFails(p)
  <2>1. PICK s \in {"failed", "unreleased"} : Moves(s)
    BY <1>4 DEF ReservePromoFails, ReservePromotionFails
  <2>2. step[p] \in {"created", "reserved"} /\ s \in Steps
    BY <1>4 DEF ReservePromoFails, ReservePromotionFails, Steps, Ended
  <2>3. /\ UNCHANGED <<pid, resubmitted, bank, notes, reading, payable>>
        /\ \A q \in Payments \ {p} : status'[q] = status[q]
    BY <1>4 DEF ReservePromoFails, ReservePromotionFails, bankVars, IInv, TypeOK
  <2>4. ReportInv'
    BY <1>b, <2>1, <2>2, <2>3, PlainReports DEF Ended
  <2>5. FormInv'
    BY <1>a, <2>1, <2>2, <2>3, FormsAreRows DEF IInv, FormInv, FormOK, BeforeInit, Charged
  <2> QED BY <2>4, <2>5
<1>5. CASE InitOk(p)
  <2>1. step[p] = "reserved" /\ Moves("inited") /\ "inited" \in Steps
    BY <1>5 DEF InitOk, Steps
  <2>2. /\ UNCHANGED <<status, resubmitted, notes, reading>>
        /\ Opens(<<p, 1>>)
        /\ payable' = payable \cup {<<p, 1>>}
        /\ pid' = [pid EXCEPT ![p] = 1]
    BY <1>5 DEF InitOk, HandOut
  <2>3. bank[<<p, 1>>] = "none" /\ step[p] \notin Ended
    BY <1>0, <2>1 DEF IInv, FormInv, FormOK, BeforeInit, Ended
  <2>4. ReportInv'
    BY <1>0, <1>b, <2>1, <2>2, <2>3, OpenedReports
  <2>5. /\ \A h \in Forms : h # <<p, 1>> => bank'[h] = bank[h]
        /\ bank'[<<p, 1>>] = "NEW"
        /\ \A h \in Forms : Charged(h)' <=> Charged(h)
    BY <1>0, <2>2, <2>3, OpenedForm
  <2>6. pid'[p] = 1 /\ \A q \in Payments \ {p} : pid'[q] = pid[q]
    BY <2>2 DEF IInv, TypeOK
  <2>7. <<p, 1>> \notin resubmitted
    BY <1>0 DEF IInv, FormInv, FormOK
  <2>8. ASSUME NEW h \in Forms, h # <<p, 1>> PROVE FormOK(h)'
    <3>1. h[1] = p => h[2] # 1
      BY <1>0, <2>8
    <3> QED
      BY <1>a, <2>1, <2>2, <2>5, <2>6, <2>8, <3>1, FormsAreRows
      DEF IInv, FormInv, FormOK, BeforeInit
  <2>9. FormOK(<<p, 1>>)'
    <3> DEFINE g == <<p, 1>>
    <3>1. /\ g \in Forms /\ g[1] = p /\ g \in payable' /\ g \notin resubmitted'
          /\ bank'[g] = "NEW" /\ step'[p] = "inited" /\ pid'[p] = 1
      BY <1>0, <1>a, <2>1, <2>2, <2>5, <2>6, <2>7
    <3> HIDE DEF g
    <3>2. FormOK(g)'
      BY <3>1 DEF FormOK, BeforeInit
    <3> QED BY <3>2 DEF g
  <2>10. \A q \in Payments : step'[q] \in {"idle", "checked"} => status'[q] = "none"
    BY <1>a, <2>1, <2>2 DEF IInv, FormInv, FormOK
  <2> QED BY <2>4, <2>8, <2>9, <2>10 DEF FormInv
<1>6. CASE InitFails(p)
  <2>1. step[p] = "reserved" /\ Moves("releasing") /\ "releasing" \in Steps
    BY <1>6 DEF InitFails, Steps
  <2>2. /\ UNCHANGED <<pid, resubmitted, notes, reading, payable>>
        /\ \A q \in Payments \ {p} : status'[q] = status[q]
        /\ Opens(<<p, 1>>) \/ UNCHANGED bank
    BY <1>6 DEF InitFails, IInv, TypeOK
  <2>3. bank[<<p, 1>>] = "none" /\ step[p] \notin Ended
    BY <1>0, <2>1 DEF IInv, FormInv, FormOK, BeforeInit, Ended
  <2>4. ReportInv'
    BY <1>0, <1>b, <2>1, <2>2, <2>3, OpenedReports
  <2>5. /\ \A h \in Forms : h # <<p, 1>> => bank'[h] = bank[h]
        /\ \A h \in Forms : Charged(h)' <=> Charged(h)
    BY <1>0, <2>2, <2>3, OpenedForm
  <2>7. <<p, 1>> \notin resubmitted /\ <<p, 1>> \notin payable
    BY <1>0, <2>1 DEF IInv, FormInv, FormOK, BeforeInit
  <2>8. ASSUME NEW h \in Forms, h # <<p, 1>> PROVE FormOK(h)'
    <3>1. h[1] = p => h[2] # 1
      BY <1>0, <2>8
    <3> QED
      BY <1>a, <2>1, <2>2, <2>5, <2>8, <3>1, FormsAreRows
      DEF IInv, FormInv, FormOK, BeforeInit
  <2>9. FormOK(<<p, 1>>)'
    BY <1>0, <1>a, <2>1, <2>2, <2>5, <2>7 DEF IInv, FormInv, FormOK, BeforeInit
  <2>10. \A q \in Payments : step'[q] \in {"idle", "checked"} => status'[q] = "none"
    BY <1>a, <2>1, <2>2 DEF IInv, FormInv, FormOK
  <2> QED BY <2>4, <2>8, <2>9, <2>10 DEF FormInv
<1>7. CASE ReleaseAfterInitFailure(p)
  <2>1. step[p] = "releasing" /\ Moves("failed") /\ "failed" \in Steps
    BY <1>7 DEF ReleaseAfterInitFailure, Steps, Ended
  <2>2. UNCHANGED <<status, pid, resubmitted, bank, notes, reading, payable>>
    BY <1>7 DEF ReleaseAfterInitFailure, bankVars
  <2>3. ReportInv'
    BY <1>b, <2>1, <2>2, PlainReports DEF Ended
  <2> QED BY <1>a, <2>1, <2>2, <2>3, FormsAreRows DEF IInv, FormInv, FormOK, BeforeInit, Charged
<1>8. CASE SupersedeOthers(p) \/ FinishCheckout(p)
  <2>1. PICK s \in {"cancelling", "done"} : Moves(s)
    BY <1>8 DEF SupersedeOthers, FinishCheckout
  <2>2. step[p] \in {"inited", "cancelling"} /\ s \in Steps
    BY <1>8 DEF SupersedeOthers, FinishCheckout, Steps, Ended
  <2>3. UNCHANGED <<status, pid, resubmitted, bank, notes, reading, payable>>
    BY <1>8 DEF SupersedeOthers, FinishCheckout, rowVars, bankVars
  <2>4. ReportInv'
    BY <1>b, <2>1, <2>2, <2>3, PlainReports DEF Ended
  <2> QED BY <1>a, <2>1, <2>2, <2>3, <2>4, FormsAreRows DEF IInv, FormInv, FormOK, BeforeInit, Charged
<1>9. ASSUME NEW f \in Forms, ProbeSuperseded(p, f) PROVE FormInv' /\ ReportInv'
  <2>1. UNCHANGED <<status, pid, step, resubmitted, bank, notes, reading, payable>>
    BY <1>9 DEF ProbeSuperseded, rowVars, bankVars
  <2>2. ReportInv'
    BY <2>1, PlainReports
  <2> QED BY <2>1, <2>2 DEF IInv, FormInv, FormOK, Charged
<1>10. ASSUME NEW f \in Forms, CancelSupersededForm(p, f) PROVE FormInv' /\ ReportInv'
  BY <1>10, CancelForms
<1>11. CASE Crash(p)
  <2>1. /\ step[p] \in {"created", "reserved", "inited", "cancelling", "releasing"}
        /\ Moves("dead") /\ "dead" \in Steps
    BY <1>11 DEF Crash, Steps, Ended
  <2>2. /\ UNCHANGED <<status, pid, resubmitted, notes, reading, payable>>
        /\ (step[p] = "reserved" /\ Opens(<<p, 1>>)) \/ UNCHANGED bank
    BY <1>11 DEF Crash, rowVars
  <2>3. CASE UNCHANGED bank
    <3>1. ReportInv'
      BY <1>b, <2>1, <2>2, <2>3, PlainReports DEF Ended
    <3> QED BY <1>a, <2>1, <2>2, <2>3, <3>1, FormsAreRows DEF IInv, FormInv, FormOK, BeforeInit, Charged
  <2>4. CASE step[p] = "reserved" /\ Opens(<<p, 1>>)
    <3>1. bank[<<p, 1>>] = "none" /\ step[p] \notin Ended
      BY <1>0, <2>4 DEF IInv, FormInv, FormOK, BeforeInit, Ended
    <3>2. ReportInv'
      BY <1>0, <1>b, <2>1, <2>2, <2>4, <3>1, OpenedReports
    <3>3. /\ \A h \in Forms : h # <<p, 1>> => bank'[h] = bank[h]
          /\ \A h \in Forms : Charged(h)' <=> Charged(h)
      BY <1>0, <2>4, <3>1, OpenedForm
    <3>4. <<p, 1>> \notin resubmitted /\ <<p, 1>> \notin payable
      BY <1>0, <2>4 DEF IInv, FormInv, FormOK, BeforeInit
    <3>5. ASSUME NEW h \in Forms, h # <<p, 1>> PROVE FormOK(h)'
      <4>1. h[1] = p => h[2] # 1
        BY <1>0, <3>5
      <4> QED
        BY <1>a, <2>1, <2>2, <3>3, <3>5, <4>1, FormsAreRows
        DEF IInv, FormInv, FormOK, BeforeInit
    <3>6. FormOK(<<p, 1>>)'
      BY <1>0, <1>a, <2>1, <2>2, <3>3, <3>4 DEF IInv, FormInv, FormOK, BeforeInit
    <3>7. \A q \in Payments : step'[q] \in {"idle", "checked"} => status'[q] = "none"
      BY <1>a, <2>1, <2>2 DEF IInv, FormInv, FormOK
    <3> QED BY <3>2, <3>5, <3>6, <3>7 DEF FormInv
  <2> QED BY <2>2, <2>3, <2>4
<1> QED
  BY <1>1, <1>2, <1>3, <1>4, <1>5, <1>6, <1>7, <1>8, <1>9, <1>10, <1>11 DEF Checkout

LEMMA RepeatedForms ==
    ASSUME IInv, NEW f \in Forms, Repeated(f)
    PROVE  FormInv' /\ ReportInv'
<1>0. f[1] \in Payments
  BY FormsAreRows
<1>1. CASE Resubmit(f)
  <2>1. /\ f[2] > 1 /\ status[f[1]] = "pending" /\ bank[f] = "none"
        /\ resubmitted' = resubmitted \cup {f}
        /\ UNCHANGED <<status, pid, step, bank, notes, reading, payable>>
    BY <1>1 DEF Resubmit, rowVars, bankVars
  <2>2. ReportInv'
    BY <2>1, PlainReports
  <2>3. FormInv'
    BY <1>0, <2>1 DEF IInv, FormInv, FormOK, Charged
  <2> QED BY <2>2, <2>3
<1>2. CASE ResubmitInitOk(f) \/ ResubmitInitFails(f)
  <2>1. /\ f \in resubmitted /\ resubmitted' = resubmitted \ {f}
        /\ UNCHANGED <<status, step, notes, reading>>
        /\ Opens(f) \/ UNCHANGED bank
        /\ \/ UNCHANGED <<pid, payable>>
           \/ /\ Opens(f)
              /\ pid' = [pid EXCEPT ![f[1]] = f[2]]
              /\ payable' = payable \cup {f}
    BY <1>2 DEF ResubmitInitOk, ResubmitInitFails, HandOut, rowVars
  <2>2. /\ f[2] > 1 /\ f[2] # 1 /\ f[2] # 0 /\ bank[f] = "none"
        /\ step[f[1]] \notin {"idle", "checked"}
    BY <2>1, FormsAreRows DEF IInv, FormInv, FormOK
  <2>3. ReportInv'
    BY <2>1, <2>2, OpenedReports
  <2>4. /\ \A h \in Forms : h # f => bank'[h] = bank[h]
        /\ Opens(f) => bank'[f] = "NEW"
        /\ \A h \in Forms : Charged(h)' <=> Charged(h)
    BY <2>1, <2>2, OpenedForm
  <2>5. \A q \in Payments : pid[q] # 0 => pid'[q] # 0
    BY <1>0, <2>1, <2>2 DEF IInv, TypeOK
  <2>6. f \in payable' /\ f \notin payable => pid'[f[1]] # 0 /\ Opens(f)
    BY <1>0, <2>1, <2>2 DEF IInv, TypeOK
  <2>7. FormInv'
    BY <2>1, <2>2, <2>4, <2>5, <2>6, FormsAreRows DEF IInv, FormInv, FormOK
  <2> QED BY <2>3, <2>7
<1> QED BY <1>1, <1>2 DEF Repeated

LEMMA BankForms ==
    ASSUME IInv, NEW f \in Forms, Bank(f)
    PROVE  FormInv' /\ ReportInv'
<1>1. PICK s \in Unsuccessful \cup {"CONFIRMED"} :
        /\ BankMoves(f, s)
        /\ s = "CONFIRMED" => f \in payable
        /\ s = "REFUNDED" <=> bank[f] = "CONFIRMED"
        /\ bank[f] \in {"NEW", "CONFIRMED", "AUTH_FAIL"}
        /\ bank[f] = "AUTH_FAIL" => s = "CONFIRMED"
  BY DEF Bank, PayerConfirms, PayerDeclined, FormExpires, BankRefunds, Unsuccessful
<1>2. /\ bank' = [bank EXCEPT ![f] = s] /\ notes' = notes \cup {<<f, s>>}
      /\ UNCHANGED <<status, pid, step, resubmitted, reading, payable>>
  BY <1>1 DEF BankMoves, rowVars, createVars
<1>3. bank'[f] = s /\ \A g \in Forms \ {f} : bank'[g] = bank[g]
  BY <1>2 DEF IInv, TypeOK
<1>4. /\ \A g \in Forms : bank'[g] = "none" <=> bank[g] = "none"
      /\ \A g \in Forms : Charged(g) => Charged(g)'
      /\ \A g \in Forms : Charged(g)' => Charged(g) \/ g \in payable
  BY <1>1, <1>3 DEF Charged, Unsuccessful
<1>5. FormInv'
  BY <1>2, <1>4 DEF IInv, FormInv, FormOK
<1>6. \A g \in Forms, t \in Unsuccessful \cup {"CONFIRMED"} : Known(g, t) => Known(g, t)'
  BY <1>1, <1>3 DEF Known, Charged, Unsuccessful
<1>7. Known(f, s)'
  BY <1>3 DEF Known, Charged
<1>8. \A n \in notes' : n \in notes \/ (n[1] \in Forms /\ Known(n[1], n[2])')
  BY <1>2, <1>7
<1>9. ReportInv'
  BY <1>2, <1>6, <1>8, KnownReports
<1> QED BY <1>5, <1>9

LEMMA StepForms == IInv /\ [Next]_vars => IInv'
<1> SUFFICES ASSUME IInv, [Next]_vars PROVE FormInv' /\ ReportInv'
  BY StepTypes DEF IInv
<1>1. ASSUME NEW p \in Payments, Checkout(p) \/ Settle(p) PROVE FormInv' /\ ReportInv'
  BY <1>1, CheckoutForms, SettleForms
<1>2. ASSUME NEW f \in Forms, Repeated(f) \/ Bank(f) PROVE FormInv' /\ ReportInv'
  BY <1>2, RepeatedForms, BankForms
<1>3. ASSUME NEW n \in notes, Notification(n) \/ NotificationReplyLost(n)
      PROVE  FormInv' /\ ReportInv'
  BY <1>3, NotificationForms
<1>4. CASE UNCHANGED vars
  BY <1>4 DEF vars, IInv, FormInv, FormOK, ReportInv, Known, Charged
<1> QED BY <1>1, <1>2, <1>3, <1>4 DEF Next

\* What is known of forms and reports holds in every reachable state.
LEMMA FormsKept == Spec => []IInv
  BY InitForms, StepForms, PTL DEF Spec

--------------------------------------------------------------------------------
(* The three kinds of steps: a settlement, a step of create_payment that   *)
(* writes the status or the promo code, and the rest.                      *)

quietVars == <<events, status, promo, activated>>

OwnStep(p) ==
    \/ CreateRow(p)
    \/ ReservePromo(p)
    \/ ReservePromoFails(p)
    \/ ReservePromotionFails(p)
    \/ InitFails(p)
    \/ ReleaseAfterInitFailure(p)

\* The request that created a row goes on, reaches the bank or dies.
Moved(p) ==
    \/ step'[p] = step[p]
    \/ step[p] = "idle" /\ step'[p] = "checked"
    \/ step[p] \in {"reserved", "inited", "cancelling"}
       /\ step'[p] \in {"inited", "cancelling", "done"}
    \/ step[p] \notin {"idle", "checked"} \cup Ended /\ step'[p] = "dead"

SettlingStep == Reports /\ UNCHANGED <<step, payable>>

OtherStep ==
    /\ UNCHANGED quietVars
    /\ \A p \in Payments : Moved(p)
    /\ \A f \in Forms : f[2] = 1 /\ f \in payable' => f \in payable \/ step[f[1]] = "reserved"

LEMMA OtherCheckouts ==
    ASSUME IInv, NEW p \in Payments,
           \/ CheckReuse(p)
           \/ InitOk(p)
           \/ SupersedeOthers(p)
           \/ \E f \in Forms : ProbeSuperseded(p, f)
           \/ FinishCheckout(p)
           \/ Crash(p)
    PROVE  OtherStep
<1>1. UNCHANGED quietVars
  BY DEF CheckReuse, InitOk, SupersedeOthers, ProbeSuperseded, FinishCheckout, Crash,
         rowVars, quietVars
<1>2. step \in [Payments -> Steps]
  BY DEF IInv, TypeOK
<1>3. \A q \in Payments : Moved(q)
  BY <1>2 DEF CheckReuse, InitOk, SupersedeOthers, ProbeSuperseded, FinishCheckout, Crash,
              Moved, Ended
<1>4. \A f \in Forms : f[2] = 1 /\ f \in payable' => f \in payable \/ step[f[1]] = "reserved"
  <2>1. UNCHANGED payable \/ (step[p] = "reserved" /\ payable' = payable \cup {<<p, 1>>})
    BY DEF CheckReuse, InitOk, SupersedeOthers, ProbeSuperseded, FinishCheckout, Crash,
           HandOut, bankVars
  <2> QED BY <2>1
<1> QED BY <1>1, <1>3, <1>4 DEF OtherStep

LEMMA StepKinds ==
    ASSUME IInv, [Next]_vars
    PROVE  SettlingStep \/ OtherStep \/ \E p \in Payments : OwnStep(p)
<1>1. ASSUME NEW p \in Payments, Checkout(p), ~ OwnStep(p)
      PROVE  SettlingStep \/ OtherStep
  <2>1. ASSUME NEW f \in Forms, CancelSupersededForm(p, f) PROVE SettlingStep
    <3>1. UNCHANGED <<step, payable>>
      BY <2>1 DEF CancelSupersededForm
    <3> QED BY <2>1, <3>1, CancelReports DEF SettlingStep, IInv
  <2> QED BY <1>1, <2>1, OtherCheckouts DEF Checkout, OwnStep
<1>2. ASSUME NEW p \in Payments, Settle(p) PROVE SettlingStep
  <2>1. UNCHANGED <<step, payable>>
    BY <1>2 DEF Settle, Sync, ReconcileList, ReconcileAsks, ReconcileApply, createVars, bankVars
  <2> QED BY <1>2, <2>1, SettleReports DEF SettlingStep, IInv
<1>3. ASSUME NEW n \in notes, Notification(n) \/ NotificationReplyLost(n) PROVE SettlingStep
  <2>1. UNCHANGED <<step, payable>>
    BY <1>3 DEF Notification, NotificationReplyLost, createVars, bankVars
  <2> QED BY <1>3, <2>1, NotificationReports DEF SettlingStep, IInv, Reports
<1>4. ASSUME NEW f \in Forms, Repeated(f) PROVE OtherStep
  <2>1. UNCHANGED quietVars /\ UNCHANGED step
    BY <1>4 DEF Repeated, Resubmit, ResubmitInitOk, ResubmitInitFails, rowVars, quietVars
  <2>2. UNCHANGED payable \/ (f \in resubmitted /\ payable' = payable \cup {f})
    BY <1>4 DEF Repeated, Resubmit, ResubmitInitOk, ResubmitInitFails, HandOut, bankVars
  <2>3. f \in resubmitted => f[2] # 1
    BY FormsAreRows DEF IInv, FormInv, FormOK
  <2> QED BY <2>1, <2>2, <2>3 DEF OtherStep, Moved
<1>5. ASSUME NEW f \in Forms, Bank(f) PROVE OtherStep
  <2>1. UNCHANGED quietVars /\ UNCHANGED <<step, payable>>
    BY <1>5 DEF Bank, PayerConfirms, PayerDeclined, FormExpires, BankRefunds, BankMoves,
                rowVars, createVars, quietVars
  <2> QED BY <2>1 DEF OtherStep, Moved
<1>6. CASE UNCHANGED vars
  BY <1>6 DEF vars, OtherStep, Moved, quietVars
<1> QED BY <1>1, <1>2, <1>3, <1>4, <1>5, <1>6 DEF Next

\* What a step of create_payment writes to its own row, and to no other.
LEMMA OwnLocal ==
    ASSUME IInv, NEW p \in Payments, OwnStep(p)
    PROVE  /\ \A q \in Payments \ {p} : /\ status'[q] = status[q]
                                        /\ promo'[q] = promo[q]
                                        /\ step'[q] = step[q]
           /\ UNCHANGED <<events, activated, payable>>
           /\ \/ /\ step[p] = "checked" /\ step'[p] = "created"
                 /\ status'[p] = "pending" /\ promo'[p] = promo[p]
              \/ /\ step[p] = "created" /\ step'[p] = "reserved"
                 /\ status'[p] = status[p]
                 /\ promo'[p] = IF p \in PromoPayments THEN "reserved" ELSE promo[p]
              \/ /\ step[p] = "created" /\ step'[p] = "failed"
                 /\ status'[p] = "failed" /\ promo'[p] = promo[p]
              \/ /\ step[p] = "reserved" /\ step'[p] \in {"unreleased", "releasing"}
                 /\ status'[p] = "failed" /\ promo'[p] = promo[p]
              \/ /\ step[p] = "releasing" /\ step'[p] = "failed"
                 /\ status'[p] = status[p]
                 /\ promo'[p] = IF promo[p] = "reserved" THEN "released" ELSE promo[p]
<1> USE DEF IInv, TypeOK
<1>1. CASE CreateRow(p)
  BY <1>1 DEF CreateRow, bankVars
<1>2. CASE ReservePromo(p)
  BY <1>2 DEF ReservePromo, bankVars
<1>3. CASE ReservePromoFails(p)
  BY <1>3 DEF ReservePromoFails, bankVars
<1>4. CASE ReservePromotionFails(p)
  BY <1>4 DEF ReservePromotionFails, bankVars
<1>5. CASE InitFails(p)
  BY <1>5 DEF InitFails
<1>6. CASE ReleaseAfterInitFailure(p)
  <2>1. PromoAfter(p, "failed") = IF promo[p] = "reserved" THEN "released" ELSE promo[p]
    BY DEF PromoAfter
  <2> HIDE DEF IInv
  <2> QED BY <1>6, <2>1 DEF ReleaseAfterInitFailure, bankVars, IInv
<1> HIDE DEF IInv, TypeOK
<1> QED BY <1>1, <1>2, <1>3, <1>4, <1>5, <1>6 DEF OwnStep

\* What a report writes to its own row, and to no other.
LEMMA ReportLocal ==
    ASSUME IInv, NEW e \in EventKeys, NEW f \in RowForms, NEW new \in LocalStatus,
           Report(e, f, new)
    PROVE  /\ f[1] \in Payments
           /\ \A q \in Payments \ {f[1]} : status'[q] = status[q] /\ promo'[q] = promo[q]
           /\ \A g \in Forms \ {f} : activated'[g] = activated[g]
           /\ \/ UNCHANGED settledVars
              \/ /\ new = "paid" /\ status[f[1]] = "paid"
                 /\ e \notin events /\ events' = events \cup {e}
                 /\ UNCHANGED <<status, promo, activated>>
              \/ /\ new = "paid" /\ status[f[1]] # "paid" /\ status'[f[1]] = "paid"
                 /\ e \notin events /\ events' = events \cup {e}
                 /\ activated'[f] = activated[f] + 1
                 /\ promo'[f[1]] = IF promo[f[1]] = "reserved" THEN "applied" ELSE promo[f[1]]
              \/ /\ new \in Failed /\ status'[f[1]] = new
                 /\ e \notin events /\ events' = events \cup {e}
                 /\ UNCHANGED activated
                 /\ promo'[f[1]] = IF promo[f[1]] = "reserved" THEN "released" ELSE promo[f[1]]
<1>1. HandleWebhook(e, f, new) /\ (new = "paid" => f \in Forms) /\ TypeOK
      /\ (new # "paid" => new \in Failed) /\ f[1] \in Payments
  BY FailedAreLocal DEF Report, IInv, RowForms
<1>2. /\ \A q \in Payments \ {f[1]} : status'[q] = status[q] /\ promo'[q] = promo[q]
      /\ \A g \in Forms \ {f} : activated'[g] = activated[g]
  BY <1>1, WebhookLocal
<1> QED BY <1>1, <1>2, WebhookOutcome

\* Reports of a confirmation and of anything else differ in their keys.
LEMMA ReportKeys ==
    ASSUME NEW e, NEW f, NEW new, Report(e, f, new)
    PROVE  /\ new = "paid" => /\ f \in Forms /\ Charged(f) /\ UNCHANGED bank
                              /\ e[2] = f /\ e[3] = "CONFIRMED"
                              /\ e \in {Event("tbank", f, "CONFIRMED"), Event("sync", f, "CONFIRMED")}
           /\ new # "paid" => e[3] # "CONFIRMED" /\ e[2][1] = f[1]
  BY FailedAreLocal DEF Report, Event, Unsuccessful

\* Nothing that has happened at the bank or has been processed is forgotten.
LEMMA Grows ==
    ASSUME IInv, [Next]_vars
    PROVE  /\ events \subseteq events'
           /\ \A f \in Forms : /\ Charged(f) => Charged(f)'
                               /\ bank[f] # "none" => bank'[f] # "none"
           /\ \A p \in Payments : OwnRequestFailed(p) => OwnRequestFailed(p)'
<1>1. events \subseteq events'
  <2>1. ASSUME Reports PROVE events \subseteq events'
    BY <2>1, ReportLocal DEF Reports, ReportStep, settledVars
  <2> QED BY <2>1, StepKinds, OwnLocal DEF SettlingStep, OtherStep, quietVars
<1>2. \A p \in Payments : OwnRequestFailed(p) => OwnRequestFailed(p)'
  <2>1. ASSUME NEW q \in Payments, OwnStep(q), NEW p \in Payments, OwnRequestFailed(p)
        PROVE  OwnRequestFailed(p)'
    BY <2>1, OwnLocal DEF OwnRequestFailed
  <2>2. CASE SettlingStep \/ OtherStep
    BY <2>2 DEF SettlingStep, OtherStep, Moved, OwnRequestFailed
  <2> QED BY <2>1, <2>2, StepKinds
<1>3. \A f \in Forms : /\ Charged(f) => Charged(f)'
                       /\ bank[f] # "none" => bank'[f] # "none"
  <2>1. ASSUME NEW g \in Forms, bank[g] = "none", Opens(g) \/ UNCHANGED bank, NEW f \in Forms
        PROVE  /\ Charged(f) => Charged(f)'
               /\ bank[f] # "none" => bank'[f] # "none"
    BY <2>1, OpenedForm
  <2>2. ASSUME NEW p \in Payments, Checkout(p), NEW f \in Forms
        PROVE  /\ Charged(f) => Charged(f)'
               /\ bank[f] # "none" => bank'[f] # "none"
    <3>1. ASSUME NEW g \in Forms, CancelSupersededForm(p, g)
          PROVE  /\ Charged(f) => Charged(f)'
                 /\ bank[f] # "none" => bank'[f] # "none"
      BY <3>1 DEF CancelSupersededForm, IInv, TypeOK, Charged
    <3>2. CASE UNCHANGED bank
      BY <3>2 DEF Charged
    <3>3. CASE step[p] = "reserved" /\ Opens(<<p, 1>>)
      <4>1. <<p, 1>> \in Forms /\ bank[<<p, 1>>] = "none"
        BY <3>3, FirstForms DEF IInv, FormInv, FormOK, BeforeInit
      <4> QED BY <2>1, <3>3, <4>1
    <3>4. \/ UNCHANGED bank
          \/ step[p] = "reserved" /\ Opens(<<p, 1>>)
          \/ \E g \in Forms : CancelSupersededForm(p, g)
      BY <2>2 DEF Checkout, CheckReuse, CreateRow, ReservePromo, ReservePromoFails,
         ReservePromotionFails, InitOk, HandOut, InitFails, ReleaseAfterInitFailure,
         SupersedeOthers, ProbeSuperseded, FinishCheckout, Crash, bankVars
    <3> QED BY <3>1, <3>2, <3>3, <3>4
  <2>3. ASSUME NEW g \in Forms, Repeated(g), NEW f \in Forms
        PROVE  /\ Charged(f) => Charged(f)'
               /\ bank[f] # "none" => bank'[f] # "none"
    <3>1. UNCHANGED bank \/ (g \in resubmitted /\ Opens(g))
      BY <2>3 DEF Repeated, Resubmit, ResubmitInitOk, ResubmitInitFails, HandOut, bankVars
    <3>2. g \in resubmitted => bank[g] = "none"
      BY DEF IInv, FormInv, FormOK
    <3>3. CASE UNCHANGED bank
      BY <3>3 DEF Charged
    <3> QED BY <2>1, <3>1, <3>2, <3>3
  <2>4. ASSUME NEW g \in Forms, Bank(g), NEW f \in Forms
        PROVE  /\ Charged(f) => Charged(f)'
               /\ bank[f] # "none" => bank'[f] # "none"
    BY <2>4 DEF Bank, PayerConfirms, PayerDeclined, FormExpires, BankRefunds, BankMoves,
       IInv, TypeOK, Charged
  <2>5. ASSUME UNCHANGED bank, NEW f \in Forms
        PROVE  /\ Charged(f) => Charged(f)'
               /\ bank[f] # "none" => bank'[f] # "none"
    BY <2>5 DEF Charged
  <2>6. ASSUME NEW p \in Payments, Settle(p) PROVE UNCHANGED bank
    BY <2>6 DEF Settle, Sync, ReconcileList, ReconcileAsks, ReconcileApply, bankVars
  <2>7. ASSUME NEW n \in notes, Notification(n) \/ NotificationReplyLost(n) PROVE UNCHANGED bank
    BY <2>7 DEF Notification, NotificationReplyLost, bankVars
  <2> QED BY <2>2, <2>3, <2>4, <2>5, <2>6, <2>7 DEF Next, vars
<1> QED BY <1>1, <1>2, <1>3

--------------------------------------------------------------------------------
(* Only charges activate.                                                  *)

Activated(f) == activated[f] > 0

\* A PAID payment has been activated by a form, a form only by its charge, and a
\* confirmation is processed only of a charge.
ChargeInv ==
    /\ \A f \in Forms : Activated(f) => Charged(f)
    /\ \A p \in Payments : status[p] = "paid" => \E f \in Forms : f[1] = p /\ Activated(f)
    /\ \A e \in events : e[3] = "CONFIRMED" => e[2] \in Forms /\ Charged(e[2])

LEMMA InitCharges == Init => ChargeInv
  BY DEF Init, ChargeInv, Activated

LEMMA ActivationsGrow ==
    ASSUME IInv, [Next]_vars
    PROVE  \A f \in Forms : activated'[f] \in Nat /\ activated'[f] >= activated[f]
<1>0. \A f \in Forms : activated[f] \in Nat
  BY DEF IInv, TypeOK
<1>1. ASSUME NEW e \in EventKeys, NEW g \in RowForms, NEW new \in LocalStatus,
             Report(e, g, new), NEW f \in Forms
      PROVE  activated'[f] \in Nat /\ activated'[f] >= activated[f]
  BY <1>0, <1>1, ReportLocal DEF settledVars
<1>2. CASE UNCHANGED activated
  BY <1>0, <1>2
<1>3. ReportStep \/ UNCHANGED activated
  BY StepKinds, OwnLocal DEF SettlingStep, Reports, OtherStep, settledVars, quietVars
<1> QED BY <1>1, <1>2, <1>3 DEF ReportStep

LEMMA StepCharges == IInv /\ ChargeInv /\ [Next]_vars => ChargeInv'
<1> SUFFICES ASSUME IInv, ChargeInv, [Next]_vars PROVE ChargeInv'
  OBVIOUS
<1>0. /\ \A f \in Forms : Charged(f) => Charged(f)'
      /\ \A f \in Forms : activated[f] \in Nat /\ activated'[f] \in Nat
      /\ \A f \in Forms : Activated(f) => Activated(f)'
  BY Grows, ActivationsGrow DEF Activated, IInv, TypeOK
<1>1. CASE UNCHANGED <<events, status, activated>>
  BY <1>0, <1>1 DEF ChargeInv, Activated
<1>2. ASSUME NEW e \in EventKeys, NEW f \in RowForms, NEW new \in LocalStatus,
             Report(e, f, new)
      PROVE  ChargeInv'
  <2>1. CASE UNCHANGED settledVars
    BY <1>1, <2>1 DEF settledVars
  <2>2. CASE new = "paid" /\ events' = events \cup {e}
    <3>1. f \in Forms /\ Charged(f)' /\ e[2] = f
      BY <1>0, <1>2, <2>2, ReportKeys
    <3>2. \A x \in events' : x[3] = "CONFIRMED" => x[2] \in Forms /\ Charged(x[2])'
      BY <1>0, <2>2, <3>1 DEF ChargeInv
    <3>3. \A g \in Forms : Activated(g)' => Charged(g)'
      BY <1>0, <1>2, <3>1, ReportLocal DEF ChargeInv, Activated
    <3>4. status'[f[1]] = "paid" => \E g \in Forms : g[1] = f[1] /\ Activated(g)'
      <4>1. CASE status[f[1]] = "paid"
        BY <1>0, <3>1, <4>1, FormsAreRows DEF ChargeInv
      <4>2. CASE activated'[f] = activated[f] + 1
        BY <1>0, <3>1, <4>2 DEF Activated
      <4> QED BY <1>2, <2>2, <4>1, <4>2, ReportLocal, FailedAreLocal DEF settledVars
    <3>5. \A q \in Payments : q # f[1] /\ status'[q] = "paid" =>
             \E g \in Forms : g[1] = q /\ Activated(g)'
      BY <1>0, <1>2, ReportLocal DEF ChargeInv
    <3> QED BY <3>2, <3>3, <3>4, <3>5 DEF ChargeInv
  <2>3. CASE new \in Failed /\ status'[f[1]] = new /\ events' = events \cup {e} /\ UNCHANGED activated
    <3>1. new # "paid" /\ e[3] # "CONFIRMED"
      BY <1>2, <2>3, ReportKeys, FailedAreLocal
    <3>2. \A q \in Payments : status'[q] = "paid" => status[q] = "paid"
      BY <1>2, <2>3, <3>1, ReportLocal
    <3> QED BY <1>0, <2>3, <3>1, <3>2 DEF ChargeInv, Activated
  <2> QED BY <1>2, <2>1, <2>2, <2>3, ReportLocal
<1>3. ASSUME NEW p \in Payments, OwnStep(p) PROVE ChargeInv'
  <2>1. UNCHANGED <<events, activated>> /\ \A q \in Payments : status'[q] = "paid" => status[q] = "paid"
    BY <1>3, OwnLocal
  <2> QED BY <1>0, <2>1 DEF ChargeInv, Activated
<1> QED
  BY <1>1, <1>2, <1>3, StepKinds
  DEF SettlingStep, Reports, ReportStep, OtherStep, settledVars, quietVars

ChargeIInv == IInv /\ ChargeInv

LEMMA ChargesKept == Spec => []ChargeIInv
<1>1. Init => ChargeIInv
  BY InitForms, InitCharges DEF ChargeIInv
<1>2. ChargeIInv /\ [Next]_vars => ChargeIInv'
  BY StepForms, StepCharges DEF ChargeIInv
<1> QED BY <1>1, <1>2, PTL DEF Spec

LEMMA ChargesPaid == ChargeIInv => PaidOnlyWhenCharged
<1> SUFFICES ASSUME ChargeIInv PROVE PaidOnlyWhenCharged
  OBVIOUS
<1>1. ASSUME NEW p \in Payments, status[p] = "paid"
      PROVE  \E k \in 1 .. Submits : Charged(<<p, k>>)
  <2>1. PICK f \in Forms : f[1] = p /\ Charged(f)
    BY <1>1 DEF ChargeIInv, ChargeInv
  <2>2. f = <<p, f[2]>> /\ f[2] \in 1 .. Submits
    BY <2>1 DEF Forms
  <2>3. Charged(<<p, f[2]>>)
    BY <2>1, <2>2
  <2> QED BY <2>2, <2>3
<1> QED BY <1>1 DEF PaidOnlyWhenCharged, ChargeIInv, ChargeInv, Activated

\* A payment is PAID, and a form has activated the plan, only if the bank took
\* money: no report is mistaken for a confirmation.
THEOREM PaidOnlyWhenChargedAlways == Spec => []PaidOnlyWhenCharged
  BY ChargesKept, ChargesPaid, PTL

--------------------------------------------------------------------------------
(* Each report of a confirmation activates once.                           *)

ReportsOf(f) == (IF Event("tbank", f, "CONFIRMED") \in events THEN 1 ELSE 0)
              + (IF Event("sync", f, "CONFIRMED") \in events THEN 1 ELSE 0)

LEMMA OneActivationStep ==
    IInv /\ OneActivationPerReport /\ [Next]_vars => OneActivationPerReport'
<1> SUFFICES ASSUME IInv, OneActivationPerReport, [Next]_vars, NEW g \in Forms
             PROVE  activated'[g] <= ReportsOf(g)'
  BY DEF OneActivationPerReport, ReportsOf
<1>0. /\ activated[g] \in Nat /\ activated[g] <= ReportsOf(g)
      /\ events \subseteq events'
  BY Grows DEF OneActivationPerReport, ReportsOf, IInv, TypeOK
<1>1. ReportsOf(g) <= ReportsOf(g)' /\ ReportsOf(g) \in Nat /\ ReportsOf(g)' \in Nat
  BY <1>0 DEF ReportsOf
<1>2. CASE activated'[g] = activated[g]
  BY <1>0, <1>1, <1>2
<1>3. ASSUME NEW e \in EventKeys, NEW f \in RowForms, NEW new \in LocalStatus,
             Report(e, f, new), activated'[g] # activated[g]
      PROVE  activated'[g] <= ReportsOf(g)'
  <2>1. f = g /\ new = "paid" /\ e \notin events /\ events' = events \cup {e}
        /\ activated'[g] = activated[g] + 1
    BY <1>3, ReportLocal DEF settledVars
  <2>2. e \in {Event("tbank", g, "CONFIRMED"), Event("sync", g, "CONFIRMED")}
    BY <1>3, <2>1, ReportKeys
  <2>3. Event("tbank", g, "CONFIRMED") # Event("sync", g, "CONFIRMED")
    BY DEF Event
  <2>4. ReportsOf(g)' = ReportsOf(g) + 1
    BY <2>1, <2>2, <2>3 DEF ReportsOf
  <2> QED BY <1>0, <1>1, <2>1, <2>4
<1> QED
  BY <1>2, <1>3, StepKinds, OwnLocal
  DEF SettlingStep, Reports, ReportStep, OtherStep, settledVars, quietVars

\* However often a report is delivered, and whichever way it comes, it activates
\* the plan at most once.
THEOREM OneActivationPerReportAlways == Spec => []OneActivationPerReport
<1>1. Init => OneActivationPerReport
  BY DEF Init, OneActivationPerReport
<1> QED BY <1>1, FormsKept, OneActivationStep, PTL DEF Spec

--------------------------------------------------------------------------------
(* PaidAccess is implemented.                                              *)

ChargedForms == {f \in Forms : Charged(f)}
GrantedForms == {f \in Forms : Activated(f)}
AbsorbedForms ==
    {f \in Forms : /\ activated[f] = 0
                   /\ \E e \in events : e[2] = f /\ e[3] = "CONFIRMED"}

\* The bank charges one form at a time, and never while a report is handled.
LEMMA ChargeSteps ==
    ASSUME IInv, [Next]_vars
    PROVE  \/ UNCHANGED ChargedForms
           \/ /\ UNCHANGED <<events, activated>>
              /\ \E f \in Forms : f \notin ChargedForms /\ ChargedForms' = ChargedForms \cup {f}
<1>1. ASSUME UNCHANGED bank PROVE UNCHANGED ChargedForms
  BY <1>1 DEF ChargedForms, Charged
<1>2. ASSUME NEW g \in Forms, bank[g] = "none", Opens(g) PROVE UNCHANGED ChargedForms
  BY <1>2, OpenedForm DEF ChargedForms
<1>3. ASSUME NEW p \in Payments, Checkout(p) PROVE UNCHANGED ChargedForms
  <2>1. ASSUME NEW g \in Forms, CancelSupersededForm(p, g) PROVE UNCHANGED ChargedForms
    BY <2>1 DEF CancelSupersededForm, IInv, TypeOK, ChargedForms, Charged
  <2>2. step[p] = "reserved" => <<p, 1>> \in Forms /\ bank[<<p, 1>>] = "none"
    BY FirstForms DEF IInv, FormInv, FormOK, BeforeInit
  <2>3. \/ UNCHANGED bank
        \/ step[p] = "reserved" /\ Opens(<<p, 1>>)
        \/ \E g \in Forms : CancelSupersededForm(p, g)
    BY <1>3 DEF Checkout, CheckReuse, CreateRow, ReservePromo, ReservePromoFails,
       ReservePromotionFails, InitOk, HandOut, InitFails, ReleaseAfterInitFailure,
       SupersedeOthers, ProbeSuperseded, FinishCheckout, Crash, bankVars
  <2> QED BY <1>1, <1>2, <2>1, <2>2, <2>3
<1>4. ASSUME NEW g \in Forms, Repeated(g) PROVE UNCHANGED ChargedForms
  <2>1. UNCHANGED bank \/ (g \in resubmitted /\ Opens(g))
    BY <1>4 DEF Repeated, Resubmit, ResubmitInitOk, ResubmitInitFails, HandOut, bankVars
  <2>2. g \in resubmitted => bank[g] = "none"
    BY DEF IInv, FormInv, FormOK
  <2> QED BY <1>1, <1>2, <2>1, <2>2
<1>5. ASSUME NEW g \in Forms, Bank(g)
      PROVE  \/ UNCHANGED ChargedForms
             \/ /\ UNCHANGED <<events, activated>>
                /\ \E f \in Forms : f \notin ChargedForms /\ ChargedForms' = ChargedForms \cup {f}
  <2>1. PICK s \in Unsuccessful \cup {"CONFIRMED"} :
          /\ BankMoves(g, s)
          /\ s = "REFUNDED" <=> bank[g] = "CONFIRMED"
          /\ bank[g] # "REFUNDED"
    BY <1>5 DEF Bank, PayerConfirms, PayerDeclined, FormExpires, BankRefunds, Unsuccessful
  <2>2. UNCHANGED <<events, activated>> /\ bank' = [bank EXCEPT ![g] = s]
    BY <2>1 DEF BankMoves
  <2>3. bank'[g] = s /\ \A f \in Forms \ {g} : bank'[f] = bank[f]
    BY <2>2 DEF IInv, TypeOK
  <2>4. CASE s = "CONFIRMED"
    <3>1. g \notin ChargedForms /\ ChargedForms' = ChargedForms \cup {g}
      BY <2>1, <2>3, <2>4 DEF ChargedForms, Charged
    <3> QED BY <2>2, <3>1
  <2>5. CASE s # "CONFIRMED"
    BY <2>1, <2>3, <2>5 DEF ChargedForms, Charged
  <2> QED BY <2>4, <2>5
<1>6. ASSUME NEW p \in Payments, Settle(p) PROVE UNCHANGED bank
  BY <1>6 DEF Settle, Sync, ReconcileList, ReconcileAsks, ReconcileApply, bankVars
<1>7. ASSUME NEW n \in notes, Notification(n) \/ NotificationReplyLost(n) PROVE UNCHANGED bank
  BY <1>7 DEF Notification, NotificationReplyLost, bankVars
<1> QED BY <1>1, <1>3, <1>4, <1>5, <1>6, <1>7 DEF Next, vars

\* A handled confirmation grants, is absorbed, or changes nothing of either.
LEMMA AnswerSteps ==
    ASSUME ChargeIInv, [Next]_vars, UNCHANGED ChargedForms
    PROVE  \/ UNCHANGED <<GrantedForms, AbsorbedForms>>
           \/ \E f \in Forms :
                 \/ /\ f \in ChargedForms \ GrantedForms
                    /\ GrantedForms' = GrantedForms \cup {f}
                    /\ AbsorbedForms' = AbsorbedForms \ {f}
                 \/ /\ f \in ChargedForms \ (GrantedForms \cup AbsorbedForms)
                    /\ \E g \in GrantedForms : g[1] = f[1]
                    /\ AbsorbedForms' = AbsorbedForms \cup {f}
                    /\ UNCHANGED GrantedForms
<1>0. \A f \in Forms : activated[f] \in Nat
  BY DEF ChargeIInv, IInv, TypeOK
<1>1. UNCHANGED <<events, activated>> => UNCHANGED <<GrantedForms, AbsorbedForms>>
  BY DEF GrantedForms, AbsorbedForms, Activated
<1>2. ASSUME NEW e \in EventKeys, NEW f \in RowForms, NEW new \in LocalStatus,
             Report(e, f, new), events' = events \cup {e}
      PROVE  \/ UNCHANGED <<GrantedForms, AbsorbedForms>>
             \/ \E g \in Forms :
                   \/ /\ g \in ChargedForms \ GrantedForms
                      /\ GrantedForms' = GrantedForms \cup {g}
                      /\ AbsorbedForms' = AbsorbedForms \ {g}
                   \/ /\ g \in ChargedForms \ (GrantedForms \cup AbsorbedForms)
                      /\ \E h \in GrantedForms : h[1] = g[1]
                      /\ AbsorbedForms' = AbsorbedForms \cup {g}
                      /\ UNCHANGED GrantedForms
  <2>1. CASE new # "paid"
    <3>1. UNCHANGED activated /\ e[3] # "CONFIRMED"
      BY <1>2, <2>1, ReportLocal, ReportKeys DEF settledVars, ChargeIInv
    <3> QED BY <1>2, <3>1 DEF GrantedForms, AbsorbedForms, Activated
  <2>2. CASE new = "paid" /\ UNCHANGED activated /\ status[f[1]] = "paid"
    <3>1. f \in Forms /\ f \in ChargedForms /\ e[2] = f /\ e[3] = "CONFIRMED"
      BY <1>2, <2>2, ReportKeys DEF ChargedForms
    <3>2. \E h \in GrantedForms : h[1] = f[1]
      BY <2>2, <3>1, FormsAreRows DEF ChargeIInv, ChargeInv, GrantedForms
    <3>3. UNCHANGED GrantedForms
      BY <2>2 DEF GrantedForms, Activated
    <3>4. AbsorbedForms' = AbsorbedForms \cup (IF activated[f] = 0 THEN {f} ELSE {})
      BY <1>2, <2>2, <3>1 DEF AbsorbedForms
    <3>5. CASE f \in GrantedForms \cup AbsorbedForms
      <4>1. UNCHANGED AbsorbedForms
        BY <1>0, <3>1, <3>4, <3>5 DEF GrantedForms, AbsorbedForms, Activated
      <4> QED BY <3>3, <4>1
    <3>6. CASE f \notin GrantedForms \cup AbsorbedForms
      <4>1. AbsorbedForms' = AbsorbedForms \cup {f}
        BY <1>0, <3>1, <3>4, <3>6 DEF GrantedForms, Activated
      <4> QED BY <3>1, <3>2, <3>3, <3>6, <4>1
    <3> QED BY <3>5, <3>6
  <2>3. CASE new = "paid" /\ activated'[f] = activated[f] + 1
    <3>1. f \in Forms /\ f \in ChargedForms /\ e[2] = f
      BY <1>2, <2>3, ReportKeys DEF ChargedForms
    <3>2. \A g \in Forms \ {f} : activated'[g] = activated[g]
      BY <1>2, ReportLocal DEF ChargeIInv
    <3>3. GrantedForms' = GrantedForms \cup {f}
      BY <1>0, <2>3, <3>1, <3>2 DEF GrantedForms, Activated
    <3>4. AbsorbedForms' = AbsorbedForms \ {f}
      BY <1>0, <1>2, <2>3, <3>1, <3>2 DEF AbsorbedForms
    <3>5. CASE f \in GrantedForms
      <4>1. f \notin AbsorbedForms
        BY <1>0, <3>1, <3>5 DEF GrantedForms, AbsorbedForms, Activated
      <4> QED BY <3>3, <3>4, <3>5, <4>1
    <3>6. CASE f \notin GrantedForms
      BY <3>1, <3>3, <3>4, <3>6
    <3> QED BY <3>5, <3>6
  <2>4. \/ UNCHANGED <<GrantedForms, AbsorbedForms>>
        \/ new # "paid"
        \/ new = "paid" /\ UNCHANGED activated /\ status[f[1]] = "paid"
        \/ new = "paid" /\ activated'[f] = activated[f] + 1
    BY <1>1, <1>2, ReportLocal, FailedAreLocal DEF ChargeIInv, settledVars
  <2> QED BY <2>1, <2>2, <2>3, <2>4
<1>3. ASSUME NEW e \in EventKeys, NEW f \in RowForms, NEW new \in LocalStatus,
             Report(e, f, new)
      PROVE  events' = events \cup {e} \/ UNCHANGED <<events, activated>>
  BY <1>3, ReportLocal DEF ChargeIInv, settledVars
<1> QED
  BY <1>1, <1>2, <1>3, StepKinds, OwnLocal
  DEF ChargeIInv, SettlingStep, Reports, ReportStep, OtherStep, settledVars, quietVars

LEMMA PromiseStep == ChargeIInv /\ [Next]_vars => [Promise!Next]_(Promise!vars)
<1> SUFFICES ASSUME ChargeIInv, [Next]_vars PROVE [Promise!Next]_(Promise!vars)
  OBVIOUS
<1>1. IInv
  BY DEF ChargeIInv
<1>2. CASE UNCHANGED <<ChargedForms, GrantedForms, AbsorbedForms>>
  BY <1>2 DEF Promise!vars, ChargedForms, GrantedForms, AbsorbedForms, Activated
<1>3. ASSUME NEW f \in Forms, f \notin ChargedForms, ChargedForms' = ChargedForms \cup {f},
             UNCHANGED <<events, activated>>
      PROVE  Promise!Next
  <2>1. UNCHANGED <<GrantedForms, AbsorbedForms>>
    BY <1>3 DEF GrantedForms, AbsorbedForms, Activated
  <2>2. Promise!Charge(f)
    BY <1>3, <2>1 DEF Promise!Charge, ChargedForms, GrantedForms, AbsorbedForms, Activated
  <2> QED BY <2>2 DEF Promise!Next
<1>4. ASSUME NEW f \in Forms, UNCHANGED ChargedForms,
             f \in ChargedForms \ GrantedForms,
             GrantedForms' = GrantedForms \cup {f}, AbsorbedForms' = AbsorbedForms \ {f}
      PROVE  Promise!Next
  <2>1. Promise!Grant(f)
    BY <1>4 DEF Promise!Grant, ChargedForms, GrantedForms, AbsorbedForms, Activated
  <2> QED BY <2>1 DEF Promise!Next, Promise!Answer
<1>5. ASSUME NEW f \in Forms, UNCHANGED <<ChargedForms, GrantedForms>>,
             f \in ChargedForms \ (GrantedForms \cup AbsorbedForms),
             \E g \in GrantedForms : g[1] = f[1],
             AbsorbedForms' = AbsorbedForms \cup {f}
      PROVE  Promise!Next
  <2>1. \E g \in GrantedForms : [h \in Forms |-> h[1]][g] = [h \in Forms |-> h[1]][f]
    BY <1>5 DEF GrantedForms
  <2>2. Promise!Absorb(f)
    BY <1>5, <2>1 DEF Promise!Absorb, ChargedForms, GrantedForms, AbsorbedForms, Activated
  <2> QED BY <2>2 DEF Promise!Next, Promise!Answer
<1>6. CASE UNCHANGED ChargedForms
  BY <1>2, <1>4, <1>5, <1>6, AnswerSteps
<1> QED BY <1>1, <1>3, <1>6, ChargeSteps

\* Only charges grant access, access once granted is not taken back, and a
\* charge is absorbed only beside a granted one of the same payment.
THEOREM ImplementsPaidAccess == Spec => Promise!SafeSpec
<1>1. Init => Promise!Init
  BY DEF Init, Promise!Init, Charged
<1> QED BY <1>1, ChargesKept, PromiseStep, PTL DEF Spec, Promise!SafeSpec

--------------------------------------------------------------------------------
(* A second activation needs a reversal.                                   *)

Revoked(p) == RevokingEvents(p) # {}

\* A repeated request has opened a form.  Unlike Resubmitted, this stays true.
SecondForm(p) == \E f \in Forms : f[1] = p /\ f[2] > 1 /\ bank[f] # "none"

Excused(p) == Revoked(p) \/ (SecondForm(p) /\ OwnRequestFailed(p))

LEMMA SecondIsResubmitted == \A p \in Payments : SecondForm(p) => Resubmitted(p)
<1> SUFFICES ASSUME NEW p \in Payments, NEW f \in Forms, f[1] = p, f[2] > 1, bank[f] # "none"
             PROVE  Resubmitted(p)
  BY DEF SecondForm
<1>1. f = <<p, f[2]>> /\ f[2] \in 2 .. Submits
  BY SettlementAssumption DEF Forms
<1>2. bank[<<p, f[2]>>] # "none"
  BY <1>1
<1> QED BY <1>1, <1>2 DEF Resubmitted

\* Two different forms of a row are not both form 1.
LEMMA OtherFormIsSecond ==
    \A f, g \in Forms : f[1] = g[1] /\ f # g /\ bank[f] # "none" /\ bank[g] # "none" =>
                           SecondForm(f[1])
<1> SUFFICES ASSUME NEW f \in Forms, NEW g \in Forms, f[1] = g[1], f # g,
                    bank[f] # "none", bank[g] # "none"
             PROVE  SecondForm(f[1])
  OBVIOUS
<1>1. f[2] # g[2] /\ f[2] \in 1 .. Submits /\ g[2] \in 1 .. Submits
  BY SameForm, FormsAreRows
<1>2. f[2] > 1 \/ g[2] > 1
  BY <1>1, SettlementAssumption
<1> QED BY <1>2 DEF SecondForm

\* While the row's own request has not reached the bank, only a second form can
\* have been charged.
LEMMA EarlyCharge ==
    ASSUME IInv, NEW f \in Forms, Charged(f),
           step[f[1]] \in BeforeInit \cup {"releasing", "failed", "unreleased"}
    PROVE  SecondForm(f[1])
<1>1. f[2] # 1 /\ bank[f] # "none"
  BY DEF IInv, FormInv, FormOK
<1>2. f[2] > 1
  BY <1>1, FormsAreRows, SettlementAssumption
<1> QED BY <1>1, <1>2 DEF SecondForm

LEMMA ExcusesKept ==
    ASSUME IInv, [Next]_vars, NEW p \in Payments
    PROVE  /\ Revoked(p) => Revoked(p)'
           /\ SecondForm(p) => SecondForm(p)'
           /\ Excused(p) => Excused(p)'
<1>1. Revoked(p) => Revoked(p)'
  BY Grows DEF Revoked, RevokingEvents
<1>2. SecondForm(p) => SecondForm(p)'
  BY Grows DEF SecondForm
<1> QED BY <1>1, <1>2, Grows DEF Excused

\* One activation per payment, and the payment PAID, or there is an excuse.
RepeatInv ==
    \A p \in Payments :
        \/ Excused(p)
        \/ \A f \in Forms : f[1] = p => ~ Activated(f)
        \/ /\ status[p] = "paid"
           /\ \E f \in Forms : /\ f[1] = p /\ activated[f] = 1
                               /\ \A g \in Forms : g[1] = p /\ g # f => ~ Activated(g)

LEMMA InitRepeats == Init => RepeatInv
<1> SUFFICES ASSUME Init PROVE RepeatInv
  OBVIOUS
<1>1. \A f \in Forms : ~ Activated(f)
  BY DEF Init, Activated
<1> QED BY <1>1 DEF RepeatInv

LEMMA StepRepeats == ChargeIInv /\ RepeatInv /\ [Next]_vars => RepeatInv'
<1> SUFFICES ASSUME ChargeIInv, RepeatInv, [Next]_vars PROVE RepeatInv'
  OBVIOUS
<1> USE DEF ChargeIInv
<1>0. \A p \in Payments : Excused(p) => Excused(p)'
  BY ExcusesKept
<1>1. CASE UNCHANGED <<status, activated>>
  BY <1>0, <1>1 DEF RepeatInv, Activated
<1>2. ASSUME NEW e \in EventKeys, NEW f \in RowForms, NEW new \in LocalStatus,
             Report(e, f, new)
      PROVE  RepeatInv'
  <2>0. \A q \in Payments \ {f[1]} : /\ status'[q] = status[q]
                                    /\ \A g \in Forms : g[1] = q => activated'[g] = activated[g]
    BY <1>2, ReportLocal
  <2>1. CASE UNCHANGED <<status, activated>>
    BY <1>1, <2>1
  <2>2. CASE new # "paid" /\ events' = events \cup {e}
    <3>1. e[3] # "CONFIRMED" /\ e[2][1] = f[1]
      BY <1>2, <2>2, ReportKeys
    <3>2. Excused(f[1])'
      BY <2>2, <3>1 DEF Excused, Revoked, RevokingEvents
    <3> QED BY <1>0, <2>0, <3>2 DEF RepeatInv, Activated
  <2>3. CASE /\ new = "paid" /\ status[f[1]] # "paid" /\ status'[f[1]] = "paid"
             /\ activated'[f] = activated[f] + 1
    <3>1. f \in Forms /\ \A g \in Forms \ {f} : activated'[g] = activated[g]
      BY <1>2, <2>3, ReportKeys, ReportLocal
    <3>2. CASE Excused(f[1])
      BY <1>0, <2>0, <3>2 DEF RepeatInv, Activated
    <3>3. CASE \A g \in Forms : g[1] = f[1] => ~ Activated(g)
      <4>1. activated'[f] = 1
        BY <2>3, <3>1, <3>3 DEF Activated, IInv, TypeOK
      <4>2. \A g \in Forms : g[1] = f[1] /\ g # f => ~ Activated(g)'
        BY <3>1, <3>3 DEF Activated
      <4> QED BY <1>0, <2>0, <2>3, <3>1, <4>1, <4>2 DEF RepeatInv, Activated
    <3> QED BY <2>3, <3>1, <3>2, <3>3, FormsAreRows DEF RepeatInv
  <2> QED BY <1>2, <2>1, <2>2, <2>3, ReportLocal, FailedAreLocal DEF settledVars
<1>3. ASSUME NEW p \in Payments, OwnStep(p) PROVE RepeatInv'
  <2>1. /\ UNCHANGED activated
        /\ \A q \in Payments \ {p} : status'[q] = status[q]
    BY <1>3, OwnLocal
  <2>2. CASE status'[p] = status[p]
    BY <1>0, <2>1, <2>2 DEF RepeatInv, Activated
  <2>3. CASE \A f \in Forms : f[1] = p => ~ Activated(f)
    BY <1>0, <2>1, <2>3 DEF RepeatInv, Activated
  <2>4. ASSUME NEW f \in Forms, f[1] = p, Activated(f), status'[p] # status[p]
        PROVE  Excused(p)'
    <3>1. Charged(f)
      BY <2>4 DEF ChargeInv
    <3>2. step[p] # "checked"
      BY <2>4, <3>1 DEF IInv, FormInv, FormOK, Charged
    <3>3. step[p] \in BeforeInit /\ OwnRequestFailed(p)'
      BY <1>3, <2>4, <3>2, OwnLocal DEF BeforeInit, OwnRequestFailed
    <3>4. SecondForm(p)'
      BY <2>4, <3>1, <3>3, EarlyCharge, ExcusesKept
    <3> QED BY <3>3, <3>4 DEF Excused
  <2>5. CASE Excused(p)'
    BY <1>0, <2>1, <2>5 DEF RepeatInv, Activated
  <2> QED BY <2>2, <2>3, <2>4, <2>5
<1> QED
  BY <1>1, <1>2, <1>3, StepKinds
  DEF SettlingStep, Reports, ReportStep, OtherStep, settledVars, quietVars

LEMMA RepeatsExcused == IInv /\ RepeatInv => RepeatOnlyAfterReversal
<1> SUFFICES ASSUME IInv, RepeatInv, NEW p \in Payments, ActivatedTwice(p),
                    RevokingEvents(p) = {}
             PROVE  Resubmitted(p) /\ OwnRequestFailed(p)
  BY DEF RepeatOnlyAfterReversal
<1>1. PICK k \in 1 .. Submits, l \in 1 .. Submits :
        /\ activated[<<p, k>>] > 0
        /\ k = l => activated[<<p, k>>] > 1
        /\ k # l => activated[<<p, l>>] > 0
  BY DEF ActivatedTwice
<1>2. <<p, k>> \in Forms /\ <<p, l>> \in Forms /\ (k # l => <<p, k>> # <<p, l>>)
  BY DEF Forms
<1> DEFINE f == <<p, k>>
           g == <<p, l>>
<1>3. /\ f \in Forms /\ f[1] = p /\ g \in Forms /\ g[1] = p
      /\ activated[f] > 0
      /\ f = g => activated[f] > 1
      /\ f # g => activated[g] > 0
  BY <1>1, <1>2
<1> HIDE DEF f, g
<1>4. Excused(p)
  BY <1>3 DEF RepeatInv, Activated
<1> QED BY <1>4, SecondIsResubmitted DEF Excused, Revoked

\* The plan is activated once more for the same payment only after a processed
\* report that it was declined, closed or paid back; a payment posted again also
\* after its first request has failed.
THEOREM RepeatNeedsReversal == Spec => []RepeatOnlyAfterReversal
<1>1. Init => RepeatInv
  BY InitRepeats
<1>2. ChargeIInv => IInv
  BY DEF ChargeIInv
<1> QED BY <1>1, <1>2, ChargesKept, StepRepeats, RepeatsExcused, PTL DEF Spec

--------------------------------------------------------------------------------
(* What undoes PAID.                                                       *)

\* A report that is not of a confirmation, about a row that is PAID.
LEMMA UndoingReport ==
    ASSUME ChargeIInv, [Next]_vars, NEW e \in EventKeys, NEW f \in RowForms,
           NEW new \in LocalStatus, Report(e, f, new),
           status[f[1]] = "paid", status'[f[1]] # "paid"
    PROVE  \/ \E k \in 1 .. Submits : bank'[<<f[1], k>>] = "REFUNDED"
           \/ \E x \in events' \ events : x[2][1] = f[1] /\ x[3] = "AUTH_FAIL"
           \/ Resubmitted(f[1]) /\ events' # events
<1> USE DEF ChargeIInv
<1>1. /\ f[1] \in Payments /\ new # "paid"
      /\ e \notin events /\ events' = events \cup {e} /\ e[2][1] = f[1]
  BY ReportLocal, FailedAreLocal, ReportKeys DEF settledVars
<1>2. events' # events
  BY <1>1
<1>3. PICK g \in Forms : g[1] = f[1] /\ Charged(g)
  BY <1>1 DEF ChargeInv
<1>4. SecondForm(f[1]) => Resubmitted(f[1])
  BY <1>1, SecondIsResubmitted
<1>5. ASSUME f \in Forms, bank'[f] = "REFUNDED"
      PROVE  \E k \in 1 .. Submits : bank'[<<f[1], k>>] = "REFUNDED"
  <2>1. f = <<f[1], f[2]>> /\ f[2] \in 1 .. Submits
    BY <1>5 DEF Forms
  <2>2. bank'[<<f[1], f[2]>>] = "REFUNDED"
    BY <1>5, <2>1
  <2> QED BY <2>1, <2>2
<1>6. ASSUME f \in Forms, ~ Charged(f), bank[f] # "none" PROVE Resubmitted(f[1])
  <2>1. f # g /\ bank[g] # "none"
    BY <1>3, <1>6 DEF Charged
  <2> QED BY <1>3, <1>4, <1>6, <2>1, OtherFormIsSecond
<1>7. CASE f \in Forms /\ e[3] \in Unsuccessful /\ UNCHANGED bank
           /\ (bank[f] = e[3] \/ (e[3] = "AUTH_FAIL" /\ Charged(f)))
  <2>1. CASE e[3] = "AUTH_FAIL"
    BY <1>1, <2>1
  <2>2. CASE bank[f] = e[3] /\ e[3] = "REFUNDED"
    BY <1>5, <1>7, <2>2
  <2>3. CASE bank[f] = e[3] /\ e[3] \in {"DEADLINE_EXPIRED", "CANCELED"}
    <3>1. ~ Charged(f) /\ bank[f] # "none"
      BY <2>3 DEF Charged
    <3> QED BY <1>2, <1>6, <1>7, <3>1
  <2> QED BY <1>7, <2>1, <2>2, <2>3 DEF Unsuccessful
<1>8. CASE f \in Forms /\ bank[f] = "NEW"
  <2>1. ~ Charged(f) /\ bank[f] # "none"
    BY <1>8 DEF Charged
  <2> QED BY <1>2, <1>6, <1>8, <2>1
<1>9. CASE f \in Forms /\ bank'[f] = "REFUNDED"
  BY <1>5, <1>9
<1>10. CASE reading[f[1]] = <<0, "LISTED">>
  <2>1. g \in payable
    BY <1>3 DEF IInv, FormInv, FormOK
  <2>2. g[2] # 1 /\ bank[g] # "none"
    BY <1>3, <1>10, <2>1 DEF IInv, ReportInv, Charged
  <2>3. SecondForm(f[1])
    BY <1>3, <2>2, FormsAreRows, SettlementAssumption DEF SecondForm
  <2> QED BY <1>2, <1>4, <2>3
<1> QED BY <1>1, <1>7, <1>8, <1>9, <1>10 DEF Report

LEMMA UndoingOwnStep ==
    ASSUME ChargeIInv, [Next]_vars, NEW p \in Payments, OwnStep(p),
           status[p] = "paid", status'[p] # "paid"
    PROVE  Resubmitted(p) /\ step'[p] # step[p] /\ OwnRequestFailed(p)'
<1> USE DEF ChargeIInv
<1>1. step[p] # "checked"
  BY DEF IInv, FormInv
<1>2. step[p] \in BeforeInit /\ step'[p] # step[p] /\ OwnRequestFailed(p)'
  BY <1>1, OwnLocal DEF BeforeInit, OwnRequestFailed
<1>3. PICK g \in Forms : g[1] = p /\ Charged(g)
  BY DEF ChargeInv
<1> QED BY <1>2, <1>3, EarlyCharge, SecondIsResubmitted

PaidLost ==
    \A p \in Payments :
        status[p] = "paid" /\ status'[p] # "paid" =>
            \/ \E k \in 1 .. Submits : bank'[<<p, k>>] = "REFUNDED"
            \/ \E e \in events' \ events : e[2][1] = p /\ e[3] = "AUTH_FAIL"
            \/ /\ Resubmitted(p)
               /\ \/ events' # events
                  \/ step'[p] # step[p] /\ OwnRequestFailed(p)'

LEMMA PaidLostStep == ChargeIInv /\ [Next]_vars => PaidLost
<1> SUFFICES ASSUME ChargeIInv, [Next]_vars, NEW p \in Payments,
                    status[p] = "paid", status'[p] # "paid"
             PROVE  \/ \E k \in 1 .. Submits : bank'[<<p, k>>] = "REFUNDED"
                    \/ \E e \in events' \ events : e[2][1] = p /\ e[3] = "AUTH_FAIL"
                    \/ /\ Resubmitted(p)
                       /\ \/ events' # events
                          \/ step'[p] # step[p] /\ OwnRequestFailed(p)'
  BY DEF PaidLost
<1> USE DEF ChargeIInv
<1>1. ASSUME NEW e \in EventKeys, NEW f \in RowForms, NEW new \in LocalStatus,
             Report(e, f, new)
      PROVE  f[1] = p
  BY <1>1, ReportLocal
<1>2. ASSUME NEW q \in Payments, OwnStep(q) PROVE q = p
  BY <1>2, OwnLocal
<1>3. ReportStep \/ \E q \in Payments : OwnStep(q)
  BY StepKinds DEF SettlingStep, Reports, OtherStep, settledVars, quietVars
<1> QED BY <1>1, <1>2, <1>3, UndoingReport, UndoingOwnStep DEF ReportStep

\* A payment stops being PAID only when money of it went back, by a report of a
\* declined attempt processed for the first time, or, posted again, by a report
\* about its other form or the failure of its first request.
THEOREM PaidIsKept == Spec => PaidLostOnlyOnRefund
  BY ChargesKept, PaidLostStep, PTL DEF Spec, PaidLostOnlyOnRefund, PaidLost

--------------------------------------------------------------------------------
(* The promo code follows the payment.                                     *)

\* Where create_payment stands, what the code's usage and the row's status are.
\* Nothing is said of a row for which a second form was opened.
CodeOK(p) ==
    /\ step[p] \in {"idle", "checked", "created"} => promo[p] = "none"
    /\ step[p] = "reserved" => promo[p] = "reserved"
    /\ step[p] \in {"created", "reserved"} => status[p] = "pending"
    /\ status[p] = "paid" => promo[p] = "applied" \/ Revoked(p)
    /\ status[p] \in Failed /\ promo[p] = "reserved" =>
          step[p] \in {"releasing", "dead", "unreleased"}
    /\ <<p, 1>> \in payable => promo[p] \in {"reserved", "applied"} \/ Revoked(p)

CodeInv == \A p \in PromoPayments : SecondForm(p) \/ CodeOK(p)

LEMMA InitCodes == Init => CodeInv
  BY SettlementAssumption DEF Init, CodeInv, CodeOK, Failed

\* A report about a row with one form: the form has been handed out, unless it
\* is closed or was never opened.
LEMMA ReportedLate ==
    ASSUME IInv, NEW e \in EventKeys, NEW f \in RowForms, NEW new \in LocalStatus,
           Report(e, f, new), ~ SecondForm(f[1])
    PROVE  /\ step[f[1]] \notin BeforeInit
           /\ new = "paid" => <<f[1], 1>> \in payable
<1>0. f[1] \in Payments
  BY DEF RowForms
<1>1. ASSUME f \in Forms, bank[f] # "none" PROVE step[f[1]] \notin BeforeInit /\ f[2] = 1
  <2>1. f[2] = 1
    BY <1>1, FormsAreRows, SettlementAssumption DEF SecondForm
  <2> QED BY <1>1, <2>1 DEF IInv, FormInv, FormOK
<1>2. reading[f[1]] = <<0, "LISTED">> => step[f[1]] \notin BeforeInit
  BY <1>0, NotListed DEF IInv, ReportInv, Ended, BeforeInit
<1>3. step[f[1]] \notin BeforeInit
  BY <1>1, <1>2 DEF Report, Charged, Unsuccessful
<1>4. ASSUME new = "paid" PROVE <<f[1], 1>> \in payable
  <2>1. f \in Forms /\ Charged(f)
    BY <1>4, ReportKeys
  <2>2. f[2] = 1 /\ f \in payable
    BY <1>1, <2>1 DEF Charged, IInv, FormInv, FormOK
  <2>3. f = <<f[1], 1>>
    BY <2>1, <2>2 DEF Forms
  <2> QED BY <2>2, <2>3
<1> QED BY <1>3, <1>4

LEMMA StepCodes == IInv /\ ChargeInv /\ CodeInv /\ [Next]_vars => CodeInv'
<1> SUFFICES ASSUME IInv, ChargeInv, CodeInv, [Next]_vars, NEW p \in PromoPayments,
                    ~ SecondForm(p)'
             PROVE  CodeOK(p)'
  BY DEF CodeInv
<1>0. /\ p \in Payments /\ <<p, 1>> \in Forms
      /\ ~ SecondForm(p) /\ CodeOK(p) /\ (Revoked(p) => Revoked(p)')
  BY SettlementAssumption, FirstForms, ExcusesKept DEF CodeInv
<1>1. ASSUME UNCHANGED <<status, promo, step, payable>> PROVE CodeOK(p)'
  BY <1>0, <1>1 DEF CodeOK
<1>2. ASSUME OtherStep PROVE CodeOK(p)'
  <2>1. UNCHANGED <<status, promo>> /\ Moved(p)
    BY <1>0, <1>2 DEF OtherStep, quietVars
  <2>2. <<p, 1>> \in payable' => <<p, 1>> \in payable \/ step[p] = "reserved"
    BY <1>0, <1>2 DEF OtherStep
  <2> QED BY <1>0, <2>1, <2>2 DEF CodeOK, Moved, Ended
<1>3. ASSUME NEW e \in EventKeys, NEW f \in RowForms, NEW new \in LocalStatus,
             Report(e, f, new), UNCHANGED <<step, payable>>
      PROVE  CodeOK(p)'
  <2>1. CASE f[1] # p \/ UNCHANGED settledVars \/ UNCHANGED <<status, promo>>
    <3>1. status'[p] = status[p] /\ promo'[p] = promo[p]
      BY <1>0, <1>3, <2>1, ReportLocal DEF settledVars
    <3> QED BY <1>0, <1>3, <3>1 DEF CodeOK
  <2>2. CASE f[1] = p /\ new = "paid" /\ status'[p] = "paid"
             /\ promo'[p] = IF promo[p] = "reserved" THEN "applied" ELSE promo[p]
    <3>1. step[p] \notin BeforeInit /\ <<p, 1>> \in payable
      BY <1>0, <1>3, <2>2, ReportedLate
    <3> QED BY <1>0, <1>3, <2>2, <3>1 DEF CodeOK, BeforeInit, Failed
  <2>3. CASE f[1] = p /\ new \in Failed /\ status'[p] = new /\ events' = events \cup {e}
             /\ promo'[p] = IF promo[p] = "reserved" THEN "released" ELSE promo[p]
    <3>1. step[p] \notin BeforeInit
      BY <1>0, <1>3, <2>3, ReportedLate
    <3>2. Revoked(p)'
      BY <1>3, <2>3, ReportKeys, FailedAreLocal DEF Revoked, RevokingEvents
    <3> QED BY <1>3, <2>3, <3>1, <3>2 DEF CodeOK, BeforeInit, Failed
  <2> QED BY <1>3, <2>1, <2>2, <2>3, ReportLocal
<1>4. ASSUME NEW q \in Payments, OwnStep(q) PROVE CodeOK(p)'
  <2>1. CASE q # p
    BY <1>0, <1>4, <2>1, OwnLocal DEF CodeOK
  <2>2. CASE q = p
    <3>1. step[p] \in {"created", "reserved", "releasing"} => <<p, 1>> \notin payable
      BY <1>0 DEF IInv, FormInv, FormOK, BeforeInit
    <3>2. step[p] = "checked" => <<p, 1>> \notin payable
      BY <1>0 DEF IInv, FormInv, FormOK, BeforeInit
    <3>3. step[p] \in BeforeInit \cup {"releasing"} => status[p] # "paid"
      BY <1>0, EarlyCharge DEF ChargeInv
    <3> QED BY <1>0, <1>4, <2>2, <3>1, <3>2, <3>3, OwnLocal DEF CodeOK, Failed, BeforeInit
  <2> QED BY <2>1, <2>2
<1> QED
  BY <1>1, <1>2, <1>3, <1>4, StepKinds
  DEF SettlingStep, Reports, ReportStep, settledVars

LEMMA CodesFollow == CodeInv => PromoFollowsPayment
<1> SUFFICES ASSUME CodeInv, NEW p \in PromoPayments, step[p] \in Ended, ~ Resubmitted(p)
             PROVE  /\ status[p] = "paid" => promo[p] = "applied" \/ RevokingEvents(p) # {}
                    /\ status[p] \in {"failed", "cancelled", "refunded"} =>
                          promo[p] # "reserved" \/ step[p] \in {"dead", "unreleased"}
  BY DEF PromoFollowsPayment
<1>1. CodeOK(p)
  BY SecondIsResubmitted, SettlementAssumption DEF CodeInv
<1> QED BY <1>1 DEF CodeOK, Ended, Failed, Revoked

\* When a checkout that was posted once is over, a PAID payment has its promo
\* code counted unless a report of failure released it before, and a failed one
\* holds no reservation unless its request died or had no promotion to reserve.
THEOREM CodeFollowsMoney == Spec => []PromoFollowsPayment
<1>1. ChargeIInv => IInv /\ ChargeInv
  BY DEF ChargeIInv
<1> QED BY <1>1, ChargesKept, InitCodes, StepCodes, CodesFollow, PTL DEF Spec

================================================================================
