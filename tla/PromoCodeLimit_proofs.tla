-------------------------- MODULE PromoCodeLimit_proofs --------------------------
(***************************************************************************)
(* PromoCodeLimit for any payments, teachers, limits and faults: types,    *)
(* and that uses_count is the number of applied usages.                    *)
(***************************************************************************)
EXTENDS PromoCodeLimit, FiniteSetTheorems, TLAPS

\* Records of what a step may leave alone: all but the usages and the counter.
Counts == <<usage, confirming, usesCount>>

Applied == UsagesIn({"applied"})

LEMMA AppliedIsFinite == IsFiniteSet(Applied) /\ Cardinality(Applied) \in Nat
<1>1. Applied \in SUBSET Payments
  BY DEF Applied, UsagesIn
<1>2. IsFiniteSet(Applied)
  BY <1>1, FS_Subset, PromoCodeAssumption
<1> QED BY <1>2, FS_CardinalityType

LEMMA InitHolds == Init => CountInv
<1> SUFFICES ASSUME Init PROVE CountInv
  OBVIOUS
<1>1. TypeOK
  BY DEF Init, TypeOK, Steps, NotConfirming
<1>2. UsesCounted
  <2>1. UsagesIn({"applied"}) = {}
    BY DEF Init, UsagesIn
  <2> QED BY <2>1, FS_EmptySet DEF Init, UsesCounted
<1>3. ConfirmationHoldsCode /\ NotYetUsed
  BY DEF Init, ConfirmationHoldsCode, NotYetUsed, NotConfirming
<1> QED BY <1>1, <1>2, <1>3 DEF CountInv

LEMMA StepTypes == TypeOK /\ [Next]_vars => TypeOK'
<1> SUFFICES ASSUME TypeOK, [Next]_vars PROVE TypeOK'
  OBVIOUS
<1>1. ASSUME NEW p \in Payments, Request(p) PROVE TypeOK'
  <2>1. CASE CreateRow(p) \/ ReadCode(p) \/ CountReserved(p) \/ CountOwn(p)
    BY <2>1 DEF TypeOK, Steps, CreateRow, ReadCode, CountReserved, CountOwn
  <2>2. CASE Refuse(p) \/ Reserve(p) \/ OpenForm(p) \/ Resubmit(p)
    BY <2>2 DEF TypeOK, Steps, Refuse, Reserve, OpenForm, Resubmit
  <2>3. CASE FormFails(p) \/ Release(p) \/ Crash(p)
    BY <2>3 DEF TypeOK, Steps, FormFails, Release, Released, Crash
  <2> QED BY <1>1, <2>1, <2>2, <2>3 DEF Request
<1>2. ASSUME NEW p \in Payments, Settlement(p) PROVE TypeOK'
  <2>1. CASE ConfirmRead(p)
    BY <2>1 DEF TypeOK, ConfirmRead
  <2>2. CASE ConfirmCommit(p)
    <3>1. confirming[p] + 1 \in Nat
      BY <2>2 DEF TypeOK, ConfirmCommit
    <3> QED BY <2>2, <3>1 DEF TypeOK, ConfirmCommit
  <2>3. CASE ConfirmAborts(p) \/ PaidWithoutUsage(p)
    BY <2>3 DEF TypeOK, ConfirmAborts, PaidWithoutUsage
  <2>4. CASE SettleUnsuccessful(p)
    BY <2>4 DEF TypeOK, SettleUnsuccessful, Released
  <2> QED BY <1>2, <2>1, <2>2, <2>3, <2>4 DEF Settlement
<1>3. CASE UNCHANGED vars
  BY <1>3 DEF TypeOK, vars
<1> QED BY <1>1, <1>2, <1>3 DEF Next

(* What a step does to the usages.                                         *)

\* A reserved usage is created or let go of: the applied ones stay.
LEMMA ReservationsAreNotApplied ==
    ASSUME TypeOK, NEW p \in Payments, usage[p] \in {"none", "reserved"},
           NEW s \in {"none", "reserved", "cancelled"},
           usage' = [usage EXCEPT ![p] = s]
    PROVE  Applied' = Applied
  BY DEF Applied, UsagesIn, TypeOK

LEMMA OneMoreApplied ==
    ASSUME TypeOK, NEW p \in Payments, usage[p] = "reserved",
           usage' = [usage EXCEPT ![p] = "applied"]
    PROVE  Cardinality(Applied') = Cardinality(Applied) + 1
<1>1. Applied' = Applied \cup {p} /\ p \notin Applied
  BY DEF Applied, UsagesIn, TypeOK
<1> QED BY <1>1, AppliedIsFinite, FS_AddElement

\* Letting go touches a reserved usage only.
LEMMA ReleasedKeepsApplied ==
    ASSUME TypeOK, NEW p \in Payments,
           usage' = [usage EXCEPT ![p] = Released(p)]
    PROVE  /\ Applied' = Applied
           /\ \A q \in Payments \ {p} : usage'[q] = usage[q]
           /\ usage[p] = "none" => usage'[p] = "none"
  BY DEF Applied, UsagesIn, Released, TypeOK

LEMMA StepUses == CountInv /\ [Next]_vars => UsesCounted'
<1> SUFFICES ASSUME CountInv, [Next]_vars PROVE UsesCounted'
  OBVIOUS
<1> USE DEF CountInv
<1>1. ASSUME usesCount' = usesCount, Applied' = Applied PROVE UsesCounted'
  BY <1>1 DEF UsesCounted, Applied
<1>2. ASSUME usesCount' = usesCount, usage' = usage PROVE UsesCounted'
  BY <1>1, <1>2 DEF Applied, UsagesIn
<1>3. ASSUME NEW p \in Payments, Request(p) PROVE UsesCounted'
  <2>1. CASE Reserve(p)
    <3>1. Applied' = Applied
      BY <2>1, ReservationsAreNotApplied DEF Reserve, NotYetUsed
    <3> QED BY <1>1, <2>1, <3>1 DEF Reserve
  <2>2. CASE Release(p)
    BY <1>1, <2>2, ReleasedKeepsApplied DEF Release
  <2>3. CASE ~Reserve(p) /\ ~Release(p)
    BY <1>2, <1>3, <2>3
    DEF Request, CreateRow, ReadCode, CountReserved, CountOwn, Refuse, OpenForm,
        Resubmit, FormFails, Crash
  <2> QED BY <2>1, <2>2, <2>3
<1>4. ASSUME NEW p \in Payments, Settlement(p) PROVE UsesCounted'
  <2>1. CASE ConfirmCommit(p)
    <3>1. usesCount' = usesCount + 1 /\ usage[p] = "reserved"
      BY <2>1 DEF ConfirmCommit, ConfirmationHoldsCode
    <3>2. Cardinality(Applied') = Cardinality(Applied) + 1
      BY <2>1, <3>1, OneMoreApplied DEF ConfirmCommit
    <3> QED BY <3>1, <3>2 DEF UsesCounted, Applied
  <2>2. CASE SettleUnsuccessful(p)
    BY <1>1, <2>2, ReleasedKeepsApplied DEF SettleUnsuccessful
  <2>3. CASE ConfirmRead(p) \/ ConfirmAborts(p) \/ PaidWithoutUsage(p)
    BY <1>2, <2>3 DEF ConfirmRead, ConfirmAborts, PaidWithoutUsage
  <2> QED BY <1>4, <2>1, <2>2, <2>3 DEF Settlement
<1>5. CASE UNCHANGED vars
  BY <1>2, <1>5 DEF vars
<1> QED BY <1>3, <1>4, <1>5 DEF Next

LEMMA StepConfirmation == CountInv /\ [Next]_vars => ConfirmationHoldsCode'
<1> SUFFICES ASSUME CountInv, [Next]_vars PROVE ConfirmationHoldsCode'
  OBVIOUS
<1> USE DEF CountInv, ConfirmationHoldsCode
<1>1. ASSUME UNCHANGED Counts PROVE ConfirmationHoldsCode'
  BY <1>1 DEF Counts
<1>2. ASSUME NEW p \in Payments, Request(p) PROVE ConfirmationHoldsCode'
  <2>1. CASE Reserve(p)
    BY <2>1 DEF Reserve, NotYetUsed, TypeOK
  <2>2. CASE Release(p)
    BY <2>2, ReleasedKeepsApplied DEF Release
  <2>3. CASE ~Reserve(p) /\ ~Release(p)
    BY <1>1, <1>2, <2>3
    DEF Counts, Request, CreateRow, ReadCode, CountReserved, CountOwn, Refuse, OpenForm,
        Resubmit, FormFails, Crash
  <2> QED BY <2>1, <2>2, <2>3
<1>3. ASSUME NEW p \in Payments, Settlement(p) PROVE ConfirmationHoldsCode'
  <2>1. CASE ConfirmRead(p)
    BY <2>1 DEF ConfirmRead, TypeOK
  <2>2. CASE ConfirmCommit(p) \/ ConfirmAborts(p)
    <3>1. \A q \in Payments : confirming'[q] = NotConfirming
      BY <2>2 DEF ConfirmCommit, ConfirmAborts, TypeOK
    <3> QED BY <3>1
  <2>3. CASE PaidWithoutUsage(p)
    BY <1>1, <2>3 DEF PaidWithoutUsage, Counts
  <2>4. CASE SettleUnsuccessful(p)
    BY <2>4, ReleasedKeepsApplied DEF SettleUnsuccessful
  <2> QED BY <1>3, <2>1, <2>2, <2>3, <2>4 DEF Settlement
<1>4. CASE UNCHANGED vars
  BY <1>1, <1>4 DEF vars, Counts
<1> QED BY <1>2, <1>3, <1>4 DEF Next

LEMMA StepFresh == CountInv /\ [Next]_vars => NotYetUsed'
<1> SUFFICES ASSUME CountInv, [Next]_vars PROVE NotYetUsed'
  OBVIOUS
<1> USE DEF CountInv, NotYetUsed
<1>1. ASSUME NEW p \in Payments, Request(p) PROVE NotYetUsed'
  <2>1. CASE CreateRow(p) \/ ReadCode(p) \/ CountReserved(p) \/ CountOwn(p)
    BY <2>1 DEF TypeOK, CreateRow, ReadCode, CountReserved, CountOwn
  <2>2. CASE Refuse(p) \/ Reserve(p) \/ OpenForm(p) \/ Resubmit(p)
    BY <2>2 DEF TypeOK, Refuse, Reserve, OpenForm, Resubmit
  <2>3. CASE FormFails(p) \/ Release(p) \/ Crash(p)
    BY <2>3 DEF TypeOK, FormFails, Release, Released, Crash
  <2> QED BY <1>1, <2>1, <2>2, <2>3 DEF Request
<1>2. ASSUME NEW p \in Payments, Settlement(p) PROVE NotYetUsed'
  <2>1. CASE ConfirmCommit(p)
    <3>1. usage[p] = "reserved"
      BY <2>1 DEF ConfirmCommit, ConfirmationHoldsCode
    <3> QED BY <2>1, <3>1 DEF ConfirmCommit, TypeOK
  <2>2. CASE SettleUnsuccessful(p)
    BY <2>2, ReleasedKeepsApplied DEF SettleUnsuccessful
  <2>3. CASE ConfirmRead(p) \/ ConfirmAborts(p) \/ PaidWithoutUsage(p)
    BY <2>3 DEF ConfirmRead, ConfirmAborts, PaidWithoutUsage
  <2> QED BY <1>2, <2>1, <2>2, <2>3 DEF Settlement
<1>3. CASE UNCHANGED vars
  BY <1>3 DEF vars
<1> QED BY <1>1, <1>2, <1>3 DEF Next

\* Every variable keeps its type, for any payments and limits.
THEOREM TypeCorrect == Spec => []TypeOK
<1>1. Init => TypeOK
  BY InitHolds DEF CountInv
<1> QED BY <1>1, StepTypes, PTL DEF Spec

\* One confirmation at a time has the code locked, and writes what it has read
\* plus one; this is what makes the count inductive.
THEOREM CountInvHolds == Spec => []CountInv
<1>1. CountInv /\ [Next]_vars => CountInv'
  BY StepTypes, StepUses, StepConfirmation, StepFresh DEF CountInv
<1> QED BY InitHolds, <1>1, PTL DEF Spec

\* uses_count is always the number of applied usages: confirm_for_payment loses
\* no increment and makes none twice.
THEOREM UsesAreCounted == Spec => []UsesCounted
<1>1. CountInv => UsesCounted
  BY DEF CountInv
<1> QED BY <1>1, CountInvHolds, PTL
==================================================================================
