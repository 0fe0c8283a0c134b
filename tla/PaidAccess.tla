------------------------------ MODULE PaidAccess ------------------------------
(***************************************************************************)
(* What the payment pipeline promises, with no webhook, retry or table in  *)
(* sight.  The bank charges; a charge grants the access its payment stands *)
(* for, and nothing else does.  A payment may be charged more than once    *)
(* when its form was opened more than once: it grants for one charge, and  *)
(* a further charge may be absorbed, that is, be kept without granting     *)
(* anything more.  PaymentSettlement implements it.                        *)
(***************************************************************************)
CONSTANTS
    Charges,    \* the bank payments that may be charged
    PaymentOf   \* the payment each of them belongs to

VARIABLES
    charged,    \* charges the bank has made
    granted,    \* charges that have opened the access they pay for
    absorbed    \* charges of a payment that had been granted for another one

vars == <<charged, granted, absorbed>>

Init ==
    /\ charged = {}
    /\ granted = {}
    /\ absorbed = {}

Charge(c) ==
    /\ c \notin charged
    /\ charged' = charged \cup {c}
    /\ UNCHANGED <<granted, absorbed>>

Grant(c) ==
    /\ c \in charged \ granted
    /\ granted' = granted \cup {c}
    /\ absorbed' = absorbed \ {c}
    /\ UNCHANGED charged

\* The payment is charged a second time: the money stays, nothing is granted.
Absorb(c) ==
    /\ c \in charged \ (granted \cup absorbed)
    /\ \E d \in granted : PaymentOf[d] = PaymentOf[c]
    /\ absorbed' = absorbed \cup {c}
    /\ UNCHANGED <<charged, granted>>

Answer(c) == Grant(c) \/ Absorb(c)

Next == \E c \in Charges : Charge(c) \/ Answer(c)

SafeSpec == Init /\ [][Next]_vars

\* Every charge is answered: by the access it paid for or, for a payment that
\* has its access already, by nothing.
Answered == \A c \in Charges : c \in charged ~> c \in granted \cup absorbed

Spec == SafeSpec /\ Answered
===============================================================================
