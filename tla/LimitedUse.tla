------------------------------ MODULE LimitedUse -------------------------------
(***************************************************************************)
(* What a limited offer promises.  Every payment may hold one place, give  *)
(* it back or use it up; held and used places together never exceed the    *)
(* limit of the offer, nor the limit of one teacher.                       *)
(***************************************************************************)
EXTENDS Integers, FiniteSets

CONSTANTS
    Payments,       \* the payments that may take a place
    Teacher,        \* whose payment each one is
    Limit,          \* places in all
    TeacherLimit    \* places of one teacher

VARIABLE place      \* per payment: "free", "held" or "used"

Taken == {p \in Payments : place[p] # "free"}

TakenBy(t) == {p \in Taken : Teacher[p] = t}

Init == place = [p \in Payments |-> "free"]

\* A place is held, or used at once when nothing has to be paid.
Take(p, as) ==
    /\ place[p] = "free"
    /\ Cardinality(Taken) < Limit
    /\ Cardinality(TakenBy(Teacher[p])) < TeacherLimit
    /\ place' = [place EXCEPT ![p] = as]

Use(p) ==
    /\ place[p] = "held"
    /\ place' = [place EXCEPT ![p] = "used"]

GiveBack(p) ==
    /\ place[p] = "held"
    /\ place' = [place EXCEPT ![p] = "free"]

Next ==
    \E p \in Payments :
        \/ \E as \in {"held", "used"} : Take(p, as)
        \/ Use(p)
        \/ GiveBack(p)

Spec == Init /\ [][Next]_place
================================================================================
