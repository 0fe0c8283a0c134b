---------------------------- MODULE MCLessonBilling ----------------------------
(* Two lessons of one account, overlapping requests and one payment.       *)
EXTENDS LessonBilling

FirstTwo == 1 .. 2
OnlyOne  == 1 .. 1
=============================================================================
