----------------------------- MODULE MCAutoRenewal -----------------------------
(* One period that is renewed, with two paid plans.                        *)
EXTENDS AutoRenewal

OnlyFirst == 1 .. 1
================================================================================
