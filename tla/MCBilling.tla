------------------------------ MODULE MCBilling ------------------------------
(* Two owners who may start checkouts at once, two sessions.                  *)
EXTENDS Billing

\* What follows a claim that lost its session is not explored
Tight == ~loose
=============================================================================
