------------------------------ MODULE MCBilling ------------------------------
(* Small instances of Billing for TLC.  A tick is a week.                  *)
EXTENDS Billing, TLC

CONSTANTS p1, p2

\* The first fee is worth a settlement, until half of it is paid directly; the
\* second is not.
TwoFees == (p1 :> 2 @@ p2 :> 1)
OneDirect == (p1 :> 1 @@ p2 :> 0)

Weeks == [t \in Tiers |-> IF t = "trusted" THEN 2 ELSE 1]
=============================================================================
