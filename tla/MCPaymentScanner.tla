-------------------------- MODULE MCPaymentScanner --------------------------
(* Small instances of PaymentScanner for TLC.                              *)
EXTENDS PaymentScanner, TLC

CONSTANTS i1, i2, t1, t2

\* Two equal payments of one invoice, neither enough alone.
TwoHalves == (t1 :> i1 @@ t2 :> i1)
TwoHalvesAmount == (t1 :> 500 @@ t2 :> 500)

Either == Permutations({t1, t2})

\* What the steps and the properties of that run look at: the history that no
\* guard reads, and that they do not speak of, is left out.
Effective ==
  <<swapVars, dbVars, chainVars, seen, last, pc, workVars, recheckVars, target,
    born, reorged>>

\* One payment that covers the lower price, and the higher one within slippage.
OneFull == (t1 :> i1)
OneFullAmount == (t1 :> 997)

\* One payment that covers the lower price, and not the higher one.
OneMidAmount == (t1 :> 600)

\* The least that covers a price of 1000.
OneBareAmount == (t1 :> 995)
=============================================================================
