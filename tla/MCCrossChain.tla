----------------------------- MODULE MCCrossChain -----------------------------
(* Small instances of CrossChain for TLC.                                  *)
EXTENDS CrossChain

CONSTANTS t1, t2

Cast(cs, ps, ws, kinds) ==
  [creators |-> cs, pollers |-> ps, wallets |-> ws, terms |-> kinds,
   prices |-> {2},
   direct |-> FALSE, requotes |-> 0, stops |-> 0]

Alone == Cast({t1}, {}, {}, {"free", "basic", "public"})

\* One tab asks, for every kind of quote, and its buyer pays in ZEC as well;
\* the invoice is priced again meanwhile; two tabs ask at once; two tabs pay at
\* once; one tab follows what the others have done.
Scenes ==
  { [Alone EXCEPT !.direct = TRUE, !.stops = 1],
    [Alone EXCEPT !.terms = {"basic"}, !.prices = {1, 2}, !.requotes = 1],
    [Cast({t1, t2}, {}, {}, {"basic"}) EXCEPT !.stops = 1],
    Cast({}, {}, {t1, t2}, {"public"}),
    [Cast({}, {t1}, {}, {"public"}) EXCEPT !.direct = TRUE] }
=============================================================================
