----------------------------- MODULE MCTickets -----------------------------
EXTENDS Tickets, TLC

CONSTANTS t1, t2, b1, b2, m1

\* A registration at Luma takes many steps, so that kind has no second quote
\* and one checkout call at a time; two edits let a plain product get a second
\* price and lose one.
KindsSeen == Kinds \cup {"importing"}
MCRequotes == [k \in KindsSeen |-> IF k \in {"luma", "importing"} THEN 0 ELSE 1]
MCEdits == [k \in KindsSeen |-> IF k = "plain" THEN 2 ELSE 1]
MCCallers == [k \in KindsSeen |-> IF k = "private" THEN {b1, b2} ELSE {b1}]
=============================================================================
