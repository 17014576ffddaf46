------------------------------ MODULE MCOutbox ------------------------------
(* Small instances of Outbox for TLC.                                      *)
EXTENDS Outbox, TLC

CONSTANTS i1, i2, m1, m2, h1, h2, w1, w2

Own == (i1 :> m1 @@ i2 :> m2)

Scene(invs, urls, page, calls, mails, workers, edits, moves, faults) ==
  [invoices |-> invs, page |-> page, calls |-> calls,
   optedIn |-> mails, workers |-> workers,
   url |-> [m \in Merchants |-> IF m \in urls THEN h1 ELSE None],
   left |-> [mail |-> edits, url |-> moves, faults |-> faults]]

\* Two shops of one host, whose requests fail, and a page that holds one of
\* them or both; a shop that moves to another host; one with events of its own,
\* retried by hand; a shop that wants mail, with two mail workers, or with one
\* while it edits its settings.
Scenes == {Scene({i1, i2}, {m1, m2}, 1, {}, {}, {}, 0, 0, 1),
           Scene({i1, i2}, {m1, m2}, 2, {}, {}, {}, 0, 0, 1),
           Scene({i1}, {m1}, 1, {}, {}, {}, 0, 1, 0),
           Scene({i1}, {m1}, 1, Emitters \cup Clicks, {}, {}, 0, 0, 0),
           Scene({i1}, {}, 1, {}, {m1}, {w1, w2}, 0, 0, 2),
           Scene({i1}, {}, 1, {}, {m1}, {w1}, 2, 0, 1)}

Twice == [n \in 1..2 |-> 1]
Thrice == [n \in 1..3 |-> 1]
InOrder == (m1 :> 1 @@ m2 :> 2)
Minute == [h \in Hosts |-> 1]
=============================================================================
