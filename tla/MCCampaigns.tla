---------------------------- MODULE MCCampaigns ----------------------------
(* Small instances of Campaigns for TLC.                                   *)
EXTENDS Campaigns, TLC

CONSTANTS c1, c2, x1, x2, i1

\* One transaction pays the first campaign, the other one both.
TwoTxs == (x1 :> (c1 :> 1 @@ c2 :> 0)) @@ (x2 :> (c1 :> 2 @@ c2 :> 1))

Cast(ws, is, old, made, es, fs) ==
  [workers |-> ws, invs |-> is, old |-> old, made |-> made,
   edits |-> es, faults |-> fs]

\* The three workers meet; a worker is interrupted; the dashboard works while
\* blocks are scanned; a campaign is made while blocks are scanned; campaigns
\* and an invoice are made at the same time.
Scenes ==
  { Cast(Workers, {i1}, {c1}, {}, 0, 0),
    Cast({"push", "block"}, {i1}, {c1, c2}, {}, 0, 0),
    Cast({"poll", "block"}, {i1}, {c1}, {}, 0, 2),
    Cast({"block"}, {i1}, {c1}, {}, 2, 0),
    Cast({"block"}, {}, {c1}, {c2}, 0, 1),
    Cast({}, {i1}, {}, {c1, c2}, 1, 1) }
=============================================================================
