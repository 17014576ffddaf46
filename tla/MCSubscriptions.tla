--------------------------- MODULE MCSubscriptions ---------------------------
(* Small instances of Subscriptions for TLC.  A tick is a day, and so is     *)
(* everything that takes minutes.                                          *)
EXTENDS Subscriptions
=============================================================================
