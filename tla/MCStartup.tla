----------------------------- MODULE MCStartup -----------------------------
(* A small instance of Startup for TLC.                                    *)
EXTENDS Startup

CONSTANTS m1, m2
=============================================================================
