----------------------------- MODULE MCOutlets -----------------------------
(* Instances of Outlets for TLC: invoices share no state, so one is enough. *)
EXTENDS Outlets

CONSTANT t1
=============================================================================
