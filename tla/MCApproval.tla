----------------------------- MODULE MCApproval -----------------------------
(* Instances of Approval for TLC.                                           *)
EXTENDS Approval

CONSTANTS t1, t2

\* Both invoices are escalated; Decision, run again for t1, once chose otherwise.
MCEvents == {[tid |-> t1, route |-> "human_review"],
             [tid |-> t1, route |-> "auto_approve"],
             [tid |-> t2, route |-> "human_review"]}
=============================================================================
