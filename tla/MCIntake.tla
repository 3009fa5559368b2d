------------------------------ MODULE MCIntake ------------------------------
(* Instances of Intake for TLC: one invoice, posted more than once.         *)
EXTENDS Intake

CONSTANTS t1, t2, vendor, number

MCInvoice ==
    [t \in TrackingIds |->
        [vendor |-> vendor, number |-> number, total |-> [value |-> 10, scale |-> 0]]]
MCRoutes == {"auto_approve", "human_review"}
=============================================================================
