----------------------------- MODULE MCFrontend -----------------------------
(* Instances of Frontend for TLC: one email, of a demo account that anybody *)
(* may also register while it has not been seeded.                          *)
EXTENDS Frontend

CONSTANTS admin, p1, p2

MCDemoUsers == [e \in {admin} |-> [password |-> p1, role |-> Admin]]
\* Two registrations, and one of each other request, for an identity and window.
MCLimit == [kind \in Throttled |-> IF kind = "register" THEN 2 ELSE 1]
=============================================================================
