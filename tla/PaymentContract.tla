-------------------------- MODULE PaymentContract --------------------------
(***************************************************************************)
(* What the Payment service promises as long as no call fails, no process   *)
(* dies, no two deliveries of one tracking id overlap and no save() runs    *)
(* out of attempts: each payment either holds its amount once and then is   *)
(* paid, or gives it back and has failed, or is refused without touching    *)
(* the budget; and the outcome that is announced is the outcome reached     *)
(* (the state machine documented in src/services/payment/models.py, and the *)
(* saga of ADR-004).                                                        *)
(***************************************************************************)
EXTENDS Integers

CONSTANTS
    TrackingIds, Departments, Configured, Dept, Amount, Total,
    Approved   \* payments that a router or a human approved

VARIABLES
    phase,      \* where each payment stands
    balance,    \* what is left of each department's budget
    announced   \* outcomes other services were told

contractVars == <<phase, balance, announced>>

ContractInit ==
    /\ phase = [t \in TrackingIds |-> "new"]
    /\ balance = [d \in Departments |-> IF d \in Configured THEN Total[d] ELSE 0]
    /\ announced = {}

Move(t, from, to) ==
    /\ phase[t] = from
    /\ phase' = [phase EXCEPT ![t] = to]

Hold(t) ==
    /\ t \in Approved
    /\ Move(t, "new", "held")
    /\ Dept[t] \in Configured
    /\ balance[Dept[t]] >= Amount[t]
    /\ balance' = [balance EXCEPT ![Dept[t]] = @ - Amount[t]]
    /\ UNCHANGED announced

Refuse(t) ==
    /\ t \in Approved
    /\ Move(t, "new", "refused")
    /\ Dept[t] \notin Configured \/ balance[Dept[t]] < Amount[t]
    /\ UNCHANGED <<balance, announced>>

Pay(t) == Move(t, "held", "paid") /\ UNCHANGED <<balance, announced>>

GiveBack(t) ==
    /\ Move(t, "held", "released")
    /\ balance' = [balance EXCEPT ![Dept[t]] = @ + Amount[t]]
    /\ UNCHANGED announced

Close(t) ==
    /\ Move(t, "released", "failed") \/ Move(t, "refused", "failed")
    /\ UNCHANGED <<balance, announced>>

Announce(t) ==
    /\ \/ phase[t] = "paid" /\ announced' = announced \cup {[tid |-> t, resolution |-> "completed"]}
       \/ phase[t] = "failed" /\ announced' = announced \cup {[tid |-> t, resolution |-> "failed"]}
    /\ UNCHANGED <<phase, balance>>

ContractNext ==
    \E t \in TrackingIds :
        Hold(t) \/ Refuse(t) \/ Pay(t) \/ GiveBack(t) \/ Close(t) \/ Announce(t)

ContractSpec == ContractInit /\ [][ContractNext]_contractVars
=============================================================================
