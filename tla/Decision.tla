------------------------------ MODULE Decision ------------------------------
(***************************************************************************)
(* What PaymentService promises of the decision on declared payments: a    *)
(* call may only begin to decide on a payment while that payment is        *)
(* undecided, every verdict is that of a call that so began, and a verdict *)
(* is never taken back, only replaced by that of a call that began in      *)
(* time.  Offering implements it.                                          *)
(***************************************************************************)

CONSTANTS Payments, Callers

VARIABLES
    verdict,   \* "none" while there is no payment, then "SUBMITTED", then a verdict
    open       \* the calls that are deciding on each payment

vars == <<verdict, open>>

Verdicts == {"CONFIRMED", "REJECTED"}

Init ==
    /\ verdict = [p \in Payments |-> "none"]
    /\ open = [p \in Payments |-> {}]

Submit(p) ==
    /\ verdict[p] = "none"
    /\ verdict' = [verdict EXCEPT ![p] = "SUBMITTED"]
    /\ UNCHANGED open

Join(p, c) ==
    /\ verdict[p] = "SUBMITTED"
    /\ \A q \in Payments : c \notin open[q]
    /\ open' = [open EXCEPT ![p] = @ \cup {c}]
    /\ UNCHANGED verdict

\* Refused, or its write is lost.
Leave(p, c) ==
    /\ c \in open[p]
    /\ open' = [open EXCEPT ![p] = @ \ {c}]
    /\ UNCHANGED verdict

Decide(p, c) ==
    /\ c \in open[p]
    /\ \E v \in Verdicts : verdict' = [verdict EXCEPT ![p] = v]
    /\ open' = [open EXCEPT ![p] = @ \ {c}]

Next ==
    \E p \in Payments :
        \/ Submit(p)
        \/ \E c \in Callers : Join(p, c) \/ Leave(p, c) \/ Decide(p, c)

Spec == Init /\ [][Next]_vars
=============================================================================
