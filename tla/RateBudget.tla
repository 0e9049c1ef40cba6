----------------------------- MODULE RateBudget -----------------------------
(***************************************************************************)
(* What the limiter promises a client: a credit that starts full, grows    *)
(* with time up to the burst, and pays for every request admitted.  A      *)
(* request is refused only when the credit cannot pay for it.              *)
(***************************************************************************)
EXTENDS Integers

CONSTANTS Clients, Full, Cost, Rate

VARIABLES credit, verdict

AtMost(a, b) == IF a <= b THEN a ELSE b

Init ==
    /\ credit = [k \in Clients |-> Full]
    /\ verdict = [k \in Clients |-> "none"]

Tick ==
    /\ credit' = [k \in Clients |-> AtMost(Full, credit[k] + Rate)]
    /\ UNCHANGED verdict

Admit(k) ==
    /\ credit[k] >= Cost
    /\ credit' = [credit EXCEPT ![k] = @ - Cost]
    /\ verdict' = [verdict EXCEPT ![k] = "admitted"]

Refuse(k) ==
    /\ credit[k] < Cost
    /\ verdict' = [verdict EXCEPT ![k] = "refused"]
    /\ UNCHANGED credit

Next == Tick \/ \E k \in Clients : Admit(k) \/ Refuse(k)

Spec == Init /\ [][Next]_<<credit, verdict>>
==============================================================================
