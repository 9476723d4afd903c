------------------------------- MODULE Dataflow -------------------------------
(***************************************************************************)
(* What executing a plan promises: every step runs at most once, only when *)
(* the steps it needs have ended, and succeeds only if they all did.       *)
(* Nothing is said of waves, threads or the order of independent steps.    *)
(***************************************************************************)
VARIABLES
    needs,    \* the steps every step of the plan needs
    status    \* of every step of the plan: idle, running, ok or bad

vars == <<needs, status>>

Init ==
    /\ \A s \in DOMAIN needs : needs[s] \subseteq DOMAIN needs
    /\ status = [s \in DOMAIN needs |-> "idle"]

Met(s) == \A d \in needs[s] : status[d] = "ok"
Doomed(s) == /\ \A d \in needs[s] : status[d] \in {"ok", "bad"}
             /\ \E d \in needs[s] : status[d] = "bad"

Run(s) ==
    /\ status[s] = "idle"
    /\ Met(s)
    /\ status' = [status EXCEPT ![s] = "running"]
    /\ UNCHANGED needs

End(s) ==
    /\ status[s] = "running"
    /\ \E r \in {"ok", "bad"} : status' = [status EXCEPT ![s] = r]
    /\ UNCHANGED needs

Skip(s) ==
    /\ status[s] = "idle"
    /\ Doomed(s)
    /\ status' = [status EXCEPT ![s] = "bad"]
    /\ UNCHANGED needs

Next == \E s \in DOMAIN status : Run(s) \/ End(s) \/ Skip(s)

Spec == Init /\ [][Next]_vars
=============================================================================
