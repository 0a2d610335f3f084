---------------------------- MODULE SendService ----------------------------
(***************************************************************************)
(* What a producer promises about the sends it admits, whatever threads    *)
(* carry them: a send is admitted only while the service is open; the      *)
(* service closes for good, and only when no admitted send is still        *)
(* pending, each having been settled or given up; the caller is told at    *)
(* most one outcome per send, and "result" only for a send that was not    *)
(* given up when that was decided. The decision and the telling are two    *)
(* steps, with room for GiveUp between them, but for one send at a time.   *)
(***************************************************************************)
CONSTANT Sends

VARIABLES
    door,     \* "shut" before the start, then "open", "closing", "closed"
    status,   \* per send: "new", "pending", "settled" or "cancelled"
    outcome   \* per send: what the caller was told: "none", "result", "error";
              \* "decided" while it is about to be told "result"

vars == <<door, status, outcome>>

Init ==
    /\ door = "shut"
    /\ status = [s \in Sends |-> "new"]
    /\ outcome = [s \in Sends |-> "none"]

Open == door = "shut" /\ door' = "open" /\ UNCHANGED <<status, outcome>>

BeginClose == door = "open" /\ door' = "closing" /\ UNCHANGED <<status, outcome>>

Close ==
    /\ door # "closed" /\ \A s \in Sends : status[s] # "pending"
    /\ door' = "closed" /\ UNCHANGED <<status, outcome>>

Admit(s) ==
    /\ door = "open" /\ status[s] = "new"
    /\ status' = [status EXCEPT ![s] = "pending"]
    /\ UNCHANGED <<door, outcome>>

\* The service decides to report the result of s, which it has not given up.
Decide(s) ==
    /\ status[s] = "pending" /\ outcome[s] = "none"
    /\ \A z \in Sends : outcome[z] # "decided"
    /\ outcome' = [outcome EXCEPT ![s] = "decided"]
    /\ UNCHANGED <<door, status>>

\* The caller learns the outcome of s, for the first and only time.
Tell(s, what) ==
    /\ status[s] # "new"
    /\ outcome[s] = IF what = "result" THEN "decided" ELSE "none"
    /\ outcome' = [outcome EXCEPT ![s] = what]
    /\ UNCHANGED <<door, status>>

\* The service stops accounting for s, with or without an error to the caller.
Settle(s) ==
    /\ status[s] \in {"pending", "cancelled"}
    /\ status' = [status EXCEPT ![s] = "settled"]
    /\ \/ UNCHANGED outcome
       \/ outcome[s] = "none" /\ outcome' = [outcome EXCEPT ![s] = "error"]
    /\ UNCHANGED door

\* A service that is closing may give up on everything that is pending.
GiveUp ==
    /\ door = "closing"
    /\ status' = [s \in Sends |-> IF status[s] = "pending" THEN "cancelled" ELSE status[s]]
    /\ UNCHANGED <<door, outcome>>

Next ==
    \/ Open \/ BeginClose \/ Close \/ GiveUp
    \/ \E s \in Sends : \/ Admit(s) \/ Settle(s) \/ Decide(s)
                        \/ Tell(s, "result") \/ Tell(s, "error")

Spec == Init /\ [][Next]_vars
=============================================================================
