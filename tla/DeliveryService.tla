-------------------------- MODULE DeliveryService --------------------------
(***************************************************************************)
(* What a push consumer promises about the batches it delivers, whatever   *)
(* threads carry them: the application is asked about the messages of a    *)
(* batch one after the other and answers each once; the batch counts as    *)
(* consumed only if every answer is yes, and otherwise is returned for     *)
(* redelivery.  One message at a time is about to be put to the            *)
(* application.  After the service closes the application is asked nothing *)
(* new but the message that was about to be put to it then; once it has    *)
(* stopped no batch is open and none is opened again.                      *)
(***************************************************************************)
EXTENDS Naturals

CONSTANTS Calls, BatchSize

VARIABLES
    door,     \* "open", "closed", or "stopped"
    status,   \* per call: "new", "open", "success" or "later"
    answer    \* per call and message: "none", "due", "asked", "yes" or "no"

vars == <<door, status, answer>>
Positions == 1..BatchSize

Init ==
    /\ door = "open"
    /\ status = [c \in Calls |-> "new"]
    /\ answer = [c \in Calls |-> [i \in Positions |-> "none"]]

Close == door = "open" /\ door' = "closed" /\ UNCHANGED <<status, answer>>

Stop ==
    /\ door # "stopped" /\ \A c \in Calls : status[c] # "open"
    /\ door' = "stopped" /\ UNCHANGED <<status, answer>>

Open(c) ==
    /\ door # "stopped" /\ status[c] = "new"
    /\ status' = [status EXCEPT ![c] = "open"]
    /\ UNCHANGED <<door, answer>>

\* A message's turn comes after the ones before it were accepted, and only while the
\* service is open; its batch may have been returned in the meantime.
ComeDue(c, i) ==
    /\ door = "open" /\ status[c] # "new" /\ answer[c][i] = "none"
    /\ \A j \in 1..(i - 1) : answer[c][j] = "yes"
    /\ \A d \in Calls, j \in Positions : answer[d][j] # "due"
    /\ answer' = [answer EXCEPT ![c][i] = "due"]
    /\ UNCHANGED <<door, status>>

\* Whoever closes the service does not wait for this.
Ask(c, i) ==
    /\ answer[c][i] = "due"
    /\ answer' = [answer EXCEPT ![c][i] = "asked"]
    /\ UNCHANGED <<door, status>>

Answer(c, i, a) ==
    /\ answer[c][i] = "asked" \/ (answer[c][i] \in {"none", "due"} /\ a = "no")
    /\ answer' = [answer EXCEPT ![c][i] = a]
    /\ UNCHANGED <<door, status>>

Consume(c) ==
    /\ status[c] = "open" /\ \A i \in Positions : answer[c][i] = "yes"
    /\ status' = [status EXCEPT ![c] = "success"]
    /\ UNCHANGED <<door, answer>>

Return(c) ==
    /\ status[c] = "open" /\ status' = [status EXCEPT ![c] = "later"]
    /\ UNCHANGED <<door, answer>>

Next ==
    \/ Close \/ Stop
    \/ \E c \in Calls :
         \/ Open(c) \/ Consume(c) \/ Return(c)
         \/ \E i \in Positions :
              ComeDue(c, i) \/ Ask(c, i) \/ \E a \in {"yes", "no"} : Answer(c, i, a)

Spec == Init /\ [][Next]_vars
=============================================================================
