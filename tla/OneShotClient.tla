--------------------------- MODULE OneShotClient ---------------------------
(***************************************************************************)
(* The life of a producer or a consumer as the README promises it: "one-   *)
(* shot". A client is started at most once, works until it is asked to     *)
(* stop, and never works again after that; a start that fails ends it too. *)
(***************************************************************************)
VARIABLE phase   \* "new", "starting", "working", "stopping" or "over"

Init == phase = "new"

Start == phase = "new" /\ phase' = "starting"
Started == phase = "starting" /\ phase' = "working"
Stop == phase = "working" /\ phase' = "stopping"
\* A start or a stop that fails at once ends the client as well.
Over == phase \in {"starting", "working", "stopping"} /\ phase' = "over"

Next == Start \/ Started \/ Stop \/ Over

Spec == Init /\ [][Next]_phase
=============================================================================
