--------------------------- MODULE MCAgentSessions ---------------------------
(* A small instance of AgentSessions for TLC. *)
EXTENDS AgentSessions

(* Of a budget of 8, any two of a failed turn, a denial and a failed       *)
(* statement; a failed turn with a missed heartbeat or a deletion; a       *)
(* deletion with a failure of its handler; a crash, a lapsed claim or a    *)
(* stop alone.                                                             *)
CostOfEight ==
  [k \in FaultKinds |->
     CASE k \in {"turn", "purge"} -> 3
       [] k \in {"sql", "denied"} -> 4
       [] k \in {"heartbeat", "delete"} -> 5
       [] OTHER -> 8]
=============================================================================
