----------------------------- MODULE SwarmTurnMC -----------------------------
(***************************************************************************)
(* The two views of a turn in the server, side by side: the tables and     *)
(* threads of SwarmServer, for which a turn sends frames and ends, and one *)
(* Agent's turn step by step, AgentTurn.  The initial state picks one, and *)
(* only its threads move.                                                  *)
(***************************************************************************)
EXTENDS SwarmServerMC, AgentTurn

VARIABLE view

Views ==
    /\ view \in {"tables", "turn"}
    /\ Init /\ AgentInit
    /\ view = "tables" => provider \* of the one that does not move

TablesMove == view = "tables" /\ Next /\ UNCHANGED <<view, agentVars>>
TurnMoves == view = "turn" /\ AgentNext /\ UNCHANGED <<view, vars>>

\* Fairness is owed by the threads that are looked at.
SideBySide ==
    /\ Views /\ [][TablesMove \/ TurnMoves]_<<view, vars, agentVars>>
    /\ view = "tables" => Fairness
    /\ view = "turn" => AgentFairness
=============================================================================
