------------------------------ MODULE PartsMC ------------------------------
(* The parts of an Agent and those of the client, one of them at work.       *)
EXTENDS ServerPartsMC, ClientPartsMC

VARIABLE side

\* Whose part is not at work has one initial state.
PartsInit ==
    /\ side \in {"server", "client"}
    /\ Init /\ ClientInit
    /\ side = "server" => clientPart = "editor" /\ height = CHOOSE h \in Heights : TRUE
    /\ side = "client" => part = "context"

ServerMoves == side = "server" /\ Next /\ UNCHANGED <<side, clientVars>>
ClientMoves == side = "client" /\ ClientNext /\ UNCHANGED <<side, vars>>

PartsSpec == PartsInit /\ [][ServerMoves \/ ClientMoves]_<<side, vars, clientVars>>
=============================================================================
