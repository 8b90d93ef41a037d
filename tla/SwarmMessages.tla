---------------------------- MODULE SwarmMessages ----------------------------
(***************************************************************************)
(* Messages between the Agents of a swarm server: the tables that say who  *)
(* is there, the routing of a message to one, to a repository or to all    *)
(* (src/server/server.cpp), and the inbox of each Agent up to the prompt   *)
(* that carries it to the model (src/agent.cpp).                           *)
(*                                                                         *)
(* Targets are chosen under mu_, each delivery takes mu_ anew: between two *)
(* deliveries clients come and go, turns begin and end.  A client has two  *)
(* senders: its turn thread, which runs the msg tool one call after the    *)
(* other, and its handler, which routes what the user types.               *)
(***************************************************************************)
EXTENDS Integers, Sequences

CONSTANTS
    Clients,     \* bound: clients that say hello
    Repos,
    RepoOf,      \* where each client is started
    All, SameRepo, \* the words for every Agent and for those of one repository
    InboxCap,    \* 64
    MaxMessages, \* bound: messages sent
    Leavers,     \* bound: the clients that may leave
    Senders      \* bound: the clients that send

\* Client ids, by their order in the map.
Ids == 1 .. Clients

NamesFit ==
    /\ Clients \in Nat /\ RepoOf \in [Ids -> Repos]
    /\ All \notin Ids /\ SameRepo \notin Ids /\ All # SameRepo
    /\ InboxCap \in Nat /\ MaxMessages \in Nat

VARIABLES
    client,  \* clients_: id -> repo, for the registered
    members, \* repo_members_: repo -> sequence of ids
    slot,    \* agents_: id -> [busy, inbox, turn, told], `turn' being the messages in
             \* the prompt of the turn under way, `told' those in the history
    routing, \* <<id, thread>> -> [msg, targets]: route_message behind its first
             \* critical section
    left,    \* the ids that have left; ids are random and not used again
    sent     \* observation: messages so far

Threads == {"turn", "handler"}

messageVars == <<client, members, slot, routing, left, sent>>

\* The elements of s that are in keep, in their order.
Only(s, keep) ==
    LET kept[k \in 0 .. Len(s)] ==
            IF k = 0 THEN <<>>
            ELSE IF s[k] \in keep THEN Append(kept[k - 1], s[k]) ELSE kept[k - 1]
    IN  kept[Len(s)]

EmptyMap == [x \in {} |-> <<>>]
Without(f, x) == [y \in DOMAIN f \ {x} |-> f[y]]
With(f, x, v) == [y \in DOMAIN f \cup {x} |-> IF y = x THEN v ELSE f[y]]

TypeOK ==
    /\ DOMAIN client \subseteq Ids /\ \A i \in DOMAIN client : client[i] \in Repos
    /\ DOMAIN members \subseteq Repos /\ \A r \in DOMAIN members : members[r] \in Seq(Ids)
    /\ DOMAIN slot \subseteq Ids
    /\ \A i \in DOMAIN slot : slot[i].busy \in BOOLEAN /\ Len(slot[i].inbox) <= InboxCap
    /\ DOMAIN routing \subseteq Ids \X Threads /\ left \subseteq Ids
    /\ sent \in 0 .. MaxMessages

Init ==
    /\ client = EmptyMap /\ members = EmptyMap /\ slot = EmptyMap /\ routing = EmptyMap
    /\ left = {} /\ sent = 0

-----------------------------------------------------------------------------
(* The tables. *)

HelloRegister(i) ==
    /\ i \notin DOMAIN client \cup left
    /\ client' = With(client, i, RepoOf[i])
    /\ members' = With(members, RepoOf[i],
                       Append(IF RepoOf[i] \in DOMAIN members THEN members[RepoOf[i]] ELSE <<>>, i))
    /\ UNCHANGED <<slot, routing, left, sent>>

\* Behind hello_register: for a while there is a client without an Agent.
CreateAgentSlot(i) ==
    /\ i \in DOMAIN client \ DOMAIN slot
    /\ slot' = With(slot, i, [busy |-> FALSE, inbox |-> <<>>, turn |-> <<>>, told |-> <<>>])
    /\ UNCHANGED <<client, members, routing, left, sent>>

\* A bug: the members of the repository are forgotten.
RemoveClientOnly(i) ==
    /\ i \in DOMAIN client \cap DOMAIN slot /\ i \in Leavers
    /\ <<i, "handler">> \notin DOMAIN routing
    /\ client' = Without(client, i)
    /\ left' = left \cup {i}
    /\ slot' = IF slot[i].busy THEN slot ELSE Without(slot, i)
    /\ UNCHANGED <<members, routing, sent>>

\* remove_client_locked, by the handler: the Agent stays until its turn has ended.
RemoveClient(i) ==
    /\ i \in DOMAIN client \cap DOMAIN slot /\ i \in Leavers
    /\ <<i, "handler">> \notin DOMAIN routing
    /\ LET r == client[i]
           rest == Only(members[r], Ids \ {i})
       IN  members' = IF rest = <<>> THEN Without(members, r) ELSE [members EXCEPT ![r] = rest]
    /\ client' = Without(client, i)
    /\ left' = left \cup {i}
    /\ slot' = IF slot[i].busy THEN slot ELSE Without(slot, i)
    /\ UNCHANGED <<routing, sent>>

-----------------------------------------------------------------------------
(* Messages. *)

\* The clients of S in the order of the map.
InOrder(S) == Only([i \in Ids |-> i], S)

\* route_message, first half.  A sender that is gone sends nothing, an unknown
\* target is dropped without a word.
TargetsOf(from, to) ==
    CASE to = All  -> InOrder(DOMAIN client \ {from})
      [] to = SameRepo -> IF client[from] \in DOMAIN members
                          THEN Only(members[client[from]], Ids \ {from}) ELSE <<>>
      [] OTHER       -> IF to \in DOMAIN client \ {from} THEN <<to>> ELSE <<>>

SendMessage(from, thread) ==
    /\ from \in DOMAIN client \cap DOMAIN slot /\ from \in Senders
    /\ thread = "turn" => slot[from].busy
    /\ <<from, thread>> \notin DOMAIN routing
    /\ sent < MaxMessages
    /\ sent' = sent + 1
    /\ \E to \in {All, SameRepo} \cup (Ids \ {from}) :
          routing' = With(routing, <<from, thread>>,
              [msg |-> [from |-> from, thread |-> thread, n |-> sent + 1, to |-> to,
                        repo |-> client[from]],
               targets |-> TargetsOf(from, to)])
    /\ UNCHANGED <<client, members, slot, left>>

\* A bug: the cap is forgotten.
PushedWithoutCap(s, m) == [s EXCEPT !.inbox = Append(@, m)]

\* The handler of attach_swarm: a full inbox takes nothing more.
Pushed(s, m) ==
    IF Len(s.inbox) < InboxCap THEN [s EXCEPT !.inbox = Append(@, m)] ELSE s

\* deliver_inbox for the next target, which may have no Agent (yet, or any more).
DeliverInbox(sender) ==
    /\ sender \in DOMAIN routing /\ routing[sender].targets # <<>>
    /\ LET to == Head(routing[sender].targets)
       IN  slot' = IF to \in DOMAIN slot
                     THEN [slot EXCEPT ![to] = Pushed(@, routing[sender].msg)] ELSE slot
    /\ routing' = [routing EXCEPT ![sender].targets = Tail(@)]
    /\ UNCHANGED <<client, members, left, sent>>

RouteReturns(sender) ==
    /\ sender \in DOMAIN routing /\ routing[sender].targets = <<>>
    /\ routing' = Without(routing, sender)
    /\ UNCHANGED <<client, members, slot, left, sent>>

-----------------------------------------------------------------------------
(* Turns. *)

\* A bug: drained, but not emptied.
StartTurnKeepingInbox(i) ==
    /\ i \in DOMAIN client \cap DOMAIN slot /\ ~slot[i].busy
    /\ <<i, "handler">> \notin DOMAIN routing
    /\ slot' = [slot EXCEPT ![i].busy = TRUE, ![i].turn = slot[i].inbox]
    /\ UNCHANGED <<client, members, routing, left, sent>>

\* schedule_prompt and the start of run_turn: the inbox goes into the prompt.
StartTurn(i) ==
    /\ i \in DOMAIN client \cap DOMAIN slot /\ ~slot[i].busy
    /\ <<i, "handler">> \notin DOMAIN routing
    /\ slot' = [slot EXCEPT ![i].busy = TRUE, ![i].inbox = <<>>, ![i].turn = slot[i].inbox]
    /\ UNCHANGED <<client, members, routing, left, sent>>

\* The end of a turn.  The Agent goes with it if its client has gone before; else
\* its history holds what the turn was told, or after a failure or a cancel, when
\* the turn is rolled back, does not.
EndTurn(i) ==
    /\ i \in DOMAIN slot /\ slot[i].busy /\ <<i, "turn">> \notin DOMAIN routing
    /\ \E kept \in {slot[i].turn, <<>>} :
          slot' = IF i \in DOMAIN client
                    THEN [slot EXCEPT ![i].busy = FALSE, ![i].turn = <<>>, ![i].told = @ \o kept]
                    ELSE Without(slot, i)
    /\ UNCHANGED <<client, members, routing, left, sent>>

Next ==
    \E i \in Ids :
        \/ HelloRegister(i) \/ CreateAgentSlot(i) \/ RemoveClient(i)
        \/ StartTurn(i) \/ EndTurn(i)
        \/ \E thread \in Threads :
              \/ SendMessage(i, thread) \/ DeliverInbox(<<i, thread>>)
              \/ RouteReturns(<<i, thread>>)

Spec == Init /\ [][Next]_messageVars

-----------------------------------------------------------------------------
(* Properties. *)

\* The two tables of who is there agree: repo_members_ lists each client once,
\* under the repository it has said hello with, and no one else (server.cpp
\* 207-240).
MembersAreClients ==
    \A r \in Repos :
        LET listed == IF r \in DOMAIN members THEN members[r] ELSE <<>>
        IN  /\ {listed[p] : p \in DOMAIN listed} = {i \in DOMAIN client : client[i] = r}
            /\ \A p, q \in DOMAIN listed : p # q => listed[p] # listed[q]
            /\ r \in DOMAIN members => listed # <<>>

\* What has reached the Agent of i, in its order: its history, the prompt of the
\* turn under way, its inbox.
Reached(i) == IF i \in DOMAIN slot THEN slot[i].told \o slot[i].turn \o slot[i].inbox ELSE <<>>

\* Whatever comes between the deliveries of a message, an Agent gets it at most
\* once, after those the same thread has sent before, and never one that was addressed
\* to another Agent or, by "repo", to a repository in which it is not.
MessagesInOrder ==
    \A i \in Ids :
        LET r == Reached(i)
        IN  /\ \A p, q \in DOMAIN r :
                  p < q /\ r[p].from = r[q].from /\ r[p].thread = r[q].thread
                  => r[p].n < r[q].n
            /\ \A p \in DOMAIN r :
                  /\ r[p].from # i
                  /\ r[p].to \in {All, SameRepo, i}
                  /\ r[p].to = SameRepo /\ i \in DOMAIN client => r[p].repo = client[i]
=============================================================================
