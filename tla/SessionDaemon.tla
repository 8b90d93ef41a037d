---------------------------- MODULE SessionDaemon ----------------------------
(***************************************************************************)
(* How a session's server comes and goes (src/main.cpp): clients start one *)
(* when nobody answers on the port, the command line starts and stops it,  *)
(* and a pidfile is to tell which process it is.  A server has the number  *)
(* of the process that started it; pids are not used again.  What a server *)
(* does while it serves is module SwarmServer.                             *)
(***************************************************************************)
EXTENDS Integers, FiniteSets

CONSTANTS
    Clients, \* zvmh processes that want a session, ids from 1
    Starts,  \* "zvmh --server start --session --daemon" processes, ids from 1
    None     \* no pidfile, no server on the port

Starters == Clients \cup Starts

NamesFit == None \notin Starters

VARIABLES
    starter, \* where a starter is
    server,  \* where its server is
    pidfile, \* the pid in it
    port,    \* the server that listens
    stop,    \* where "zvmh --server stop --session" is
    stopPid, \* existing
    alone    \* history: no start or stop has begun while something was under way

sessionVars == <<starter, server, pidfile, port, stop, stopPid, alone>>

TypeOK ==
    /\ starter \in [Starters -> {"off", "dead", "stale", "checked", "waiting", "writing", "ok", "failed", "left"}]
    /\ server \in [Starters -> {"none", "forked", "written", "serving", "ended", "zombie", "gone"}]
    /\ {pidfile, port, stopPid} \subseteq Starters \cup {None}
    /\ stop \in {"off", "remove", "kill", "wait"}
    /\ alone \in BOOLEAN

Init ==
    /\ starter = [c \in Starters |-> "off"] /\ server = [c \in Starters |-> "none"]
    /\ pidfile = None /\ port = None
    /\ stop = "off" /\ stopPid = None
    /\ alone = TRUE

-----------------------------------------------------------------------------
\* kill(pid, 0): it also finds a process nobody has waited for.
Alive(pid) == pid # None /\ server[pid] \notin {"none", "gone"}

UnderWay ==
    \/ stop # "off"
    \/ \E c \in Starters :
        starter[c] \in {"dead", "stale", "checked", "writing"} \/ server[c] \in {"forked", "written", "ended"}

Begins == alone' = (alone /\ ~UnderWay)

Starter(c, from, to) == starter[c] = from /\ starter' = [starter EXCEPT ![c] = to]
Server(c, from, to) == server[c] = from /\ server' = [server EXCEPT ![c] = to]

\* A server ends: its parent, if it still runs, never waits for it.
Exited(c) == IF c \in Clients /\ starter[c] \notin {"left", "failed"} THEN "zombie" ELSE "gone"

-----------------------------------------------------------------------------
(* ensure_session_backend, in a client. *)

Probe(c) ==
    /\ c \in Clients
    /\ \/ port # None /\ Starter(c, "off", "ok") /\ UNCHANGED alone
       \/ port = None /\ Starter(c, "off", "dead") /\ Begins
    /\ UNCHANGED <<server, pidfile, port, stop, stopPid>>

\* run_server --daemon and its caller: no probe, but a live pid is refused.
StartCommand(c) ==
    /\ c \in Starts
    /\ \/ Alive(pidfile) /\ Starter(c, "off", "failed") /\ UNCHANGED alone
       \/ ~Alive(pidfile) /\ Starter(c, "off", "dead") /\ Begins
    /\ UNCHANGED <<server, pidfile, port, stop, stopPid>>

LookAtPidfile(c) ==
    /\ \/ pidfile # None /\ ~Alive(pidfile) /\ Starter(c, "dead", "stale")
       \/ pidfile = None /\ Starter(c, "dead", "checked")
       \/ /\ Alive(pidfile)
          /\ Starter(c, "dead", IF c \in Clients THEN "checked" ELSE "failed")
    /\ UNCHANGED <<server, pidfile, port, stop, stopPid, alone>>

RemoveStale(c) ==
    /\ Starter(c, "stale", "checked")
    /\ pidfile' = None
    /\ UNCHANGED <<server, port, stop, stopPid, alone>>

Fork(c) ==
    /\ Starter(c, "checked", IF c \in Clients THEN "waiting" ELSE "writing")
    /\ Server(c, "none", "forked")
    /\ UNCHANGED <<pidfile, port, stop, stopPid, alone>>

\* The parent of a command's server writes the pidfile, too.
ParentWrites(c) ==
    /\ Starter(c, "writing", "ok")
    /\ pidfile' = c
    /\ UNCHANGED <<server, port, stop, stopPid, alone>>

\* 120 looks at the port.
WaitForPort(c) ==
    /\ Starter(c, "waiting", IF port # None THEN "ok" ELSE "failed")
    /\ server' = IF port = None /\ server[c] = "zombie" THEN [server EXCEPT ![c] = "gone"] ELSE server
    /\ UNCHANGED <<pidfile, port, stop, stopPid, alone>>

\* The client is left: init waits for what it has started.
Leave(c) ==
    /\ c \in Clients /\ Starter(c, "ok", "left")
    /\ server' = IF server[c] = "zombie" THEN [server EXCEPT ![c] = "gone"] ELSE server
    /\ UNCHANGED <<pidfile, port, stop, stopPid, alone>>

-----------------------------------------------------------------------------
(* The server's process. *)

ServerWrites(c) ==
    /\ Server(c, "forked", "written")
    /\ pidfile' = c
    /\ UNCHANGED <<starter, port, stop, stopPid, alone>>

\* run: it serves, or the port is taken.
ServerListens(c) ==
    /\ \/ port = None /\ port' = c /\ Server(c, "written", "serving")
       \/ port # None /\ Server(c, "written", "ended") /\ UNCHANGED port
    /\ UNCHANGED <<starter, pidfile, stop, stopPid, alone>>

\* run returns: a SIGTERM, or the last client has gone.
ServerStops(c) ==
    /\ Server(c, "serving", "ended")
    /\ port' = None
    /\ UNCHANGED <<starter, pidfile, stop, stopPid, alone>>

\* The pidfile goes, whoever it names by now.
ServerExits(c) ==
    /\ Server(c, "ended", Exited(c))
    /\ pidfile' = None
    /\ UNCHANGED <<starter, port, stop, stopPid, alone>>

\* A crash, or a SIGTERM before run has its handlers: the pidfile stays.
ServerDies(c) ==
    /\ server[c] \in {"forked", "written", "serving"}
    /\ server' = [server EXCEPT ![c] = Exited(c)]
    /\ port' = IF port = c THEN None ELSE port
    /\ UNCHANGED <<starter, pidfile, stop, stopPid, alone>>

-----------------------------------------------------------------------------
(* cmd_server stop. *)

StopReads ==
    /\ stop = "off" /\ pidfile # None
    /\ stopPid' = pidfile
    /\ stop' = IF Alive(pidfile) THEN "kill" ELSE "remove"
    /\ Begins
    /\ UNCHANGED <<starter, server, pidfile, port>>

\* A bug: it does not wait for the server's end.
StopKillsOnly ==
    /\ stop = "kill"
    /\ stop' = "remove"
    /\ UNCHANGED <<starter, server, pidfile, port, stopPid, alone>>

\* The signal makes ServerStops or ServerDies due; without a process it is an error.
StopKills ==
    /\ stop = "kill"
    /\ stop' = IF Alive(stopPid) THEN "wait" ELSE "off"
    /\ UNCHANGED <<starter, server, pidfile, port, stopPid, alone>>

StopWaits ==
    /\ stop = "wait"
    /\ \/ ~Alive(stopPid) /\ stop' = "remove"
       \/ Alive(stopPid) /\ stop' = "off" \* 120 looks: an error, and the pidfile is kept
    /\ UNCHANGED <<starter, server, pidfile, port, stopPid, alone>>

StopRemoves ==
    /\ stop = "remove" /\ stop' = "off"
    /\ pidfile' = None
    /\ UNCHANGED <<starter, server, port, stopPid, alone>>

Next ==
    \/ \E c \in Starters :
        \/ Probe(c) \/ StartCommand(c) \/ LookAtPidfile(c) \/ RemoveStale(c) \/ Fork(c)
        \/ ParentWrites(c) \/ WaitForPort(c) \/ Leave(c)
        \/ ServerWrites(c) \/ ServerListens(c) \/ ServerStops(c) \/ ServerExits(c) \/ ServerDies(c)
    \/ StopReads \/ StopKills \/ StopWaits \/ StopRemoves

Spec == Init /\ [][Next]_sessionVars

-----------------------------------------------------------------------------
\* main.cpp 228-229: the server "keeps a pidfile for explicit `--server stop
\* --session`".  Through starts, ends, crashes, stale pidfiles and stops, a server
\* that serves is the one the pidfile names, provided that none of them began while
\* another was under way (main.cpp 110-289).
PidfileKept == alone => \A c \in Starters : server[c] = "serving" => pidfile = c
=============================================================================
