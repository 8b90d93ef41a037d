--------------------------- MODULE ConflictWatch ---------------------------
(***************************************************************************)
(* How the zvmh server tells agents that a file they have read was changed *)
(* (src/server/server.cpp, src/agent.cpp): the turn threads of the hosted  *)
(* agents report their read, write and edit calls, the poller compares the *)
(* file with its baseline, and anybody may change the file behind their    *)
(* backs.  One path: paths share nothing but the locks.                    *)
(*                                                                         *)
(* A file's hash is its content (no collisions).  Its stamp stands for     *)
(* mtime and size, and every change moves it: two changes within a second  *)
(* that keep the size are left out.  An agent that disconnects is          *)
(* forgotten at once while its turn may go on; its name then stands for    *)
(* what the turn still reports, or for an agent that connects later.       *)
(***************************************************************************)
EXTENDS Naturals, FiniteSets

CONSTANTS
    Agents,    \* the hosted agents
    fs,        \* the poller, and the name it reports under
    Contents,  \* what the file may hold
    NoHash,    \* the empty string: no file, no entry
    Nobody,    \* mu_ is free
    MaxEdits   \* changes of the file (bound)

ASSUME NamesAssumption ==
    /\ fs \notin Agents /\ Nobody \notin Agents \cup {fs}
    /\ NoHash \notin Contents
    /\ MaxEdits \in Nat

Threads == Agents \cup {fs}

VARIABLES
    content,   \* the file, NoHash when there is none
    stamp,     \* its mtime and size
    reads,     \* read_hashes_[path]: what each agent is thought to know
    watch,     \* file_state_[path]
    pc,        \* what each thread does next
    hash,      \* the hash a thread has computed
    notify,    \* the agents a thread is about to tell
    lock,      \* the thread that holds mu_
    seen,      \* observation: the content each agent last reported itself
    told       \* observation: agents told since then

file == <<content, stamp>>
known == <<seen, told>>
vars == <<file, reads, watch, pc, hash, notify, lock, known>>

Unwatched == [watched |-> FALSE, exists |-> FALSE, stamp |-> 0, hash |-> NoHash]
Missing == [Unwatched EXCEPT !.watched = TRUE]

TypeOK ==
    /\ content \in Contents \cup {NoHash}
    /\ stamp \in 1 .. MaxEdits + 1
    /\ reads \in [Agents -> Contents \cup {NoHash}]
    /\ watch \in [watched : BOOLEAN, exists : BOOLEAN, stamp : 0 .. MaxEdits + 1,
                  hash : Contents \cup {NoHash}]
    /\ pc \in [Threads -> {"idle", "read", "register", "wrote", "report",
                           "scan", "refresh", "tell"}]
    /\ hash \in [Threads -> Contents \cup {NoHash}]
    /\ notify \in [Threads -> SUBSET Agents]
    /\ lock \in Threads \cup {Nobody}
    /\ seen \in [Agents -> Contents \cup {NoHash}]
    /\ told \subseteq Agents
    /\ lock # Nobody <=> \E x \in Threads : pc[x] \in {"scan", "refresh"}

Init ==
    /\ content \in Contents /\ stamp = 1
    /\ reads = [a \in Agents |-> NoHash]
    /\ watch = Unwatched
    /\ pc = [x \in Threads |-> "idle"]
    /\ hash = [x \in Threads |-> NoHash]
    /\ notify = [x \in Threads |-> {}]
    /\ lock = Nobody
    /\ seen = [a \in Agents |-> NoHash]
    /\ told = {}

Goto(x, from, to) == pc[x] = from /\ pc' = [pc EXCEPT ![x] = to]

\* The content changes, or goes, and the stamp with it.
Change(c) ==
    /\ stamp <= MaxEdits
    /\ content' = c
    /\ stamp' = stamp + 1

-----------------------------------------------------------------------------
(* The file behind everybody's back: bash, apply_patch, a human. *)

Edit(c) ==
    /\ c # content
    /\ Change(c)
    /\ UNCHANGED <<reads, watch, pc, hash, notify, lock, known>>

-----------------------------------------------------------------------------
(* The two steps every update ends with, mu_ held: stat, then hash. *)

\* refresh_watch_locked up to the stat, which found the file.
Statted == [watch EXCEPT !.watched = TRUE, !.exists = TRUE, !.stamp = stamp]

\* The baseline after the stat; without a file it is cleared and that is all.
Stat(x, next) ==
    /\ lock = Nobody
    /\ IF content = NoHash
         THEN /\ watch' = Missing
              /\ lock' = Nobody
              /\ pc' = [pc EXCEPT ![x] = next]
         ELSE /\ watch' = Statted
              /\ lock' = x
              /\ pc' = [pc EXCEPT ![x] = "refresh"]

\* A bug: a file that was hashed once is not hashed again.
HashedOnce == IF watch.hash = NoHash THEN [watch EXCEPT !.hash = content] ELSE watch
\* The file is hashed, whatever it holds by now.
Hashed == [watch EXCEPT !.hash = content]

\* A bug: mu_ is not given back.
RefreshLocked(x) ==
    /\ Goto(x, "refresh", IF notify[x] = {} THEN "idle" ELSE "tell")
    /\ watch' = Hashed
    /\ UNCHANGED <<file, reads, hash, notify, lock, known>>

\* ... and the rest of it.  notify is empty after a registered read.
Refresh(x) ==
    /\ Goto(x, "refresh", IF notify[x] = {} THEN "idle" ELSE "tell")
    /\ watch' = Hashed
    /\ lock' = Nobody
    /\ UNCHANGED <<file, reads, hash, notify, known>>

-----------------------------------------------------------------------------
(* An agent's turn thread: a tool call, and the report of it. *)

ReadTool(a) ==
    /\ Goto(a, "idle", "read")
    /\ UNCHANGED <<file, reads, watch, hash, notify, lock, known>>

\* register_read hashes the file, ...
HashRead(a) ==
    /\ Goto(a, "read", IF content = NoHash THEN "idle" ELSE "register")
    /\ hash' = [hash EXCEPT ![a] = content]
    /\ UNCHANGED <<file, reads, watch, notify, lock, known>>

\* ... then takes mu_.
RegisterRead(a) ==
    /\ pc[a] = "register"
    /\ Stat(a, "idle")
    /\ reads' = [reads EXCEPT ![a] = hash[a]]
    /\ seen' = [seen EXCEPT ![a] = hash[a]]
    /\ told' = told \ {a}
    /\ UNCHANGED <<file, hash, notify>>

\* write and edit; an edit that fails changes nothing and is reported as well.
WriteTool(a) ==
    /\ Goto(a, "idle", "wrote")
    /\ UNCHANGED file \/ \E c \in Contents : Change(c)
    /\ UNCHANGED <<reads, watch, hash, notify, lock, known>>

\* report_write hashes the file.
HashWrite(a) ==
    /\ Goto(a, "wrote", IF content = NoHash THEN "idle" ELSE "report")
    /\ hash' = [hash EXCEPT ![a] = content]
    /\ UNCHANGED <<file, reads, watch, notify, lock, known>>

\* A bug: the comparison is the wrong way round.
UpToDate(x) == {a \in Agents \ {x} : reads[a] # NoHash /\ reads[a] = hash[x]}
\* Everybody else who knew something different.
OutOfDate(x) ==
    {a \in Agents \ {x} : reads[a] # NoHash /\ reads[a] # hash[x]}

\* notify_file_changed: update_conflict_state_locked under mu_, ...
NotifyFileChanged(x) ==
    /\ pc[x] = "report"
    /\ Stat(x, IF OutOfDate(x) = {} THEN "idle" ELSE "tell")
    /\ notify' = [notify EXCEPT ![x] = OutOfDate(x)]
    /\ reads' = [a \in Agents |-> IF reads[a] = NoHash THEN NoHash ELSE hash[x]]
    /\ IF x \in Agents /\ reads[x] # NoHash
         THEN seen' = [seen EXCEPT ![x] = hash[x]] /\ told' = told \ {x}
         ELSE UNCHANGED known
    /\ UNCHANGED <<file, hash>>

\* ... and the notices after it.
Tell(x) ==
    /\ Goto(x, "tell", "idle")
    /\ lock = Nobody
    /\ told' = told \cup notify[x]
    /\ notify' = [notify EXCEPT ![x] = {}]
    /\ UNCHANGED <<file, reads, watch, hash, lock, seen>>

-----------------------------------------------------------------------------
(* The poller. *)

\* The file is gone: the baseline forgets it, and nobody is told.
ScanMissing ==
    /\ pc[fs] = "idle" /\ lock = Nobody
    /\ watch.watched /\ content = NoHash
    /\ watch' = Missing
    /\ UNCHANGED <<file, reads, pc, hash, notify, lock, known>>

\* A bug: only a file that comes or goes is looked at.
ExistenceMoved == ~watch.exists
\* The file is worth hashing.
Dirty == ~watch.exists \/ watch.stamp # stamp \/ watch.hash = NoHash

\* The stat of a scan; a clean file costs nothing more.
Scan ==
    /\ lock = Nobody
    /\ watch.watched /\ content # NoHash /\ Dirty
    /\ Goto(fs, "idle", "scan")
    /\ lock' = fs
    /\ watch' = Statted
    /\ UNCHANGED <<file, reads, hash, notify, known>>

\* The hash of a scan: a difference between two known hashes is reported.
ScanHash ==
    /\ Goto(fs, "scan", IF watch.hash # NoHash /\ content \notin {NoHash, watch.hash}
                          THEN "report" ELSE "idle")
    /\ hash' = [hash EXCEPT ![fs] = content]
    /\ watch' = Hashed
    /\ lock' = Nobody
    /\ UNCHANGED <<file, reads, notify, known>>

-----------------------------------------------------------------------------
(* The connection. *)

\* remove_client_locked: the entry goes, and a report under way goes on.
Disconnect(a) ==
    /\ lock = Nobody
    /\ reads[a] # NoHash
    /\ reads' = [reads EXCEPT ![a] = NoHash]
    /\ seen' = [seen EXCEPT ![a] = NoHash]
    /\ told' = told \ {a}
    /\ UNCHANGED <<file, watch, pc, hash, notify, lock>>

Poller == ScanMissing \/ Scan \/ ScanHash \/ NotifyFileChanged(fs) \/ Refresh(fs) \/ Tell(fs)

\* What follows a tool call; the agent's model decides when there is one.
Report(a) ==
    \/ HashRead(a) \/ RegisterRead(a)
    \/ HashWrite(a) \/ NotifyFileChanged(a) \/ Refresh(a) \/ Tell(a)

\* The edits are used up and nothing is left to look at.
Settled == stamp > MaxEdits /\ UNCHANGED vars

Next ==
    \/ \E c \in Contents \cup {NoHash} : Edit(c)
    \/ Poller
    \/ \E a \in Agents : ReadTool(a) \/ WriteTool(a) \/ Report(a) \/ Disconnect(a)
    \/ Settled

Spec == Init /\ [][Next]_vars

\* The poller polls and a report is finished.  mu_ is a mutex without a queue,
\* held for a moment each time: a thread that wants it again and again gets it.
FairSpec ==
    /\ Spec
    /\ SF_vars(Poller)
    /\ \A a \in Agents : SF_vars(Report(a))

-----------------------------------------------------------------------------
\* The baseline is sound: if the stamp has not moved since it was taken, the
\* hash is the file's.  A change between the stat and the hash must leave an
\* old stamp and not an old hash, or the poller never looks again
\* (server.cpp 150-166, 600-612).
BaselineSound ==
    lock = Nobody /\ watch.exists /\ watch.stamp = stamp /\ watch.hash # NoHash
        => watch.hash = content

\* What the server takes an agent to know is what the agent said itself, or the
\* agent has been told, or is about to be: no report of somebody else replaces
\* its entry in silence (server.cpp 168-193).
NoSilentRebase ==
    \A a \in Agents :
        reads[a] = seen[a] \/ a \in told \/ \E x \in Threads : a \in notify[x]

\* The agent last saw something else than what the file holds.
Behind(a) == seen[a] \notin {NoHash, content} /\ content # NoHash
LooksItself(a) == pc[a] \in {"read", "register", "wrote", "report"}

\* A write that an agent is about to report reaches every agent that knows
\* another content, whatever other reports, departures and the poller do
\* meanwhile: unless it calls a tool on the file itself or leaves, or the file
\* comes to hold what it knows, or is deleted (server.cpp 105-110, 168-193).
ReportedWriteIsTold ==
    \A a, b \in Agents : a # b =>
        (pc[b] = "wrote" /\ Behind(a)) ~> (a \in told \/ LooksItself(a) \/ ~Behind(a))

AtRest == \A x \in Threads : pc[x] = "idle"

\* A change nobody reports, and that the baseline does not hold yet, is told
\* too, by the poller, unless some agent calls a tool on the file first
\* (server.h 18-21, server.cpp 574-621).
QuietChangeIsTold ==
    \A a \in Agents :
        (AtRest /\ Behind(a) /\ watch.hash \notin {NoHash, content})
            ~> (a \in told \/ ~Behind(a) \/ \E b \in Agents : pc[b] # "idle")

\* server.h 18-21: the poller is "the safety net for changes that never route
\* through a `write` message (bash-side overwrites, human edits)": an agent that
\* is behind has been told, is being told, or the poller still has to look.
SafetyNet ==
    \A a \in Agents :
        AtRest /\ Behind(a) => a \in told \/ Dirty
=============================================================================
