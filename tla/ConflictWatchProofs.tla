------------------------- MODULE ConflictWatchProofs -------------------------
(* Theorems about ConflictWatch, for any agents, contents and number of edits. *)
EXTENDS ConflictWatch, TLAPS

Locks == {"scan", "refresh"}

\* TypeOK without the word about the lock.
Shaped ==
    /\ content \in Contents \cup {NoHash}
    /\ stamp \in 1 .. MaxEdits + 1
    /\ reads \in [Agents -> Contents \cup {NoHash}]
    /\ watch \in [watched : BOOLEAN, exists : BOOLEAN, stamp : 0 .. MaxEdits + 1,
                  hash : Contents \cup {NoHash}]
    /\ pc \in [Threads -> {"idle", "read", "register", "wrote", "report",
                           "scan", "refresh", "tell"}]
    /\ hash \in [Threads -> Contents \cup {NoHash}]
    /\ notify \in [Threads -> SUBSET Agents]
    /\ lock \in Threads \cup {Nobody}
    /\ seen \in [Agents -> Contents \cup {NoHash}]
    /\ told \subseteq Agents

\* mu_ is held by the one thread that is between a stat and its hash.
Mutex == \A x \in Threads : pc[x] \in Locks <=> lock = x

\* A baseline was taken of what the file was, never of what it will be.
StampNotAhead == watch.stamp <= stamp

\* A thread that has agents to tell is on its way to do so.
NotifyPending == \A x \in Threads : notify[x] # {} => pc[x] \in {"refresh", "tell"}

IInv == Shaped /\ Mutex /\ StampNotAhead /\ BaselineSound /\ NotifyPending /\ NoSilentRebase

-----------------------------------------------------------------------------
LEMMA StattedType ==
    ASSUME Shaped
    PROVE  /\ Statted \in [watched : BOOLEAN, exists : BOOLEAN, stamp : 0 .. MaxEdits + 1,
                           hash : Contents \cup {NoHash}]
           /\ Statted.stamp = stamp
<1> DEFINE W == [watched : BOOLEAN, exists : BOOLEAN, stamp : 0 .. MaxEdits + 1,
                 hash : Contents \cup {NoHash}]
           w1 == [watch EXCEPT !.watched = TRUE]
           w2 == [w1 EXCEPT !.exists = TRUE]
           w3 == [w2 EXCEPT !.stamp = stamp]
<1>1. w1 \in W
  BY DEF Shaped
<1>2. w2 \in W
  BY <1>1
<1>3. stamp \in 0 .. MaxEdits + 1
  BY NamesAssumption DEF Shaped
<1>4. w3 \in W /\ w3.stamp = stamp
  BY <1>2, <1>3
<1>5. Statted = w3
  BY DEF Statted
<1> QED
  BY <1>4, <1>5

\* One lemma per kind of step: the critical sections' first halves, ...
LEMMA StatStep ==
    ASSUME Shaped, Mutex, StampNotAhead, UNCHANGED file,
           NEW x \in Threads, pc[x] \notin Locks, NEW next \in {"idle", "tell"}, Stat(x, next)
    PROVE  /\ watch' \in [watched : BOOLEAN, exists : BOOLEAN, stamp : 0 .. MaxEdits + 1,
                          hash : Contents \cup {NoHash}]
           /\ pc' \in [Threads -> {"idle", "read", "register", "wrote", "report",
                                   "scan", "refresh", "tell"}]
           /\ lock' \in Threads \cup {Nobody}
           /\ Mutex' /\ StampNotAhead' /\ BaselineSound'
           /\ pc' = [pc EXCEPT ![x] = IF content = NoHash THEN next ELSE "refresh"]
<1> USE NamesAssumption DEF Shaped, Threads, Stat, file
<1>1. CASE content = NoHash
  <2>1. watch' = [watched |-> TRUE, exists |-> FALSE, stamp |-> 0, hash |-> NoHash]
    BY <1>1 DEF Missing, Unwatched
  <2>2. pc' = [pc EXCEPT ![x] = next] /\ lock' = Nobody /\ lock = Nobody
    BY <1>1
  <2>3. Mutex'
    BY <2>2 DEF Mutex, Locks
  <2>4. StampNotAhead' /\ BaselineSound'
    BY <2>1 DEF StampNotAhead, BaselineSound
  <2> QED
    BY <1>1, <2>1, <2>2, <2>3, <2>4
<1>2. CASE content # NoHash
  <2>1. /\ watch' \in [watched : BOOLEAN, exists : BOOLEAN, stamp : 0 .. MaxEdits + 1,
                       hash : Contents \cup {NoHash}]
        /\ watch'.stamp = stamp
    BY <1>2, StattedType DEF Shaped
  <2>2. pc' = [pc EXCEPT ![x] = "refresh"] /\ lock' = x /\ lock = Nobody /\ x # Nobody
    BY <1>2
  <2>3. Mutex'
    BY <2>2 DEF Mutex, Locks
  <2>4. StampNotAhead' /\ BaselineSound'
    BY <2>1, <2>2 DEF StampNotAhead, BaselineSound
  <2> QED
    BY <1>2, <2>1, <2>2, <2>3, <2>4
<1> QED
  BY <1>1, <1>2

\* ... their second halves, ...
LEMMA HashStep ==
    ASSUME Shaped, Mutex, StampNotAhead, UNCHANGED file,
           NEW x \in Threads, NEW to \in {"idle", "tell", "report"},
           pc[x] \in Locks, pc' = [pc EXCEPT ![x] = to], watch' = Hashed, lock' = Nobody
    PROVE  /\ watch' \in [watched : BOOLEAN, exists : BOOLEAN, stamp : 0 .. MaxEdits + 1,
                          hash : Contents \cup {NoHash}]
           /\ pc' \in [Threads -> {"idle", "read", "register", "wrote", "report",
                                   "scan", "refresh", "tell"}]
           /\ Mutex' /\ StampNotAhead' /\ BaselineSound'
<1> USE NamesAssumption DEF Shaped, Threads, Hashed, file
<1>1. /\ watch' \in [watched : BOOLEAN, exists : BOOLEAN, stamp : 0 .. MaxEdits + 1,
                     hash : Contents \cup {NoHash}]
      /\ watch'.stamp = watch.stamp /\ watch'.hash = content
  OBVIOUS
<1>2. Mutex'
  BY DEF Mutex, Locks
<1>3. StampNotAhead' /\ BaselineSound'
  BY <1>1 DEF StampNotAhead, BaselineSound
<1> QED
  BY <1>1, <1>2, <1>3

\* ... and steps of a thread that does not hold mu_.
LEMMA MoveStep ==
    ASSUME Shaped, Mutex, NotifyPending, UNCHANGED <<lock, notify>>,
           NEW x \in Threads, pc[x] \notin Locks, notify[x] = {},
           NEW to \in {"idle", "read", "register", "wrote", "report", "tell"},
           pc' = [pc EXCEPT ![x] = to]
    PROVE  /\ pc' \in [Threads -> {"idle", "read", "register", "wrote", "report",
                                   "scan", "refresh", "tell"}]
           /\ Mutex' /\ NotifyPending'
  BY DEF Shaped, Mutex, NotifyPending, Locks

\* A change of the file moves its stamp past every baseline.
LEMMA ChangeStep ==
    ASSUME Shaped, StampNotAhead, NEW c \in Contents \cup {NoHash}, Change(c), UNCHANGED watch
    PROVE  /\ content' \in Contents \cup {NoHash} /\ stamp' \in 1 .. MaxEdits + 1
           /\ StampNotAhead' /\ BaselineSound'
<1> USE NamesAssumption DEF Shaped, Change
<1>1. watch.stamp \in Nat /\ stamp \in Nat /\ stamp' = stamp + 1
  OBVIOUS
<1>2. watch.stamp < stamp'
  BY <1>1 DEF StampNotAhead
<1> QED
  BY <1>1, <1>2 DEF StampNotAhead, BaselineSound

-----------------------------------------------------------------------------
LEMMA EditStep ==
    ASSUME IInv, NEW c \in Contents \cup {NoHash}, Edit(c)
    PROVE  IInv'
<1>1. StampNotAhead' /\ BaselineSound' /\ content' \in Contents \cup {NoHash} /\ stamp' \in 1 .. MaxEdits + 1
  BY ChangeStep DEF IInv, Edit
<1> QED
  BY <1>1 DEF IInv, Edit, Shaped, Mutex, NotifyPending, NoSilentRebase, known

LEMMA ToolStep ==
    ASSUME IInv, NEW a \in Agents, ReadTool(a) \/ HashRead(a) \/ WriteTool(a) \/ HashWrite(a)
    PROVE  IInv'
<1> a \in Threads
  BY DEF Threads
<1>1. pc[a] \notin Locks /\ notify[a] = {} /\ UNCHANGED <<lock, notify, reads, watch, known>>
  BY DEF IInv, NotifyPending, Locks, ReadTool, HashRead, WriteTool, HashWrite, Goto
<1>2. \E to \in {"idle", "read", "register", "wrote", "report", "tell"} : pc' = [pc EXCEPT ![a] = to]
  BY DEF ReadTool, HashRead, WriteTool, HashWrite, Goto
<1>3. /\ pc' \in [Threads -> {"idle", "read", "register", "wrote", "report",
                              "scan", "refresh", "tell"}]
      /\ Mutex' /\ NotifyPending'
  BY <1>1, <1>2, MoveStep DEF IInv
<1>4. NoSilentRebase'
  BY <1>1 DEF IInv, NoSilentRebase, known
<1>5. hash' \in [Threads -> Contents \cup {NoHash}]
  BY DEF IInv, Shaped, ReadTool, HashRead, WriteTool, HashWrite
<1>6. /\ content' \in Contents \cup {NoHash} /\ stamp' \in 1 .. MaxEdits + 1
      /\ StampNotAhead' /\ BaselineSound'
  <2>1. CASE UNCHANGED file
    BY <1>1, <2>1 DEF file, IInv, Shaped, StampNotAhead, BaselineSound
  <2>2. CASE \E c \in Contents : Change(c)
    BY <1>1, <2>2, ChangeStep DEF IInv
  <2> QED
    BY <2>1, <2>2 DEF ReadTool, HashRead, WriteTool, HashWrite
<1> QED
  BY <1>1, <1>3, <1>4, <1>5, <1>6 DEF IInv, Shaped, known

LEMMA RegisterStep ==
    ASSUME IInv, NEW a \in Agents, RegisterRead(a)
    PROVE  IInv'
<1> a \in Threads
  BY DEF Threads
<1>1. /\ UNCHANGED <<content, stamp, hash, notify>> /\ pc[a] \notin Locks /\ notify[a] = {}
      /\ reads' = [reads EXCEPT ![a] = hash[a]] /\ seen' = [seen EXCEPT ![a] = hash[a]]
      /\ told' = told \ {a}
  BY DEF RegisterRead, IInv, NotifyPending, Locks, file
<1>2. /\ watch' \in [watched : BOOLEAN, exists : BOOLEAN, stamp : 0 .. MaxEdits + 1,
                     hash : Contents \cup {NoHash}]
      /\ pc' \in [Threads -> {"idle", "read", "register", "wrote", "report",
                              "scan", "refresh", "tell"}]
      /\ lock' \in Threads \cup {Nobody}
      /\ Mutex' /\ StampNotAhead' /\ BaselineSound'
      /\ pc' = [pc EXCEPT ![a] = IF content = NoHash THEN "idle" ELSE "refresh"]
  BY <1>1, StatStep DEF RegisterRead, IInv, file
<1>3. NotifyPending'
  BY <1>1, <1>2 DEF IInv, Shaped, NotifyPending
<1>4. NoSilentRebase'
  BY <1>1 DEF IInv, Shaped, NoSilentRebase
<1> QED
  BY <1>1, <1>2, <1>3, <1>4 DEF IInv, Shaped

LEMMA NotifyStep ==
    ASSUME IInv, NEW x \in Threads, NotifyFileChanged(x)
    PROVE  IInv'
<1>1. /\ UNCHANGED <<content, stamp, hash>> /\ pc[x] \notin Locks /\ notify[x] = {}
      /\ notify' = [notify EXCEPT ![x] = OutOfDate(x)]
      /\ reads' = [a \in Agents |-> IF reads[a] = NoHash THEN NoHash ELSE hash[x]]
  BY DEF NotifyFileChanged, IInv, NotifyPending, Locks, file
<1>2. /\ watch' \in [watched : BOOLEAN, exists : BOOLEAN, stamp : 0 .. MaxEdits + 1,
                     hash : Contents \cup {NoHash}]
      /\ pc' \in [Threads -> {"idle", "read", "register", "wrote", "report",
                              "scan", "refresh", "tell"}]
      /\ lock' \in Threads \cup {Nobody}
      /\ Mutex' /\ StampNotAhead' /\ BaselineSound'
      /\ pc' = [pc EXCEPT ![x] = IF content = NoHash
                                   THEN IF OutOfDate(x) = {} THEN "idle" ELSE "tell"
                                   ELSE "refresh"]
  BY <1>1, StatStep DEF NotifyFileChanged, IInv, file
<1>3. notify' \in [Threads -> SUBSET Agents]
  BY <1>1 DEF IInv, Shaped, OutOfDate
<1>4. NotifyPending'
  BY <1>1, <1>2 DEF IInv, Shaped, NotifyPending
<1>5. reads' \in [Agents -> Contents \cup {NoHash}]
  BY <1>1 DEF IInv, Shaped
<1>6. /\ seen' \in [Agents -> Contents \cup {NoHash}] /\ told' \subseteq Agents
      /\ \A a \in Agents \ {x} : seen'[a] = seen[a] /\ (a \in told <=> a \in told')
      /\ x \in Agents => \/ reads[x] # NoHash /\ seen'[x] = hash[x]
                         \/ reads[x] = NoHash /\ seen'[x] = seen[x] /\ (x \in told <=> x \in told')
  BY DEF IInv, Shaped, NotifyFileChanged, known
<1>7. NoSilentRebase'
  <2> SUFFICES ASSUME NEW a \in Agents
               PROVE  \/ reads'[a] = seen'[a] \/ a \in told' \/ \E y \in Threads : a \in notify'[y]
    BY DEF NoSilentRebase
  <2>1. reads[a] = seen[a] \/ a \in told \/ \E y \in Threads : a \in notify[y]
    BY DEF IInv, NoSilentRebase
  <2>2. \A y \in Threads : a \in notify[y] => a \in notify'[y]
    BY <1>1 DEF IInv, Shaped
  <2>3. CASE reads[a] = NoHash
    BY <1>1, <1>6, <2>1, <2>2, <2>3
  <2>4. CASE reads[a] # NoHash /\ a = x
    BY <1>1, <1>6, <2>4
  <2>5. CASE reads[a] # NoHash /\ a # x /\ reads[a] = hash[x]
    BY <1>1, <1>6, <2>1, <2>2, <2>5
  <2>6. CASE reads[a] # NoHash /\ a # x /\ reads[a] # hash[x]
    BY <1>1, <2>6 DEF IInv, Shaped, OutOfDate
  <2> QED
    BY <2>3, <2>4, <2>5, <2>6
<1> QED
  BY <1>1, <1>2, <1>3, <1>4, <1>5, <1>6, <1>7 DEF IInv, Shaped

LEMMA RefreshStep ==
    ASSUME IInv, NEW x \in Threads, Refresh(x)
    PROVE  IInv'
<1>1. /\ UNCHANGED <<content, stamp, reads, hash, notify, seen, told>>
      /\ pc[x] \in Locks /\ watch' = Hashed /\ lock' = Nobody
      /\ pc' = [pc EXCEPT ![x] = IF notify[x] = {} THEN "idle" ELSE "tell"]
  BY DEF Refresh, Goto, Locks, file, known
<1>2. /\ watch' \in [watched : BOOLEAN, exists : BOOLEAN, stamp : 0 .. MaxEdits + 1,
                     hash : Contents \cup {NoHash}]
      /\ pc' \in [Threads -> {"idle", "read", "register", "wrote", "report",
                              "scan", "refresh", "tell"}]
      /\ Mutex' /\ StampNotAhead' /\ BaselineSound'
  BY <1>1, HashStep DEF IInv, file
<1>3. NotifyPending'
  BY <1>1 DEF IInv, Shaped, NotifyPending
<1>4. NoSilentRebase'
  BY <1>1 DEF IInv, NoSilentRebase
<1> QED
  BY <1>1, <1>2, <1>3, <1>4 DEF IInv, Shaped

LEMMA TellStep ==
    ASSUME IInv, NEW x \in Threads, Tell(x)
    PROVE  IInv'
<1>1. /\ UNCHANGED <<content, stamp, reads, watch, hash, lock, seen>>
      /\ pc[x] = "tell" /\ pc' = [pc EXCEPT ![x] = "idle"]
      /\ told' = told \cup notify[x] /\ notify' = [notify EXCEPT ![x] = {}]
  BY DEF Tell, Goto, file
<1>2. Shaped'
  BY <1>1 DEF IInv, Shaped
<1>3. Mutex' /\ StampNotAhead' /\ BaselineSound'
  BY <1>1 DEF IInv, Shaped, Mutex, Locks, StampNotAhead, BaselineSound
<1>4. NotifyPending'
  BY <1>1 DEF IInv, Shaped, NotifyPending
<1>5. NoSilentRebase'
  BY <1>1 DEF IInv, Shaped, NoSilentRebase
<1> QED
  BY <1>2, <1>3, <1>4, <1>5 DEF IInv

LEMMA ScanStep ==
    ASSUME IInv, ScanMissing \/ Scan \/ ScanHash
    PROVE  IInv'
<1> fs \in Threads
  BY DEF Threads
<1>1. CASE ScanMissing
  <2>1. watch' = [watched |-> TRUE, exists |-> FALSE, stamp |-> 0, hash |-> NoHash]
    BY <1>1 DEF ScanMissing, Missing, Unwatched
  <2>2. Shaped'
    BY <1>1, <2>1, NamesAssumption DEF ScanMissing, IInv, Shaped, file, known
  <2>3. StampNotAhead' /\ BaselineSound'
    BY <1>1, <2>1 DEF ScanMissing, IInv, Shaped, StampNotAhead, BaselineSound, file
  <2> QED
    BY <1>1, <2>2, <2>3 DEF ScanMissing, IInv, Mutex, NotifyPending, NoSilentRebase, known
<1>2. CASE Scan
  <2>1. /\ UNCHANGED <<content, stamp, reads, hash, notify, seen, told>>
        /\ lock = Nobody /\ lock' = fs /\ pc[fs] = "idle" /\ pc' = [pc EXCEPT ![fs] = "scan"]
    BY <1>2 DEF Scan, Goto, file, known
  <2>2. /\ watch' \in [watched : BOOLEAN, exists : BOOLEAN, stamp : 0 .. MaxEdits + 1,
                       hash : Contents \cup {NoHash}]
        /\ watch'.stamp = stamp
    BY <1>2, StattedType DEF Scan, IInv
  <2>3. Mutex'
    BY <2>1, NamesAssumption DEF IInv, Shaped, Mutex, Locks, Threads
  <2>4. StampNotAhead' /\ BaselineSound'
    BY <2>1, <2>2, NamesAssumption DEF IInv, Shaped, StampNotAhead, BaselineSound
  <2>5. NotifyPending' /\ NoSilentRebase'
    BY <2>1 DEF IInv, Shaped, NotifyPending, NoSilentRebase
  <2> QED
    BY <2>1, <2>2, <2>3, <2>4, <2>5 DEF IInv, Shaped
<1>3. CASE ScanHash
  <2>1. /\ UNCHANGED <<content, stamp, reads, notify, seen, told>>
        /\ pc[fs] = "scan" /\ watch' = Hashed /\ lock' = Nobody
        /\ \E to \in {"report", "idle"} : pc' = [pc EXCEPT ![fs] = to]
        /\ hash' = [hash EXCEPT ![fs] = content]
    BY <1>3 DEF ScanHash, Goto, file, known
  <2>2. /\ watch' \in [watched : BOOLEAN, exists : BOOLEAN, stamp : 0 .. MaxEdits + 1,
                       hash : Contents \cup {NoHash}]
        /\ pc' \in [Threads -> {"idle", "read", "register", "wrote", "report",
                                "scan", "refresh", "tell"}]
        /\ Mutex' /\ StampNotAhead' /\ BaselineSound'
    BY <2>1, HashStep DEF IInv, file, Locks
  <2>3. notify[fs] = {}
    BY <2>1 DEF IInv, NotifyPending
  <2>4. NotifyPending' /\ NoSilentRebase'
    BY <2>1, <2>3 DEF IInv, Shaped, NotifyPending, NoSilentRebase
  <2> QED
    BY <2>1, <2>2, <2>4 DEF IInv, Shaped
<1> QED
  BY <1>1, <1>2, <1>3

LEMMA DisconnectStep ==
    ASSUME IInv, NEW a \in Agents, Disconnect(a)
    PROVE  IInv'
<1>1. /\ UNCHANGED <<content, stamp, watch, pc, hash, notify, lock>>
      /\ reads' = [reads EXCEPT ![a] = NoHash] /\ seen' = [seen EXCEPT ![a] = NoHash]
      /\ told' = told \ {a}
  BY DEF Disconnect, file
<1>2. Shaped'
  BY <1>1 DEF IInv, Shaped
<1>3. NoSilentRebase'
  BY <1>1 DEF IInv, Shaped, NoSilentRebase
<1> QED
  BY <1>1, <1>2, <1>3 DEF IInv, Mutex, StampNotAhead, BaselineSound, NotifyPending

LEMMA Inductive == Spec => []IInv
<1>1. Init => IInv
  <2> SUFFICES ASSUME Init PROVE IInv
    OBVIOUS
  <2> USE NamesAssumption DEF Init
  <2>1. Shaped
    BY DEF Shaped, Unwatched, Threads
  <2>2. Mutex /\ NotifyPending
    BY DEF Mutex, Locks, NotifyPending, Threads
  <2>3. StampNotAhead /\ BaselineSound
    BY DEF StampNotAhead, BaselineSound, Unwatched
  <2>4. NoSilentRebase
    BY DEF NoSilentRebase
  <2> QED
    BY <2>1, <2>2, <2>3, <2>4 DEF IInv
<1>2. IInv /\ [Next]_vars => IInv'
  <2> SUFFICES ASSUME IInv, [Next]_vars PROVE IInv'
    OBVIOUS
  <2>1. ASSUME NEW c \in Contents \cup {NoHash}, Edit(c) PROVE IInv'
    BY <2>1, EditStep
  <2>2. ASSUME NEW x \in Threads, NotifyFileChanged(x) \/ Refresh(x) \/ Tell(x) PROVE IInv'
    BY <2>2, NotifyStep, RefreshStep, TellStep
  <2>3. CASE Poller
    BY <2>2, <2>3, ScanStep DEF Poller, Threads
  <2>4. ASSUME NEW a \in Agents, ReadTool(a) \/ WriteTool(a) \/ Report(a) PROVE IInv'
    BY <2>2, <2>4, ToolStep, RegisterStep DEF Report, Threads
  <2>6. ASSUME NEW a \in Agents, Disconnect(a) PROVE IInv'
    BY <2>6, DisconnectStep
  <2>5. CASE UNCHANGED vars
    BY <2>5 DEF vars, file, known, IInv, Shaped, Mutex, StampNotAhead, BaselineSound,
                NotifyPending, NoSilentRebase
  <2> QED
    BY <2>1, <2>3, <2>4, <2>5, <2>6 DEF Next, Settled
<1> QED
  BY <1>1, <1>2, PTL DEF Spec

\* The tables keep their types, and mu_ is held exactly while a thread is between
\* the stat and the hash of a baseline (server.cpp 150-166).
THEOREM TypeCorrect == Spec => []TypeOK
<1>1. IInv => TypeOK
  <2> SUFFICES ASSUME IInv PROVE TypeOK
    OBVIOUS
  <2>1. lock # Nobody <=> \E x \in Threads : pc[x] \in Locks
    BY NamesAssumption DEF IInv, Mutex, Shaped, Threads
  <2> QED
    BY <2>1 DEF IInv, Shaped, TypeOK, Locks
<1> QED
  BY <1>1, Inductive, PTL

\* Whoever changes the file and whenever: a baseline whose stamp is the file's has
\* the file's hash, so that the poller may skip a file that has not moved
\* (server.cpp 150-166, 600-612).
THEOREM BaselineIsSound == Spec => []BaselineSound
<1>1. IInv => BaselineSound
  BY DEF IInv
<1> QED
  BY <1>1, Inductive, PTL

\* For any number of agents, an entry of read_hashes_ that somebody else's report
\* has replaced belongs to an agent that was told or is about to be
\* (server.cpp 168-193).
THEOREM NobodyIsRebasedInSilence == Spec => []NoSilentRebase
<1>1. IInv => NoSilentRebase
  BY DEF IInv
<1> QED
  BY <1>1, Inductive, PTL
=============================================================================
