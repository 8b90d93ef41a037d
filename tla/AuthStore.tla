------------------------------ MODULE AuthStore ------------------------------
(***************************************************************************)
(* The credentials file (src/auth.cpp): save_credentials of several        *)
(* processes, which may crash or run out of disk, and load_credentials.    *)
(* Names lead to inodes, for all savers use the same ".tmp" name.          *)
(***************************************************************************)
EXTENDS Integers, Sequences

CONSTANTS
    Savers,   \* processes; the api key a saver stores is its own name
    MaxSaves, \* bound: saves
    NoFile, NoKey

Inodes == 1 .. MaxSaves
NamesFit == MaxSaves \in Nat /\ NoFile \notin Inodes

VARIABLES
    auth,    \* the inode auth.json leads to, or NoFile
    tmp,     \* the inode auth.json.tmp leads to, or NoFile
    data,    \* what is in an inode: a key, or NoKey for what does not parse
    step,    \* where a saver is
    out,     \* the inode a saver has open
    saves,   \* history: saves begun
    kept,    \* history: the key of the last save that returned true
    alone    \* history: no save has begun while another was under way

authVars == <<auth, tmp, data, step, out, saves, kept, alone>>

TypeOK ==
    /\ {auth, tmp} \subseteq Inodes \cup {NoFile}
    /\ data \in [Inodes -> Savers \cup {NoKey}]
    /\ step \in [Savers -> {"idle", "opened", "written"}]
    /\ saves \in 0 .. MaxSaves /\ alone \in BOOLEAN

Init ==
    /\ auth = NoFile /\ tmp = NoFile
    /\ data = [i \in Inodes |-> NoKey]
    /\ step = [s \in Savers |-> "idle"] /\ out = [s \in Savers |-> NoFile]
    /\ saves = 0 /\ kept = NoKey /\ alone = TRUE

-----------------------------------------------------------------------------
\* load_credentials.
Loaded == IF auth = NoFile THEN NoKey ELSE data[auth]

Step(s, from, to) == step[s] = from /\ step' = [step EXCEPT ![s] = to]

\* A bug: the file itself is opened.
OpenInPlace(s, inode) ==
    /\ auth' = inode /\ UNCHANGED tmp
    /\ inode = IF auth = NoFile THEN saves + 1 ELSE auth

\* ofstream with trunc: the file that has the name, or a new one.
Opened(s, inode) ==
    /\ tmp' = inode /\ UNCHANGED auth
    /\ inode = IF tmp = NoFile THEN saves + 1 ELSE tmp

Open(s) ==
    /\ saves < MaxSaves
    /\ Step(s, "idle", "opened")
    /\ \E inode \in Inodes :
        /\ Opened(s, inode)
        /\ data' = [data EXCEPT ![inode] = NoKey]
        /\ out' = [out EXCEPT ![s] = inode]
    /\ saves' = saves + 1
    /\ alone' = (alone /\ \A t \in Savers : step[t] = "idle")
    /\ UNCHANGED kept

\* A key that another saver has put into the same file meanwhile may stick out
\* behind a shorter one.
Write(s) ==
    /\ Step(s, "opened", "written")
    /\ \E found \in {s} \cup (IF data[out[s]] \in {s, NoKey} THEN {} ELSE {NoKey}) :
        data' = [data EXCEPT ![out[s]] = found]
    /\ UNCHANGED <<auth, tmp, out, saves, kept, alone>>

\* No room: the name is removed, whosever file it is by now.
WriteFails(s) ==
    /\ Step(s, "opened", "idle")
    /\ tmp' = NoFile
    /\ UNCHANGED <<auth, data, out, saves, kept, alone>>

Rename(s) ==
    /\ Step(s, "written", "idle")
    /\ tmp # NoFile
    /\ auth' = tmp /\ tmp' = NoFile
    /\ kept' = s
    /\ UNCHANGED <<data, out, saves, alone>>

\* An error, for one when another saver has taken the file along: the name is
\* removed and save_credentials returns false.
RenameFails(s) ==
    /\ Step(s, "written", "idle")
    /\ tmp' = NoFile
    /\ UNCHANGED <<auth, data, out, saves, kept, alone>>

\* The process ends between two of its calls.
Crash(s) ==
    /\ step[s] # "idle" /\ step' = [step EXCEPT ![s] = "idle"]
    /\ UNCHANGED <<auth, tmp, data, out, saves, kept, alone>>

Next == \E s \in Savers : Open(s) \/ Write(s) \/ WriteFails(s) \/ Rename(s) \/ RenameFails(s) \/ Crash(s)

Spec == Init /\ [][Next]_authVars

-----------------------------------------------------------------------------
\* As long as saves come one after the other, each of which may crash or fail
\* between its open, its write and its rename, load finds the key of the last one
\* that returned true (auth.cpp 36-106).  Overlapping savers share the temporary
\* file: for them the "written atomically" of auth.h 30 does not hold, and nothing
\* is said here.
CredentialsSurvive == alone => Loaded = kept
=============================================================================
