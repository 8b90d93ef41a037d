--------------------------- MODULE ClientPartsProofs ---------------------------
(* Theorems about the parts of the zvmh process, side by side: for any number *)
(* of turns, frames, processes and saves.                                     *)
EXTENDS ClientParts, WellFoundedInduction, SequenceTheorems, TLAPS

\* The turns whose thread has not yet cleared busy_.
Live(t) == thread[t] \in {"running", "returned"}

\* busy_ covers the one turn that is live, and shuts the dialog out.
BusyCovers ==
    /\ \A t \in Loop!Turns : Live(t) => busy
    /\ \A t, u \in Loop!Turns : Live(t) /\ Live(u) => t = u
    /\ dialog # "closed" => ~busy
    /\ ~disturbed

\* While an Escape is handled the dialog has no keys.
EscapeIsAlone == loop = "escape" => dialog = "closed"

LoopInv == Loop!TypeOK /\ BusyCovers /\ EscapeIsAlone

LEMMA Idle ==
    ASSUME BusyCovers, ~busy
    PROVE  Loop!Running = {}
  BY DEF BusyCovers, Live, Loop!Running

LEMMA KeysStep ==
    ASSUME LoopInv, ~busy,
           \/ \E command \in Loop!Commands : Loop!SubmitCommand(command)
           \/ Loop!SubmitPrompt \/ Loop!EscapeIdle
    PROVE  LoopInv'
<1> USE DEF LoopInv, Loop!TypeOK, BusyCovers, EscapeIsAlone, Live
<1>1. ASSUME NEW command \in Loop!Commands, Loop!SubmitCommand(command) PROVE LoopInv'
  <2>1. Loop!Running = {}
    BY Idle
  <2>2. disturbed' = FALSE
    BY <1>1, <2>1 DEF Loop!SubmitCommand, Loop!CallsAgent
  <2> QED
    BY <1>1, <2>2 DEF Loop!SubmitCommand, Loop!Free
<1>2. CASE Loop!SubmitPrompt
  <2>1. PICK t \in Loop!Turns : thread' = [thread EXCEPT ![t] = "running"]
    BY <1>2 DEF Loop!SubmitPrompt
  <2>2. \A u \in Loop!Turns : ~(thread[u] \in {"running", "returned"})
    OBVIOUS
  <2>3. \A u \in Loop!Turns : thread'[u] \in {"running", "returned"} => u = t
    BY <2>1, <2>2
  <2>4. Loop!TypeOK'
    BY <1>2, <2>1 DEF Loop!SubmitPrompt
  <2> QED
    BY <1>2, <2>3, <2>4 DEF Loop!SubmitPrompt, Loop!Free
<1>3. CASE Loop!EscapeIdle
  BY <1>3 DEF Loop!EscapeIdle, Loop!Free
<1> QED
  BY <1>1, <1>2, <1>3

LEMMA EscapeStep ==
    ASSUME LoopInv, Loop!EscapeSeesBusy \/ Loop!EscapeArms \/ Loop!EscapeCancels
    PROVE  LoopInv'
<1> USE DEF LoopInv, Loop!TypeOK, BusyCovers, EscapeIsAlone, Live
<1>1. CASE Loop!EscapeSeesBusy
  BY <1>1 DEF Loop!EscapeSeesBusy, Loop!Free
<1>2. CASE Loop!EscapeArms
  BY <1>2 DEF Loop!EscapeArms
<1>3. CASE Loop!EscapeCancels
  BY <1>3 DEF Loop!EscapeCancels
<1> QED
  BY <1>1, <1>2, <1>3

LEMMA DialogStep ==
    ASSUME LoopInv, Loop!DialogReturn \/ Loop!DialogEscape
    PROVE  LoopInv'
<1> USE DEF LoopInv, Loop!TypeOK, BusyCovers, EscapeIsAlone, Live
<1>1. dialog # "closed" /\ Loop!Running = {}
  BY Idle DEF Loop!DialogReturn, Loop!DialogEscape
<1>2. CASE Loop!DialogReturn
  <2>1. disturbed' = FALSE
    BY <1>1, <1>2 DEF Loop!DialogReturn, Loop!CallsAgent
  <2>2. dialog' \in {"key", "closed"} /\ loop = "idle" /\ UNCHANGED <<busy, armed, loop, thread, presses>>
    BY <1>2, Zenon DEF Loop!DialogReturn, Loop!Ask
  <2> QED
    BY <1>1, <2>1, <2>2
<1>3. CASE Loop!DialogEscape
  BY <1>1, <1>3 DEF Loop!DialogEscape, Loop!Ask
<1> QED
  BY <1>2, <1>3

LEMMA TurnStep ==
    ASSUME LoopInv, NEW t \in Loop!Turns, Loop!TurnReturns(t) \/ Loop!TurnReleases(t) \/ Loop!TurnDisarms(t)
    PROVE  LoopInv'
<1> USE DEF LoopInv, Loop!TypeOK, BusyCovers, EscapeIsAlone, Live
<1>1. CASE Loop!TurnReturns(t)
  BY <1>1 DEF Loop!TurnReturns, Loop!Step
<1>2. CASE Loop!TurnReleases(t)
  BY <1>2 DEF Loop!TurnReleases, Loop!Step
<1>3. CASE Loop!TurnDisarms(t)
  BY <1>3 DEF Loop!TurnDisarms, Loop!Step
<1> QED
  BY <1>1, <1>2, <1>3

LEMMA LoopInvariant == Loop!Spec => []LoopInv
<1>1. Loop!Init => LoopInv
  <2> SUFFICES ASSUME Loop!Init PROVE LoopInv
    OBVIOUS
  <2>1. Loop!TypeOK
    BY DEF Loop!Init, Loop!TypeOK
  <2>2. \A t \in Loop!Turns : ~Live(t)
    BY DEF Loop!Init, Live
  <2> QED
    BY <2>1, <2>2, Zenon DEF Loop!Init, LoopInv, BusyCovers, EscapeIsAlone
<1>2. LoopInv /\ [Loop!Next]_Loop!turnVars => LoopInv'
  <2> SUFFICES ASSUME LoopInv, [Loop!Next]_Loop!turnVars PROVE LoopInv'
    OBVIOUS
  <2>1. ASSUME NEW command \in Loop!Commands, Loop!SubmitCommand(command) PROVE LoopInv'
    BY <2>1, KeysStep DEF Loop!SubmitCommand
  <2>2. CASE Loop!SubmitPrompt
    BY <2>2, KeysStep DEF Loop!SubmitPrompt
  <2>3. CASE Loop!EscapeIdle
    BY <2>3, KeysStep DEF Loop!EscapeIdle
  <2>4. CASE Loop!EscapeSeesBusy \/ Loop!EscapeArms \/ Loop!EscapeCancels
    BY <2>4, EscapeStep
  <2>5. CASE Loop!DialogReturn \/ Loop!DialogEscape
    BY <2>5, DialogStep
  <2>6. ASSUME NEW t \in Loop!Turns, Loop!TurnReturns(t) \/ Loop!TurnReleases(t) \/ Loop!TurnDisarms(t) PROVE LoopInv'
    BY <2>6, TurnStep
  <2>7. CASE Loop!Interrupt
    BY <2>7 DEF Loop!Interrupt, LoopInv, Loop!TypeOK, BusyCovers, EscapeIsAlone, Live
  <2>8. CASE UNCHANGED Loop!turnVars
    BY <2>8 DEF Loop!turnVars, LoopInv, Loop!TypeOK, BusyCovers, EscapeIsAlone, Live
  <2> QED
    BY <2>1, <2>2, <2>3, <2>4, <2>5, <2>6, <2>7, <2>8 DEF Loop!Next
<1> QED
  BY <1>1, <1>2, PTL DEF Loop!Spec

\* The flags, the dialog and the turns keep their types (tui.cpp 346-379).
THEOREM LoopTypes == Loop!Spec => []Loop!TypeOK
  BY LoopInvariant, PTL DEF LoopInv

\* However many turns are submitted, one thread at a time is in run_turn and
\* nothing else reaches the Agent meanwhile: busy_, cleared by the turn's thread
\* and read by the event loop without a lock, is enough (tui.cpp 738-1441, 1505-1535).
THEOREM AgentHasOneCaller == Loop!Spec => []Loop!TurnUndisturbed
<1>1. LoopInv => Loop!TurnUndisturbed
  <2> SUFFICES ASSUME LoopInv PROVE Loop!TurnUndisturbed
    OBVIOUS
  <2>1. \A t, u \in Loop!Running : t = u
    BY DEF LoopInv, BusyCovers, Live, Loop!Running
  <2>2. dialog # "closed" => Loop!Running = {}
    BY Idle DEF LoopInv, BusyCovers
  <2> QED
    BY <2>1, <2>2 DEF Loop!TurnUndisturbed, LoopInv, BusyCovers
<1> QED
  BY <1>1, LoopInvariant, PTL

-----------------------------------------------------------------------------
\* What holds of the files as long as saves come one after the other: the name in
\* use is never that of the temporary file, both are older than the next save, and
\* the one saver under way has the temporary file open.
Apart ==
    /\ auth # NoFile => auth # tmp /\ auth <= saves
    /\ tmp # NoFile => tmp <= saves
    /\ \A s, t \in Savers : step[s] # "idle" /\ step[t] # "idle" => s = t
    /\ \A s \in Savers : step[s] # "idle" => tmp # NoFile /\ out[s] = tmp
    /\ \A s \in Savers : step[s] = "opened" => data[tmp] = NoKey
    /\ \A s \in Savers : step[s] = "written" => data[tmp] = s
    /\ Auth!Loaded = kept

Shaped == Auth!TypeOK /\ out \in [Savers -> Auth!Inodes \cup {NoFile}]
AuthInv == Shaped /\ (\A s \in Savers : step[s] # "idle" => out[s] # NoFile) /\ (alone => Apart)

\* A save begins in a file of its own: the key that is loaded stays as it was.
LEMMA OpenStep ==
    ASSUME Auth!NamesFit, AuthInv, NEW s \in Savers, Auth!Open(s)
    PROVE  AuthInv'
<1> USE DEF Auth!NamesFit, AuthInv, Shaped, Auth!TypeOK, Auth!Step
<1>1. PICK inode \in Auth!Inodes :
          /\ Auth!Opened(s, inode)
          /\ data' = [data EXCEPT ![inode] = NoKey]
          /\ out' = [out EXCEPT ![s] = inode]
  BY DEF Auth!Open
<1>2. Shaped'
  BY <1>1 DEF Auth!Open, Auth!Opened, Auth!Inodes
<1>3. \A t \in Savers : step'[t] # "idle" => out'[t] # NoFile
  BY <1>1 DEF Auth!Open
<1>4. ASSUME alone' PROVE Apart'
  <2>1. alone /\ Apart /\ \A t \in Savers : step[t] = "idle"
    BY <1>4 DEF Auth!Open
  <2>2. tmp' = inode /\ auth' = auth /\ inode # auth /\ inode <= saves'
    <3>1. tmp' = inode /\ auth' = auth /\ saves' = saves + 1 /\ saves \in Nat
      BY <1>1 DEF Auth!Open, Auth!Opened
    <3>2. inode = IF tmp = NoFile THEN saves + 1 ELSE tmp
      BY <1>1 DEF Auth!Opened
    <3>3. auth \in Auth!Inodes => auth # tmp /\ auth <= saves
      BY <2>1 DEF Apart
    <3>4. tmp \in Auth!Inodes => tmp <= saves
      BY <2>1 DEF Apart
    <3>5. inode # auth
      <4>1. CASE auth = NoFile
        BY <4>1
      <4>2. CASE auth \in Auth!Inodes /\ tmp = NoFile
        <5>1. auth \in Nat /\ auth <= saves /\ inode = saves + 1
          BY <3>2, <3>3, <4>2 DEF Auth!Inodes
        <5> QED
          BY <3>1, <5>1
      <4>3. CASE auth \in Auth!Inodes /\ tmp # NoFile
        BY <3>2, <3>3, <4>3
      <4> QED
        BY <4>1, <4>2, <4>3
    <3>6. inode <= saves'
      <4>1. CASE tmp = NoFile
        BY <3>1, <3>2, <4>1
      <4>2. CASE tmp \in Auth!Inodes
        <5>1. inode = tmp /\ inode <= saves /\ inode \in Nat
          BY <3>2, <3>4, <4>2 DEF Auth!Inodes
        <5> QED
          BY <3>1, <5>1
      <4> QED
        BY <4>1, <4>2
    <3> QED
      BY <3>1, <3>5, <3>6
  <2>3. Auth!Loaded' = kept'
    BY <1>1, <2>1, <2>2 DEF Auth!Open, Apart, Auth!Loaded
  <2>4. auth' # NoFile => auth' # tmp' /\ auth' <= saves'
    BY <2>1, <2>2 DEF Auth!Open, Apart, Auth!Inodes
  <2>5. \A t \in Savers : step'[t] # "idle" => t = s /\ step'[t] = "opened"
    BY <2>1 DEF Auth!Open
  <2>6. data'[tmp'] = NoKey
    BY <1>1, <2>2
  <2> QED
    BY <1>1, <2>2, <2>3, <2>4, <2>5, <2>6 DEF Apart
<1> QED
  BY <1>2, <1>3, <1>4

LEMMA WriteStep ==
    ASSUME Auth!NamesFit, AuthInv, NEW s \in Savers, Auth!Write(s)
    PROVE  AuthInv'
<1> USE DEF Auth!NamesFit, AuthInv, Shaped, Auth!TypeOK, Auth!Step, Auth!Write
<1>1. out[s] \in Auth!Inodes
  OBVIOUS
<1>2. data' \in [Auth!Inodes -> Savers \cup {NoKey}]
  BY <1>1
<1>3. ASSUME alone' PROVE Apart'
  <2>1. /\ tmp = out[s] /\ tmp # NoFile /\ auth # tmp
        /\ data[out[s]] = NoKey /\ data' = [data EXCEPT ![out[s]] = s]
    BY <1>3 DEF Apart
  <2>2. Auth!Loaded' = kept'
    BY <1>3, <2>1 DEF Apart, Auth!Loaded
  <2>3. data'[tmp'] = s
    BY <1>1, <2>1
  <2>4. \A t \in Savers : step'[t] # "idle" => t = s
    BY <1>3 DEF Apart
  <2> QED
    BY <1>3, <2>1, <2>2, <2>3, <2>4 DEF Apart
<1> QED
  BY <1>2, <1>3

LEMMA EndStep ==
    ASSUME Auth!NamesFit, AuthInv, NEW s \in Savers,
           Auth!WriteFails(s) \/ Auth!Rename(s) \/ Auth!RenameFails(s) \/ Auth!Crash(s)
    PROVE  AuthInv'
<1> USE DEF Auth!NamesFit, AuthInv, Shaped, Auth!TypeOK, Auth!Step
<1>1. CASE Auth!Rename(s)
  <2>1. Shaped' /\ \A t \in Savers : step'[t] # "idle" => out'[t] # NoFile
    BY <1>1 DEF Auth!Rename
  <2>2. ASSUME alone' PROVE Apart'
    <3>1. Auth!Loaded' = kept'
      BY <1>1, <2>2 DEF Auth!Rename, Apart, Auth!Loaded
    <3>2. \A t \in Savers : step'[t] = "idle"
      BY <1>1, <2>2 DEF Auth!Rename, Apart
    <3> QED
      BY <1>1, <2>2, <3>1, <3>2 DEF Auth!Rename, Apart
  <2> QED
    BY <2>1, <2>2
<1>2. CASE Auth!WriteFails(s) \/ Auth!RenameFails(s)
  <2>1. Shaped' /\ \A t \in Savers : step'[t] # "idle" => out'[t] # NoFile
    BY <1>2 DEF Auth!WriteFails, Auth!RenameFails
  <2>2. ASSUME alone' PROVE Apart'
    <3>1. \A t \in Savers : step'[t] = "idle"
      BY <1>2, <2>2 DEF Auth!WriteFails, Auth!RenameFails, Apart
    <3>2. Auth!Loaded' = kept'
      BY <1>2, <2>2 DEF Auth!WriteFails, Auth!RenameFails, Apart, Auth!Loaded
    <3>3. tmp' = NoFile /\ auth' = auth /\ saves' = saves
      BY <1>2 DEF Auth!WriteFails, Auth!RenameFails
    <3>4. auth # NoFile => auth <= saves
      BY <1>2, <2>2 DEF Auth!WriteFails, Auth!RenameFails, Apart
    <3> QED
      BY <3>1, <3>2, <3>3, <3>4 DEF Apart
  <2> QED
    BY <2>1, <2>2
<1>3. CASE Auth!Crash(s)
  BY <1>3 DEF Auth!Crash, Apart, Auth!Loaded
<1> QED
  BY <1>1, <1>2, <1>3

LEMMA AuthInvariant == ASSUME Auth!NamesFit PROVE Auth!Spec => []AuthInv
<1>1. Auth!Init => AuthInv
  BY Auth!NamesFit DEF Auth!NamesFit, Auth!Init, AuthInv, Shaped, Auth!TypeOK, Apart, Auth!Loaded
<1>2. AuthInv /\ [Auth!Next]_Auth!authVars => AuthInv'
  <2> SUFFICES ASSUME AuthInv, [Auth!Next]_Auth!authVars PROVE AuthInv'
    OBVIOUS
  <2>1. ASSUME NEW s \in Savers, Auth!Open(s) PROVE AuthInv'
    BY <2>1, Auth!NamesFit, OpenStep
  <2>2. ASSUME NEW s \in Savers, Auth!Write(s) PROVE AuthInv'
    BY <2>2, Auth!NamesFit, WriteStep
  <2>3. ASSUME NEW s \in Savers, Auth!WriteFails(s) \/ Auth!Rename(s) \/ Auth!RenameFails(s) \/ Auth!Crash(s)
        PROVE AuthInv'
    BY <2>3, Auth!NamesFit, EndStep
  <2>4. CASE UNCHANGED Auth!authVars
    BY <2>4 DEF Auth!authVars, AuthInv, Shaped, Auth!TypeOK, Apart, Auth!Loaded
  <2> QED
    BY <2>1, <2>2, <2>3, <2>4 DEF Auth!Next
<1> QED
  BY <1>1, <1>2, PTL DEF Auth!Spec

\* Names lead to inodes and inodes hold a key or garbage (auth.cpp 36-106).
THEOREM AuthTypes == ASSUME Auth!NamesFit PROVE Auth!Spec => []Auth!TypeOK
<1>1. AuthInv => Auth!TypeOK
  BY DEF AuthInv, Shaped
<1> QED
  BY <1>1, Auth!NamesFit, AuthInvariant, PTL

\* However many processes save, crash and run out of room: as long as no save has
\* begun while another was under way, the key that is loaded is that of the last
\* save that returned true, and never a torn file (auth.h 30, auth.cpp 66-106).
THEOREM SavedKeysSurvive == ASSUME Auth!NamesFit PROVE Auth!Spec => []Auth!CredentialsSurvive
<1>1. AuthInv => Auth!CredentialsSurvive
  BY DEF AuthInv, Apart, Auth!CredentialsSurvive
<1> QED
  BY <1>1, Auth!NamesFit, AuthInvariant, PTL

-----------------------------------------------------------------------------
(* The handshake: the pieces that were sent and not yet used are a chain. *)

Pieces == Nat \X Nat

\* A piece of one of the frames s, and the piece that comes behind it.
IsPiece(s, x) ==
    /\ x \in Pieces
    /\ x[1] \in 1 .. Len(s) /\ x[2] \in 1 .. Handshake!Size(s[x[1]])
Ends(s, x) == x[2] = Handshake!Size(s[x[1]])
After(s, x) == IF Ends(s, x) THEN <<x[1] + 1, 1>> ELSE <<x[1], x[2] + 1>>

\* Pieces none of which is missing.
Chain(s, q) ==
    /\ q \in Seq(Pieces)
    /\ \A k \in 1 .. Len(q) : IsPiece(s, q[k])
    /\ \A k \in 1 .. Len(q) - 1 : q[k + 1] = After(s, q[k])

\* The chain q ends where e begins; where a chain begins that e follows.
Linked(s, q, e) == Len(q) > 0 => After(s, q[Len(q)]) = e
First(q, e) == IF Len(q) > 0 THEN q[1] ELSE e

LEMMA Joins ==
    ASSUME NEW s, NEW q, NEW r, NEW e,
           Chain(s, q), Chain(s, r), Linked(s, q, First(r, e)), Linked(s, r, e)
    PROVE  /\ Chain(s, q \o r) /\ Linked(s, q \o r, e)
           /\ First(q \o r, e) = First(q, First(r, e))
<1>1. q \in Seq(Pieces) /\ r \in Seq(Pieces)
  BY DEF Chain
<1>2. /\ q \o r \in Seq(Pieces)
      /\ Len(q \o r) = Len(q) + Len(r)
      /\ \A i \in 1 .. Len(q) + Len(r) : (q \o r)[i] = IF i <= Len(q) THEN q[i] ELSE r[i - Len(q)]
  BY <1>1, ConcatProperties
<1>3. Len(q) \in Nat /\ Len(r) \in Nat
  BY <1>1
<1>4. ASSUME NEW k \in 1 .. Len(q \o r) PROVE IsPiece(s, (q \o r)[k])
  <2>1. k <= Len(q) \/ k - Len(q) \in 1 .. Len(r)
    BY <1>2, <1>3
  <2> QED
    BY <1>2, <1>3, <2>1 DEF Chain
<1>5. ASSUME NEW k \in 1 .. Len(q \o r) - 1 PROVE (q \o r)[k + 1] = After(s, (q \o r)[k])
  <2>1. CASE k < Len(q)
    <3>1. k \in 1 .. Len(q) - 1 /\ (q \o r)[k] = q[k] /\ (q \o r)[k + 1] = q[k + 1]
      BY <1>2, <1>3, <2>1
    <3> QED
      BY <3>1 DEF Chain
  <2>2. CASE k = Len(q)
    <3>1. (q \o r)[k] = q[k] /\ (q \o r)[k + 1] = r[1] /\ Len(r) > 0 /\ Len(q) > 0
      BY <1>2, <1>3, <2>2
    <3> QED
      BY <2>2, <3>1 DEF Linked, First
  <2>3. CASE k > Len(q)
    <3> DEFINE j == k - Len(q)
    <3>1. j \in 1 .. Len(r) - 1 /\ (q \o r)[k] = r[j] /\ (q \o r)[k + 1] = r[j + 1]
      BY <1>2, <1>3, <2>3
    <3> HIDE DEF j
    <3> QED
      BY <3>1 DEF Chain
  <2> QED
    BY <1>3, <2>1, <2>2, <2>3
<1>6. Linked(s, q \o r, e) /\ First(q \o r, e) = First(q, First(r, e))
  <2>1. CASE Len(r) > 0
    BY <1>2, <1>3, <2>1 DEF Linked, First
  <2>2. CASE Len(r) = 0
    BY <1>2, <1>3, <2>2 DEF Linked, First
  <2> QED
    BY <1>3, <2>1, <2>2
<1> QED
  BY <1>2, <1>4, <1>5, <1>6 DEF Chain

LEMMA Cuts ==
    ASSUME NEW s, NEW q, NEW e, NEW n \in 0 .. Len(q), Chain(s, q), Linked(s, q, e)
    PROVE  LET front == SubSeq(q, 1, n)
               rest == SubSeq(q, n + 1, Len(q))
           IN  /\ Chain(s, front) /\ Chain(s, rest)
               /\ Linked(s, front, First(rest, e)) /\ Linked(s, rest, e)
               /\ First(front, First(rest, e)) = First(q, e)
               /\ Len(front) = n /\ Len(rest) = Len(q) - n
               /\ \A k \in 1 .. n : front[k] = q[k]
<1> DEFINE front == SubSeq(q, 1, n)
           rest == SubSeq(q, n + 1, Len(q))
<1>1. q \in Seq(Pieces) /\ Len(q) \in Nat /\ n \in Nat
  BY DEF Chain
<1>2. /\ front \in Seq(Pieces) /\ Len(front) = n
      /\ \A i \in 1 .. n : front[i] = q[i]
  <2>1. \A i \in 1 .. n : q[i] \in Pieces
    BY <1>1
  <2> QED
    BY <1>1, <2>1
<1>3. /\ rest \in Seq(Pieces) /\ Len(rest) = Len(q) - n
      /\ \A i \in 1 .. Len(q) - n : rest[i] = q[n + i]
  <2>1. \A i \in n + 1 .. Len(q) : q[i] \in Pieces
    BY <1>1
  <2> QED
    BY <1>1, <2>1
<1> HIDE DEF front, rest
<1>4. Chain(s, front)
  BY <1>1, <1>2 DEF Chain
<1>5. Chain(s, rest)
  <2>1. ASSUME NEW k \in 1 .. Len(rest) - 1 PROVE rest[k + 1] = After(s, rest[k])
    <3>1. rest[k] = q[n + k] /\ rest[k + 1] = q[(n + k) + 1] /\ n + k \in 1 .. Len(q) - 1
      BY <1>1, <1>3
    <3> QED
      BY <3>1 DEF Chain
  <2>2. ASSUME NEW k \in 1 .. Len(rest) PROVE IsPiece(s, rest[k])
    BY <1>1, <1>3 DEF Chain
  <2> QED
    BY <1>3, <2>1, <2>2 DEF Chain
<1>6. Linked(s, front, First(rest, e))
  <2>1. CASE n = Len(q)
    BY <1>1, <1>2, <1>3, <2>1 DEF Linked, First
  <2>2. CASE n < Len(q) /\ n > 0
    <3>1. q[n + 1] = After(s, q[n])
      BY <1>1, <2>2 DEF Chain
    <3> QED
      BY <1>1, <1>2, <1>3, <2>2, <3>1 DEF Linked, First
  <2> QED
    BY <1>1, <1>2, <2>1, <2>2 DEF Linked
<1>7. Linked(s, rest, e)
  BY <1>1, <1>3 DEF Linked
<1>8. First(front, First(rest, e)) = First(q, e)
  BY <1>1, <1>2, <1>3 DEF First
<1> QED
  BY <1>2, <1>3, <1>4, <1>5, <1>6, <1>7, <1>8 DEF front, rest

\* What was sent is not changed by what is sent behind it.
LEMMA Grows ==
    ASSUME NEW s \in Seq(Handshake!Kinds), NEW kind \in Handshake!Kinds,
           NEW q, NEW e, Chain(s, q), Linked(s, q, e)
    PROVE  Chain(Append(s, kind), q) /\ Linked(Append(s, kind), q, e)
<1>1. Len(Append(s, kind)) = Len(s) + 1 /\ \A i \in 1 .. Len(s) : Append(s, kind)[i] = s[i]
  OBVIOUS
<1>2. q \in Seq(Pieces) /\ Len(q) \in Nat
  BY DEF Chain
<1>3. ASSUME NEW k \in 1 .. Len(q)
      PROVE  IsPiece(Append(s, kind), q[k]) /\ After(Append(s, kind), q[k]) = After(s, q[k])
  <2>1. IsPiece(s, q[k])
    BY DEF Chain
  <2> QED
    BY <1>1, <2>1 DEF IsPiece, After, Ends
<1>4. \A k \in 1 .. Len(q) - 1 : q[k + 1] = After(Append(s, kind), q[k])
  BY <1>2, <1>3 DEF Chain
<1> QED
  BY <1>2, <1>3, <1>4 DEF Chain, Linked

LEMMA SizeFits ==
    ASSUME NEW kind
    PROVE  Handshake!Size(kind) \in Nat /\ Handshake!Size(kind) >= 2
  BY HandshakeAssumption DEF Handshake!Size, Handshake!LimitsFit

\* The pieces of a new frame.
LEMMA NewFrame ==
    ASSUME NEW s \in Seq(Handshake!Kinds), NEW kind \in Handshake!Kinds
    PROVE  LET frame == [p \in 1 .. Handshake!Size(kind) |-> <<Len(s) + 1, p>>]
               grown == Append(s, kind)
           IN  /\ Chain(grown, frame) /\ Linked(grown, frame, <<Len(grown) + 1, 1>>)
               /\ \A e : First(frame, e) = <<Len(s) + 1, 1>>
<1> DEFINE size == Handshake!Size(kind)
           grown == Append(s, kind)
           frame == [p \in 1 .. size |-> <<Len(s) + 1, p>>]
<1>1. size \in Nat /\ size >= 2
  BY SizeFits
<1>2. /\ Len(grown) = Len(s) + 1 /\ grown[Len(s) + 1] = kind /\ Len(s) \in Nat
  OBVIOUS
<1> HIDE DEF size
<1>3. /\ frame \in Seq(Pieces) /\ Len(frame) = size
      /\ \A p \in 1 .. size : frame[p] = <<Len(s) + 1, p>>
  BY <1>1, <1>2 DEF Pieces
<1> HIDE DEF frame, grown
<1>4. ASSUME NEW p \in 1 .. size
      PROVE  /\ IsPiece(grown, frame[p])
             /\ After(grown, frame[p]) = IF p = size THEN <<Len(s) + 2, 1>> ELSE <<Len(s) + 1, p + 1>>
  <2>1. Handshake!Size(grown[Len(s) + 1]) = size
    BY <1>2 DEF size
  <2>2. frame[p] = <<Len(s) + 1, p>> /\ frame[p][1] = Len(s) + 1 /\ frame[p][2] = p
    BY <1>3
  <2>3. Ends(grown, frame[p]) <=> p = size
    BY <2>1, <2>2 DEF Ends
  <2>4. IsPiece(grown, frame[p])
    BY <1>1, <1>2, <2>1, <2>2 DEF IsPiece, Pieces
  <2>5. (Len(s) + 1) + 1 = Len(s) + 2
    BY <1>2
  <2> QED
    BY <2>2, <2>3, <2>4, <2>5 DEF After
<1>5. Chain(grown, frame)
  <2>1. ASSUME NEW k \in 1 .. Len(frame) - 1 PROVE frame[k + 1] = After(grown, frame[k])
    <3>1. k \in 1 .. size /\ k + 1 \in 1 .. size /\ k # size
      BY <1>1, <1>3
    <3> QED
      BY <1>3, <1>4, <3>1
  <2> QED
    BY <1>3, <1>4, <2>1 DEF Chain
<1>6. Linked(grown, frame, <<Len(grown) + 1, 1>>)
  BY <1>1, <1>2, <1>3, <1>4 DEF Linked
<1>7. \A e : First(frame, e) = <<Len(s) + 1, 1>>
  BY <1>1, <1>3 DEF First
<1> QED
  BY <1>5, <1>6, <1>7 DEF frame, grown, size

\* In a set of places, one is the first.
LEMMA FirstPlace ==
    ASSUME NEW T, T \subseteq Nat, T # {}
    PROVE  \E i \in T : \A j \in T : ~(j < i)
<1> DEFINE Less == OpToRel(<, Nat)
<1>1. IsWellFoundedOn(Less, Nat)
  BY NatLessThanWellFounded
<1>2. PICK i \in T : \A j \in T : <<j, i>> \notin Less
  <2> HIDE DEF Less
  <2> QED BY <1>1, WFMin
<1>3. \A j \in T : ~(j < i)
  BY <1>2 DEF OpToRel
<1> QED
  BY <1>3

\* Up to its first newline a chain is the rest of one frame, and the next frame is due.
LEMMA LineIsRest ==
    ASSUME NEW s \in Seq(Handshake!Kinds), NEW q, Chain(s, q),
           NEW n \in 1 .. Len(q), Ends(s, q[n]), \A j \in 1 .. n - 1 : ~Ends(s, q[j])
    PROVE  /\ n = Handshake!Size(s[q[1][1]]) - q[1][2] + 1
           /\ After(s, q[n]) = <<q[1][1] + 1, 1>>
<1> DEFINE f == q[1][1]
           p == q[1][2]
           T == {k \in 1 .. n : q[k] # <<f, (p + k) - 1>>}
<1>1. Len(q) \in Nat /\ n \in Nat /\ n >= 1
  BY DEF Chain
<1>2. \A k \in 1 .. n : q[k] \in Pieces /\ q[k][1] \in Nat /\ q[k][2] \in Nat /\ q[k] = <<q[k][1], q[k][2]>>
  BY DEF Chain, IsPiece, Pieces
<1>3. f \in Nat /\ p \in Nat /\ q[1] = <<f, p>>
  BY <1>1, <1>2
<1> HIDE DEF f, p
<1>4. T = {}
  <2> SUFFICES ASSUME T # {} PROVE FALSE
    OBVIOUS
  <2>1. PICK k \in T : \A j \in T : ~(j < k)
    <3>1. T \subseteq Nat
      BY <1>1
    <3> HIDE DEF T
    <3> QED
      BY <3>1, FirstPlace
  <2>2. k # 1
    <3>1. q[1] = <<f, (p + 1) - 1>>
      BY <1>3
    <3> QED
      BY <2>1, <3>1
  <2>3. k - 1 \in 1 .. n /\ k - 1 \in 1 .. n - 1 /\ k - 1 \in 1 .. Len(q) - 1 /\ (k - 1) + 1 = k
    BY <1>1, <2>2
  <2>4. q[k - 1] = <<f, (p + (k - 1)) - 1>>
    BY <2>1, <2>3
  <2>5. q[k] = After(s, q[k - 1]) /\ ~Ends(s, q[k - 1])
    BY <2>3 DEF Chain
  <2>6. q[k] = <<f, ((p + (k - 1)) - 1) + 1>>
    BY <2>4, <2>5 DEF After
  <2>7. ((p + (k - 1)) - 1) + 1 = (p + k) - 1
    BY <1>1, <1>3
  <2> QED
    BY <2>1, <2>6, <2>7
<1>5. q[n] = <<f, (p + n) - 1>>
  BY <1>1, <1>4
<1>6. (p + n) - 1 = Handshake!Size(s[f])
  BY <1>5 DEF Ends
<1>7. After(s, q[n]) = <<f + 1, 1>>
  BY <1>5 DEF After
<1> QED
  BY <1>1, <1>6, <1>7, <1>3, SizeFits DEF f, p

-----------------------------------------------------------------------------
(* The invariant of the handshake. *)

ToCome == <<Len(frames) + 1, 1>>
InNet == First(net, ToCome)
InBuf == First(buf, InNet)

Unbroken ==
    /\ Chain(frames, net) /\ Linked(frames, net, ToCome)
    /\ Chain(frames, buf) /\ Linked(frames, buf, InNet)

\* What the handshake has received begins with the first frame.
FromStart ==
    /\ InBuf = <<1, 1>> /\ handled = <<>>
    /\ received = IF Len(buf) > 0 THEN buf[Len(buf)][1] ELSE 0

\* Behind it the next frame is due, from its first piece or, when the handshake has
\* taken the others with it, from a later one.
Latest == IF Len(handled) > 0 THEN handled[Len(handled)] ELSE received
InTurn ==
    \/ InBuf = <<Latest + 1, 1>>
    \/ Len(handled) = 0 /\ InBuf[1] = received /\ InBuf[2] > 1

FramesTyped ==
    /\ frames \in Seq(Handshake!Kinds) /\ Len(frames) <= MaxFrames
    /\ stage \in {"ack", "up", "failed", "over"}
    /\ ticks \in 0 .. MaxTicks /\ (stage = "ack" => ticks < MaxTicks)
    /\ received \in 0 .. MaxFrames /\ handled \in Seq(Nat)
    /\ Len(buf) <= Cap + Chunk

Due ==
    /\ stage \in {"ack", "failed"} => FromStart
    /\ stage \in {"up", "over"} => InTurn /\ Len(frames) > 0 /\ frames[1] = "hello_ack"

FramesInv == FramesTyped /\ Unbroken /\ Due /\ Handshake!LoopKeepsFrames

LEMMA FramesInit ==
    ASSUME Handshake!Init
    PROVE  FramesInv
<1> USE HandshakeAssumption DEF Handshake!LimitsFit, Handshake!Init
<1>1. FramesTyped
  BY DEF FramesTyped
<1>2. Unbroken
  BY DEF Unbroken, Chain, Linked, Pieces
<1>3. Due
  BY DEF Due, FromStart, InBuf, InNet, First, ToCome
<1>4. Handshake!LoopKeepsFrames
  BY DEF Handshake!LoopKeepsFrames
<1> QED
  BY <1>1, <1>2, <1>3, <1>4 DEF FramesInv

\* A frame is sent: the stream grows at its end.
LEMMA Sends ==
    ASSUME FramesInv, NEW kind \in Handshake!Kinds,
           Len(frames) < MaxFrames, frames' = Append(frames, kind),
           net' = net \o [p \in 1 .. Handshake!Size(kind) |-> <<Len(frames) + 1, p>>],
           UNCHANGED <<stage, buf, ticks, received, handled>>
    PROVE  FramesInv'
<1> DEFINE frame == [p \in 1 .. Handshake!Size(kind) |-> <<Len(frames) + 1, p>>]
           due == <<Len(frames') + 1, 1>>
<1>1. frames \in Seq(Handshake!Kinds) /\ Unbroken /\ net' = net \o frame
  BY DEF FramesInv, FramesTyped
<1>2. /\ frames' \in Seq(Handshake!Kinds) /\ Len(frames') = Len(frames) + 1
      /\ Len(frames) > 0 => frames'[1] = frames[1]
  BY <1>1
<1>3. /\ Chain(frames', frame) /\ Linked(frames', frame, due)
      /\ \A e : First(frame, e) = ToCome
  <2> HIDE DEF frame
  <2>1. /\ Chain(Append(frames, kind), frame)
        /\ Linked(Append(frames, kind), frame, <<Len(Append(frames, kind)) + 1, 1>>)
        /\ \A e : First(frame, e) = <<Len(frames) + 1, 1>>
    BY <1>1, NewFrame DEF frame
  <2> QED
    BY <2>1 DEF ToCome
<1> HIDE DEF frame
<1>4. /\ Chain(frames', net) /\ Linked(frames', net, ToCome)
      /\ Chain(frames', buf) /\ Linked(frames', buf, InNet)
  BY <1>1, Grows DEF Unbroken
<1>5. /\ Chain(frames', net') /\ Linked(frames', net', due)
      /\ First(net', due) = First(net, First(frame, due))
  <2> HIDE DEF due
  <2>1. Linked(frames', net, First(frame, due))
    BY <1>3, <1>4
  <2>2. Chain(frames', net) /\ Chain(frames', frame) /\ Linked(frames', frame, due)
    BY <1>3, <1>4
  <2>3. /\ Chain(frames', net \o frame) /\ Linked(frames', net \o frame, due)
        /\ First(net \o frame, due) = First(net, First(frame, due))
    BY <2>1, <2>2, Joins
  <2> QED
    BY <1>1, <2>3
<1>6. InNet' = InNet /\ InBuf' = InBuf
  BY <1>3, <1>5 DEF InNet, InBuf, ToCome, First
<1>7. Unbroken'
  BY <1>4, <1>5, <1>6 DEF Unbroken, ToCome
<1>8. Due'
  BY <1>2, <1>6 DEF FramesInv, Due, FromStart, InTurn, Latest
<1>9. FramesTyped' /\ Handshake!LoopKeepsFrames'
  BY <1>2, HandshakeAssumption
  DEF FramesInv, FramesTyped, Handshake!LoopKeepsFrames, Handshake!LimitsFit
<1> QED
  BY <1>7, <1>8, <1>9 DEF FramesInv

LEMMA SendStep ==
    ASSUME FramesInv, NEW kind \in Handshake!Kinds \ {"shutdown"}, Handshake!Send(kind)
    PROVE  FramesInv'
  BY Sends DEF Handshake!Send

LEMMA ShutdownStep ==
    ASSUME FramesInv, Handshake!Shutdown
    PROVE  FramesInv'
<1>1. Handshake!Size("shutdown") = 2 /\ "shutdown" \in Handshake!Kinds
  BY DEF Handshake!Size, Handshake!Kinds
<1>2. <<<<Len(frames) + 1, 1>>, <<Len(frames) + 1, 2>>>> = [p \in 1 .. 2 |-> <<Len(frames) + 1, p>>]
  OBVIOUS
<1> QED
  BY <1>1, <1>2, Sends DEF Handshake!Shutdown

\* A recv takes pieces from the net's front to the buffer's end.
LEMMA Receives ==
    ASSUME FramesInv, NEW n, Handshake!Receive(n), UNCHANGED frames, Len(buf) <= Cap
    PROVE  /\ Unbroken' /\ InBuf' = InBuf
           /\ Len(buf') <= Cap + Chunk
           /\ Len(buf') > 0 /\ buf'[Len(buf')] = net[n] /\ net[n][1] \in 1 .. MaxFrames
<1> DEFINE front == SubSeq(net, 1, n)
           rest == SubSeq(net, n + 1, Len(net))
<1>1. /\ Chunk \in Nat /\ Cap \in Nat /\ MaxFrames \in Nat
      /\ n \in 1 .. Chunk /\ n <= Len(net) /\ buf' = buf \o front /\ net' = rest
  BY HandshakeAssumption DEF Handshake!LimitsFit, Handshake!Receive
<1>2. /\ Chain(frames, net) /\ Linked(frames, net, ToCome)
      /\ Chain(frames, buf) /\ Linked(frames, buf, InNet)
  BY DEF FramesInv, Unbroken
<1>3. net \in Seq(Pieces) /\ buf \in Seq(Pieces) /\ Len(net) \in Nat /\ Len(buf) \in Nat
  BY <1>2 DEF Chain
<1>4. n \in 0 .. Len(net) /\ n \in 1 .. Len(net)
  BY <1>1, <1>3
<1>5. /\ Chain(frames, front) /\ Chain(frames, rest)
      /\ Linked(frames, front, First(rest, ToCome)) /\ Linked(frames, rest, ToCome)
      /\ First(front, First(rest, ToCome)) = First(net, ToCome)
      /\ Len(front) = n /\ \A k \in 1 .. n : front[k] = net[k]
  <2> HIDE DEF ToCome
  <2> QED BY <1>2, <1>4, Cuts
<1> HIDE DEF front, rest
<1>6. Linked(frames, buf, First(front, First(rest, ToCome)))
  BY <1>2, <1>5 DEF InNet
<1>7. /\ Chain(frames, buf \o front) /\ Linked(frames, buf \o front, First(rest, ToCome))
      /\ First(buf \o front, First(rest, ToCome)) = First(buf, First(front, First(rest, ToCome)))
  BY <1>2, <1>5, <1>6, Joins
<1>8. ToCome' = ToCome /\ InNet' = First(rest, ToCome)
  BY <1>1 DEF ToCome, InNet, First
<1>9. InBuf' = InBuf
  <2>1. InBuf' = First(buf \o front, First(rest, ToCome))
    BY <1>1, <1>8 DEF InBuf, First
  <2> QED
    BY <1>5, <1>7, <2>1 DEF InBuf, InNet
<1>10. Unbroken'
  <2>1. Chain(frames', net') /\ Linked(frames', net', ToCome') /\ Chain(frames', buf') /\ Linked(frames', buf', InNet')
    BY <1>1, <1>5, <1>7, <1>8
  <2> QED
    BY <2>1 DEF Unbroken
<1>11. /\ Len(buf') = Len(buf) + n /\ buf'[Len(buf) + n] = net[n]
  <2>1. front \in Seq(Pieces)
    BY <1>5 DEF Chain
  <2> QED
    BY <1>1, <1>3, <1>4, <1>5, <2>1, ConcatProperties
<1>12. net[n][1] \in 1 .. MaxFrames
  <2>1. IsPiece(frames, net[n])
    BY <1>2, <1>4 DEF Chain
  <2> QED
    BY <1>1, <2>1 DEF IsPiece, FramesInv, FramesTyped
<1> QED
  BY <1>1, <1>3, <1>9, <1>10, <1>11, <1>12

LEMMA AckTickStep ==
    ASSUME FramesInv, Handshake!AckTick
    PROVE  FramesInv'
<1> USE DEF Handshake!AckTick
<1>1. /\ MaxTicks \in Nat /\ ticks \in 0 .. MaxTicks /\ ticks < MaxTicks
      /\ ticks' = ticks + 1 /\ UNCHANGED <<frames, handled>>
      /\ MaxFrames \in Nat
  BY HandshakeAssumption DEF FramesInv, FramesTyped, Handshake!LimitsFit
<1>2. FromStart /\ Handshake!LoopKeepsFrames'
  BY <1>1 DEF FramesInv, Due, Handshake!LoopKeepsFrames, FromStart
<1>3. CASE UNCHANGED <<net, buf, received>> /\ stage' \in {"ack", "failed"} /\ (stage' = "ack" => ticks' < MaxTicks)
  <2>1. Unbroken' /\ InBuf' = InBuf
    BY <1>1, <1>3 DEF FramesInv, Unbroken, Chain, Linked, IsPiece, After, Ends, First, InNet, InBuf, ToCome
  <2>2. Due'
    BY <1>1, <1>2, <1>3, <2>1 DEF Due, FromStart
  <2>3. FramesTyped'
    BY <1>1, <1>3 DEF FramesInv, FramesTyped
  <2> QED
    BY <1>2, <2>1, <2>2, <2>3 DEF FramesInv
<1>4. ASSUME ticks' < MaxTicks, stage' = stage,
             NEW n \in 1 .. Chunk, Handshake!Receive(n), received' = net[n][1]
      PROVE  FramesInv'
  <2>1. Len(buf) <= Cap
    <3>1. Len(buf) \in Nat
      BY DEF FramesInv, Unbroken, Chain
    <3> QED
      BY <3>1, HandshakeAssumption DEF Handshake!TooLong, Handshake!LimitsFit
  <2>2. /\ Unbroken' /\ InBuf' = InBuf /\ Len(buf') <= Cap + Chunk
        /\ Len(buf') > 0 /\ buf'[Len(buf')] = net[n] /\ net[n][1] \in 1 .. MaxFrames
    BY <1>1, <1>4, <2>1, Receives
  <2>3. Due'
    BY <1>1, <1>2, <1>4, <2>2 DEF Due, FromStart
  <2>4. FramesTyped'
    BY <1>1, <1>4, <2>2 DEF FramesInv, FramesTyped
  <2> QED
    BY <1>2, <2>2, <2>3, <2>4 DEF FramesInv
<1> QED
  BY <1>1, <1>3, <1>4 DEF FramesInv, FramesTyped

\* The first line in the buffer: where it ends, and which frame it is the rest of.
LEMMA LineEnds ==
    ASSUME FramesInv, Handshake!HasLine
    PROVE  /\ Len(buf) > 0 /\ Len(buf) \in Nat /\ IsPiece(frames, buf[1])
           /\ Handshake!LineEnd \in 1 .. Len(buf)
           /\ Handshake!LineEnd = Handshake!Size(frames[buf[1][1]]) - buf[1][2] + 1
           /\ After(frames, buf[Handshake!LineEnd]) = <<buf[1][1] + 1, 1>>
<1>1. frames \in Seq(Handshake!Kinds) /\ Chain(frames, buf) /\ buf \in Seq(Pieces) /\ Len(buf) \in Nat
  BY DEF FramesInv, FramesTyped, Unbroken, Chain
<1> DEFINE T == {i \in DOMAIN buf : Handshake!EndsLine(buf[i])}
<1>2. PICK i \in T : \A j \in T : ~(j < i)
  <2>1. T \subseteq Nat /\ T # {}
    BY <1>1 DEF Handshake!HasLine
  <2> HIDE DEF T
  <2> QED
    BY <2>1, FirstPlace
<1> DEFINE FirstEnd(k) == Handshake!EndsLine(buf[k]) /\ \A j \in 1 .. k - 1 : ~Handshake!EndsLine(buf[j])
<1>3. i \in DOMAIN buf /\ FirstEnd(i)
  BY <1>1, <1>2
<1>4. Handshake!LineEnd \in DOMAIN buf /\ FirstEnd(Handshake!LineEnd)
  BY <1>3 DEF Handshake!LineEnd
<1>5. /\ Handshake!LineEnd \in 1 .. Len(buf) /\ Ends(frames, buf[Handshake!LineEnd])
      /\ \A j \in 1 .. Handshake!LineEnd - 1 : ~Ends(frames, buf[j])
  BY <1>1, <1>4 DEF Ends, Handshake!EndsLine
<1>6. Len(buf) > 0 /\ IsPiece(frames, buf[1])
  BY <1>1, <1>5 DEF Chain
<1> QED
  BY <1>1, <1>5, <1>6, LineIsRest

\* The connection ends, and nothing moves.
LEMMA ConnectionEnds ==
    ASSUME FramesInv, UNCHANGED <<frames, net, buf, ticks, received, handled>>,
           \/ stage = "ack" /\ stage' = "failed"
           \/ stage = "up" /\ stage' = "over"
    PROVE  FramesInv'
<1>1. Unbroken' /\ InBuf' = InBuf
  BY DEF FramesInv, Unbroken, Chain, Linked, IsPiece, After, Ends, First, InNet, InBuf, ToCome
<1>2. Due'
  BY <1>1 DEF FramesInv, Due, FromStart, InTurn, Latest
<1>3. FramesTyped' /\ Handshake!LoopKeepsFrames'
  BY DEF FramesInv, FramesTyped, Handshake!LoopKeepsFrames
<1> QED
  BY <1>1, <1>2, <1>3 DEF FramesInv

LEMMA AckArrivesStep ==
    ASSUME FramesInv, Handshake!AckArrives
    PROVE  FramesInv'
<1>1. /\ stage = "ack" /\ stage' = "up" /\ buf' = <<>>
      /\ UNCHANGED <<frames, net, ticks, received, handled>>
      /\ Handshake!HasLine /\ frames[buf[1][1]] = "hello_ack"
  BY DEF Handshake!AckArrives, Handshake!Kind
<1>2. FromStart /\ Unbroken /\ FramesTyped
  BY <1>1 DEF FramesInv, Due
<1>3. Len(buf) > 0 /\ Len(buf) \in Nat /\ IsPiece(frames, buf[1])
  BY <1>1, LineEnds
<1>4. buf[1] = <<1, 1>> /\ received = buf[Len(buf)][1] /\ handled = <<>>
  BY <1>2, <1>3 DEF FromStart, InBuf, First
<1>5. Len(frames) > 0 /\ frames[1] = "hello_ack"
  <2>1. buf[1][1] = 1
    BY <1>4
  <2> QED
    BY <1>1, <1>2, <1>3, <2>1 DEF IsPiece, FramesTyped
<1>6. InNet = After(frames, buf[Len(buf)]) /\ IsPiece(frames, buf[Len(buf)])
  BY <1>2, <1>3 DEF Unbroken, Linked, Chain
<1>7. InNet' = InNet /\ InBuf' = InNet
  BY <1>1 DEF InNet, InBuf, First, ToCome
<1>8. InTurn'
  <2> DEFINE x == buf[Len(buf)]
  <2>1. x[1] \in Nat /\ x[2] \in Nat /\ x[2] > 0
    BY <1>6, SizeFits DEF IsPiece, Pieces
  <2>2. Len(handled') = 0 /\ Latest' = received /\ received' = x[1]
    BY <1>1, <1>4 DEF Latest
  <2>3. InBuf' = <<received' + 1, 1>> \/ (InBuf'[1] = received' /\ InBuf'[2] > 1)
    BY <1>6, <1>7, <2>1, <2>2 DEF After
  <2>4. Latest' = received'
    BY <1>1, <2>2
  <2> HIDE DEF x
  <2> QED
    BY <2>2, <2>3, <2>4 DEF InTurn
<1>9. Unbroken'
  <2>1. Chain(frames, net) /\ Linked(frames, net, ToCome)
    BY <1>2 DEF Unbroken
  <2>2. Chain(frames, <<>>) /\ \A e : Linked(frames, <<>>, e)
    BY DEF Chain, Linked, Pieces
  <2>3. ToCome' = ToCome
    BY <1>1 DEF ToCome
  <2>4. Chain(frames', net') /\ Linked(frames', net', ToCome') /\ Chain(frames', buf') /\ Linked(frames', buf', InNet')
    BY <1>1, <2>1, <2>2, <2>3
  <2> QED
    BY <2>4 DEF Unbroken
<1>10. Due'
  BY <1>1, <1>5, <1>8 DEF Due
<1>11. FramesTyped'
  BY <1>1, <1>2, HandshakeAssumption DEF FramesTyped, Handshake!LimitsFit
<1>12. Handshake!LoopKeepsFrames'
  BY <1>1, <1>4 DEF Handshake!LoopKeepsFrames
<1> QED
  BY <1>9, <1>10, <1>11, <1>12 DEF FramesInv

LEMMA LoopReceiveStep ==
    ASSUME FramesInv, Handshake!LoopReceive
    PROVE  FramesInv'
<1>1. PICK n \in 1 .. Chunk : Handshake!Receive(n)
  BY DEF Handshake!LoopReceive
<1>2. /\ stage = "up" /\ UNCHANGED <<frames, stage, ticks, received, handled>>
      /\ Handshake!CanReceive
  BY DEF Handshake!LoopReceive
<1>3. Len(buf) <= Cap
  <2>1. Len(buf) \in Nat
    BY DEF FramesInv, Unbroken, Chain
  <2> QED
    BY <1>2, <2>1, HandshakeAssumption
    DEF Handshake!CanReceive, Handshake!TooLong, Handshake!LimitsFit
<1>4. /\ Unbroken' /\ InBuf' = InBuf /\ Len(buf') <= Cap + Chunk
  BY <1>1, <1>2, <1>3, Receives
<1>5. Due'
  BY <1>2, <1>4 DEF FramesInv, Due, InTurn, Latest
<1>6. FramesTyped' /\ Handshake!LoopKeepsFrames'
  BY <1>2, <1>4 DEF FramesInv, FramesTyped, Handshake!LoopKeepsFrames
<1> QED
  BY <1>4, <1>5, <1>6 DEF FramesInv

LEMMA LoopLineStep ==
    ASSUME FramesInv, Handshake!LoopLine
    PROVE  FramesInv'
<1> DEFINE f == buf[1][1]
           p == buf[1][2]
           n == Handshake!LineEnd
           rest == SubSeq(buf, n + 1, Len(buf))
<1>1. /\ stage = "up" /\ stage' \in {"up", "over"} /\ Handshake!HasLine /\ buf' = rest
      /\ UNCHANGED <<frames, net, ticks, received>>
      /\ IF Handshake!IsFrame THEN handled' = Append(handled, f) ELSE UNCHANGED handled
  BY DEF Handshake!LoopLine, Handshake!Rest
<1>2. Unbroken /\ FramesTyped /\ InTurn /\ Handshake!LoopKeepsFrames /\ Len(frames) > 0 /\ frames[1] = "hello_ack"
  BY <1>1 DEF FramesInv, Due
<1>3. /\ Len(buf) > 0 /\ Len(buf) \in Nat /\ IsPiece(frames, buf[1])
      /\ n \in 1 .. Len(buf) /\ n = Handshake!Size(frames[f]) - p + 1
      /\ After(frames, buf[n]) = <<f + 1, 1>>
  BY <1>1, LineEnds
<1>4. f \in Nat /\ p \in Nat /\ p > 0 /\ buf[1] = <<f, p>>
  BY <1>3, SizeFits DEF IsPiece, Pieces
<1>5. Handshake!IsFrame <=> p = 1
  BY <1>3, <1>4, SizeFits DEF Handshake!IsFrame
<1> HIDE DEF f, p
<1>6. LET front == SubSeq(buf, 1, n)
      IN  /\ Chain(frames, rest) /\ Linked(frames, rest, InNet) /\ Len(rest) = Len(buf) - n
          /\ Linked(frames, front, First(rest, InNet)) /\ Len(front) = n
          /\ \A k \in 1 .. n : front[k] = buf[k]
  <2>1. n \in 0 .. Len(buf) /\ Chain(frames, buf) /\ Linked(frames, buf, InNet)
    BY <1>2, <1>3 DEF Unbroken
  <2> HIDE DEF n
  <2> QED
    BY <2>1, Cuts
<1> HIDE DEF n, rest
<1>7. First(rest, InNet) = <<f + 1, 1>>
  BY <1>3, <1>6 DEF Linked
<1>8. InNet' = InNet /\ ToCome' = ToCome /\ InBuf' = <<f + 1, 1>>
  BY <1>1, <1>7 DEF InNet, InBuf, First, ToCome
<1>9. Unbroken'
  <2>1. Chain(frames', net') /\ Linked(frames', net', ToCome') /\ Chain(frames', buf') /\ Linked(frames', buf', InNet')
    BY <1>1, <1>2, <1>6, <1>8 DEF Unbroken
  <2> QED
    BY <2>1 DEF Unbroken
<1>10. InBuf = <<f, p>>
  BY <1>3, <1>4 DEF InBuf, First
<1>11. handled \in Seq(Nat) /\ Len(handled) \in Nat /\ received \in Nat
  BY <1>2 DEF FramesTyped
<1>12. ASSUME p = 1
       PROVE  InTurn' /\ Handshake!LoopKeepsFrames' /\ handled' \in Seq(Nat)
  <2>1. f = Latest + 1
    BY <1>2, <1>10, <1>12 DEF InTurn
  <2>2. /\ handled' = Append(handled, f) /\ handled' \in Seq(Nat)
        /\ Len(handled') = Len(handled) + 1 /\ handled'[Len(handled) + 1] = f
        /\ \A i \in 1 .. Len(handled) : handled'[i] = handled[i]
    <3>1. handled' = Append(handled, f)
      BY <1>1, <1>5, <1>12
    <3>2. handled' \in Seq(Nat) /\ Len(handled') = Len(handled) + 1
      BY <1>4, <1>11, <3>1
    <3>3. handled'[Len(handled) + 1] = f
      BY <1>4, <1>11, <3>1
    <3>4. \A i \in 1 .. Len(handled) : handled'[i] = handled[i]
      BY <1>4, <1>11, <3>1
    <3> QED
      BY <3>1, <3>2, <3>3, <3>4
  <2>3. Latest' = f
    BY <1>11, <2>2 DEF Latest
  <2>4. InTurn'
    BY <1>8, <2>3 DEF InTurn
  <2>5. ASSUME NEW i \in DOMAIN handled'
        PROVE  handled'[i] = IF i > 1 THEN handled'[i - 1] + 1 ELSE received' + 1
    <3>1. CASE i <= Len(handled)
      <4>1. handled[i] = IF i > 1 THEN handled[i - 1] + 1 ELSE received + 1
        BY <1>2, <1>11, <2>2, <3>1 DEF Handshake!LoopKeepsFrames
      <4> QED
        BY <1>1, <1>11, <2>2, <3>1, <4>1
    <3>2. CASE i = Len(handled) + 1
      BY <1>1, <1>11, <2>1, <2>2, <3>2 DEF Latest
    <3> QED
      BY <1>11, <2>2, <3>1, <3>2
  <2> QED
    BY <1>1, <2>2, <2>4, <2>5 DEF Handshake!LoopKeepsFrames
<1>13. ASSUME p # 1
       PROVE  InTurn' /\ Handshake!LoopKeepsFrames' /\ handled' \in Seq(Nat)
  <2>1. Len(handled) = 0 /\ f = received
    BY <1>2, <1>10, <1>13 DEF InTurn
  <2>2. handled' = handled /\ Latest' = received
    BY <1>1, <1>5, <1>13, <2>1 DEF Latest
  <2> QED
    BY <1>1, <1>2, <1>8, <1>11, <2>1, <2>2 DEF InTurn, Handshake!LoopKeepsFrames
<1>14. InTurn' /\ Handshake!LoopKeepsFrames' /\ handled' \in Seq(Nat)
  BY <1>12, <1>13
<1>15. Due'
  BY <1>1, <1>2, <1>14 DEF Due
<1>16. FramesTyped'
  <2>1. Len(buf') <= Len(buf)
    BY <1>1, <1>3, <1>6
  <2>2. Len(buf') <= Cap + Chunk
    BY <1>1, <1>2, <1>3, <1>6, <2>1, HandshakeAssumption DEF FramesTyped, Handshake!LimitsFit
  <2> QED
    BY <1>1, <1>2, <1>14, <2>2 DEF FramesTyped
<1> QED
  BY <1>9, <1>14, <1>15, <1>16 DEF FramesInv

THEOREM FramesInvariant == Handshake!Spec => []FramesInv
<1>1. ASSUME FramesInv, [Handshake!Next]_(Handshake!handshakeVars) PROVE FramesInv'
  <2>1. CASE \E kind \in Handshake!Kinds \ {"shutdown"} : Handshake!Send(kind)
    BY <1>1, <2>1, SendStep
  <2>2. CASE Handshake!Shutdown
    BY <1>1, <2>2, ShutdownStep
  <2>3. CASE Handshake!AckTick
    BY <1>1, <2>3, AckTickStep
  <2>4. CASE Handshake!AckArrives
    BY <1>1, <2>4, AckArrivesStep
  <2>5. CASE Handshake!LoopReceive
    BY <1>1, <2>5, LoopReceiveStep
  <2>6. CASE Handshake!LoopLine
    BY <1>1, <2>6, LoopLineStep
  <2>7. CASE Handshake!AckFails \/ Handshake!LoopEnds \/ Handshake!Disconnect
    BY <1>1, <2>7, ConnectionEnds DEF Handshake!AckFails, Handshake!LoopEnds, Handshake!Disconnect
  <2>8. CASE UNCHANGED Handshake!handshakeVars
    <3>1. Unbroken' /\ InBuf' = InBuf
      BY <1>1, <2>8 DEF FramesInv, Unbroken, Chain, Linked, IsPiece, After, Ends, First, InNet, InBuf,
                        ToCome, Handshake!handshakeVars
    <3> QED
      BY <1>1, <2>8, <3>1 DEF FramesInv, Due, FromStart, InTurn, Latest, FramesTyped,
                              Handshake!LoopKeepsFrames, Handshake!handshakeVars
  <2> QED
    BY <1>1, <2>1, <2>2, <2>3, <2>4, <2>5, <2>6, <2>7, <2>8 DEF Handshake!Next
<1> QED
  BY FramesInit, <1>1, PTL DEF Handshake!Spec

\* The state of the handshake keeps its shape, whatever arrives in which pieces.
THEOREM HandshakeTypes == Handshake!Spec => []Handshake!TypeOK
<1>1. FramesInv => Handshake!TypeOK
  BY DEF FramesInv, FramesTyped, Handshake!TypeOK
<1> QED
  BY <1>1, FramesInvariant, PTL

\* For any frames and any cut of their stream: what reader_loop handles are whole
\* frames, in order and without a gap behind the handshake (client.cpp 74-139).
THEOREM HandledInOrder == Handshake!Spec => []Handshake!LoopKeepsFrames
<1>1. FramesInv => Handshake!LoopKeepsFrames
  BY DEF FramesInv
<1> QED
  BY <1>1, FramesInvariant, PTL

\* connect returns TRUE only for a hello_ack (client.cpp 74-110).
THEOREM UpMeansAcknowledged == Handshake!Spec => []Handshake!UpIsAcknowledged
<1>1. FramesInv => Handshake!UpIsAcknowledged
  BY DEF FramesInv, Due, Handshake!UpIsAcknowledged
<1> QED
  BY <1>1, FramesInvariant, PTL

-----------------------------------------------------------------------------
(* The daemon, the inductive invariant.  Where the port goes is clear whatever overlaps;  *)
(* the rest is about starts and stops that do not.                            *)

\* A start that is under way: by its starter, or by its server.
Starting(c) ==
    starter[c] \in {"dead", "stale", "checked", "writing"} \/ server[c] \in {"forked", "written"}
Ending(c) == server[c] = "ended"
Active(c) == Starting(c) \/ Ending(c)
Owns(c) == server[c] \in {"written", "serving"}

PortIsServing == \A c \in Session!Starters : server[c] = "serving" <=> port = c

NoServerYet ==
    \A c \in Session!Starters : starter[c] \in {"off", "dead", "stale", "checked"} => server[c] = "none"

\* One start or end at a time, and nobody else serves meanwhile.
OneIsActive == \A c, d \in Session!Starters : Active(c) /\ Active(d) => c = d
StartIsAlone == \A c \in Session!Starters : Starting(c) => stop = "off" /\ port \in {NoPid, c}
EndIsSilent == \A c \in Session!Starters : Ending(c) => port = NoPid

OwnPidfile == \A c \in Session!Starters : Owns(c) => pidfile = c

\* A stop is after the server that serves, and removes no other's pidfile.
StopKnows ==
    /\ stop \in {"kill", "wait"} => port \in {NoPid, stopPid}
    /\ stop = "remove" => port = NoPid

Orderly == OneIsActive /\ StartIsAlone /\ EndIsSilent /\ OwnPidfile /\ StopKnows

DaemonInv == Session!TypeOK /\ PortIsServing /\ NoServerYet /\ (solitary => Orderly)

LEMMA NotUnderWay ==
    ASSUME ~Session!UnderWay
    PROVE  stop = "off" /\ \A c \in Session!Starters : ~Active(c)
  BY DEF Session!UnderWay, Active, Starting, Ending

\* A server that serves keeps its pid in use.
LEMMA ServingIsAlive ==
    ASSUME Session!NamesFit, DaemonInv, solitary, port # NoPid
    PROVE  port \in Session!Starters /\ Session!Alive(port) /\ pidfile = port
  BY DEF Session!NamesFit, DaemonInv, Session!TypeOK, PortIsServing, Orderly, OwnPidfile, Owns, Session!Alive

-----------------------------------------------------------------------------
(* Steps of a starter. *)

LEMMA BeginStep ==
    ASSUME Session!NamesFit, DaemonInv, NEW c \in Session!Starters, Session!Probe(c) \/ Session!StartCommand(c)
    PROVE  DaemonInv'
<1> USE DEF DaemonInv
<1>1. PICK to \in {"ok", "failed", "dead"} :
          /\ Session!Starter(c, "off", to) /\ UNCHANGED <<server, pidfile, port, stop, stopPid>>
          /\ to # "dead" => UNCHANGED solitary
          /\ to = "dead" => Session!Begins /\ (port = NoPid \/ ~Session!Alive(pidfile))
  BY DEF Session!Probe, Session!StartCommand
<1>2. /\ \A d \in Session!Starters : starter'[d] = IF d = c THEN to ELSE starter[d]
      /\ starter' \in [Session!Starters -> {"off", "dead", "stale", "checked", "waiting", "writing",
                                     "ok", "failed", "left"}]
      /\ starter[c] = "off"
  BY <1>1 DEF Session!Starter, Session!TypeOK
<1>3. solitary' \in BOOLEAN /\ (solitary' => solitary)
  <2>1. CASE solitary' = solitary
    BY <2>1 DEF Session!TypeOK
  <2>2. CASE Session!Begins
    BY <2>2, Zenon DEF Session!Begins
  <2> QED
    BY <1>1, <2>1, <2>2
<1>4. Session!TypeOK' /\ PortIsServing' /\ NoServerYet'
  BY <1>1, <1>2, <1>3 DEF Session!TypeOK, PortIsServing, NoServerYet
<1>5. ASSUME solitary' PROVE Orderly'
  <2>1. Orderly
    BY <1>3, <1>5
  <2>2. CASE to # "dead"
    BY <1>1, <1>2, <2>1, <2>2 DEF Orderly, OneIsActive, StartIsAlone, EndIsSilent, OwnPidfile,
                                  StopKnows, Active, Starting, Ending, Owns
  <2>3. CASE to = "dead"
    <3>1. stop = "off" /\ (\A d \in Session!Starters : ~Active(d))
      BY <1>1, <1>5, <2>3, NotUnderWay DEF Session!Begins
    <3>2. port = NoPid
      BY <1>1, <1>3, <1>5, <2>3, ServingIsAlive
    <3> QED
      BY <1>1, <1>2, <2>1, <3>1, <3>2 DEF Orderly, OneIsActive, StartIsAlone, EndIsSilent,
                                  OwnPidfile, StopKnows, Active, Starting, Ending, Owns
  <2> QED
    BY <2>2, <2>3
<1> QED
  BY <1>4, <1>5

\* Between the probe and the fork.
LEMMA PidfileStep ==
    ASSUME Session!NamesFit, DaemonInv, NEW c \in Session!Starters, Session!LookAtPidfile(c) \/ Session!RemoveStale(c)
    PROVE  DaemonInv'
<1> USE DEF DaemonInv
<1>1. PICK from \in {"dead", "stale"}, to \in {"stale", "checked", "failed"} : Session!Starter(c, from, to)
  BY DEF Session!LookAtPidfile, Session!RemoveStale
<1>2. /\ \A d \in Session!Starters : starter'[d] = IF d = c THEN to ELSE starter[d]
      /\ starter' \in [Session!Starters -> {"off", "dead", "stale", "checked", "waiting", "writing",
                                     "ok", "failed", "left"}]
      /\ starter[c] \in {"dead", "stale"}
  BY <1>1 DEF Session!Starter, Session!TypeOK
<1>3. /\ UNCHANGED <<server, port, stop, stopPid, solitary>>
      /\ pidfile' \in {pidfile, NoPid}
  BY DEF Session!LookAtPidfile, Session!RemoveStale
<1>4. Session!TypeOK' /\ PortIsServing' /\ NoServerYet'
  BY <1>2, <1>3 DEF Session!TypeOK, PortIsServing, NoServerYet
<1>5. ASSUME solitary PROVE Orderly'
  <2>1. Orderly /\ Starting(c) /\ server[c] = "none"
    BY <1>2, <1>5 DEF Starting, NoServerYet
  <2>2. \A d \in Session!Starters : ~Owns(d)
    <3> SUFFICES ASSUME NEW d \in Session!Starters, Owns(d) PROVE FALSE
      OBVIOUS
    <3>1. d # c
      BY <2>1 DEF Owns
    <3>2. CASE server[d] = "written"
      BY <2>1, <3>1, <3>2 DEF Orderly, OneIsActive, Active, Starting
    <3>3. CASE server[d] = "serving"
      BY <2>1, <3>1, <3>3 DEF Orderly, StartIsAlone, PortIsServing, Session!NamesFit
    <3> QED
      BY <3>2, <3>3 DEF Owns
  <2> QED
    BY <1>2, <1>3, <2>1, <2>2 DEF Orderly, OneIsActive, StartIsAlone, EndIsSilent, OwnPidfile,
                                  StopKnows, Active, Starting, Ending, Owns
<1> QED
  BY <1>3, <1>4, <1>5

LEMMA ForkStep ==
    ASSUME Session!NamesFit, DaemonInv, NEW c \in Session!Starters, Session!Fork(c)
    PROVE  DaemonInv'
<1> USE DEF DaemonInv
<1>1. /\ \A d \in Session!Starters : d # c => starter'[d] = starter[d] /\ server'[d] = server[d]
      /\ starter[c] = "checked" /\ server[c] = "none" /\ server'[c] = "forked"
      /\ starter'[c] \in {"waiting", "writing"}
      /\ UNCHANGED <<pidfile, port, stop, stopPid, solitary>>
  BY DEF Session!Fork, Session!Starter, Session!Server, Session!TypeOK
<1>2. Session!TypeOK'
  BY DEF Session!Fork, Session!Starter, Session!Server, Session!TypeOK
<1>3. PortIsServing' /\ NoServerYet'
  BY <1>1 DEF PortIsServing, NoServerYet
<1>4. ASSUME solitary PROVE Orderly'
  <2>1. Orderly /\ Starting(c)
    BY <1>1, <1>4 DEF Starting
  <2> QED
    BY <1>1, <2>1 DEF Orderly, OneIsActive, StartIsAlone, EndIsSilent, OwnPidfile,
                      StopKnows, Active, Starting, Ending, Owns
<1> QED
  BY <1>1, <1>2, <1>3, <1>4

\* Both write the server's pid: the server itself, and the parent of a command's.
LEMMA PidWriteStep ==
    ASSUME Session!NamesFit, DaemonInv, NEW c \in Session!Starters, Session!ParentWrites(c) \/ Session!ServerWrites(c)
    PROVE  DaemonInv'
<1> USE DEF DaemonInv
<1>1. /\ \A d \in Session!Starters : d # c => starter'[d] = starter[d] /\ server'[d] = server[d]
      /\ pidfile' = c /\ UNCHANGED <<port, stop, stopPid, solitary>>
      /\ \/ starter[c] = "writing" /\ starter'[c] = "ok" /\ server'[c] = server[c]
         \/ server[c] = "forked" /\ server'[c] = "written" /\ starter'[c] = starter[c]
  BY DEF Session!ParentWrites, Session!ServerWrites, Session!Starter, Session!Server, Session!TypeOK
<1>2. Session!TypeOK'
  BY DEF Session!ParentWrites, Session!ServerWrites, Session!Starter, Session!Server, Session!TypeOK
<1>3. PortIsServing' /\ NoServerYet'
  BY <1>1 DEF PortIsServing, NoServerYet
<1>4. ASSUME solitary PROVE Orderly'
  <2>1. Orderly /\ Starting(c)
    BY <1>1, <1>4 DEF Starting
  <2>2. ASSUME NEW d \in Session!Starters, Owns(d)' PROVE d = c
    <3>1. SUFFICES ASSUME d # c PROVE FALSE
      OBVIOUS
    <3>2. Owns(d)
      BY <1>1, <2>2, <3>1 DEF Owns
    <3>3. CASE server[d] = "written"
      BY <2>1, <3>1, <3>3 DEF Orderly, OneIsActive, Active, Starting
    <3>4. CASE server[d] = "serving"
      BY <2>1, <3>1, <3>4 DEF Orderly, StartIsAlone, PortIsServing, Session!NamesFit
    <3> QED
      BY <3>2, <3>3, <3>4 DEF Owns
  <2>3. OwnPidfile'
    BY <1>1, <2>2 DEF OwnPidfile
  <2> QED
    BY <1>1, <2>1, <2>3 DEF Orderly, OneIsActive, StartIsAlone, EndIsSilent,
                            StopKnows, Active, Starting, Ending
<1> QED
  BY <1>1, <1>2, <1>3, <1>4

\* A client that is done waiting, or has gone: its dead server is waited for.
LEMMA ReapStep ==
    ASSUME Session!NamesFit, DaemonInv, NEW c \in Session!Starters, Session!WaitForPort(c) \/ Session!Leave(c)
    PROVE  DaemonInv'
<1> USE DEF DaemonInv
<1>1. /\ \A d \in Session!Starters : d # c => starter'[d] = starter[d]
      /\ starter[c] \in {"waiting", "ok"} /\ starter'[c] \in {"ok", "failed", "left"}
      /\ UNCHANGED <<pidfile, port, stop, stopPid, solitary>>
  <2>1. PICK to \in {"ok", "failed", "left"} :
            /\ starter[c] \in {"waiting", "ok"} /\ starter' = [starter EXCEPT ![c] = to]
            /\ UNCHANGED <<pidfile, port, stop, stopPid, solitary>>
    BY DEF Session!WaitForPort, Session!Leave, Session!Starter
  <2> QED
    BY <2>1 DEF Session!TypeOK
<1>2. \/ server' = server
      \/ server[c] = "zombie" /\ server' = [server EXCEPT ![c] = "gone"]
  BY DEF Session!WaitForPort, Session!Leave
<1>3. /\ \A d \in Session!Starters : d # c => server'[d] = server[d]
      /\ server'[c] = server[c] \/ (server[c] = "zombie" /\ server'[c] = "gone")
  <2>1. CASE server' = server
    BY <2>1
  <2>2. CASE server[c] = "zombie" /\ server' = [server EXCEPT ![c] = "gone"]
    <3>1. DOMAIN server = Session!Starters
      BY DEF Session!TypeOK
    <3> QED
      BY <2>2, <3>1
  <2> QED
    BY <1>2, <2>1, <2>2
<1>4. Session!TypeOK'
  BY DEF Session!WaitForPort, Session!Leave, Session!Starter, Session!TypeOK
<1>5. PortIsServing' /\ NoServerYet'
  BY <1>1, <1>3 DEF PortIsServing, NoServerYet
<1>6. ASSUME solitary PROVE Orderly'
  BY <1>1, <1>3, <1>6 DEF Orderly, OneIsActive, StartIsAlone, EndIsSilent, OwnPidfile,
                    StopKnows, Active, Starting, Ending, Owns
<1> QED
  BY <1>1, <1>4, <1>5, <1>6

-----------------------------------------------------------------------------
(* Steps of a server. *)

LEMMA ListenStep ==
    ASSUME Session!NamesFit, DaemonInv, NEW c \in Session!Starters, Session!ServerListens(c)
    PROVE  DaemonInv'
<1> USE DEF DaemonInv
<1>1. /\ \A d \in Session!Starters : d # c => server'[d] = server[d]
      /\ server[c] = "written"
      /\ \/ port = NoPid /\ port' = c /\ server'[c] = "serving"
         \/ port # NoPid /\ port' = port /\ server'[c] = "ended"
      /\ UNCHANGED <<starter, pidfile, stop, stopPid, solitary>>
  BY DEF Session!ServerListens, Session!Server, Session!TypeOK
<1>2. Session!TypeOK'
  BY DEF Session!ServerListens, Session!Server, Session!TypeOK
<1>3. PortIsServing' /\ NoServerYet'
  BY <1>1 DEF PortIsServing, NoServerYet, Session!NamesFit
<1>4. ASSUME solitary PROVE Orderly'
  <2>1. Orderly /\ Starting(c) /\ Active(c)
    BY <1>1, <1>4 DEF Starting, Active
  <2>2. port = NoPid /\ port' = c /\ server'[c] = "serving" /\ stop = "off"
    BY <1>1, <2>1 DEF Orderly, StartIsAlone, PortIsServing
  <2>3. pidfile = c
    BY <1>1, <2>1 DEF Orderly, OwnPidfile, Owns
  <2>4. OneIsActive' /\ OwnPidfile' /\ StopKnows'
    BY <1>1, <2>1, <2>2, <2>3 DEF Orderly, OneIsActive, OwnPidfile, StopKnows,
                                  Active, Starting, Ending, Owns
  <2>5. StartIsAlone' /\ EndIsSilent'
    BY <1>1, <2>1, <2>2 DEF Orderly, OneIsActive, StartIsAlone, EndIsSilent,
                            Active, Starting, Ending
  <2> QED
    BY <2>4, <2>5 DEF Orderly
<1> QED
  BY <1>1, <1>2, <1>3, <1>4

\* It stops serving, or it dies.
LEMMA StopServingStep ==
    ASSUME Session!NamesFit, DaemonInv, NEW c \in Session!Starters, Session!ServerStops(c) \/ Session!ServerDies(c)
    PROVE  DaemonInv'
<1> USE DEF DaemonInv
<1>1. /\ \A d \in Session!Starters : d # c => server'[d] = server[d]
      /\ port' = IF port = c THEN NoPid ELSE port
      /\ \/ server[c] = "serving" /\ server'[c] = "ended"
         \/ server[c] \in {"forked", "written", "serving"} /\ server'[c] \in {"zombie", "gone"}
      /\ UNCHANGED <<starter, pidfile, stop, stopPid, solitary>>
  <2>1. CASE Session!ServerStops(c)
    BY <2>1 DEF Session!ServerStops, Session!Server, Session!TypeOK, PortIsServing
  <2>2. CASE Session!ServerDies(c)
    BY <2>2 DEF Session!ServerDies, Session!Exited, Session!TypeOK
  <2> QED
    BY <2>1, <2>2
<1>2. Session!TypeOK'
  <2>1. port' \in Session!Starters \cup {NoPid}
    BY <1>1 DEF Session!TypeOK
  <2>2. server' \in [Session!Starters -> {"none", "forked", "written", "serving", "ended", "zombie", "gone"}]
    BY DEF Session!ServerStops, Session!ServerDies, Session!Server, Session!Exited, Session!TypeOK
  <2> QED
    BY <1>1, <2>1, <2>2 DEF Session!TypeOK
<1>3. PortIsServing' /\ NoServerYet'
  BY <1>1 DEF PortIsServing, NoServerYet, Session!NamesFit
<1>4. ASSUME solitary PROVE Orderly'
  <2>1. Orderly
    BY <1>4
  <2>2. OwnPidfile' /\ StopKnows' /\ StartIsAlone'
    BY <1>1, <2>1 DEF Orderly, OwnPidfile, StopKnows, StartIsAlone, Owns, Starting
  <2>3. CASE server'[c] # "ended"
    BY <1>1, <2>1, <2>2, <2>3 DEF Orderly, OneIsActive, EndIsSilent, Active, Starting, Ending
  <2>4. CASE server[c] = "serving" /\ server'[c] = "ended"
    <3>1. port = c /\ port' = NoPid
      BY <1>1, <2>4 DEF PortIsServing
    <3>2. \A d \in Session!Starters : Active(d) => d = c
      BY <2>1, <3>1 DEF Orderly, StartIsAlone, EndIsSilent, Active, Session!NamesFit
    <3>3. \A d \in Session!Starters : Active(d)' => d = c
      BY <1>1, <3>2 DEF Active, Starting, Ending
    <3>4. OneIsActive'
      BY <3>3 DEF OneIsActive
    <3> QED
      BY <2>2, <3>1, <3>4 DEF Orderly, EndIsSilent
  <2> QED
    BY <1>1, <2>3, <2>4
<1> QED
  BY <1>1, <1>2, <1>3, <1>4

LEMMA ExitStep ==
    ASSUME Session!NamesFit, DaemonInv, NEW c \in Session!Starters, Session!ServerExits(c)
    PROVE  DaemonInv'
<1> USE DEF DaemonInv
<1>1. /\ \A d \in Session!Starters : d # c => server'[d] = server[d]
      /\ server[c] = "ended" /\ server'[c] \in {"zombie", "gone"}
      /\ pidfile' = NoPid
      /\ UNCHANGED <<starter, port, stop, stopPid, solitary>>
  BY DEF Session!ServerExits, Session!Server, Session!Exited, Session!TypeOK
<1>2. Session!TypeOK'
  BY DEF Session!ServerExits, Session!Server, Session!Exited, Session!TypeOK
<1>3. PortIsServing' /\ NoServerYet'
  BY <1>1 DEF PortIsServing, NoServerYet
<1>4. ASSUME solitary PROVE Orderly'
  <2>1. Orderly /\ Ending(c)
    BY <1>1, <1>4 DEF Ending
  <2>2. port = NoPid
    BY <2>1 DEF Orderly, EndIsSilent
  <2>3. \A d \in Session!Starters : ~Owns(d)'
    BY <1>1, <2>1, <2>2 DEF Orderly, OneIsActive, Active, Starting, Owns, PortIsServing, Session!NamesFit
  <2>4. OwnPidfile'
    BY <2>3 DEF OwnPidfile
  <2> QED
    BY <1>1, <2>1, <2>4 DEF Orderly, OneIsActive, StartIsAlone, EndIsSilent, StopKnows,
                            Active, Starting, Ending
<1> QED
  BY <1>1, <1>2, <1>3, <1>4

-----------------------------------------------------------------------------
(* Steps of the stop command. *)

LEMMA StopStep ==
    ASSUME Session!NamesFit, DaemonInv, Session!StopReads \/ Session!StopKills \/ Session!StopWaits \/ Session!StopRemoves
    PROVE  DaemonInv'
<1> USE DEF DaemonInv
<1>1. UNCHANGED <<starter, server, port>>
  BY DEF Session!StopReads, Session!StopKills, Session!StopWaits, Session!StopRemoves
<1>2. solitary' \in BOOLEAN /\ (solitary' => solitary)
  <2>1. CASE Session!StopReads
    BY <2>1, Zenon DEF Session!StopReads, Session!Begins
  <2>2. CASE ~Session!StopReads
    BY <2>2 DEF Session!StopKills, Session!StopWaits, Session!StopRemoves, Session!TypeOK
  <2> QED
    BY <2>1, <2>2
<1>3. Session!TypeOK' /\ PortIsServing' /\ NoServerYet'
  BY <1>1, <1>2 DEF Session!StopReads, Session!StopKills, Session!StopWaits, Session!StopRemoves, Session!TypeOK, PortIsServing, NoServerYet
<1>4. ASSUME solitary' PROVE Orderly'
  <2>1. Orderly
    BY <1>2, <1>4
  <2>2. OneIsActive' /\ EndIsSilent'
    BY <1>1, <2>1 DEF Orderly, OneIsActive, EndIsSilent, Active, Starting, Ending
  <2>3. port # NoPid => port \in Session!Starters /\ Session!Alive(port) /\ pidfile = port
    BY <1>2, <1>4, ServingIsAlive
  <2>4. \A c \in Session!Starters : ~Starting(c)
    <3>1. CASE Session!StopReads
      BY <1>4, <3>1, NotUnderWay DEF Session!StopReads, Session!Begins, Active
    <3>2. CASE ~Session!StopReads
      BY <2>1, <3>2 DEF Session!StopKills, Session!StopWaits, Session!StopRemoves, Orderly, StartIsAlone
    <3> QED
      BY <3>1, <3>2
  <2>5. StartIsAlone'
    BY <1>1, <2>4 DEF StartIsAlone, Starting
  <2>6. StopKnows'
    <3>1. CASE Session!StopReads
      BY <1>1, <2>3, <3>1 DEF Session!StopReads, StopKnows
    <3>2. CASE Session!StopKills
      BY <1>1, <2>1, <3>2 DEF Session!StopKills, StopKnows, Orderly
    <3>3. CASE Session!StopWaits
      BY <1>1, <2>1, <2>3, <3>3 DEF Session!StopWaits, StopKnows, Orderly
    <3>4. CASE Session!StopRemoves
      BY <3>4 DEF Session!StopRemoves, StopKnows
    <3> QED
      BY <3>1, <3>2, <3>3, <3>4
  <2>7. OwnPidfile'
    <3>1. CASE Session!StopRemoves
      <4>1. port = NoPid
        BY <2>1, <3>1 DEF Session!StopRemoves, Orderly, StopKnows
      <4>2. \A c \in Session!Starters : ~Owns(c)
        BY <2>4, <4>1 DEF Owns, Starting, PortIsServing, Session!NamesFit
      <4> QED
        BY <1>1, <4>2 DEF OwnPidfile, Owns
    <3>2. CASE ~Session!StopRemoves
      BY <1>1, <2>1, <3>2 DEF Session!StopReads, Session!StopKills, Session!StopWaits, Orderly, OwnPidfile, Owns
    <3> QED
      BY <3>1, <3>2
  <2> QED
    BY <2>2, <2>5, <2>6, <2>7 DEF Orderly
<1> QED
  BY <1>3, <1>4

-----------------------------------------------------------------------------
LEMMA DaemonInvariant == ASSUME Session!NamesFit PROVE Session!Spec => []DaemonInv
<1>1. Session!Init => DaemonInv
  BY DEF Session!NamesFit, Session!Init, DaemonInv, Session!TypeOK, PortIsServing, NoServerYet, Orderly, OneIsActive,
         StartIsAlone, EndIsSilent, OwnPidfile, StopKnows, Active, Starting, Ending, Owns
<1>2. DaemonInv /\ [Session!Next]_Session!sessionVars => DaemonInv'
  <2> SUFFICES ASSUME DaemonInv, [Session!Next]_Session!sessionVars PROVE DaemonInv'
    OBVIOUS
  <2>1. CASE UNCHANGED Session!sessionVars
    BY <2>1 DEF Session!sessionVars, DaemonInv, Session!TypeOK, PortIsServing, NoServerYet, Orderly, OneIsActive,
                StartIsAlone, EndIsSilent, OwnPidfile, StopKnows, Active, Starting, Ending, Owns
  <2>2. CASE Session!StopReads \/ Session!StopKills \/ Session!StopWaits \/ Session!StopRemoves
    BY <2>2, StopStep
  <2>3. ASSUME NEW c \in Session!Starters,
               \/ Session!Probe(c) \/ Session!StartCommand(c) \/ Session!LookAtPidfile(c) \/ Session!RemoveStale(c) \/ Session!Fork(c)
               \/ Session!ParentWrites(c) \/ Session!WaitForPort(c) \/ Session!Leave(c)
        PROVE  DaemonInv'
    BY <2>3, BeginStep, PidfileStep, ForkStep, PidWriteStep, ReapStep
  <2>4. ASSUME NEW c \in Session!Starters,
               \/ Session!ServerWrites(c) \/ Session!ServerListens(c) \/ Session!ServerStops(c)
               \/ Session!ServerExits(c) \/ Session!ServerDies(c)
        PROVE  DaemonInv'
    BY <2>4, PidWriteStep, ListenStep, StopServingStep, ExitStep
  <2> QED
    BY <2>1, <2>2, <2>3, <2>4 DEF Session!Next
<1> QED
  BY <1>1, <1>2, PTL DEF Session!Spec

\* The starters, their servers, the pidfile and the port keep their shape, also
\* when starts and stops overlap.
THEOREM DaemonTypes == ASSUME Session!NamesFit PROVE Session!Spec => []Session!TypeOK
<1>1. DaemonInv => Session!TypeOK
  BY DEF DaemonInv
<1> QED
  BY <1>1, DaemonInvariant, PTL

\* The pidfile names the server that serves, through starts, ends, crashes, stale
\* pidfiles and stops that do not overlap, however many of them there are
\* (main.cpp 110-289).
THEOREM PidfileNamesServer == ASSUME Session!NamesFit PROVE Session!Spec => []Session!PidfileKept
<1>1. DaemonInv => Session!PidfileKept
  BY DEF DaemonInv, Orderly, OwnPidfile, Owns, Session!PidfileKept
<1> QED
  BY <1>1, DaemonInvariant, PTL

-----------------------------------------------------------------------------
(* The prompt editor. *)

\* Induction over the numbers, with a set in the place of a formula.
LEMMA SetInduction ==
    ASSUME NEW T, 0 \in T, \A n \in Nat : n \in T => n + 1 \in T
    PROVE  Nat \subseteq T
<1> DEFINE Less == OpToRel(<, Nat)
<1> SUFFICES ASSUME Nat \ T # {} PROVE FALSE
  OBVIOUS
<1>1. IsWellFoundedOn(Less, Nat)
  BY NatLessThanWellFounded
<1>2. PICK x \in Nat \ T : \A y \in Nat \ T : <<y, x>> \notin Less
  <2> HIDE DEF Less
  <2> QED BY <1>1, WFMin
<1>3. x # 0 /\ x - 1 \in Nat /\ <<x - 1, x>> \in Less /\ (x - 1) + 1 = x
  BY DEF OpToRel
<1>4. x - 1 \in T
  BY <1>2, <1>3
<1> QED
  BY <1>3, <1>4

-----------------------------------------------------------------------------
(* The prompt editor: texts.  An edge is an offset between two glyphs.        *)

Edge(s, p) == p \in 0 .. Len(s) /\ (p < Len(s) => s[p + 1] # "C")

Utf8(s) == s \in Seq(Editor!Bytes) /\ Editor!WellFormed(s)

\* What is in front of an edge ends a glyph, and what is behind it starts one.
LEMMA EdgeLooks ==
    ASSUME NEW s, Utf8(s), NEW p, Edge(s, p)
    PROVE  /\ Len(s) \in Nat /\ p \in Nat /\ p <= Len(s)
           /\ p > 0 => s[p] # "L"
           /\ p < Len(s) => /\ s[p + 1] \in {"a", "nl", "L"}
                            /\ (s[p + 1] = "L" => p + 2 <= Len(s) /\ Edge(s, p + 2))
                            /\ (s[p + 1] # "L" => Edge(s, p + 1))
<1>1. Len(s) \in Nat /\ p \in Nat /\ p <= Len(s) /\ (p < Len(s) => s[p + 1] # "C")
  BY DEF Edge, Utf8
<1>2. \A i \in Nat : 1 <= i /\ i <= Len(s) =>
        /\ s[i] \in Editor!Bytes
        /\ s[i] = "L" => i < Len(s) /\ s[i + 1] = "C"
        /\ s[i] = "C" => i > 1 /\ s[i - 1] = "L"
  BY <1>1 DEF Utf8, Editor!WellFormed
<1>3. p > 0 => s[p] # "L"
  BY <1>1, <1>2
<1>4. ASSUME p < Len(s) PROVE s[p + 1] \in {"a", "nl", "L"}
  BY <1>1, <1>2, <1>4 DEF Editor!Bytes
<1>5. ASSUME p < Len(s), s[p + 1] = "L" PROVE p + 2 <= Len(s) /\ Edge(s, p + 2)
  <2>1. p + 2 <= Len(s) /\ s[p + 2] = "C"
    BY <1>1, <1>2, <1>5
  <2>2. p + 2 < Len(s) => s[p + 3] # "C"
    <3>1. p + 2 < Len(s) /\ s[p + 3] = "C" => s[p + 2] = "L"
      BY <1>1, <1>2
    <3> QED
      BY <2>1, <3>1
  <2> QED
    BY <1>1, <2>1, <2>2 DEF Edge
<1>6. ASSUME p < Len(s), s[p + 1] # "L" PROVE Edge(s, p + 1)
  <2>1. p + 1 < Len(s) => s[p + 2] # "C"
    <3>1. p + 1 < Len(s) /\ s[p + 2] = "C" => s[p + 1] = "L"
      BY <1>1, <1>2
    <3> QED
      BY <1>6, <3>1
  <2> QED
    BY <1>1, <1>6, <2>1 DEF Edge
<1> QED
  BY <1>1, <1>3, <1>4, <1>5, <1>6

\* The bytes of a text from which some are erased.
LEMMA ErasedBytes ==
    ASSUME NEW S, NEW s \in Seq(S), NEW a \in Nat, NEW b \in Nat, a <= b, b <= Len(s)
    PROVE  /\ Editor!Erased(s, a, b) \in Seq(S)
           /\ Len(Editor!Erased(s, a, b)) = Len(s) - (b - a)
           /\ \A i \in 1 .. Len(s) - (b - a) :
                 Editor!Erased(s, a, b)[i] = IF i <= a THEN s[i] ELSE s[i + (b - a)]
<1> DEFINE u == SubSeq(s, 1, a)
           v == SubSeq(s, b + 1, Len(s))
<1>1. u \in Seq(S) /\ Len(u) = a /\ \A i \in 1 .. a : u[i] = s[i]
  BY SubSeqProperties
<1>2. v \in Seq(S) /\ Len(v) = Len(s) - b /\ \A i \in 1 .. Len(s) - b : v[i] = s[i + b]
  BY SubSeqProperties
<1>3. Editor!Erased(s, a, b) = u \o v
  BY DEF Editor!Erased
<1> HIDE DEF u, v
<1>4. u \o v \in Seq(S) /\ Len(u \o v) = Len(u) + Len(v)
      /\ \A i \in 1 .. Len(u) + Len(v) : (u \o v)[i] = IF i <= Len(u) THEN u[i] ELSE v[i - Len(u)]
  BY <1>1, <1>2, ConcatProperties
<1>5. Len(s) \in Nat /\ Len(u) + Len(v) = Len(s) - (b - a)
  BY <1>1, <1>2
<1>6. ASSUME NEW i \in 1 .. Len(s) - (b - a)
      PROVE  (u \o v)[i] = IF i <= a THEN s[i] ELSE s[i + (b - a)]
  <2>1. (u \o v)[i] = IF i <= a THEN u[i] ELSE v[i - a]
    BY <1>1, <1>4, <1>5
  <2>2. CASE i <= a
    BY <1>1, <2>1, <2>2
  <2>3. CASE ~(i <= a)
    <3>1. i - a \in 1 .. Len(s) - b /\ (i - a) + b = i + (b - a)
      BY <1>5, <2>3
    <3> QED
      BY <1>2, <2>1, <2>3, <3>1
  <2> QED
    BY <2>2, <2>3
<1> QED
  BY <1>3, <1>4, <1>5, <1>6

\* Erasing between two edges leaves glyphs whole.
LEMMA ErasedFits ==
    ASSUME NEW s, Utf8(s), NEW a, NEW b, Edge(s, a), Edge(s, b), a <= b
    PROVE  /\ Utf8(Editor!Erased(s, a, b)) /\ Edge(Editor!Erased(s, a, b), a)
           /\ Len(Editor!Erased(s, a, b)) = Len(s) - (b - a)
<1> DEFINE e == Editor!Erased(s, a, b)
           d == b - a
<1>1. /\ Len(s) \in Nat /\ a \in Nat /\ b \in Nat /\ a <= Len(s) /\ b <= Len(s)
      /\ a > 0 => s[a] # "L"
      /\ b > 0 => s[b] # "L"
      /\ b < Len(s) => s[b + 1] # "C"
  BY EdgeLooks DEF Edge
<1>2. d \in Nat /\ d + a = b
  BY <1>1
<1>3. e \in Seq(Editor!Bytes) /\ Len(e) = Len(s) - d
      /\ \A i \in 1 .. Len(s) - d : e[i] = IF i <= a THEN s[i] ELSE s[i + d]
  BY <1>1, ErasedBytes DEF Utf8
<1> HIDE DEF e, d
<1>4. \A i \in Nat : 1 <= i /\ i <= Len(s) =>
        /\ s[i] = "L" => i < Len(s) /\ s[i + 1] = "C"
        /\ s[i] = "C" => i > 1 /\ s[i - 1] = "L"
  BY <1>1 DEF Utf8, Editor!WellFormed
<1>5. \A i \in Nat : 1 <= i /\ i <= Len(e) => (i <= a => e[i] = s[i]) /\ (i > a => e[i] = s[i + d])
  BY <1>1, <1>2, <1>3
<1>6. Len(e) \in Nat /\ Len(e) = Len(s) - d /\ a <= Len(e)
  BY <1>1, <1>2, <1>3
<1>7. ASSUME NEW i \in 1 .. Len(e), e[i] = "L" PROVE i < Len(e) /\ e[i + 1] = "C"
  <2>1. CASE i < a
    BY <1>1, <1>4, <1>5, <1>6, <1>7, <2>1
  <2>2. CASE i = a
    BY <1>1, <1>5, <1>6, <1>7, <2>2
  <2>3. CASE i > a
    <3>1. s[i + d] = "L" /\ i + d \in Nat /\ 1 <= i + d /\ i + d <= Len(s)
      BY <1>2, <1>5, <1>6, <1>7, <2>3
    <3>2. i + d < Len(s) /\ s[(i + d) + 1] = "C"
      BY <1>4, <3>1
    <3>3. (i + d) + 1 = (i + 1) + d /\ i + 1 <= Len(e) /\ i + 1 > a
      BY <1>1, <1>2, <1>6, <2>3, <3>2
    <3>4. e[i + 1] = s[(i + 1) + d]
      BY <1>5, <3>3
    <3> QED
      BY <1>6, <3>2, <3>3, <3>4
  <2> QED
    BY <1>1, <2>1, <2>2, <2>3
<1>8. ASSUME NEW i \in 1 .. Len(e), e[i] = "C" PROVE i > 1 /\ e[i - 1] = "L"
  <2>1. CASE i <= a
    BY <1>1, <1>4, <1>5, <1>6, <1>8, <2>1
  <2>2. CASE i = a + 1
    <3>1. e[i] = s[b + 1] /\ b < Len(s)
      BY <1>1, <1>2, <1>5, <1>6, <2>2
    <3> QED
      BY <1>1, <1>8, <3>1
  <2>3. CASE i > a + 1
    <3>1. s[i + d] = "C" /\ i + d \in Nat /\ 1 <= i + d /\ i + d <= Len(s)
      BY <1>1, <1>2, <1>5, <1>6, <1>8, <2>3
    <3>2. s[(i + d) - 1] = "L"
      BY <1>4, <3>1
    <3>3. (i + d) - 1 = (i - 1) + d /\ i - 1 > a /\ 1 <= i - 1 /\ i - 1 <= Len(e) /\ i - 1 \in Nat
      BY <1>1, <1>2, <1>6, <2>3
    <3>4. e[i - 1] = s[(i - 1) + d]
      BY <1>5, <3>3
    <3> QED
      BY <3>2, <3>3, <3>4
  <2> QED
    BY <1>1, <2>1, <2>2, <2>3
<1>9. Utf8(e)
  BY <1>3, <1>7, <1>8 DEF Utf8, Editor!WellFormed
<1>10. Edge(e, a)
  <2>1. ASSUME a < Len(e) PROVE e[a + 1] = s[b + 1] /\ b < Len(s)
    <3>1. (a + 1) + d = b + 1 /\ a + 1 \in Nat /\ 1 <= a + 1 /\ a + 1 <= Len(e) /\ a + 1 > a /\ b < Len(s)
      BY <1>1, <1>2, <1>6, <2>1
    <3>2. e[a + 1] = s[(a + 1) + d]
      BY <1>5, <3>1
    <3> QED
      BY <3>1, <3>2
  <2> QED
    BY <1>1, <1>6, <2>1 DEF Edge
<1> QED
  BY <1>6, <1>9, <1>10 DEF e, d

\* Between two edges of a text, the glyph that is typed is whole.
LEMMA InsertedBytes ==
    ASSUME NEW S, NEW s \in Seq(S), NEW a \in Nat, a <= Len(s), NEW g \in Seq(S)
    PROVE  /\ Editor!Inserted(s, a, g) \in Seq(S)
           /\ Len(Editor!Inserted(s, a, g)) = Len(s) + Len(g)
           /\ \A i \in 1 .. Len(s) + Len(g) :
                 Editor!Inserted(s, a, g)[i] =
                    IF i <= a THEN s[i] ELSE IF i <= a + Len(g) THEN g[i - a] ELSE s[i - Len(g)]
<1> DEFINE u == SubSeq(s, 1, a)
           v == SubSeq(s, a + 1, Len(s))
           n == Len(g)
<1>1. u \in Seq(S) /\ Len(u) = a /\ \A i \in 1 .. a : u[i] = s[i]
  BY SubSeqProperties
<1>2. v \in Seq(S) /\ Len(v) = Len(s) - a /\ \A i \in 1 .. Len(s) - a : v[i] = s[i + a]
  BY SubSeqProperties
<1>3. Editor!Inserted(s, a, g) = (u \o g) \o v
  BY DEF Editor!Inserted
<1> HIDE DEF u, v
<1>4. u \o g \in Seq(S) /\ Len(u \o g) = a + n /\ n \in Nat
      /\ \A i \in 1 .. a + n : (u \o g)[i] = IF i <= a THEN u[i] ELSE g[i - a]
  <2>1. u \o g \in Seq(S) /\ Len(u \o g) = Len(u) + Len(g)
        /\ \A i \in 1 .. Len(u) + Len(g) : (u \o g)[i] = IF i <= Len(u) THEN u[i] ELSE g[i - Len(u)]
    BY <1>1, ConcatProperties
  <2>2. Len(u) = a /\ n \in Nat
    BY <1>1
  <2> QED
    BY <2>1, <2>2
<1> DEFINE w == u \o g
           x == w \o v
<1> HIDE DEF n, w
<1>5. x \in Seq(S) /\ Len(x) = (a + n) + (Len(s) - a)
      /\ \A i \in 1 .. (a + n) + (Len(s) - a) : x[i] = IF i <= a + n THEN w[i] ELSE v[i - (a + n)]
  <2>1. w \in Seq(S) /\ Len(w) = a + n
    BY <1>4 DEF w
  <2>2. x \in Seq(S) /\ Len(x) = Len(w) + Len(v)
        /\ \A i \in 1 .. Len(w) + Len(v) : x[i] = IF i <= Len(w) THEN w[i] ELSE v[i - Len(w)]
    BY <1>2, <2>1, ConcatProperties
  <2>3. Len(w) = a + n /\ Len(v) = Len(s) - a
    BY <1>2, <2>1
  <2> QED
    BY <2>2, <2>3
<1> HIDE DEF x
<1>6. Len(s) \in Nat /\ (a + n) + (Len(s) - a) = Len(s) + n
  BY <1>4
<1>7. ASSUME NEW i \in 1 .. Len(s) + n
      PROVE  x[i] = IF i <= a THEN s[i] ELSE IF i <= a + n THEN g[i - a] ELSE s[i - n]
  <2>1. x[i] = IF i <= a + n THEN w[i] ELSE v[i - (a + n)]
    BY <1>5, <1>6
  <2>2. CASE i <= a
    <3>1. i <= a + n /\ i \in 1 .. a + n /\ i \in 1 .. a
      BY <1>4, <2>2
    <3>2. w[i] = u[i]
      BY <1>4, <2>2, <3>1 DEF w
    <3> QED
      BY <1>1, <2>1, <2>2, <3>1, <3>2
  <2>3. CASE ~(i <= a) /\ i <= a + n
    <3>1. i \in 1 .. a + n
      BY <1>4, <2>3
    <3> QED
      BY <1>4, <2>1, <2>3, <3>1 DEF w
  <2>4. CASE ~(i <= a + n)
    <3>1. i - (a + n) \in 1 .. Len(s) - a /\ (i - (a + n)) + a = i - n /\ ~(i <= a)
      BY <1>4, <1>6, <2>4
    <3> QED
      BY <1>2, <2>1, <2>4, <3>1
  <2> QED
    BY <2>2, <2>3, <2>4
<1> QED
  BY <1>3, <1>5, <1>6, <1>7 DEF n, w, x

LEMMA InsertedFits ==
    ASSUME NEW s, Utf8(s), NEW a, Edge(s, a), NEW g \in Editor!Glyphs
    PROVE  /\ Utf8(Editor!Inserted(s, a, g)) /\ Edge(Editor!Inserted(s, a, g), a + Len(g))
           /\ Len(Editor!Inserted(s, a, g)) = Len(s) + Len(g)
<1> DEFINE e == Editor!Inserted(s, a, g)
           n == Len(g)
<1>1. /\ Len(s) \in Nat /\ a \in Nat /\ a <= Len(s)
      /\ a > 0 => s[a] # "L"
      /\ a < Len(s) => s[a + 1] # "C"
  BY EdgeLooks DEF Edge
<1>2. /\ g \in Seq(Editor!Bytes) /\ n \in {1, 2}
      /\ n = 1 => g[1] \notin {"L", "C"}
      /\ n = 2 => g[1] = "L" /\ g[2] = "C"
  <2>1. CASE g = <<"a">>
    BY <2>1 DEF Editor!Bytes
  <2>2. CASE g = <<"nl">>
    BY <2>2 DEF Editor!Bytes
  <2>3. CASE g = <<"L", "C">>
    BY <2>3 DEF Editor!Bytes
  <2> QED
    BY <2>1, <2>2, <2>3 DEF Editor!Glyphs
<1>3. e \in Seq(Editor!Bytes) /\ Len(e) = Len(s) + n
      /\ \A i \in 1 .. Len(s) + n :
            e[i] = IF i <= a THEN s[i] ELSE IF i <= a + n THEN g[i - a] ELSE s[i - n]
  BY <1>1, <1>2, InsertedBytes DEF Utf8
<1> HIDE DEF e, n
<1>4. \A i \in Nat : 1 <= i /\ i <= Len(s) =>
        /\ s[i] = "L" => i < Len(s) /\ s[i + 1] = "C"
        /\ s[i] = "C" => i > 1 /\ s[i - 1] = "L"
  BY <1>1 DEF Utf8, Editor!WellFormed
<1>5. Len(e) \in Nat /\ Len(e) = Len(s) + n /\ n \in Nat
  BY <1>1, <1>2, <1>3
<1>6. \A i \in Nat : 1 <= i /\ i <= Len(e) =>
        /\ i <= a => e[i] = s[i]
        /\ i > a /\ i <= a + n => e[i] = g[i - a]
        /\ i > a + n => e[i] = s[i - n]
  BY <1>1, <1>3, <1>5
<1>7. ASSUME NEW i \in 1 .. Len(e), e[i] = "L" PROVE i < Len(e) /\ e[i + 1] = "C"
  <2>1. CASE i < a
    BY <1>1, <1>4, <1>5, <1>6, <1>7, <2>1
  <2>2. CASE i = a
    BY <1>1, <1>5, <1>6, <1>7, <2>2
  <2>3. CASE i > a /\ i <= a + n
    <3>1. i = a + 1 \/ i = a + 2
      BY <1>1, <1>2, <2>3
    <3>2. CASE i = a + 2
      <4>1. n = 2 /\ i - a = 2
        BY <1>1, <1>2, <2>3, <3>2
      <4> QED
        BY <1>2, <1>6, <1>7, <2>3, <4>1
    <3>3. CASE i = a + 1
      <4>1. e[i] = g[1]
        BY <1>1, <1>6, <2>3, <3>3
      <4>2. n = 2
        BY <1>2, <1>7, <4>1
      <4>3. (i + 1) - a = 2 /\ i + 1 \in Nat /\ 1 <= i + 1 /\ i + 1 <= Len(e) /\ i + 1 > a /\ i + 1 <= a + n
        BY <1>1, <1>5, <3>3, <4>2
      <4>4. e[i + 1] = g[2]
        BY <1>6, <4>3
      <4> QED
        BY <1>2, <1>5, <4>2, <4>3, <4>4
    <3> QED
      BY <3>1, <3>2, <3>3
  <2>4. CASE i > a + n
    <3>1. s[i - n] = "L" /\ i - n \in Nat /\ 1 <= i - n /\ i - n <= Len(s)
      BY <1>1, <1>5, <1>6, <1>7, <2>4
    <3>2. i - n < Len(s) /\ s[(i - n) + 1] = "C"
      BY <1>4, <3>1
    <3>3. (i - n) + 1 = (i + 1) - n /\ i + 1 <= Len(e) /\ i + 1 > a + n /\ i + 1 \in Nat
      BY <1>1, <1>5, <2>4, <3>2
    <3>4. e[i + 1] = s[(i + 1) - n]
      BY <1>6, <3>3
    <3> QED
      BY <1>5, <3>2, <3>3, <3>4
  <2> QED
    BY <1>1, <1>5, <2>1, <2>2, <2>3, <2>4
<1>8. ASSUME NEW i \in 1 .. Len(e), e[i] = "C" PROVE i > 1 /\ e[i - 1] = "L"
  <2>1. CASE i <= a
    BY <1>1, <1>4, <1>5, <1>6, <1>8, <2>1
  <2>2. CASE i > a /\ i <= a + n
    <3>1. i = a + 1 \/ i = a + 2
      BY <1>1, <1>2, <2>2
    <3>2. CASE i = a + 1
      <4>1. e[i] = g[1]
        BY <1>1, <1>6, <2>2, <3>2
      <4> QED
        BY <1>2, <1>8, <4>1
    <3>3. CASE i = a + 2
      <4>1. n = 2
        BY <1>1, <1>2, <2>2, <3>3
      <4>2. (i - 1) - a = 1 /\ i - 1 \in Nat /\ 1 <= i - 1 /\ i - 1 <= Len(e) /\ i - 1 > a /\ i - 1 <= a + n
        BY <1>1, <1>5, <3>3, <4>1
      <4>3. e[i - 1] = g[1]
        BY <1>6, <4>2
      <4> QED
        BY <1>1, <1>2, <3>3, <4>1, <4>3
    <3> QED
      BY <3>1, <3>2, <3>3
  <2>3. CASE i = (a + n) + 1
    <3>1. i - n = a + 1 /\ i > a + n /\ a < Len(s)
      BY <1>1, <1>5, <2>3
    <3>2. e[i] = s[a + 1]
      BY <1>6, <3>1
    <3> QED
      BY <1>1, <1>8, <3>1, <3>2
  <2>4. CASE i > (a + n) + 1
    <3>1. s[i - n] = "C" /\ i - n \in Nat /\ 1 <= i - n /\ i - n <= Len(s)
      BY <1>1, <1>5, <1>6, <1>8, <2>4
    <3>2. s[(i - n) - 1] = "L"
      BY <1>4, <3>1
    <3>3. (i - n) - 1 = (i - 1) - n /\ i - 1 > a + n /\ 1 <= i - 1 /\ i - 1 <= Len(e) /\ i - 1 \in Nat
      BY <1>1, <1>5, <2>4
    <3>4. e[i - 1] = s[(i - 1) - n]
      BY <1>6, <3>3
    <3> QED
      BY <3>2, <3>3, <3>4
  <2> QED
    BY <1>1, <1>5, <2>1, <2>2, <2>3, <2>4
<1>9. Utf8(e)
  BY <1>3, <1>7, <1>8 DEF Utf8, Editor!WellFormed
<1>10. Edge(e, a + n)
  <2>1. ASSUME a + n < Len(e) PROVE e[(a + n) + 1] = s[a + 1] /\ a < Len(s)
    <3>1. /\ (a + n) + 1 \in Nat /\ 1 <= (a + n) + 1 /\ (a + n) + 1 <= Len(e)
          /\ (a + n) + 1 > a + n /\ ((a + n) + 1) - n = a + 1 /\ a < Len(s)
      BY <1>1, <1>5, <2>1
    <3> QED
      BY <1>6, <3>1
  <2> QED
    BY <1>1, <1>5, <2>1 DEF Edge
<1> QED
  BY <1>5, <1>9, <1>10 DEF e, n

\* To the edge in front, and to the one behind.
LEMMA EdgeBehind ==
    ASSUME Utf8(content), NEW p, Edge(content, p), p < Editor!Size
    PROVE  /\ Edge(content, p + Editor!GlyphLen(p)) /\ Editor!GlyphLen(p) \in {1, 2}
           /\ Editor!GlyphLen(p) = 2 => ~Edge(content, p + 1)
  BY EdgeLooks DEF Editor!GlyphLen, Editor!At, Editor!Size, Edge, Utf8, Editor!WellFormed

LEMMA EdgeInFront ==
    ASSUME Utf8(content), NEW p, Edge(content, p)
    PROVE  Edge(content, Editor!GlyphBack(p)) /\ Editor!GlyphBack(p) <= p
<1>1. Len(content) \in Nat /\ p \in Nat /\ p <= Len(content)
  BY EdgeLooks
<1>2. \A i \in Nat : 1 <= i /\ i <= Len(content) => (content[i] = "C" => i > 1 /\ content[i - 1] = "L")
  BY <1>1 DEF Utf8, Editor!WellFormed
<1>3. CASE p = 0
  BY <1>3 DEF Editor!GlyphBack
<1>4. CASE p # 0
  <2> DEFINE Fit(i) == /\ i = 0 \/ Editor!At(i) # "C"
                       /\ \A j \in i + 1 .. p - 1 : Editor!At(j) = "C"
  <2>1. \E i \in 0 .. p - 1 : Fit(i)
    <3>1. CASE Editor!At(p - 1) # "C"
      <4>1. p - 1 \in 0 .. p - 1 /\ (p - 1) + 1 .. p - 1 = {}
        BY <1>1, <1>4
      <4> QED
        BY <3>1, <4>1
    <3>2. CASE Editor!At(p - 1) = "C"
      <4>1. content[(p - 1) + 1] = "C" /\ (p - 1) + 1 = p
        BY <1>1, <3>2 DEF Editor!At
      <4>2. p > 1 /\ content[p - 1] = "L"
        BY <1>1, <1>2, <1>4, <4>1
      <4>3. p - 2 \in 0 .. p - 1 /\ (p - 2) + 1 = p - 1 /\ (p - 2) + 1 .. p - 1 = {p - 1}
        BY <1>1, <4>2
      <4>4. Editor!At(p - 2) # "C"
        BY <4>2, <4>3 DEF Editor!At
      <4> QED
        BY <3>2, <4>3, <4>4
    <3> QED
      BY <3>1, <3>2
  <2>2. Editor!GlyphBack(p) = CHOOSE i \in 0 .. p - 1 : Fit(i)
    BY <1>4 DEF Editor!GlyphBack
  <2>3. Editor!GlyphBack(p) \in 0 .. p - 1 /\ Fit(Editor!GlyphBack(p))
    <3> HIDE DEF Fit
    <3> QED
      BY <2>1, <2>2
  <2>4. content[1] # "C"
    BY <1>1, <1>2, <1>4
  <2> QED
    BY <1>1, <2>3, <2>4 DEF Edge, Editor!At
<1> QED
  BY <1>3, <1>4

-----------------------------------------------------------------------------
(* The prompt editor: rows.  They are recursions, of which first is shown     *)
(* that they have a solution.                                                 *)

RowStep(f, j, w) ==
    IF j >= Editor!Size THEN <<j, -1>>
    ELSE IF Editor!At(j) = "nl" THEN <<j, j + 1>>
    ELSE IF w > 0 /\ w + Editor!GlyphWidth(j) > avail THEN <<j, j>>
    ELSE f[j + Editor!GlyphLen(j)][w + Editor!GlyphWidth(j)]

RowLine(f, j) == [w \in 0 .. 2 * Editor!Size |-> RowStep(f, j, w)]

IsRow(f, i) == f = [j \in i .. Editor!Size + 1 |-> RowLine(f, j)]

LEMMA GlyphSizes ==
    ASSUME NEW j
    PROVE  Editor!GlyphLen(j) \in {1, 2} /\ Editor!GlyphWidth(j) \in {1, 2}
  BY DEF Editor!GlyphLen, Editor!GlyphWidth

LEMMA RowExists ==
    ASSUME Utf8(content), NEW i \in 0 .. Editor!Size + 1
    PROVE  \E f : IsRow(f, i)
<1> DEFINE N == Editor!Size + 1
           Solved(n) == n <= N => \E f : IsRow(f, N - n)
           T == {n \in Nat : Solved(n)}
<1>1. Editor!Size \in Nat /\ N \in Nat /\ N = Editor!Size + 1
  BY DEF Utf8, Editor!Size
<1> HIDE DEF N
<1>2. Solved(0)
  <2> DEFINE f == [j \in N .. N |-> [w \in 0 .. 2 * Editor!Size |-> <<j, -1>>]]
  <2>1. \A j \in N .. N : RowLine(f, j) = [w \in 0 .. 2 * Editor!Size |-> <<j, -1>>]
    <3> SUFFICES ASSUME NEW j \in N .. N, NEW w \in 0 .. 2 * Editor!Size PROVE RowStep(f, j, w) = <<j, -1>>
      BY DEF RowLine
    <3> HIDE DEF f
    <3> QED
      BY <1>1 DEF RowStep
  <2>2. IsRow(f, N)
    BY <1>1, <2>1 DEF IsRow
  <2> HIDE DEF f
  <2>3. N - 0 = N
    BY <1>1
  <2> QED
    BY <2>2, <2>3
<1>3. ASSUME NEW n \in Nat, Solved(n) PROVE Solved(n + 1)
  <2> SUFFICES ASSUME n + 1 <= N PROVE \E f : IsRow(f, N - (n + 1))
    OBVIOUS
  <2> DEFINE k == N - (n + 1)
  <2>1. PICK g : IsRow(g, N - n)
    BY <1>1, <1>3
  <2>2. k \in Nat /\ k + 1 = N - n /\ k <= Editor!Size
    BY <1>1
  <2> DEFINE h == [j \in k .. N |-> IF j = k THEN RowLine(g, k) ELSE g[j]]
  <2>3. \A j \in k + 1 .. N : h[j] = g[j]
    BY <1>1, <2>2
  <2>4. h[k] = RowLine(g, k)
    BY <1>1, <2>2
  <2>5. \A j \in k + 1 .. N : g[j] = RowLine(g, j)
    BY <1>1, <2>1, <2>2 DEF IsRow
  <2>6. h = [j \in k .. N |-> h[j]]
    OBVIOUS
  <2> HIDE DEF h, k
  <2>7. ASSUME NEW j \in k .. N PROVE RowLine(h, j) = RowLine(g, j)
    <3> SUFFICES ASSUME NEW w \in 0 .. 2 * Editor!Size PROVE RowStep(h, j, w) = RowStep(g, j, w)
      BY DEF RowLine
    <3>1. CASE j >= Editor!Size
      BY <3>1 DEF RowStep
    <3>2. CASE ~(j >= Editor!Size)
      <4>1. j + Editor!GlyphLen(j) \in k + 1 .. N
        BY <1>1, <2>2, <3>2, GlyphSizes
      <4>2. h[j + Editor!GlyphLen(j)] = g[j + Editor!GlyphLen(j)]
        BY <2>3, <4>1
      <4> QED
        BY <4>2 DEF RowStep
    <3> QED
      BY <3>1, <3>2
  <2>8. \A j \in k .. N : h[j] = RowLine(h, j)
    <3> SUFFICES ASSUME NEW j \in k .. N PROVE h[j] = RowLine(h, j)
      OBVIOUS
    <3>1. j = k \/ j \in k + 1 .. N
      BY <1>1, <2>2
    <3> QED
      BY <2>3, <2>4, <2>5, <2>7, <3>1
  <2>9. IsRow(h, k)
    <3>1. h = [j \in k .. Editor!Size + 1 |-> h[j]]
      BY <1>1, <2>6
    <3> QED
      BY <1>1, <2>8, <3>1 DEF IsRow
  <2> QED
    BY <2>9 DEF k
<1> HIDE DEF Solved
<1>4. Nat \subseteq T
  <2>1. 0 \in T /\ \A n \in Nat : n \in T => n + 1 \in T
    BY <1>2, <1>3
  <2> HIDE DEF T
  <2> QED
    BY <2>1, SetInduction
<1>5. Solved(N - i)
  BY <1>1, <1>4
<1>6. N - i <= N /\ N - (N - i) = i
  BY <1>1
<1> QED
  BY <1>5, <1>6 DEF Solved

\* RowFrom(i) is what such a solution says of i.
LEMMA RowFromIs ==
    ASSUME Utf8(content), NEW i \in 0 .. Editor!Size + 1
    PROVE  \E f : IsRow(f, i) /\ Editor!RowFrom(i) = f[i][0]
<1> DEFINE r == CHOOSE f : IsRow(f, i)
<1>1. Editor!RowFrom(i) = r[i][0]
  BY DEF Editor!RowFrom, IsRow, RowLine, RowStep
<1>2. IsRow(r, i)
  <2> HIDE DEF IsRow
  <2> QED
    BY RowExists
<1> QED
  BY <1>1, <1>2

\* Where a row that starts at i ends, and where the next one starts.
RowEnd(i, r) ==
    /\ r[1] \in i .. Editor!Size /\ (Edge(content, i) => Edge(content, r[1]))
    /\ \/ r[2] = -1 /\ r[1] = Editor!Size
       \/ /\ r[2] \in i + 1 .. Editor!Size /\ r[2] \in {r[1], r[1] + 1}
          /\ Edge(content, i) => Edge(content, r[2])

LEMMA RowEnds ==
    ASSUME Utf8(content), NEW i \in 0 .. Editor!Size
    PROVE  RowEnd(i, Editor!RowFrom(i))
<1> DEFINE N == Editor!Size
<1>1. N \in Nat /\ N = Len(content) /\ i \in Nat /\ i <= N
  BY DEF Utf8, Editor!Size
<1>2. PICK f : IsRow(f, i) /\ Editor!RowFrom(i) = f[i][0]
  <2>1. i \in 0 .. Editor!Size + 1
    BY <1>1
  <2> QED
    BY <2>1, RowFromIs
<1>3. \A j \in i .. N, w \in 0 .. 2 * N : f[j][w] = RowStep(f, j, w)
  <2> SUFFICES ASSUME NEW j \in i .. N, NEW w \in 0 .. 2 * N PROVE f[j][w] = RowStep(f, j, w)
    OBVIOUS
  <2>1. j \in i .. Editor!Size + 1
    BY <1>1
  <2>2. f[j] = RowLine(f, j)
    BY <1>2, <2>1 DEF IsRow
  <2> QED
    BY <2>2 DEF RowLine
<1> DEFINE On(j, w) == /\ j \in i .. N /\ w \in 0 .. 2 * (j - i)
                       /\ Edge(content, i) => Edge(content, j)
           Good(n) == \A j, w : On(j, w) /\ j + n >= N => RowEnd(i, f[j][w])
           T == {n \in Nat : Good(n)}
<1>4. ASSUME NEW j, NEW w, On(j, w) PROVE f[j][w] = RowStep(f, j, w)
  <2>1. j \in i .. N /\ w \in 0 .. 2 * N
    BY <1>1, <1>4
  <2> QED
    BY <1>3, <2>1
<1>5. ASSUME NEW j, NEW w, On(j, w), j >= N PROVE RowEnd(i, f[j][w])
  <2>1. f[j][w] = <<j, -1>>
    <3>1. f[j][w] = RowStep(f, j, w)
      <4> HIDE DEF On
      <4> QED
        BY <1>4, <1>5
    <3> QED
      BY <1>5, <3>1 DEF RowStep
  <2>2. j = N /\ j \in i .. N
    BY <1>1, <1>5
  <2> QED
    BY <1>1, <1>5, <2>1, <2>2 DEF RowEnd
<1> HIDE DEF N
<1>6. Good(0)
  <2> SUFFICES ASSUME NEW j, NEW w, On(j, w), j + 0 >= N PROVE RowEnd(i, f[j][w])
    OBVIOUS
  <2>1. j >= N
    BY <1>1
  <2> HIDE DEF On
  <2> QED
    BY <1>5, <2>1
<1>7. ASSUME NEW n \in Nat, Good(n) PROVE Good(n + 1)
  <2> SUFFICES ASSUME NEW j, NEW w, On(j, w), j + (n + 1) >= N, ~(j >= N) PROVE RowEnd(i, f[j][w])
    BY <1>5
  <2>0. j \in Nat /\ i <= j /\ j < N /\ w \in Nat /\ w <= 2 * (j - i)
    BY <1>1
  <2>1. f[j][w] = RowStep(f, j, w)
    <3> HIDE DEF On
    <3> QED
      BY <1>4
  <2>2. \A k \in Nat : 1 <= k /\ k <= N => (content[k] = "L" => k < N /\ content[k + 1] = "C")
                                          /\ (content[k] = "C" => k > 1 /\ content[k - 1] = "L")
    BY <1>1 DEF Utf8, Editor!WellFormed
  <2>3. CASE Editor!At(j) = "nl"
    <3>1. f[j][w] = <<j, j + 1>>
      BY <2>0, <2>1, <2>3 DEF RowStep, N
    <3>2. Edge(content, j + 1)
      <4>1. content[j + 1] = "nl" /\ j + 1 \in 0 .. Len(content)
        BY <1>1, <2>0, <2>3 DEF Editor!At
      <4>2. j + 1 < Len(content) /\ content[(j + 1) + 1] = "C" => content[j + 1] = "L"
        BY <1>1, <2>0, <2>2
      <4> QED
        BY <4>1, <4>2 DEF Edge
    <3>3. j + 1 \in i + 1 .. N /\ j \in i .. N
      BY <1>1, <2>0
    <3> QED
      BY <3>1, <3>2, <3>3 DEF RowEnd, N
  <2>4. CASE Editor!At(j) # "nl" /\ w > 0 /\ w + Editor!GlyphWidth(j) > avail
    <3>1. f[j][w] = <<j, j>>
      BY <2>0, <2>1, <2>4 DEF RowStep, N
    <3>2. j \in i + 1 .. N /\ j \in i .. N
      BY <1>1, <2>0, <2>4
    <3> QED
      BY <3>1, <3>2 DEF RowEnd, N
  <2>5. CASE Editor!At(j) # "nl" /\ ~(w > 0 /\ w + Editor!GlyphWidth(j) > avail)
    <3> DEFINE k == j + Editor!GlyphLen(j)
               v == w + Editor!GlyphWidth(j)
    <3>1. f[j][w] = f[k][v]
      BY <2>0, <2>1, <2>5 DEF RowStep, N
    <3>2. k \in i .. N /\ k + n >= N
      <4>1. CASE Editor!At(j) = "L"
        <5>1. content[j + 1] = "L" /\ j + 1 < N
          BY <1>1, <2>0, <2>2, <4>1 DEF Editor!At
        <5>2. k = j + 2
          BY <4>1 DEF Editor!GlyphLen
        <5> HIDE DEF k
        <5> QED
          BY <1>1, <1>7, <2>0, <5>1, <5>2
      <4>2. CASE Editor!At(j) # "L"
        <5>1. k = j + 1
          BY <4>2 DEF Editor!GlyphLen
        <5> HIDE DEF k
        <5> QED
          BY <1>1, <1>7, <2>0, <5>1
      <4> QED
        BY <4>1, <4>2
    <3>3. v \in 0 .. 2 * (k - i)
      <4>1. Editor!GlyphLen(j) \in {1, 2} /\ Editor!GlyphWidth(j) \in {1, 2}
        BY GlyphSizes
      <4> QED
        BY <1>1, <2>0, <4>1
    <3>4. ASSUME Edge(content, i) PROVE Edge(content, k)
      <4>1. Edge(content, j) /\ j < Editor!Size
        BY <2>0, <3>4 DEF N
      <4> QED
        BY <4>1, EdgeBehind
    <3> HIDE DEF k, v
    <3>5. On(k, v)
      BY <3>2, <3>3, <3>4
    <3> HIDE DEF On
    <3> QED
      BY <1>7, <3>1, <3>2, <3>5
  <2> QED
    BY <2>3, <2>4, <2>5
<1>8. On(i, 0)
  BY <1>1
<1> HIDE DEF Good, On
<1>9. Nat \subseteq T
  <2>1. 0 \in T /\ \A n \in Nat : n \in T => n + 1 \in T
    BY <1>6, <1>7
  <2> HIDE DEF T
  <2> QED
    BY <2>1, SetInduction
<1>10. Good(N) /\ i + N >= N
  BY <1>1, <1>9
<1> QED
  BY <1>2, <1>8, <1>10 DEF Good

\* Behind the text there is one empty row.
LEMMA RowBehind == ASSUME Utf8(content) PROVE Editor!RowFrom(Editor!Size + 1) = <<Editor!Size + 1, -1>>
<1> DEFINE N == Editor!Size + 1
<1>1. Editor!Size \in Nat /\ N \in 0 .. Editor!Size + 1 /\ N = Editor!Size + 1
  BY DEF Utf8, Editor!Size
<1>2. PICK f : IsRow(f, N) /\ Editor!RowFrom(N) = f[N][0]
  BY <1>1, RowFromIs
<1>3. f[N] = RowLine(f, N)
  BY <1>1, <1>2 DEF IsRow
<1>4. f[N][0] = RowStep(f, N, 0)
  BY <1>1, <1>3 DEF RowLine
<1>5. RowStep(f, N, 0) = <<N, -1>>
  BY <1>1 DEF RowStep
<1> QED
  BY <1>2, <1>4, <1>5

WrapStep(f, i) ==
    <<[start |-> i, end |-> Editor!RowFrom(i)[1]]>>
        \o (IF Editor!RowFrom(i)[2] = -1 THEN <<>> ELSE f[Editor!RowFrom(i)[2]])

IsWrap(f, i) == f = [j \in i .. Editor!Size + 1 |-> WrapStep(f, j)]

LEMMA WrapExists == ASSUME Utf8(content) PROVE \E f : IsWrap(f, 0)
<1> DEFINE N == Editor!Size + 1
           Solved(n) == n <= N => \E f : IsWrap(f, N - n)
           T == {n \in Nat : Solved(n)}
<1>1. Editor!Size \in Nat /\ N \in Nat /\ N = Editor!Size + 1
  BY DEF Utf8, Editor!Size
<1> HIDE DEF N
<1>2. Solved(0)
  <2> DEFINE f == [j \in N .. N |-> <<[start |-> j, end |-> Editor!RowFrom(j)[1]]>> \o <<>>]
  <2>1. Editor!RowFrom(N)[2] = -1
    BY <1>1, RowBehind
  <2>2. \A j \in N .. N : WrapStep(f, j) = f[j]
    <3> SUFFICES ASSUME NEW j \in N .. N PROVE WrapStep(f, j) = f[j]
      OBVIOUS
    <3>1. j = N
      BY <1>1
    <3>2. f[N] = <<[start |-> N, end |-> Editor!RowFrom(N)[1]]>> \o <<>>
      BY <1>1
    <3> HIDE DEF f
    <3> QED
      BY <2>1, <3>1, <3>2 DEF WrapStep
  <2>3. f = [j \in N .. N |-> f[j]]
    OBVIOUS
  <2> HIDE DEF f
  <2>4. IsWrap(f, N)
    BY <1>1, <2>2, <2>3 DEF IsWrap
  <2>5. N - 0 = N
    BY <1>1
  <2> QED
    BY <2>4, <2>5
<1>3. ASSUME NEW n \in Nat, Solved(n) PROVE Solved(n + 1)
  <2> SUFFICES ASSUME n + 1 <= N PROVE \E f : IsWrap(f, N - (n + 1))
    OBVIOUS
  <2> DEFINE k == N - (n + 1)
  <2>1. PICK g : IsWrap(g, N - n)
    BY <1>1, <1>3
  <2>2. k \in Nat /\ k + 1 = N - n /\ k <= Editor!Size
    BY <1>1
  <2> DEFINE h == [j \in k .. N |-> IF j = k THEN WrapStep(g, k) ELSE g[j]]
  <2>3. \A j \in k + 1 .. N : h[j] = g[j]
    BY <1>1, <2>2
  <2>4. h[k] = WrapStep(g, k)
    BY <1>1, <2>2
  <2>5. \A j \in k + 1 .. N : g[j] = WrapStep(g, j)
    BY <1>1, <2>1, <2>2 DEF IsWrap
  <2>6. h = [j \in k .. N |-> h[j]]
    OBVIOUS
  <2> HIDE DEF h, k
  <2>7. ASSUME NEW j \in k .. N PROVE WrapStep(h, j) = WrapStep(g, j)
    <3>1. CASE Editor!RowFrom(j)[2] = -1
      BY <3>1 DEF WrapStep
    <3>2. CASE Editor!RowFrom(j)[2] # -1
      <4>1. j # N
        BY <1>1, <3>2, RowBehind
      <4>2. j \in 0 .. Editor!Size
        BY <1>1, <2>2, <4>1
      <4>3. RowEnd(j, Editor!RowFrom(j))
        BY <4>2, RowEnds
      <4>4. Editor!RowFrom(j)[2] \in k + 1 .. N
        BY <1>1, <2>2, <3>2, <4>2, <4>3 DEF RowEnd
      <4>5. h[Editor!RowFrom(j)[2]] = g[Editor!RowFrom(j)[2]]
        BY <2>3, <4>4
      <4> QED
        BY <4>5 DEF WrapStep
    <3> QED
      BY <3>1, <3>2
  <2>8. \A j \in k .. N : h[j] = WrapStep(h, j)
    <3> SUFFICES ASSUME NEW j \in k .. N PROVE h[j] = WrapStep(h, j)
      OBVIOUS
    <3>1. j = k \/ j \in k + 1 .. N
      BY <1>1, <2>2
    <3> QED
      BY <2>3, <2>4, <2>5, <2>7, <3>1
  <2>9. IsWrap(h, k)
    <3>1. h = [j \in k .. Editor!Size + 1 |-> h[j]]
      BY <1>1, <2>6
    <3> QED
      BY <1>1, <2>8, <3>1 DEF IsWrap
  <2> QED
    BY <2>9 DEF k
<1> HIDE DEF Solved
<1>4. Nat \subseteq T
  <2>1. 0 \in T /\ \A n \in Nat : n \in T => n + 1 \in T
    BY <1>2, <1>3
  <2> HIDE DEF T
  <2> QED
    BY <2>1, SetInduction
<1>5. Solved(N)
  BY <1>1, <1>4
<1>6. N <= N /\ N - N = 0
  BY <1>1
<1> QED
  BY <1>5, <1>6 DEF Solved

\* The rows from i on: edges, and every place of the text.
RowsFit(i, s) ==
    /\ s \in Seq([start : Int, end : Int]) /\ Len(s) > 0
    /\ \A r \in 1 .. Len(s) :
          s[r].start <= s[r].end /\ Edge(content, s[r].start) /\ Edge(content, s[r].end)
    /\ \A p \in i .. Editor!Size : \E r \in 1 .. Len(s) : s[r].start <= p /\ p <= s[r].end

LEMMA RowsSound == ASSUME Utf8(content) PROVE RowsFit(0, Editor!Rows)
<1> DEFINE N == Editor!Size
           f == CHOOSE g : IsWrap(g, 0)
           Good(n) == \A i \in 0 .. N : i + n >= N /\ Edge(content, i) => RowsFit(i, f[i])
           T == {n \in Nat : Good(n)}
<1>1. N \in Nat /\ N = Len(content) /\ N = Editor!Size
  BY DEF Utf8, Editor!Size
<1>2. Editor!Rows = f[0]
  BY DEF Editor!Rows, IsWrap, WrapStep
<1>3. \A i \in 0 .. N : f[i] = WrapStep(f, i)
  <2>1. IsWrap(f, 0)
    <3> HIDE DEF IsWrap
    <3> QED
      BY WrapExists
  <2> HIDE DEF f
  <2>2. \A i \in 0 .. N : i \in 0 .. Editor!Size + 1
    BY <1>1
  <2> QED
    BY <2>1, <2>2 DEF IsWrap
<1> HIDE DEF f, N
\* The last row.
<1>4. ASSUME NEW i \in 0 .. N, Edge(content, i), Editor!RowFrom(i)[2] = -1 PROVE RowsFit(i, f[i])
  <2> DEFINE row == [start |-> i, end |-> Editor!RowFrom(i)[1]]
  <2>1. f[i] = <<row>> \o <<>>
    BY <1>3, <1>4 DEF WrapStep
  <2>2. RowEnd(i, Editor!RowFrom(i))
    BY <1>1, RowEnds
  <2>3. row.start = i /\ row.end = N /\ Edge(content, N) /\ row \in [start : Int, end : Int]
    BY <1>1, <1>4, <2>2 DEF RowEnd
  <2> HIDE DEF row
  <2>4. f[i] = <<row>>
    BY <2>1
  <2>5. f[i] \in Seq([start : Int, end : Int]) /\ Len(f[i]) = 1 /\ f[i][1] = row
    BY <2>3, <2>4
  <2>6. i <= N
    BY <1>1
  <2>7. \A r \in 1 .. Len(f[i]) :
          f[i][r].start <= f[i][r].end /\ Edge(content, f[i][r].start) /\ Edge(content, f[i][r].end)
    BY <1>4, <2>3, <2>5, <2>6
  <2>8. \A p \in i .. Editor!Size : \E r \in 1 .. Len(f[i]) : f[i][r].start <= p /\ p <= f[i][r].end
    BY <1>1, <2>3, <2>5
  <2> QED
    BY <2>5, <2>7, <2>8 DEF RowsFit
\* A row with others behind.
<1>5. ASSUME NEW i \in 0 .. N, Edge(content, i), Editor!RowFrom(i)[2] # -1,
             RowsFit(Editor!RowFrom(i)[2], f[Editor!RowFrom(i)[2]])
      PROVE  RowsFit(i, f[i])
  <2> DEFINE row == [start |-> i, end |-> Editor!RowFrom(i)[1]]
             k == Editor!RowFrom(i)[2]
             s == f[k]
  <2>1. f[i] = <<row>> \o s
    BY <1>3, <1>5 DEF WrapStep
  <2>2. RowEnd(i, Editor!RowFrom(i))
    BY <1>1, RowEnds
  <2>3. /\ row.start = i /\ row.end \in i .. N /\ Edge(content, row.end)
        /\ k \in i + 1 .. N /\ k \in {row.end, row.end + 1}
        /\ row \in [start : Int, end : Int]
    BY <1>1, <1>5, <2>2 DEF RowEnd
  <2>4. RowsFit(k, s)
    BY <1>5
  <2> HIDE DEF row, k, s
  <2> DEFINE S == [start : Int, end : Int]
             t == <<row>> \o s
  <2>5. <<row>> \in Seq(S) /\ Len(<<row>>) = 1 /\ <<row>>[1] = row /\ s \in Seq(S) /\ Len(s) \in Nat
    BY <2>3, <2>4 DEF RowsFit
  <2> HIDE DEF S
  <2>6. t \in Seq(S) /\ Len(t) = Len(<<row>>) + Len(s)
        /\ \A r \in 1 .. Len(<<row>>) + Len(s) :
              t[r] = IF r <= Len(<<row>>) THEN <<row>>[r] ELSE s[r - Len(<<row>>)]
    BY <2>5, ConcatProperties
  <2> HIDE DEF t
  <2>7. Len(t) = Len(s) + 1 /\ t[1] = row /\ \A r \in 1 .. Len(s) : t[r + 1] = s[r]
    <3>1. Len(t) = Len(s) + 1 /\ \A r \in 1 .. Len(s) + 1 : t[r] = IF r <= 1 THEN <<row>>[r] ELSE s[r - 1]
      BY <2>5, <2>6
    <3>2. t[1] = row
      BY <2>5, <3>1
    <3>3. ASSUME NEW r \in 1 .. Len(s) PROVE t[r + 1] = s[r]
      <4>1. r + 1 \in 1 .. Len(s) + 1 /\ ~(r + 1 <= 1) /\ (r + 1) - 1 = r
        BY <2>5
      <4> QED
        BY <3>1, <4>1
    <3> QED
      BY <3>1, <3>2, <3>3
  <2>8. ASSUME NEW r \in 1 .. Len(t)
        PROVE  t[r].start <= t[r].end /\ Edge(content, t[r].start) /\ Edge(content, t[r].end)
    <3>1. CASE r = 1
      BY <1>1, <1>5, <2>3, <2>7, <3>1
    <3>2. CASE r # 1
      <4>1. r - 1 \in 1 .. Len(s) /\ (r - 1) + 1 = r
        BY <2>5, <2>7, <3>2
      <4>2. t[r] = s[r - 1]
        BY <2>7, <4>1
      <4> QED
        BY <2>4, <4>1, <4>2 DEF RowsFit
    <3> QED
      BY <3>1, <3>2
  <2>9. ASSUME NEW p \in i .. Editor!Size
        PROVE  \E r \in 1 .. Len(t) : t[r].start <= p /\ p <= t[r].end
    <3>1. CASE p <= row.end
      BY <1>1, <2>3, <2>5, <2>7, <3>1
    <3>2. CASE ~(p <= row.end)
      <4>1. p \in k .. Editor!Size
        BY <1>1, <2>3, <3>2
      <4>2. PICK r \in 1 .. Len(s) : s[r].start <= p /\ p <= s[r].end
        BY <2>4, <4>1 DEF RowsFit
      <4>3. r + 1 \in 1 .. Len(t) /\ t[r + 1] = s[r]
        BY <2>5, <2>7
      <4> QED
        BY <4>2, <4>3
    <3> QED
      BY <3>1, <3>2
  <2>10. t \in Seq([start : Int, end : Int]) /\ Len(t) > 0
    BY <2>5, <2>6, <2>7 DEF S
  <2>11. RowsFit(i, t)
    BY <2>8, <2>9, <2>10 DEF RowsFit
  <2> QED
    BY <2>1, <2>11 DEF t
<1>6. Good(0)
  <2> SUFFICES ASSUME NEW i \in 0 .. N, i + 0 >= N, Edge(content, i) PROVE RowsFit(i, f[i])
    OBVIOUS
  <2>1. RowEnd(i, Editor!RowFrom(i)) /\ i = N
    BY <1>1, RowEnds
  <2>2. Editor!RowFrom(i)[2] = -1
    BY <1>1, <2>1 DEF RowEnd
  <2> QED
    BY <1>4, <2>2
<1>7. ASSUME NEW n \in Nat, Good(n) PROVE Good(n + 1)
  <2> SUFFICES ASSUME NEW i \in 0 .. N, i + (n + 1) >= N, Edge(content, i) PROVE RowsFit(i, f[i])
    OBVIOUS
  <2>1. CASE Editor!RowFrom(i)[2] = -1
    BY <1>4, <2>1
  <2>2. CASE Editor!RowFrom(i)[2] # -1
    <3> DEFINE k == Editor!RowFrom(i)[2]
    <3>1. RowEnd(i, Editor!RowFrom(i))
      BY <1>1, RowEnds
    <3>2. k \in i + 1 .. N /\ Edge(content, k)
      BY <1>1, <2>2, <3>1 DEF RowEnd
    <3>3. k \in 0 .. N /\ k + n >= N
      BY <1>1, <3>2
    <3> HIDE DEF k
    <3>4. RowsFit(k, f[k])
      BY <1>7, <3>2, <3>3
    <3> QED
      BY <1>5, <2>2, <3>4 DEF k
  <2> QED
    BY <2>1, <2>2
<1>8. Edge(content, 0)
  BY <1>1 DEF Edge, Utf8, Editor!WellFormed
<1> HIDE DEF Good
<1>9. Nat \subseteq T
  <2>1. 0 \in T /\ \A n \in Nat : n \in T => n + 1 \in T
    BY <1>6, <1>7
  <2> HIDE DEF T
  <2> QED
    BY <2>1, SetInduction
<1>10. Good(N) /\ 0 \in 0 .. N /\ 0 + N >= N
  BY <1>1, <1>9
<1> QED
  BY <1>2, <1>8, <1>10 DEF Good

LEMMA Least ==
    ASSUME NEW R, R \subseteq Nat, R # {}
    PROVE  \E r \in R : \A q \in R : r <= q
<1> DEFINE Less == OpToRel(<, Nat)
<1>1. IsWellFoundedOn(Less, Nat)
  BY NatLessThanWellFounded
<1>2. PICK r \in R : \A q \in R : <<q, r>> \notin Less
  <2> HIDE DEF Less
  <2> QED BY <1>1, WFMin
<1>3. ASSUME NEW q \in R, ~(r <= q) PROVE FALSE
  <2>1. q \in Nat /\ r \in Nat /\ q < r
    BY <1>3
  <2>2. <<q, r>> \in Less
    BY <2>1 DEF OpToRel
  <2> QED
    BY <1>2, <2>2
<1> QED
  BY <1>3

\* The cursor is on a row.
LEMMA CursorOnRow ==
    ASSUME Utf8(content), Edge(content, cursor)
    PROVE  /\ DOMAIN Editor!Rows = 1 .. Len(Editor!Rows)
           /\ \E r \in DOMAIN Editor!Rows : Editor!Rows[r].start <= cursor /\ cursor <= Editor!Rows[r].end
           /\ Editor!CursorRow \in DOMAIN Editor!Rows
<1> DEFINE Has(r) == Editor!Rows[r].start <= cursor /\ cursor <= Editor!Rows[r].end
           R == {r \in 1 .. Len(Editor!Rows) : Has(r)}
<1>1. RowsFit(0, Editor!Rows)
  BY RowsSound
<1>2. DOMAIN Editor!Rows = 1 .. Len(Editor!Rows)
  BY <1>1 DEF RowsFit
<1>3. cursor \in 0 .. Editor!Size
  BY DEF Edge, Editor!Size
<1>4. R # {} /\ R \subseteq Nat
  BY <1>1, <1>3 DEF RowsFit
<1>5. PICK r \in R : \A q \in R : r <= q
  <2> HIDE DEF R
  <2> QED
    BY <1>4, Least
<1>6. r \in DOMAIN Editor!Rows /\ Has(r) /\ \A q \in 1 .. r - 1 : ~Has(q)
  BY <1>2, <1>5
<1>7. Editor!CursorRow = CHOOSE k \in DOMAIN Editor!Rows : Has(k) /\ \A q \in 1 .. k - 1 : ~Has(q)
  BY <1>6 DEF Editor!CursorRow
<1>8. Editor!CursorRow \in DOMAIN Editor!Rows
  <2> HIDE DEF Has
  <2> QED
    BY <1>6, <1>7
<1> QED
  BY <1>2, <1>6, <1>8

WalkStep(f, row, col, p, w) ==
    IF p >= row.end \/ w + Editor!GlyphWidth(p) > col THEN p
    ELSE f[p + Editor!GlyphLen(p)][w + Editor!GlyphWidth(p)]

WalkLine(f, row, col, p) == [w \in 0 .. 2 * Editor!Size |-> WalkStep(f, row, col, p, w)]

IsWalk(f, row, col, i) == f = [p \in i .. row.end + 1 |-> WalkLine(f, row, col, p)]

LEMMA WalkExists ==
    ASSUME NEW row, NEW col, row.start \in Int, row.end \in Int, row.start <= row.end
    PROVE  \E f : IsWalk(f, row, col, row.start)
<1> DEFINE N == row.end + 1
           Solved(n) == n <= N - row.start => \E f : IsWalk(f, row, col, N - n)
           T == {n \in Nat : Solved(n)}
<1>1. row.end \in Int /\ N \in Int /\ N = row.end + 1 /\ row.start \in Int /\ N - row.start \in Nat
  OBVIOUS
<1> HIDE DEF N
<1>2. Solved(0)
  <2> DEFINE f == [p \in N .. N |-> [w \in 0 .. 2 * Editor!Size |-> p]]
  <2>1. \A p \in N .. N : WalkLine(f, row, col, p) = [w \in 0 .. 2 * Editor!Size |-> p]
    <3> SUFFICES ASSUME NEW p \in N .. N, NEW w \in 0 .. 2 * Editor!Size PROVE WalkStep(f, row, col, p, w) = p
      BY DEF WalkLine
    <3>1. p >= row.end
      BY <1>1
    <3> HIDE DEF f
    <3> QED
      BY <3>1 DEF WalkStep
  <2>2. IsWalk(f, row, col, N)
    BY <1>1, <2>1 DEF IsWalk
  <2> HIDE DEF f
  <2>3. N - 0 = N
    BY <1>1
  <2> QED
    BY <2>2, <2>3
<1>3. ASSUME NEW n \in Nat, Solved(n) PROVE Solved(n + 1)
  <2> SUFFICES ASSUME n + 1 <= N - row.start PROVE \E f : IsWalk(f, row, col, N - (n + 1))
    OBVIOUS
  <2> DEFINE k == N - (n + 1)
  <2>1. PICK g : IsWalk(g, row, col, N - n)
    BY <1>1, <1>3
  <2>2. k \in Int /\ k + 1 = N - n /\ k <= row.end
    BY <1>1
  <2> DEFINE h == [p \in k .. N |-> IF p = k THEN WalkLine(g, row, col, k) ELSE g[p]]
  <2>3. \A p \in k + 1 .. N : h[p] = g[p]
    BY <1>1, <2>2
  <2>4. h[k] = WalkLine(g, row, col, k)
    <3>1. k \in k .. N
      BY <1>1, <2>2
    <3> QED
      BY <3>1
  <2>5. \A p \in k + 1 .. N : g[p] = WalkLine(g, row, col, p)
    BY <1>1, <2>1, <2>2 DEF IsWalk
  <2>6. h = [p \in k .. N |-> h[p]]
    OBVIOUS
  <2> HIDE DEF h, k
  <2>7. ASSUME NEW p \in k .. N PROVE WalkLine(h, row, col, p) = WalkLine(g, row, col, p)
    <3> SUFFICES ASSUME NEW w \in 0 .. 2 * Editor!Size
                 PROVE  WalkStep(h, row, col, p, w) = WalkStep(g, row, col, p, w)
      BY DEF WalkLine
    <3>1. CASE p >= row.end
      BY <3>1 DEF WalkStep
    <3>2. CASE ~(p >= row.end)
      <4>1. p + Editor!GlyphLen(p) \in k + 1 .. N
        BY <1>1, <2>2, <3>2, GlyphSizes
      <4>2. h[p + Editor!GlyphLen(p)] = g[p + Editor!GlyphLen(p)]
        BY <2>3, <4>1
      <4> QED
        BY <4>2 DEF WalkStep
    <3> QED
      BY <3>1, <3>2
  <2>8. \A p \in k .. N : h[p] = WalkLine(h, row, col, p)
    <3> SUFFICES ASSUME NEW p \in k .. N PROVE h[p] = WalkLine(h, row, col, p)
      OBVIOUS
    <3>1. p = k \/ p \in k + 1 .. N
      BY <1>1, <2>2
    <3> QED
      BY <2>3, <2>4, <2>5, <2>7, <3>1
  <2>9. IsWalk(h, row, col, k)
    <3>1. h = [p \in k .. row.end + 1 |-> h[p]]
      BY <1>1, <2>6
    <3> QED
      BY <1>1, <2>8, <3>1 DEF IsWalk
  <2> QED
    BY <2>9 DEF k
<1> HIDE DEF Solved
<1>4. Nat \subseteq T
  <2>1. 0 \in T /\ \A n \in Nat : n \in T => n + 1 \in T
    BY <1>2, <1>3
  <2> HIDE DEF T
  <2> QED
    BY <2>1, SetInduction
<1>5. Solved(N - row.start)
  BY <1>1, <1>4
<1>6. N - row.start <= N - row.start /\ N - (N - row.start) = row.start
  BY <1>1
<1> QED
  BY <1>5, <1>6 DEF Solved

\* A column is at an edge.
LEMMA PlaceIsEdge ==
    ASSUME Utf8(content), NEW row, NEW col, row.start \in Int, row.end \in Int, row.start <= row.end,
           Edge(content, row.start), Edge(content, row.end)
    PROVE  Edge(content, Editor!PlaceAtColumn(row, col))
<1> DEFINE N == Editor!Size
           E == row.end
           i == row.start
           f == CHOOSE g : IsWalk(g, row, col, row.start)
           On(p, w) == p \in i .. E /\ w \in 0 .. 2 * (p - i) /\ Edge(content, p)
           Good(n) == \A p, w : On(p, w) /\ p + n >= E => Edge(content, f[p][w])
           T == {n \in Nat : Good(n)}
<1>1. N \in Nat /\ i \in Nat /\ E \in Nat /\ E <= N /\ i <= E
  BY DEF Utf8, Editor!Size, Edge
<1>2. Editor!PlaceAtColumn(row, col) = f[i][0]
  BY DEF Editor!PlaceAtColumn, IsWalk, WalkLine, WalkStep
<1>3. IsWalk(f, row, col, i)
  <2> HIDE DEF IsWalk
  <2> QED
    BY WalkExists
<1> HIDE DEF f
<1>4. ASSUME NEW p, NEW w, On(p, w) PROVE f[p][w] = WalkStep(f, row, col, p, w)
  <2>1. p \in i .. E + 1 /\ w \in 0 .. 2 * N
    BY <1>1, <1>4
  <2>2. f[p] = WalkLine(f, row, col, p)
    BY <1>3, <2>1 DEF IsWalk
  <2> QED
    BY <2>1, <2>2 DEF WalkLine
<1>5. ASSUME NEW p, NEW w, On(p, w), p >= E PROVE Edge(content, f[p][w])
  <2>1. f[p][w] = WalkStep(f, row, col, p, w)
    <3> HIDE DEF On
    <3> QED
      BY <1>4, <1>5
  <2>2. f[p][w] = p
    BY <1>5, <2>1 DEF WalkStep
  <2> QED
    BY <1>5, <2>2
<1>6. Good(0)
  <2> SUFFICES ASSUME NEW p, NEW w, On(p, w), p + 0 >= E PROVE Edge(content, f[p][w])
    OBVIOUS
  <2>1. p >= E
    BY <1>1
  <2> HIDE DEF On
  <2> QED
    BY <1>5, <2>1
<1>7. ASSUME NEW n \in Nat, Good(n) PROVE Good(n + 1)
  <2> SUFFICES ASSUME NEW p, NEW w, On(p, w), p + (n + 1) >= E, ~(p >= E) PROVE Edge(content, f[p][w])
    BY <1>5
  <2>1. p \in Nat /\ i <= p /\ p < E /\ w \in Nat /\ w <= 2 * (p - i) /\ Edge(content, p)
    BY <1>1
  <2>2. f[p][w] = WalkStep(f, row, col, p, w)
    <3> HIDE DEF On
    <3> QED
      BY <1>4
  <2> DEFINE k == p + Editor!GlyphLen(p)
             v == w + Editor!GlyphWidth(p)
  <2>3. CASE v > col
    <3>1. f[p][w] = p
      BY <2>2, <2>3 DEF WalkStep
    <3> QED
      BY <2>1, <3>1
  <2>4. CASE ~(v > col)
    <3>1. f[p][w] = f[k][v]
      BY <2>1, <2>2, <2>4 DEF WalkStep
    <3>2. Edge(content, k) /\ Editor!GlyphLen(p) \in {1, 2} /\ (Editor!GlyphLen(p) = 2 => ~Edge(content, p + 1))
      BY <1>1, <2>1, EdgeBehind
    <3>3. k \in i .. E /\ k + n >= E
      <4> DEFINE l == Editor!GlyphLen(p)
      <4>1. l \in {1, 2} /\ (p + 1 # E \/ l = 1) /\ k = p + l
        BY <3>2
      <4>2. p + (n + 1) >= E /\ n \in Nat
        BY <1>7
      <4> HIDE DEF l, k, E
      <4> QED
        BY <1>1, <2>1, <4>1, <4>2
    <3>4. v \in 0 .. 2 * (k - i)
      <4>1. Editor!GlyphLen(p) \in {1, 2} /\ Editor!GlyphWidth(p) \in {1, 2}
        BY GlyphSizes
      <4> QED
        BY <1>1, <2>1, <4>1
    <3> HIDE DEF k, v
    <3>5. On(k, v)
      BY <3>2, <3>3, <3>4
    <3> HIDE DEF On
    <3> QED
      BY <1>7, <3>1, <3>3, <3>5
  <2> QED
    BY <2>3, <2>4
<1>8. On(i, 0)
  BY <1>1
<1> HIDE DEF Good, On
<1>9. Nat \subseteq T
  <2>1. 0 \in T /\ \A n \in Nat : n \in T => n + 1 \in T
    BY <1>6, <1>7
  <2> HIDE DEF T
  <2> QED
    BY <2>1, SetInduction
<1>10. Good(E) /\ i + E >= E
  BY <1>1, <1>9
<1> QED
  BY <1>2, <1>8, <1>10 DEF Good

-----------------------------------------------------------------------------
(* The prompt editor: every key leaves a well-formed text and the cursor on   *)
(* an edge of it.                                                             *)

EditorInv ==
    /\ Utf8(content) /\ Len(content) <= MaxBytes /\ Edge(content, cursor)
    /\ anchor \in {-1, 0} /\ avail \in Widths

LEMMA FirstEdge == ASSUME NEW s, Utf8(s) PROVE Edge(s, 0) /\ Edge(s, Len(s)) /\ Len(s) \in Nat
  BY DEF Utf8, Edge, Editor!WellFormed

LEMMA EmptyFits == Utf8(<<>>) /\ Len(<<>>) = 0
<1>1. <<>> \in Seq(Editor!Bytes) /\ Len(<<>>) = 0 /\ 1 .. 0 = {}
  OBVIOUS
<1> QED
  BY <1>1 DEF Utf8, Editor!WellFormed

LEMMA EditorInit == ASSUME Editor!Init PROVE EditorInv
<1>1. content = <<>> /\ cursor = 0 /\ anchor = -1 /\ avail \in Widths
  BY EditorAssumption DEF Editor!Init, Editor!RecalledFit
<1>2. Utf8(content) /\ Len(content) = 0
  BY <1>1, EmptyFits
<1>3. Edge(content, cursor)
  BY <1>1, <1>2, FirstEdge
<1>4. 0 <= MaxBytes
  BY EditorAssumption DEF Editor!RecalledFit
<1> QED
  BY <1>1, <1>2, <1>3, <1>4 DEF EditorInv

LEMMA RecalledText ==
    ASSUME NEW t \in Recalled
    PROVE  Utf8(t) /\ Len(t) <= MaxBytes /\ Edge(t, Len(t))
<1>1. Utf8(t) /\ Len(t) <= MaxBytes
  BY EditorAssumption DEF Editor!RecalledFit, Utf8
<1> QED
  BY <1>1, FirstEdge

\* The selection, or the cursor when there is none.
LEMMA Selection ==
    ASSUME EditorInv
    PROVE  /\ Edge(content, Editor!Lo) /\ Edge(content, Editor!Hi) /\ Editor!Lo <= Editor!Hi
           /\ Editor!Lo \in Nat /\ Editor!Hi \in Nat
<1>1. cursor \in Nat /\ Edge(content, cursor) /\ Edge(content, 0) /\ anchor \in {-1, 0}
  BY FirstEdge DEF EditorInv, Edge
<1>2. Editor!Lo \in {0, cursor} /\ Editor!Hi \in {0, cursor} /\ Editor!Lo <= Editor!Hi
  BY <1>1 DEF Editor!Lo, Editor!Hi, Editor!SelActive
<1> QED
  BY <1>1, <1>2

LEMMA TypeStep == ASSUME EditorInv, NEW g \in Editor!Glyphs, Editor!Type(g) PROVE EditorInv'
<1> DEFINE e == Editor!Erased(content, Editor!Lo, Editor!Hi)
<1>1. Utf8(e) /\ Edge(e, Editor!Lo)
  BY Selection, ErasedFits DEF EditorInv
<1>2. content' = Editor!Inserted(e, Editor!Lo, g) /\ cursor' = Editor!Lo + Len(g)
      /\ Len(e) + Len(g) <= MaxBytes /\ anchor' \in {-1, anchor} /\ avail' = avail
  BY DEF Editor!Type
<1> HIDE DEF e
<1>3. Utf8(content') /\ Edge(content', cursor') /\ Len(content') = Len(e) + Len(g)
  BY <1>1, <1>2, InsertedFits
<1> QED
  BY <1>2, <1>3 DEF EditorInv

\* Erasing between two edges, with the cursor at the first.
LEMMA EraseStep ==
    ASSUME EditorInv, NEW a, NEW b, Edge(content, a), Edge(content, b), a <= b,
           content' = Editor!Erased(content, a, b), cursor' = a, anchor' \in {-1, anchor}, avail' = avail
    PROVE  EditorInv'
<1>1. Utf8(content') /\ Edge(content', cursor') /\ Len(content') = Len(content) - (b - a)
  BY ErasedFits DEF EditorInv
<1>2. Len(content) \in Nat /\ a \in Nat /\ b \in Nat
  BY FirstEdge DEF EditorInv, Edge
<1>3. Len(content) <= MaxBytes /\ MaxBytes \in Nat
  BY EditorAssumption DEF EditorInv, Editor!RecalledFit
<1>4. Len(content') <= MaxBytes
  <2>1. Len(content') = Len(content) - (b - a)
    BY <1>1
  <2> QED
    BY <1>2, <1>3, <2>1
<1> QED
  BY <1>1, <1>4 DEF EditorInv

LEMMA MoveStep == ASSUME EditorInv, NEW p, Edge(content, p), Editor!MoveTo(p) PROVE EditorInv'
  BY DEF Editor!MoveTo, EditorInv

LEMMA RecallStep ==
    ASSUME EditorInv, NEW t \in Recalled, Editor!Recall(t), anchor' \in {-1, anchor}, avail' = avail
    PROVE  EditorInv'
  BY RecalledText DEF Editor!Recall, EditorInv

LEMMA RowEdges ==
    ASSUME EditorInv, NEW r \in DOMAIN Editor!Rows
    PROVE  /\ Edge(content, Editor!Rows[r].start) /\ Edge(content, Editor!Rows[r].end)
           /\ \A col : Edge(content, Editor!PlaceAtColumn(Editor!Rows[r], col))
<1> DEFINE row == Editor!Rows[r]
<1>1. row.start \in Int /\ row.end \in Int /\ row.start <= row.end
      /\ Edge(content, row.start) /\ Edge(content, row.end)
  <2>1. RowsFit(0, Editor!Rows)
    BY RowsSound DEF EditorInv
  <2>2. r \in 1 .. Len(Editor!Rows)
    BY CursorOnRow DEF EditorInv
  <2>3. Editor!Rows \in Seq([start : Int, end : Int])
    BY <2>1 DEF RowsFit
  <2>4. row \in [start : Int, end : Int]
    BY <2>2, <2>3, ElementOfSeq, Zenon
  <2> QED
    BY <2>1, <2>2, <2>4 DEF RowsFit
<1> HIDE DEF row
<1>2. \A col : Edge(content, Editor!PlaceAtColumn(row, col))
  BY <1>1, PlaceIsEdge DEF EditorInv
<1> QED
  BY <1>1, <1>2 DEF row

LEMMA VerticalStep == ASSUME EditorInv, NEW dir \in {-1, 1}, Editor!HandleVertical(dir) PROVE EditorInv'
<1> DEFINE target == Editor!CursorRow + dir
           row == Editor!Rows[Editor!CursorRow]
           col == IF cursor <= row.end THEN Editor!WidthOf(row.start, cursor) ELSE Editor!WidthOf(row.start, row.end)
<1>1. CASE target \in DOMAIN Editor!Rows
  <2>1. Editor!MoveTo(Editor!PlaceAtColumn(Editor!Rows[target], col))
    BY <1>1 DEF Editor!HandleVertical
  <2>2. Edge(content, Editor!PlaceAtColumn(Editor!Rows[target], col))
    BY <1>1, RowEdges
  <2> HIDE DEF target, col
  <2> QED
    BY <2>1, <2>2, MoveStep
<1>2. CASE target \notin DOMAIN Editor!Rows
  <2>1. anchor' = -1 /\ avail' = avail /\ ((\E t \in Recalled : Editor!Recall(t)) \/ UNCHANGED <<content, cursor>>)
    BY <1>2 DEF Editor!HandleVertical
  <2>2. CASE UNCHANGED <<content, cursor>>
    BY <2>1, <2>2 DEF EditorInv
  <2>3. ASSUME NEW t \in Recalled, Editor!Recall(t) PROVE EditorInv'
    BY <2>1, <2>3, RecallStep
  <2> QED
    BY <2>1, <2>2, <2>3
<1> QED
  BY <1>1, <1>2

LEMMA EditorStep == ASSUME EditorInv, Editor!Next PROVE EditorInv'
<1>1. ASSUME NEW g \in Editor!Glyphs, Editor!Type(g) PROVE EditorInv'
  BY <1>1, TypeStep
<1>2. CASE Editor!EraseSelection
  BY <1>2, Selection, EraseStep DEF Editor!EraseSelection
<1>3. CASE Editor!HandleBackspace
  <2>1. Edge(content, Editor!GlyphBack(cursor)) /\ Editor!GlyphBack(cursor) <= cursor /\ Edge(content, cursor)
    BY EdgeInFront DEF EditorInv
  <2>2. CASE /\ content' = Editor!Erased(content, Editor!GlyphBack(cursor), cursor)
             /\ cursor' = Editor!GlyphBack(cursor) /\ UNCHANGED <<anchor, avail>>
    BY <2>1, <2>2, EraseStep
  <2> QED
    BY <1>2, <1>3, <2>2 DEF Editor!HandleBackspace
<1>4. CASE Editor!HandleDelete
  <2>1. CASE /\ cursor < Editor!Size
             /\ content' = Editor!Erased(content, cursor, cursor + Editor!GlyphLen(cursor))
             /\ UNCHANGED <<cursor, anchor, avail>>
    <3> DEFINE b == cursor + Editor!GlyphLen(cursor)
    <3>1. Edge(content, cursor) /\ Edge(content, b) /\ Editor!GlyphLen(cursor) \in {1, 2}
      BY <2>1, EdgeBehind DEF EditorInv
    <3>2. cursor <= b
      BY <3>1 DEF Edge
    <3> HIDE DEF b
    <3>3. content' = Editor!Erased(content, cursor, b)
      BY <2>1 DEF b
    <3> QED
      BY <2>1, <3>1, <3>2, <3>3, EraseStep
  <2> QED
    BY <1>2, <1>4, <2>1 DEF Editor!HandleDelete
<1>5. CASE Editor!SelectAll
  BY <1>5, FirstEdge DEF Editor!SelectAll, EditorInv, Editor!Size
<1>6. CASE Editor!HandleHorizontal
  <2>1. Edge(content, Editor!GlyphBack(cursor))
    BY EdgeInFront DEF EditorInv
  <2>2. Edge(content, IF cursor < Editor!Size THEN cursor + Editor!GlyphLen(cursor) ELSE cursor)
    BY EdgeBehind DEF EditorInv
  <2> QED
    BY <1>6, <2>1, <2>2, MoveStep DEF Editor!HandleHorizontal
<1>7. CASE Editor!HandleVertical(-1) \/ Editor!HandleVertical(1)
  BY <1>7, VerticalStep
<1>8. CASE Editor!HandleHomeEnd
  <2>1. Editor!CursorRow \in DOMAIN Editor!Rows
    BY CursorOnRow DEF EditorInv
  <2>2. PICK p \in {Editor!Rows[Editor!CursorRow].start, Editor!Rows[Editor!CursorRow].end} : Editor!MoveTo(p)
    BY <1>8 DEF Editor!HandleHomeEnd
  <2> QED
    BY <2>1, <2>2, RowEdges, MoveStep
<1>9. CASE Editor!HandleMouse
  <2>1. PICK r, col : IF r \in DOMAIN Editor!Rows THEN Editor!MoveTo(Editor!PlaceAtColumn(Editor!Rows[r], col))
                      ELSE Editor!MoveTo(cursor)
    BY <1>9 DEF Editor!HandleMouse
  <2>2. CASE r \in DOMAIN Editor!Rows
    BY <2>1, <2>2, RowEdges, MoveStep
  <2>3. CASE r \notin DOMAIN Editor!Rows
    BY <2>1, <2>3, MoveStep DEF EditorInv
  <2> QED
    BY <2>2, <2>3
<1>10. CASE Editor!OnSubmit
  <2>1. Utf8(content') /\ Len(content') = 0 /\ cursor' = 0 /\ UNCHANGED <<anchor, avail>>
    BY <1>10, EmptyFits DEF Editor!OnSubmit
  <2>2. Edge(content', cursor') /\ 0 <= MaxBytes
    BY <2>1, FirstEdge, EditorAssumption DEF Editor!RecalledFit
  <2> QED
    BY <2>1, <2>2 DEF EditorInv
<1>11. CASE Editor!AcceptSuggestion
  BY <1>11, RecallStep DEF Editor!AcceptSuggestion
<1>12. CASE Editor!OnRender
  BY <1>12 DEF Editor!OnRender, EditorInv
<1> QED
  BY <1>1, <1>3, <1>4, <1>5, <1>6, <1>7, <1>8, <1>9, <1>10, <1>11, <1>12 DEF Editor!Next

LEMMA EditorIsSound == ASSUME EditorInv PROVE Editor!TypeOK /\ Editor!EditorSound
<1>1. Utf8(content) /\ Edge(content, cursor) /\ Len(content) \in Nat
  BY FirstEdge DEF EditorInv
<1>2. \A p : Edge(content, p) <=> Editor!Boundary(p)
  BY <1>1 DEF Edge, Editor!Boundary, Editor!At, Editor!Size
<1>3. \E r \in DOMAIN Editor!Rows : Editor!Rows[r].start <= cursor /\ cursor <= Editor!Rows[r].end
  BY <1>1, CursorOnRow
<1>4. \A r \in DOMAIN Editor!Rows : Editor!Boundary(Editor!Rows[r].start) /\ Editor!Boundary(Editor!Rows[r].end)
  BY <1>2, RowEdges
<1>5. Editor!WellFormed(content) /\ \A i \in DOMAIN content : content[i] \in Editor!Bytes
  BY <1>1 DEF Utf8
<1>6. anchor <= Editor!Size /\ cursor \in Int
  BY <1>1 DEF EditorInv, Editor!Size, Edge
<1> QED
  BY <1>1, <1>2, <1>3, <1>4, <1>5, <1>6 DEF Editor!TypeOK, Editor!EditorSound, EditorInv

-----------------------------------------------------------------------------
-----------------------------------------------------------------------------
(* The prompt bar.  The index is good for the list its key has brought up.   *)

KeyHasList ==
    Bar!Suggested(key) # <<>> => index < Len(Bar!Suggested(key))

BarTyped ==
    /\ barInput \in Bar!Inputs /\ key \in Bar!Inputs /\ draft \in Bar!Inputs
    /\ index \in Nat /\ pos \in Nat
    /\ prompts \in Seq(Bar!Prompts) /\ Len(prompts) <= HistoryCap

BarInv == BarTyped /\ KeyHasList /\ pos <= Len(prompts)

LEMMA SomeTexts ==
    /\ \A c : c \in {"/connect", "/model", "/tools", "/clear", "/agents", "/msg", "/help", "/exit", "/quit"}
              => c \in Bar!Inputs
    /\ Bar!Typed \subseteq Bar!Inputs
    /\ \A t \in Bar!Inputs : t # "" /\ ~Bar!IsCommand(t) => t \in Bar!Prompts
<1>1. Bar!Range(Bar!Commands)
        = {"/connect", "/model", "/tools", "/clear", "/agents", "/msg", "/help", "/exit", "/quit"}
  <2> DEFINE C == <<"/connect", "/model", "/tools", "/clear", "/agents", "/msg", "/help", "/exit", "/quit">>
  <2>1. DOMAIN C = {1, 2, 3, 4, 5, 6, 7, 8, 9}
    OBVIOUS
  <2>2. /\ C[1] = "/connect" /\ C[2] = "/model" /\ C[3] = "/tools" /\ C[4] = "/clear" /\ C[5] = "/agents"
        /\ C[6] = "/msg" /\ C[7] = "/help" /\ C[8] = "/exit" /\ C[9] = "/quit"
    OBVIOUS
  <2>3. Bar!Commands = C
    BY DEF Bar!Commands
  <2> HIDE DEF C
  <2> QED
    BY <2>1, <2>2, <2>3 DEF Bar!Range
<1> QED
  BY <1>1 DEF Bar!Inputs, Bar!Typed, Bar!IsCommand

LEMMA Lists ==
    /\ Bar!Suggested("/") = Bar!Commands
    /\ Bar!Suggested("/c") = <<"/connect", "/model", "/tools", "/clear", "/agents">>
    /\ Bar!Suggested("/connect") = <<"/connect", "/agents">>
    /\ Bar!Suggested("") = <<>> /\ Bar!Suggested("/zz") = <<>>
    /\ \A p : p \notin {"/", "/c", "/connect", "", "/zz"} => Bar!Suggested(p) = <<p>>
<1>1. ASSUME NEW p, p \notin {"/", "/c", "/connect", "", "/zz"} PROVE Bar!Suggested(p) = <<p>>
  BY <1>1 DEF Bar!Suggested
<1>2. Bar!Suggested("/") = Bar!Commands
  BY DEF Bar!Suggested
<1>3. Bar!Suggested("/c") = <<"/connect", "/model", "/tools", "/clear", "/agents">>
  BY DEF Bar!Suggested
<1>4. Bar!Suggested("/connect") = <<"/connect", "/agents">>
  BY DEF Bar!Suggested
<1>5. Bar!Suggested("") = <<>>
  BY DEF Bar!Suggested
<1>6. Bar!Suggested("/zz") = <<>>
  BY DEF Bar!Suggested
<1> QED
  BY <1>1, <1>2, <1>3, <1>4, <1>5, <1>6

\* What is suggested is a list of texts.
LEMMA ListsOfTexts ==
    ASSUME NEW p \in Bar!Inputs
    PROVE  Bar!Suggested(p) \in Seq(Bar!Inputs)
           /\ (Bar!Suggested(p) # <<>> => 0 < Len(Bar!Suggested(p)))
<1>1. "/connect" \in Bar!Inputs /\ "/model" \in Bar!Inputs /\ "/tools" \in Bar!Inputs /\ "/clear" \in Bar!Inputs
      /\ "/agents" \in Bar!Inputs /\ "/msg" \in Bar!Inputs /\ "/help" \in Bar!Inputs /\ "/exit" \in Bar!Inputs
      /\ "/quit" \in Bar!Inputs
  BY SomeTexts
<1> HIDE DEF Bar!Inputs
<1>2. Bar!Commands \in Seq(Bar!Inputs)
  BY <1>1 DEF Bar!Commands
<1>3. <<"/connect", "/model", "/tools", "/clear", "/agents">> \in Seq(Bar!Inputs)
  BY <1>1
<1>4. <<"/connect", "/agents">> \in Seq(Bar!Inputs) /\ <<p>> \in Seq(Bar!Inputs) /\ <<>> \in Seq(Bar!Inputs)
  BY <1>1
<1>5. Bar!Suggested(p) \in Seq(Bar!Inputs)
  <2>1. CASE p \in {"/", "/c", "/connect", "", "/zz"}
    BY <1>2, <1>3, <1>4, <2>1, Lists
  <2>2. CASE p \notin {"/", "/c", "/connect", "", "/zz"}
    BY <1>4, <2>2, Lists
  <2> QED
    BY <2>1, <2>2
<1> QED
  BY <1>5

LEMMA Suggestions ==
    ASSUME NEW t \in Bar!Inputs
    PROVE  /\ Bar!Prefix(t) \in Bar!Inputs
           /\ Bar!Suggested(Bar!Prefix(t)) \in Seq(Bar!Inputs)
           /\ Len(Bar!Suggested(Bar!Prefix(t))) \in Nat
<1>1. Bar!Prefix(t) \in Bar!Inputs
  BY SomeTexts DEF Bar!Prefix, Bar!Typed
<1> QED
  BY <1>1, ListsOfTexts

\* What the refreshing finds.
LEMMA Refreshed ==
    ASSUME BarInv
    PROVE  /\ Bar!RefreshedKey \in Bar!Inputs /\ Bar!RefreshedIndex \in Nat
           /\ Bar!Offered \in Seq(Bar!Inputs) /\ Len(Bar!Offered) \in Nat
           /\ Bar!Offered # <<>> =>
                /\ Bar!RefreshedIndex < Len(Bar!Offered) /\ Bar!Selected \in Bar!Inputs
                /\ Bar!Suggested(Bar!RefreshedKey) = Bar!Offered
           /\ Bar!Suggested(Bar!RefreshedKey) # <<>> =>
                Bar!RefreshedIndex < Len(Bar!Suggested(Bar!RefreshedKey))
<1>1. /\ Bar!Prefix(barInput) \in Bar!Inputs /\ Bar!Offered \in Seq(Bar!Inputs)
      /\ Bar!Offered = Bar!Suggested(Bar!Prefix(barInput)) /\ Len(Bar!Offered) \in Nat
      /\ Bar!Offered # <<>> => Len(Bar!Offered) > 0
  BY Suggestions DEF BarInv, BarTyped, Bar!Offered
<1>2. /\ Bar!RefreshedKey \in Bar!Inputs /\ Bar!RefreshedIndex \in Nat
      /\ Bar!Offered # <<>> =>
           Bar!RefreshedIndex < Len(Bar!Offered) /\ Bar!RefreshedKey = Bar!Prefix(barInput)
      /\ Bar!Offered = <<>> => Bar!RefreshedKey = key /\ Bar!RefreshedIndex = index
  BY <1>1 DEF BarInv, BarTyped, KeyHasList, Bar!RefreshedKey, Bar!RefreshedIndex
<1>3. Bar!Offered # <<>> => Bar!Selected \in Bar!Inputs
  BY <1>1, <1>2 DEF Bar!Selected
<1> QED
  BY <1>1, <1>2, <1>3 DEF BarInv, KeyHasList

LEMMA RecordedFits ==
    ASSUME BarTyped, NEW t \in Bar!Prompts
    PROVE  Bar!Recorded(t) \in Seq(Bar!Prompts) /\ Len(Bar!Recorded(t)) <= HistoryCap
<1> DEFINE longer == IF prompts # <<>> /\ Bar!Last(prompts) = t THEN prompts ELSE Append(prompts, t)
<1>1. longer \in Seq(Bar!Prompts) /\ Len(longer) \in {Len(prompts), Len(prompts) + 1} /\ Len(prompts) \in Nat
  BY DEF BarTyped
<1>2. Bar!Recorded(t) = IF Len(longer) > HistoryCap THEN Tail(longer) ELSE longer
  BY DEF Bar!Recorded
<1> HIDE DEF longer
<1>3. CASE Len(longer) > HistoryCap
  <2>1. Len(longer) > 0
    BY <1>1, <1>3, BarAssumption DEF BarTyped
  <2>2. Tail(longer) \in Seq(Bar!Prompts) /\ Len(Tail(longer)) = Len(longer) - 1
    BY <1>1, <2>1
  <2>3. Len(Tail(longer)) <= HistoryCap
    <3>1. Len(prompts) <= HistoryCap
      BY DEF BarTyped
    <3>2. Len(longer) \in {Len(prompts), Len(prompts) + 1} /\ Len(prompts) \in Nat
      BY <1>1
    <3>3. Len(Tail(longer)) = Len(longer) - 1
      BY <2>2
    <3> QED
      BY <3>1, <3>2, <3>3, BarAssumption
  <2> QED
    BY <1>2, <1>3, <2>2, <2>3
<1>4. CASE ~(Len(longer) > HistoryCap)
  BY <1>1, <1>2, <1>4, BarAssumption
<1> QED
  BY <1>3, <1>4

LEMMA SubmitFits ==
    ASSUME BarInv, NEW t \in Bar!Inputs, Bar!Submit(t)
    PROVE  /\ barInput' \in Bar!Inputs /\ draft' \in Bar!Inputs /\ pos' \in Nat
           /\ prompts' \in Seq(Bar!Prompts) /\ Len(prompts') <= HistoryCap /\ pos' <= Len(prompts')
<1>1. "" \in Bar!Inputs
  BY SomeTexts DEF Bar!Typed
<1>2. CASE barInput' = t /\ UNCHANGED <<prompts, pos, draft>>
  BY <1>2 DEF BarInv, BarTyped
<1>3. CASE t # "" /\ barInput' = "" /\ Bar!IsCommand(t) /\ UNCHANGED <<prompts, pos, draft>>
  BY <1>1, <1>3 DEF BarInv, BarTyped
<1>4. CASE t # "" /\ barInput' = "" /\ ~Bar!IsCommand(t) /\ prompts' = Bar!Recorded(t) /\ pos' = 0 /\ draft' = ""
  <2>1. t \in Bar!Prompts
    BY <1>4, SomeTexts
  <2>2. prompts' \in Seq(Bar!Prompts) /\ Len(prompts') <= HistoryCap
    BY <1>4, <2>1, RecordedFits DEF BarInv
  <2>3. pos' <= Len(prompts')
    <3>1. pos' = 0
      BY <1>4
    <3>2. Len(prompts') \in Nat
      BY <2>2
    <3> QED
      BY <3>1, <3>2
  <2>4. barInput' \in Bar!Inputs /\ draft' \in Bar!Inputs /\ pos' \in Nat
    BY <1>1, <1>4
  <2> QED
    BY <2>2, <2>3, <2>4
<1> QED
  BY <1>2, <1>3, <1>4 DEF Bar!Submit

LEMMA BarStep ==
    ASSUME BarInv, Bar!Next
    PROVE  BarInv'
<1>0. /\ Bar!RefreshedKey \in Bar!Inputs /\ Bar!RefreshedIndex \in Nat
      /\ Bar!Offered \in Seq(Bar!Inputs) /\ Len(Bar!Offered) \in Nat
      /\ Bar!Offered # <<>> =>
           /\ Bar!RefreshedIndex < Len(Bar!Offered) /\ Bar!Selected \in Bar!Inputs
           /\ Bar!Suggested(Bar!RefreshedKey) = Bar!Offered
      /\ Bar!Suggested(Bar!RefreshedKey) # <<>> =>
           Bar!RefreshedIndex < Len(Bar!Suggested(Bar!RefreshedKey))
  BY Refreshed
<1> DEFINE Listed == Bar!Suggested(key') # <<>> => index' < Len(Bar!Suggested(key'))
<1>1. KeyHasList' <=> Listed
  BY DEF KeyHasList, Bar!Suggested
<1>2. ASSUME NEW t \in Bar!Typed, Bar!Edit(t) PROVE BarInv'
  BY <1>1, <1>2, SomeTexts DEF BarInv, BarTyped, KeyHasList, Bar!Edit
<1>3. CASE Bar!OnRender
  BY <1>0, <1>1, <1>3 DEF BarInv, BarTyped, Bar!OnRender
<1>4. ASSUME Bar!Offered # <<>>, Bar!Accept, UNCHANGED <<prompts, pos, draft>> PROVE BarInv'
  <2>1. Listed
    BY <1>0, <1>4, ListsOfTexts DEF Bar!Accept
  <2> QED
    BY <1>0, <1>1, <1>4, <2>1 DEF BarInv, BarTyped, Bar!Accept
<1>5. ASSUME NEW d \in {-1, 1}, Bar!Cycle(d) PROVE BarInv'
  <2>1. index' \in Nat /\ index' < Len(Bar!Offered)
    <3> DEFINE n == Len(Bar!Offered)
               r == Bar!RefreshedIndex
    <3>1. n \in Nat /\ r \in Nat /\ r < n /\ index' = (r + n + d) % n
      BY <1>0, <1>5 DEF Bar!Cycle
    <3> HIDE DEF n, r
    <3>2. r + n + d \in Nat /\ n > 0
      BY <3>1
    <3>3. (r + n + d) % n \in 0 .. n - 1
      BY <3>1, <3>2
    <3> QED
      BY <3>1, <3>2, <3>3 DEF n
  <2> QED
    BY <1>0, <1>1, <1>5, <2>1 DEF BarInv, BarTyped, Bar!Cycle
<1>6. CASE Bar!HistoryPrevious
  <2>1. pos' \in 1 .. Len(prompts)
    BY <1>6 DEF Bar!HistoryPrevious, BarInv, BarTyped
  <2>2. prompts[pos'] \in Bar!Prompts
    BY <2>1 DEF BarInv, BarTyped
  <2>3. prompts[pos'] \in Bar!Inputs
    BY <2>2, SomeTexts DEF Bar!Typed
  <2> QED
    BY <1>1, <1>6, <2>1, <2>3 DEF Bar!HistoryPrevious, BarInv, BarTyped, KeyHasList
<1>7. CASE Bar!HistoryNext
  <2>1. pos' \in 0 .. Len(prompts)
    BY <1>7 DEF Bar!HistoryNext, BarInv, BarTyped
  <2>2. barInput' \in Bar!Inputs
    <3>1. CASE pos' = 0
      BY <1>7, <3>1 DEF Bar!HistoryNext, BarInv, BarTyped
    <3>2. CASE pos' # 0
      <4>1. prompts[pos'] \in Bar!Prompts
        BY <2>1, <3>2 DEF BarInv, BarTyped
      <4> QED
        BY <1>7, <3>2, <4>1, SomeTexts DEF Bar!HistoryNext, Bar!Typed
    <3> QED
      BY <3>1, <3>2
  <2> QED
    BY <1>1, <1>7, <2>1, <2>2 DEF Bar!HistoryNext, BarInv, BarTyped, KeyHasList
<1>8. CASE Bar!Return
  <2>1. CASE Bar!Offered = <<>> /\ Bar!Submit(barInput) /\ UNCHANGED <<key, index>>
    BY <1>1, <2>1, SubmitFits DEF BarInv, BarTyped, KeyHasList
  <2>2. CASE Bar!Offered # <<>> /\ key' = Bar!Selected /\ index' = 0 /\ Bar!Submit(Bar!Selected)
    <3>1. Listed
      BY <1>0, <2>2, ListsOfTexts
    <3> QED
      BY <1>0, <1>1, <2>2, <3>1, SubmitFits DEF BarInv, BarTyped
  <2>3. CASE Bar!Offered # <<>> /\ Bar!Accept /\ UNCHANGED <<prompts, pos, draft>>
    BY <1>4, <2>3
  <2>4. CASE Bar!Offered # <<>> /\ key' = Bar!RefreshedKey /\ index' = Bar!RefreshedIndex /\ Bar!Submit(barInput)
    BY <1>0, <1>1, <2>4, SubmitFits DEF BarInv, BarTyped
  <2> QED
    BY <1>8, <2>1, <2>2, <2>3, <2>4 DEF Bar!Return
<1> QED
  BY <1>2, <1>3, <1>4, <1>5, <1>6, <1>7, <1>8 DEF Bar!Next, Bar!Tab, Bar!ArrowUp, Bar!ArrowDown

LEMMA BarInit == ASSUME Bar!Init PROVE BarInv
<1>1. "" \in Bar!Inputs
  BY SomeTexts DEF Bar!Typed
<1>2. Bar!Suggested("") = <<>>
  BY Lists
<1>3. <<>> \in Seq(Bar!Prompts) /\ Len(<<>>) = 0 /\ 0 <= HistoryCap
  BY BarAssumption
<1>4. BarTyped
  BY <1>1, <1>3 DEF Bar!Init, BarTyped
<1>5. prompts = <<>> /\ key = ""
  BY DEF Bar!Init
<1>6. KeyHasList
  BY <1>2, <1>5 DEF KeyHasList
<1>7. pos <= Len(prompts)
  <2>1. Len(prompts) = 0
    BY <1>5
  <2>2. pos = 0
    BY DEF Bar!Init
  <2> QED
    BY <2>1, <2>2
<1> QED
  BY <1>4, <1>6, <1>7 DEF BarInv

LEMMA BarSound == ASSUME BarInv PROVE Bar!TypeOK /\ Bar!IndexesInRange
<1>1. Bar!Range(prompts) \subseteq Bar!Prompts
  BY DEF BarInv, BarTyped, Bar!Range
<1> QED
  BY <1>1, Refreshed DEF BarInv, BarTyped, Bar!TypeOK, Bar!IndexesInRange

-----------------------------------------------------------------------------
-----------------------------------------------------------------------------
(* The part of the transcript on the screen.  Whoever has scrolled back is on *)
(* a row.                                                                     *)

PageInv ==
    /\ rows \in 0 .. MaxRows /\ height \in Heights /\ follow \in BOOLEAN
    /\ view \in 0 .. MaxRows \cup {End}
    /\ Page!ViewSound

LEMMA PageInit == ASSUME Page!Init PROVE PageInv
  BY PageAssumption DEF Page!Init, PageInv, Page!ViewSound, Page!PagesFit

LEMMA LastRow ==
    ASSUME PageInv
    PROVE  /\ Page!MaxView \in Nat /\ rows \in Nat /\ height \in Nat /\ Page!MaxView <= rows
           /\ (rows > height => Page!MaxView + height = rows) /\ (rows <= height => Page!MaxView = 0)
           /\ rows <= MaxRows /\ MaxRows \in Nat /\ End \in Nat /\ End > MaxRows
           /\ (view # End => view \in Nat /\ view <= MaxRows)
  BY PageAssumption DEF PageInv, Page!MaxView, Page!PagesFit

LEMMA PageStep ==
    ASSUME PageInv, Page!Next
    PROVE  PageInv'
<1> USE PageAssumption DEF Page!PagesFit, PageInv, Page!ViewSound
<1>1. CASE Page!Write
  BY <1>1 DEF Page!Write, Page!MarkDirty
<1>2. CASE Page!Resize
  BY <1>2 DEF Page!Resize
<1>3. CASE Page!Clear
  BY <1>3 DEF Page!Clear
<1>4. CASE Page!Render
  <2> HIDE DEF PageInv
  <2>1. view' \in Nat /\ view' <= Page!MaxView
    BY <1>4, LastRow DEF Page!Render
  <2>2. drawn'.rows = rows /\ drawn'.height = height /\ drawn'.first = view'
        /\ drawn'.last = IF view' + height < rows THEN view' + height ELSE rows
    BY <1>4 DEF Page!Render
  <2>3. drawn'.last - drawn'.first = IF drawn'.rows < drawn'.height THEN drawn'.rows ELSE drawn'.height
    <3>1. CASE rows > height
      BY <1>4, <2>1, <2>2, <3>1, LastRow DEF Page!Render
    <3>2. CASE ~(rows > height)
      BY <2>1, <2>2, <3>2, LastRow
    <3> QED
      BY <3>1, <3>2
  <2>4. view' \in 0 .. MaxRows /\ view' # End
    BY <2>1, LastRow
  <2> QED
    BY <1>4, <2>3, <2>4 DEF Page!Render, PageInv
<1>5. ASSUME NEW amount \in {height, Wheel}, Page!ScrollUp(amount) \/ Page!ScrollDown(amount) PROVE PageInv'
  <2>1. amount \in Nat
    OBVIOUS
  <2> HIDE DEF PageInv
  <2>2. view' \in Nat /\ view' <= MaxRows /\ follow' \in BOOLEAN
    <3>1. CASE Page!ScrollUp(amount)
      <4> DEFINE from == IF follow \/ view = End THEN Page!MaxView ELSE view
      <4>1. view' = (IF from > amount THEN from - amount ELSE 0) /\ follow' = FALSE
        BY <3>1 DEF Page!ScrollUp
      <4>2. from \in Nat /\ from <= MaxRows
        BY LastRow
      <4> HIDE DEF from
      <4>3. view' \in Nat /\ view' <= MaxRows
        BY <2>1, <4>1, <4>2, LastRow
      <4> QED
        BY <4>1, <4>3
    <3>2. CASE Page!ScrollDown(amount)
      <4>1. follow = FALSE /\ view \in Nat
        BY <3>2, LastRow DEF Page!ScrollDown, PageInv, Page!ViewSound
      <4>2. CASE view + amount >= Page!MaxView
        BY <3>2, <4>2, LastRow DEF Page!ScrollDown
      <4>3. CASE ~(view + amount >= Page!MaxView)
        <5>1. view' = view + amount /\ follow' = follow
          BY <3>2, <4>3 DEF Page!ScrollDown
        <5>2. view' \in Nat /\ view' <= MaxRows
          BY <2>1, <4>1, <4>3, <5>1, LastRow
        <5> QED
          BY <4>1, <5>1, <5>2
      <4> QED
        BY <4>2, <4>3
    <3> QED
      BY <1>5, <3>1, <3>2
  <2>3. UNCHANGED <<rows, height, drawn>>
    BY <1>5 DEF Page!ScrollUp, Page!ScrollDown
  <2>4. view' \in 0 .. MaxRows /\ view' # End
    BY <2>2, LastRow
  <2> QED
    BY <2>2, <2>3, <2>4 DEF PageInv
<1> QED
  BY <1>1, <1>2, <1>3, <1>4, <1>5 DEF Page!Next

-----------------------------------------------------------------------------
(* The transcript: what a list of lines has to be, and a region in it. *)

Line ==
    [is : {"blank"}] \cup [is : {"note", "warning"}, of : Nat]
        \cup [is : {"call"}, of : Nat, result : BOOLEAN] \cup [is : {"text"}, of : Seq(Nat), row : Nat]

\* The numbers of a turn that a line carries.
Numbers(l) == IF l.is \in {"blank", "note"} THEN {} ELSE Log!Of(l)

\* No line is ahead of its thread, and each text has a piece.
Numbered(s, n, e) ==
    \A i \in DOMAIN s :
        /\ Numbers(s[i]) \subseteq 1 .. e
        /\ s[i].is = "note" => s[i].of \in 1 .. n
        /\ s[i].is = "text" => s[i].of # <<>>

\* What TranscriptIntact asks of two lines, and of a text's rows.
Pair(s, i, j) ==
    /\ s[i] # s[j]
    /\ Log!Turned(s[i]) /\ Log!Turned(s[j]) =>
        IF Log!IsText(s[i]) /\ Log!IsText(s[j]) /\ s[i].of = s[j].of
          THEN s[j].row = s[i].row + (j - i)
          ELSE \A x \in Log!Of(s[i]), y \in Log!Of(s[j]) : x < y
Ordered(s) ==
    \A i, j \in DOMAIN s : i < j /\ s[i] # Log!Blank /\ s[j] # Log!Blank => Pair(s, i, j)
Whole(s) ==
    \A i \in DOMAIN s : s[i].is = "text" =>
        \A r \in 1 .. RowsOf[Len(s[i].of)] : \E j \in DOMAIN s : s[j] = Log!Row(s[i].of, r)

\* What TranscriptIntact asks for a thing that was told.
Seen(s, t, res) ==
    /\ t.is = "text" =>
        \A x \in Log!Of(t) : \E i \in DOMAIN s : s[i].is = "text" /\ x \in Log!Of(s[i])
    /\ t.is = "call" => \E i \in DOMAIN s : s[i] = Log!Call(t.of, t.of \in res)
    /\ t.is \in {"note", "warning"} => \E i \in DOMAIN s : s[i] = t
AllSeen(s, ts, res) == \A t \in ts : t \in Line /\ t.is # "blank" /\ Seen(s, t, res)

\* The lines before the region are older than the pieces in it.
Older(s, q, a) == \A i \in DOMAIN s : i <= a => \A x \in Numbers(s[i]), y \in Log!Range(q) : x < y
\* The region: rows of its text and a blank line, and behind it other threads' lines.
Region(s, q, a, c) ==
    /\ a \in Nat /\ c \in Nat /\ a + c <= Len(s)
    /\ \A i \in DOMAIN s :
        /\ a < i /\ i <= a + c => s[i].is = "blank" \/ (s[i].is = "text" /\ Log!Range(s[i].of) \subseteq Log!Range(q))
        /\ a + c < i => s[i].is \in {"blank", "note"}

\* All that is asked of a list of lines, and of the region in it.
Sound(s, n, e, ts, res) ==
    /\ s \in Seq(Line)
    /\ Numbered(s, n, e) /\ Ordered(s) /\ Whole(s) /\ AllSeen(s, ts, res)
LiveIn(s, q, a, c) ==
    IF a = -1 THEN Older(s, q, Len(s)) ELSE Older(s, q, a) /\ Region(s, q, a, c)

LogTyped ==
    /\ live \in Seq(1 .. events) /\ Len(live) <= events
    /\ liveIndex \in Nat \cup {-1} /\ liveCount \in Nat /\ toolIndex \in Int /\ toolPending \in BOOLEAN
    /\ turn \in {"off", "on", "calling", "warning", "tool", "cleared"} /\ swarm \in BOOLEAN
    /\ events \in Nat /\ events <= MaxEvents /\ notes \in Nat
    /\ notes + (IF swarm THEN 1 ELSE 0) + (IF turn = "cleared" THEN 1 ELSE 0) <= MaxNotes
    /\ turn \in {"calling", "warning"} => events < MaxEvents
    /\ results \subseteq 1 .. events
\* Only a turn that gets texts has a region.
LiveInTurn == turn # "on" => live = <<>> /\ liveIndex = -1
\* The line that waits for a result is where it was put.
ToolWaits ==
    turn = "tool" =>
        /\ toolPending /\ toolIndex \in Nat /\ toolIndex < Len(lines)
        /\ lines[toolIndex + 1] = Log!Call(events, FALSE)
LogInv ==
    /\ LogTyped /\ LiveInTurn /\ ToolWaits
    /\ Sound(lines, notes, events, told, results)
    /\ LiveIn(lines, live, liveIndex, liveCount)

LEMMA Kinds ==
    \A l \in Line :
        /\ l.is \in {"blank", "note", "warning", "call", "text"}
        /\ l.is = "blank" <=> l = Log!Blank
        /\ l.is \in {"note", "warning", "call"} => l.of \in Nat
        /\ l.is = "text" => l.of \in Seq(Nat)
<1> SUFFICES ASSUME NEW l \in Line
             PROVE  /\ l.is \in {"blank", "note", "warning", "call", "text"}
                    /\ l.is = "blank" <=> l = Log!Blank
                    /\ l.is \in {"note", "warning", "call"} => l.of \in Nat
                    /\ l.is = "text" => l.of \in Seq(Nat)
  OBVIOUS
<1>1. CASE l \in [is : {"blank"}]
  <2>1. l = Log!Blank
    BY <1>1 DEF Log!Blank
  <2>2. Log!Blank.is = "blank"
    BY DEF Log!Blank
  <2> QED
    BY <2>1, <2>2
<1>2. CASE l \in [is : {"note", "warning"}, of : Nat]
  BY <1>2 DEF Log!Blank
<1>3. CASE l \in [is : {"call"}, of : Nat, result : BOOLEAN]
  BY <1>3 DEF Log!Blank
<1>4. CASE l \in [is : {"text"}, of : Seq(Nat), row : Nat]
  BY <1>4 DEF Log!Blank
<1> QED
  BY <1>1, <1>2, <1>3, <1>4 DEF Line

LEMMA NewLines ==
    /\ Log!Blank \in Line /\ Log!Blank.is = "blank"
    /\ \A k \in Nat : Log!Note(k) \in Line /\ Log!Note(k).is = "note" /\ Log!Note(k).of = k
    /\ \A k \in Nat : Log!Warning(k) \in Line /\ Log!Warning(k).is = "warning" /\ Log!Warning(k).of = k
    /\ \A k \in Nat, b \in BOOLEAN :
        Log!Call(k, b) \in Line /\ Log!Call(k, b).is = "call" /\ Log!Call(k, b).of = k
    /\ \A q \in Seq(Nat), r \in Nat :
        /\ Log!Row(q, r) \in Line /\ Log!Row(q, r).is = "text"
        /\ Log!Row(q, r).of = q /\ Log!Row(q, r).row = r
<1>1. Log!Blank \in Line /\ Log!Blank.is = "blank"
  BY DEF Line, Log!Blank
<1>2. \A k \in Nat : Log!Note(k) \in Line /\ Log!Note(k).is = "note" /\ Log!Note(k).of = k
  BY DEF Line, Log!Note
<1>3. \A k \in Nat : Log!Warning(k) \in Line /\ Log!Warning(k).is = "warning" /\ Log!Warning(k).of = k
  BY DEF Line, Log!Warning
<1>4. \A k \in Nat, b \in BOOLEAN :
        Log!Call(k, b) \in Line /\ Log!Call(k, b).is = "call" /\ Log!Call(k, b).of = k
  BY DEF Line, Log!Call
<1>5. \A q \in Seq(Nat), r \in Nat :
        /\ Log!Row(q, r) \in Line /\ Log!Row(q, r).is = "text"
        /\ Log!Row(q, r).of = q /\ Log!Row(q, r).row = r
  BY DEF Line, Log!Row
<1> QED
  BY <1>1, <1>2, <1>3, <1>4, <1>5

LEMMA NumbersOf ==
    \A l \in Line :
        /\ l.is \in {"blank", "note"} => Numbers(l) = {}
        /\ l.is \in {"warning", "call", "text"} => Numbers(l) = Log!Of(l)
        /\ l.is \in {"warning", "call"} => Numbers(l) = {l.of}
        /\ l.is = "text" => Numbers(l) = Log!Range(l.of)
  BY Kinds DEF Numbers, Log!Of, Log!IsText

\* A line that comes behind all of s.
Fresh(s, m) ==
    \A i \in DOMAIN s :
        s[i] # m /\ (m.is = "note" \/ \A x \in Numbers(s[i]), y \in Numbers(m) : x < y)

LEMMA AddOne ==
    ASSUME NEW s \in Seq(Line), NEW m \in Line
    PROVE  /\ Append(s, m) \in Seq(Line) /\ Len(Append(s, m)) = Len(s) + 1 /\ Len(s) \in Nat
           /\ DOMAIN s = 1 .. Len(s) /\ DOMAIN Append(s, m) = 1 .. (Len(s) + 1)
           /\ \A i \in DOMAIN s : Append(s, m)[i] = s[i] /\ s[i] \in Line
           /\ Append(s, m)[Len(s) + 1] = m
  OBVIOUS

LEMMA AddLine ==
    ASSUME NEW s, NEW n \in Nat, NEW e \in Nat, NEW ts, NEW res, Sound(s, n, e, ts, res),
           NEW m \in Line, m.is # "text", m.is = "blank" \/ Fresh(s, m),
           NEW n2 \in Nat, NEW e2 \in Nat, n <= n2, e <= e2,
           Numbers(m) \subseteq 1 .. e2, m.is = "note" => m.of \in 1 .. n2
    PROVE  Sound(Append(s, m), n2, e2, ts, res)
<1> DEFINE z == Append(s, m)
           k == Len(s)
<1>1. s \in Seq(Line) /\ Numbered(s, n, e) /\ Ordered(s) /\ Whole(s) /\ AllSeen(s, ts, res)
  BY DEF Sound
<1>2. /\ z \in Seq(Line) /\ k \in Nat /\ DOMAIN s = 1 .. k /\ DOMAIN z = 1 .. (k + 1)
      /\ \A i \in 1 .. k : z[i] = s[i] /\ s[i] \in Line
      /\ z[k + 1] = m
  BY <1>1, AddOne, Zenon
<1> HIDE DEF z, k
<1>3. Numbered(z, n2, e2)
  BY <1>1, <1>2 DEF Numbered
<1>4. Ordered(z)
  <2> SUFFICES ASSUME NEW i \in DOMAIN z, NEW j \in DOMAIN z, i < j, z[i] # Log!Blank, z[j] # Log!Blank
               PROVE  Pair(z, i, j)
    BY DEF Ordered
  <2>1. CASE j \in 1 .. k
    <3>1. i \in 1 .. k /\ z[i] = s[i] /\ z[j] = s[j]
      BY <1>2, <2>1
    <3>2. Pair(s, i, j)
      BY <1>1, <1>2, <2>1, <3>1 DEF Ordered
    <3> QED
      BY <3>1, <3>2 DEF Pair
  <2>2. CASE j = k + 1
    <3>1. i \in 1 .. k /\ z[i] = s[i] /\ z[j] = m /\ s[i] \in Line
      BY <1>2, <2>2
    <3>2. m.is # "blank" /\ s[i].is # "blank" /\ Fresh(s, m)
      BY <3>1, Kinds
    <3>3. z[i] # z[j]
      BY <1>2, <3>1, <3>2 DEF Fresh
    <3>4. ASSUME Log!Turned(z[i]), Log!Turned(z[j])
          PROVE  \A x \in Log!Of(z[i]), y \in Log!Of(z[j]) : x < y
      <4>1. z[i].is # "note" /\ m.is # "note"
        BY <3>1, <3>4 DEF Log!Turned
      <4>2. Numbers(s[i]) = Log!Of(s[i]) /\ Numbers(m) = Log!Of(m)
        BY <3>1, <3>2, <4>1, Kinds, NumbersOf
      <4> QED
        BY <1>2, <3>1, <3>2, <4>1, <4>2 DEF Fresh
    <3> QED
      BY <3>1, <3>3, <3>4 DEF Pair, Log!IsText
  <2> QED
    BY <1>2, <2>1, <2>2
<1>5. Whole(z)
  <2> SUFFICES ASSUME NEW i \in DOMAIN z, z[i].is = "text", NEW r \in 1 .. RowsOf[Len(z[i].of)]
               PROVE  \E j \in DOMAIN z : z[j] = Log!Row(z[i].of, r)
    BY DEF Whole
  <2>1. i \in 1 .. k /\ z[i] = s[i]
    BY <1>2
  <2>2. PICK j \in DOMAIN s : s[j] = Log!Row(s[i].of, r)
    BY <1>1, <1>2, <2>1 DEF Whole
  <2> QED
    BY <1>2, <2>1, <2>2
<1>6. AllSeen(z, ts, res)
  <2> SUFFICES ASSUME NEW t \in ts PROVE t \in Line /\ t.is # "blank" /\ Seen(z, t, res)
    BY DEF AllSeen
  <2>1. t \in Line /\ t.is # "blank" /\ Seen(s, t, res)
    BY <1>1 DEF AllSeen
  <2>2. DOMAIN s \subseteq DOMAIN z /\ \A i \in DOMAIN s : z[i] = s[i]
    BY <1>2
  <2>3. t.is = "text" => \A x \in Log!Of(t) : \E i \in DOMAIN z : z[i].is = "text" /\ x \in Log!Of(z[i])
    BY <2>1, <2>2 DEF Seen
  <2>4. t.is = "call" => \E i \in DOMAIN z : z[i] = Log!Call(t.of, t.of \in res)
    BY <2>1, <2>2 DEF Seen
  <2>5. t.is \in {"note", "warning"} => \E i \in DOMAIN z : z[i] = t
    BY <2>1, <2>2 DEF Seen
  <2> QED
    BY <2>1, <2>3, <2>4, <2>5 DEF Seen
<1> QED
  BY <1>2, <1>3, <1>4, <1>5, <1>6 DEF Sound, z

\* Other threads' lines do not touch the region.
LEMMA AddBehind ==
    ASSUME NEW s \in Seq(Line), NEW m \in Line, m.is \in {"blank", "note"},
           NEW q, NEW a \in Nat \cup {-1}, NEW c \in Nat, LiveIn(s, q, a, c)
    PROVE  LiveIn(Append(s, m), q, a, c)
<1> DEFINE z == Append(s, m)
           k == Len(s)
<1>1. /\ k \in Nat /\ DOMAIN s = 1 .. k /\ DOMAIN z = 1 .. (k + 1) /\ Len(z) = k + 1
      /\ \A i \in 1 .. k : z[i] = s[i] /\ s[i] \in Line
      /\ z[k + 1] = m
  BY AddOne, Zenon
<1>2. Numbers(m) = {}
  BY NumbersOf
<1>3. a = -1 => Older(s, q, k)
  BY DEF LiveIn
<1>4. a # -1 => Older(s, q, a) /\ a + c <= k
  BY DEF LiveIn, Region
<1>5. a # -1 => Region(s, q, a, c)
  BY DEF LiveIn
<1> HIDE DEF z, k
<1>6. a = -1 => Older(z, q, k + 1)
  BY <1>1, <1>2, <1>3 DEF Older
<1>7. a # -1 => Older(z, q, a)
  BY <1>1, <1>2, <1>4 DEF Older
<1>8. a # -1 => Region(z, q, a, c)
  BY <1>1, <1>4, <1>5 DEF Region
<1> QED
  BY <1>1, <1>6, <1>7, <1>8 DEF LiveIn, z

\* ensure_leading_gap_locked: the lines there were, and at most a blank one more.
LEMMA Gap ==
    ASSUME NEW s, NEW n \in Nat, NEW e \in Nat, NEW ts, NEW res, Sound(s, n, e, ts, res)
    PROVE  /\ Sound(Log!WithGap(s), n, e, ts, res)
           /\ \A q : \A a \in Nat \cup {-1}, c \in Nat : LiveIn(s, q, a, c) => LiveIn(Log!WithGap(s), q, a, c)
           /\ Len(s) <= Len(Log!WithGap(s)) /\ \A i \in 1 .. Len(s) : Log!WithGap(s)[i] = s[i]
<1>1. s \in Seq(Line)
  BY DEF Sound
<1>2. Log!Blank \in Line /\ Log!Blank.is = "blank" /\ Numbers(Log!Blank) = {}
  BY NewLines, NumbersOf
<1>3. Sound(Append(s, Log!Blank), n, e, ts, res)
  BY <1>2, AddLine
<1>4. \A q : \A a \in Nat \cup {-1}, c \in Nat : LiveIn(s, q, a, c) => LiveIn(Append(s, Log!Blank), q, a, c)
  BY <1>1, <1>2, AddBehind
<1>5. /\ Len(s) \in Nat /\ Len(Append(s, Log!Blank)) = Len(s) + 1
      /\ \A i \in 1 .. Len(s) : Append(s, Log!Blank)[i] = s[i]
  BY <1>1, <1>2, AddOne
<1>6. Log!WithGap(s) \in {s, Append(s, Log!Blank)}
  BY DEF Log!WithGap
<1>7. CASE Log!WithGap(s) = s
  BY <1>5, <1>7
<1>8. CASE Log!WithGap(s) = Append(s, Log!Blank)
  BY <1>3, <1>4, <1>5, <1>8
<1> QED
  BY <1>6, <1>7, <1>8

\* append_block: z is s with m behind it, as a block of its own.
HasBlock(s, z, m, n, e, ts, res) ==
    /\ Sound(z, n, e, ts, res)
    /\ m.is = "note" =>
        \A q : \A a \in Nat \cup {-1}, c \in Nat : LiveIn(s, q, a, c) => LiveIn(z, q, a, c)
    /\ Len(s) <= Len(z) /\ \A i \in 1 .. Len(s) : z[i] = s[i]
    /\ \E i \in DOMAIN z : z[i] = m

LEMMA Block ==
    ASSUME NEW s, NEW n \in Nat, NEW e \in Nat, NEW ts, NEW res, Sound(s, n, e, ts, res),
           NEW m \in Line, m.is \notin {"text", "blank"},
           \A g : Sound(g, n, e, ts, res) => Fresh(g, m),
           NEW n2 \in Nat, NEW e2 \in Nat, n <= n2, e <= e2,
           Numbers(m) \subseteq 1 .. e2, m.is = "note" => m.of \in 1 .. n2
    PROVE  HasBlock(s, Log!WithBlock(s, m), m, n2, e2, ts, res)
<1> DEFINE g == Log!WithGap(s)
           h == Append(g, m)
           z == Append(h, Log!Blank)
<1>1. Sound(g, n, e, ts, res) /\ g \in Seq(Line)
  BY Gap DEF Sound
<1>2. Log!Blank \in Line /\ Log!Blank.is = "blank" /\ Numbers(Log!Blank) = {}
  BY NewLines, NumbersOf
<1>3. Sound(h, n2, e2, ts, res)
  BY <1>1, AddLine
<1>4. Sound(z, n2, e2, ts, res)
  BY <1>2, <1>3, AddLine
<1>5. /\ h \in Seq(Line) /\ Len(h) = Len(g) + 1 /\ Len(g) \in Nat /\ DOMAIN g = 1 .. Len(g)
      /\ \A i \in DOMAIN g : h[i] = g[i]
      /\ h[Len(g) + 1] = m /\ DOMAIN h = 1 .. (Len(g) + 1)
  BY <1>1, AddOne
<1>6. /\ Len(z) = Len(h) + 1 /\ Len(h) \in Nat /\ DOMAIN z = 1 .. (Len(h) + 1)
      /\ \A i \in DOMAIN h : z[i] = h[i]
  BY <1>2, <1>5, AddOne
<1>7. Log!WithBlock(s, m) = z
  BY <1>1, <1>2 DEF Log!WithBlock
<1>8. ASSUME NEW q, NEW a \in Nat \cup {-1}, NEW c \in Nat, m.is = "note", LiveIn(s, q, a, c)
      PROVE  LiveIn(z, q, a, c)
  <2>1. LiveIn(g, q, a, c)
    BY <1>8, Gap
  <2>2. LiveIn(h, q, a, c)
    BY <1>1, <1>8, <2>1, AddBehind
  <2> QED
    BY <1>2, <1>5, <2>2, AddBehind
<1>9. Len(s) <= Len(g) /\ (\A i \in 1 .. Len(s) : g[i] = s[i]) /\ Len(s) \in Nat
  BY Gap DEF Sound
<1> HIDE DEF g, h, z
<1>10. Len(s) <= Len(z) /\ \A i \in 1 .. Len(s) : z[i] = s[i]
  BY <1>5, <1>6, <1>9
<1>11. \E i \in DOMAIN z : z[i] = m
  <2>1. Len(g) + 1 \in DOMAIN z /\ z[Len(g) + 1] = m
    BY <1>5, <1>6
  <2> QED
    BY <2>1
<1> QED
  BY <1>4, <1>7, <1>8, <1>10, <1>11 DEF HasBlock

HasRows(q, h) == q # <<>> /\ h = RowsOf[Len(q)] /\ 1 <= h

\* z is s with the rows of q and a blank line where s had what is neither its first
\* a lines nor its last d.
Splice(s, z, a, d, q, h) ==
    /\ HasRows(q, h)
    /\ a \in Nat /\ d \in Nat /\ a + d <= Len(s)
    /\ Len(z) = a + h + 1 + d
    /\ \A i \in 1 .. a : z[i] = s[i]
    /\ \A r \in 1 .. h : z[a + r] = Log!Row(q, r)
    /\ z[a + h + 1] = Log!Blank
    /\ \A i \in 1 .. d : z[a + h + 1 + i] = s[Len(s) - d + i]

\* What set_live_lines_locked replaces shows earlier pieces of the text, and what
\* comes behind it is other threads'.
Replaceable(s, a, d, q) ==
    /\ Older(s, q, a)
    /\ \A i \in DOMAIN s :
        /\ a < i /\ i <= Len(s) - d =>
            s[i].is = "blank" \/ (s[i].is = "text" /\ Log!Range(s[i].of) \subseteq Log!Range(q))
        /\ Len(s) - d < i => s[i].is \in {"blank", "note"}

\* The pieces of q come with the events up to e2.
Within(q, e, e2) == e <= e2 /\ Log!Range(q) \subseteq 1 .. e2

LEMMA Spliced ==
    ASSUME NEW s \in Seq(Line), NEW z \in Seq(Line), NEW a, NEW d, NEW h \in Nat, NEW q \in Seq(Nat),
           Splice(s, z, a, d, q, h), Replaceable(s, a, d, q),
           NEW n \in Nat, NEW e \in Nat, NEW e2 \in Nat, NEW ts, NEW res,
           Sound(s, n, e, ts, res), Within(q, e, e2)
    PROVE  Sound(z, n, e2, ts \cup {Log!Row(q, 0)}, res) /\ LiveIn(z, q, a, h + 1)
<1> DEFINE k == Len(s)
           b == a + h + 1
<1>1. Numbered(s, n, e) /\ Ordered(s) /\ Whole(s) /\ AllSeen(s, ts, res)
  BY DEF Sound
<1>2. /\ k \in Nat /\ DOMAIN s = 1 .. k /\ Len(z) \in Nat /\ DOMAIN z = 1 .. Len(z)
      /\ \A i \in DOMAIN s : s[i] \in Line
      /\ \A i \in DOMAIN z : z[i] \in Line
  OBVIOUS
<1>3. /\ a \in Nat /\ d \in Nat /\ a + d <= k /\ Len(z) = b + d
      /\ \A i \in 1 .. a : z[i] = s[i]
      /\ \A r \in 1 .. h : z[a + r] = Log!Row(q, r)
      /\ z[b] = Log!Blank
      /\ \A i \in 1 .. d : z[b + i] = s[k - d + i]
  BY DEF Splice, HasRows
<1>4. /\ Older(s, q, a)
      /\ \A i \in DOMAIN s :
          /\ a < i /\ i <= k - d =>
              s[i].is = "blank" \/ (s[i].is = "text" /\ Log!Range(s[i].of) \subseteq Log!Range(q))
          /\ k - d < i => s[i].is \in {"blank", "note"}
  BY DEF Replaceable
<1> DEFINE Sizes ==
             /\ k \in Nat /\ a \in Nat /\ d \in Nat /\ h \in Nat /\ b \in Nat
             /\ 1 <= h /\ a + d <= k /\ a < b /\ b = a + h + 1
<1>5. Sizes
  <2>1. a \in Nat /\ d \in Nat /\ k \in Nat /\ a + d <= k /\ 1 <= h
    BY <1>2 DEF Splice, HasRows
  <2> HIDE DEF k
  <2> QED
    BY <2>1
<1> HIDE DEF k, b
\* The three stretches of z.
<1>6. DOMAIN z = 1 .. (b + d)
  BY <1>2, <1>3
<1>7. \A i \in 1 .. a : i \in DOMAIN z /\ i \in DOMAIN s /\ z[i] = s[i]
  BY <1>2, <1>3, <1>5, <1>6
<1>8. \A i \in DOMAIN z : a < i /\ i < b => i - a \in 1 .. h /\ z[i] = Log!Row(q, i - a)
  <2> SUFFICES ASSUME NEW i \in DOMAIN z, a < i, i < b
               PROVE  i - a \in 1 .. h /\ z[i] = Log!Row(q, i - a)
    OBVIOUS
  <2>1. i - a \in 1 .. h /\ a + (i - a) = i
    BY <1>5, <1>6
  <2> QED
    BY <1>3, <2>1
<1>9. \A i \in DOMAIN z : b < i =>
        /\ i - b + (k - d) \in DOMAIN s /\ k - d < i - b + (k - d)
        /\ z[i] = s[i - b + (k - d)] /\ z[i].is \in {"blank", "note"}
  <2> SUFFICES ASSUME NEW i \in DOMAIN z, b < i
               PROVE  /\ i - b + (k - d) \in DOMAIN s /\ k - d < i - b + (k - d)
                      /\ z[i] = s[i - b + (k - d)] /\ z[i].is \in {"blank", "note"}
    OBVIOUS
  <2>1. i - b \in 1 .. d /\ i \in Nat
    BY <1>5, <1>6
  <2>2. i - b + (k - d) \in DOMAIN s /\ k - d < i - b + (k - d)
    BY <1>2, <1>5, <2>1
  <2>3. z[b + (i - b)] = s[k - d + (i - b)]
    BY <1>3, <2>1
  <2>7. k \in Int /\ d \in Int /\ b \in Int
    BY <1>5
  <2>4. b + (i - b) = i
    BY <2>1, <2>7
  <2>6. k - d + (i - b) = i - b + (k - d)
    BY <2>1, <2>7
  <2>5. z[i] = s[i - b + (k - d)]
    BY <2>3, <2>4, <2>6
  <2> QED
    BY <1>4, <2>2, <2>5
<1>10. \A r : /\ Log!Row(q, r).is = "text" /\ Log!Row(q, r).of = q /\ Log!Row(q, r).row = r
              /\ Log!Turned(Log!Row(q, r)) /\ Log!IsText(Log!Row(q, r)) /\ Log!Of(Log!Row(q, r)) = Log!Range(q)
              /\ Numbers(Log!Row(q, r)) = Log!Range(q)
  BY DEF Log!Row, Log!Turned, Log!IsText, Log!Of, Numbers
<1>11. PICK first : first \in Log!Range(q)
  <2>1. q # <<>>
    BY DEF Splice, HasRows
  <2>2. 1 \in DOMAIN q
    BY <2>1
  <2> QED
    BY <2>2 DEF Log!Range
<1>12. a + 1 \in DOMAIN z /\ z[a + 1] = Log!Row(q, 1)
  <2>1. a + 1 \in DOMAIN z /\ 1 \in 1 .. h
    BY <1>5, <1>6
  <2> QED
    BY <1>3, <2>1
\* A text ahead of the region is another text.
<1>13. \A i \in 1 .. a : s[i].is = "text" => s[i].of # q /\ ~(Log!Range(s[i].of) \subseteq Log!Range(q))
  <2> SUFFICES ASSUME NEW i \in 1 .. a, s[i].is = "text", Log!Range(s[i].of) \subseteq Log!Range(q) PROVE FALSE
    OBVIOUS
  <2>1. i \in DOMAIN s /\ s[i] \in Line /\ i <= a
    BY <1>2, <1>7
  <2>2. s[i].of \in Seq(Nat) /\ s[i].of # <<>> /\ Numbers(s[i]) = Log!Range(s[i].of)
    BY <1>1, <2>1, Kinds, NumbersOf DEF Numbered
  <2>3. PICK x : x \in Log!Range(s[i].of)
    <3> DEFINE o == s[i].of
    <3>1. o \in Seq(Nat) /\ o # <<>>
      BY <2>2
    <3> HIDE DEF o
    <3>2. 1 \in DOMAIN o
      BY <3>1
    <3>3. o[1] \in Log!Range(o)
      BY <3>2 DEF Log!Range
    <3> QED
      BY <3>3 DEF o
  <2>4. x < x
    BY <1>4, <2>1, <2>2, <2>3 DEF Older
  <2>5. x \in 1 .. e
    BY <1>1, <2>1, <2>2, <2>3 DEF Numbered
  <2> QED
    BY <2>4, <2>5
<1>22. k \in Int /\ d \in Int /\ b \in Int /\ a \in Int
  BY <1>5
<1>21. \A i \in DOMAIN z : i \in Nat /\ (i <= a \/ (a < i /\ i < b) \/ i = b \/ b < i)
  <2> SUFFICES ASSUME NEW i \in DOMAIN z PROVE i \in Nat /\ (i <= a \/ (a < i /\ i < b) \/ i = b \/ b < i)
    OBVIOUS
  <2>1. i \in Nat
    BY <1>6
  <2> QED
    BY <1>22, <2>1
<1>14. Numbered(z, n, e2)
  <2> SUFFICES ASSUME NEW i \in DOMAIN z
               PROVE  /\ Numbers(z[i]) \subseteq 1 .. e2
                      /\ z[i].is = "note" => z[i].of \in 1 .. n
                      /\ z[i].is = "text" => z[i].of # <<>>
    BY DEF Numbered
  <2>1. CASE i <= a
    <3>1. i \in DOMAIN s /\ z[i] = s[i]
      BY <1>3, <1>6, <1>7, <2>1
    <3> QED
      BY <1>1, <3>1 DEF Numbered, Within
  <2>2. CASE a < i /\ i < b
    <3>1. z[i] = Log!Row(q, i - a)
      BY <1>8, <2>2
    <3>2. z[i].is = "text" /\ z[i].of = q /\ Numbers(z[i]) = Log!Range(q)
      BY <1>10, <3>1
    <3> QED
      BY <3>2 DEF Within, Splice, HasRows
  <2>3. CASE i = b
    BY <1>3, <2>3, NewLines, NumbersOf
  <2>4. CASE b < i
    <3>1. z[i] = s[i - b + (k - d)] /\ i - b + (k - d) \in DOMAIN s
      BY <1>9, <2>4
    <3> HIDE DEF k
    <3> QED
      BY <1>1, <3>1 DEF Numbered, Within
  <2> QED
    BY <1>21, <2>1, <2>2, <2>3, <2>4
<1>15. Ordered(z)
  <2> SUFFICES ASSUME NEW i \in DOMAIN z, NEW j \in DOMAIN z, i < j, z[i] # Log!Blank, z[j] # Log!Blank
               PROVE  Pair(z, i, j)
    BY DEF Ordered
  <2>1. i # b /\ j # b /\ i \in Nat /\ j \in Nat
    BY <1>3, <1>6
  <2>2. CASE b < j
    <3>1. /\ j - b + (k - d) \in DOMAIN s /\ k - d < j - b + (k - d)
          /\ z[j] = s[j - b + (k - d)] /\ z[j].is \in {"blank", "note"}
      BY <1>9, <2>2
    <3>2. z[j] \in Line /\ z[j].is = "note" /\ ~Log!Turned(z[j])
      BY <1>2, <3>1, Kinds DEF Log!Turned
    <3>3. CASE i <= a
      <4>1. i \in 1 .. a
        BY <1>6, <3>3
      <4>2. i \in DOMAIN s /\ z[i] = s[i] /\ i < j - b + (k - d)
        BY <1>2, <1>3, <1>7, <3>1, <3>3, <4>1
      <4>3. Pair(s, i, j - b + (k - d))
        BY <1>1, <3>1, <4>2 DEF Ordered
      <4>4. z[i] # z[j]
        BY <3>1, <4>2, <4>3 DEF Pair
      <4> QED
        BY <3>2, <4>4 DEF Pair
    <3>4. CASE a < i /\ i < b
      <4>1. z[i].is = "text"
        BY <1>8, <1>10, <3>4
      <4>2. z[i] # z[j]
        BY <3>2, <4>1
      <4> QED
        BY <3>2, <4>2 DEF Pair
    <3>5. CASE b < i
      <4>1. /\ i - b + (k - d) \in DOMAIN s /\ z[i] = s[i - b + (k - d)]
        BY <1>9, <3>5
      <4>2. i - b + (k - d) < j - b + (k - d)
        BY <1>22, <2>1
      <4>3. Pair(s, i - b + (k - d), j - b + (k - d))
        BY <1>1, <3>1, <4>1, <4>2 DEF Ordered
      <4>4. z[i] # z[j]
        BY <3>1, <4>1, <4>3 DEF Pair
      <4> QED
        BY <3>2, <4>4 DEF Pair
    <3> QED
      BY <1>21, <2>1, <3>3, <3>4, <3>5
  <2>3. CASE a < j /\ j < b
    <3>1. z[j] = Log!Row(q, j - a)
      BY <1>8, <2>3
    <3>2. CASE i <= a
      <4>1. i \in 1 .. a
        BY <1>6, <3>2
      <4>2. i \in DOMAIN s /\ z[i] = s[i] /\ s[i] \in Line
        BY <1>2, <1>7, <4>1
      <4>3. z[i] # z[j] /\ ~(Log!IsText(z[i]) /\ z[i].of = z[j].of)
        BY <1>10, <1>13, <3>1, <4>1, <4>2 DEF Log!IsText
      <4>4. ASSUME Log!Turned(z[i])
            PROVE  \A x \in Log!Of(z[i]), y \in Log!Of(z[j]) : x < y
        <5>1. Log!Of(z[i]) = Numbers(s[i])
          BY <4>2, <4>4, Kinds, NumbersOf DEF Log!Turned
        <5>2. Log!Of(z[j]) = Log!Range(q)
          BY <1>10, <3>1
        <5> QED
          BY <1>4, <3>2, <4>2, <5>1, <5>2 DEF Older
      <4> QED
        BY <4>3, <4>4 DEF Pair
    <3>3. CASE a < i
      <4>1. z[i] = Log!Row(q, i - a)
        BY <1>8, <2>3, <3>3, <1>5, <1>6
      <4>2. j - a = (i - a) + (j - i) /\ i - a # j - a
        BY <1>22, <2>1
      <4>3. z[i] # z[j]
        BY <1>10, <3>1, <4>1, <4>2
      <4>4. z[j].row = z[i].row + (j - i) /\ z[i].of = z[j].of /\ Log!IsText(z[i]) /\ Log!IsText(z[j])
        BY <1>10, <3>1, <4>1, <4>2
      <4> QED
        BY <4>3, <4>4 DEF Pair
    <3> QED
      BY <1>22, <2>1, <3>2, <3>3
  <2>4. CASE j <= a
    <3>1. i \in 1 .. a /\ j \in 1 .. a
      BY <1>3, <1>6, <2>1, <2>4
    <3>2. Pair(s, i, j)
      BY <1>1, <1>7, <3>1 DEF Ordered
    <3> QED
      BY <1>7, <3>1, <3>2 DEF Pair
  <2> QED
    BY <1>21, <2>1, <2>2, <2>3, <2>4
<1>16. Whole(z)
  <2> SUFFICES ASSUME NEW i \in DOMAIN z, z[i].is = "text", NEW r \in 1 .. RowsOf[Len(z[i].of)]
               PROVE  \E j \in DOMAIN z : z[j] = Log!Row(z[i].of, r)
    BY DEF Whole
  <2>1. i # b
    BY <1>3, NewLines
  <2>2. CASE i <= a
    <3>1. i \in 1 .. a /\ i \in DOMAIN s /\ z[i] = s[i]
      BY <1>6, <1>7, <2>2
    <3>2. PICK j \in DOMAIN s : s[j] = Log!Row(s[i].of, r)
      BY <1>1, <3>1 DEF Whole
    <3>3. s[j].is = "text" /\ s[j].of = s[i].of
      BY <3>2 DEF Log!Row
    <3>6. s[j].is \notin {"blank", "note"}
      BY <3>3
    <3>7. ~(Log!Range(s[j].of) \subseteq Log!Range(q))
      BY <1>7, <1>13, <3>1, <3>3
    <3>8. ~(k - d < j)
      BY <1>4, <3>2, <3>6
    <3>4. ~(a < j /\ j <= k - d)
      BY <1>4, <3>2, <3>6, <3>7
    <3>9. j \in 1 .. k
      BY <1>2, <3>2
    <3>5. j \in 1 .. a
      BY <1>22, <3>4, <3>8, <3>9
    <3> QED
      BY <1>7, <3>1, <3>2, <3>5
  <2>3. CASE a < i /\ i < b
    <3>1. z[i].of = q
      BY <1>8, <1>10, <2>3
    <3>2. r \in 1 .. h
      BY <3>1 DEF Splice, HasRows
    <3>3. a + r \in DOMAIN z
      BY <1>5, <1>6, <3>2
    <3> QED
      BY <1>3, <3>1, <3>2, <3>3
  <2>4. CASE b < i
    BY <1>9, <2>4
  <2> QED
    BY <1>21, <2>1, <2>2, <2>3, <2>4
\* Other than the replaced rows, every line there was is still there.
<1>17. \A i \in DOMAIN s : (s[i].is \notin {"text", "blank"} \/ i <= a) => \E j \in DOMAIN z : z[j] = s[i]
  <2> SUFFICES ASSUME NEW i \in DOMAIN s, s[i].is \notin {"text", "blank"} \/ i <= a
               PROVE  \E j \in DOMAIN z : z[j] = s[i]
    OBVIOUS
  <2>1. CASE i <= a
    BY <1>2, <1>7, <2>1
  <2>2. CASE a < i
    <3>7. i \in 1 .. k /\ i \in Int
      BY <1>2
    <3>9. s[i].is \notin {"text", "blank"}
      BY <1>22, <2>2, <3>7
    <3>8. ~(i <= k - d)
      BY <1>4, <2>2, <3>9
    <3>1. k - d < i
      BY <1>22, <3>7, <3>8
    <3>6. i - (k - d) \in 1 .. d
      BY <1>22, <3>1, <3>7
    <3>2. b + (i - (k - d)) \in DOMAIN z /\ b < b + (i - (k - d))
      BY <1>5, <1>6, <3>6
    <3> DEFINE j == b + (i - (k - d))
    <3>3. j - b + (k - d) = i
      BY <1>22, <3>7
    <3>4. j \in DOMAIN z /\ b < j
      BY <3>2
    <3> HIDE DEF j
    <3>5. z[j] = s[i]
      BY <1>9, <3>3, <3>4
    <3> QED
      BY <3>4, <3>5
  <2> QED
    BY <1>2, <1>3, <2>1, <2>2
<1>18. AllSeen(z, ts \cup {Log!Row(q, 0)}, res)
  <2> SUFFICES ASSUME NEW t \in ts \cup {Log!Row(q, 0)} PROVE t \in Line /\ t.is # "blank" /\ Seen(z, t, res)
    BY DEF AllSeen
  <2>1. CASE t = Log!Row(q, 0)
    <3>1. t \in Line /\ t.is = "text" /\ Log!Of(t) = Log!Range(q)
      BY <1>10, <2>1, NewLines
    <3>2. \A x \in Log!Of(t) : z[a + 1].is = "text" /\ x \in Log!Of(z[a + 1])
      BY <1>10, <1>12, <3>1
    <3> QED
      BY <1>12, <3>1, <3>2 DEF Seen
  <2>2. CASE t \in ts
    <3>1. t \in Line /\ t.is # "blank" /\ Seen(s, t, res)
      BY <1>1, <2>2 DEF AllSeen
    <3>2. ASSUME t.is = "text", NEW x \in Log!Of(t)
          PROVE  \E i \in DOMAIN z : z[i].is = "text" /\ x \in Log!Of(z[i])
      <4>1. PICK i \in DOMAIN s : s[i].is = "text" /\ x \in Log!Of(s[i])
        BY <3>1, <3>2 DEF Seen
      <4>2. CASE i <= a
        BY <1>17, <4>1, <4>2
      <4>3. CASE a < i
        <5>1. i <= k - d
          <6>1. ~(k - d < i)
            BY <1>4, <4>1
          <6> QED
            BY <1>2, <1>5, <6>1
        <5>2. Log!Range(s[i].of) \subseteq Log!Range(q)
          BY <1>4, <4>1, <4>3, <5>1
        <5>3. x \in Log!Range(q)
          BY <4>1, <5>2 DEF Log!Of, Log!IsText
        <5> QED
          BY <1>10, <1>12, <5>3
      <4> QED
        BY <1>2, <1>5, <4>2, <4>3
    <3>3. ASSUME t.is = "call" PROVE \E i \in DOMAIN z : z[i] = Log!Call(t.of, t.of \in res)
      <4>1. PICK i \in DOMAIN s : s[i] = Log!Call(t.of, t.of \in res)
        BY <3>1, <3>3 DEF Seen
      <4>2. s[i].is = "call"
        BY <4>1 DEF Log!Call
      <4> QED
        BY <1>17, <4>1, <4>2
    <3>4. ASSUME t.is \in {"note", "warning"} PROVE \E i \in DOMAIN z : z[i] = t
      <4>1. PICK i \in DOMAIN s : s[i] = t
        BY <3>1, <3>4 DEF Seen
      <4> QED
        BY <1>17, <3>4, <4>1
    <3> QED
      BY <3>1, <3>2, <3>3, <3>4 DEF Seen
  <2> QED
    BY <2>1, <2>2
<1>19. Older(z, q, a)
  BY <1>4, <1>6, <1>7 DEF Older
<1>20. Region(z, q, a, h + 1)
  <2>1. a + (h + 1) = b /\ b <= Len(z) /\ h + 1 \in Nat
    BY <1>3, <1>5
  <2>2. ASSUME NEW i \in DOMAIN z, a < i, i <= b
        PROVE  z[i].is = "blank" \/ (z[i].is = "text" /\ Log!Range(z[i].of) \subseteq Log!Range(q))
    <3>1. CASE i = b
      BY <1>3, <3>1, NewLines
    <3>2. CASE i < b
      BY <1>8, <1>10, <2>2, <3>2
    <3>3. i = b \/ i < b
      <4>1. i \in Nat /\ b \in Nat
        BY <1>5, <1>21
      <4> QED
        BY <2>2, <4>1
    <3> QED
      BY <2>2, <3>1, <3>2, <3>3
  <2> QED
    BY <1>3, <1>9, <2>1, <2>2 DEF Region
<1> QED
  BY <1>3, <1>14, <1>15, <1>16, <1>18, <1>19, <1>20 DEF Sound, LiveIn

-----------------------------------------------------------------------------
(* The steps. *)

LEMMA Limits ==
    MaxEvents \in Nat /\ MaxNotes \in Nat /\ \A k \in 1 .. MaxEvents : RowsOf[k] \in Nat
  BY LogAssumption DEF Log!RowsFit

LEMMA NoRegion == \A c : \A s \in Seq(Line) : LiveIn(s, <<>>, -1, c)
  BY DEF LiveIn, Older, Log!Range

LEMMA LogInit == ASSUME Log!Init PROVE LogInv
<1>1. Sound(<<>>, 0, 0, {}, {})
  BY DEF Sound, Numbered, Ordered, Whole, AllSeen
<1>2. LiveIn(<<>>, <<>>, -1, 0)
  <2>1. <<>> \in Seq(Line)
    OBVIOUS
  <2> QED
    BY <2>1, NoRegion
<1>3. lines = <<>> /\ live = <<>> /\ liveIndex = -1 /\ liveCount = 0
  BY DEF Log!Init
<1>4. notes = 0 /\ events = 0 /\ told = {} /\ results = {}
  BY DEF Log!Init
<1>5. turn = "off" /\ swarm = FALSE /\ toolIndex = -1 /\ toolPending = FALSE
  BY DEF Log!Init
<1>6. LogTyped
  <2>1. live \in Seq(1 .. events) /\ Len(live) <= events
    BY <1>3, <1>4
  <2>2. results \subseteq 1 .. events
    BY <1>4
  <2>3. events \in Nat /\ events <= MaxEvents /\ notes \in Nat
    BY <1>4, Limits
  <2>5. liveIndex \in Nat \cup {-1} /\ liveCount \in Nat /\ toolIndex \in Int
    BY <1>3, <1>5
  <2>4. notes + (IF swarm THEN 1 ELSE 0) + (IF turn = "cleared" THEN 1 ELSE 0) <= MaxNotes
    BY <1>4, <1>5, Limits
  <2> QED
    BY <1>5, <2>1, <2>2, <2>3, <2>4, <2>5 DEF LogTyped
<1> QED
  BY <1>1, <1>2, <1>3, <1>4, <1>5, <1>6 DEF LogInv, LiveInTurn, ToolWaits

\* A note is nowhere yet, and behind all that a turn said, and so is the next event.
LEMMA NextNote ==
    ASSUME NEW n \in Nat, NEW e \in Nat, NEW ts, NEW res
    PROVE  \A s : Sound(s, n, e, ts, res) => Fresh(s, Log!Note(n + 1))
<1> SUFFICES ASSUME NEW s, Sound(s, n, e, ts, res) PROVE Fresh(s, Log!Note(n + 1))
  OBVIOUS
<1>1. Log!Note(n + 1).is = "note" /\ Log!Note(n + 1).of = n + 1
  BY NewLines
<1>2. \A i \in DOMAIN s : s[i].is = "note" => s[i].of \in 1 .. n
  BY DEF Sound, Numbered
<1>3. n + 1 \notin 1 .. n
  OBVIOUS
<1>4. \A i \in DOMAIN s : s[i] # Log!Note(n + 1)
  BY <1>1, <1>2, <1>3
<1> QED
  BY <1>1, <1>4 DEF Fresh

LEMMA NextEvent ==
    ASSUME NEW n \in Nat, NEW e \in Nat, NEW ts, NEW res,
           NEW m \in Line, m.is \in {"warning", "call"}, m.of = e + 1
    PROVE  \A s : Sound(s, n, e, ts, res) => Fresh(s, m)
<1> SUFFICES ASSUME NEW s, Sound(s, n, e, ts, res) PROVE Fresh(s, m)
  OBVIOUS
<1>1. Numbers(m) = {e + 1}
  BY NumbersOf
<1>2. \A i \in DOMAIN s : Numbers(s[i]) \subseteq 1 .. e
  BY DEF Sound, Numbered
<1>3. \A x \in 1 .. e : x < e + 1
  OBVIOUS
<1>4. e + 1 \notin 1 .. e
  OBVIOUS
<1> QED
  BY <1>1, <1>2, <1>3, <1>4 DEF Fresh

LEMMA SeenMore ==
    ASSUME NEW s, NEW n, NEW e, NEW ts, NEW res, Sound(s, n, e, ts, res),
           NEW t \in Line, t.is # "blank", Seen(s, t, res)
    PROVE  Sound(s, n, e, ts \cup {t}, res)
  BY DEF Sound, AllSeen

\* append: a line of another thread, whatever the turn does.
LEMMA NoteStep ==
    ASSUME LogInv, Log!PutNote,
           UNCHANGED <<live, liveIndex, liveCount, toolIndex, toolPending, events, results>>
    PROVE  /\ Sound(lines', notes', events', told', results')
           /\ LiveIn(lines', live', liveIndex', liveCount')
           /\ ToolWaits /\ turn' = turn => ToolWaits'
<1> DEFINE m == Log!Note(notes + 1)
           z == Log!WithBlock(lines, m)
<1>1. notes' = notes + 1 /\ lines' = z /\ told' = told \cup {m}
  BY DEF Log!PutNote
<1>2. /\ LogTyped /\ Sound(lines, notes, events, told, results)
      /\ LiveIn(lines, live, liveIndex, liveCount)
  BY DEF LogInv
<1>3. notes \in Nat /\ events \in Nat /\ liveIndex \in Nat \cup {-1} /\ liveCount \in Nat
  BY <1>2 DEF LogTyped
<1>4. m \in Line /\ m.is = "note" /\ m.of = notes + 1 /\ Numbers(m) = {}
  BY <1>3, NewLines, NumbersOf
<1> HIDE DEF m
<1>5. \A g : Sound(g, notes, events, told, results) => Fresh(g, m)
  BY <1>3, NextNote DEF m
<1>10. HasBlock(lines, z, m, notes + 1, events, told, results)
  <2>1. /\ notes + 1 \in Nat /\ notes <= notes + 1 /\ events <= events
        /\ m.is \notin {"text", "blank"} /\ Numbers(m) \subseteq 1 .. events
        /\ m.is = "note" => m.of \in 1 .. (notes + 1)
    BY <1>3, <1>4
  <2> QED
    BY <1>2, <1>3, <1>4, <1>5, <2>1, Block
<1>6. /\ Sound(z, notes + 1, events, told, results)
      /\ LiveIn(z, live, liveIndex, liveCount)
      /\ Len(lines) <= Len(z) /\ \A i \in 1 .. Len(lines) : z[i] = lines[i]
      /\ \E i \in DOMAIN z : z[i] = m
  BY <1>2, <1>3, <1>4, <1>10 DEF HasBlock
<1>7. Seen(z, m, results)
  BY <1>4, <1>6 DEF Seen
<1>8. Sound(z, notes + 1, events, told \cup {m}, results)
  BY <1>4, <1>6, <1>7, SeenMore
<1>9. ASSUME ToolWaits, turn' = turn PROVE ToolWaits'
  <2> SUFFICES ASSUME turn = "tool"
               PROVE  /\ toolPending' /\ toolIndex' \in Nat /\ toolIndex' < Len(lines')
                      /\ lines'[toolIndex' + 1] = Log!Call(events', FALSE)
    BY <1>9 DEF ToolWaits
  <2>1. /\ toolPending /\ toolIndex \in Nat /\ toolIndex < Len(lines)
        /\ lines[toolIndex + 1] = Log!Call(events, FALSE)
    BY <1>9 DEF ToolWaits
  <2>2. Len(lines) \in Nat /\ Len(z) \in Nat
    BY <1>2, <1>6 DEF Sound
  <2>3. toolIndex + 1 \in 1 .. Len(lines) /\ toolIndex < Len(z)
    BY <1>6, <2>1, <2>2
  <2> QED
    BY <1>1, <1>6, <2>1, <2>3
<1> QED
  BY <1>1, <1>6, <1>8, <1>9

\* What set_live_lines_locked is given for the text q.
LEMMA Rows ==
    ASSUME NEW q \in Seq(Nat), NEW h \in Nat, HasRows(q, h)
    PROVE  LET R == Append(Log!Rendered(q), Log!Blank) IN
           /\ R \in Seq(Line) /\ Len(R) = h + 1
           /\ \A r \in 1 .. h : R[r] = Log!Row(q, r)
           /\ R[h + 1] = Log!Blank
<1> DEFINE T == Log!Rendered(q)
<1>1. T = [r \in 1 .. h |-> Log!Row(q, r)]
  BY DEF Log!Rendered, HasRows
<1>2. \A r \in 1 .. h : Log!Row(q, r) \in Line
  BY NewLines
<1> HIDE DEF T
<1>3. T \in Seq(Line) /\ Len(T) = h /\ \A r \in 1 .. h : T[r] = Log!Row(q, r)
  BY <1>1, <1>2
<1>4. Log!Blank \in Line
  BY NewLines
<1>5. /\ Append(T, Log!Blank) \in Seq(Line) /\ Len(Append(T, Log!Blank)) = h + 1
      /\ \A i \in 1 .. h : Append(T, Log!Blank)[i] = T[i]
      /\ Append(T, Log!Blank)[h + 1] = Log!Blank
  BY <1>3, <1>4
<1> QED
  BY <1>3, <1>5 DEF T

LEMMA Joined ==
    ASSUME NEW s \in Seq(Line), NEW t \in Seq(Line)
    PROVE  LET z == s \o t IN
           /\ z \in Seq(Line) /\ Len(z) = Len(s) + Len(t)
           /\ \A i \in 1 .. Len(s) + Len(t) : z[i] = IF i <= Len(s) THEN s[i] ELSE t[i - Len(s)]
  BY ConcatProperties

LEMMA CutBehind ==
    ASSUME NEW s \in Seq(Line), NEW n \in 0 .. Len(s)
    PROVE  LET t == SubSeq(s, n + 1, Len(s)) IN
           t \in Seq(Line) /\ Len(t) = Len(s) - n /\ \A i \in 1 .. Len(s) - n : t[i] = s[n + i]
<1>1. \A i \in n + 1 .. Len(s) : s[i] \in Line
  OBVIOUS
<1> QED
  BY <1>1

\* The region comes last, or where one is.
LEMMA PutLast ==
    ASSUME NEW s \in Seq(Line), NEW q \in Seq(Nat), NEW h \in Nat, HasRows(q, h)
    PROVE  LET z == s \o Append(Log!Rendered(q), Log!Blank) IN
           z \in Seq(Line) /\ Splice(s, z, Len(s), 0, q, h)
<1> DEFINE R == Append(Log!Rendered(q), Log!Blank)
           z == s \o R
           k == Len(s)
<1>1. /\ R \in Seq(Line) /\ Len(R) = h + 1
      /\ \A r \in 1 .. h : R[r] = Log!Row(q, r)
      /\ R[h + 1] = Log!Blank
  BY Rows
<1> HIDE DEF R
<1>2. k \in Nat /\ DOMAIN s = 1 .. k
  OBVIOUS
<1>3. /\ z \in Seq(Line) /\ Len(z) = k + (h + 1)
      /\ \A i \in 1 .. k + (h + 1) : z[i] = IF i <= k THEN s[i] ELSE R[i - k]
  <2>1. /\ s \o R \in Seq(Line) /\ Len(s \o R) = Len(s) + Len(R)
        /\ \A i \in 1 .. Len(s) + Len(R) :
            (s \o R)[i] = IF i <= Len(s) THEN s[i] ELSE R[i - Len(s)]
    BY <1>1, Joined
  <2>2. Len(s) = k /\ Len(R) = h + 1
    BY <1>1
  <2> HIDE DEF z
  <2> QED
    BY <2>1, <2>2, Zenon DEF z
<1> HIDE DEF z, k
<1>4. \A i \in 1 .. k : z[i] = s[i]
  BY <1>2, <1>3
<1>5. \A r \in 1 .. (h + 1) : z[k + r] = R[r]
  <2> SUFFICES ASSUME NEW r \in 1 .. (h + 1) PROVE z[k + r] = R[r]
    OBVIOUS
  <2>1. k + r \in 1 .. k + (h + 1) /\ ~(k + r <= k) /\ (k + r) - k = r
    BY <1>2
  <2> QED
    BY <1>3, <2>1
<1>6. z[k + h + 1] = Log!Blank
  <2>1. k + (h + 1) = k + h + 1 /\ h + 1 \in 1 .. (h + 1)
    BY <1>2
  <2> QED
    BY <1>1, <1>5, <2>1
<1>7. \A r \in 1 .. h : z[k + r] = Log!Row(q, r)
  BY <1>1, <1>5
<1>8. Len(z) = k + h + 1 + 0 /\ k + 0 <= k
  BY <1>2, <1>3
<1>9. Splice(s, z, k, 0, q, h)
  BY <1>2, <1>4, <1>6, <1>7, <1>8 DEF Splice, k
<1> QED
  BY <1>3, <1>9 DEF z, k, R

LEMMA PutThere ==
    ASSUME NEW s \in Seq(Line), NEW q \in Seq(Nat), NEW h \in Nat, HasRows(q, h),
           NEW a \in Nat, NEW c \in Nat, NEW p, Region(s, p, a, c)
    PROVE  LET z == SubSeq(s, 1, a) \o Append(Log!Rendered(q), Log!Blank) \o SubSeq(s, a + c + 1, Len(s))
           IN  z \in Seq(Line) /\ Splice(s, z, a, Len(s) - (a + c), q, h)
<1> DEFINE R == Append(Log!Rendered(q), Log!Blank)
           k == Len(s)
           d == k - (a + c)
           front == SubSeq(s, 1, a)
           rest == SubSeq(s, a + c + 1, k)
           y == front \o R
           z == y \o rest
<1>1. /\ R \in Seq(Line) /\ Len(R) = h + 1
      /\ \A r \in 1 .. h : R[r] = Log!Row(q, r)
      /\ R[h + 1] = Log!Blank
  BY Rows
<1> HIDE DEF R
<1>2. k \in Nat /\ DOMAIN s = 1 .. k /\ a + c <= k /\ \A i \in 1 .. k : s[i] \in Line
  BY DEF Region
<1>3. d \in Nat /\ k = a + c + d
  <2> HIDE DEF k
  <2> QED
    BY <1>2 DEF d
<1>4. front \in Seq(Line) /\ Len(front) = a /\ \A i \in 1 .. a : front[i] = s[i]
  <2>1. \A i \in 1 .. a : s[i] \in Line
    BY <1>2
  <2> QED
    BY <1>2, <2>1
<1>5. rest \in Seq(Line) /\ Len(rest) = d /\ \A i \in 1 .. d : rest[i] = s[a + c + i]
  <2> DEFINE n == a + c
             t == SubSeq(s, n + 1, Len(s))
  <2>1. n \in 0 .. Len(s)
    BY <1>2
  <2> HIDE DEF n
  <2>2. t \in Seq(Line) /\ Len(t) = Len(s) - n /\ \A i \in 1 .. Len(s) - n : t[i] = s[n + i]
    BY <2>1, CutBehind
  <2> QED
    BY <2>2 DEF n
<1> HIDE DEF front, rest, d
<1>6. /\ y \in Seq(Line) /\ Len(y) = a + (h + 1)
      /\ \A i \in 1 .. a + (h + 1) : y[i] = IF i <= a THEN front[i] ELSE R[i - a]
  <2>1. /\ front \o R \in Seq(Line) /\ Len(front \o R) = Len(front) + Len(R)
        /\ \A i \in 1 .. Len(front) + Len(R) :
            (front \o R)[i] = IF i <= Len(front) THEN front[i] ELSE R[i - Len(front)]
    BY <1>1, <1>4, Joined
  <2>2. Len(front) = a /\ Len(R) = h + 1
    BY <1>1, <1>4
  <2> HIDE DEF y
  <2> QED
    BY <2>1, <2>2, Zenon DEF y
<1> HIDE DEF y
<1>7. /\ z \in Seq(Line) /\ Len(z) = (a + (h + 1)) + d
      /\ \A i \in 1 .. (a + (h + 1)) + d :
          z[i] = IF i <= a + (h + 1) THEN y[i] ELSE rest[i - (a + (h + 1))]
  <2>1. /\ y \o rest \in Seq(Line) /\ Len(y \o rest) = Len(y) + Len(rest)
        /\ \A i \in 1 .. Len(y) + Len(rest) :
            (y \o rest)[i] = IF i <= Len(y) THEN y[i] ELSE rest[i - Len(y)]
    BY <1>5, <1>6, Joined
  <2>2. Len(y) = (a + (h + 1)) /\ Len(rest) = d
    BY <1>5, <1>6
  <2> HIDE DEF z
  <2> QED
    BY <2>1, <2>2, Zenon DEF z
<1> HIDE DEF z, k
<1>8. \A i \in 1 .. a : z[i] = s[i]
  <2> SUFFICES ASSUME NEW i \in 1 .. a PROVE z[i] = s[i]
    OBVIOUS
  <2>1. i \in 1 .. (a + (h + 1)) + d /\ i \in 1 .. a + (h + 1) /\ i <= a + (h + 1) /\ i <= a
    BY <1>3
  <2> QED
    BY <1>4, <1>6, <1>7, <2>1
<1>9. \A r \in 1 .. (h + 1) : z[a + r] = R[r]
  <2> SUFFICES ASSUME NEW r \in 1 .. (h + 1) PROVE z[a + r] = R[r]
    OBVIOUS
  <2>1. /\ a + r \in 1 .. (a + (h + 1)) + d /\ a + r \in 1 .. a + (h + 1) /\ a + r <= a + (h + 1)
        /\ ~(a + r <= a) /\ (a + r) - a = r
    BY <1>3
  <2> QED
    BY <1>6, <1>7, <2>1
<1>10. z[a + h + 1] = Log!Blank
  <2>1. a + (h + 1) = a + h + 1 /\ h + 1 \in 1 .. (h + 1)
    OBVIOUS
  <2> QED
    BY <1>1, <1>9, <2>1
<1>11. \A r \in 1 .. h : z[a + r] = Log!Row(q, r)
  BY <1>1, <1>9
<1>12. \A i \in 1 .. d : z[a + h + 1 + i] = s[k - d + i]
  <2> SUFFICES ASSUME NEW i \in 1 .. d PROVE z[a + h + 1 + i] = s[k - d + i]
    OBVIOUS
  <2> DEFINE j == a + h + 1 + i
  <2>1. /\ j \in 1 .. (a + (h + 1)) + d /\ ~(j <= a + (h + 1)) /\ j - (a + (h + 1)) = i
        /\ k - d + i = a + c + i
    BY <1>3
  <2> HIDE DEF j
  <2>2. z[j] = rest[i]
    BY <1>7, <2>1
  <2> QED
    BY <1>5, <2>1, <2>2 DEF j
<1>13. Len(z) = a + h + 1 + d /\ a + d <= k
  BY <1>3, <1>7
<1>14. Splice(s, z, a, d, q, h)
  BY <1>3, <1>8, <1>10, <1>11, <1>12, <1>13 DEF Splice, k
<1> QED
  BY <1>7, <1>14 DEF z, y, front, rest, d, k, R

LEMMA Pieces0 ==
    ASSUME NEW e \in Nat, NEW p \in Seq(1 .. e)
    PROVE  LET q == Append(p, e + 1) IN
           /\ q \in Seq(1 .. (e + 1)) /\ q \in Seq(Nat) /\ q # <<>> /\ Len(q) = Len(p) + 1 /\ Len(p) \in Nat
           /\ Log!Range(p) \subseteq 1 .. e /\ Log!Range(q) = Log!Range(p) \cup {e + 1}
<1> DEFINE q == Append(p, e + 1)
           k == Len(p)
<1>1. k \in Nat /\ DOMAIN p = 1 .. k /\ \A i \in 1 .. k : p[i] \in 1 .. e
  OBVIOUS
<1>2. q \in Seq(1 .. (e + 1)) /\ q \in Seq(Nat) /\ q # <<>>
  <2>1. 1 .. e \subseteq 1 .. (e + 1) /\ e + 1 \in 1 .. (e + 1) /\ 1 .. (e + 1) \subseteq Nat
    OBVIOUS
  <2>2. p \in Seq(1 .. (e + 1)) /\ p \in Seq(Nat) /\ e + 1 \in Nat
    BY <2>1
  <2> QED
    BY <2>1, <2>2
<1>3. Len(q) = k + 1 /\ DOMAIN q = 1 .. (k + 1) /\ (\A i \in 1 .. k : q[i] = p[i]) /\ q[k + 1] = e + 1
  OBVIOUS
<1>4. Log!Range(p) \subseteq 1 .. e
  BY <1>1 DEF Log!Range
<1> HIDE DEF q, k
<1>5. 1 .. (k + 1) = (1 .. k) \cup {k + 1}
  BY <1>1
<1>6. Log!Range(q) = Log!Range(p) \cup {e + 1}
  <2>1. Log!Range(q) = {q[i] : i \in 1 .. k} \cup {q[k + 1]}
    BY <1>3, <1>5, Zenon DEF Log!Range
  <2>2. {q[i] : i \in 1 .. k} = {p[i] : i \in 1 .. k}
    BY <1>3, Zenon
  <2> QED
    BY <1>1, <1>3, <2>1, <2>2, Zenon DEF Log!Range
<1> QED
  BY <1>1, <1>2, <1>3, <1>4, <1>6 DEF q, k

\* What is ahead of a text is ahead of its next piece.
LEMMA StillOlder ==
    ASSUME NEW s, NEW n, NEW e \in Nat, Numbered(s, n, e), NEW p, NEW q, Log!Range(q) = Log!Range(p) \cup {e + 1},
           NEW a, Older(s, p, a)
    PROVE  Older(s, q, a)
<1>1. \A i \in DOMAIN s : Numbers(s[i]) \subseteq 1 .. e
  BY DEF Numbered
<1>2. \A x \in 1 .. e : x < e + 1
  OBVIOUS
<1> QED
  BY <1>1, <1>2 DEF Older

\* text_delta.
LEMMA TextStep ==
    ASSUME LogInv, Log!TextDelta
    PROVE  LogInv'
<1> DEFINE q == Append(live, events + 1)
           h == RowsOf[Len(q)]
<1>1. /\ LogTyped /\ Sound(lines, notes, events, told, results)
      /\ LiveIn(lines, live, liveIndex, liveCount)
  BY DEF LogInv
<1>2. /\ events \in Nat /\ notes \in Nat /\ live \in Seq(1 .. events) /\ Len(live) <= events
      /\ liveIndex \in Nat \cup {-1} /\ liveCount \in Nat
  BY <1>1 DEF LogTyped
<1>3. /\ turn = "on" /\ events < MaxEvents /\ events' = events + 1 /\ live' = q
      /\ UNCHANGED <<toolIndex, toolPending, turn, swarm, notes, results>>
  BY DEF Log!TextDelta
<1>4. IF Log!Rendered(q) = <<>> THEN UNCHANGED <<lines, liveIndex, liveCount, told>>
      ELSE /\ Log!LivePut(Append(Log!Rendered(q), Log!Blank))
           /\ liveCount' = h + 1
           /\ told' = told \cup {Log!Row(q, 0)}
  BY <1>3 DEF Log!TextDelta
<1>5. /\ q \in Seq(1 .. (events + 1)) /\ q \in Seq(Nat) /\ q # <<>>
      /\ Len(q) = Len(live) + 1 /\ Len(live) \in Nat
      /\ Log!Range(live) \subseteq 1 .. events /\ Log!Range(q) = Log!Range(live) \cup {events + 1}
  BY <1>2, Pieces0
<1> HIDE DEF q
<1>6. Len(q) \in 1 .. MaxEvents /\ Len(q) <= events + 1
  BY <1>2, <1>3, <1>5, Limits
<1>7. h \in Nat
  BY <1>6, Limits
<1> HIDE DEF h
<1>8. lines \in Seq(Line) /\ Numbered(lines, notes, events)
  BY <1>1 DEF Sound
<1>9. Within(q, events, events + 1)
  <2>1. events <= events + 1 /\ 1 .. events \subseteq 1 .. (events + 1) /\ events + 1 \in 1 .. (events + 1)
    BY <1>2
  <2> QED
    BY <1>5, <2>1 DEF Within
<1>10. ASSUME Log!Rendered(q) = <<>>
       PROVE  /\ Sound(lines', notes', events', told', results')
              /\ LiveIn(lines', live', liveIndex', liveCount')
              /\ liveIndex' \in Nat \cup {-1} /\ liveCount' \in Nat
  <2>1. UNCHANGED <<lines, liveIndex, liveCount, told, notes, results>>
    BY <1>3, <1>4, <1>10
  <2>2. Numbered(lines, notes, events + 1)
    <3>1. 1 .. events \subseteq 1 .. (events + 1)
      BY <1>2
    <3> QED
      BY <1>8, <3>1 DEF Numbered
  <2>3. Sound(lines, notes, events + 1, told, results)
    BY <1>1, <2>2 DEF Sound
  <2>4. LiveIn(lines, q, liveIndex, liveCount)
    <3>1. CASE liveIndex = -1
      <4>1. Older(lines, live, Len(lines))
        BY <1>1, <3>1 DEF LiveIn
      <4>2. Older(lines, q, Len(lines))
        BY <1>2, <1>5, <1>8, <4>1, StillOlder
      <4> QED
        BY <3>1, <4>2 DEF LiveIn
    <3>2. CASE liveIndex # -1
      <4>1. Older(lines, live, liveIndex) /\ Region(lines, live, liveIndex, liveCount)
        BY <1>1, <3>2 DEF LiveIn
      <4>2. Older(lines, q, liveIndex)
        BY <1>2, <1>5, <1>8, <4>1, StillOlder
      <4>3. Region(lines, q, liveIndex, liveCount)
        BY <1>5, <4>1 DEF Region
      <4> QED
        BY <3>2, <4>2, <4>3 DEF LiveIn
    <3> QED
      BY <3>1, <3>2
  <2> QED
    BY <1>2, <1>3, <2>1, <2>3, <2>4
<1>11. ASSUME Log!Rendered(q) # <<>>
       PROVE  /\ Sound(lines', notes', events', told', results')
              /\ LiveIn(lines', live', liveIndex', liveCount')
              /\ liveIndex' \in Nat \cup {-1} /\ liveCount' \in Nat
  <2> DEFINE R == Append(Log!Rendered(q), Log!Blank)
             Outcome(z, a) == Sound(z, notes, events + 1, told \cup {Log!Row(q, 0)}, results) /\ LiveIn(z, q, a, h + 1)
  <2>1. HasRows(q, h)
    <3>1. h # 0
      <4>1. Log!Rendered(q) = [r \in 1 .. h |-> Log!Row(q, r)]
        BY DEF Log!Rendered, h
      <4>2. h = 0 => [r \in 1 .. h |-> Log!Row(q, r)] = <<>>
        OBVIOUS
      <4> QED
        BY <1>11, <4>1, <4>2
    <3>2. 1 <= h
      BY <1>7, <3>1
    <3> QED
      BY <1>5, <3>2 DEF HasRows, h
  <2>2. Log!LivePut(R) /\ liveCount' = h + 1 /\ told' = told \cup {Log!Row(q, 0)}
    BY <1>4, <1>11
  <2>3. ASSUME liveIndex = -1
        PROVE  /\ Outcome(lines', liveIndex') /\ liveIndex' \in Nat
    <3> DEFINE s == Log!WithGap(lines)
               z == s \o R
               a == Len(s)
    <3>1. lines' = z /\ liveIndex' = a
      BY <2>2, <2>3 DEF Log!LivePut
    <3>2. /\ Sound(s, notes, events, told, results) /\ LiveIn(s, live, -1, liveCount)
      BY <1>1, <1>2, <2>3, Gap
    <3> HIDE DEF s
    <3>3. s \in Seq(Line) /\ Numbered(s, notes, events) /\ Older(s, live, a) /\ a \in Nat
      BY <3>2 DEF Sound, LiveIn
    <3>4. z \in Seq(Line) /\ Splice(s, z, a, 0, q, h)
      BY <1>5, <1>7, <2>1, <3>3, PutLast
    <3>5. Older(s, q, a)
      BY <1>2, <1>5, <3>3, StillOlder
    <3>6. Replaceable(s, a, 0, q)
      <4>1. \A i \in DOMAIN s : ~(a < i) /\ ~(Len(s) - 0 < i)
        BY <3>3
      <4> QED
        BY <3>5, <4>1 DEF Replaceable
    <3> HIDE DEF a, z
    <3>7. Outcome(z, a)
      <4>1. events + 1 \in Nat
        BY <1>2
      <4> QED
        BY <1>2, <1>5, <1>7, <1>9, <3>2, <3>3, <3>4, <3>6, <4>1, Spliced, Zenon
    <3> QED
      BY <3>1, <3>3, <3>7 DEF a, z
  <2>4. ASSUME liveIndex # -1
        PROVE  /\ Outcome(lines', liveIndex') /\ liveIndex' \in Nat
    <3> DEFINE z == SubSeq(lines, 1, liveIndex) \o R \o SubSeq(lines, liveIndex + liveCount + 1, Len(lines))
               d == Len(lines) - (liveIndex + liveCount)
    <3>1. lines' = z /\ liveIndex' = liveIndex
      BY <2>2, <2>4 DEF Log!LivePut
    <3>2. Older(lines, live, liveIndex) /\ Region(lines, live, liveIndex, liveCount) /\ liveIndex \in Nat
      BY <1>1, <1>2, <2>4 DEF LiveIn
    <3>3. z \in Seq(Line) /\ Splice(lines, z, liveIndex, d, q, h)
      BY <1>2, <1>5, <1>7, <1>8, <2>1, <3>2, PutThere
    <3>4. Older(lines, q, liveIndex)
      BY <1>2, <1>5, <1>8, <3>2, StillOlder
    <3>5. Replaceable(lines, liveIndex, d, q)
      <4>1. Len(lines) - d = liveIndex + liveCount
        BY <1>2, <1>8, <3>2
      <4> HIDE DEF d
      <4> QED
        BY <1>5, <3>2, <3>4, <4>1 DEF Replaceable, Region
    <3> HIDE DEF d, z
    <3>6. Outcome(z, liveIndex)
      <4>1. events + 1 \in Nat
        BY <1>2
      <4> QED
        BY <1>1, <1>2, <1>5, <1>7, <1>8, <1>9, <3>2, <3>3, <3>5, <4>1, Spliced, Zenon
    <3> QED
      BY <3>1, <3>2, <3>6 DEF z
  <2>5. Outcome(lines', liveIndex') /\ liveIndex' \in Nat
    BY <2>3, <2>4
  <2>6. h + 1 \in Nat
    BY <1>7
  <2> QED
    BY <1>3, <2>2, <2>5, <2>6
<1>12. /\ Sound(lines', notes', events', told', results')
       /\ LiveIn(lines', live', liveIndex', liveCount')
       /\ liveIndex' \in Nat \cup {-1} /\ liveCount' \in Nat
  BY <1>10, <1>11
<1>13. LogTyped'
  <2>1. live' \in Seq(1 .. events') /\ Len(live') <= events'
    BY <1>3, <1>5, <1>6
  <2>2. events' \in Nat /\ events' <= MaxEvents
    BY <1>2, <1>3, Limits
  <2>3. results' \subseteq 1 .. events'
    BY <1>1, <1>2, <1>3 DEF LogTyped
  <2>4. turn' = "on"
    BY <1>3
  <2> QED
    BY <1>1, <1>3, <1>12, <2>1, <2>2, <2>3, <2>4 DEF LogTyped
<1>14. LiveInTurn' /\ ToolWaits'
  BY <1>3 DEF LiveInTurn, ToolWaits
<1> QED
  BY <1>12, <1>13, <1>14 DEF LogInv

\* A result is written into the line of its call.
LEMMA Answered ==
    ASSUME NEW s, NEW n, NEW e \in Nat, NEW ts, NEW res, Sound(s, n, e, ts, res),
           NEW k \in DOMAIN s, s[k] = Log!Call(e, FALSE)
    PROVE  Sound([s EXCEPT ![k].result = TRUE], n, e, ts, res \cup {e})
<1> DEFINE m == Log!Call(e, TRUE)
           z == [s EXCEPT ![k] = m]
<1>1. s \in Seq(Line) /\ Numbered(s, n, e) /\ Ordered(s) /\ Whole(s) /\ AllSeen(s, ts, res)
  BY DEF Sound
<1>2. [s EXCEPT ![k].result = TRUE] = z
  <2>1. [Log!Call(e, FALSE) EXCEPT !.result = TRUE] = m
    <3> DEFINE w == [Log!Call(e, FALSE) EXCEPT !.result = TRUE]
    <3>1. /\ DOMAIN w = {"is", "of", "result"} /\ w = [x \in DOMAIN w |-> w[x]]
          /\ w["is"] = "call" /\ w["of"] = e /\ w["result"] = TRUE
      BY DEF Log!Call
    <3>2. /\ DOMAIN m = {"is", "of", "result"} /\ m = [x \in DOMAIN m |-> m[x]]
          /\ m["is"] = "call" /\ m["of"] = e /\ m["result"] = TRUE
      BY DEF Log!Call
    <3> HIDE DEF w, m
    <3>3. \A x \in {"is", "of", "result"} : w[x] = m[x]
      BY <3>1, <3>2
    <3>4. w = m
      BY <3>1, <3>2, <3>3
    <3> QED
      BY <3>4 DEF w
  <2> HIDE DEF m
  <2>2. [s EXCEPT ![k].result = TRUE] = [s EXCEPT ![k] = [s[k] EXCEPT !.result = TRUE]]
    OBVIOUS
  <2> QED
    BY <2>1, <2>2
<1>3. /\ m \in Line /\ m.is = "call" /\ m.of = e
      /\ Log!Call(e, FALSE) \in Line /\ Log!Call(e, FALSE).is = "call" /\ Log!Call(e, FALSE).of = e
  BY NewLines
<1>4. Numbers(m) = {e} /\ Log!Of(m) = {e} /\ Numbers(s[k]) = {e} /\ Log!Of(s[k]) = {e}
  BY <1>3, NumbersOf
<1>5. ~Log!IsText(m) /\ ~Log!IsText(s[k]) /\ Log!Turned(m) /\ Log!Turned(s[k])
  BY <1>3 DEF Log!IsText, Log!Turned
<1> HIDE DEF m
<1>6. /\ z \in Seq(Line) /\ DOMAIN z = DOMAIN s /\ z[k] = m
      /\ \A i \in DOMAIN s : i # k => z[i] = s[i]
      /\ \A i \in DOMAIN s : s[i] \in Line
  BY <1>1, <1>3
<1>13. DOMAIN s \subseteq Int
  BY <1>1
<1> HIDE DEF z
<1>7. Numbered(z, n, e)
  <2>1. s[k].is = "call" /\ m.is = "call"
    BY <1>3
  <2> QED
    BY <1>1, <1>4, <1>6, <2>1 DEF Numbered
<1>8. Ordered(z)
  <2> SUFFICES ASSUME NEW i \in DOMAIN s, NEW j \in DOMAIN s, i < j, z[i] # Log!Blank, z[j] # Log!Blank
               PROVE  Pair(z, i, j)
    BY <1>6 DEF Ordered
  <2>1. s[k] # Log!Blank
    <3>1. Log!Blank.is = "blank"
      BY NewLines
    <3> QED
      BY <1>3, <3>1
  <2>2. Pair(s, i, j)
    BY <1>1, <1>6, <2>1 DEF Ordered
  <2>3. i # j /\ ~(e < e)
    BY <1>13
  <2>4. CASE j = k
    <3>1. z[j] = m /\ z[i] = s[i]
      BY <1>6, <2>3, <2>4
    <3>2. Log!Turned(s[i]) => \A x \in Log!Of(s[i]) : x < e
      BY <1>4, <1>5, <2>2, <2>4 DEF Pair
    <3>3. z[i] # z[j]
      BY <1>4, <1>5, <2>3, <3>1, <3>2
    <3>4. Log!Turned(z[i]) => \A x \in Log!Of(z[i]), y \in Log!Of(z[j]) : x < y
      BY <1>4, <3>1, <3>2
    <3> QED
      BY <1>5, <3>1, <3>3, <3>4 DEF Pair
  <2>5. CASE i = k
    <3>1. z[i] = m /\ z[j] = s[j]
      BY <1>6, <2>3, <2>5
    <3>2. Log!Turned(s[j]) => \A y \in Log!Of(s[j]) : e < y
      BY <1>4, <1>5, <2>2, <2>5 DEF Pair
    <3>3. z[i] # z[j]
      BY <1>4, <1>5, <2>3, <3>1, <3>2
    <3>4. Log!Turned(z[j]) => \A x \in Log!Of(z[i]), y \in Log!Of(z[j]) : x < y
      BY <1>4, <3>1, <3>2
    <3> QED
      BY <1>5, <3>1, <3>3, <3>4 DEF Pair
  <2>6. CASE i # k /\ j # k
    BY <1>6, <2>2, <2>6 DEF Pair
  <2> QED
    BY <2>4, <2>5, <2>6
<1>9. Whole(z)
  <2> SUFFICES ASSUME NEW i \in DOMAIN s, z[i].is = "text", NEW r \in 1 .. RowsOf[Len(z[i].of)]
               PROVE  \E j \in DOMAIN s : z[j] = Log!Row(z[i].of, r)
    BY <1>6 DEF Whole
  <2>1. z[i] = s[i]
    BY <1>3, <1>6
  <2>2. PICK j \in DOMAIN s : s[j] = Log!Row(s[i].of, r)
    BY <1>1, <2>1 DEF Whole
  <2>3. s[j].is = "text"
    BY <2>2 DEF Log!Row
  <2>4. j # k
    BY <1>3, <2>3
  <2> QED
    BY <1>6, <2>1, <2>2, <2>4
<1>10. AllSeen(z, ts, res \cup {e})
  <2> SUFFICES ASSUME NEW t \in ts PROVE t \in Line /\ t.is # "blank" /\ Seen(z, t, res \cup {e})
    BY DEF AllSeen
  <2>1. t \in Line /\ t.is # "blank" /\ Seen(s, t, res)
    BY <1>1 DEF AllSeen
  <2>2. ASSUME t.is = "text", NEW x \in Log!Of(t)
        PROVE  \E i \in DOMAIN z : z[i].is = "text" /\ x \in Log!Of(z[i])
    <3>1. PICK i \in DOMAIN s : s[i].is = "text" /\ x \in Log!Of(s[i])
      BY <2>1, <2>2 DEF Seen
    <3>2. i # k
      BY <1>3, <3>1
    <3> QED
      BY <1>6, <3>1, <3>2
  <2>3. ASSUME t.is = "call" PROVE \E i \in DOMAIN z : z[i] = Log!Call(t.of, t.of \in res \cup {e})
    <3>1. CASE t.of = e
      <4>1. (t.of \in res \cup {e}) = TRUE
        BY <3>1
      <4>2. Log!Call(t.of, t.of \in res \cup {e}) = m
        BY <3>1, <4>1 DEF m
      <4> QED
        BY <1>6, <4>2
    <3>2. CASE t.of # e
      <4>1. PICK i \in DOMAIN s : s[i] = Log!Call(t.of, t.of \in res)
        BY <2>1, <2>3 DEF Seen
      <4>2. s[i].of = t.of
        BY <4>1 DEF Log!Call
      <4>3. i # k
        BY <1>3, <3>2, <4>2
      <4>4. (t.of \in res \cup {e}) = (t.of \in res)
        BY <3>2
      <4> QED
        BY <1>6, <4>1, <4>3, <4>4
    <3> QED
      BY <3>1, <3>2
  <2>4. ASSUME t.is \in {"note", "warning"} PROVE \E i \in DOMAIN z : z[i] = t
    <3>1. PICK i \in DOMAIN s : s[i] = t
      BY <2>1, <2>4 DEF Seen
    <3>2. i # k
      BY <1>3, <2>4, <3>1
    <3> QED
      BY <1>6, <3>1, <3>2
  <2> QED
    BY <2>1, <2>2, <2>3, <2>4 DEF Seen
<1> QED
  BY <1>2, <1>6, <1>7, <1>8, <1>9, <1>10 DEF Sound

\* tool_call: the line of the call, without a gap.
LEMMA CallStep == ASSUME LogInv, Log!ToolCall PROVE LogInv'
<1> DEFINE m == Log!Call(events + 1, FALSE)
           z == Append(lines, m)
<1>1. /\ LogTyped /\ LiveInTurn /\ Sound(lines, notes, events, told, results)
  BY DEF LogInv
<1>2. /\ turn = "calling" /\ turn' = "tool" /\ events' = events + 1
      /\ lines' = z /\ toolIndex' = Len(lines) /\ toolPending' = TRUE /\ told' = told \cup {m}
      /\ UNCHANGED <<live, liveIndex, liveCount, swarm, notes, results>>
  BY DEF Log!ToolCall
<1>3. events \in Nat /\ events < MaxEvents /\ notes \in Nat /\ results \subseteq 1 .. events /\ live = <<>> /\ liveIndex = -1
  BY <1>1, <1>2 DEF LogTyped, LiveInTurn
<1>4. m \in Line /\ m.is = "call" /\ m.of = events + 1 /\ Numbers(m) = {events + 1}
  <2>1. events + 1 \in Nat
    BY <1>3
  <2>2. m \in Line /\ m.is = "call" /\ m.of = events + 1
    BY <2>1, NewLines
  <2> QED
    BY <2>2, NumbersOf
<1>5. /\ events + 1 \in Nat /\ events <= events + 1 /\ notes <= notes
      /\ events + 1 \in 1 .. (events + 1) /\ events + 1 \notin 1 .. events /\ events + 1 <= MaxEvents
  BY <1>3, Limits
<1> HIDE DEF m
<1>6. Fresh(lines, m)
  BY <1>1, <1>3, <1>4, NextEvent
<1>7. Sound(z, notes, events + 1, told, results)
  BY <1>1, <1>3, <1>4, <1>5, <1>6, AddLine
<1>8. /\ lines \in Seq(Line) /\ Len(lines) \in Nat /\ Len(z) = Len(lines) + 1
      /\ DOMAIN z = 1 .. (Len(lines) + 1) /\ z[Len(lines) + 1] = m
  BY <1>1, <1>4, AddOne DEF Sound
<1>9. Seen(z, m, results)
  <2>1. (m.of \in results) = FALSE
    BY <1>3, <1>4, <1>5
  <2>2. m = Log!Call(m.of, m.of \in results)
    BY <1>4, <2>1 DEF m
  <2>3. Len(lines) + 1 \in DOMAIN z
    BY <1>8
  <2> QED
    BY <1>4, <1>8, <2>2, <2>3 DEF Seen
<1>10. Sound(z, notes, events + 1, told \cup {m}, results)
  BY <1>4, <1>7, <1>9, SeenMore
<1>11. LiveIn(z, <<>>, -1, liveCount)
  BY <1>10, NoRegion DEF Sound
<1>12. LogTyped'
  <2>1. results \subseteq 1 .. (events + 1)
    BY <1>3
  <2>2. toolIndex' \in Int
    BY <1>2, <1>8
  <2>3. live' \in Seq(1 .. events') /\ Len(live') <= events'
    BY <1>2, <1>3, <1>5
  <2> QED
    BY <1>1, <1>2, <1>5, <2>1, <2>2, <2>3 DEF LogTyped
<1>13. ToolWaits'
  <2>1. Len(lines) < Len(lines) + 1
    BY <1>8
  <2> QED
    BY <1>2, <1>8, <2>1 DEF ToolWaits, m
<1>14. LiveInTurn'
  BY <1>2, <1>3 DEF LiveInTurn
<1> QED
  BY <1>2, <1>3, <1>10, <1>11, <1>12, <1>13, <1>14 DEF LogInv

\* tool_result.
LEMMA ResultStep == ASSUME LogInv, Log!ToolResult PROVE LogInv'
<1>1. /\ LogTyped /\ LiveInTurn /\ ToolWaits /\ Sound(lines, notes, events, told, results)
  BY DEF LogInv
<1>2. /\ turn = "tool" /\ turn' = "on" /\ results' = results \cup {events}
      /\ UNCHANGED <<live, liveIndex, liveCount, swarm, events, notes, told>>
  BY DEF Log!ToolResult
<1>3. /\ toolPending /\ toolIndex \in Nat /\ toolIndex < Len(lines)
      /\ lines[toolIndex + 1] = Log!Call(events, FALSE)
      /\ live = <<>> /\ liveIndex = -1 /\ events \in Nat
  BY <1>1, <1>2 DEF ToolWaits, LiveInTurn, LogTyped
<1>4. lines' = [lines EXCEPT ![toolIndex + 1].result = TRUE] /\ toolPending' = FALSE /\ toolIndex' = -1
  BY <1>3 DEF Log!ToolResult
<1>5. lines \in Seq(Line)
  BY <1>1 DEF Sound
<1>6. toolIndex + 1 \in DOMAIN lines
  BY <1>3, <1>5
<1>7. Sound(lines', notes, events, told, results \cup {events})
  BY <1>1, <1>3, <1>4, <1>6, Answered
<1>8. LiveIn(lines', <<>>, -1, liveCount)
  BY <1>7, NoRegion DEF Sound
<1>9. events \in 1 .. events
  <2>1. Log!Call(events, FALSE) \in Line /\ Log!Call(events, FALSE).is = "call" /\ Log!Call(events, FALSE).of = events
    BY <1>3, NewLines
  <2>2. Numbers(lines[toolIndex + 1]) = {events}
    BY <1>3, <2>1, NumbersOf
  <2> QED
    BY <1>1, <1>6, <2>2 DEF Sound, Numbered
<1>10. LogTyped'
  <2>1. live' \in Seq(1 .. events') /\ Len(live') <= events'
    BY <1>1, <1>2 DEF LogTyped
  <2>2. results' \subseteq 1 .. events'
    BY <1>1, <1>2, <1>9 DEF LogTyped
  <2>3. notes' + (IF swarm' THEN 1 ELSE 0) + (IF turn' = "cleared" THEN 1 ELSE 0) <= MaxNotes
    BY <1>1, <1>2 DEF LogTyped
  <2>4. toolPending' \in BOOLEAN /\ swarm' \in BOOLEAN
    BY <1>1, <1>2, <1>4, Zenon DEF LogTyped
  <2>5. toolIndex' \in Int /\ turn' = "on"
    BY <1>2, <1>4
  <2>6. UNCHANGED <<liveIndex, liveCount, events, notes>>
    BY <1>2
  <2> QED
    BY <1>1, <2>1, <2>2, <2>3, <2>4, <2>5, <2>6 DEF LogTyped
<1>11. LiveInTurn' /\ ToolWaits'
  BY <1>2 DEF LiveInTurn, ToolWaits
<1> QED
  BY <1>2, <1>3, <1>7, <1>8, <1>10, <1>11 DEF LogInv

\* warning.
LEMMA WarnStep == ASSUME LogInv, Log!Warn PROVE LogInv'
<1> DEFINE m == Log!Warning(events + 1)
           z == Log!WithBlock(lines, m)
<1>1. /\ LogTyped /\ LiveInTurn /\ Sound(lines, notes, events, told, results)
  BY DEF LogInv
<1>2. /\ turn = "warning" /\ turn' = "on" /\ events' = events + 1
      /\ lines' = z /\ told' = told \cup {m}
      /\ UNCHANGED <<live, liveIndex, liveCount, toolIndex, toolPending, swarm, notes, results>>
  BY DEF Log!Warn
<1>3. events \in Nat /\ events < MaxEvents /\ notes \in Nat /\ results \subseteq 1 .. events /\ live = <<>> /\ liveIndex = -1
  BY <1>1, <1>2 DEF LogTyped, LiveInTurn
<1>4. m \in Line /\ m.is = "warning" /\ m.of = events + 1 /\ Numbers(m) = {events + 1}
  BY <1>3, NewLines, NumbersOf
<1>5. /\ events + 1 \in Nat /\ events <= events + 1 /\ notes <= notes
      /\ events + 1 \in 1 .. (events + 1) /\ events + 1 <= MaxEvents
  BY <1>3, Limits
<1> HIDE DEF m
<1>6. \A g : Sound(g, notes, events, told, results) => Fresh(g, m)
  BY <1>3, <1>4, NextEvent
<1>7. HasBlock(lines, z, m, notes, events + 1, told, results)
  <2>1. m.is \notin {"text", "blank"} /\ Numbers(m) \subseteq 1 .. (events + 1) /\ m.is # "note"
    BY <1>4, <1>5
  <2> QED
    BY <1>1, <1>3, <1>4, <1>5, <1>6, <2>1, Block
<1>8. Sound(z, notes, events + 1, told, results) /\ Seen(z, m, results)
  BY <1>4, <1>7 DEF HasBlock, Seen
<1>9. Sound(z, notes, events + 1, told \cup {m}, results)
  BY <1>4, <1>8, SeenMore
<1>10. LiveIn(z, <<>>, -1, liveCount)
  BY <1>9, NoRegion DEF Sound
<1>11. LogTyped'
  <2>1. results \subseteq 1 .. (events + 1)
    BY <1>3
  <2>2. live' \in Seq(1 .. events') /\ Len(live') <= events'
    BY <1>2, <1>3, <1>5
  <2> QED
    BY <1>1, <1>2, <1>5, <2>1, <2>2 DEF LogTyped
<1>12. LiveInTurn' /\ ToolWaits'
  BY <1>2 DEF LiveInTurn, ToolWaits
<1> QED
  BY <1>2, <1>3, <1>9, <1>10, <1>11, <1>12 DEF LogInv

\* The flushes, which leave the lines alone, and the steps that only pass a turn on.
LEMMA FlushStep ==
    ASSUME LogInv, Log!TurnBegins \/ Log!FlushFor("calling") \/ Log!FlushFor("warning") \/ Log!TurnEnds \/ Log!SwarmFlush
    PROVE  LogInv'
<1>1. /\ LogTyped /\ LiveInTurn /\ ToolWaits /\ Sound(lines, notes, events, told, results)
      /\ LiveIn(lines, live, liveIndex, liveCount)
  BY DEF LogInv
<1>2. UNCHANGED <<lines, toolIndex, toolPending, events, notes, told, results>>
  BY DEF Log!TurnBegins, Log!FlushFor, Log!TurnEnds, Log!SwarmFlush
<1>3. (live' = <<>> /\ liveIndex' = -1 /\ liveCount' = 0) \/ (UNCHANGED <<live, liveIndex, liveCount>> /\ turn' = "on")
  BY DEF Log!TurnBegins, Log!FlushFor, Log!TurnEnds, Log!SwarmFlush, Log!Flush
<1>4. lines \in Seq(Line) /\ LiveIn(lines', live', liveIndex', liveCount')
  BY <1>1, <1>2, <1>3, NoRegion DEF Sound
<1>5. LogTyped'
  <2>1. events \in Nat /\ <<>> \in Seq(1 .. events) /\ Len(<<>>) <= events
    BY <1>1 DEF LogTyped
  <2>5. live \in Seq(1 .. events) /\ Len(live) <= events /\ liveIndex \in Nat \cup {-1} /\ liveCount \in Nat
    BY <1>1 DEF LogTyped
  <2>6. events' = events /\ live' \in {<<>>, live}
    BY <1>2, <1>3
  <2>7. live' \in Seq(1 .. events') /\ Len(live') <= events'
    BY <2>1, <2>5, <2>6
  <2>2. live' \in Seq(1 .. events') /\ Len(live') <= events' /\ liveIndex' \in Nat \cup {-1} /\ liveCount' \in Nat
    BY <1>3, <2>5, <2>7
  <2>3. CASE Log!SwarmFlush
    <3>1. ~swarm /\ swarm' = TRUE /\ turn' = turn /\ Log!MoreNotes
      BY <2>3 DEF Log!SwarmFlush
    <3>2. notes \in Nat /\ notes + 1 + (IF turn = "cleared" THEN 1 ELSE 0) <= MaxNotes
      BY <1>1, <3>1, Limits DEF Log!MoreNotes, LogTyped
    <3> QED
      BY <1>1, <1>2, <2>2, <3>1, <3>2 DEF LogTyped
  <2>4. CASE ~Log!SwarmFlush
    <3>1. /\ swarm' = swarm /\ turn # "cleared" /\ turn' \in {"on", "off", "calling", "warning"}
          /\ turn' \in {"calling", "warning"} => events < MaxEvents
      BY <2>4 DEF Log!TurnBegins, Log!FlushFor, Log!TurnEnds
    <3> QED
      BY <1>1, <1>2, <2>2, <3>1 DEF LogTyped
  <2> QED
    BY <2>3, <2>4
<1>6. LiveInTurn'
  BY <1>3 DEF LiveInTurn
<1>7. ToolWaits'
  <2>1. turn' = "tool" => turn = "tool"
    BY DEF Log!TurnBegins, Log!FlushFor, Log!TurnEnds, Log!SwarmFlush
  <2> QED
    BY <1>1, <1>2, <2>1 DEF ToolWaits
<1> QED
  BY <1>1, <1>2, <1>4, <1>5, <1>6, <1>7 DEF LogInv

LEMMA OtherStep == ASSUME LogInv, Log!SwarmLive \/ Log!AppendNote \/ Log!Cleared PROVE LogInv'
<1>1. LogTyped /\ LiveInTurn /\ ToolWaits
  BY DEF LogInv
<1>2. /\ Log!PutNote /\ notes' = notes + 1
      /\ UNCHANGED <<live, liveIndex, liveCount, toolIndex, toolPending, events, results>>
  BY DEF Log!SwarmLive, Log!AppendNote, Log!Cleared, Log!PutNote
<1>3. /\ Sound(lines', notes', events', told', results')
      /\ LiveIn(lines', live', liveIndex', liveCount')
      /\ ToolWaits /\ turn' = turn => ToolWaits'
  BY <1>2, NoteStep
<1>4. LogTyped'
  <2>1. notes \in Nat
    BY <1>1 DEF LogTyped
  <2>2. /\ notes' + (IF swarm' THEN 1 ELSE 0) + (IF turn' = "cleared" THEN 1 ELSE 0) <= MaxNotes
        /\ swarm' \in BOOLEAN /\ turn' \in {turn, "off"} /\ notes' \in Nat
    <3>1. CASE Log!SwarmLive
      <4>1. swarm = TRUE /\ swarm' = FALSE /\ turn' = turn /\ notes' = notes + 1
        BY <1>1, <1>2, <3>1 DEF Log!SwarmLive, LogTyped
      <4>2. notes + 1 + (IF turn = "cleared" THEN 1 ELSE 0) <= MaxNotes
        BY <1>1, <4>1 DEF LogTyped
      <4>3. (IF swarm' THEN 1 ELSE 0) = 0 /\ (IF turn' = "cleared" THEN 1 ELSE 0) = IF turn = "cleared" THEN 1 ELSE 0
        BY <4>1
      <4>4. (IF turn = "cleared" THEN 1 ELSE 0) \in Nat
        OBVIOUS
      <4>5. notes' + (IF swarm' THEN 1 ELSE 0) + (IF turn' = "cleared" THEN 1 ELSE 0) <= MaxNotes
        BY <2>1, <4>1, <4>2, <4>3, <4>4, Limits
      <4>6. swarm' \in BOOLEAN
        BY <4>1, Zenon
      <4>7. notes' \in Nat
        BY <2>1, <4>1
      <4> QED
        BY <4>1, <4>5, <4>6, <4>7
    <3>2. CASE Log!AppendNote
      BY <1>1, <1>2, <2>1, <3>2, Limits DEF Log!AppendNote, Log!MoreNotes, LogTyped
    <3>3. CASE Log!Cleared
      BY <1>1, <1>2, <2>1, <3>3, Limits DEF Log!Cleared, LogTyped
    <3> QED
      BY <3>1, <3>2, <3>3
  <2> QED
    BY <1>1, <1>2, <2>2 DEF LogTyped
<1>5. turn' = turn \/ (turn = "cleared" /\ turn' = "off")
  BY DEF Log!SwarmLive, Log!AppendNote, Log!Cleared
<1>6. LiveInTurn' /\ ToolWaits'
  BY <1>1, <1>2, <1>3, <1>5 DEF LiveInTurn, ToolWaits
<1> QED
  BY <1>3, <1>4, <1>6 DEF LogInv

\* /clear.
LEMMA ClearStep == ASSUME LogInv, Log!Clear PROVE LogInv'
<1>1. LogTyped
  BY DEF LogInv
<1>2. /\ turn = "off" /\ turn' = "cleared" /\ Log!MoreNotes
      /\ lines' = <<>> /\ live' = <<>> /\ liveIndex' = -1 /\ liveCount' = 0
      /\ told' = {} /\ results' = {}
      /\ UNCHANGED <<toolIndex, toolPending, swarm, events, notes>>
  BY DEF Log!Clear, Log!Flush
<1>3. Sound(<<>>, notes, events, {}, {})
  BY DEF Sound, Numbered, Ordered, Whole, AllSeen
<1>4. LiveIn(<<>>, <<>>, -1, 0)
  BY <1>3, NoRegion DEF Sound
<1>5. LogTyped'
  <2>1. events \in Nat /\ <<>> \in Seq(1 .. events) /\ Len(<<>>) <= events /\ {} \subseteq 1 .. events
    BY <1>1 DEF LogTyped
  <2>2. notes \in Nat /\ notes + (IF swarm THEN 1 ELSE 0) + 1 <= MaxNotes
    BY <1>1, <1>2, Limits DEF Log!MoreNotes, LogTyped
  <2> QED
    BY <1>1, <1>2, <2>1, <2>2 DEF LogTyped
<1>6. LiveInTurn' /\ ToolWaits'
  BY <1>2 DEF LiveInTurn, ToolWaits
<1> QED
  BY <1>2, <1>3, <1>4, <1>5, <1>6 DEF LogInv

LEMMA LogStep == ASSUME LogInv, Log!Next PROVE LogInv'
  BY TextStep, CallStep, ResultStep, WarnStep, FlushStep, OtherStep, ClearStep DEF Log!Next

LEMMA LogSound == ASSUME LogInv PROVE Log!TypeOK /\ Log!TranscriptIntact
<1>1. LogTyped /\ Sound(lines, notes, events, told, results)
  BY DEF LogInv
<1>2. lines \in Seq(Line) /\ Ordered(lines) /\ Whole(lines) /\ AllSeen(lines, told, results)
  BY <1>1 DEF Sound
<1>3. \A i \in DOMAIN lines : lines[i] \in Line
  BY <1>2
<1>4. \A i \in DOMAIN lines : lines[i] # Log!Blank <=> lines[i].is # "blank"
  BY <1>3, Kinds
<1>5. Log!TypeOK
  <2>1. notes <= MaxNotes
    BY <1>1, Limits DEF LogTyped
  <2>2. \A i \in DOMAIN lines : lines[i].is \in {"blank", "note", "warning", "call", "text"}
    BY <1>3, Kinds
  <2> QED
    BY <1>1, <2>1, <2>2 DEF Log!TypeOK, LogTyped
<1>6. ASSUME NEW i \in Log!Shown, NEW j \in Log!Shown, i < j PROVE Pair(lines, i, j)
  BY <1>2, <1>6 DEF Ordered, Log!Shown
<1>7. ASSUME NEW i \in Log!Shown, Log!IsText(lines[i]), NEW r \in 1 .. RowsOf[Len(lines[i].of)]
      PROVE  \E j \in Log!Shown : lines[j] = Log!Row(lines[i].of, r)
  <2>1. PICK j \in DOMAIN lines : lines[j] = Log!Row(lines[i].of, r)
    BY <1>2, <1>7 DEF Whole, Log!Shown, Log!IsText
  <2>2. lines[j].is = "text"
    BY <2>1 DEF Log!Row
  <2> QED
    BY <1>4, <2>1, <2>2 DEF Log!Shown
<1>8. ASSUME NEW t \in told
      PROVE  CASE Log!IsText(t)   -> \A e \in Log!Of(t) : \E i \in Log!Shown : Log!IsText(lines[i]) /\ e \in Log!Of(lines[i])
               [] t.is = "call"   -> \E i \in Log!Shown : lines[i] = Log!Call(t.of, t.of \in results)
               [] OTHER           -> \E i \in Log!Shown : lines[i] = t
  <2>1. t \in Line /\ t.is # "blank" /\ Seen(lines, t, results)
    BY <1>2 DEF AllSeen
  <2>2. CASE t.is = "text"
    <3>1. \A e \in Log!Of(t) : \E i \in Log!Shown : Log!IsText(lines[i]) /\ e \in Log!Of(lines[i])
      BY <1>4, <2>1, <2>2 DEF Seen, Log!Shown, Log!IsText
    <3> QED
      BY <2>2, <3>1 DEF Log!IsText
  <2>3. CASE t.is = "call"
    <3>1. PICK i \in DOMAIN lines : lines[i] = Log!Call(t.of, t.of \in results)
      BY <2>1, <2>3 DEF Seen
    <3>2. lines[i].is = "call"
      BY <3>1 DEF Log!Call
    <3>3. i \in Log!Shown
      BY <1>4, <3>2 DEF Log!Shown
    <3> QED
      BY <2>3, <3>1, <3>3 DEF Log!IsText
  <2>4. CASE t.is \in {"note", "warning"}
    <3>1. \E i \in Log!Shown : lines[i] = t
      BY <1>4, <2>1, <2>4 DEF Seen, Log!Shown
    <3> QED
      BY <2>4, <3>1 DEF Log!IsText
  <2> QED
    BY <2>1, <2>2, <2>3, <2>4, Kinds
<1>9. Log!TranscriptIntact
  BY <1>6, <1>7, <1>8 DEF Log!TranscriptIntact, Pair
<1> QED
  BY <1>5, <1>9

-----------------------------------------------------------------------------
(* Side by side.  The assumptions are those of ClientParts on its constants.  *)

\* A step of another part is a stutter of this one.
LEMMA PartsSpec == ClientSpec => Loop!Spec /\ Handshake!Spec /\ Session!Spec /\ Auth!Spec
<1>1. ClientInit => Loop!Init /\ Handshake!Init /\ Session!Init /\ Auth!Init
  BY DEF ClientInit
<1> USE DEF clientVars, editorVars, barVars, loopVars, logVars, pageVars, handshakeVars, sessionVars, authVars,
            ClientNext, EditorNext, BarNext, LoopNext, LogNext, PageNext, HandshakeNext, SessionNext, AuthNext
<1>2. [ClientNext]_clientVars => [Loop!Next]_Loop!turnVars
  BY DEF Loop!turnVars
<1>3. [ClientNext]_clientVars => [Handshake!Next]_Handshake!handshakeVars
  BY DEF Handshake!handshakeVars
<1>4. [ClientNext]_clientVars => [Session!Next]_Session!sessionVars
  BY DEF Session!sessionVars
<1>5. [ClientNext]_clientVars => [Auth!Next]_Auth!authVars
  BY DEF Auth!authVars
<1> HIDE DEF clientVars, editorVars, barVars, loopVars, logVars, pageVars, handshakeVars, sessionVars, authVars,
             ClientNext, EditorNext, BarNext, LoopNext, LogNext, PageNext, HandshakeNext, SessionNext, AuthNext
<1>6. ClientSpec => Loop!Spec
  BY <1>1, <1>2, PTL DEF ClientSpec, Loop!Spec
<1>7. ClientSpec => Handshake!Spec
  BY <1>1, <1>3, PTL DEF ClientSpec, Handshake!Spec
<1>8. ClientSpec => Session!Spec
  BY <1>1, <1>4, PTL DEF ClientSpec, Session!Spec
<1>9. ClientSpec => Auth!Spec
  BY <1>1, <1>5, PTL DEF ClientSpec, Auth!Spec
<1> QED
  BY <1>6, <1>7, <1>8, <1>9

\* The run's TurnUndisturbed, for any number of turns.
THEOREM TurnNeverDisturbed == ClientSpec => []TurnUndisturbed
<1>1. Loop!TurnUndisturbed => TurnUndisturbed
  BY DEF TurnUndisturbed
<1> QED
  BY <1>1, AgentHasOneCaller, PartsSpec, PTL

\* The run's LoopKeepsFrames, for any frames and any limits of the reader.
THEOREM LoopAlwaysKeepsFrames == ClientSpec => []LoopKeepsFrames
<1>1. Handshake!LoopKeepsFrames /\ Handshake!UpIsAcknowledged => LoopKeepsFrames
  BY DEF LoopKeepsFrames
<1> QED
  BY <1>1, HandledInOrder, UpMeansAcknowledged, PartsSpec, PTL

\* The run's PidfileKept, for any clients and start commands.
THEOREM PidfileAlwaysKept == ClientSpec => []PidfileKept
<1>1. Session!Spec => []Session!PidfileKept
  BY SessionAssumption, PidfileNamesServer
<1>2. Session!PidfileKept => PidfileKept
  BY DEF PidfileKept
<1> QED
  BY <1>1, <1>2, PartsSpec, PTL

\* The run's CredentialsSurvive, for any processes that save, as often as they like.
THEOREM CredentialsAlwaysSurvive == ClientSpec => []CredentialsSurvive
<1>1. Auth!Spec => []Auth!CredentialsSurvive
  BY AuthAssumption, SavedKeysSurvive
<1>2. Auth!CredentialsSurvive => CredentialsSurvive
  BY DEF CredentialsSurvive
<1> QED
  BY <1>1, <1>2, PartsSpec, PTL

\* The parts whose invariants are stated above.
OtherParts == EditorInv /\ BarInv /\ PageInv /\ LogInv

\* They are inductive side by side.
LEMMA OtherPartsInvariant == ClientSpec => []OtherParts
<1>1. ClientInit => OtherParts
  BY EditorInit, BarInit, PageInit, LogInit DEF ClientInit, OtherParts
<1>2. OtherParts /\ [ClientNext]_clientVars => OtherParts'
  <2> SUFFICES ASSUME OtherParts, [ClientNext]_clientVars PROVE OtherParts'
    OBVIOUS
  <2> USE DEF OtherParts
  <2>1. Editor!Next \/ UNCHANGED editorVars
    BY DEF clientVars, ClientNext, EditorNext, BarNext, LoopNext, LogNext, PageNext, HandshakeNext, SessionNext, AuthNext
  <2>2. Bar!Next \/ UNCHANGED barVars
    BY DEF clientVars, ClientNext, EditorNext, BarNext, LoopNext, LogNext, PageNext, HandshakeNext, SessionNext, AuthNext
  <2>3. Page!Next \/ UNCHANGED pageVars
    BY DEF clientVars, ClientNext, EditorNext, BarNext, LoopNext, LogNext, PageNext, HandshakeNext, SessionNext, AuthNext
  <2>7. Log!Next \/ UNCHANGED logVars
    BY DEF clientVars, ClientNext, EditorNext, BarNext, LoopNext, LogNext, PageNext, HandshakeNext, SessionNext, AuthNext
  <2>4. EditorInv'
    <3>1. CASE UNCHANGED editorVars
      BY <3>1 DEF editorVars, EditorInv, Edge, Utf8, Editor!WellFormed
    <3> QED
      BY <2>1, <3>1, EditorStep
  <2>5. BarInv'
    <3>1. KeyHasList' <=> (Bar!Suggested(key') # <<>> => index' < Len(Bar!Suggested(key')))
      BY DEF KeyHasList, Bar!Suggested
    <3>2. CASE UNCHANGED barVars
      <4>1. KeyHasList'
        BY <3>1, <3>2 DEF barVars, BarInv, KeyHasList
      <4>2. BarTyped' /\ pos' <= Len(prompts')
        BY <3>2 DEF barVars, BarInv, BarTyped
      <4> QED
        BY <4>1, <4>2 DEF BarInv
    <3> QED
      BY <2>2, <3>2, BarStep
  <2>6. PageInv'
    <3>1. CASE UNCHANGED pageVars
      BY <3>1 DEF pageVars, PageInv, Page!ViewSound, Page!MaxView
    <3> QED
      BY <2>3, <3>1, PageStep
  <2>8. LogInv'
    <3>1. CASE UNCHANGED logVars
      BY <3>1 DEF logVars, LogInv, LogTyped, LiveInTurn, ToolWaits
    <3> QED
      BY <2>7, <3>1, LogStep
  <2> QED
    BY <2>4, <2>5, <2>6, <2>8
<1> QED
  BY <1>1, <1>2, PTL DEF ClientSpec

\* The run's PlacesInRange, for texts, screens and lists of any length.
THEOREM PlacesAlwaysInRange == ClientSpec => []PlacesInRange
<1>1. OtherParts => PlacesInRange
  BY EditorIsSound, BarSound DEF OtherParts, PageInv, PlacesInRange
<1> QED
  BY <1>1, OtherPartsInvariant, PTL

\* The run's TranscriptIntact, for any number of texts, calls and notes, and whatever
\* number of rows a text is rendered to.
THEOREM TranscriptAlwaysIntact == ClientSpec => []TranscriptIntact
<1>1. OtherParts => TranscriptIntact
  BY LogSound DEF OtherParts, TranscriptIntact
<1> QED
  BY <1>1, OtherPartsInvariant, PTL

\* The run's TypeOK: all eight parts keep the shape of their state.
THEOREM PartsTypeCorrect == ClientSpec => []ClientTypeOK
<1>1. OtherParts => Editor!TypeOK /\ Bar!TypeOK /\ Log!TypeOK /\ Page!TypeOK
  BY EditorIsSound, BarSound, LogSound DEF OtherParts, PageInv, Page!TypeOK
<1>2. Session!Spec => []Session!TypeOK
  BY SessionAssumption, DaemonTypes
<1>3. Auth!Spec => []Auth!TypeOK
  BY AuthAssumption, AuthTypes
<1>4. (Editor!TypeOK /\ Bar!TypeOK /\ Log!TypeOK /\ Page!TypeOK) /\ Loop!TypeOK /\ Handshake!TypeOK
        /\ Session!TypeOK /\ Auth!TypeOK => ClientTypeOK
  BY DEF ClientTypeOK
<1> QED
  BY <1>1, <1>2, <1>3, <1>4, OtherPartsInvariant, PartsSpec, LoopTypes, HandshakeTypes, PTL
=============================================================================
