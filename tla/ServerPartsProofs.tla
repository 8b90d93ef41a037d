--------------------------- MODULE ServerPartsProofs ---------------------------
(* Theorems about the parts of a hosted Agent, side by side: for any sources, *)
(* files, clients and messages.                                               *)
EXTENDS ServerParts, WellFoundedInduction, SequenceTheorems, FiniteSetTheorems, TLAPS

\* Induction over the numbers, with a set in the place of a formula.
LEMMA SetInduction ==
    ASSUME NEW T, 0 \in T, \A n \in Nat : n \in T => n + 1 \in T
    PROVE  Nat \subseteq T
<1> DEFINE Less == OpToRel(<, Nat)
<1> SUFFICES ASSUME Nat \ T # {} PROVE FALSE
  OBVIOUS
<1>1. IsWellFoundedOn(Less, Nat)
  BY NatLessThanWellFounded
<1>2. PICK x \in Nat \ T : \A y \in Nat \ T : <<y, x>> \notin Less
  <2> HIDE DEF Less
  <2> QED BY <1>1, WFMin
<1>3. x # 0 /\ x - 1 \in Nat /\ <<x - 1, x>> \in Less /\ (x - 1) + 1 = x
  BY DEF OpToRel
<1>4. x - 1 \in T
  BY <1>2, <1>3
<1> QED
  BY <1>3, <1>4

LEMMA SeqInduction ==
    ASSUME NEW A, NEW T, <<>> \in T, \A s \in Seq(A), c \in A : s \in T => Append(s, c) \in T
    PROVE  Seq(A) \subseteq T
<1> DEFINE N == {n \in Nat : \A s \in Seq(A) : Len(s) = n => s \in T}
<1>1. 0 \in N
  BY EmptySeq
<1>2. ASSUME NEW n \in Nat, n \in N PROVE n + 1 \in N
  <2> SUFFICES ASSUME NEW s \in Seq(A), Len(s) = n + 1 PROVE s \in T
    OBVIOUS
  <2>1. s # <<>>
    OBVIOUS
  <2>2. PICK r \in Seq(A), c \in A : s = Append(r, c)
    BY <2>1, SequenceEmptyOrAppend
  <2>3. Len(r) = n
    BY <2>2
  <2> QED
    BY <1>2, <2>2, <2>3
<1> HIDE DEF N
<1>3. Nat \subseteq N
  BY <1>1, <1>2, SetInduction
<1> QED
  BY <1>3 DEF N

Steps(S, n) == [S \X (1 .. n) -> S]

StepByStep(f, S, base, step, n) ==
    f \in [0 .. n -> S] /\ f[0] = base /\ \A i \in 1 .. n : f[i] = step[<<f[i - 1], i>>]

\* From a value and a step, the function that goes on step by step.
LEMMA StepsExist ==
    ASSUME NEW S, NEW base \in S, NEW n \in Nat, NEW step \in Steps(S, n)
    PROVE  \E f : StepByStep(f, S, base, step, n)
<1>0. step \in [S \X (1 .. n) -> S]
  BY DEF Steps
<1> DEFINE GoesOn(f, m) == f[0] = base /\ \A i \in 1 .. m : f[i] = step[<<f[i - 1], i>>]
           T == {m \in Nat : m <= n => \E f \in [0 .. m -> S] : GoesOn(f, m)}
<1>1. 0 \in T
  <2> DEFINE f == [i \in 0 .. 0 |-> base]
  <2>1. f \in [0 .. 0 -> S] /\ GoesOn(f, 0)
    OBVIOUS
  <2> QED
    BY <2>1
<1>2. ASSUME NEW m \in Nat, m \in T PROVE m + 1 \in T
  <2> SUFFICES ASSUME m + 1 <= n PROVE \E f \in [0 .. m + 1 -> S] : GoesOn(f, m + 1)
    OBVIOUS
  <2>1. PICK f \in [0 .. m -> S] : GoesOn(f, m)
    BY <1>2
  <2>2. m + 1 \in 1 .. n /\ f[m] \in S
    OBVIOUS
  <2>3. <<f[m], m + 1>> \in S \X (1 .. n)
    BY <2>2
  <2>4. step[<<f[m], m + 1>>] \in S
    BY <1>0, <2>3
  <2> DEFINE next == step[<<f[m], m + 1>>]
             g == [i \in 0 .. m + 1 |-> IF i = m + 1 THEN next ELSE f[i]]
  <2>5. g \in [0 .. m + 1 -> S]
    BY <2>4
  <2>6. ASSUME NEW i \in 1 .. m + 1 PROVE g[i] = step[<<g[i - 1], i>>]
    <3>1. CASE i = m + 1
      <4>1. i - 1 = m /\ g[m] = f[m] /\ g[i] = next
        BY <3>1
      <4> QED
        BY <3>1, <4>1
    <3>2. CASE i # m + 1
      <4>1. i \in 1 .. m /\ i - 1 \in 0 .. m /\ g[i] = f[i] /\ g[i - 1] = f[i - 1]
        BY <3>2
      <4> QED
        BY <2>1, <4>1
    <3> QED
      BY <3>1, <3>2
  <2>7. g[0] = base
    BY <2>1
  <2> QED
    BY <2>5, <2>6, <2>7
<1> HIDE DEF T
<1>3. n \in T
  BY <1>1, <1>2, SetInduction
<1>4. n <= n
  OBVIOUS
<1> QED
  BY <1>3, <1>4 DEF T, StepByStep

GoAlike(f, g, n) == f[0] = g[0] /\ \A i \in 1 .. n : f[i - 1] = g[i - 1] => f[i] = g[i]

\* What begins and goes on alike is the same.
LEMMA Alike ==
    ASSUME NEW n \in Nat, NEW f, NEW g, GoAlike(f, g, n)
    PROVE  \A i \in 0 .. n : f[i] = g[i]
<1>0. f[0] = g[0] /\ \A i \in 1 .. n : f[i - 1] = g[i - 1] => f[i] = g[i]
  BY DEF GoAlike
<1> DEFINE T == {i \in Nat : i \in 0 .. n => f[i] = g[i]}
<1>1. 0 \in T
  BY <1>0
<1>2. ASSUME NEW i \in Nat, i \in T PROVE i + 1 \in T
  <2> DEFINE j == i + 1
  <2> SUFFICES ASSUME j \in 0 .. n PROVE f[j] = g[j]
    OBVIOUS
  <2>1. j \in 1 .. n /\ i \in 0 .. n /\ j - 1 = i
    OBVIOUS
  <2>2. f[i] = g[i]
    BY <1>2, <2>1
  <2> HIDE DEF j, T
  <2> QED
    BY <1>0, <2>1, <2>2
<1> HIDE DEF T
<1>3. Nat \subseteq T
  BY <1>1, <1>2, SetInduction
<1> QED
  BY <1>3 DEF T

Said == [Keys -> Values \cup {None}]

\* The stored text is part of what the model has been told, never something older.
TextIsPart == \A k \in Keys : context[k] # None => context[k] = snapshot[k]

ContextInv ==
    /\ source = [k \in Keys |-> source[k]]
    /\ Context!TypeOK
    /\ TextIsPart
    /\ Context!SnapshotWasTold
    /\ Context!PromptCatchesUp

-----------------------------------------------------------------------------
LEMMA LoadedIsSomething ==
    ASSUME Context!SourcesFit, NEW k \in Keys, NEW v \in Context!Loads(k)
    PROVE  v # None /\ (v \notin {Unavailable, Empty} => v \in Values)
  BY DEF Context!SourcesFit, Context!Loads

\* What a prompt leaves behind when it says `context'.
LEMMA SentTypes ==
    ASSUME Context!TypeOK, NEW shown \in Said, NEW word, Context!Send(shown, word)
    PROVE  prompt' \in Said /\ prompted' \in Said
  BY DEF Context!TypeOK, Said, Context!Send

LEMMA ContextInit == ASSUME Context!SourcesFit, Context!Init PROVE ContextInv
<1>1. \A k \in Keys : Context!FirstValue(k) \in Values
  BY DEF Context!SourcesFit, Context!FirstValue
<1>2. Context!Nothing \in Said
  BY DEF Context!Nothing, Said
<1>3. Context!TypeOK
  BY <1>1, <1>2 DEF Context!Init, Context!TypeOK, Context!Loads, Said
<1>4. TextIsPart /\ Context!SnapshotWasTold /\ Context!PromptCatchesUp
  BY DEF Context!Init, Context!Nothing, TextIsPart, Context!SnapshotWasTold, Context!PromptCatchesUp
<1> QED
  BY <1>3, <1>4 DEF Context!Init, ContextInv

LEMMA ChangeStep == ASSUME ContextInv, NEW k \in Keys, Context!Change(k) PROVE ContextInv'
<1> USE DEF ContextInv, Context!Change
<1>1. PICK v \in Context!Loads(k) : source' = [source EXCEPT ![k] = v]
  OBVIOUS
<1>2. \A j \in Keys : source'[j] = IF j = k THEN v ELSE source[j]
  BY <1>1
<1>3. source' = [j \in Keys |-> source'[j]]
  BY <1>1
<1>4. \A j \in Keys : source'[j] \in Context!Loads(j)
  BY <1>2 DEF Context!TypeOK
<1>5. Context!TypeOK'
  BY <1>4 DEF Context!TypeOK, Context!Loads
<1> QED
  BY <1>3, <1>5 DEF TextIsPart, Context!SnapshotWasTold, Context!PromptCatchesUp

\* A turn whose prompt does without its context, or that ends before it has one.
LEMMA NoContextStep == ASSUME Context!SourcesFit, ContextInv, Context!BuildBlocked \/ Context!BuildThrows PROVE ContextInv'
<1> USE DEF ContextInv
<1>1. CASE Context!BuildBlocked
  <2>1. Context!Nothing \in Said /\ (\A k \in Keys : Context!Nothing[k] = None) /\ Context!Send(Context!Nothing, "blocked")
    BY <1>1 DEF Context!BuildBlocked, Context!Nothing, Said
  <2>2. prompt' \in Said /\ prompted' \in Said
    BY <2>1, SentTypes
  <2>3. prompted' = prompted
    BY <2>1 DEF Context!Send, Context!TypeOK
  <2>4. outcome' = "blocked" /\ observed' = source /\ UNCHANGED <<source, snapshot, context, initialized>>
    BY <1>1, <2>1 DEF Context!BuildBlocked, Context!Send
  <2>5. Context!TypeOK'
    BY <2>2, <2>4 DEF Context!TypeOK, Said, Context!Loads
  <2> QED
    BY <2>3, <2>4, <2>5 DEF TextIsPart, Context!SnapshotWasTold, Context!PromptCatchesUp
<1>2. CASE Context!BuildThrows
  BY <1>2 DEF Context!BuildThrows, Context!TypeOK, Context!Loads, TextIsPart, Context!SnapshotWasTold, Context!PromptCatchesUp
<1> QED
  BY <1>1, <1>2

LEMMA BaselineStep == ASSUME Context!SourcesFit, ContextInv, Context!BuildBaseline PROVE ContextInv'
<1> USE DEF ContextInv
<1>1. \A k \in Keys : source[k] \in Values /\ source[k] # None
  BY LoadedIsSomething DEF Context!BuildBaseline, Context!Available, Context!RendersEmpty, Context!TypeOK
<1>2. source \in Said /\ Context!Send(source, "baseline")
  BY <1>1 DEF Said, Context!BuildBaseline
<1>3. prompt' \in Said /\ prompted' \in Said
  BY <1>2, SentTypes
<1>4. prompted' = source
  BY <1>1, <1>2 DEF Context!Send
<1>5. /\ outcome' = "baseline" /\ observed' = source /\ source' = source
      /\ snapshot' = source /\ context' = source /\ initialized' = TRUE
  BY <1>2 DEF Context!BuildBaseline, Context!Send
<1>6. Context!TypeOK'
  BY <1>2, <1>3, <1>5 DEF Context!TypeOK, Said, Context!Loads
<1> QED
  BY <1>4, <1>5, <1>6 DEF TextIsPart, Context!SnapshotWasTold, Context!PromptCatchesUp

LEMMA UnchangedStep == ASSUME Context!SourcesFit, ContextInv, Context!BuildUnchanged PROVE ContextInv'
<1> USE DEF ContextInv
<1>1. context \in Said /\ Context!Send(context, "unchanged")
  BY DEF Context!TypeOK, Said, Context!BuildUnchanged
<1>2. prompt' \in Said /\ prompted' \in Said
  BY <1>1, SentTypes
<1>3. prompted' = prompted
  <2>1. \A k \in Keys : context[k] # None => context[k] = prompted[k]
    BY DEF TextIsPart, Context!SnapshotWasTold
  <2> QED
    BY <1>1, <2>1 DEF Context!Send, Context!TypeOK
<1>4. outcome' = "unchanged" /\ observed' = source /\ UNCHANGED <<source, snapshot, context, initialized>>
  BY <1>1 DEF Context!BuildUnchanged, Context!Send
<1>5. \A k \in Keys : source[k] # Unavailable => snapshot[k] = source[k]
  BY DEF Context!BuildUnchanged, Context!ToRender, Context!Available
<1>6. Context!TypeOK'
  BY <1>2, <1>4 DEF Context!TypeOK, Said, Context!Loads
<1> QED
  BY <1>3, <1>4, <1>5, <1>6 DEF TextIsPart, Context!SnapshotWasTold, Context!PromptCatchesUp

LEMMA UpdatedStep == ASSUME Context!SourcesFit, ContextInv, Context!BuildUpdated PROVE ContextInv'
<1> USE DEF ContextInv
<1>1. \A k \in Context!ToRender : source[k] \in Values /\ source[k] # None
  BY LoadedIsSomething DEF Context!BuildUpdated, Context!ToRender, Context!Available, Context!RendersEmpty, Context!TypeOK
<1>2. \A k \in Keys : Context!Says(Context!ToRender)[k] = IF k \in Context!ToRender THEN source[k] ELSE None
  BY DEF Context!Says
<1>3. \A k \in Keys : Context!Reconciled[k] = IF k \in Context!ToRender THEN source[k] ELSE snapshot[k]
  BY DEF Context!Reconciled, Context!ToRender, Context!Available
<1>4. Context!Says(Context!ToRender) \in Said
  BY <1>1 DEF Context!Says, Said
<1>5. Context!Reconciled \in Said
  <2>1. \A k \in Keys : Context!Reconciled[k] \in Values \cup {None}
    BY <1>1, <1>3 DEF Context!TypeOK
  <2> QED
    BY <2>1 DEF Context!Reconciled, Said
<1>6. /\ snapshot' = Context!Reconciled /\ context' = Context!Says(Context!ToRender) /\ UNCHANGED <<source, initialized>>
      /\ Context!Send(Context!Says(Context!ToRender), "updated")
  BY DEF Context!BuildUpdated
<1>7. prompt' \in Said /\ prompted' \in Said
  BY <1>4, <1>6, SentTypes
<1>8. outcome' = "updated" /\ observed' = source
  BY <1>6 DEF Context!Send
<1>9. prompted' = Context!Reconciled
  <2>1. \A k \in Keys : prompted'[k] = IF Context!Says(Context!ToRender)[k] # None THEN Context!Says(Context!ToRender)[k] ELSE prompted[k]
    BY <1>6 DEF Context!Send
  <2>2. \A k \in Keys : prompted'[k] = Context!Reconciled[k]
    BY <1>1, <1>2, <1>3, <2>1 DEF Context!SnapshotWasTold
  <2> QED
    BY <1>5, <1>7, <2>2 DEF Said
<1>10. Context!TypeOK'
  BY <1>4, <1>5, <1>6, <1>7, <1>8 DEF Context!TypeOK, Said, Context!Loads
<1>11. TextIsPart'
  BY <1>2, <1>3, <1>6 DEF TextIsPart
<1>12. Context!PromptCatchesUp'
  <2>1. \A k \in Keys : source[k] # Unavailable => Context!Reconciled[k] = source[k]
    BY DEF Context!Reconciled, Context!Available
  <2> QED
    BY <1>8, <1>9, <2>1 DEF Context!PromptCatchesUp
<1> QED
  BY <1>6, <1>9, <1>10, <1>11, <1>12 DEF Context!SnapshotWasTold

LEMMA ContextInvariant == ASSUME Context!SourcesFit PROVE Context!Spec => []ContextInv
<1>1. Context!Init => ContextInv
  BY ContextInit
<1>2. ContextInv /\ [Context!Next]_Context!contextVars => ContextInv'
  <2> SUFFICES ASSUME ContextInv, [Context!Next]_Context!contextVars PROVE ContextInv'
    OBVIOUS
  <2>1. CASE UNCHANGED Context!contextVars
    BY <2>1 DEF Context!contextVars, ContextInv, Context!TypeOK, Context!Loads, TextIsPart, Context!SnapshotWasTold, Context!PromptCatchesUp
  <2> QED
    BY <2>1, ChangeStep, NoContextStep, BaselineStep, UnchangedStep, UpdatedStep DEF Context!Next
<1> QED
  BY <1>1, <1>2, PTL DEF Context!Spec

-----------------------------------------------------------------------------
\* The tables of the context keep their shape; nothing that could not be observed,
\* and no empty text, gets into the snapshot or into a prompt.
THEOREM ContextTypes == ASSUME Context!SourcesFit PROVE Context!Spec => []Context!TypeOK
<1>1. ContextInv => Context!TypeOK
  BY DEF ContextInv
<1> QED
  BY <1>1, ContextInvariant, PTL

\* What an Agent believes its model was told is what it was told last, and each
\* prompt that is built catches up with the world (systemcontext.h 306-374,
\* agent.cpp 158-201).
THEOREM ContextStays == ASSUME Context!SourcesFit PROVE Context!Spec => []Context!ContextInStep
<1>1. ContextInv => Context!ContextInStep
  BY DEF ContextInv, Context!ContextInStep
<1> QED
  BY <1>1, ContextInvariant, PTL

-----------------------------------------------------------------------------
(* The file tools.  For a call of edit between its second look and its write, *)
(* the observation `touched' tells whether the file is still what it has read. *)

EditFields ==
    {"pc", "tool", "path", "paths", "base", "text", "touched", "linked", "before", "alone"}

Reported(c) ==
    c.pc = "idle" /\ (c.report.tool = "edit" => c.report.before = c.report.base)

Editing(c, d) ==
    /\ c.pc \in {"computed", "rechecked"} /\ c.tool = "edit" /\ DOMAIN c = EditFields
    /\ c.path \in Paths /\ c.path \in c.paths /\ c.touched \in BOOLEAN
    /\ c.pc = "rechecked" /\ ~c.touched => d[c.path] = c.base

Writing(c) ==
    /\ c.pc = "opened" /\ c.tool \in {"edit", "write", "apply_patch"} /\ {"pc", "tool"} \subseteq DOMAIN c
    /\ c.tool = "edit" => DOMAIN c = EditFields /\ (c.alone => c.before = c.base)

Patching(c) ==
    c.pc \in {"verify", "apply"} /\ c.tool = "apply_patch" /\ {"pc", "tool"} \subseteq DOMAIN c

Fits(c, d) == Reported(c) \/ Editing(c, d) \/ Writing(c) \/ Patching(c)

FilesInv ==
    /\ disk = [p \in Paths |-> disk[p]] /\ call = [a \in Agents |-> call[a]]
    /\ \A a \in Agents : Fits(call[a], disk)

\* A call that learns it is not alone claims nothing about the disk any more.
Touched(c, linked) == [c EXCEPT !.touched = TRUE, !.linked = linked]

LEMMA TouchedFits ==
    ASSUME NEW c, NEW d, NEW e, NEW linked, Fits(c, d), c.pc # "idle"
    PROVE  Fits(Touched(c, linked), e)
<1> DEFINE t == Touched(c, linked)
<1>1. /\ DOMAIN t = DOMAIN c
      /\ \A f \in DOMAIN c : f \notin {"touched", "linked"} => t[f] = c[f]
      /\ "touched" \in DOMAIN c => t["touched"] = TRUE
  BY DEF Touched
<1>2. Editing(c, d) \/ Writing(c) \/ Patching(c)
  BY DEF Fits, Reported
<1> HIDE DEF t
<1>3. ASSUME Editing(c, d) PROVE Editing(t, e)
  BY <1>1, <1>3 DEF Editing, EditFields
<1>4. ASSUME Writing(c) PROVE Writing(t)
  BY <1>1, <1>4 DEF Writing, EditFields
<1>5. ASSUME Patching(c) PROVE Patching(t)
  BY <1>1, <1>5 DEF Patching
<1> QED
  BY <1>2, <1>3, <1>4, <1>5 DEF Fits, t

\* An access to the disk, by an Agent or by somebody else.
LEMMA PutKeeps ==
    ASSUME Files!NamesFit, FilesInv, NEW a \in Agents \cup {"nobody"}, NEW p, NEW content, NEW next,
           Files!Put(a, p, content, next),
           a \in Agents => Fits(next, disk')
    PROVE  FilesInv'
<1>1. /\ disk' = [disk EXCEPT ![p] = content]
      /\ call' = [b \in Agents |->
            IF b = a THEN next
            ELSE IF call[b].pc = "idle" \/ p \notin call[b].paths THEN call[b]
            ELSE [call[b] EXCEPT !.touched = TRUE,
                                 !.linked = IF content = Absent /\ call[b].pc = "opened" /\ call[b].path = p
                                              THEN FALSE ELSE @]]
  BY DEF Files!Put
<1>2. disk' = [q \in Paths |-> disk'[q]] /\ call' = [b \in Agents |-> call'[b]]
  BY <1>1 DEF FilesInv
<1>3. \A q \in Paths : q # p => disk'[q] = disk[q]
  BY <1>1 DEF FilesInv
<1>4. ASSUME NEW b \in Agents PROVE Fits(call'[b], disk')
  <2>1. CASE b = a
    BY <1>1, <2>1
  <2>2. CASE b # a /\ (call[b].pc = "idle" \/ p \notin call[b].paths)
    <3>1. call'[b] = call[b] /\ Fits(call[b], disk)
      BY <1>1, <2>2 DEF FilesInv
    <3>2. CASE Editing(call[b], disk)
      BY <1>3, <2>2, <3>1, <3>2 DEF Fits, Editing
    <3> QED
      BY <3>1, <3>2 DEF Fits
  <2>3. CASE b # a /\ ~(call[b].pc = "idle" \/ p \notin call[b].paths)
    <3>1. PICK v : call'[b] = Touched(call[b], v)
      BY <1>1, <2>3 DEF Touched
    <3>2. Fits(call[b], disk) /\ call[b].pc # "idle"
      BY <2>3 DEF FilesInv
    <3> QED
      BY <3>1, <3>2, TouchedFits
  <2> QED
    BY <2>1, <2>2, <2>3
<1> QED
  BY <1>2, <1>4 DEF FilesInv

\* A step of a call that leaves the disk alone.
LEMMA StepKeeps ==
    ASSUME FilesInv, NEW a \in Agents, NEW next, Files!Step(a, next), Fits(next, disk)
    PROVE  FilesInv'
<1>1. disk' = disk /\ call' = [call EXCEPT ![a] = next]
  BY DEF Files!Step
<1>2. call' = [b \in Agents |-> call'[b]] /\ \A b \in Agents : call'[b] = IF b = a THEN next ELSE call[b]
  BY <1>1 DEF FilesInv
<1> QED
  BY <1>1, <1>2 DEF FilesInv

LEMMA ReportFits ==
    ASSUME NEW r, NEW d, r.alone => (r.tool = "edit" => r.before = r.base)
    PROVE  Fits(Files!Idle(r), d)
  BY DEF Files!Idle, Files!Interfered, Fits, Reported

LEMMA FilesStart == ASSUME Files!Init PROVE FilesInv
<1>1. Fits(Files!Idle(Files!NoReport), disk)
  BY ReportFits DEF Files!NoReport
<1>2. disk = [p \in Paths |-> disk[p]]
  BY DEF Files!Init
<1>3. call = [a \in Agents |-> call[a]] /\ \A a \in Agents : call[a] = Files!Idle(Files!NoReport)
  BY DEF Files!Init
<1> QED
  BY <1>1, <1>2, <1>3 DEF FilesInv

LEMMA MeddleStep == ASSUME Files!NamesFit, FilesInv, NEW p, Files!Meddle(p) PROVE FilesInv'
<1>1. PICK content : Files!Put("nobody", p, content, <<>>)
  BY DEF Files!Meddle
<1> QED
  BY <1>1, PutKeeps DEF Files!NamesFit

LEMMA EditReadStep == ASSUME FilesInv, NEW a \in Agents, Files!EditRead(a) PROVE FilesInv'
<1> DEFINE Slot(p, words) ==
             [pc |-> "computed", tool |-> "edit", path |-> p, paths |-> {p}, base |-> disk[p],
              text |-> words, touched |-> FALSE, linked |-> TRUE, before |-> Absent, alone |-> FALSE]
<1>1. PICK p \in Paths : \E words : Files!Step(a, Slot(p, words))
  BY DEF Files!EditRead
<1>2. PICK words : Files!Step(a, Slot(p, words))
  BY <1>1
<1>3. Fits(Slot(p, words), disk)
  BY DEF Fits, Editing, EditFields
<1> HIDE DEF Slot
<1> QED
  BY <1>2, <1>3, StepKeeps

LEMMA EditRecheckStep == ASSUME FilesInv, NEW a \in Agents, Files!EditRecheck(a) PROVE FilesInv'
<1> DEFINE c == call[a]
           next == [c EXCEPT !.pc = "rechecked", !.touched = FALSE]
<1>1. c.pc = "computed" /\ Fits(c, disk)
  BY DEF Files!EditRecheck, FilesInv
<1>2. Editing(c, disk)
  BY <1>1 DEF Fits, Reported, Writing, Patching
<1>3. CASE disk[c.path] = c.base
  <2>1. Files!Step(a, next)
    BY <1>3 DEF Files!EditRecheck
  <2>2. /\ DOMAIN next = DOMAIN c /\ next.pc = "rechecked" /\ next.touched = FALSE
        /\ next.tool = c.tool /\ next.path = c.path /\ next.paths = c.paths /\ next.base = c.base
    BY <1>2 DEF Editing, EditFields
  <2> HIDE DEF next
  <2>3. Fits(next, disk)
    BY <1>2, <1>3, <2>2 DEF Fits, Editing
  <2> QED
    BY <2>1, <2>3, StepKeeps
<1>4. CASE disk[c.path] # c.base
  <2>1. Files!Step(a, Files!Idle(Files!NoReport))
    BY <1>4 DEF Files!EditRecheck
  <2>2. Fits(Files!Idle(Files!NoReport), disk)
    BY ReportFits DEF Files!NoReport
  <2> QED
    BY <2>1, <2>2, StepKeeps
<1> QED
  BY <1>3, <1>4

LEMMA EditOpenStep ==
    ASSUME Files!NamesFit, FilesInv, NEW a \in Agents, Files!EditOpen(a) PROVE FilesInv'
<1> DEFINE c == call[a]
           next == [c EXCEPT !.pc = "opened", !.before = disk[c.path], !.alone = ~c.touched]
<1>1. c.pc = "rechecked" /\ Fits(c, disk)
  BY DEF Files!EditOpen, FilesInv
<1>2. Editing(c, disk)
  BY <1>1 DEF Fits, Reported, Writing, Patching
<1>3. CASE Files!Put(a, c.path, <<>>, next)
  <2>1. /\ DOMAIN next = DOMAIN c /\ next.pc = "opened" /\ next.tool = c.tool
        /\ next.before = disk[c.path] /\ next.alone = ~c.touched /\ next.base = c.base
    BY <1>2 DEF Editing, EditFields
  <2> HIDE DEF next
  <2>2. next.alone => next.before = next.base
    BY <1>1, <1>2, <2>1 DEF Editing
  <2>3. Fits(next, disk')
    BY <1>2, <2>1, <2>2 DEF Fits, Editing, Writing, EditFields
  <2> QED
    BY <1>3, <2>3, PutKeeps
<1>4. CASE Files!Step(a, Files!Idle(Files!NoReport))
  <2>1. Fits(Files!Idle(Files!NoReport), disk)
    BY ReportFits DEF Files!NoReport
  <2> QED
    BY <1>4, <2>1, StepKeeps
<1> QED
  BY <1>3, <1>4 DEF Files!EditOpen

LEMMA WriteOpenStep ==
    ASSUME Files!NamesFit, FilesInv, NEW a \in Agents, Files!WriteOpen(a) PROVE FilesInv'
<1>1. PICK p, t : Files!Put(a, p, <<>>, [pc |-> "opened", tool |-> "write", path |-> p, paths |-> {p},
                                         text |-> t, touched |-> FALSE, linked |-> TRUE])
  BY DEF Files!WriteOpen
<1> DEFINE next == [pc |-> "opened", tool |-> "write", path |-> p, paths |-> {p},
                    text |-> t, touched |-> FALSE, linked |-> TRUE]
<1>2. Fits(next, disk')
  BY DEF Fits, Writing
<1> HIDE DEF next
<1> QED
  BY <1>1, <1>2, PutKeeps DEF next

LEMMA WriteTextStep ==
    ASSUME Files!NamesFit, FilesInv, NEW a \in Agents, Files!WriteText(a) PROVE FilesInv'
<1> DEFINE c == call[a]
           next == CASE c.tool = "apply_patch" -> [c EXCEPT !.pc = "apply", !.applied = @ + 1, !.text = <<>>]
                     [] c.tool = "edit" -> Files!Idle([tool |-> "edit", base |-> c.base,
                                                       before |-> c.before, alone |-> c.alone])
                     [] c.tool = "write" -> Files!Idle(Files!NoReport)
<1>1. /\ c.pc = "opened" /\ Fits(c, disk)
      /\ Files!Step(a, next) \/ \E over : Files!Put(a, c.path, over, next)
  BY DEF Files!WriteText, FilesInv
<1>2. Writing(c)
  BY <1>1 DEF Fits, Reported, Editing, Patching
<1>3. ASSUME NEW d PROVE Fits(next, d)
  <2>1. CASE c.tool = "apply_patch"
    <3> DEFINE on == [c EXCEPT !.pc = "apply", !.applied = @ + 1, !.text = <<>>]
    <3>1. next = on
      BY <2>1
    <3>2. on.pc = "apply" /\ on.tool = "apply_patch" /\ DOMAIN on = DOMAIN c
      BY <1>2, <2>1 DEF Writing
    <3> HIDE DEF on
    <3> QED
      BY <1>2, <3>1, <3>2 DEF Fits, Patching, Writing
  <2>2. CASE c.tool = "edit"
    <3> DEFINE r == [tool |-> "edit", base |-> c.base, before |-> c.before, alone |-> c.alone]
    <3>1. next = Files!Idle(r)
      BY <2>2
    <3>2. r.alone => r.before = r.base
      BY <1>2, <2>2 DEF Writing
    <3> HIDE DEF r
    <3> QED
      BY <3>1, <3>2, ReportFits
  <2>3. CASE c.tool = "write"
    <3>1. next = Files!Idle(Files!NoReport)
      BY <2>3
    <3>2. Fits(Files!Idle(Files!NoReport), d)
      BY ReportFits DEF Files!NoReport
    <3> HIDE DEF next
    <3> QED
      BY <3>1, <3>2
  <2> QED
    BY <1>2, <2>1, <2>2, <2>3 DEF Writing
<1> HIDE DEF next
<1> QED
  BY <1>1, <1>3, StepKeeps, PutKeeps

LEMMA PatchReportFits == ASSUME NEW c, NEW word, NEW d PROVE Fits(Files!Idle(Files!PatchReport(c, word)), d)
  BY ReportFits DEF Files!PatchReport

LEMMA PatchParseStep == ASSUME FilesInv, NEW a \in Agents, Files!PatchParse(a) PROVE FilesInv'
<1>1. PICK next : /\ Files!Step(a, next)
                  /\ next.pc = "verify" /\ next.tool = "apply_patch" /\ {"pc", "tool"} \subseteq DOMAIN next
  BY DEF Files!PatchParse
<1>2. Fits(next, disk)
  BY <1>1 DEF Fits, Patching
<1> QED
  BY <1>1, <1>2, StepKeeps

LEMMA PatchVerifyStep == ASSUME FilesInv, NEW a \in Agents, Files!PatchVerify(a) PROVE FilesInv'
<1> DEFINE c == call[a]
<1>1. c.pc = "verify" /\ Fits(c, disk)
  BY DEF Files!PatchVerify, FilesInv
<1>2. Patching(c)
  BY <1>1 DEF Fits, Reported, Editing, Writing
<1>3. CASE Files!Step(a, Files!Idle(Files!PatchReport(c, "rejected")))
  BY <1>3, PatchReportFits, StepKeeps
<1>4. ASSUME NEW t, NEW u, NEW v, NEW w,
             Files!Step(a, [c EXCEPT !.todo = t, !.content = u, !.deleted = v, !.prepared = w])
      PROVE  FilesInv'
  <2> DEFINE next == [c EXCEPT !.todo = t, !.content = u, !.deleted = v, !.prepared = w]
  <2>1. next.pc = c.pc /\ next.tool = c.tool /\ DOMAIN next = DOMAIN c
    BY <1>2 DEF Patching
  <2> HIDE DEF next
  <2>2. Fits(next, disk)
    BY <1>2, <2>1 DEF Fits, Patching
  <2> QED
    BY <1>4, <2>2, StepKeeps DEF next
<1> QED
  BY <1>3, <1>4 DEF Files!PatchVerify

LEMMA PatchVerifiedStep == ASSUME FilesInv, NEW a \in Agents, Files!PatchVerified(a) PROVE FilesInv'
<1> DEFINE c == call[a]
           next == [c EXCEPT !.pc = "apply"]
<1>1. c.pc = "verify" /\ Fits(c, disk) /\ Files!Step(a, next)
  BY DEF Files!PatchVerified, FilesInv
<1>2. Patching(c)
  BY <1>1 DEF Fits, Reported, Editing, Writing
<1>3. next.pc = "apply" /\ next.tool = c.tool /\ DOMAIN next = DOMAIN c
  BY <1>2 DEF Patching
<1> HIDE DEF next
<1>4. Fits(next, disk)
  BY <1>2, <1>3 DEF Fits, Patching
<1> QED
  BY <1>1, <1>4, StepKeeps

LEMMA PatchApplyStep ==
    ASSUME Files!NamesFit, FilesInv, NEW a \in Agents, Files!PatchApply(a) PROVE FilesInv'
<1> DEFINE c == call[a]
           op == Head(c.prepared)
           later == [c EXCEPT !.prepared = Tail(@), !.path = op.path]
<1>1. c.pc = "apply" /\ Fits(c, disk)
  BY DEF Files!PatchApply, FilesInv
<1>2. Patching(c)
  BY <1>1 DEF Fits, Reported, Editing, Writing
<1>3. later.pc = c.pc /\ later.tool = c.tool /\ DOMAIN later = DOMAIN c
  BY <1>2 DEF Patching
<1>4. \/ Files!Put(a, op.path, Absent, [later EXCEPT !.applied = @ + 1])
      \/ Files!Put(a, op.path, <<>>, [later EXCEPT !.pc = "opened", !.linked = TRUE, !.text = op.text])
      \/ Files!Step(a, Files!Idle(Files!PatchReport(c, "partial")))
  BY DEF Files!PatchApply
<1> HIDE DEF later
<1>5. CASE Files!Put(a, op.path, Absent, [later EXCEPT !.applied = @ + 1])
  <2> DEFINE next == [later EXCEPT !.applied = @ + 1]
  <2>1. next.pc = c.pc /\ next.tool = c.tool /\ DOMAIN next = DOMAIN c
    BY <1>2, <1>3 DEF Patching
  <2> HIDE DEF next
  <2>2. Fits(next, disk')
    BY <1>2, <2>1 DEF Fits, Patching
  <2> QED
    BY <1>5, <2>2, PutKeeps DEF next
<1>6. CASE Files!Put(a, op.path, <<>>, [later EXCEPT !.pc = "opened", !.linked = TRUE, !.text = op.text])
  <2> DEFINE next == [later EXCEPT !.pc = "opened", !.linked = TRUE, !.text = op.text]
  <2>1. next.pc = "opened" /\ next.tool = c.tool /\ DOMAIN next = DOMAIN c
    BY <1>2, <1>3 DEF Patching
  <2> HIDE DEF next
  <2>2. Fits(next, disk')
    BY <1>2, <2>1 DEF Fits, Patching, Writing
  <2> QED
    BY <1>6, <2>2, PutKeeps DEF next
<1>7. CASE Files!Step(a, Files!Idle(Files!PatchReport(c, "partial")))
  BY <1>7, PatchReportFits, StepKeeps
<1> QED
  BY <1>4, <1>5, <1>6, <1>7

LEMMA PatchDoneStep == ASSUME FilesInv, NEW a \in Agents, Files!PatchDone(a) PROVE FilesInv'
<1>1. Files!Step(a, Files!Idle(Files!PatchReport(call[a], "applied")))
  BY DEF Files!PatchDone
<1> QED
  BY <1>1, PatchReportFits, StepKeeps

LEMMA FilesInvariant == ASSUME Files!NamesFit PROVE Files!Spec => []FilesInv
<1>1. Files!Init => FilesInv
  BY FilesStart
<1>2. FilesInv /\ [Files!Next]_Files!fileVars => FilesInv'
  <2> SUFFICES ASSUME FilesInv, [Files!Next]_Files!fileVars PROVE FilesInv'
    OBVIOUS
  <2>1. CASE UNCHANGED Files!fileVars
    BY <2>1 DEF Files!fileVars, FilesInv
  <2>2. ASSUME NEW a \in Agents,
               \/ Files!EditRead(a) \/ Files!EditRecheck(a) \/ Files!EditOpen(a)
               \/ Files!WriteOpen(a) \/ Files!WriteText(a)
        PROVE  FilesInv'
    BY <2>2, EditReadStep, EditRecheckStep, EditOpenStep, WriteOpenStep, WriteTextStep
  <2>3. ASSUME NEW a \in Agents,
               \/ Files!PatchParse(a) \/ Files!PatchVerify(a) \/ Files!PatchVerified(a)
               \/ Files!PatchApply(a) \/ Files!PatchDone(a)
        PROVE  FilesInv'
    BY <2>3, PatchParseStep, PatchVerifyStep, PatchVerifiedStep, PatchApplyStep, PatchDoneStep
  <2> QED
    BY <2>1, <2>2, <2>3, MeddleStep DEF Files!Next
<1> QED
  BY <1>1, <1>2, PTL DEF Files!Spec

\* edit replaces the text it has read, or one that came between its second look and
\* its write: what others do while it computes is never lost (edit.h 107-112).
THEOREM EditsSeeNewest == ASSUME Files!NamesFit PROVE Files!Spec => []Files!EditSeesNewest
<1>1. FilesInv => Files!EditSeesNewest
  BY DEF FilesInv, Files!EditSeesNewest, Fits, Reported, Editing, Writing, Patching
<1> QED
  BY <1>1, FilesInvariant, PTL

-----------------------------------------------------------------------------
(* A patch, as long as nobody interferes: the sections it has verified would  *)
(* go through one after the other, what it keeps of the files is what they    *)
(* make of them, and the disk has as many of them as it has counted.          *)

\* What one more section makes of the files.
OneMore(files, hunk) ==
    LET made == Files!Prepare(hunk, files[hunk.path])
    IN  IF made.ok THEN [files EXCEPT ![hunk.path] = made.text] ELSE files

AfterStep(f, start, hunks, k) == IF k = 0 THEN start ELSE OneMore(f[k - 1], hunks[k])

IsAfter(f, start, hunks, n) == f = [k \in 0 .. n |-> AfterStep(f, start, hunks, k)]

LEMMA AfterExists ==
    ASSUME NEW start, NEW hunks, NEW n \in Nat
    PROVE  \E f : IsAfter(f, start, hunks, n)
<1> DEFINE T == {m \in Nat : \E f : IsAfter(f, start, hunks, m)}
<1>1. 0 \in T
  <2> DEFINE f == [k \in 0 .. 0 |-> start]
  <2>1. f = [k \in 0 .. 0 |-> AfterStep(f, start, hunks, k)]
    BY DEF AfterStep
  <2> QED
    BY <2>1 DEF IsAfter
<1>2. ASSUME NEW m \in Nat, m \in T PROVE m + 1 \in T
  <2>1. PICK f : f = [k \in 0 .. m |-> AfterStep(f, start, hunks, k)]
    BY <1>2 DEF IsAfter
  <2> DEFINE next == OneMore(f[m], hunks[m + 1])
             g == [k \in 0 .. m + 1 |-> IF k = m + 1 THEN next ELSE f[k]]
  <2> HIDE DEF next
  <2>2. \A k \in 0 .. m : f[k] = AfterStep(f, start, hunks, k)
    BY <2>1
  <2>3. \A k \in 0 .. m : g[k] = f[k]
    OBVIOUS
  <2>4. ASSUME NEW k \in 0 .. m + 1 PROVE g[k] = AfterStep(g, start, hunks, k)
    <3>1. CASE k = m + 1
      <4>1. g[k] = next /\ k # 0 /\ k - 1 = m /\ g[m] = f[m]
        BY <2>3, <3>1
      <4> HIDE DEF g
      <4> QED
        BY <3>1, <4>1 DEF AfterStep, next
    <3>2. CASE k # m + 1
      <4>1. k \in 0 .. m /\ (k # 0 => k - 1 \in 0 .. m)
        BY <3>2
      <4> HIDE DEF g
      <4> QED
        BY <2>2, <2>3, <4>1 DEF AfterStep
    <3> QED
      BY <3>1, <3>2
  <2>5. g = [k \in 0 .. m + 1 |-> g[k]]
    OBVIOUS
  <2> HIDE DEF g
  <2>6. g = [k \in 0 .. m + 1 |-> AfterStep(g, start, hunks, k)]
    BY <2>4, <2>5
  <2> QED
    BY <2>6 DEF IsAfter
<1> HIDE DEF T
<1>3. n \in T
  BY <1>1, <1>2, SetInduction
<1> QED
  BY <1>3 DEF T

\* The recursion is what it looks like.
LEMMA AfterIs ==
    ASSUME NEW start, NEW hunks, NEW n \in Nat
    PROVE  /\ Files!AfterSections(start, hunks, 0) = start
           /\ Files!AfterSections(start, hunks, n + 1)
                = OneMore(Files!AfterSections(start, hunks, n), hunks[n + 1])
<1> DEFINE F(m) == CHOOSE f : IsAfter(f, start, hunks, m)
<1>1. ASSUME NEW m \in Nat PROVE IsAfter(F(m), start, hunks, m)
  BY <1>1, AfterExists
<1>2. ASSUME NEW m PROVE Files!AfterSections(start, hunks, m) = F(m)[m]
  BY DEF Files!AfterSections, IsAfter, AfterStep, OneMore
<1>3. ASSUME NEW m \in Nat, NEW k \in 0 .. m PROVE F(m)[k] = AfterStep(F(m), start, hunks, k)
  <2>1. F(m) = [j \in 0 .. m |-> AfterStep(F(m), start, hunks, j)]
    BY <1>1 DEF IsAfter
  <2> HIDE DEF F
  <2> QED
    BY <2>1
<1> HIDE DEF F
<1>4. F(n)[n] = F(n + 1)[n]
  <2> DEFINE T == {k \in Nat : k <= n => F(n)[k] = F(n + 1)[k]}
  <2>1. 0 \in T
    BY <1>3 DEF AfterStep
  <2>2. ASSUME NEW k \in Nat, k \in T PROVE k + 1 \in T
    <3>1. CASE k + 1 <= n
      <4>1. F(n)[k] = F(n + 1)[k] /\ k + 1 \in 0 .. n /\ k + 1 \in 0 .. n + 1 /\ n + 1 \in Nat
        BY <2>2, <3>1
      <4>2. F(n)[k + 1] = AfterStep(F(n), start, hunks, k + 1)
        BY <1>3, <4>1
      <4>3. F(n + 1)[k + 1] = AfterStep(F(n + 1), start, hunks, k + 1)
        BY <1>3, <4>1
      <4>4. k + 1 # 0 /\ (k + 1) - 1 = k
        OBVIOUS
      <4>5. F(n)[k + 1] = F(n + 1)[k + 1]
        BY <4>1, <4>2, <4>3, <4>4 DEF AfterStep
      <4> QED
        BY <4>5
    <3> QED
      BY <3>1
  <2> HIDE DEF T
  <2>3. n \in T
    BY <2>1, <2>2, SetInduction
  <2> QED
    BY <2>3 DEF T
<1>5. F(0)[0] = start
  BY <1>3 DEF AfterStep
<1>6. F(n + 1)[n + 1] = OneMore(F(n + 1)[n], hunks[n + 1])
  <2>1. F(n + 1)[n + 1] = AfterStep(F(n + 1), start, hunks, n + 1)
    BY <1>3
  <2> QED
    BY <2>1 DEF AfterStep
<1> QED
  BY <1>2, <1>4, <1>5, <1>6

IsSeq(s) == \E S : s \in Seq(S)

PatchFields ==
    {"pc", "tool", "path", "paths", "start", "hunks", "todo", "content", "deleted", "prepared",
     "text", "applied", "touched", "linked"}

\* The files after n sections of a call's patch.
After(c, n) == Files!AfterSections(c.start, c.hunks, n)

\* Section k would go through in its turn.
Goes(c, k) == Files!Prepare(c.hunks[k], After(c, k - 1)[c.hunks[k].path]).ok

\* What a call believes a file is, on the disk d.
Believes(c, d, p) ==
    IF p \in DOMAIN c.content THEN c.content[p]
    ELSE IF p \in c.deleted THEN Absent ELSE d[p]

PatchCall(c) ==
    /\ DOMAIN c = PatchFields /\ c.tool = "apply_patch" /\ c.touched \in BOOLEAN
    /\ IsSeq(c.hunks) /\ Len(c.hunks) \in Nat
    /\ \A k \in 1 .. Len(c.hunks) : c.hunks[k].path \in Paths /\ c.hunks[k].path \in c.paths
    /\ c.paths \subseteq Paths
    /\ c.start = [p \in Paths |-> c.start[p]]

\* What is prepared is what sections n+1 and the following make of their files.
Prepared(c, n) ==
    /\ IsSeq(c.prepared)
    /\ \A i \in 1 .. Len(c.prepared) :
          /\ c.prepared[i].path = c.hunks[n + i].path
          /\ c.prepared[i].text = After(c, n + i)[c.hunks[n + i].path]

Verifying(c, d) ==
    LET n == Len(c.prepared)
    IN  /\ c.pc = "verify" /\ c.applied = 0
        /\ Prepared(c, 0) /\ n <= Len(c.hunks)
        /\ IsSeq(c.todo) /\ Len(c.todo) = Len(c.hunks) - n
        /\ \A i \in 1 .. Len(c.todo) : c.todo[i] = c.hunks[n + i]
        /\ \A k \in 1 .. n : Goes(c, k)
        /\ \A p \in c.paths : d[p] = c.start[p] /\ Believes(c, d, p) = After(c, n)[p]

Applying(c, d) ==
    /\ c.pc = "apply" /\ c.applied \in 0 .. Len(c.hunks)
    /\ Prepared(c, c.applied) /\ Len(c.prepared) = Len(c.hunks) - c.applied
    /\ \A k \in 1 .. Len(c.hunks) : Goes(c, k)
    /\ \A p \in c.paths : d[p] = After(c, c.applied)[p]

Opened(c, d) ==
    /\ c.pc = "opened" /\ c.linked = TRUE /\ c.applied \in 0 .. Len(c.hunks) - 1
    /\ Prepared(c, c.applied + 1) /\ Len(c.prepared) = Len(c.hunks) - (c.applied + 1)
    /\ \A k \in 1 .. Len(c.hunks) : Goes(c, k)
    /\ c.path = c.hunks[c.applied + 1].path /\ c.text = After(c, c.applied + 1)[c.path]
    /\ \A p \in c.paths : d[p] = IF p = c.path THEN <<>> ELSE After(c, c.applied)[p]

AtWork(c, d) ==
    /\ PatchCall(c) /\ c.pc \in {"verify", "apply", "opened"}
    /\ ~c.touched => Verifying(c, d) \/ Applying(c, d) \/ Opened(c, d)

\* The report of a patch nobody has interfered with.
IsSections(r) ==
    /\ (r.how = "rejected") = ~Files!Applicable(r.start, r.hunks)
    /\ \A p \in Files!PathsOf(r.hunks) : r.end[p] = Files!AfterSections(r.start, r.hunks, r.applied)[p]
    /\ r.how = "applied" => r.applied = Len(r.hunks)

PatchOver(c) == c.pc = "idle" /\ (c.report.tool = "apply_patch" => IsSections(c.report))

\* A call of the other tools.
OneFile(c) ==
    /\ c.pc \in {"computed", "rechecked", "opened"} /\ c.tool \in {"edit", "write"}
    /\ {"pc", "tool"} \subseteq DOMAIN c

PatchFits(c, d) == PatchOver(c) \/ OneFile(c) \/ AtWork(c, d)

PatchInv ==
    /\ disk = [p \in Paths |-> disk[p]] /\ call = [a \in Agents |-> call[a]]
    /\ \A a \in Agents : PatchFits(call[a], disk)

\* Files after so many sections, and after one more that goes through.
LEMMA AfterOne ==
    ASSUME NEW c, PatchCall(c), NEW n \in 0 .. Len(c.hunks) - 1, Goes(c, n + 1),
           After(c, n) = [p \in Paths |-> After(c, n)[p]]
    PROVE  LET made == Files!Prepare(c.hunks[n + 1], After(c, n)[c.hunks[n + 1].path])
           IN  \A p \in Paths : After(c, n + 1)[p] = IF p = c.hunks[n + 1].path THEN made.text ELSE After(c, n)[p]
<1> DEFINE hunk == c.hunks[n + 1]
           made == Files!Prepare(hunk, After(c, n)[hunk.path])
<1>1. n \in Nat /\ (n + 1) - 1 = n
  BY DEF PatchCall
<1>2. After(c, n + 1) = OneMore(After(c, n), hunk)
  BY <1>1, AfterIs DEF After
<1>3. made.ok
  BY <1>1 DEF Goes
<1> HIDE DEF hunk
<1>4. After(c, n + 1) = [After(c, n) EXCEPT ![hunk.path] = made.text]
  BY <1>2, <1>3 DEF OneMore
<1> HIDE DEF made
<1> QED
  BY <1>4 DEF hunk, made

\* They are files of these paths.
LEMMA AfterTyped ==
    ASSUME NEW c, PatchCall(c), NEW n \in Nat
    PROVE  After(c, n) = [p \in Paths |-> After(c, n)[p]]
<1> DEFINE Typed(m) == After(c, m) = [p \in Paths |-> After(c, m)[p]]
           T == {m \in Nat : Typed(m)}
<1>1. 0 \in T
  <2>1. After(c, 0) = c.start
    BY AfterIs DEF After
  <2> QED
    BY <2>1 DEF PatchCall
<1>2. ASSUME NEW m \in Nat, m \in T PROVE m + 1 \in T
  <2>1. After(c, m + 1) = OneMore(After(c, m), c.hunks[m + 1])
    BY AfterIs DEF After
  <2>2. Typed(m)
    BY <1>2
  <2>3. Typed(m + 1)
    BY <2>1, <2>2 DEF OneMore
  <2> QED
    BY <2>3
<1> HIDE DEF T
<1>3. n \in T
  BY <1>1, <1>2, SetInduction
<1> QED
  BY <1>3 DEF T

LEMMA Appended ==
    ASSUME NEW s, IsSeq(s), NEW x
    PROVE  /\ IsSeq(Append(s, x)) /\ Len(s) \in Nat /\ Len(Append(s, x)) = Len(s) + 1
           /\ \A i \in 1 .. Len(s) : Append(s, x)[i] = s[i]
           /\ Append(s, x)[Len(s) + 1] = x
<1>1. PICK S : s \in Seq(S)
  BY DEF IsSeq
<1>2. s \in Seq(S \cup {x}) /\ Append(s, x) \in Seq(S \cup {x})
  BY <1>1
<1> QED
  BY <1>1, <1>2 DEF IsSeq

LEMMA Beheaded ==
    ASSUME NEW s, IsSeq(s)
    PROVE  /\ Len(s) \in Nat /\ (s = <<>> <=> Len(s) = 0)
           /\ s # <<>> => /\ IsSeq(Tail(s)) /\ Len(Tail(s)) = Len(s) - 1 /\ Head(s) = s[1] /\ Len(s) > 0
                          /\ \A i \in 1 .. Len(s) - 1 : Tail(s)[i] = s[i + 1]
<1>1. PICK S : s \in Seq(S)
  BY DEF IsSeq
<1>2. Len(s) \in Nat /\ (s = <<>> <=> Len(s) = 0)
  BY <1>1
<1>3. ASSUME s # <<>> PROVE IsSeq(Tail(s))
  BY <1>1, <1>3 DEF IsSeq
<1>4. ASSUME s # <<>>
      PROVE  Len(Tail(s)) = Len(s) - 1 /\ Head(s) = s[1] /\ \A i \in 1 .. Len(s) - 1 : Tail(s)[i] = s[i + 1]
  BY <1>1, <1>4
<1>5. ASSUME s # <<>> PROVE Len(s) > 0
  BY <1>2, <1>5
<1> QED
  BY <1>2, <1>3, <1>4, <1>5

LEMMA PathsOfCall == ASSUME NEW c, PatchCall(c) PROVE \A p \in Files!PathsOf(c.hunks) : p \in c.paths
<1>1. PICK S : c.hunks \in Seq(S)
  BY DEF PatchCall, IsSeq
<1>2. DOMAIN c.hunks = 1 .. Len(c.hunks)
  BY <1>1
<1> QED
  BY <1>2, Zenon DEF PatchCall, Files!PathsOf

\* A patch every section of which goes through is applicable.
LEMMA AllGo ==
    ASSUME NEW c, PatchCall(c)
    PROVE  Files!Applicable(c.start, c.hunks) <=> \A k \in 1 .. Len(c.hunks) : Goes(c, k)
  BY DEF Files!Applicable, Goes, After

\* A call that learns it is not alone claims nothing about the disk any more.
LEMMA TouchedPatch ==
    ASSUME NEW c, NEW d, NEW e, NEW linked, PatchFits(c, d), c.pc # "idle"
    PROVE  PatchFits(Touched(c, linked), e)
<1> DEFINE t == Touched(c, linked)
<1>1. /\ DOMAIN t = DOMAIN c
      /\ \A f \in DOMAIN c : f \notin {"touched", "linked"} => t[f] = c[f]
      /\ "touched" \in DOMAIN c => t["touched"] = TRUE
  BY DEF Touched
<1> HIDE DEF t
<1>2. CASE OneFile(c)
  BY <1>1, <1>2 DEF PatchFits, OneFile, t
<1>3. CASE AtWork(c, d)
  <2>1. /\ t.tool = c.tool /\ t.hunks = c.hunks /\ t.paths = c.paths /\ t.start = c.start
        /\ t.applied = c.applied /\ t.pc = c.pc /\ t.touched = TRUE /\ DOMAIN t = DOMAIN c
    BY <1>1, <1>3 DEF AtWork, PatchCall, PatchFields
  <2> QED
    BY <1>3, <2>1 DEF AtWork, PatchCall, PatchFits, t
<1> QED
  BY <1>2, <1>3 DEF PatchFits, PatchOver

\* What a call knows is about the paths of its patch.
LEMMA Elsewhere ==
    ASSUME NEW c, NEW d, NEW e, AtWork(c, d), \A p \in c.paths : e[p] = d[p]
    PROVE  AtWork(c, e)
<1>1. Verifying(c, d) => Verifying(c, e)
  BY DEF Verifying, Believes
<1>2. Applying(c, d) => Applying(c, e)
  BY DEF Applying
<1>3. Opened(c, d) => Opened(c, e)
  BY DEF Opened
<1> QED
  BY <1>1, <1>2, <1>3 DEF AtWork

LEMMA PutFits ==
    ASSUME Files!NamesFit, PatchInv, NEW a \in Agents \cup {"nobody"}, NEW p, NEW content, NEW next,
           Files!Put(a, p, content, next),
           a \in Agents => PatchFits(next, disk')
    PROVE  PatchInv'
<1>1. /\ disk' = [disk EXCEPT ![p] = content]
      /\ call' = [b \in Agents |->
            IF b = a THEN next
            ELSE IF call[b].pc = "idle" \/ p \notin call[b].paths THEN call[b]
            ELSE [call[b] EXCEPT !.touched = TRUE,
                                 !.linked = IF content = Absent /\ call[b].pc = "opened" /\ call[b].path = p
                                              THEN FALSE ELSE @]]
  BY DEF Files!Put
<1>2. disk' = [q \in Paths |-> disk'[q]] /\ call' = [b \in Agents |-> call'[b]]
  BY <1>1 DEF PatchInv
<1>3. \A q \in Paths : q # p => disk'[q] = disk[q]
  BY <1>1 DEF PatchInv
<1>4. ASSUME NEW b \in Agents PROVE PatchFits(call'[b], disk')
  <2>1. CASE b = a
    BY <1>1, <2>1
  <2>2. CASE b # a /\ (call[b].pc = "idle" \/ p \notin call[b].paths)
    <3>1. call'[b] = call[b] /\ PatchFits(call[b], disk)
      BY <1>1, <2>2 DEF PatchInv
    <3>2. CASE AtWork(call[b], disk)
      <4>1. \A q \in call[b].paths : disk'[q] = disk[q]
        BY <1>3, <2>2, <3>2 DEF AtWork, PatchCall
      <4> QED
        BY <3>1, <3>2, <4>1, Elsewhere DEF PatchFits
    <3> QED
      BY <3>1, <3>2 DEF PatchFits
  <2>3. CASE b # a /\ ~(call[b].pc = "idle" \/ p \notin call[b].paths)
    <3>1. PICK v : call'[b] = Touched(call[b], v)
      BY <1>1, <2>3 DEF Touched
    <3>2. PatchFits(call[b], disk) /\ call[b].pc # "idle"
      BY <2>3 DEF PatchInv
    <3> QED
      BY <3>1, <3>2, TouchedPatch
  <2> QED
    BY <2>1, <2>2, <2>3
<1> QED
  BY <1>2, <1>4 DEF PatchInv

LEMMA StepFits ==
    ASSUME PatchInv, NEW a \in Agents, NEW next, Files!Step(a, next), PatchFits(next, disk)
    PROVE  PatchInv'
<1>1. disk' = disk /\ call' = [call EXCEPT ![a] = next]
  BY DEF Files!Step
<1>2. call' = [b \in Agents |-> call'[b]] /\ \A b \in Agents : call'[b] = IF b = a THEN next ELSE call[b]
  BY <1>1 DEF PatchInv
<1> QED
  BY <1>1, <1>2 DEF PatchInv

LEMMA OtherReport ==
    ASSUME NEW r, NEW d, r.tool # "apply_patch"
    PROVE  PatchFits(Files!Idle(r), d)
  BY DEF Files!Idle, Files!Interfered, PatchFits, PatchOver

LEMMA PatchReport ==
    ASSUME NEW c, NEW word, NEW d, PatchCall(c), ~c.touched => IsSections(Files!PatchReport(c, word))
    PROVE  PatchFits(Files!Idle(Files!PatchReport(c, word)), d)
<1>1. Files!PatchReport(c, word).alone = ~c.touched
  BY DEF Files!PatchReport
<1> QED
  BY <1>1 DEF Files!Idle, Files!Interfered, PatchFits, PatchOver

\* What ParsePatch has made of the lines so far.
PatchRun(lines) ==
    LET after[i \in 0 .. Len(lines)] ==
            IF i = 0 THEN [ok |-> TRUE, hunks |-> <<>>, section |-> Files!NoSection]
            ELSE Files!ParseLine(after[i - 1], lines[i])
    IN  after[Len(lines)]

LEMMA PatchRuns ==
    \A lines : Files!ParsePatch(lines).hunks = Files!Flush(PatchRun(lines)).hunks
            /\ Files!ParsePatch(lines).ok
                  = (Files!Flush(PatchRun(lines)).ok /\ Files!Flush(PatchRun(lines)).hunks # <<>>)
BY DEF Files!ParsePatch, PatchRun

SectionLine == [mark : Files!Marks, text : Seq(Symbols)]

Hunk == [type : {"add", "update", "delete"}, path : Paths, lines : Seq(SectionLine)]

Parsed == [ok : BOOLEAN, hunks : Seq(Hunk), section : Hunk \cup {Files!NoSection}]

LEMMA FlushFits == ASSUME NEW acc \in Parsed PROVE Files!Flush(acc) \in Parsed
<1>1. acc.hunks \in Seq(Hunk) /\ acc.section \in Hunk \cup {Files!NoSection} /\ Files!NoSection.type = "none"
  BY DEF Parsed, Files!NoSection
<1>2. acc.section.type # "none" => Append(acc.hunks, acc.section) \in Seq(Hunk)
  <2> DEFINE hs == acc.hunks
             h == acc.section
  <2> SUFFICES ASSUME h.type # "none" PROVE Append(hs, h) \in Seq(Hunk)
    OBVIOUS
  <2>1. hs \in Seq(Hunk) /\ h \in Hunk
    BY <1>1
  <2> HIDE DEF hs, h
  <2> QED
    BY <2>1
<1>3. [acc EXCEPT !.ok = FALSE] \in Parsed
  BY DEF Parsed
<1>4. acc.section.type # "none" =>
        [acc EXCEPT !.hunks = Append(@, acc.section), !.section = Files!NoSection] \in Parsed
  BY <1>1, <1>2 DEF Parsed
<1> QED
  BY <1>3, <1>4 DEF Files!Flush

LEMMA ParseLineFits ==
    ASSUME NEW acc \in Parsed, NEW l \in Files!PatchLine
    PROVE  Files!ParseLine(acc, l) \in Parsed
<1>1. Files!Flush(acc) \in Parsed
  BY FlushFits
<1> DEFINE in == acc.section.type # "none"
           fresh == [type |-> l.is, path |-> l.path, lines |-> <<>>]
           line == [mark |-> l.mark, text |-> l.text]
<1>2. l.is \in {"frame", "unknown", "add", "update", "delete", "line"}
  BY DEF Files!PatchLine
<1>3. ASSUME acc.ok, l.is = "unknown" PROVE [acc EXCEPT !.ok = FALSE] \in Parsed
  BY DEF Parsed
<1>4. ASSUME l.is \in {"add", "update", "delete"}
      PROVE  [Files!Flush(acc) EXCEPT !.section = fresh] \in Parsed
  <2>1. l.path \in Paths /\ <<>> \in Seq(SectionLine)
    BY <1>4 DEF Files!PatchLine
  <2>2. fresh \in Hunk
    BY <1>4, <2>1 DEF Hunk
  <2> DEFINE flushed == Files!Flush(acc)
  <2>3. flushed \in Parsed
    BY <1>1
  <2> HIDE DEF flushed, fresh
  <2> QED
    BY <2>2, <2>3 DEF Parsed, flushed
<1>5. ASSUME l.is = "line", in
      PROVE  [acc EXCEPT !.section.lines = Append(@, line)] \in Parsed
  <2>1. line \in SectionLine
    BY <1>5 DEF Files!PatchLine, SectionLine
  <2> DEFINE h == acc.section
             more == [h EXCEPT !.lines = Append(@, line)]
  <2>2. h \in Hunk
    BY <1>5 DEF Parsed, Files!NoSection
  <2>3. h.lines \in Seq(SectionLine)
    BY <2>2 DEF Hunk
  <2> DEFINE ls == h.lines
             extended == Append(ls, line)
  <2>4. extended \in Seq(SectionLine)
    <3> HIDE DEF ls, line
    <3> QED
      BY <2>1, <2>3 DEF ls
  <2>5. more = [h EXCEPT !.lines = extended]
    OBVIOUS
  <2> HIDE DEF extended, h, more
  <2>6. more \in Hunk
    BY <2>2, <2>4, <2>5 DEF Hunk
  <2>7. [acc EXCEPT !.section.lines = Append(@, line)] = [acc EXCEPT !.section = more]
    BY DEF more, h
  <2>8. [acc EXCEPT !.section = more] \in Parsed
    BY <2>6 DEF Parsed
  <2> QED
    BY <2>7, <2>8
<1>6. [acc EXCEPT !.ok = (l.mark = "")] \in Parsed
  BY DEF Parsed
<1> DEFINE res == Files!ParseLine(acc, l)
           bad == [acc EXCEPT !.ok = FALSE]
           opened == [Files!Flush(acc) EXCEPT !.section = fresh]
           longer == [acc EXCEPT !.section.lines = Append(@, line)]
           blank == [acc EXCEPT !.ok = (l.mark = "")]
<1>7. res = IF ~ acc.ok THEN acc
            ELSE CASE l.is = "frame" -> Files!Flush(acc)
                   [] l.is = "unknown" -> bad
                   [] l.is \in {"add", "update", "delete"} -> opened
                   [] l.is = "line" /\ in -> longer
                   [] l.is = "line" /\ ~ in -> blank
  BY DEF Files!ParseLine
<1> HIDE DEF fresh, line, res, bad, opened, longer, blank, in
<1>8. CASE ~ acc.ok
  BY <1>7, <1>8 DEF res
<1>9. CASE acc.ok /\ l.is = "frame"
  BY <1>1, <1>7, <1>9 DEF res
<1>10. CASE acc.ok /\ l.is = "unknown"
  BY <1>3, <1>7, <1>10 DEF res, bad
<1>11. CASE acc.ok /\ l.is \in {"add", "update", "delete"}
  <2>1. res = opened
    BY <1>7, <1>11
  <2> QED
    BY <1>4, <1>11, <2>1 DEF res, opened
<1>12. CASE acc.ok /\ l.is = "line" /\ in
  <2>1. res = longer
    BY <1>7, <1>12
  <2> QED
    BY <1>5, <1>12, <2>1 DEF res, longer
<1>13. CASE acc.ok /\ l.is = "line" /\ ~ in
  <2>1. res = blank
    BY <1>7, <1>13
  <2> QED
    BY <1>6, <2>1 DEF res, blank
<1> QED
  BY <1>2, <1>8, <1>9, <1>10, <1>11, <1>12, <1>13

ParseStep(f, raw, i) ==
    IF i = 0 THEN [ok |-> TRUE, hunks |-> <<>>, section |-> Files!NoSection]
    ELSE Files!ParseLine(f[i - 1], raw[i])

IsParse(f, raw, n) == f = [i \in 0 .. n |-> ParseStep(f, raw, i)]

ParsesUp(f, S, raw, n) ==
    /\ f \in [0 .. n -> S]
    /\ PatchRun(raw) = f[n]
    /\ f[0] = [ok |-> TRUE, hunks |-> <<>>, section |-> Files!NoSection]
    /\ \A i \in 1 .. n : f[i] = Files!ParseLine(f[i - 1], raw[i])

LEMMA ParsesIs ==
    ASSUME NEW raw \in Seq(Files!PatchLine)
    PROVE  \E f : ParsesUp(f, Parsed, raw, Len(raw))
<1> DEFINE n == Len(raw)
           S == Parsed
           base == [ok |-> TRUE, hunks |-> <<>>, section |-> Files!NoSection]
           put(acc, i) == Files!ParseLine(acc, raw[i])
           step == [p \in S \X (1 .. n) |-> put(p[1], p[2])]
           F == CHOOSE g : IsParse(g, raw, n)
<1>0. n \in Nat /\ \A i \in 1 .. n : raw[i] \in Files!PatchLine
  OBVIOUS
<1>1. base \in S
  <2>1. <<>> \in Seq(Hunk)
    BY EmptySeq
  <2> QED
    BY <2>1 DEF Parsed
<1>2. \A acc \in S, i \in 1 .. n : put(acc, i) \in S
  <2> HIDE DEF S, n
  <2> QED
    BY <1>0, ParseLineFits DEF S
<1> HIDE DEF n, S, put, base
<1>3. step \in Steps(S, n) /\ \A acc \in S, i \in 1 .. n : step[<<acc, i>>] = put(acc, i)
  <2>1. \A p \in S \X (1 .. n) : put(p[1], p[2]) \in S
    BY <1>2
  <2> QED
    BY <2>1 DEF Steps
<1> HIDE DEF step
<1>4. PICK f : StepByStep(f, S, base, step, n)
  BY <1>0, <1>1, <1>3, StepsExist
<1>5. f \in [0 .. n -> S] /\ f[0] = base /\ \A i \in 1 .. n : f[i] = put(f[i - 1], i)
  <2>1. f \in [0 .. n -> S] /\ f[0] = base /\ \A i \in 1 .. n : f[i] = step[<<f[i - 1], i>>]
    BY <1>4 DEF StepByStep
  <2>2. \A i \in 1 .. n : f[i - 1] \in S
    BY <1>0, <2>1
  <2> QED
    BY <1>3, <2>1, <2>2
<1>6. ASSUME NEW g PROVE ParseStep(g, raw, 0) = base
  BY DEF ParseStep, base
<1>7. ASSUME NEW g, NEW i \in 1 .. n PROVE ParseStep(g, raw, i) = put(g[i - 1], i)
  <2>1. i # 0
    BY <1>0
  <2> QED
    BY <2>1 DEF ParseStep, put
<1>8. IsParse(f, raw, n)
  <2>1. \A i \in 0 .. n : f[i] = ParseStep(f, raw, i)
    <3>1. \A i \in 0 .. n : i = 0 \/ i \in 1 .. n
      BY <1>0
    <3> QED
      BY <1>5, <1>6, <1>7, <3>1
  <2>2. f = [i \in 0 .. n |-> f[i]]
    BY <1>5
  <2> QED
    BY <2>1, <2>2 DEF IsParse
<1>9. IsParse(F, raw, n)
  BY <1>8
<1>10. PatchRun(raw) = F[n]
  BY DEF PatchRun, IsParse, ParseStep, n
<1> HIDE DEF F
<1>11. GoAlike(F, f, n)
  <2>1. \A i \in 0 .. n : F[i] = ParseStep(F, raw, i)
    BY <1>9 DEF IsParse
  <2>2. 0 \in 0 .. n /\ \A i \in 1 .. n : i \in 0 .. n
    BY <1>0
  <2>3. F[0] = f[0]
    BY <1>5, <1>6, <2>1, <2>2
  <2>4. \A i \in 1 .. n : F[i - 1] = f[i - 1] => F[i] = f[i]
    BY <1>5, <1>7, <2>1, <2>2
  <2> QED
    BY <2>3, <2>4 DEF GoAlike
<1>12. F[n] = f[n]
  <2>1. n \in 0 .. n
    BY <1>0
  <2> QED
    BY <1>0, <1>11, <2>1, Alike
<1> QED
  BY <1>5, <1>10, <1>12 DEF ParsesUp, n, S, base, put

\* The sections of a patch come one after the other and are about files.
LEMMA HunksFit ==
    ASSUME Files!InputsFit, NEW patch \in Patches
    PROVE  /\ Files!ParsePatch(patch).hunks \in Seq(Hunk)
           /\ Files!PathsOf(Files!ParsePatch(patch).hunks) \subseteq Paths
<1>1. patch \in Seq(Files!PatchLine)
  BY DEF Files!InputsFit
<1>2. PICK f : ParsesUp(f, Parsed, patch, Len(patch))
  BY <1>1, ParsesIs
<1>3. Len(patch) \in 0 .. Len(patch)
  BY <1>1
<1>4. PatchRun(patch) \in Parsed
  BY <1>2, <1>3 DEF ParsesUp
<1> DEFINE end == Files!Flush(PatchRun(patch))
           hunks == Files!ParsePatch(patch).hunks
<1>5. end \in Parsed
  BY <1>4, FlushFits
<1>6. hunks = end.hunks
  BY PatchRuns
<1> HIDE DEF end, hunks
<1>7. hunks \in Seq(Hunk)
  BY <1>5, <1>6 DEF Parsed
<1>8. DOMAIN hunks = 1 .. Len(hunks) /\ \A i \in 1 .. Len(hunks) : hunks[i] \in Hunk
  BY <1>7
<1>9. Files!PathsOf(hunks) \subseteq Paths
  BY <1>8 DEF Files!PathsOf, Hunk
<1> QED
  BY <1>7, <1>9 DEF hunks

LEMMA ParseFits ==
    ASSUME Files!InputsFit, PatchInv, NEW a \in Agents, Files!PatchParse(a)
    PROVE  PatchInv'
<1> DEFINE Start(hunks) ==
             [pc |-> "verify", tool |-> "apply_patch", path |-> hunks[1].path,
              paths |-> Files!PathsOf(hunks), start |-> disk, hunks |-> hunks, todo |-> hunks,
              content |-> [p \in {} |-> <<>>], deleted |-> {}, prepared |-> <<>>,
              text |-> <<>>, applied |-> 0, touched |-> FALSE, linked |-> TRUE]
<1>1. PICK patch \in Patches : Files!Step(a, Start(Files!ParsePatch(patch).hunks))
  BY DEF Files!PatchParse
<1> DEFINE hunks == Files!ParsePatch(patch).hunks
           c == Start(hunks)
<1>2. /\ DOMAIN c = PatchFields /\ c.pc = "verify" /\ c.tool = "apply_patch" /\ c.touched = FALSE
      /\ c.hunks = hunks /\ c.todo = hunks /\ c.start = disk /\ c.applied = 0 /\ c.prepared = <<>>
      /\ c.paths = Files!PathsOf(hunks) /\ c.content = [p \in {} |-> <<>>] /\ c.deleted = {}
  BY DEF PatchFields
<1>3. hunks \in Seq(Hunk) /\ Files!PathsOf(hunks) \subseteq Paths
  BY HunksFit
<1>4. Files!Step(a, c)
  BY <1>1
<1> HIDE DEF c, hunks
<1>5. /\ IsSeq(hunks) /\ Len(hunks) \in Nat
      /\ \A k \in 1 .. Len(hunks) : hunks[k].path \in Files!PathsOf(hunks)
  BY <1>3 DEF IsSeq, Files!PathsOf
<1>6. disk = [p \in Paths |-> disk[p]]
  BY DEF PatchInv
<1>7. PatchCall(c)
  <2>2. c.start = [p \in Paths |-> c.start[p]]
    BY <1>2, <1>6
  <2>3. \A k \in 1 .. Len(hunks) : hunks[k].path \in Paths
    BY <1>3, <1>5
  <2> QED
    BY <1>2, <1>3, <1>5, <2>2, <2>3, Zenon DEF PatchCall
<1>8. After(c, 0) = disk
  BY <1>2, AfterIs DEF After
<1>9. IsSeq(<<>>) /\ Len(<<>>) = 0
  BY DEF IsSeq
<1>10. Verifying(c, disk)
  <2>1. Prepared(c, 0)
    BY <1>2, <1>9 DEF Prepared
  <2>2. Len(c.prepared) = 0
    BY <1>2, <1>9
  <2>3. \A i \in 1 .. Len(c.todo) : c.todo[i] = c.hunks[0 + i]
    BY <1>2, <1>5
  <2>4. \A p \in c.paths : disk[p] = c.start[p] /\ Believes(c, disk, p) = After(c, 0)[p]
    BY <1>2, <1>8 DEF Believes
  <2> QED
    BY <1>2, <1>5, <2>1, <2>2, <2>3, <2>4 DEF Verifying
<1>11. PatchFits(c, disk)
  BY <1>2, <1>7, <1>10 DEF PatchFits, AtWork
<1> QED
  BY <1>4, <1>11, StepFits

LEMMA VerifyFits == ASSUME PatchInv, NEW a \in Agents, Files!PatchVerify(a) PROVE PatchInv'
<1> DEFINE c == call[a]
           hunk == Head(c.todo)
           made == Files!Prepare(hunk, Files!CurrentContent(c, hunk.path))
           rest == {p \in DOMAIN c.content : p # hunk.path}
           held == [p \in IF made.text = Absent THEN rest ELSE rest \cup {hunk.path} |->
                       IF p = hunk.path THEN made.text ELSE c.content[p]]
           gone == IF made.text = Absent THEN c.deleted \cup {hunk.path} ELSE c.deleted
           op == [path |-> hunk.path, text |-> made.text]
           next == [c EXCEPT !.todo = Tail(@), !.content = held, !.deleted = gone,
                             !.prepared = Append(@, op)]
           n == Len(c.prepared)
<1>1. /\ c.pc = "verify" /\ c.todo # <<>> /\ PatchFits(c, disk)
      /\ IF ~made.ok THEN Files!Step(a, Files!Idle(Files!PatchReport(c, "rejected"))) ELSE Files!Step(a, next)
  BY DEF Files!PatchVerify, PatchInv
<1>2. AtWork(c, disk) /\ PatchCall(c)
  BY <1>1 DEF PatchFits, PatchOver, OneFile, AtWork
<1>3. c.touched \/ Verifying(c, disk)
  BY <1>1, <1>2 DEF AtWork, Applying, Opened
<1>4. ASSUME ~c.touched
      PROVE  /\ n \in Nat /\ n < Len(c.hunks) /\ hunk = c.hunks[n + 1]
             /\ hunk.path \in Paths /\ hunk.path \in c.paths
             /\ Files!CurrentContent(c, hunk.path) = After(c, n)[hunk.path]
             /\ made.ok = Goes(c, n + 1)
  <2>1. Verifying(c, disk)
    BY <1>3, <1>4
  <2>2. Len(c.todo) \in Nat /\ Len(c.todo) > 0 /\ hunk = c.todo[1] /\ n \in Nat
    <3>1. IsSeq(c.todo) /\ IsSeq(c.prepared)
      BY <2>1 DEF Verifying, Prepared
    <3> QED
      BY <1>1, <3>1, Beheaded, Zenon
  <2>3. n < Len(c.hunks) /\ c.todo[1] = c.hunks[n + 1] /\ n + 1 \in 1 .. Len(c.hunks)
    <3>1. Len(c.todo) = Len(c.hunks) - n /\ Len(c.hunks) \in Nat
      BY <1>2, <2>1 DEF Verifying, PatchCall
    <3>2. \A i \in 1 .. Len(c.todo) : c.todo[i] = c.hunks[n + i]
      BY <2>1 DEF Verifying
    <3> HIDE DEF n
    <3>3. 1 \in 1 .. Len(c.todo)
      BY <2>2
    <3> QED
      BY <2>2, <3>1, <3>2, <3>3
  <2>4. hunk.path \in Paths /\ hunk.path \in c.paths
    BY <1>2, <2>2, <2>3 DEF PatchCall
  <2>5. Files!CurrentContent(c, hunk.path) = Believes(c, disk, hunk.path)
    BY DEF Files!CurrentContent, Believes
  <2>6. Files!CurrentContent(c, hunk.path) = After(c, n)[hunk.path]
    BY <2>1, <2>4, <2>5 DEF Verifying
  <2>7. (n + 1) - 1 = n
    BY <2>2
  <2> QED
    BY <2>2, <2>3, <2>4, <2>6, <2>7 DEF Goes
<1>5. CASE ~made.ok
  <2>1. ASSUME ~c.touched PROVE IsSections(Files!PatchReport(c, "rejected"))
    <3> DEFINE r == Files!PatchReport(c, "rejected")
    <3>1. r.how = "rejected" /\ r.start = c.start /\ r.hunks = c.hunks /\ r.applied = c.applied /\ r.end = disk
      BY DEF Files!PatchReport
    <3> HIDE DEF r
    <3>2. Verifying(c, disk) /\ c.applied = 0
      BY <1>3, <2>1 DEF Verifying
    <3>3. ~Goes(c, n + 1) /\ n + 1 \in 1 .. Len(c.hunks)
      BY <1>2, <1>4, <1>5, <2>1 DEF PatchCall
    <3>4. ~Files!Applicable(r.start, r.hunks)
      BY <1>2, <3>1, <3>3, AllGo
    <3>5. \A p \in Files!PathsOf(c.hunks) : p \in c.paths
      BY <1>2, PathsOfCall
    <3>6. Files!AfterSections(c.start, c.hunks, 0) = c.start
      BY AfterIs
    <3>7. \A p \in Files!PathsOf(r.hunks) : r.end[p] = Files!AfterSections(r.start, r.hunks, r.applied)[p]
      BY <3>1, <3>2, <3>5, <3>6 DEF Verifying
    <3> QED
      BY <3>1, <3>4, <3>7 DEF IsSections, r
  <2> QED
    BY <1>1, <1>2, <1>5, <2>1, PatchReport, StepFits
<1>6. CASE made.ok
  <2>1. /\ DOMAIN next = PatchFields /\ next.todo = Tail(c.todo) /\ next.content = held
        /\ next.deleted = gone /\ next.prepared = Append(c.prepared, op)
    BY <1>2 DEF PatchCall, PatchFields
  <2>2. /\ next.pc = c.pc /\ next.tool = c.tool /\ next.hunks = c.hunks /\ next.start = c.start
        /\ next.paths = c.paths /\ next.applied = c.applied /\ next.touched = c.touched
    BY <1>2 DEF PatchCall, PatchFields
  <2>3. Files!Step(a, next)
    BY <1>1, <1>6
  <2>4. op.path = hunk.path /\ op.text = made.text
    OBVIOUS
  <2> HIDE DEF next, op
  <2>5. PatchCall(next)
    BY <1>2, <2>1, <2>2 DEF PatchCall
  <2>6. \A k : After(next, k) = After(c, k) /\ (Goes(next, k) <=> Goes(c, k))
    BY <2>2 DEF After, Goes
  <2>7. ASSUME ~c.touched PROVE Verifying(next, disk)
    <3>1. /\ n \in Nat /\ n < Len(c.hunks) /\ hunk = c.hunks[n + 1] /\ hunk.path \in Paths /\ hunk.path \in c.paths
          /\ made = Files!Prepare(hunk, After(c, n)[hunk.path]) /\ Goes(c, n + 1)
      BY <1>4, <1>6, <2>7
    <3>2. Verifying(c, disk)
      BY <1>3, <2>7
    <3>3. \A p \in Paths : After(c, n + 1)[p] = IF p = hunk.path THEN made.text ELSE After(c, n)[p]
      <4> HIDE DEF n, made, hunk
      <4>0. Len(c.hunks) \in Nat
        BY <1>2 DEF PatchCall
      <4>1. n \in 0 .. Len(c.hunks) - 1
        BY <3>1, <4>0
      <4>2. After(c, n) = [p \in Paths |-> After(c, n)[p]]
        BY <1>2, <3>1, AfterTyped, Zenon
      <4> QED
        BY <1>2, <3>1, <4>1, <4>2, AfterOne
    <3>4. ASSUME NEW p \in c.paths PROVE Believes(next, disk, p) = After(c, n + 1)[p]
      <4>1. p \in Paths /\ Believes(c, disk, p) = After(c, n)[p]
        BY <1>2, <3>2, <3>4 DEF Verifying, PatchCall
      <4>2. CASE p = hunk.path
        BY <2>1, <3>3, <4>1, <4>2 DEF Believes
      <4>3. CASE p # hunk.path
        BY <2>1, <3>3, <4>1, <4>3 DEF Believes
      <4> QED
        BY <4>2, <4>3
    <3> HIDE DEF made, hunk, held, gone
    <3>5. /\ IsSeq(next.prepared) /\ Len(next.prepared) = n + 1
          /\ \A i \in 1 .. n : next.prepared[i] = c.prepared[i]
          /\ next.prepared[n + 1] = op
      BY <2>1, <3>2, Appended DEF Verifying, Prepared
    <3>6. Prepared(next, 0)
      <4>1. ASSUME NEW i \in 1 .. n + 1
            PROVE  /\ next.prepared[i].path = c.hunks[0 + i].path
                   /\ next.prepared[i].text = After(c, 0 + i)[c.hunks[0 + i].path]
        <5>1. CASE i = n + 1
          <6>1. next.prepared[i] = op /\ 0 + i = n + 1
            BY <3>1, <3>5, <5>1
          <6> HIDE DEF n
          <6> QED
            BY <2>4, <3>1, <3>3, <6>1
        <5>2. CASE i # n + 1
          <6>1. i \in 1 .. n
            BY <3>1, <5>2
          <6> QED
            <7>1. next.prepared[i] = c.prepared[i]
              BY <3>5, <6>1
            <7>2. c.prepared[i].path = c.hunks[0 + i].path /\ c.prepared[i].text = After(c, 0 + i)[c.hunks[0 + i].path]
              BY <3>2, <6>1 DEF Verifying, Prepared
            <7> QED
              BY <7>1, <7>2
        <5> QED
          BY <5>1, <5>2
      <4> HIDE DEF n
      <4> QED
        BY <2>2, <2>6, <3>5, <4>1 DEF Prepared
    <3>7. /\ IsSeq(next.todo) /\ Len(next.todo) = Len(next.hunks) - (n + 1)
          /\ \A i \in 1 .. Len(next.todo) : next.todo[i] = next.hunks[(n + 1) + i]
      <4>1. /\ IsSeq(c.todo) /\ Len(c.todo) = Len(c.hunks) - n /\ Len(c.hunks) \in Nat
            /\ \A i \in 1 .. Len(c.todo) : c.todo[i] = c.hunks[n + i]
        BY <1>2, <3>2 DEF Verifying, PatchCall
      <4>2. /\ Len(c.todo) \in Nat /\ IsSeq(next.todo) /\ Len(next.todo) = Len(c.todo) - 1
            /\ \A i \in 1 .. Len(c.todo) - 1 : next.todo[i] = c.todo[i + 1]
        <5>1. /\ Len(c.todo) \in Nat /\ IsSeq(Tail(c.todo)) /\ Len(Tail(c.todo)) = Len(c.todo) - 1
              /\ \A i \in 1 .. Len(c.todo) - 1 : Tail(c.todo)[i] = c.todo[i + 1]
          BY <1>1, <4>1, Beheaded, Zenon
        <5>2. next.todo = Tail(c.todo)
          BY <2>1
        <5> QED
          BY <5>1, <5>2, Zenon
      <4>3. ASSUME NEW i \in 1 .. Len(next.todo) PROVE next.todo[i] = next.hunks[(n + 1) + i]
        <5> HIDE DEF n
        <5>0. n \in Nat /\ Len(c.todo) \in Nat /\ i \in 1 .. Len(c.todo) - 1
          BY <3>1, <4>2, <4>3
        <5>1. i + 1 \in 1 .. Len(c.todo) /\ n + (i + 1) = (n + 1) + i
          BY <5>0
        <5> QED
          BY <2>2, <4>1, <4>2, <5>0, <5>1
      <4> HIDE DEF n
      <4> QED
        BY <2>2, <3>1, <4>1, <4>2, <4>3
    <3>8. \A k \in 1 .. n + 1 : Goes(next, k)
      <4>1. ASSUME NEW k \in 1 .. n + 1 PROVE k = n + 1 \/ k \in 1 .. n
        BY <3>1
      <4> QED
        BY <2>6, <3>1, <3>2, <4>1 DEF Verifying
    <3>9. \A p \in next.paths : disk[p] = next.start[p] /\ Believes(next, disk, p) = After(next, n + 1)[p]
      BY <2>2, <2>6, <3>2, <3>4 DEF Verifying
    <3>10. next.pc = "verify" /\ next.applied = 0 /\ n + 1 <= Len(next.hunks)
      <4>1. next.pc = "verify" /\ next.applied = 0
        BY <2>2, <3>2 DEF Verifying
      <4> DEFINE all == Len(c.hunks)
      <4>2. n \in Nat /\ all \in Nat /\ n < all
        BY <1>2, <3>1 DEF PatchCall
      <4> HIDE DEF n, all
      <4>3. n + 1 <= all
        BY <4>2
      <4> QED
        BY <2>2, <4>1, <4>3 DEF all
    <3> HIDE DEF n
    <3> QED
      BY <3>5, <3>6, <3>7, <3>8, <3>9, <3>10 DEF Verifying
  <2>8. PatchFits(next, disk)
    BY <1>1, <2>2, <2>5, <2>7 DEF PatchFits, AtWork
  <2> QED
    BY <2>3, <2>8, StepFits
<1> QED
  BY <1>5, <1>6

LEMMA VerifiedFits == ASSUME PatchInv, NEW a \in Agents, Files!PatchVerified(a) PROVE PatchInv'
<1> DEFINE c == call[a]
           next == [c EXCEPT !.pc = "apply"]
<1>1. c.pc = "verify" /\ c.todo = <<>> /\ PatchFits(c, disk) /\ Files!Step(a, next)
  BY DEF Files!PatchVerified, PatchInv
<1>2. AtWork(c, disk) /\ PatchCall(c)
  BY <1>1 DEF PatchFits, PatchOver, OneFile, AtWork
<1>3. /\ DOMAIN next = PatchFields /\ next.pc = "apply" /\ next.tool = c.tool /\ next.hunks = c.hunks
      /\ next.start = c.start /\ next.paths = c.paths /\ next.applied = c.applied
      /\ next.touched = c.touched /\ next.prepared = c.prepared
  BY <1>2 DEF PatchCall, PatchFields
<1> HIDE DEF next
<1>4. PatchCall(next)
  BY <1>2, <1>3 DEF PatchCall
<1>5. \A k : After(next, k) = After(c, k) /\ (Goes(next, k) <=> Goes(c, k))
  BY <1>3 DEF After, Goes
<1>6. ASSUME ~c.touched PROVE Applying(next, disk)
  <2>1. Verifying(c, disk)
    BY <1>1, <1>2, <1>6 DEF AtWork, Applying, Opened
  <2>2. Len(c.todo) = 0 /\ Len(c.prepared) \in Nat /\ Len(c.hunks) \in Nat
    <3>1. IsSeq(c.todo) /\ IsSeq(c.prepared)
      BY <2>1 DEF Verifying, Prepared
    <3>2. Len(c.todo) = 0
      BY <1>1, <3>1, Beheaded, Zenon
    <3> QED
      BY <1>2, <3>1, <3>2, Beheaded, Zenon DEF PatchCall
  <2>3. Len(c.prepared) = Len(c.hunks)
    <3> DEFINE done == Len(c.prepared)
               all == Len(c.hunks)
               open == Len(c.todo)
    <3>1. open = all - done
      BY <2>1 DEF Verifying
    <3>2. open = 0 /\ done \in Nat /\ all \in Nat
      BY <2>2
    <3> HIDE DEF done, all, open
    <3>3. done = all
      BY <3>1, <3>2
    <3> QED
      BY <3>3 DEF done, all
  <2>4. Prepared(next, next.applied)
    <3>1. next.applied = 0 /\ Prepared(c, 0)
      BY <1>3, <2>1 DEF Verifying
    <3> QED
      BY <1>3, <1>5, <3>1 DEF Prepared
  <2>5. Len(next.prepared) = Len(next.hunks) - next.applied
    <3>1. next.applied = 0 /\ Len(next.prepared) = Len(next.hunks) /\ Len(next.hunks) \in Nat
      BY <1>3, <2>1, <2>2, <2>3 DEF Verifying
    <3> QED
      BY <3>1
  <2>6. \A k \in 1 .. Len(next.hunks) : Goes(next, k)
    BY <1>3, <1>5, <2>1, <2>3 DEF Verifying
  <2>7. ASSUME NEW p \in next.paths PROVE disk[p] = After(next, next.applied)[p]
    <3>1. disk[p] = c.start[p] /\ next.applied = 0
      BY <1>3, <2>1, <2>7 DEF Verifying
    <3>2. After(next, 0) = c.start
      BY <1>3, AfterIs DEF After
    <3> QED
      BY <3>1, <3>2
  <2>8. next.applied \in 0 .. Len(next.hunks)
    BY <1>3, <2>1, <2>2 DEF Verifying
  <2> QED
    BY <1>3, <2>4, <2>5, <2>6, <2>7, <2>8 DEF Applying
<1>7. PatchFits(next, disk)
  BY <1>3, <1>4, <1>6 DEF PatchFits, AtWork
<1> QED
  BY <1>1, <1>7, StepFits

\* The next prepared section is the next of the patch.
LEMMA NextPrepared ==
    ASSUME NEW c, NEW d, PatchCall(c), Applying(c, d), c.prepared # <<>>
    PROVE  LET op == Head(c.prepared)
               n == c.applied
           IN  /\ n \in Nat /\ Len(c.hunks) \in Nat /\ n < Len(c.hunks)
               /\ op.path = c.hunks[n + 1].path /\ op.path \in Paths /\ op.path \in c.paths
               /\ op.text = After(c, n + 1)[op.path]
               /\ IsSeq(Tail(c.prepared)) /\ Len(Tail(c.prepared)) = Len(c.hunks) - (n + 1)
               /\ \A i \in 1 .. Len(Tail(c.prepared)) :
                     /\ Tail(c.prepared)[i].path = c.hunks[(n + 1) + i].path
                     /\ Tail(c.prepared)[i].text = After(c, (n + 1) + i)[c.hunks[(n + 1) + i].path]
               /\ \A p \in Paths : p # op.path => After(c, n + 1)[p] = After(c, n)[p]
<1> DEFINE op == Head(c.prepared)
           n == c.applied
           due == c.prepared
           N == Len(c.hunks)
<1>1. n \in 0 .. N /\ N \in Nat /\ IsSeq(due) /\ Len(due) = N - n
  BY DEF PatchCall, Applying, Prepared
<1>2. /\ Len(due) \in Nat /\ IsSeq(Tail(due)) /\ Len(Tail(due)) = Len(due) - 1 /\ op = due[1] /\ Len(due) > 0
      /\ \A i \in 1 .. Len(due) - 1 : Tail(due)[i] = due[i + 1]
  BY <1>1, Beheaded, Zenon
<1>3. \A i \in 1 .. Len(due) : /\ due[i].path = c.hunks[n + i].path
                                /\ due[i].text = After(c, n + i)[c.hunks[n + i].path]
  BY DEF Applying, Prepared
<1>4. \A k \in 1 .. N : c.hunks[k].path \in Paths /\ c.hunks[k].path \in c.paths
  BY DEF PatchCall
<1> DEFINE L == Len(due)
           M == Len(Tail(due))
<1>5. n \in Nat /\ N \in Nat /\ L = N - n /\ L > 0 /\ M = L - 1
  BY <1>1, <1>2
<1> HIDE DEF n, N, L, M
<1>6. n < N /\ M = N - (n + 1) /\ n + 1 \in 1 .. N /\ 1 \in 1 .. L /\ n \in 0 .. N - 1
  BY <1>5
<1>7. op.path = c.hunks[n + 1].path /\ op.text = After(c, n + 1)[op.path]
  BY <1>2, <1>3, <1>6 DEF L
<1>8. op.path \in Paths /\ op.path \in c.paths
  BY <1>4, <1>6, <1>7
<1>9. ASSUME NEW i \in 1 .. M
      PROVE  /\ Tail(due)[i].path = c.hunks[(n + 1) + i].path
             /\ Tail(due)[i].text = After(c, (n + 1) + i)[c.hunks[(n + 1) + i].path]
  <2>1. i \in 1 .. L - 1 /\ i + 1 \in 1 .. L /\ n + (i + 1) = (n + 1) + i
    BY <1>5, <1>9
  <2>2. Tail(due)[i] = due[i + 1]
    BY <1>2, <2>1 DEF L
  <2> QED
    BY <1>3, <2>1, <2>2 DEF L
<1>10. \A p \in Paths : p # op.path => After(c, n + 1)[p] = After(c, n)[p]
  <2>1. After(c, n) = [p \in Paths |-> After(c, n)[p]]
    BY <1>5, AfterTyped
  <2>2. Goes(c, n + 1)
    BY <1>6 DEF Applying, N
  <2> HIDE DEF op
  <2>3. \A p \in Paths : p # c.hunks[n + 1].path => After(c, n + 1)[p] = After(c, n)[p]
    BY <1>6, <2>1, <2>2, AfterOne DEF N
  <2> QED
    BY <1>7, <2>3
<1> QED
  BY <1>2, <1>5, <1>6, <1>7, <1>8, <1>9, <1>10 DEF n, N, M, L

LEMMA ReportSections ==
    ASSUME NEW c, NEW word \in {"partial", "applied"}, PatchCall(c), Applying(c, disk),
           word = "applied" => c.applied = Len(c.hunks)
    PROVE  IsSections(Files!PatchReport(c, word))
<1> DEFINE r == Files!PatchReport(c, word)
<1>1. r.how = word /\ r.start = c.start /\ r.hunks = c.hunks /\ r.applied = c.applied /\ r.end = disk
  BY DEF Files!PatchReport
<1> HIDE DEF r
<1>2. Files!Applicable(c.start, c.hunks)
  BY AllGo DEF Applying
<1>3. \A p \in Files!PathsOf(c.hunks) : p \in c.paths
  BY PathsOfCall
<1>4. \A p \in c.paths : disk[p] = Files!AfterSections(c.start, c.hunks, c.applied)[p]
  BY DEF Applying, After
<1>5. word # "rejected"
  OBVIOUS
<1> QED
  BY <1>1, <1>2, <1>3, <1>4, <1>5 DEF IsSections, r

LEMMA ApplyFits ==
    ASSUME Files!NamesFit, PatchInv, NEW a \in Agents, Files!PatchApply(a) PROVE PatchInv'
<1> DEFINE c == call[a]
           op == Head(c.prepared)
           later == [c EXCEPT !.prepared = Tail(@), !.path = op.path]
           removed == [later EXCEPT !.applied = @ + 1]
           open == [later EXCEPT !.pc = "opened", !.linked = TRUE, !.text = op.text]
           n == c.applied
<1>1. /\ c.pc = "apply" /\ c.prepared # <<>> /\ PatchFits(c, disk)
      /\ \/ op.text = Absent /\ Files!Put(a, op.path, Absent, removed)
         \/ op.text # Absent /\ Files!Put(a, op.path, <<>>, open)
         \/ Files!Step(a, Files!Idle(Files!PatchReport(c, "partial")))
  BY DEF Files!PatchApply, PatchInv
<1>2. AtWork(c, disk) /\ PatchCall(c)
  BY <1>1 DEF PatchFits, PatchOver, OneFile, AtWork
<1>3. c.touched \/ Applying(c, disk)
  BY <1>1, <1>2 DEF AtWork, Verifying, Opened
<1>4. ASSUME ~c.touched
      PROVE  /\ n \in Nat /\ Len(c.hunks) \in Nat /\ n < Len(c.hunks)
             /\ op.path = c.hunks[n + 1].path /\ op.path \in Paths /\ op.path \in c.paths
             /\ op.text = After(c, n + 1)[op.path]
             /\ IsSeq(Tail(c.prepared)) /\ Len(Tail(c.prepared)) = Len(c.hunks) - (n + 1)
             /\ \A i \in 1 .. Len(Tail(c.prepared)) :
                   /\ Tail(c.prepared)[i].path = c.hunks[(n + 1) + i].path
                   /\ Tail(c.prepared)[i].text = After(c, (n + 1) + i)[c.hunks[(n + 1) + i].path]
             /\ \A p \in Paths : p # op.path => After(c, n + 1)[p] = After(c, n)[p]
  BY <1>1, <1>2, <1>3, <1>4, NextPrepared
<1>5. \A p \in Paths : ~c.touched /\ p \in c.paths => disk[p] = After(c, n)[p]
  BY <1>3 DEF Applying
<1>6. ASSUME NEW content, NEW next, Files!Put(a, op.path, content, next)
      PROVE  /\ \A p \in Paths : p # op.path => disk'[p] = disk[p]
             /\ op.path \in Paths => disk'[op.path] = content
  BY <1>6 DEF Files!Put, PatchInv
<1>7. CASE op.text = Absent /\ Files!Put(a, op.path, Absent, removed)
  <2>1. /\ DOMAIN removed = PatchFields /\ removed.pc = c.pc /\ removed.tool = c.tool
        /\ removed.hunks = c.hunks /\ removed.start = c.start /\ removed.paths = c.paths
        /\ removed.applied = n + 1 /\ removed.touched = c.touched /\ removed.prepared = Tail(c.prepared)
    BY <1>2 DEF PatchCall, PatchFields
  <2> HIDE DEF removed, op, n
  <2>2. PatchCall(removed)
    BY <1>2, <2>1 DEF PatchCall
  <2>3. \A k : After(removed, k) = After(c, k) /\ (Goes(removed, k) <=> Goes(c, k))
    BY <2>1 DEF After, Goes
  <2>4. ASSUME ~c.touched PROVE Applying(removed, disk')
    <3>1. removed.applied \in 0 .. Len(removed.hunks)
      BY <1>4, <2>1, <2>4
    <3>2. Prepared(removed, removed.applied) /\ Len(removed.prepared) = Len(removed.hunks) - removed.applied
      <4>1. Len(removed.prepared) = Len(removed.hunks) - removed.applied
        BY <1>4, <2>1, <2>4
      <4>2. Prepared(removed, removed.applied)
        BY <1>4, <2>1, <2>3, <2>4, SMTT(20) DEF Prepared
      <4> QED
        BY <4>1, <4>2
    <3>3. \A k \in 1 .. Len(removed.hunks) : Goes(removed, k)
      BY <1>3, <2>1, <2>3, <2>4 DEF Applying
    <3>4. ASSUME NEW p \in c.paths PROVE disk'[p] = After(c, n + 1)[p]
      <4>1. p \in Paths
        BY <1>2 DEF PatchCall
      <4>2. CASE p = op.path
        BY <1>4, <1>6, <1>7, <2>4, <4>1, <4>2
      <4>3. CASE p # op.path
        BY <1>4, <1>5, <1>6, <1>7, <2>4, <4>1, <4>3
      <4> QED
        BY <4>2, <4>3
    <3> QED
      BY <1>1, <2>1, <2>3, <3>1, <3>2, <3>3, <3>4 DEF Applying
  <2>5. PatchFits(removed, disk')
    BY <1>1, <2>1, <2>2, <2>4 DEF PatchFits, AtWork
  <2> QED
    BY <1>7, <2>5, PutFits
<1>8. CASE op.text # Absent /\ Files!Put(a, op.path, <<>>, open)
  <2>1. /\ DOMAIN open = PatchFields /\ open.pc = "opened" /\ open.tool = c.tool
        /\ open.hunks = c.hunks /\ open.start = c.start /\ open.paths = c.paths
        /\ open.applied = n /\ open.touched = c.touched /\ open.prepared = Tail(c.prepared)
        /\ open.path = op.path /\ open.linked = TRUE /\ open.text = op.text
    BY <1>2 DEF PatchCall, PatchFields
  <2> HIDE DEF open, op, n
  <2>2. PatchCall(open)
    BY <1>2, <2>1 DEF PatchCall
  <2>3. \A k : After(open, k) = After(c, k) /\ (Goes(open, k) <=> Goes(c, k))
    BY <2>1 DEF After, Goes
  <2>4. ASSUME ~c.touched PROVE Opened(open, disk')
    <3>1. open.applied \in 0 .. Len(open.hunks) - 1
      BY <1>4, <2>1, <2>4
    <3>2. Prepared(open, open.applied + 1) /\ Len(open.prepared) = Len(open.hunks) - (open.applied + 1)
      <4>1. Len(open.prepared) = Len(open.hunks) - (open.applied + 1)
        BY <1>4, <2>1, <2>4
      <4>2. Prepared(open, (open.applied + 1))
        BY <1>4, <2>1, <2>3, <2>4, SMTT(20) DEF Prepared
      <4> QED
        BY <4>1, <4>2
    <3>3. \A k \in 1 .. Len(open.hunks) : Goes(open, k)
      BY <1>3, <2>1, <2>3, <2>4 DEF Applying
    <3>4. open.path = open.hunks[open.applied + 1].path /\ open.text = After(open, open.applied + 1)[open.path]
      BY <1>4, <2>1, <2>3, <2>4
    <3>5. ASSUME NEW p \in c.paths PROVE disk'[p] = IF p = op.path THEN <<>> ELSE After(c, n)[p]
      <4>1. p \in Paths
        BY <1>2 DEF PatchCall
      <4> QED
        BY <1>5, <1>6, <1>8, <2>4, <4>1
    <3> QED
      BY <2>1, <2>3, <3>1, <3>2, <3>3, <3>4, <3>5 DEF Opened
  <2>5. PatchFits(open, disk')
    BY <2>1, <2>2, <2>4 DEF PatchFits, AtWork
  <2> QED
    BY <1>8, <2>5, PutFits
<1>9. CASE Files!Step(a, Files!Idle(Files!PatchReport(c, "partial")))
  <2>1. ~c.touched => IsSections(Files!PatchReport(c, "partial"))
    BY <1>2, <1>3, ReportSections
  <2> QED
    BY <1>2, <1>9, <2>1, PatchReport, StepFits
<1> QED
  BY <1>1, <1>7, <1>8, <1>9

LEMMA DoneFits == ASSUME PatchInv, NEW a \in Agents, Files!PatchDone(a) PROVE PatchInv'
<1> DEFINE c == call[a]
<1>1. /\ c.pc = "apply" /\ c.prepared = <<>> /\ PatchFits(c, disk)
      /\ Files!Step(a, Files!Idle(Files!PatchReport(c, "applied")))
  BY DEF Files!PatchDone, PatchInv
<1>2. AtWork(c, disk) /\ PatchCall(c)
  BY <1>1 DEF PatchFits, PatchOver, OneFile, AtWork
<1>3. ASSUME ~c.touched PROVE IsSections(Files!PatchReport(c, "applied"))
  <2>1. Applying(c, disk)
    BY <1>1, <1>2, <1>3 DEF AtWork, Verifying, Opened
  <2>2. IsSeq(c.prepared)
    BY <2>1 DEF Applying, Prepared
  <2> DEFINE some == Len(c.prepared)
             all == Len(c.hunks)
             n == c.applied
  <2>3. some = 0
    BY <1>1, <2>2, Beheaded, Zenon
  <2>4. some = all - n /\ n \in 0 .. all /\ all \in Nat
    BY <1>2, <2>1 DEF Applying, PatchCall
  <2> HIDE DEF some, all, n
  <2>5. n = all
    BY <2>3, <2>4
  <2> QED
    BY <1>2, <2>1, <2>5, ReportSections DEF n, all
<1> QED
  BY <1>1, <1>2, <1>3, PatchReport, StepFits

LEMMA WriteFits ==
    ASSUME Files!NamesFit, PatchInv, NEW a \in Agents, Files!WriteText(a) PROVE PatchInv'
<1> DEFINE c == call[a]
           under == disk[c.path]
           over == IF under = <<>> THEN c.text
                   ELSE c.text \o SubSeq(under, Len(c.text) + 1, Len(under))
           on == [c EXCEPT !.pc = "apply", !.applied = @ + 1, !.text = <<>>]
           next == CASE c.tool = "apply_patch" -> on
                     [] c.tool = "edit" -> Files!Idle([tool |-> "edit", base |-> c.base,
                                                       before |-> c.before, alone |-> c.alone])
                     [] c.tool = "write" -> Files!Idle(Files!NoReport)
<1>1. /\ c.pc = "opened" /\ PatchFits(c, disk)
      /\ IF c.linked /\ under # Absent THEN Files!Put(a, c.path, over, next) ELSE Files!Step(a, next)
  BY DEF Files!WriteText, PatchInv
<1>2. CASE OneFile(c)
  <2>1. ASSUME NEW d PROVE PatchFits(next, d)
    <3>1. CASE c.tool = "edit"
      <4> DEFINE r == [tool |-> "edit", base |-> c.base, before |-> c.before, alone |-> c.alone]
      <4>1. next = Files!Idle(r) /\ r.tool # "apply_patch"
        BY <3>1
      <4> HIDE DEF r, next
      <4> QED
        BY <4>1, OtherReport
    <3>2. CASE c.tool = "write"
      <4>1. next = Files!Idle(Files!NoReport) /\ Files!NoReport.tool # "apply_patch"
        BY <3>2 DEF Files!NoReport
      <4> HIDE DEF next
      <4> QED
        BY <4>1, OtherReport
    <3> QED
      BY <1>2, <3>1, <3>2 DEF OneFile
  <2> HIDE DEF next, over
  <2> QED
    BY <1>1, <2>1, PutFits, StepFits
<1>3. CASE AtWork(c, disk)
  <2>1. PatchCall(c) /\ next = on
    BY <1>3 DEF AtWork, PatchCall
  <2>2. /\ DOMAIN on = PatchFields /\ on.pc = "apply" /\ on.tool = c.tool /\ on.hunks = c.hunks
        /\ on.start = c.start /\ on.paths = c.paths /\ on.applied = c.applied + 1
        /\ on.touched = c.touched /\ on.prepared = c.prepared
    BY <2>1 DEF PatchCall, PatchFields
  <2> HIDE DEF on, next
  <2>3. PatchCall(on)
    BY <2>1, <2>2 DEF PatchCall
  <2>4. \A k : After(on, k) = After(c, k) /\ (Goes(on, k) <=> Goes(c, k))
    BY <2>2 DEF After, Goes
  <2>5. CASE c.touched
    <3>1. \A d : PatchFits(on, d)
      BY <2>2, <2>3, <2>5 DEF PatchFits, AtWork
    <3> HIDE DEF over
    <3> QED
      BY <1>1, <2>1, <3>1, PutFits, StepFits
  <2>6. CASE ~c.touched
    <3> DEFINE n == c.applied
    <3>1. Opened(c, disk)
      BY <1>1, <1>3, <2>6 DEF AtWork, Verifying, Applying
    <3>2. /\ n \in 0 .. Len(c.hunks) - 1 /\ Len(c.hunks) \in Nat
          /\ c.path = c.hunks[n + 1].path /\ c.text = After(c, n + 1)[c.path]
      BY <2>1, <3>1 DEF Opened, PatchCall
    <3>3. n \in Nat /\ n + 1 \in 1 .. Len(c.hunks) /\ n + 1 \in 0 .. Len(c.hunks)
      BY <3>2
    <3>4. c.path \in Paths /\ c.path \in c.paths
      BY <2>1, <3>2, <3>3 DEF PatchCall
    <3>5. under = <<>> /\ c.linked = TRUE
      BY <3>1, <3>4 DEF Opened
    <3>6. Files!Put(a, c.path, c.text, on)
      <4>1. over = c.text /\ under # Absent
        BY <3>5, EmptySeq DEF Files!NamesFit
      <4> HIDE DEF over, under
      <4> QED
        BY <1>1, <2>1, <3>5, <4>1
    <3> HIDE DEF over, under, n
    <3>7. \A p \in Paths : disk'[p] = IF p = c.path THEN c.text ELSE disk[p]
      BY <3>6 DEF Files!Put, PatchInv
    <3>8. \A p \in Paths : p # c.path => After(c, n + 1)[p] = After(c, n)[p]
      <4>1. After(c, n) = [p \in Paths |-> After(c, n)[p]]
        BY <2>1, <3>3, AfterTyped
      <4>2. Goes(c, n + 1)
        BY <3>1, <3>3 DEF Opened
      <4> QED
        BY <2>1, <3>2, <4>1, <4>2, AfterOne
    <3>9. \A p \in c.paths : disk'[p] = After(c, n + 1)[p]
      <4>1. ASSUME NEW p \in c.paths PROVE disk'[p] = After(c, n + 1)[p]
        <5>1. p \in Paths
          BY <2>1 DEF PatchCall
        <5>2. CASE p = c.path
          BY <3>2, <3>7, <5>1, <5>2
        <5>3. CASE p # c.path
          BY <3>1, <3>7, <3>8, <5>1, <5>3 DEF Opened, n
        <5> QED
          BY <5>2, <5>3
      <4> QED
        BY <4>1
    <3>10. Prepared(on, n + 1) /\ Len(on.prepared) = Len(on.hunks) - (n + 1)
      <4>1. Prepared(c, n + 1) /\ Len(c.prepared) = Len(c.hunks) - (n + 1)
        BY <3>1 DEF Opened, n
      <4>2. on.prepared = c.prepared /\ on.hunks = c.hunks
        BY <2>2
      <4>3. Prepared(on, n + 1)
        BY <2>4, <4>1, <4>2 DEF Prepared
      <4> QED
        BY <4>1, <4>2, <4>3
    <3>11. \A k \in 1 .. Len(on.hunks) : Goes(on, k)
      BY <2>2, <2>4, <3>1 DEF Opened
    <3>12. on.applied = n + 1
      BY <2>2 DEF n
    <3>13. Applying(on, disk')
      BY <2>2, <2>4, <3>3, <3>9, <3>10, <3>11, <3>12 DEF Applying
    <3>14. PatchFits(on, disk')
      BY <2>2, <2>3, <3>13 DEF PatchFits, AtWork
    <3> QED
      BY <3>6, <3>14, PutFits
  <2> QED
    BY <2>1, <2>5, <2>6 DEF PatchCall
<1> QED
  BY <1>1, <1>2, <1>3 DEF PatchFits, PatchOver

LEMMA OneFileFits ==
    ASSUME Files!NamesFit, PatchInv, NEW a \in Agents,
           Files!EditRead(a) \/ Files!EditRecheck(a) \/ Files!EditOpen(a) \/ Files!WriteOpen(a)
    PROVE  PatchInv'
<1>1. \A d : PatchFits(Files!Idle(Files!NoReport), d)
  BY OtherReport DEF Files!NoReport
<1>2. ASSUME NEW next, OneFile(next) PROVE \A d : PatchFits(next, d)
  BY <1>2 DEF PatchFits
<1>3. CASE Files!EditRead(a)
  <2>1. PICK next : Files!Step(a, next) /\ OneFile(next)
    BY <1>3 DEF Files!EditRead, OneFile
  <2> QED
    BY <1>2, <2>1, StepFits
<1>4. ASSUME call[a].pc \in {"computed", "rechecked"} PROVE OneFile(call[a])
  BY <1>4 DEF PatchInv, PatchFits, PatchOver, AtWork, OneFile
<1>5. CASE Files!EditRecheck(a)
  <2> DEFINE next == [call[a] EXCEPT !.pc = "rechecked", !.touched = FALSE]
  <2>1. OneFile(call[a])
    BY <1>4, <1>5 DEF Files!EditRecheck
  <2>2. OneFile(next)
    BY <2>1 DEF OneFile
  <2>3. Files!Step(a, next) \/ Files!Step(a, Files!Idle(Files!NoReport))
    BY <1>5 DEF Files!EditRecheck
  <2> HIDE DEF next
  <2> QED
    BY <1>1, <1>2, <2>2, <2>3, StepFits
<1>6. CASE Files!EditOpen(a)
  <2> DEFINE next == [call[a] EXCEPT !.pc = "opened", !.before = disk[call[a].path],
                                     !.alone = ~call[a].touched]
  <2>1. OneFile(call[a])
    BY <1>4, <1>6 DEF Files!EditOpen
  <2>2. OneFile(next)
    BY <2>1 DEF OneFile
  <2>3. Files!Put(a, call[a].path, <<>>, next) \/ Files!Step(a, Files!Idle(Files!NoReport))
    BY <1>6 DEF Files!EditOpen
  <2> HIDE DEF next
  <2> QED
    BY <1>1, <1>2, <2>2, <2>3, PutFits, StepFits
<1>7. CASE Files!WriteOpen(a)
  <2>1. PICK p, next : Files!Put(a, p, <<>>, next) /\ OneFile(next)
    BY <1>7 DEF Files!WriteOpen, OneFile
  <2> QED
    BY <1>2, <2>1, PutFits
<1> QED
  BY <1>3, <1>5, <1>6, <1>7

LEMMA PatchStart == ASSUME Files!Init PROVE PatchInv
<1>1. PatchFits(Files!Idle(Files!NoReport), disk)
  BY OtherReport DEF Files!NoReport
<1>2. disk = [p \in Paths |-> disk[p]]
  BY DEF Files!Init
<1>3. call = [a \in Agents |-> call[a]] /\ \A a \in Agents : call[a] = Files!Idle(Files!NoReport)
  BY DEF Files!Init
<1> QED
  BY <1>1, <1>2, <1>3 DEF PatchInv

LEMMA PatchInvariant == ASSUME Files!NamesFit, Files!InputsFit PROVE Files!Spec => []PatchInv
<1>1. Files!Init => PatchInv
  BY PatchStart
<1>2. PatchInv /\ [Files!Next]_Files!fileVars => PatchInv'
  <2> SUFFICES ASSUME PatchInv, [Files!Next]_Files!fileVars PROVE PatchInv'
    OBVIOUS
  <2>1. ASSUME NEW p \in Paths, Files!Meddle(p) PROVE PatchInv'
    <3>1. PICK content : Files!Put("nobody", p, content, <<>>)
      BY <2>1 DEF Files!Meddle
    <3> QED
      BY <3>1, PutFits DEF Files!NamesFit
  <2>2. ASSUME NEW a \in Agents, Files!PatchParse(a) \/ Files!PatchVerify(a) \/ Files!PatchVerified(a)
        PROVE  PatchInv'
    BY <2>2, ParseFits, VerifyFits, VerifiedFits
  <2>3. ASSUME NEW a \in Agents, Files!PatchApply(a) \/ Files!PatchDone(a) \/ Files!WriteText(a)
        PROVE  PatchInv'
    BY <2>3, ApplyFits, DoneFits, WriteFits
  <2>4. CASE UNCHANGED Files!fileVars
    BY <2>4 DEF Files!fileVars, PatchInv
  <2> QED
    BY <2>1, <2>2, <2>3, <2>4, OneFileFits DEF Files!Next
<1> QED
  BY <1>1, <1>2, PTL DEF Files!Spec

\* For any Agents, files and patches: a patch nobody interferes with is its sections
\* one after the other, verified all at once before the first is applied, rejected
\* without a trace or applied as far as its report says (apply_patch.h 69-119).
THEOREM PatchesAreSections ==
    ASSUME Files!NamesFit, Files!InputsFit PROVE Files!Spec => []Files!PatchIsItsSections
<1>1. PatchInv => Files!PatchIsItsSections
  <2> SUFFICES ASSUME PatchInv, NEW a \in Agents, call[a].pc = "idle", call[a].report.tool = "apply_patch"
               PROVE  IsSections(call[a].report)
    BY DEF Files!PatchIsItsSections, IsSections
  <2> QED
    BY DEF PatchInv, PatchFits, PatchOver, OneFile, AtWork
<1> QED
  BY <1>1, PatchInvariant, PTL

-----------------------------------------------------------------------------
(* Sequences and ranks *)

FlatStep(f, s, i) == IF i = 1 THEN s[i] ELSE f[i - 1] \o s[i]

IsFlat(f, s, n) == f = [i \in 1 .. n |-> FlatStep(f, s, i)]

LEMMA FlatExists ==
    ASSUME NEW s, NEW n \in Nat
    PROVE  \E f : IsFlat(f, s, n)
<1> DEFINE T == {m \in Nat : \E f : IsFlat(f, s, m)}
<1>1. 0 \in T
  <2> DEFINE f == [k \in 1 .. 0 |-> s]
  <2>1. f = [k \in 1 .. 0 |-> FlatStep(f, s, k)]
    OBVIOUS
  <2> QED
    BY <2>1 DEF IsFlat
<1>2. ASSUME NEW m \in Nat, m \in T PROVE m + 1 \in T
  <2>1. PICK f : f = [k \in 1 .. m |-> FlatStep(f, s, k)]
    BY <1>2 DEF IsFlat
  <2> DEFINE next == FlatStep(f, s, m + 1)
             g == [k \in 1 .. m + 1 |-> IF k = m + 1 THEN next ELSE f[k]]
  <2> HIDE DEF next
  <2>2. \A k \in 1 .. m : f[k] = FlatStep(f, s, k)
    BY <2>1
  <2>3. \A k \in 1 .. m : g[k] = f[k]
    OBVIOUS
  <2>4. ASSUME NEW k \in 1 .. m + 1 PROVE g[k] = FlatStep(g, s, k)
    <3>1. CASE k = m + 1
      <4>1. g[k] = next /\ k - 1 = m /\ (k # 1 => m \in 1 .. m)
        BY <3>1
      <4> HIDE DEF g
      <4> QED
        BY <2>3, <3>1, <4>1 DEF FlatStep, next
    <3>2. CASE k # m + 1
      <4>1. k \in 1 .. m /\ (k # 1 => k - 1 \in 1 .. m)
        BY <3>2
      <4> HIDE DEF g
      <4> QED
        BY <2>2, <2>3, <4>1 DEF FlatStep
    <3> QED
      BY <3>1, <3>2
  <2>5. g = [k \in 1 .. m + 1 |-> g[k]]
    OBVIOUS
  <2> HIDE DEF g
  <2>6. g = [k \in 1 .. m + 1 |-> FlatStep(g, s, k)]
    BY <2>4, <2>5
  <2> QED
    BY <2>6 DEF IsFlat
<1> HIDE DEF T
<1>3. n \in T
  BY <1>1, <1>2, SetInduction
<1> QED
  BY <1>3 DEF T

LEMMA FlatIs ==
    ASSUME NEW s, NEW n \in Nat, n # 0, Len(s) = n
    PROVE  \E f : IsFlat(f, s, n) /\ Sse!FlattenSeq(s) = f[n]
<1> DEFINE F == CHOOSE f : IsFlat(f, s, n)
<1>1. IsFlat(F, s, n)
  BY FlatExists
<1>2. Sse!FlattenSeq(s) = F[n]
  BY DEF Sse!FlattenSeq, IsFlat, FlatStep
<1> HIDE DEF F
<1> QED
  BY <1>1, <1>2

\* One sequence more to be joined with those before it.
LEMMA FlatGrows ==
    ASSUME NEW S, NEW n \in Nat, NEW s \in [1 .. n -> Seq(S)], NEW t \in [1 .. n + 1 -> Seq(S)],
           \A i \in 1 .. n : s[i] = t[i]
    PROVE  /\ Sse!FlattenSeq(s) \in Seq(S)
           /\ Sse!FlattenSeq(t) = Sse!FlattenSeq(s) \o t[n + 1]
<1> DEFINE k == n + 1
<1>1. Len(s) = n /\ Len(t) = k /\ k \in Nat /\ k # 0 /\ k - 1 = n
  OBVIOUS
<1>2. PICK g : IsFlat(g, t, k) /\ Sse!FlattenSeq(t) = g[k]
  BY <1>1, FlatIs
<1>3. \A i \in 1 .. k : g[i] = FlatStep(g, t, i)
  BY <1>2 DEF IsFlat
<1>4. CASE n = 0
  <2>1. s = <<>> /\ Sse!FlattenSeq(s) = <<>>
    BY <1>1, <1>4 DEF Sse!FlattenSeq
  <2>2. k = 1 /\ g[k] = t[k] /\ t[k] \in Seq(S)
    BY <1>3, <1>4 DEF FlatStep
  <2>3. <<>> \o t[k] = t[k] /\ <<>> \in Seq(S)
    BY <2>2
  <2> HIDE DEF k
  <2>4. Sse!FlattenSeq(t) = <<>> \o t[k]
    BY <1>2, <2>2, <2>3
  <2>5. Sse!FlattenSeq(s) \in Seq(S) /\ Sse!FlattenSeq(t) = Sse!FlattenSeq(s) \o t[k]
    BY <2>1, <2>3, <2>4
  <2> QED
    BY <2>5 DEF k
<1>5. CASE n # 0
  <2>1. PICK f : IsFlat(f, s, n) /\ Sse!FlattenSeq(s) = f[n]
    BY <1>1, <1>5, FlatIs
  <2>2. \A i \in 1 .. n : f[i] = FlatStep(f, s, i)
    BY <2>1 DEF IsFlat
  <2> DEFINE T == {i \in Nat : i \in 1 .. n => f[i] = g[i] /\ f[i] \in Seq(S)}
  <2>3. 0 \in T
    OBVIOUS
  <2>4. ASSUME NEW i \in Nat, i \in T PROVE i + 1 \in T
    <3> SUFFICES ASSUME i + 1 \in 1 .. n PROVE f[i + 1] = g[i + 1] /\ f[i + 1] \in Seq(S)
      OBVIOUS
    <3> DEFINE j == i + 1
    <3>1. j \in 1 .. n /\ j \in 1 .. k /\ j - 1 = i /\ (j # 1 => i \in 1 .. n)
      OBVIOUS
    <3>2. s[j] = t[j] /\ s[j] \in Seq(S)
      BY <3>1
    <3>3. f[j] = FlatStep(f, s, j) /\ g[j] = FlatStep(g, t, j)
      BY <1>3, <2>2, <3>1
    <3>4. j # 1 => f[i] = g[i] /\ f[i] \in Seq(S)
      BY <2>4, <3>1
    <3> HIDE DEF j, T
    <3>5. f[j] = g[j] /\ f[j] \in Seq(S)
      BY <3>1, <3>2, <3>3, <3>4 DEF FlatStep
    <3> QED
      BY <3>5 DEF j
  <2> HIDE DEF T
  <2>5. n \in T
    BY <2>3, <2>4, SetInduction
  <2>6. f[n] = g[n] /\ f[n] \in Seq(S)
    BY <1>5, <2>5 DEF T
  <2>7. k \in 1 .. k /\ k # 1
    BY <1>5
  <2> QED
    BY <1>1, <1>2, <1>3, <2>1, <2>6, <2>7 DEF FlatStep
<1> QED
  BY <1>4, <1>5

LEMMA SameCount == \A S : Sse!Cardinality(S) = Cardinality(S)
BY DEF Sse!Cardinality, Cardinality

\* The number of a member of a set is that of no other.
LEMMA RankFits ==
    ASSUME NEW S \in SUBSET Nat, IsFiniteSet(S), NEW i \in S
    PROVE  /\ Sse!Rank(S, i) \in 1 .. Cardinality(S)
           /\ \A j \in S : i # j => Sse!Rank(S, i) # Sse!Rank(S, j)
<1> DEFINE B(j) == {q \in S : q <= j}
<1>1. ASSUME NEW j \in S
      PROVE  /\ IsFiniteSet(B(j)) /\ Cardinality(B(j)) \in Nat
             /\ Cardinality(B(j)) <= Cardinality(S)
             /\ Sse!Rank(S, j) = Cardinality(B(j))
  <2>1. B(j) \in SUBSET S
    OBVIOUS
  <2>2. Sse!Rank(S, j) = Cardinality(B(j))
    BY SameCount DEF Sse!Rank
  <2> HIDE DEF B
  <2> QED
    BY <2>1, <2>2, FS_Subset, FS_CardinalityType
<1>2. Cardinality(B(i)) # 0
  <2>1. i \in B(i)
    OBVIOUS
  <2> HIDE DEF B
  <2> QED
    BY <1>1, <2>1, FS_EmptySet
<1>3. ASSUME NEW p \in S, NEW q \in S, p < q PROVE Cardinality(B(p)) # Cardinality(B(q))
  <2>1. B(p) \in SUBSET B(q)
    <3> SUFFICES ASSUME NEW x \in S, x <= p PROVE x <= q
      OBVIOUS
    <3>1. x \in Nat /\ p \in Nat /\ q \in Nat
      OBVIOUS
    <3> QED
      BY <1>3, <3>1
  <2>2. q \in Nat /\ p \in Nat
    OBVIOUS
  <2>3. q \in B(q) /\ q \notin B(p)
    BY <1>3, <2>2
  <2> HIDE DEF B
  <2> QED
    BY <1>1, <2>1, <2>3, FS_Subset
<1>4. Cardinality(S) \in Nat
  BY FS_CardinalityType
<1> HIDE DEF B
<1>5. ASSUME NEW j \in S, i # j PROVE Cardinality(B(i)) # Cardinality(B(j))
  <2>1. i < j \/ j < i
    BY <1>5
  <2> QED
    BY <1>3, <2>1
<1> QED
  BY <1>1, <1>2, <1>4, <1>5

\* One more, behind all others.
LEMMA RankGrows ==
    ASSUME NEW n \in Nat, NEW S \in SUBSET (1 .. n)
    PROVE  /\ IsFiniteSet(S) /\ Cardinality(S) \in Nat
           /\ IsFiniteSet(S \cup {n + 1})
           /\ Cardinality(S \cup {n + 1}) = Cardinality(S) + 1
           /\ \A j \in 1 .. n : Sse!Rank(S \cup {n + 1}, j) = Sse!Rank(S, j)
           /\ Sse!Rank(S \cup {n + 1}, n + 1) = Cardinality(S) + 1
<1>0. \A i \in S : i \in 1 .. n
  OBVIOUS
<1>1. IsFiniteSet(S)
  <2>1. IsFiniteSet(1 .. n)
    BY FS_Interval
  <2> QED
    BY <2>1, FS_Subset
<1>2. Cardinality(S) \in Nat
  BY <1>1, FS_CardinalityType
<1>3. n + 1 \notin S
  BY <1>0
<1>4. IsFiniteSet(S \cup {n + 1}) /\ Cardinality(S \cup {n + 1}) = Cardinality(S) + 1
  BY <1>1, <1>3, FS_AddElement
<1>5. ASSUME NEW j \in 1 .. n PROVE Sse!Rank(S \cup {n + 1}, j) = Sse!Rank(S, j)
  <2>1. {i \in S \cup {n + 1} : i <= j} = {i \in S : i <= j}
    BY <1>0
  <2> QED
    BY <2>1 DEF Sse!Rank
<1>6. {i \in S \cup {n + 1} : i <= n + 1} = S \cup {n + 1}
  <2>1. \A i \in S \cup {n + 1} : i <= n + 1
    BY <1>0
  <2> QED
    BY <2>1
<1>7. Sse!Rank(S \cup {n + 1}, n + 1) = Cardinality(S) + 1
  BY <1>4, <1>6, SameCount DEF Sse!Rank
<1> QED
  BY <1>1, <1>2, <1>4, <1>5, <1>7

-----------------------------------------------------------------------------
(* SseStream: the deltas of a chunk *)

DeltaSet == UNION {{c.calls[i] : i \in DOMAIN c.calls} : c \in Chunks}
Ids == {d.id : d \in DeltaSet}
ArgSet == {d.args : d \in DeltaSet}
CallSet == [id : Ids, args : Seq(ArgSet)]

\* s is the last of the starts of index x.
Latest(d, x, s) ==
    /\ s \in Sse!Begins(d) /\ d[s].index = x
    /\ \A q \in Sse!Begins(d) : s < q => d[q].index # x

IndexFits(d, index) ==
    /\ \A s \in Sse!Begins(d) : d[s].index \in DOMAIN index
    /\ \A x \in DOMAIN index : \E s : Latest(d, x, s) /\ index[x] = Sse!Rank(Sse!Begins(d), s)

CurrentFits(current, made) ==
    current = Sse!Missing \/ \E i \in DOMAIN made : made[i].id = current

IsReply(r) == r = [current |-> r.current, text |-> r.text, calls |-> r.calls, index |-> r.index]

LEMMA ReplyMade ==
    ASSUME NEW current, NEW words, NEW made, NEW index,
           NEW r, r = [current |-> current, text |-> words, calls |-> made, index |-> index]
    PROVE  IsReply(r) /\ r.current = current /\ r.text = words /\ r.calls = made /\ r.index = index
BY DEF IsReply

CallWith(c, a) == [c EXCEPT !.args = Append(@, a)]
ReplyWith(p, k, a) == [p EXCEPT !.calls[k].args = Append(@, a)]

LEMMA ArgsPut ==
    ASSUME NEW p, NEW k, NEW a, IsReply(p)
    PROVE  ReplyWith(p, k, a) = [current |-> p.current, text |-> p.text,
                                 calls |-> [p.calls EXCEPT ![k] = CallWith(p.calls[k], a)], index |-> p.index]
<1> DEFINE made == [p.calls EXCEPT ![k] = CallWith(p.calls[k], a)]
<1>1. ReplyWith(p, k, a) = [p EXCEPT !.calls = made]
  BY DEF CallWith, ReplyWith
<1> HIDE DEF made
<1>2. [p EXCEPT !.calls = made]
        = [current |-> p.current, text |-> p.text, calls |-> made, index |-> p.index]
  BY DEF IsReply
<1> QED
  BY <1>1, <1>2 DEF made

Placed(q, m, c) == [q EXCEPT ![m] = c]
IsNext(q, m) == m = Len(q) + 1

LEMMA AppendPut ==
    ASSUME NEW S, NEW q \in Seq(S), NEW z \in S, NEW c \in S, NEW m, IsNext(q, m)
    PROVE  Append(q, z)[m] = z /\ Placed(Append(q, z), m, c) = Append(q, c)
<1> DEFINE a == Append(q, z)
           b == [a EXCEPT ![m] = c]
           e == Append(q, c)
<1>0. m = Len(q) + 1
  BY DEF IsNext
<1>1. a \in Seq(S) /\ Len(a) = m /\ a[m] = z /\ \A i \in 1 .. Len(q) : a[i] = q[i]
  BY <1>0
<1>2. e \in Seq(S) /\ Len(e) = m /\ e[m] = c /\ \A i \in 1 .. Len(q) : e[i] = q[i]
  BY <1>0
<1>3. m \in Nat /\ \A i \in 1 .. m : i = m \/ i \in 1 .. Len(q)
  BY <1>0
<1>4. DOMAIN a = 1 .. m /\ DOMAIN e = 1 .. m /\ DOMAIN b = DOMAIN a
  BY <1>1, <1>2
<1> HIDE DEF a, e
<1>5. b = [i \in 1 .. m |-> b[i]]
  BY <1>4
<1>6. \A i \in 1 .. m : b[i] = IF i = m THEN c ELSE a[i]
  BY <1>4
<1> HIDE DEF b
<1>9. e = [i \in 1 .. m |-> e[i]]
  BY <1>2, <1>4
<1>7. \A i \in 1 .. m : b[i] = e[i]
  BY <1>1, <1>2, <1>3, <1>6
<1>8. b = e
  BY <1>5, <1>7, <1>9
<1> QED
  BY <1>1, <1>8 DEF a, b, e, Placed

\* The reply is what the deltas d spell.
ReplyFits(r, d) ==
    /\ d \in Seq(DeltaSet)
    /\ IsReply(r)
    /\ r.calls \in Seq(CallSet)
    /\ DOMAIN r.index \subseteq Nat
    /\ Sse!Spells(d, r.calls)
    /\ IndexFits(d, r.index)
    /\ CurrentFits(r.current, r.calls)

\* What call is of the start s.
CallSpells(d, s, call1) ==
    /\ call1.id = d[s].id
    /\ Len(call1.args) = Cardinality(Sse!Owned(d, s))
    /\ \A j \in Sse!Owned(d, s) : call1.args[Sse!Rank(Sse!Owned(d, s), j)] = d[j].args

LEMMA SpellsIs ==
    ASSUME NEW d, NEW made
    PROVE  Sse!Spells(d, made)
             <=> /\ Len(made) = Cardinality(Sse!Begins(d))
                 /\ \A s \in Sse!Begins(d) : CallSpells(d, s, made[Sse!Rank(Sse!Begins(d), s)])
BY SameCount DEF Sse!Spells, CallSpells

\* One delta more: e is d and delta.
OneDelta(d, delta, e) ==
    /\ d \in Seq(DeltaSet) /\ delta \in DeltaSet /\ e = Append(d, delta)

LEMMA DeltaAdded ==
    ASSUME NEW d, NEW delta, NEW e, OneDelta(d, delta, e), NEW n, n = Len(d)
    PROVE  /\ n \in Nat /\ Len(e) = n + 1 /\ e[n + 1] = delta
           /\ \A i \in 1 .. n : e[i] = d[i]
           /\ e \in Seq(DeltaSet) /\ DOMAIN d = 1 .. n /\ DOMAIN e = 1 .. n + 1
BY DEF OneDelta

LEMMA StartsGrow ==
    ASSUME NEW d, NEW delta, NEW e, OneDelta(d, delta, e), NEW n, n = Len(d)
    PROVE  /\ Sse!Begins(d) \subseteq 1 .. n
           /\ Sse!Begins(e) = IF delta.id = Sse!Missing THEN Sse!Begins(d)
                              ELSE Sse!Begins(d) \cup {n + 1}
<1>1. /\ n \in Nat /\ e[n + 1] = delta
      /\ \A i \in 1 .. n : e[i] = d[i]
      /\ DOMAIN d = 1 .. n /\ DOMAIN e = 1 .. n + 1
  BY DeltaAdded, SMTT(30)
<1>2. Sse!Begins(d) = {s \in 1 .. n : d[s].id # Sse!Missing}
  BY <1>1 DEF Sse!Begins
<1>3. Sse!Begins(e) = {s \in 1 .. n + 1 : e[s].id # Sse!Missing}
  BY <1>1 DEF Sse!Begins
<1>4. ASSUME NEW s PROVE s \in 1 .. n + 1 <=> s \in 1 .. n \/ s = n + 1
  BY <1>1
<1>5. n + 1 \notin 1 .. n
  BY <1>1
<1> QED
  BY <1>1, <1>2, <1>3, <1>4, <1>5

\* The call that owns the arguments of delta, if they have an owner.
OwnsNext(d, delta, s) ==
    /\ delta.args # Sse!Missing /\ delta.id = Sse!Missing
    /\ Latest(d, delta.index, s)

LEMMA OwnedGrows ==
    ASSUME NEW d, NEW delta, NEW e, OneDelta(d, delta, e), NEW n, n = Len(d), NEW s \in Sse!Begins(d)
    PROVE  /\ Sse!Owned(d, s) \subseteq 1 .. n
           /\ Sse!Owned(e, s) = IF OwnsNext(d, delta, s) THEN Sse!Owned(d, s) \cup {n + 1}
                                ELSE Sse!Owned(d, s)
<1>1. /\ n \in Nat /\ e[n + 1] = delta /\ Len(e) = n + 1
      /\ \A i \in 1 .. n : e[i] = d[i]
  BY DeltaAdded
<1>2. /\ Sse!Begins(d) \subseteq 1 .. n
      /\ Sse!Begins(e) = IF delta.id = Sse!Missing THEN Sse!Begins(d)
                         ELSE Sse!Begins(d) \cup {n + 1}
  BY StartsGrow
<1>3. s \in 1 .. n /\ \A q \in Sse!Begins(d) : q \in 1 .. n
  BY <1>2
<1> DEFINE Own(g, j) == /\ g[j].args # Sse!Missing /\ g[j].index = g[s].index
                        /\ \A r \in Sse!Begins(g) : s < r /\ r <= j => g[r].index # g[s].index
<1>4. Sse!Owned(d, s) = {j \in s .. n : Own(d, j)}
  BY DEF Sse!Owned
<1>5. Sse!Owned(e, s) = {j \in s .. n + 1 : Own(e, j)}
  BY <1>1 DEF Sse!Owned
<1>6. ASSUME NEW j \in s .. n PROVE Own(d, j) <=> Own(e, j)
  <2>1. j \in 1 .. n /\ e[j] = d[j] /\ e[s] = d[s] /\ \A r \in Sse!Begins(d) : e[r] = d[r]
    BY <1>1, <1>3
  <2>2. ~(n + 1 <= j)
    BY <1>1, <2>1
  <2>3. (\A r \in Sse!Begins(e) : s < r /\ r <= j => e[r].index # e[s].index)
          <=> (\A r \in Sse!Begins(d) : s < r /\ r <= j => d[r].index # d[s].index)
    BY <1>2, <2>1, <2>2
  <2> QED
    BY <2>1, <2>3
<1>7. Own(e, n + 1) <=> OwnsNext(d, delta, s)
  <2>1. e[s] = d[s] /\ \A r \in Sse!Begins(d) : e[r] = d[r] /\ r <= n + 1
    BY <1>1, <1>3
  <2>2. s < n + 1 /\ n + 1 <= n + 1
    BY <1>1, <1>3
  <2>3. CASE delta.id = Sse!Missing
    <3>1. Sse!Begins(e) = Sse!Begins(d)
      BY <1>2, <2>3
    <3>2. Own(e, n + 1)
            <=> /\ delta.args # Sse!Missing /\ delta.index = d[s].index
                /\ \A r \in Sse!Begins(d) : s < r => d[r].index # d[s].index
      BY <1>1, <2>1, <3>1
    <3> HIDE DEF Own
    <3> QED
      BY <2>3, <3>2 DEF OwnsNext, Latest
  <2>4. CASE delta.id # Sse!Missing
    <3>1. n + 1 \in Sse!Begins(e)
      BY <1>2, <2>4
    <3>2. ~OwnsNext(d, delta, s)
      BY <2>4 DEF OwnsNext
    <3> QED
      BY <1>1, <2>2, <3>1, <3>2
  <2> QED
    BY <2>3, <2>4
<1> HIDE DEF Own
<1>8. ASSUME NEW j PROVE /\ j \in s .. n + 1 <=> j \in s .. n \/ j = n + 1
                         /\ j \in s .. n => j \in 1 .. n
  BY <1>1, <1>3
<1>9. n + 1 \notin s .. n
  BY <1>1, <1>3
<1> QED
  BY <1>4, <1>5, <1>6, <1>7, <1>8, <1>9

LEMMA CallKept ==
    ASSUME NEW d, NEW delta, NEW e, OneDelta(d, delta, e), NEW n, n = Len(d), NEW s \in Sse!Begins(d),
           NEW c, CallSpells(d, s, c), ~OwnsNext(d, delta, s)
    PROVE  CallSpells(e, s, c)
<1>1. \A i \in 1 .. n : e[i] = d[i]
  BY DeltaAdded
<1>2. s \in 1 .. n
  BY StartsGrow
<1>3. Sse!Owned(d, s) \subseteq 1 .. n /\ Sse!Owned(e, s) = Sse!Owned(d, s)
  BY OwnedGrows
<1> QED
  BY <1>1, <1>2, <1>3 DEF CallSpells

Grown(c, delta, c2) ==
    c.args \in Seq(ArgSet) /\ c2.id = c.id /\ c2.args = Append(c.args, delta.args)

LEMMA CallGrows ==
    ASSUME NEW d, NEW delta, NEW e, OneDelta(d, delta, e), NEW n, n = Len(d), NEW s \in Sse!Begins(d),
           NEW c, CallSpells(d, s, c), OwnsNext(d, delta, s), NEW c2, Grown(c, delta, c2)
    PROVE  CallSpells(e, s, c2) /\ c2.args \in Seq(ArgSet)
<1>1. n \in Nat /\ e[n + 1] = delta /\ \A i \in 1 .. n : e[i] = d[i]
  BY DeltaAdded
<1>2. s \in 1 .. n
  BY StartsGrow
<1> DEFINE O == Sse!Owned(d, s)
<1>3. O \in SUBSET (1 .. n) /\ Sse!Owned(e, s) = O \cup {n + 1}
  BY OwnedGrows
<1>4. delta.args \in ArgSet
  BY DEF ArgSet, OneDelta
<1>5. /\ Len(c.args) = Cardinality(O)
      /\ \A j \in O : c.args[Sse!Rank(O, j)] = d[j].args
  BY DEF CallSpells
<1> HIDE DEF O
<1>6. /\ Cardinality(O) \in Nat /\ IsFiniteSet(O)
      /\ Cardinality(O \cup {n + 1}) = Cardinality(O) + 1
      /\ \A j \in 1 .. n : Sse!Rank(O \cup {n + 1}, j) = Sse!Rank(O, j)
      /\ Sse!Rank(O \cup {n + 1}, n + 1) = Cardinality(O) + 1
  BY <1>1, <1>3, RankGrows
<1>7. \A j \in O : j \in 1 .. n /\ j \in Nat /\ Sse!Rank(O, j) \in 1 .. Cardinality(O)
  BY <1>3, <1>6, RankFits
<1>8. /\ c2.args \in Seq(ArgSet) /\ Len(c2.args) = Cardinality(O) + 1
      /\ \A i \in 1 .. Cardinality(O) : c2.args[i] = c.args[i]
      /\ c2.args[Cardinality(O) + 1] = delta.args
  BY <1>4, <1>5 DEF Grown
<1>9. ASSUME NEW j \in O \cup {n + 1}
      PROVE  c2.args[Sse!Rank(O \cup {n + 1}, j)] = e[j].args
  <2>1. CASE j \in O
    BY <1>1, <1>5, <1>6, <1>7, <1>8, <2>1
  <2>2. CASE j = n + 1
    BY <1>1, <1>6, <1>8, <2>2
  <2> QED
    BY <2>1, <2>2
<1>10. c2.id = e[s].id
  BY <1>1, <1>2 DEF CallSpells, Grown
<1> QED
  <2> DEFINE Q == O \cup {n + 1}
  <2>1. Sse!Owned(e, s) = Q /\ Len(c2.args) = Cardinality(Q)
    BY <1>3, <1>6, <1>8
  <2>2. \A j \in Q : c2.args[Sse!Rank(Q, j)] = e[j].args
    BY <1>9
  <2> HIDE DEF Q
  <2>3. CallSpells(e, s, c2)
    BY <1>10, <2>1, <2>2 DEF CallSpells
  <2> QED
    BY <1>8, <2>3

LEMMA CallStarts ==
    ASSUME NEW d, NEW delta, NEW e, OneDelta(d, delta, e), NEW n, n = Len(d), delta.id # Sse!Missing,
           NEW c, c.id = delta.id, c.args = IF delta.args = Sse!Missing THEN <<>> ELSE <<delta.args>>
    PROVE  CallSpells(e, n + 1, c)
<1>1. n \in Nat /\ e[n + 1] = delta /\ Len(e) = n + 1
  BY DeltaAdded
<1>2. \A j \in (n + 1) .. (n + 1) : j = n + 1
  BY <1>1
<1>3. n + 1 \in (n + 1) .. (n + 1) /\ ~(n + 1 < n + 1)
  BY <1>1
<1>4. Sse!Owned(e, n + 1) = IF delta.args = Sse!Missing THEN {} ELSE {n + 1}
  <2> DEFINE m == n + 1
             Own(j) == /\ e[j].args # Sse!Missing /\ e[j].index = e[m].index
                       /\ \A r \in Sse!Begins(e) : m < r /\ r <= j => e[r].index # e[m].index
  <2>1. Sse!Owned(e, m) = {j \in m .. m : Own(j)}
    BY <1>1 DEF Sse!Owned
  <2>2. \A r \in Sse!Begins(e) : r \in 1 .. m
    BY <1>1 DEF Sse!Begins, OneDelta
  <2>3. \A r \in Sse!Begins(e) : ~(m < r /\ r <= m)
    BY <1>1, <2>2
  <2>4. Own(m) <=> delta.args # Sse!Missing
    BY <1>1, <2>3
  <2> HIDE DEF Own
  <2> QED
    BY <1>2, <1>3, <2>1, <2>4
<1>5. CASE delta.args = Sse!Missing
  BY <1>1, <1>4, <1>5, FS_EmptySet DEF CallSpells
<1>6. CASE delta.args # Sse!Missing
  <2>1. Cardinality({n + 1}) = 1
    BY FS_Singleton
  <2>2. Sse!Rank({n + 1}, n + 1) = 1
    <3>1. {i \in {n + 1} : i <= n + 1} = {n + 1}
      BY <1>1
    <3> QED
      BY <2>1, <3>1, SameCount DEF Sse!Rank
  <2>3. c.args = <<delta.args>> /\ Len(c.args) = 1 /\ c.args[1] = delta.args
    BY <1>6
  <2> QED
    BY <1>1, <1>4, <1>6, <2>1, <2>2, <2>3 DEF CallSpells
<1> QED
  BY <1>5, <1>6

\* What PutStart and PutArgs make of the reply fits one delta more.
LEMMA DeltaFits ==
    ASSUME NEW d, NEW delta, NEW e, OneDelta(d, delta, e), delta.index \in Nat,
           NEW r, ReplyFits(r, d)
    PROVE  /\ ReplyFits(Sse!PutArgs(Sse!PutStart(r, delta), delta), e)
           /\ Sse!PutArgs(Sse!PutStart(r, delta), delta).text = r.text
<1> DEFINE n == Len(d)
           S == Sse!Begins(d)
           x == delta.index
           t == Sse!PutArgs(Sse!PutStart(r, delta), delta)
<1> SUFFICES ReplyFits(t, e) /\ t.text = r.text
  OBVIOUS
<1>1. n \in Nat /\ e[n + 1] = delta /\ \A i \in 1 .. n : e[i] = d[i]
  BY DeltaAdded
<1>14. e \in Seq(DeltaSet)
  BY DEF OneDelta
<1>2. S \in SUBSET (1 .. n) /\ \A s \in S : e[s] = d[s] /\ s \in 1 .. n
  BY <1>1, StartsGrow
<1>3. /\ IsReply(r)
      /\ r.calls \in Seq(CallSet)
      /\ DOMAIN r.index \subseteq Nat
      /\ Sse!Spells(d, r.calls)
      /\ IndexFits(d, r.index)
      /\ CurrentFits(r.current, r.calls)
  BY DEF ReplyFits
<1>4. /\ Len(r.calls) = Cardinality(S)
      /\ \A s \in S : CallSpells(d, s, r.calls[Sse!Rank(S, s)])
  BY <1>3, SpellsIs
<1>5. /\ Cardinality(S) \in Nat /\ IsFiniteSet(S)
      /\ Cardinality(S \cup {n + 1}) = Cardinality(S) + 1
      /\ \A j \in 1 .. n : Sse!Rank(S \cup {n + 1}, j) = Sse!Rank(S, j)
      /\ Sse!Rank(S \cup {n + 1}, n + 1) = Cardinality(S) + 1
  BY <1>1, <1>2, RankGrows
<1>6. \A s \in S : /\ Sse!Rank(S, s) \in 1 .. Cardinality(S)
                   /\ \A q \in S : s # q => Sse!Rank(S, s) # Sse!Rank(S, q)
  BY <1>2, <1>5, RankFits
<1>7. delta.args \in ArgSet /\ delta.id \in Ids
  BY DEF OneDelta, ArgSet, Ids
<1>8. \A s : OwnsNext(d, delta, s) => s \in S /\ x \in DOMAIN r.index
                                      /\ delta.args # Sse!Missing /\ delta.id = Sse!Missing
  BY <1>3 DEF OwnsNext, Latest, IndexFits
<1>9. \A s, q \in S : \A y : Latest(d, y, s) /\ Latest(d, y, q) => s = q
  <2> SUFFICES ASSUME NEW s \in S, NEW q \in S, NEW y, Latest(d, y, s), Latest(d, y, q), s # q PROVE FALSE
    OBVIOUS
  <2>1. s < q \/ q < s
    BY <1>2
  <2> QED
    BY <2>1 DEF Latest
<1> HIDE DEF n, S
\* No start: the tables of starts stay.
<1>10. ASSUME delta.id = Sse!Missing
       PROVE  Sse!Begins(e) = S /\ IndexFits(e, r.index)
  <2>1. Sse!Begins(e) = S
    BY <1>10, StartsGrow DEF S, n
  <2>2. \A y, s : Latest(e, y, s) <=> Latest(d, y, s)
    BY <1>2, <2>1 DEF Latest, S
  <2> QED
    BY <1>2, <1>3, <2>1, <2>2 DEF IndexFits, S
<1>11. CASE delta.id = Sse!Missing /\ (delta.args = Sse!Missing \/ x \notin DOMAIN r.index)
  <2>1. t = r
    BY <1>11 DEF Sse!PutArgs, Sse!PutStart
  <2>2. ASSUME NEW s \in S PROVE CallSpells(e, s, r.calls[Sse!Rank(S, s)])
    <3>1. ~OwnsNext(d, delta, s)
      BY <1>8, <1>11
    <3> QED
      BY <1>4, <3>1, CallKept DEF n, S
  <2>3. Sse!Spells(e, r.calls)
    BY <1>4, <1>10, <1>11, <2>2, SpellsIs
  <2> HIDE DEF t
  <2> QED
    BY <1>3, <1>10, <1>11, <1>14, <2>1, <2>3 DEF ReplyFits
<1>12. CASE delta.id = Sse!Missing /\ delta.args # Sse!Missing /\ x \in DOMAIN r.index
  <2>1. PICK o : Latest(d, x, o) /\ r.index[x] = Sse!Rank(S, o)
    BY <1>3, <1>12 DEF IndexFits, S
  <2>2. o \in S /\ OwnsNext(d, delta, o)
    BY <1>12, <2>1 DEF OwnsNext, Latest, S
  <2> DEFINE k == Sse!Rank(S, o)
             c2 == [r.calls[k] EXCEPT !.args = Append(@, delta.args)]
             made == [r.calls EXCEPT ![k] = c2]
  <2>3. k \in 1 .. Cardinality(S) /\ k \in DOMAIN r.calls /\ r.calls[k] \in CallSet
    BY <1>3, <1>4, <1>6, <2>2
  <2>4. c2 \in CallSet /\ c2.id = r.calls[k].id /\ c2.args = Append(r.calls[k].args, delta.args)
    <3>1. r.calls[k].args \in Seq(ArgSet) /\ r.calls[k].id \in Ids
      BY <2>3 DEF CallSet
    <3> DEFINE as == Append(r.calls[k].args, delta.args)
    <3>2. as \in Seq(ArgSet)
      BY <1>7, <3>1
    <3>3. c2 = [r.calls[k] EXCEPT !.args = as]
      OBVIOUS
    <3> HIDE DEF as, c2, k
    <3>4. c2.args = as /\ c2.id = r.calls[k].id /\ c2 \in CallSet
      BY <2>3, <3>2, <3>3 DEF CallSet
    <3> QED
      BY <3>4 DEF as
  <2>5. t = [current |-> r.current, text |-> r.text, calls |-> made, index |-> r.index]
    <3>1. Sse!PutStart(r, delta) = r
      BY <1>12 DEF Sse!PutStart
    <3>2. t = [r EXCEPT !.calls[r.index[delta.index]].args = Append(@, delta.args)]
      BY <1>12, <3>1 DEF Sse!PutArgs
    <3> HIDE DEF t
    <3>3. t = ReplyWith(r, k, delta.args)
      BY <2>1, <3>2 DEF ReplyWith
    <3>4. c2 = CallWith(r.calls[k], delta.args)
      BY DEF CallWith
    <3> HIDE DEF c2, k
    <3> QED
      BY <1>3, <3>3, <3>4, ArgsPut
  <2> HIDE DEF c2
  <2>6. made \in Seq(CallSet) /\ Len(made) = Cardinality(S) /\ made[k] = c2
        /\ \A i \in 1 .. Cardinality(S) : i # k => made[i] = r.calls[i]
    BY <1>3, <1>4, <2>3, <2>4
  <2>7. ASSUME NEW s \in S PROVE CallSpells(e, s, made[Sse!Rank(S, s)])
    <3>1. CASE s = o
      <4>1. CallSpells(d, o, r.calls[k]) /\ r.calls[k].args \in Seq(ArgSet)
        BY <1>4, <2>2, <2>3 DEF CallSet
      <4>2. Grown(r.calls[k], delta, c2)
        BY <2>4, <4>1 DEF Grown
      <4> HIDE DEF k
      <4>3. CallSpells(e, o, c2)
        BY <2>2, <4>1, <4>2, CallGrows DEF n, S
      <4> QED
        BY <2>6, <3>1, <4>3 DEF k
    <3>2. CASE s # o
      <4>1. ~OwnsNext(d, delta, s)
        BY <1>9, <2>1, <2>2, <3>2 DEF OwnsNext
      <4>2. CallSpells(e, s, r.calls[Sse!Rank(S, s)])
        BY <1>4, <4>1, CallKept DEF n, S
      <4>3. made[Sse!Rank(S, s)] = r.calls[Sse!Rank(S, s)]
        BY <1>6, <2>2, <2>6, <3>2
      <4> QED
        BY <4>2, <4>3
    <3> QED
      BY <3>1, <3>2
  <2>8. Sse!Spells(e, made)
    BY <1>10, <1>12, <2>6, <2>7, SpellsIs
  <2>9. CurrentFits(r.current, made)
    <3>1. \A i \in DOMAIN r.calls : i \in DOMAIN made /\ made[i].id = r.calls[i].id
      BY <1>3, <1>4, <2>3, <2>4, <2>6
    <3> QED
      BY <1>3, <3>1 DEF CurrentFits
  <2> HIDE DEF made, k, t
  <2>10. IsReply(t) /\ t.current = r.current /\ t.text = r.text /\ t.calls = made /\ t.index = r.index
    BY <2>5, ReplyMade
  <2> QED
    BY <1>3, <1>10, <1>12, <1>14, <2>6, <2>8, <2>9, <2>10 DEF ReplyFits
<1>13. CASE delta.id # Sse!Missing
  <2> DEFINE m == Len(r.calls) + 1
             c == [id |-> delta.id, args |-> IF delta.args = Sse!Missing THEN <<>> ELSE <<delta.args>>]
             made == Append(r.calls, c)
             index == [i \in DOMAIN r.index \cup {x} |-> IF i = x THEN m ELSE r.index[i]]
             U == S \cup {n + 1}
  <2>1. m = Cardinality(S) + 1 /\ m \in Nat
    BY <1>4, <1>5
  <2>2. c \in CallSet
    BY <1>7 DEF CallSet
  <2>3. t = [current |-> delta.id, text |-> r.text, calls |-> made, index |-> index]
    <3> DEFINE p == [current |-> delta.id, text |-> r.text,
                     calls |-> Append(r.calls, [id |-> delta.id, args |-> <<>>]), index |-> index]
    <3>1. Sse!PutStart(r, delta) = p
      BY <1>3, <1>13 DEF Sse!PutStart, IsReply
    <3>2. CASE delta.args = Sse!Missing
      BY <3>1, <3>2 DEF Sse!PutArgs
    <3>3. CASE delta.args # Sse!Missing
      <4>1. p.index[x] = m /\ x \in DOMAIN p.index
        OBVIOUS
      <4>2. t = [p EXCEPT !.calls[p.index[x]].args = Append(@, delta.args)]
        BY <3>1, <3>3, <4>1 DEF Sse!PutArgs
      <4> DEFINE z == [id |-> delta.id, args |-> <<>>]
      <4>3. [z EXCEPT !.args = Append(@, delta.args)] = c
        BY <1>7, <3>3
      <4>4. z \in CallSet
        BY <1>7 DEF CallSet
      <4>5. p.calls = Append(r.calls, z) /\ p.current = delta.id /\ p.text = r.text
            /\ p.index = index /\ IsReply(p)
        BY DEF IsReply
      <4>6. c = CallWith(z, delta.args)
        BY <4>3 DEF CallWith
      <4>7. IsNext(r.calls, m)
        BY DEF IsNext
      <4> HIDE DEF p, c, z, index, t, m
      <4>13. r.calls \in Seq(CallSet)
        BY <1>3
      <4>8. Append(r.calls, z)[m] = z /\ Placed(Append(r.calls, z), m, c) = Append(r.calls, c)
        BY <2>2, <4>4, <4>7, <4>13, AppendPut
      <4>9. p.calls[m] = z /\ [p.calls EXCEPT ![m] = c] = Append(r.calls, c)
        BY <4>5, <4>8 DEF Placed
      <4>10. c = CallWith(p.calls[m], delta.args)
        BY <4>6, <4>9
      <4>11. t = ReplyWith(p, m, delta.args)
        BY <4>1, <4>2 DEF ReplyWith
      <4>12. t = [current |-> p.current, text |-> p.text, calls |-> [p.calls EXCEPT ![m] = c], index |-> p.index]
        BY <4>5, <4>10, <4>11, ArgsPut
      <4> QED
        BY <4>5, <4>9, <4>12
    <3> QED
      BY <3>2, <3>3
  <2>4. Sse!Begins(e) = U
    BY <1>13, StartsGrow DEF S, n
  <2> HIDE DEF c
  <2>5. /\ made \in Seq(CallSet) /\ Len(made) = Cardinality(U) /\ made[m] = c
        /\ \A i \in 1 .. Cardinality(S) : made[i] = r.calls[i]
    BY <1>3, <1>4, <1>5, <2>1, <2>2
  <2>6. ASSUME NEW s \in U PROVE CallSpells(e, s, made[Sse!Rank(U, s)])
    <3>1. CASE s \in S
      <4>1. ~OwnsNext(d, delta, s)
        BY <1>13 DEF OwnsNext
      <4>2. CallSpells(e, s, r.calls[Sse!Rank(S, s)])
        BY <1>4, <3>1, <4>1, CallKept DEF n, S
      <4> QED
        BY <1>2, <1>5, <1>6, <2>5, <3>1, <4>2
    <3>2. CASE s = n + 1
      <4>1. CallSpells(e, n + 1, c)
        BY <1>13, CallStarts DEF c, n
      <4> QED
        BY <1>5, <2>1, <2>5, <3>2, <4>1
    <3> QED
      BY <3>1, <3>2
  <2>7. Sse!Spells(e, made)
    BY <2>4, <2>5, <2>6, SpellsIs
  <2>8. IndexFits(e, index)
    <3>1. \A s \in S : s < n + 1 /\ ~(n + 1 < s)
      BY <1>1, <1>2
    <3>2. Latest(e, x, n + 1)
      BY <1>1, <2>4, <3>1 DEF Latest
    <3>3. \A s \in U : e[s].index \in DOMAIN index
      BY <1>1, <1>2, <1>3 DEF IndexFits, S
    <3>4. ASSUME NEW y \in DOMAIN index PROVE \E s : Latest(e, y, s) /\ index[y] = Sse!Rank(U, s)
      <4>1. CASE y = x
        BY <1>5, <2>1, <3>2, <4>1
      <4>2. CASE y # x
        <5>1. y \in DOMAIN r.index /\ index[y] = r.index[y]
          BY <4>2
        <5>2. PICK s : Latest(d, y, s) /\ r.index[y] = Sse!Rank(S, s)
          BY <1>3, <5>1 DEF IndexFits, S
        <5>3. Latest(e, y, s) /\ s \in S
          BY <1>1, <1>2, <2>4, <4>2, <5>2 DEF Latest, S
        <5> QED
          BY <1>2, <1>5, <5>1, <5>2, <5>3
      <4> QED
        BY <4>1, <4>2
    <3> HIDE DEF index, U
    <3> QED
      BY <2>4, <3>3, <3>4 DEF IndexFits
  <2>9. CurrentFits(delta.id, made)
    <3>1. c.id = delta.id /\ m \in DOMAIN made
      BY <1>4, <1>5, <2>1, <2>5 DEF c
    <3> QED
      BY <2>5, <3>1 DEF CurrentFits
  <2>10. DOMAIN index \subseteq Nat
    BY <1>3
  <2> HIDE DEF made, m, index, U, t
  <2>11. IsReply(t) /\ t.current = delta.id /\ t.text = r.text /\ t.calls = made /\ t.index = index
    BY <2>3, ReplyMade
  <2> QED
    BY <1>14, <2>5, <2>7, <2>8, <2>9, <2>10, <2>11 DEF ReplyFits
<1> QED
  BY <1>11, <1>12, <1>13

-----------------------------------------------------------------------------
(* SseStream: a line *)

AllFit == \A c \in Chunks : Sse!IsChunk(c)
Words == UNION {{c.text[i] : i \in DOMAIN c.text} : c \in Chunks}

LEMMA ChunkFits ==
    ASSUME AllFit, NEW c \in Chunks
    PROVE  /\ c.calls \in Seq(DeltaSet) /\ c.text \in Seq(Words) /\ c.finish \in BOOLEAN
           /\ \A i \in 1 .. Len(c.calls) : c.calls[i].index \in Nat
<1>1. Sse!IsChunk(c)
  BY DEF AllFit
<1>2. /\ c.finish \in BOOLEAN
      /\ c.text \in Seq({c.text[i] : i \in DOMAIN c.text})
      /\ c.calls \in Seq({c.calls[i] : i \in DOMAIN c.calls})
      /\ \A i \in DOMAIN c.calls : c.calls[i].index \in Nat
  BY <1>1 DEF Sse!IsChunk, Sse!Range
<1>3. ASSUME NEW q, q \in Seq({q[i] : i \in DOMAIN q}), NEW T, \A i \in DOMAIN q : q[i] \in T
      PROVE  q \in Seq(T)
  BY <1>3
<1>4. \A i \in DOMAIN c.calls : c.calls[i] \in DeltaSet
  BY DEF DeltaSet
<1>5. \A i \in DOMAIN c.text : c.text[i] \in Words
  BY DEF Words
<1>6. c.calls \in Seq(DeltaSet)
  BY <1>2, <1>3, <1>4
<1>7. c.text \in Seq(Words)
  BY <1>2, <1>3, <1>5
<1>8. DOMAIN c.calls = 1 .. Len(c.calls)
  BY <1>6
<1> QED
  BY <1>2, <1>6, <1>7, <1>8

EmitFirst(r, c) == [r EXCEPT !.current = IF c.finish THEN Sse!Missing ELSE @, !.text = @ \o c.text]

EmitStep(f, r, c, k) ==
    IF k = 0 THEN EmitFirst(r, c) ELSE Sse!PutArgs(Sse!PutStart(f[k - 1], c.calls[k]), c.calls[k])

IsEmit(f, r, c, n) == f = [k \in 0 .. n |-> EmitStep(f, r, c, k)]

LEMMA EmitExists ==
    ASSUME NEW r, NEW c, NEW n \in Nat
    PROVE  \E f : IsEmit(f, r, c, n)
<1> DEFINE T == {m \in Nat : \E f : IsEmit(f, r, c, m)}
<1>1. 0 \in T
  <2> DEFINE f == [k \in 0 .. 0 |-> EmitFirst(r, c)]
  <2>1. f = [k \in 0 .. 0 |-> EmitStep(f, r, c, k)]
    BY DEF EmitStep
  <2> QED
    BY <2>1 DEF IsEmit
<1>2. ASSUME NEW m \in Nat, m \in T PROVE m + 1 \in T
  <2>1. PICK f : f = [k \in 0 .. m |-> EmitStep(f, r, c, k)]
    BY <1>2 DEF IsEmit
  <2> DEFINE next == Sse!PutArgs(Sse!PutStart(f[m], c.calls[m + 1]), c.calls[m + 1])
             g == [k \in 0 .. m + 1 |-> IF k = m + 1 THEN next ELSE f[k]]
  <2> HIDE DEF next
  <2>2. \A k \in 0 .. m : f[k] = EmitStep(f, r, c, k)
    BY <2>1
  <2>3. \A k \in 0 .. m : g[k] = f[k]
    OBVIOUS
  <2>4. ASSUME NEW k \in 0 .. m + 1 PROVE g[k] = EmitStep(g, r, c, k)
    <3>1. CASE k = m + 1
      <4>1. g[k] = next /\ k # 0 /\ k - 1 = m /\ g[m] = f[m]
        BY <2>3, <3>1
      <4> HIDE DEF g
      <4> QED
        BY <3>1, <4>1 DEF EmitStep, next
    <3>2. CASE k # m + 1
      <4>1. k \in 0 .. m /\ (k # 0 => k - 1 \in 0 .. m)
        BY <3>2
      <4> HIDE DEF g
      <4> QED
        BY <2>2, <2>3, <4>1 DEF EmitStep
    <3> QED
      BY <3>1, <3>2
  <2>5. g = [k \in 0 .. m + 1 |-> g[k]]
    OBVIOUS
  <2> HIDE DEF g
  <2>6. g = [k \in 0 .. m + 1 |-> EmitStep(g, r, c, k)]
    BY <2>4, <2>5
  <2> QED
    BY <2>6 DEF IsEmit
<1> HIDE DEF T
<1>3. n \in T
  BY <1>1, <1>2, SetInduction
<1> QED
  BY <1>3 DEF T

LEMMA EmitIs ==
    ASSUME NEW r, NEW c, c # Other, NEW n, n = Len(c.calls), n \in Nat
    PROVE  \E f : IsEmit(f, r, c, n) /\ Sse!EmitSseData(r, c) = f[n]
<1> DEFINE F == CHOOSE f : IsEmit(f, r, c, n)
<1>1. IsEmit(F, r, c, n)
  BY EmitExists
<1>2. Sse!EmitSseData(r, c) = F[n]
  BY DEF Sse!EmitSseData, IsEmit, EmitStep, EmitFirst
<1> HIDE DEF F
<1> QED
  BY <1>1, <1>2

LEMMA FirstFits ==
    ASSUME NEW r, NEW c, NEW d, ReplyFits(r, d)
    PROVE  ReplyFits(EmitFirst(r, c), d) /\ EmitFirst(r, c).text = r.text \o c.text
<1> DEFINE now == IF c.finish THEN Sse!Missing ELSE r.current
           words == r.text \o c.text
           e == EmitFirst(r, c)
<1>1. /\ d \in Seq(DeltaSet) /\ IsReply(r)
      /\ r.calls \in Seq(CallSet)
      /\ DOMAIN r.index \subseteq Nat
      /\ Sse!Spells(d, r.calls)
      /\ IndexFits(d, r.index)
      /\ CurrentFits(r.current, r.calls)
  BY DEF ReplyFits
<1>2. CurrentFits(now, r.calls)
  BY <1>1 DEF CurrentFits
<1>3. e = [r EXCEPT !.current = now, !.text = words]
  BY DEF EmitFirst
<1> HIDE DEF now, words, e
<1>6. e = [current |-> now, text |-> words, calls |-> r.calls, index |-> r.index]
  BY <1>1, <1>3 DEF IsReply
<1>4. IsReply(e) /\ e.current = now /\ e.text = words /\ e.calls = r.calls /\ e.index = r.index
  BY <1>6, ReplyMade
<1>5. ReplyFits(e, d)
  BY <1>1, <1>2, <1>4 DEF ReplyFits
<1> QED
  BY <1>4, <1>5 DEF e, words

\* A chunk: its deltas one after the other.
LEMMA Emitted ==
    ASSUME AllFit, NEW c \in Chunks, c # Other, NEW d \in Seq(DeltaSet), NEW r, ReplyFits(r, d)
    PROVE  /\ ReplyFits(Sse!EmitSseData(r, c), d \o c.calls)
           /\ Sse!EmitSseData(r, c).text = r.text \o c.text
<1> DEFINE q == c.calls
           n == Len(q)
           D(k) == d \o SubSeq(q, 1, k)
           text1 == r.text \o c.text
<1>1. q \in Seq(DeltaSet) /\ n \in Nat /\ \A i \in 1 .. n : q[i].index \in Nat
  BY ChunkFits
<1>2. PICK f : IsEmit(f, r, c, n) /\ Sse!EmitSseData(r, c) = f[n]
  BY <1>1, EmitIs
<1>3. \A k \in 0 .. n : f[k] = EmitStep(f, r, c, k)
  BY <1>2 DEF IsEmit
<1>4. D(0) = d /\ D(n) = d \o q
  <2> HIDE DEF q
  <2> QED
    BY <1>1
<1>5. ASSUME NEW k \in Nat, k + 1 <= n
      PROVE  D(k) \in Seq(DeltaSet) /\ D(k + 1) = Append(D(k), q[k + 1]) /\ q[k + 1] \in DeltaSet
  <2> HIDE DEF q
  <2>1. SubSeq(q, 1, k) \in Seq(DeltaSet) /\ q[k + 1] \in DeltaSet
    BY <1>1, <1>5
  <2>2. SubSeq(q, 1, k + 1) = Append(SubSeq(q, 1, k), q[k + 1])
    BY <1>1, <1>5
  <2>3. \A u \in Seq(DeltaSet), w \in DeltaSet : d \o Append(u, w) = Append(d \o u, w)
    OBVIOUS
  <2> QED
    BY <2>1, <2>2, <2>3
<1> HIDE DEF D, text1
<1> DEFINE T == {k \in Nat : k <= n => ReplyFits(f[k], D(k)) /\ f[k].text = text1}
<1>6. 0 \in T
  <2>1. 0 \in 0 .. n /\ f[0] = EmitFirst(r, c)
    BY <1>1, <1>3 DEF EmitStep
  <2> QED
    BY <1>4, <2>1, FirstFits DEF text1
<1>7. ASSUME NEW k \in Nat, k \in T PROVE k + 1 \in T
  <2> SUFFICES ASSUME k + 1 <= n PROVE ReplyFits(f[k + 1], D(k + 1)) /\ f[k + 1].text = text1
    OBVIOUS
  <2> DEFINE delta == q[k + 1]
  <2>1. k + 1 \in 0 .. n /\ k + 1 # 0 /\ (k + 1) - 1 = k /\ k <= n /\ k + 1 \in 1 .. n
    BY <1>1
  <2>2. f[k + 1] = Sse!PutArgs(Sse!PutStart(f[k], delta), delta)
    BY <1>3, <2>1 DEF EmitStep
  <2>3. ReplyFits(f[k], D(k)) /\ f[k].text = text1
    BY <1>7, <2>1
  <2>4. OneDelta(D(k), delta, D(k + 1)) /\ delta.index \in Nat
    BY <1>1, <1>5, <2>1 DEF OneDelta
  <2> HIDE DEF delta, T
  <2>5. /\ ReplyFits(Sse!PutArgs(Sse!PutStart(f[k], delta), delta), D(k + 1))
        /\ Sse!PutArgs(Sse!PutStart(f[k], delta), delta).text = f[k].text
    BY <2>3, <2>4, DeltaFits
  <2> QED
    BY <2>2, <2>3, <2>5
<1> HIDE DEF T
<1>8. n \in T
  BY <1>1, <1>6, <1>7, SetInduction
<1>9. ReplyFits(f[n], D(n)) /\ f[n].text = text1
  BY <1>1, <1>8 DEF T
<1> QED
  BY <1>2, <1>4, <1>9 DEF text1

-----------------------------------------------------------------------------
(* SseStream: the pieces of the body *)

BodyFits ==
    /\ Len(body) \in Nat
    /\ \A j \in 1 .. Len(body) : /\ (j % 3 = 0) = (body[j] = EOL)
                                 /\ j % 3 # 0 => body[j][1] \in Chunks \cup {Other}

\* The symbols behind the last line end of the first m.
LineFits(l, m) ==
    /\ l \in Seq({body[j] : j \in 1 .. Len(body)}) /\ Len(l) = m % 3
    /\ \A i \in 1 .. m % 3 : l[i] = body[(m - (m % 3)) + i]

\* What the callback has made of the first m symbols.
TakenFits(s, m) ==
    /\ s = [line |-> s.line, reply |-> s.reply]
    /\ LineFits(s.line, m)
    /\ ReplyFits(s.reply, Sse!DeltasOf(m \div 3))
    /\ s.reply.text = Sse!TextOf(m \div 3)

CallsOf(c) == IF c = Other THEN <<>> ELSE c.calls
WordsOf(c) == IF c = Other THEN <<>> ELSE c.text

LEMMA LineMore ==
    ASSUME AllFit, BodyFits, NEW n \in Nat, 3 * n + 3 <= Len(body)
    PROVE  /\ Sse!DeltasOf(n) \in Seq(DeltaSet)
           /\ Sse!DeltasOf(n + 1) = Sse!DeltasOf(n) \o CallsOf(body[3 * n + 1][1])
           /\ Sse!TextOf(n) \in Seq(Words)
           /\ Sse!TextOf(n + 1) = Sse!TextOf(n) \o WordsOf(body[3 * n + 1][1])
<1> DEFINE L(i) == body[3 * i - 2][1]
           k == n + 1
           d(m) == [i \in 1 .. m |-> CallsOf(L(i))]
           w(m) == [i \in 1 .. m |-> WordsOf(L(i))]
<1>1. ASSUME NEW i \in 1 .. k PROVE L(i) \in Chunks \cup {Other}
  <2>1. 3 * i - 2 \in 1 .. Len(body) /\ (3 * i - 2) % 3 # 0
    BY DEF BodyFits
  <2> QED
    BY <2>1 DEF BodyFits
<1>2. ASSUME NEW m PROVE Sse!DeltasOf(m) = Sse!FlattenSeq(d(m)) /\ Sse!TextOf(m) = Sse!FlattenSeq(w(m))
  <2>1. \A i \in 1 .. m : Sse!LinesOf(m)[i] = L(i)
    BY DEF Sse!LinesOf
  <2>2. [i \in 1 .. m |-> IF Sse!LinesOf(m)[i] = Other THEN <<>> ELSE Sse!LinesOf(m)[i].calls] = d(m)
    BY <2>1 DEF CallsOf
  <2>3. [i \in 1 .. m |-> IF Sse!LinesOf(m)[i] = Other THEN <<>> ELSE Sse!LinesOf(m)[i].text] = w(m)
    BY <2>1 DEF WordsOf
  <2> HIDE DEF d, w
  <2> QED
    BY <2>2, <2>3 DEF Sse!DeltasOf, Sse!TextOf
<1>3. ASSUME NEW i \in 1 .. k PROVE CallsOf(L(i)) \in Seq(DeltaSet) /\ WordsOf(L(i)) \in Seq(Words)
  <2>1. \A S : <<>> \in Seq(S)
    OBVIOUS
  <2> HIDE DEF L
  <2> QED
    BY <1>1, <2>1, ChunkFits DEF CallsOf, WordsOf
<1>4. \A i \in 1 .. n : i \in 1 .. k
  OBVIOUS
<1>5. k \in 1 .. k /\ 3 * k - 2 = 3 * n + 1
  OBVIOUS
<1> HIDE DEF L
<1>6. d(n) \in [1 .. n -> Seq(DeltaSet)] /\ d(k) \in [1 .. k -> Seq(DeltaSet)]
      /\ \A i \in 1 .. n : d(n)[i] = d(k)[i]
  BY <1>3, <1>4
<1>7. w(n) \in [1 .. n -> Seq(Words)] /\ w(k) \in [1 .. k -> Seq(Words)]
      /\ \A i \in 1 .. n : w(n)[i] = w(k)[i]
  BY <1>3, <1>4
<1>8. d(k)[k] = CallsOf(L(k)) /\ w(k)[k] = WordsOf(L(k))
  BY <1>5
<1> HIDE DEF d, w
<1>9. Sse!FlattenSeq(d(n)) \in Seq(DeltaSet) /\ Sse!FlattenSeq(d(k)) = Sse!FlattenSeq(d(n)) \o d(k)[k]
  BY <1>6, FlatGrows
<1>10. Sse!FlattenSeq(w(n)) \in Seq(Words) /\ Sse!FlattenSeq(w(k)) = Sse!FlattenSeq(w(n)) \o w(k)[k]
  BY <1>7, FlatGrows
<1>11. L(k) = body[3 * n + 1][1]
  BY <1>5 DEF L
<1> HIDE DEF k
<1>12. /\ Sse!DeltasOf(n) \in Seq(DeltaSet)
       /\ Sse!DeltasOf(k) = Sse!DeltasOf(n) \o CallsOf(L(k))
       /\ Sse!TextOf(n) \in Seq(Words)
       /\ Sse!TextOf(k) = Sse!TextOf(n) \o WordsOf(L(k))
  BY <1>2, <1>8, <1>9, <1>10
<1> QED
  BY <1>11, <1>12 DEF k

LEMMA Thirds ==
    ASSUME NEW m \in Nat
    PROVE  /\ m % 3 \in 0 .. 2 /\ m = 3 * (m \div 3) + (m % 3) /\ m \div 3 \in Nat
           /\ m % 3 # 2 => (m + 1) % 3 = (m % 3) + 1 /\ (m + 1) \div 3 = m \div 3
           /\ m % 3 = 2 => (m + 1) % 3 = 0 /\ (m + 1) \div 3 = (m \div 3) + 1
OBVIOUS

LEMMA TakeFits ==
    ASSUME AllFit, BodyFits, NEW m \in Nat, m + 1 <= Len(body), NEW s, TakenFits(s, m)
    PROVE  TakenFits(Sse!Take(s, body[m + 1]), m + 1)
<1> DEFINE n == m \div 3
           x == body[m + 1]
           t == Sse!Take(s, x)
           Marked == {body[j] : j \in 1 .. Len(body)}
<1>1. /\ s = [line |-> s.line, reply |-> s.reply]
      /\ LineFits(s.line, m)
      /\ ReplyFits(s.reply, Sse!DeltasOf(n))
      /\ s.reply.text = Sse!TextOf(n)
  BY DEF TakenFits
<1>2. m + 1 \in 1 .. Len(body) /\ x \in Marked /\ ((m + 1) % 3 = 0) = (x = EOL)
  BY DEF BodyFits
<1>3. /\ s.line \in Seq(Marked) /\ Len(s.line) = m % 3
      /\ \A i \in 1 .. m % 3 : s.line[i] = body[(m - (m % 3)) + i]
  BY <1>1 DEF LineFits
<1>4. CASE x # EOL
  <2> DEFINE l == Append(s.line, x)
  <2>1. m % 3 # 2 /\ (m + 1) % 3 = (m % 3) + 1 /\ (m + 1) \div 3 = n /\ m % 3 \in 0 .. 2
    BY <1>2, <1>4, Thirds
  <2>2. t = [line |-> l, reply |-> s.reply]
    BY <1>1, <1>4 DEF Sse!Take
  <2> HIDE DEF x, Marked
  <2> DEFINE k == m % 3
  <2>3. l \in Seq(Marked) /\ Len(l) = k + 1 /\ l[k + 1] = x /\ \A i \in 1 .. k : l[i] = s.line[i]
    <3>1. s.line \in Seq(Marked) /\ Len(s.line) = k /\ x \in Marked
      BY <1>2, <1>3
    <3> HIDE DEF k
    <3> QED
      BY <3>1
  <2> HIDE DEF l, t
  <2>4. t = [line |-> t.line, reply |-> t.reply] /\ t.line = l /\ t.reply = s.reply
    BY <2>2
  <2>5. ASSUME NEW i \in 1 .. (m % 3) + 1 PROVE l[i] = body[((m + 1) - ((m % 3) + 1)) + i]
    <3>1. CASE i \in 1 .. m % 3
      <4>1. (m + 1) - ((m % 3) + 1) = m - (m % 3)
        BY <2>1
      <4> QED
        BY <1>3, <2>3, <3>1, <4>1
    <3>2. CASE i = (m % 3) + 1
      <4>1. ((m + 1) - ((m % 3) + 1)) + i = m + 1
        BY <2>1, <3>2
      <4> QED
        BY <2>3, <3>2, <4>1 DEF x
    <3> QED
      BY <2>1, <3>1, <3>2
  <2>6. LineFits(t.line, m + 1)
    BY <2>1, <2>3, <2>4, <2>5 DEF LineFits, Marked
  <2> HIDE DEF n
  <2>7. TakenFits(t, m + 1)
    BY <1>1, <2>1, <2>4, <2>6 DEF TakenFits
  <2> QED
    BY <2>7 DEF t, x
<1>5. CASE x = EOL
  <2> DEFINE c == body[3 * n + 1][1]
             r == Sse!EmitSseData(s.reply, c)
  <2>1. m % 3 = 2 /\ (m + 1) % 3 = 0 /\ (m + 1) \div 3 = n + 1 /\ m = 3 * n + 2 /\ n \in Nat
    BY <1>2, <1>5, Thirds
  <2>2. s.line[1] = body[3 * n + 1]
    <3>1. 1 \in 1 .. m % 3 /\ (m - (m % 3)) + 1 = 3 * n + 1
      BY <2>1
    <3> QED
      BY <1>3, <3>1
  <2>3. t = [line |-> <<>>, reply |-> r]
    BY <1>5, <2>2 DEF Sse!Take
  <2> HIDE DEF t, r, n
  <2>4. t = [line |-> t.line, reply |-> t.reply] /\ t.line = <<>> /\ t.reply = r
    BY <2>3
  <2>5. LineFits(t.line, m + 1)
    <3>1. <<>> \in Seq(Marked) /\ Len(<<>>) = 0
      OBVIOUS
    <3>2. \A i \in 1 .. 0 : FALSE
      OBVIOUS
    <3> QED
      BY <2>1, <2>4, <3>1, <3>2 DEF LineFits
  <2>6. /\ Sse!DeltasOf(n) \in Seq(DeltaSet) /\ Sse!TextOf(n) \in Seq(Words)
        /\ Sse!DeltasOf(n + 1) = Sse!DeltasOf(n) \o CallsOf(c)
        /\ Sse!TextOf(n + 1) = Sse!TextOf(n) \o WordsOf(c)
    <3>1. 3 * n + 3 <= Len(body)
      BY <2>1
    <3> QED
      BY <2>1, <3>1, LineMore
  <2>7. c \in Chunks \cup {Other}
    <3>1. 3 * n + 1 \in 1 .. Len(body) /\ (3 * n + 1) % 3 # 0
      BY <2>1 DEF BodyFits
    <3> QED
      BY <3>1 DEF BodyFits
  <2> HIDE DEF c
  <2>8. ReplyFits(r, Sse!DeltasOf(n + 1)) /\ r.text = Sse!TextOf(n + 1)
    <3>1. CASE c = Other
      <4>1. r = s.reply
        BY <3>1 DEF r, Sse!EmitSseData
      <4>2. Sse!DeltasOf(n) \o <<>> = Sse!DeltasOf(n)
        BY <2>6
      <4>3. Sse!TextOf(n) \o <<>> = Sse!TextOf(n)
        BY <2>6
      <4> QED
        BY <1>1, <2>6, <3>1, <4>1, <4>2, <4>3 DEF CallsOf, WordsOf
    <3>2. CASE c # Other
      <4>1. c \in Chunks /\ CallsOf(c) = c.calls /\ WordsOf(c) = c.text
        BY <2>7, <3>2 DEF CallsOf, WordsOf
      <4>2. ReplyFits(r, Sse!DeltasOf(n) \o c.calls) /\ r.text = s.reply.text \o c.text
        BY <1>1, <2>6, <3>2, <4>1, Emitted DEF r, n
      <4> QED
        BY <1>1, <2>6, <4>1, <4>2 DEF n
    <3> QED
      BY <3>1, <3>2
  <2>9. TakenFits(t, m + 1)
    BY <2>1, <2>4, <2>5, <2>8 DEF TakenFits
  <2> QED
    BY <2>9 DEF t, x
<1> QED
  BY <1>4, <1>5

Reply == [current |-> currentTool, text |-> text, calls |-> calls, index |-> indexOf]

\* What has arrived is taken line by line; the reply is that of the lines that are complete.
SseInv ==
    /\ how \in {"idle", "streaming", "done", "threw"}
    /\ how = "idle" => body = <<>> /\ at = 0
    /\ BodyFits
    /\ at \in Nat /\ at <= Len(body)
    /\ LineFits(pending, at)
    /\ ReplyFits(Reply, Sse!DeltasOf(at \div 3))
    /\ text = Sse!TextOf(at \div 3)

TakeStep(f, s, a, k) == IF k = 0 THEN s ELSE Sse!Take(f[k - 1], body[a + k])

IsTake(f, s, a, n) == f = [k \in 0 .. n |-> TakeStep(f, s, a, k)]

LEMMA TakeExists ==
    ASSUME NEW s, NEW a, NEW n \in Nat
    PROVE  \E f : IsTake(f, s, a, n)
<1> DEFINE T == {m \in Nat : \E f : IsTake(f, s, a, m)}
<1>1. 0 \in T
  <2> DEFINE f == [k \in 0 .. 0 |-> s]
  <2>1. f = [k \in 0 .. 0 |-> TakeStep(f, s, a, k)]
    BY DEF TakeStep
  <2> QED
    BY <2>1 DEF IsTake
<1>2. ASSUME NEW m \in Nat, m \in T PROVE m + 1 \in T
  <2>1. PICK f : f = [k \in 0 .. m |-> TakeStep(f, s, a, k)]
    BY <1>2 DEF IsTake
  <2> DEFINE next == Sse!Take(f[m], body[a + (m + 1)])
             g == [k \in 0 .. m + 1 |-> IF k = m + 1 THEN next ELSE f[k]]
  <2> HIDE DEF next
  <2>2. \A k \in 0 .. m : f[k] = TakeStep(f, s, a, k)
    BY <2>1
  <2>3. \A k \in 0 .. m : g[k] = f[k]
    OBVIOUS
  <2>4. ASSUME NEW k \in 0 .. m + 1 PROVE g[k] = TakeStep(g, s, a, k)
    <3>1. CASE k = m + 1
      <4>1. g[k] = next /\ k # 0 /\ k - 1 = m /\ g[m] = f[m]
        BY <2>3, <3>1
      <4> HIDE DEF g
      <4> QED
        BY <3>1, <4>1 DEF TakeStep, next
    <3>2. CASE k # m + 1
      <4>1. k \in 0 .. m /\ (k # 0 => k - 1 \in 0 .. m)
        BY <3>2
      <4> HIDE DEF g
      <4> QED
        BY <2>2, <2>3, <4>1 DEF TakeStep
    <3> QED
      BY <3>1, <3>2
  <2>5. g = [k \in 0 .. m + 1 |-> g[k]]
    OBVIOUS
  <2> HIDE DEF g
  <2>6. g = [k \in 0 .. m + 1 |-> TakeStep(g, s, a, k)]
    BY <2>4, <2>5
  <2> QED
    BY <2>6 DEF IsTake
<1> HIDE DEF T
<1>3. n \in T
  BY <1>1, <1>2, SetInduction
<1> QED
  BY <1>3 DEF T

\* What the write callback makes of a piece.
LEMMA PieceFits ==
    ASSUME AllFit, BodyFits, NEW s, NEW a \in Nat, NEW n \in Nat, a + n <= Len(body), TakenFits(s, a)
    PROVE  TakenFits((CHOOSE f : IsTake(f, s, a, n))[n], a + n)
<1> DEFINE f == CHOOSE f : IsTake(f, s, a, n)
<1>1. IsTake(f, s, a, n)
  BY TakeExists
<1> HIDE DEF f
<1>2. \A k \in 0 .. n : f[k] = TakeStep(f, s, a, k)
  BY <1>1 DEF IsTake
<1> DEFINE T == {k \in Nat : k <= n => TakenFits(f[k], a + k)}
<1>3. 0 \in T
  <2>1. f[0] = s /\ a + 0 = a
    BY <1>2 DEF TakeStep
  <2> QED
    BY <2>1
<1>4. ASSUME NEW k \in Nat, k \in T PROVE k + 1 \in T
  <2> SUFFICES ASSUME k + 1 <= n PROVE TakenFits(f[k + 1], a + (k + 1))
    OBVIOUS
  <2> DEFINE m == a + k
  <2>1. k + 1 \in 0 .. n /\ k + 1 # 0 /\ (k + 1) - 1 = k /\ k <= n /\ a + (k + 1) = m + 1 /\ m \in Nat
    OBVIOUS
  <2>2. m + 1 <= Len(body)
    BY DEF BodyFits
  <2>3. f[k + 1] = Sse!Take(f[k], body[m + 1])
    BY <1>2, <2>1 DEF TakeStep
  <2>4. TakenFits(f[k], m)
    BY <1>4, <2>1
  <2> HIDE DEF m, T
  <2>5. TakenFits(Sse!Take(f[k], body[m + 1]), m + 1)
    BY <2>1, <2>2, <2>4, TakeFits
  <2> QED
    BY <2>1, <2>3, <2>5
<1> HIDE DEF T
<1>5. n \in T
  BY <1>3, <1>4, SetInduction
<1> QED
  BY <1>5 DEF T, f

LEMMA SseStart == ASSUME Sse!Init PROVE SseInv
<1>1. /\ body = <<>> /\ at = 0 /\ pending = <<>> /\ currentTool = Sse!Missing
      /\ text = <<>> /\ calls = <<>> /\ indexOf = [i \in {} |-> 0] /\ how = "idle"
  BY DEF Sse!Init
<1>2. 0 % 3 = 0 /\ 0 \div 3 = 0 /\ Len(body) = 0
  BY <1>1
<1>3. BodyFits
  BY <1>1, <1>2 DEF BodyFits
<1>4. LineFits(pending, at)
  BY <1>1, <1>2 DEF LineFits
<1>5. Sse!DeltasOf(0) = <<>> /\ Sse!TextOf(0) = <<>>
  <2>1. \A s \in [1 .. 0 -> {}] : s = <<>> /\ Len(s) = 0
    OBVIOUS
  <2>2. ASSUME NEW s \in [1 .. 0 -> {}] PROVE Sse!FlattenSeq(s) = <<>>
    BY <2>1 DEF Sse!FlattenSeq
  <2>3. \A i \in 1 .. 0 : FALSE
    OBVIOUS
  <2>4. [i \in 1 .. 0 |-> IF Sse!LinesOf(0)[i] = Other THEN <<>> ELSE Sse!LinesOf(0)[i].calls] \in [1 .. 0 -> {}]
    BY <2>3
  <2>5. [i \in 1 .. 0 |-> IF Sse!LinesOf(0)[i] = Other THEN <<>> ELSE Sse!LinesOf(0)[i].text] \in [1 .. 0 -> {}]
    BY <2>3
  <2> QED
    BY <2>2, <2>4, <2>5 DEF Sse!DeltasOf, Sse!TextOf
<1>6. ReplyFits(Reply, <<>>)
  <2>1. IsReply(Reply) /\ Reply.current = Sse!Missing /\ Reply.calls = <<>> /\ Reply.index = [i \in {} |-> 0]
    BY <1>1 DEF Reply, IsReply
  <2>2. Sse!Begins(<<>>) = {}
    BY DEF Sse!Begins
  <2>3. Cardinality({}) = 0
    BY FS_EmptySet
  <2>4. <<>> \in Seq(CallSet) /\ <<>> \in Seq(DeltaSet) /\ Len(<<>>) = 0
    OBVIOUS
  <2>5. Sse!Spells(<<>>, <<>>)
    BY <2>2, <2>3, <2>4, SpellsIs
  <2>6. DOMAIN [i \in {} |-> 0] = {}
    OBVIOUS
  <2>7. IndexFits(<<>>, Reply.index)
    BY <2>1, <2>2, <2>6 DEF IndexFits
  <2>8. CurrentFits(Reply.current, Reply.calls)
    BY <2>1 DEF CurrentFits
  <2> QED
    BY <2>1, <2>4, <2>5, <2>6, <2>7, <2>8 DEF ReplyFits
<1> QED
  BY <1>1, <1>2, <1>3, <1>4, <1>5, <1>6 DEF SseInv

LEMMA SameLines ==
    ASSUME UNCHANGED body, NEW n
    PROVE  Sse!DeltasOf(n)' = Sse!DeltasOf(n) /\ Sse!TextOf(n)' = Sse!TextOf(n)
BY DEF Sse!DeltasOf, Sse!TextOf, Sse!LinesOf

LEMMA RequestFits == ASSUME SseInv, Sse!StreamFits, Sse!Request PROVE SseInv'
<1>1. PICK n \in 1 .. MaxLines : \E ls \in [1 .. n -> Chunks \cup {Other}], size \in {3 * n - 1, 3 * n} :
        body' = [i \in 1 .. size |-> IF i % 3 = 0 THEN EOL ELSE <<ls[(i + 2) \div 3], i % 3>>]
  BY DEF Sse!Request
<1>2. PICK ls \in [1 .. n -> Chunks \cup {Other}], size \in {3 * n - 1, 3 * n} :
        body' = [i \in 1 .. size |-> IF i % 3 = 0 THEN EOL ELSE <<ls[(i + 2) \div 3], i % 3>>]
  BY <1>1
<1>3. n \in Nat /\ n >= 1 /\ size \in Nat /\ size <= 3 * n
  BY DEF Sse!StreamFits
<1>4. /\ at = 0 /\ at' = at /\ pending' = pending /\ Reply' = Reply /\ text' = text /\ how' = "streaming"
  BY DEF Sse!Request, SseInv, Reply
<1>5. 0 % 3 = 0 /\ 0 \div 3 = 0
  OBVIOUS
<1>6. Len(body') = size
  BY <1>2, <1>3
<1>7. BodyFits'
  <2> SUFFICES ASSUME NEW j \in 1 .. size
               PROVE  /\ (j % 3 = 0) = (body'[j] = EOL)
                      /\ j % 3 # 0 => body'[j][1] \in Chunks \cup {Other}
    BY <1>3, <1>6 DEF BodyFits
  <2>1. body'[j] = IF j % 3 = 0 THEN EOL ELSE <<ls[(j + 2) \div 3], j % 3>>
    BY <1>2
  <2>2. (j + 2) \div 3 \in 1 .. n /\ j % 3 \in 0 .. 2
    BY <1>3
  <2>3. ls[(j + 2) \div 3] \in Chunks \cup {Other}
    BY <2>2
  <2> DEFINE l == ls[(j + 2) \div 3]
             k == j % 3
  <2>4. k # 0 => k \in {1, 2}
    BY <2>2
  <2> HIDE DEF l, k
  <2>5. k # 0 => <<l, k>> # EOL
    BY <2>3, <2>4 DEF Sse!StreamFits, l
  <2> QED
    BY <2>1, <2>3, <2>5 DEF l, k
<1>8. \A m : m \in {} => FALSE
  OBVIOUS
<1>9. Sse!DeltasOf(0)' = Sse!DeltasOf(0) /\ Sse!TextOf(0)' = Sse!TextOf(0)
  <2>1. 1 .. 0 = {}
    OBVIOUS
  <2> QED
    BY <2>1 DEF Sse!DeltasOf, Sse!TextOf, Sse!LinesOf
<1>10. LineFits(pending, at)'
  <2>1. pending = <<>>
    BY <1>4, <1>5 DEF SseInv, LineFits
  <2> QED
    BY <1>4, <1>5, <2>1 DEF LineFits
<1>11. ReplyFits(Reply, Sse!DeltasOf(0)) /\ text = Sse!TextOf(0)
  BY <1>4, <1>5 DEF SseInv
<1> QED
  BY <1>3, <1>4, <1>5, <1>6, <1>7, <1>9, <1>10, <1>11 DEF SseInv

LEMMA ReceiveFits == ASSUME SseInv, AllFit, NEW n \in Nat, Sse!Receive(n) PROVE SseInv'
<1> DEFINE s == [line |-> pending, reply |-> Reply]
           t == (CHOOSE f : IsTake(f, s, at, n))[n]
<1>1. /\ how = "streaming" /\ at + n <= Len(body) /\ at' = at + n /\ UNCHANGED <<body, how, input>>
      /\ pending' = t.line /\ currentTool' = t.reply.current /\ text' = t.reply.text
      /\ calls' = t.reply.calls /\ indexOf' = t.reply.index
  BY DEF Sse!Receive, IsTake, TakeStep, Reply
<1>2. TakenFits(s, at)
  <2>1. s.line = pending /\ s.reply = Reply /\ Reply.text = text
    BY DEF Reply
  <2>2. s = [line |-> s.line, reply |-> s.reply]
    OBVIOUS
  <2> HIDE DEF s
  <2> QED
    BY <2>1, <2>2 DEF TakenFits, SseInv
<1> HIDE DEF s
<1>3. TakenFits(t, at + n)
  BY <1>1, <1>2, PieceFits DEF SseInv
<1> HIDE DEF t
<1>4. Reply' = t.reply
  <2>1. IsReply(t.reply)
    BY <1>3 DEF TakenFits, ReplyFits
  <2> QED
    BY <1>1, <2>1 DEF Reply, IsReply
<1>5. LineFits(pending, at)'
  BY <1>1, <1>3 DEF TakenFits, LineFits
<1>6. Sse!DeltasOf(at \div 3)' = Sse!DeltasOf((at + n) \div 3)
      /\ Sse!TextOf(at \div 3)' = Sse!TextOf((at + n) \div 3)
  BY <1>1 DEF Sse!DeltasOf, Sse!TextOf, Sse!LinesOf
<1>7. ReplyFits(t.reply, Sse!DeltasOf((at + n) \div 3)) /\ t.reply.text = Sse!TextOf((at + n) \div 3)
  BY <1>3 DEF TakenFits
<1>8. BodyFits' /\ at' \in Nat
  BY <1>1 DEF SseInv, BodyFits
<1> QED
  BY <1>1, <1>4, <1>5, <1>6, <1>7, <1>8 DEF SseInv

LEMMA SseSame ==
    ASSUME SseInv, UNCHANGED <<body, at, pending, currentTool, text, calls, indexOf>>,
           how' \in {"streaming", "done", "threw"} \/ how' = how
    PROVE  SseInv'
<1>1. Reply' = Reply
  BY DEF Reply
<1>2. BodyFits' /\ LineFits(pending, at)'
  BY DEF SseInv, BodyFits, LineFits
<1>3. Sse!DeltasOf(at \div 3)' = Sse!DeltasOf(at \div 3) /\ Sse!TextOf(at \div 3)' = Sse!TextOf(at \div 3)
  BY DEF Sse!DeltasOf, Sse!TextOf, Sse!LinesOf
<1> QED
  BY <1>1, <1>2, <1>3 DEF SseInv

LEMMA SseInvariant == ASSUME Sse!StreamFits PROVE Sse!Spec => []SseInv
<1> USE DEF Sse!sseVars
<1>0. AllFit /\ \A n \in 1 .. 3 * MaxLines : n \in Nat
  BY DEF AllFit, Sse!StreamFits
<1>1. ASSUME SseInv, [Sse!Next]_Sse!sseVars PROVE SseInv'
  <2>1. ASSUME Sse!Request PROVE SseInv'
    BY <1>1, <2>1, RequestFits
  <2>2. ASSUME NEW n \in 1 .. 3 * MaxLines, Sse!Receive(n) PROVE SseInv'
    BY <1>0, <1>1, <2>2, ReceiveFits
  <2>3. ASSUME Sse!Fail PROVE SseInv'
    BY <1>1, <2>3, SseSame DEF Sse!Fail
  <2>4. ASSUME Sse!Finish PROVE SseInv'
    BY <1>1, <2>4, SseSame DEF Sse!Finish
  <2>5. ASSUME UNCHANGED Sse!sseVars PROVE SseInv'
    BY <1>1, <2>5, SseSame
  <2> QED
    BY <1>1, <2>1, <2>2, <2>3, <2>4, <2>5 DEF Sse!Next
<1> QED
  BY <1>1, SseStart, PTL DEF Sse!Spec

LEMMA SseTypes == ASSUME SseInv PROVE Sse!TypeOK
<1>1. /\ how \in {"idle", "streaming", "done", "threw"}
      /\ BodyFits /\ at \in Nat /\ at <= Len(body) /\ LineFits(pending, at)
      /\ ReplyFits(Reply, Sse!DeltasOf(at \div 3))
  BY DEF SseInv
<1> DEFINE d == Sse!DeltasOf(at \div 3)
<1>2. Reply.current = currentTool /\ Reply.calls = calls /\ Reply.index = indexOf
  BY DEF Reply
<1>3. /\ DOMAIN indexOf \subseteq Nat /\ Sse!Spells(d, calls) /\ IndexFits(d, indexOf)
      /\ CurrentFits(currentTool, calls) /\ calls \in Seq(CallSet) /\ d \in Seq(DeltaSet)
  BY <1>1, <1>2 DEF ReplyFits
<1> HIDE DEF d
<1>4. ASSUME NEW x \in DOMAIN indexOf PROVE indexOf[x] \in DOMAIN calls
  <2>1. PICK s : s \in Sse!Begins(d) /\ indexOf[x] = Sse!Rank(Sse!Begins(d), s)
    BY <1>3 DEF IndexFits, Latest
  <2>2. Len(calls) = Cardinality(Sse!Begins(d))
    BY <1>3, SpellsIs
  <2>3. Sse!Begins(d) \in SUBSET Nat /\ IsFiniteSet(Sse!Begins(d))
    <3>1. Sse!Begins(d) \in SUBSET (1 .. Len(d)) /\ Len(d) \in Nat
      BY <1>3 DEF Sse!Begins
    <3>2. IsFiniteSet(1 .. Len(d))
      BY <3>1, FS_Interval
    <3>3. \A i \in 1 .. Len(d) : i \in Nat
      OBVIOUS
    <3> QED
      BY <3>1, <3>2, <3>3, FS_Subset
  <2> QED
    BY <1>3, <2>1, <2>2, <2>3, RankFits
<1>5. EOL \notin {pending[i] : i \in DOMAIN pending}
  <2> SUFFICES ASSUME NEW i \in DOMAIN pending PROVE pending[i] # EOL
    OBVIOUS
  <2> DEFINE j == (at - (at % 3)) + i
  <2>1. i \in 1 .. at % 3 /\ pending[i] = body[j]
    BY <1>1 DEF LineFits
  <2>2. j \in 1 .. Len(body) /\ j % 3 # 0
    <3> DEFINE q == at \div 3
               r == at % 3
    <3>1. r \in 0 .. 2 /\ at = 3 * q + r /\ q \in Nat
      BY <1>1, Thirds
    <3>2. Len(body) \in Nat /\ i \in 1 .. r /\ j = (at - r) + i
      BY <1>1, <2>1 DEF BodyFits
    <3> HIDE DEF q, r, j
    <3> QED
      BY <1>1, <3>1, <3>2
  <2> HIDE DEF j
  <2> QED
    BY <1>1, <2>1, <2>2 DEF BodyFits
<1> QED
  BY <1>1, <1>3, <1>4, <1>5 DEF Sse!TypeOK, CurrentFits

THEOREM CallsAreAsSent == ASSUME Sse!StreamFits PROVE Sse!Spec => []Sse!CallsAsSent
<1>1. ASSUME SseInv PROVE Sse!CallsAsSent
  <2>1. ReplyFits(Reply, Sse!DeltasOf(at \div 3)) /\ text = Sse!TextOf(at \div 3) /\ Reply.calls = calls
    BY <1>1 DEF SseInv, Reply
  <2> QED
    BY <2>1 DEF Sse!CallsAsSent, ReplyFits
<1> QED
  BY <1>1, SseInvariant, PTL

-----------------------------------------------------------------------------
(* ReadPages: the lines of a file *)

Ends(p) == Cardinality(Reads!LineEnds(p))
\* The characters of line n up to place p.
Chars(p, n) == {i \in 1 .. p : file[i] # EOL /\ Ends(i) = n - 1}
Length(p, n) == Cardinality(Chars(p, n))

LEMMA SameSize == \A S : Reads!Cardinality(S) = Cardinality(S)
BY DEF Reads!Cardinality, Cardinality

LEMMA SameLength == \A n : Reads!LengthOf(n) = Length(Len(file), n)
BY SameSize DEF Reads!LengthOf, Length, Chars, Ends

\* A set of places up to p, and the next one.
LEMMA OnePlace ==
    ASSUME NEW p \in Nat, NEW S, NEW T, S \in SUBSET (1 .. p), T = S \/ T = S \cup {p + 1}
    PROVE  /\ IsFiniteSet(S) /\ Cardinality(S) \in Nat
           /\ Cardinality(T) = IF T = S THEN Cardinality(S) ELSE Cardinality(S) + 1
<1>1. IsFiniteSet(1 .. p)
  BY FS_Interval
<1>2. IsFiniteSet(S)
  BY <1>1, FS_Subset
<1>3. Cardinality(S) \in Nat
  BY <1>2, FS_CardinalityType
<1>4. p + 1 \notin S
  <2>1. p + 1 \notin 1 .. p
    OBVIOUS
  <2> QED
    BY <2>1
<1>5. Cardinality(S \cup {p + 1}) = Cardinality(S) + 1
  BY <1>2, <1>4, FS_AddElement
<1> QED
  BY <1>2, <1>3, <1>5

LEMMA EndsGrow ==
    ASSUME NEW p \in Nat
    PROVE  /\ Ends(p) \in Nat
           /\ Ends(p + 1) = IF file[p + 1] = EOL THEN Ends(p) + 1 ELSE Ends(p)
<1> DEFINE S == Reads!LineEnds(p)
           T == Reads!LineEnds(p + 1)
<1>1. S \in SUBSET (1 .. p) /\ p + 1 \notin 1 .. p
  BY DEF Reads!LineEnds
<1>2. ASSUME NEW i PROVE i \in 1 .. p + 1 <=> i \in 1 .. p \/ i = p + 1
  OBVIOUS
<1>3. T = IF file[p + 1] = EOL THEN S \cup {p + 1} ELSE S
  BY <1>2 DEF Reads!LineEnds
<1> HIDE DEF S, T
<1>4. IsFiniteSet(S) /\ Cardinality(S) \in Nat /\ Cardinality(T) = IF T = S THEN Cardinality(S) ELSE Cardinality(S) + 1
  BY <1>1, <1>3, OnePlace
<1>5. p + 1 \notin S
  BY <1>1
<1>6. file[p + 1] = EOL => T # S
  BY <1>3, <1>5
<1> QED
  BY <1>3, <1>4, <1>6 DEF Ends, S, T

LEMMA NoEnds == Ends(0) = 0
<1>1. Reads!LineEnds(0) = {}
  BY DEF Reads!LineEnds
<1> QED
  BY <1>1, FS_EmptySet DEF Ends

LEMMA EndsMonotone ==
    ASSUME NEW p \in Nat, NEW q \in Nat, p <= q
    PROVE  Ends(p) <= Ends(q)
<1>1. Reads!LineEnds(p) \in SUBSET Reads!LineEnds(q) /\ Reads!LineEnds(q) \in SUBSET (1 .. q)
  BY DEF Reads!LineEnds
<1>2. IsFiniteSet(Reads!LineEnds(q))
  BY <1>1, OnePlace
<1> QED
  BY <1>1, <1>2, FS_Subset DEF Ends

LEMMA LengthGrows ==
    ASSUME NEW p \in Nat, NEW n \in Nat
    PROVE  /\ Length(p, n) \in Nat
           /\ Length(p + 1, n) = IF file[p + 1] # EOL /\ Ends(p) = n - 1 THEN Length(p, n) + 1 ELSE Length(p, n)
<1> DEFINE S == Chars(p, n)
           T == Chars(p + 1, n)
           grows == file[p + 1] # EOL /\ Ends(p) = n - 1
<1>1. S \in SUBSET (1 .. p) /\ p + 1 \notin 1 .. p
  BY DEF Chars
<1>2. ASSUME NEW i PROVE i \in 1 .. p + 1 <=> i \in 1 .. p \/ i = p + 1
  OBVIOUS
<1>3. file[p + 1] # EOL => Ends(p + 1) = Ends(p)
  BY EndsGrow
<1>4. T = IF grows THEN S \cup {p + 1} ELSE S
  BY <1>2, <1>3 DEF Chars
<1> HIDE DEF S, T, grows
<1>5. IsFiniteSet(S) /\ Cardinality(S) \in Nat /\ Cardinality(T) = IF T = S THEN Cardinality(S) ELSE Cardinality(S) + 1
  BY <1>1, <1>4, OnePlace
<1>6. p + 1 \notin S
  BY <1>1
<1>7. grows => T # S
  BY <1>4, <1>6
<1> QED
  BY <1>4, <1>5, <1>7 DEF Length, S, T, grows

\* A line whose end is read grows no more.
LEMMA LengthStays ==
    ASSUME NEW p \in Nat, NEW q \in Nat, p <= q, NEW n \in Nat, n <= Ends(p)
    PROVE  Length(q, n) = Length(p, n)
<1>1. ASSUME NEW i \in 1 .. q, i \notin 1 .. p PROVE Ends(i) # n - 1
  <2>1. i \in Nat /\ p <= i
    BY <1>1
  <2>2. Ends(p) <= Ends(i) /\ Ends(p) \in Nat /\ Ends(i) \in Nat
    BY <2>1, EndsMonotone, EndsGrow
  <2> QED
    BY <2>2
<1>2. \A i \in 1 .. p : i \in 1 .. q
  OBVIOUS
<1>3. Chars(q, n) = Chars(p, n)
  BY <1>1, <1>2 DEF Chars
<1> QED
  BY <1>3 DEF Length

\* A line that has not begun is empty.
LEMMA LengthNone ==
    ASSUME NEW p \in Nat, NEW n \in Nat, n > Ends(p) + 1
    PROVE  Length(p, n) = 0
<1>1. ASSUME NEW i \in 1 .. p PROVE Ends(i) # n - 1
  <2>1. i \in Nat /\ i <= p
    OBVIOUS
  <2>2. Ends(i) <= Ends(p) /\ Ends(p) \in Nat /\ Ends(i) \in Nat
    BY <2>1, EndsMonotone, EndsGrow
  <2> QED
    BY <2>2
<1>2. Chars(p, n) = {}
  BY <1>1 DEF Chars
<1> QED
  BY <1>2, FS_EmptySet DEF Length

-----------------------------------------------------------------------------
(* ReadPages: a page *)

PageFields == {"lines", "bytes", "line", "offset", "next", "segment", "pending", "long", "cr", "stop"}

LineOnPage == [n : Nat \ {0}, cut : BOOLEAN]

\* Line n is too long, with the CR before its end and without it.
IsLong(n) == Reads!LengthOf(n) > MaxLineLength
IsTooLong(n) == Reads!TextLengthOf(n) > MaxLineLength

\* What is on the page r, which begins with line o.
OnPage(r, o) ==
    /\ DOMAIN r = PageFields
    /\ r.lines \in Seq(LineOnPage)
    /\ r.line \in Nat \ {0} /\ r.bytes \in Nat /\ r.offset = o
    /\ Len(r.lines) = IF r.line > o THEN r.line - o ELSE 0
    /\ r.line <= o => r.bytes = 0
    /\ \A i \in 1 .. Len(r.lines) : r.lines[i].n = (o + i) - 1 /\ (IsTooLong((o + i) - 1) => r.lines[i].cut) /\ (r.lines[i].cut => IsLong((o + i) - 1))

SameRest(a, r) == a.segment = r.segment /\ a.pending = r.pending /\ a.long = r.long

OneLineMore(a, r) == a.line = r.line + 1 /\ a.stop = r.stop /\ a.next = r.next

IsStopped(a, r, o) == a.line = r.line /\ a.stop = TRUE /\ a.next = r.line /\ r.line > o

\* Full and Stop come only behind the first line of a page.
LEMMA FullBehind ==
    ASSUME Reads!PagesFit, NEW o \in Nat \ {0}, NEW limit \in Nat \ {0}, NEW r, OnPage(r, o), Reads!Full(r, limit)
    PROVE  r.line > o
<1> SUFFICES ASSUME r.line <= o PROVE FALSE
  BY DEF OnPage
<1>1. Len(r.lines) = 0 /\ r.bytes = 0
  BY DEF OnPage
<1>2. MaxReadBytes > 0
  BY DEF Reads!PagesFit
<1> QED
  BY <1>1, <1>2 DEF Reads!Full, Reads!PagesFit

LEMMA StopFits ==
    ASSUME NEW o \in Nat \ {0}, NEW r, OnPage(r, o), r.line > o
    PROVE  LET a == Reads!Stop(r) IN OnPage(a, o) /\ SameRest(a, r) /\ IsStopped(a, r, o)
<1> DEFINE a == Reads!Stop(r)
<1>1. DOMAIN r = PageFields
  BY DEF OnPage
<1>2. /\ DOMAIN a = PageFields /\ a.lines = r.lines /\ a.bytes = r.bytes /\ a.line = r.line /\ a.offset = r.offset
      /\ a.segment = r.segment /\ a.pending = r.pending /\ a.long = r.long /\ a.next = r.line /\ a.stop = TRUE
  BY <1>1 DEF Reads!Stop, PageFields
<1> HIDE DEF a
<1>3. OnPage(a, o)
  BY <1>2 DEF OnPage
<1>4. SameRest(a, r) /\ IsStopped(a, r, o)
  BY <1>2 DEF SameRest, IsStopped
<1> QED
  BY <1>3, <1>4 DEF a

\* A line before the first of the page.
LEMMA SkipFits ==
    ASSUME NEW o \in Nat \ {0}, NEW r, OnPage(r, o), r.line < o
    PROVE  LET a == [r EXCEPT !.line = @ + 1] IN OnPage(a, o) /\ SameRest(a, r) /\ OneLineMore(a, r)
<1> DEFINE a == [r EXCEPT !.line = @ + 1]
<1>1. DOMAIN r = PageFields
  BY DEF OnPage
<1>2. /\ DOMAIN a = PageFields /\ a.lines = r.lines /\ a.bytes = r.bytes /\ a.line = r.line + 1 /\ a.offset = r.offset
      /\ a.segment = r.segment /\ a.pending = r.pending /\ a.long = r.long /\ a.next = r.next /\ a.stop = r.stop
  BY <1>1 DEF PageFields
<1> HIDE DEF a
<1>3. r.line \in Nat /\ r.line + 1 <= o /\ Len(r.lines) = 0 /\ r.bytes = 0 /\ ~(r.line + 1 > o)
  BY DEF OnPage
<1>4. OnPage(a, o)
  BY <1>2, <1>3 DEF OnPage
<1>5. SameRest(a, r) /\ OneLineMore(a, r)
  BY <1>2 DEF SameRest, OneLineMore
<1> QED
  BY <1>4, <1>5 DEF a

\* One element behind a sequence.
LEMMA OneBehind ==
    ASSUME NEW S, NEW q \in Seq(S), NEW x \in S
    PROVE  /\ Append(q, x) \in Seq(S) /\ Len(q) \in Nat /\ Len(Append(q, x)) = Len(q) + 1
           /\ \A i \in 1 .. Len(q) : Append(q, x)[i] = q[i]
           /\ Append(q, x)[Len(q) + 1] = x
OBVIOUS

LEMMA PutLineFits ==
    ASSUME NEW o \in Nat \ {0}, NEW r, OnPage(r, o), r.line >= o, NEW cost \in Nat,
           NEW cut \in BOOLEAN, IsTooLong(r.line) => cut, cut => IsLong(r.line)
    PROVE  LET a == [r EXCEPT !.lines = Append(@, [n |-> r.line, cut |-> cut]), !.bytes = @ + cost, !.line = @ + 1]
           IN  OnPage(a, o) /\ SameRest(a, r) /\ OneLineMore(a, r)
<1> DEFINE x == [n |-> r.line, cut |-> cut]
           a == [r EXCEPT !.lines = Append(@, x), !.bytes = @ + cost, !.line = @ + 1]
<1>1. DOMAIN r = PageFields
  BY DEF OnPage
<1>2. /\ DOMAIN a = PageFields /\ a.lines = Append(r.lines, x) /\ a.bytes = r.bytes + cost
      /\ a.line = r.line + 1 /\ a.offset = r.offset
      /\ a.segment = r.segment /\ a.pending = r.pending /\ a.long = r.long /\ a.next = r.next /\ a.stop = r.stop
  BY <1>1 DEF PageFields
<1>3. r.line \in Nat \ {0} /\ r.bytes \in Nat /\ r.offset = o /\ r.lines \in Seq(LineOnPage)
  BY DEF OnPage
<1>4. x \in LineOnPage /\ x.n = r.line /\ (IsTooLong(r.line) => x.cut) /\ (x.cut => IsLong(r.line))
  BY <1>3 DEF LineOnPage
<1> DEFINE k == Len(r.lines)
<1>5. k \in Nat /\ k = r.line - o /\ r.line = o + k
  <2>1. k = IF r.line > o THEN r.line - o ELSE 0
    BY DEF OnPage
  <2> HIDE DEF k
  <2> QED
    BY <1>3, <2>1
<1> DEFINE l == r.line
<1>6. l \in Nat /\ k \in Nat /\ l = o + k
  BY <1>3, <1>5
<1> HIDE DEF x, a, l
<1>7. /\ a.lines \in Seq(LineOnPage) /\ Len(a.lines) = k + 1
      /\ \A i \in 1 .. k : a.lines[i] = r.lines[i]
      /\ a.lines[k + 1] = x
  BY <1>2, <1>3, <1>4, OneBehind
<1>8. \A i \in 1 .. k : r.lines[i].n = (o + i) - 1 /\ (IsTooLong((o + i) - 1) => r.lines[i].cut) /\ (r.lines[i].cut => IsLong((o + i) - 1))
  BY DEF OnPage
<1> HIDE DEF k
<1>9. ASSUME NEW i \in 1 .. k + 1 PROVE a.lines[i].n = (o + i) - 1 /\ (IsTooLong((o + i) - 1) => a.lines[i].cut) /\ (a.lines[i].cut => IsLong((o + i) - 1))
  <2>1. CASE i \in 1 .. k
    BY <1>7, <1>8, <2>1
  <2>2. CASE i = k + 1
    <3>1. (o + i) - 1 = l
      BY <1>6, <2>2
    <3> QED
      BY <1>4, <1>7, <2>2, <3>1 DEF l
  <2> QED
    BY <1>6, <2>1, <2>2
<1>10. /\ a.line \in Nat \ {0} /\ a.bytes \in Nat /\ a.offset = o /\ a.line > o
      /\ Len(a.lines) = a.line - o
  <2>1. r.line + 1 \in Nat \ {0} /\ r.bytes + cost \in Nat /\ r.line + 1 > o /\ k + 1 = (r.line + 1) - o
    <3>1. l + 1 \in Nat \ {0} /\ r.bytes + cost \in Nat /\ l + 1 > o /\ k + 1 = (l + 1) - o
      BY <1>3, <1>6
    <3> QED
      BY <3>1 DEF l
  <2> QED
    BY <1>2, <1>3, <1>7, <2>1
<1>11. OnPage(a, o)
  BY <1>2, <1>7, <1>9, <1>10, SMTT(20) DEF OnPage
<1>12. SameRest(a, r) /\ OneLineMore(a, r)
  BY <1>2 DEF SameRest, OneLineMore
<1> QED
  BY <1>11, <1>12 DEF a, x

LEMMA AppendFits ==
    ASSUME Reads!PagesFit, NEW o \in Nat \ {0}, NEW limit \in Nat \ {0}, NEW r, OnPage(r, o),
           NEW length \in Nat, NEW long \in BOOLEAN, IsTooLong(r.line) => (length > MaxLineLength \/ long),
           (length > MaxLineLength \/ long) => IsLong(r.line)
    PROVE  LET a == Reads!AppendLine(r, length, long, limit)
           IN  OnPage(a, o) /\ SameRest(a, r) /\ (OneLineMore(a, r) \/ IsStopped(a, r, o))
<1> DEFINE cut == length > MaxLineLength \/ long
           cost == Reads!Kept(length, cut) + (IF r.lines = <<>> THEN 0 ELSE 1)
           a == Reads!AppendLine(r, length, long, limit)
<1> SUFFICES OnPage(a, o) /\ SameRest(a, r) /\ (OneLineMore(a, r) \/ IsStopped(a, r, o))
  OBVIOUS
<1>1. r.line \in Nat \ {0} /\ r.bytes \in Nat /\ r.offset = o /\ r.lines \in Seq(LineOnPage)
  BY DEF OnPage
<1>2. cut \in BOOLEAN /\ (IsTooLong(r.line) => cut) /\ (cut => IsLong(r.line))
  OBVIOUS
<1>3. cost \in Nat /\ (r.lines = <<>> => cost <= MaxReadBytes)
  BY DEF Reads!PagesFit, Reads!Kept
<1>4. a = IF r.line < r.offset THEN [r EXCEPT !.line = @ + 1]
          ELSE IF Reads!Full(r, limit) \/ r.bytes + cost > MaxReadBytes THEN Reads!Stop(r)
          ELSE [r EXCEPT !.lines = Append(@, [n |-> r.line, cut |-> cut]), !.bytes = @ + cost, !.line = @ + 1]
  BY DEF Reads!AppendLine
<1>5. CASE r.line < o
  BY <1>1, <1>4, <1>5, SkipFits
<1> HIDE DEF cut, cost
<1>6. CASE ~(r.line < o) /\ (Reads!Full(r, limit) \/ r.bytes + cost > MaxReadBytes)
  <2>1. a = Reads!Stop(r)
    BY <1>1, <1>4, <1>6
  <2>2. r.line > o
    <3>1. CASE Reads!Full(r, limit)
      BY <3>1, FullBehind
    <3>2. CASE r.bytes + cost > MaxReadBytes
      <4> SUFFICES ASSUME r.line <= o PROVE FALSE
        BY <1>1
      <4>1. Len(r.lines) = 0 /\ r.bytes = 0
        BY DEF OnPage
      <4>2. r.lines = <<>>
        BY <1>1, <4>1
      <4> QED
        BY <1>3, <3>2, <4>1, <4>2 DEF Reads!PagesFit
    <3> QED
      BY <1>6, <3>1, <3>2
  <2> HIDE DEF a
  <2> QED
    BY <2>1, <2>2, StopFits
<1>7. CASE ~(r.line < o) /\ ~(Reads!Full(r, limit) \/ r.bytes + cost > MaxReadBytes)
  <2>1. a = [r EXCEPT !.lines = Append(@, [n |-> r.line, cut |-> cut]), !.bytes = @ + cost, !.line = @ + 1]
    BY <1>1, <1>4, <1>7
  <2>2. r.line >= o
    BY <1>1, <1>7
  <2> HIDE DEF a
  <2> QED
    BY <1>2, <1>3, <2>1, <2>2, PutLineFits
<1> QED
  BY <1>5, <1>6, <1>7

\* Line n is the one that place p + 1 belongs to.
OnLine(n, p) == n = Ends(p) + 1

\* The length of a line of which the symbol at place p is the last.
WithoutLast(p, length) == IF Reads!CRAt(p) THEN length - 1 ELSE length

LEMMA LineLong ==
    ASSUME Reads!PagesFit, NEW p \in Nat, Len(file) \in Nat, p <= Len(file), NEW n, OnLine(n, p),
           p = Len(file) \/ file[p + 1] = EOL, NEW length \in Nat, Reads!LengthOf(n) = length
    PROVE  /\ IsLong(n) <=> length > MaxLineLength
           /\ IsTooLong(n) => WithoutLast(p, length) > MaxLineLength
<1>1. IsLong(n) <=> length > MaxLineLength
  BY DEF IsLong
<1>2. CASE Reads!CRAt(p)
  <2>1. p \in 1 .. Len(file) /\ file[p] = CR
    BY <1>2 DEF Reads!CRAt
  <2>2. Ends(p) = n - 1
    BY EndsGrow DEF OnLine
  <2>3. Reads!TextLengthOf(n) = length - 1
    BY <2>1, <2>2, SameSize DEF Reads!TextLengthOf, Ends
  <2> QED
    BY <1>1, <1>2, <2>3 DEF IsTooLong, WithoutLast
<1>3. CASE ~Reads!CRAt(p)
  <2>1. Reads!TextLengthOf(n) = length \/ Reads!TextLengthOf(n) = length - 1
    BY DEF Reads!TextLengthOf
  <2>2. ASSUME IsTooLong(n) PROVE IsLong(n)
    <3>1. Reads!TextLengthOf(n) > MaxLineLength
      BY <2>2 DEF IsTooLong
    <3> QED
      BY <2>1, <3>1 DEF IsLong, Reads!PagesFit
  <2> QED
    BY <1>1, <1>3, <2>2 DEF WithoutLast
<1> QED
  BY <1>1, <1>2, <1>3

\* What Consume counts of a line that ends.
LEMMA SegmentTextFits ==
    ASSUME NEW r, r.pending \in Nat, NEW length \in Nat, NEW whole \in BOOLEAN, NEW q
    PROVE  LET size == Reads!WithoutCR(r, Reads!Segment(length, whole, q))
               all == r.pending + length
           IN  /\ size \in Nat /\ size <= all
               /\ whole /\ ~r.long => size = IF all > 0 /\ Reads!CRAt(q - 1) THEN all - 1 ELSE all
               /\ ~whole /\ ~r.long => size = IF all > 0 /\ Reads!CRAt(q) THEN all - 1 ELSE all
BY DEF Reads!WithoutCR, Reads!Segment

LEMMA NextPlace ==
    ASSUME Reads!PagesFit, NEW p \in Nat, Len(file) \in Nat, p + 1 <= Len(file), NEW n, OnLine(n, p)
    PROVE  /\ n \in Nat \ {0} /\ n <= Ends(Len(file)) + 1 /\ Length(p, n) \in Nat
           /\ file[p + 1] # EOL => OnLine(n, p + 1) /\ Length(p + 1, n) = Length(p, n) + 1
           /\ file[p + 1] = EOL => /\ OnLine(n + 1, p + 1) /\ Length(p + 1, n + 1) = 0
                                   /\ n + 1 <= Ends(Len(file)) + 1
                                   /\ IsLong(n) <=> Length(p, n) > MaxLineLength
                                   /\ IsTooLong(n) => WithoutLast(p, Length(p, n)) > MaxLineLength
<1> DEFINE size == Len(file)
<1>1. n = Ends(p) + 1 /\ Ends(p) \in Nat /\ Ends(p + 1) \in Nat
  BY EndsGrow DEF OnLine
<1>2. n \in Nat \ {0} /\ n + 1 \in Nat /\ n - 1 = Ends(p) /\ (n + 1) - 1 # Ends(p)
  BY <1>1
<1>3. p + 1 \in Nat /\ size \in Nat /\ p <= size /\ p + 1 <= size
  OBVIOUS
<1> HIDE DEF size
<1>4. Ends(p) <= Ends(size) /\ Ends(p + 1) <= Ends(size) /\ Ends(size) \in Nat
  BY <1>3, EndsMonotone, EndsGrow
<1>5. /\ Length(p, n) \in Nat
      /\ Length(p + 1, n) = IF file[p + 1] # EOL THEN Length(p, n) + 1 ELSE Length(p, n)
  BY <1>2, LengthGrows
<1>6. Length(p + 1, n + 1) = Length(p, n + 1)
  BY <1>2, LengthGrows
<1>7. Length(p, n + 1) = 0
  BY <1>1, <1>2, LengthNone
<1>8. ASSUME file[p + 1] # EOL PROVE Ends(p + 1) = Ends(p)
  BY <1>8, EndsGrow
<1>9. ASSUME file[p + 1] = EOL PROVE Ends(p + 1) = Ends(p) + 1
  BY <1>9, EndsGrow
<1>10. ASSUME file[p + 1] = EOL PROVE Length(size, n) = Length(p, n)
  <2>1. n <= Ends(p + 1)
    BY <1>1, <1>9, <1>10
  <2>2. Length(size, n) = Length(p + 1, n)
    BY <1>2, <1>3, <2>1, LengthStays
  <2> QED
    BY <1>5, <1>10, <2>2
<1>11. n <= Ends(size) + 1 /\ (file[p + 1] = EOL => n + 1 <= Ends(size) + 1)
  BY <1>1, <1>4, <1>9
<1>12. /\ file[p + 1] # EOL => OnLine(n, p + 1)
       /\ file[p + 1] = EOL => OnLine(n + 1, p + 1)
  BY <1>1, <1>8, <1>9 DEF OnLine
<1>13. ASSUME file[p + 1] = EOL
       PROVE  /\ IsLong(n) <=> Length(p, n) > MaxLineLength
              /\ IsTooLong(n) => WithoutLast(p, Length(p, n)) > MaxLineLength
  <2>1. Reads!LengthOf(n) = Length(p, n) /\ Length(p, n) \in Nat
    BY <1>5, <1>10, <1>13, SameLength DEF size
  <2>2. p <= Len(file)
    BY <1>3 DEF size
  <2> QED
    BY <1>13, <2>1, <2>2, LineLong
<1> QED
  BY <1>2, <1>5, <1>6, <1>7, <1>11, <1>12, <1>13 DEF size

\* The page has not ended, and what of line r.line has been read up to place p.
Going(r, p) ==
    /\ r.stop = FALSE /\ r.next = 0 /\ OnLine(r.line, p)
    /\ r.segment \in Nat /\ r.pending \in 0 .. MaxLineLength /\ r.long \in BOOLEAN
    /\ ~r.long => r.pending + r.segment = Length(p, r.line)
    /\ r.long => r.pending = MaxLineLength /\ Length(p, r.line) > MaxLineLength

Stopped(r, o) ==
    r.stop = TRUE /\ r.next = r.line /\ r.line > o /\ r.line <= Ends(Len(file)) + 1

PageFits(r, o, p) ==
    OnPage(r, o) /\ (Stopped(r, o) \/ (Going(r, p) /\ (p = Len(file) => r.segment = 0)))

SameLine(a, r) == a.line = r.line /\ a.stop = r.stop /\ a.next = r.next

SegmentIs(r, s) == [r EXCEPT !.segment = s]

LEMMA SegmentPut ==
    ASSUME NEW o, NEW r, OnPage(r, o), NEW s
    PROVE  LET a == SegmentIs(r, s)
           IN  OnPage(a, o) /\ SameLine(a, r) /\ a.segment = s /\ a.pending = r.pending /\ a.long = r.long
<1> DEFINE a == SegmentIs(r, s)
<1>1. DOMAIN r = PageFields
  BY DEF OnPage
<1>2. /\ DOMAIN a = PageFields /\ a.lines = r.lines /\ a.bytes = r.bytes /\ a.line = r.line /\ a.offset = r.offset
      /\ a.segment = s /\ a.pending = r.pending /\ a.long = r.long /\ a.next = r.next /\ a.stop = r.stop
  BY <1>1 DEF PageFields, SegmentIs
<1> HIDE DEF a
<1>3. OnPage(a, o)
  BY <1>2 DEF OnPage
<1> QED
  BY <1>2, <1>3 DEF a, SameLine

Anew(r) == [r EXCEPT !.pending = 0, !.long = FALSE]

LEMMA AnewPut ==
    ASSUME NEW o, NEW r, OnPage(r, o)
    PROVE  /\ OnPage(Anew(r), o) /\ SameLine(Anew(r), r) /\ Anew(r).segment = r.segment
           /\ Anew(r).pending = 0 /\ Anew(r).long = FALSE
<1> DEFINE a == Anew(r)
<1>1. DOMAIN r = PageFields
  BY DEF OnPage
<1>2. /\ DOMAIN a = PageFields /\ a.lines = r.lines /\ a.bytes = r.bytes /\ a.line = r.line /\ a.offset = r.offset
      /\ a.segment = r.segment /\ a.pending = 0 /\ a.long = FALSE /\ a.next = r.next /\ a.stop = r.stop
  BY <1>1 DEF PageFields, Anew
<1> HIDE DEF a
<1>3. OnPage(a, o)
  BY <1>2 DEF OnPage
<1> QED
  BY <1>2, <1>3 DEF a, SameLine

TooLong(r, cr) == [r EXCEPT !.pending = MaxLineLength, !.long = TRUE, !.cr = cr]

LEMMA TooLongPut ==
    ASSUME NEW o, NEW r, OnPage(r, o), NEW cr
    PROVE  /\ OnPage(TooLong(r, cr), o) /\ SameLine(TooLong(r, cr), r) /\ TooLong(r, cr).segment = r.segment
           /\ TooLong(r, cr).pending = MaxLineLength /\ TooLong(r, cr).long = TRUE
<1> DEFINE a == TooLong(r, cr)
<1>1. DOMAIN r = PageFields
  BY DEF OnPage
<1>2. /\ DOMAIN a = PageFields /\ a.lines = r.lines /\ a.bytes = r.bytes /\ a.line = r.line /\ a.offset = r.offset
      /\ a.segment = r.segment /\ a.pending = MaxLineLength /\ a.long = TRUE /\ a.next = r.next /\ a.stop = r.stop
  BY <1>1 DEF PageFields, TooLong
<1> HIDE DEF a
<1>3. OnPage(a, o)
  BY <1>2 DEF OnPage
<1> QED
  BY <1>2, <1>3 DEF a, SameLine

LEMMA PendingAdd ==
    ASSUME NEW o, NEW r, OnPage(r, o), NEW q
    PROVE  LET a == [r EXCEPT !.pending = @ + q]
           IN  OnPage(a, o) /\ SameLine(a, r) /\ a.segment = r.segment /\ a.pending = r.pending + q /\ a.long = r.long
<1> DEFINE a == [r EXCEPT !.pending = @ + q]
<1>1. DOMAIN r = PageFields
  BY DEF OnPage
<1>2. /\ DOMAIN a = PageFields /\ a.lines = r.lines /\ a.bytes = r.bytes /\ a.line = r.line /\ a.offset = r.offset
      /\ a.segment = r.segment /\ a.pending = r.pending + q /\ a.long = r.long /\ a.next = r.next /\ a.stop = r.stop
  BY <1>1 DEF PageFields
<1> HIDE DEF a
<1>3. OnPage(a, o)
  BY <1>2 DEF OnPage
<1> QED
  BY <1>2, <1>3 DEF a, SameLine

LEMMA StoppedFits ==
    ASSUME NEW o \in Nat \ {0}, NEW p, NEW r, OnPage(r, o), r.line > o, r.line <= Ends(Len(file)) + 1
    PROVE  PageFits(Reads!Stop(r), o, p)
<1> DEFINE a == Reads!Stop(r)
<1>1. OnPage(a, o) /\ IsStopped(a, r, o)
  BY StopFits
<1> HIDE DEF a
<1>2. Stopped(a, o)
  BY <1>1 DEF IsStopped, Stopped
<1> QED
  BY <1>1, <1>2 DEF PageFits, a

\* A segment: the rest of line r.line up to place p, and the symbol there.
LEMMA WholeFits ==
    ASSUME Reads!PagesFit, NEW o \in Nat \ {0}, NEW limit \in Nat \ {0},
           NEW p \in Nat, Len(file) \in Nat, p + 1 <= Len(file), file[p + 1] = EOL,
           NEW r, OnPage(r, o), r.stop = FALSE, r.next = 0, r.segment = 0, OnLine(r.line, p),
           NEW length \in Nat, r.long \in BOOLEAN, r.pending \in 0 .. MaxLineLength,
           ~r.long => r.pending + length = Length(p, r.line),
           r.long => Length(p, r.line) > MaxLineLength
    PROVE  PageFits(Reads!Consume(r, Reads!Segment(length, TRUE, p + 1), limit), o, p + 1)
<1> DEFINE b == Anew(r)
           c == Reads!Consume(r, Reads!Segment(length, TRUE, p + 1), limit)
           size == Reads!WithoutCR(r, Reads!Segment(length, TRUE, p + 1))
           long == r.long
           n == r.line
<1> SUFFICES PageFits(c, o, p + 1)
  OBVIOUS
<1>1. c = IF Reads!Full(r, limit) THEN Reads!Stop(r) ELSE Reads!AppendLine(b, size, long, limit)
  BY DEF Reads!Consume, Reads!Segment, Anew
<1>2. /\ n \in Nat \ {0} /\ n <= Ends(Len(file)) + 1
      /\ OnLine(n + 1, p + 1) /\ Length(p + 1, n + 1) = 0
      /\ n + 1 <= Ends(Len(file)) + 1
      /\ IsLong(n) <=> Length(p, n) > MaxLineLength
      /\ IsTooLong(n) => WithoutLast(p, Length(p, n)) > MaxLineLength
  BY NextPlace
<1>3. CASE Reads!Full(r, limit)
  <2>1. r.line > o
    BY <1>3, FullBehind
  <2>2. c = Reads!Stop(r)
    BY <1>1, <1>3
  <2> HIDE DEF c
  <2> QED
    BY <1>2, <2>1, <2>2, StoppedFits
<1>4. CASE ~Reads!Full(r, limit)
  <2>1. OnPage(b, o) /\ SameLine(b, r) /\ b.segment = 0 /\ b.pending = 0 /\ b.long = FALSE
    BY AnewPut
  <2>2. size \in Nat /\ long \in BOOLEAN
    <3>1. r.pending \in Nat
      BY DEF Reads!PagesFit
    <3> QED
      BY <3>1, SegmentTextFits
  <2>3. (IsTooLong(n) => (size > MaxLineLength \/ long)) /\ ((size > MaxLineLength \/ long) => IsLong(n))
    <3>1. CASE long
      BY <1>2, <3>1
    <3>2. CASE ~long
      <4>1. (p + 1) - 1 = p /\ r.pending \in Nat /\ MaxLineLength \in Nat
        BY DEF Reads!PagesFit
      <4> DEFINE all == r.pending + length
      <4>2. all \in Nat /\ all = Length(p, n)
        BY <3>2, <4>1
      <4>3. size \in Nat /\ size <= all /\ size = IF all > 0 /\ Reads!CRAt(p) THEN all - 1 ELSE all
        BY <3>2, <4>1, SegmentTextFits
      <4>4. WithoutLast(p, all) = IF Reads!CRAt(p) THEN all - 1 ELSE all
        BY DEF WithoutLast
      <4>5. IsLong(n) <=> all > MaxLineLength
        BY <1>2, <4>2
      <4>6. IsTooLong(n) => WithoutLast(p, all) > MaxLineLength
        BY <1>2, <4>2
      <4> HIDE DEF all, size
      <4> QED
        BY <3>2, <4>1, <4>2, <4>3, <4>4, <4>5, <4>6
    <3> QED
      BY <3>1, <3>2
  <2>4. c = Reads!AppendLine(b, size, long, limit)
    BY <1>1, <1>4
  <2> HIDE DEF b, c, size, long
  <2>5. b.line = n /\ b.stop = FALSE /\ b.next = 0
    BY <2>1 DEF SameLine
  <2>6. OnPage(c, o) /\ SameRest(c, b) /\ (OneLineMore(c, b) \/ IsStopped(c, b, o))
    BY <2>1, <2>2, <2>3, <2>4, <2>5, AppendFits
  <2>7. c.segment = 0 /\ c.pending = 0 /\ c.long = FALSE
    BY <2>1, <2>6 DEF SameRest
  <2>8. CASE OneLineMore(c, b)
    <3>1. c.line = n + 1 /\ c.stop = FALSE /\ c.next = 0
      BY <2>5, <2>8 DEF OneLineMore
    <3>2. 0 \in 0 .. MaxLineLength /\ 0 + 0 = 0
      BY DEF Reads!PagesFit
    <3>3. ~c.long /\ c.long \in BOOLEAN
      BY <2>7
    <3>4. c.pending + c.segment = Length(p + 1, c.line) /\ OnLine(c.line, p + 1)
      BY <1>2, <2>7, <3>1
    <3>5. Going(c, p + 1)
      BY <2>7, <3>1, <3>2, <3>3, <3>4 DEF Going
    <3> QED
      BY <2>6, <2>7, <3>5 DEF PageFits
  <2>9. CASE IsStopped(c, b, o)
    <3>1. Stopped(c, o)
      BY <1>2, <2>5, <2>9 DEF Stopped, IsStopped
    <3> QED
      BY <2>6, <3>1 DEF PageFits
  <2> QED
    BY <2>6, <2>8, <2>9
<1> QED
  BY <1>3, <1>4

LEMMA PartFits ==
    ASSUME Reads!PagesFit, NEW o \in Nat \ {0}, NEW limit \in Nat \ {0},
           NEW p \in Nat, Len(file) \in Nat, p + 1 <= Len(file), file[p + 1] # EOL,
           NEW r, OnPage(r, o), r.stop = FALSE, r.next = 0, r.segment = 0, OnLine(r.line, p),
           NEW length \in Nat, r.long \in BOOLEAN, r.pending \in 0 .. MaxLineLength,
           ~r.long => r.pending + length = Length(p, r.line) + 1,
           r.long => r.pending = MaxLineLength /\ Length(p, r.line) > MaxLineLength
    PROVE  PageFits(Reads!Consume(r, Reads!Segment(length, FALSE, p + 1), limit), o, p + 1)
<1> DEFINE c == Reads!Consume(r, Reads!Segment(length, FALSE, p + 1), limit)
           b == TooLong(r, Reads!CRAt((p + 1) - (r.pending + length - MaxLineLength)))
           d == [r EXCEPT !.pending = @ + length]
           n == r.line
<1> SUFFICES PageFits(c, o, p + 1)
  OBVIOUS
<1>1. c = IF Reads!Full(r, limit) THEN Reads!Stop(r)
          ELSE IF r.long THEN r
          ELSE IF r.pending + length > MaxLineLength THEN b ELSE d
  BY DEF Reads!Consume, Reads!Segment, TooLong
<1>2. /\ n \in Nat \ {0} /\ n <= Ends(Len(file)) + 1 /\ Length(p, n) \in Nat
      /\ OnLine(n, p + 1) /\ Length(p + 1, n) = Length(p, n) + 1
  BY NextPlace
<1>3. CASE Reads!Full(r, limit)
  <2>1. r.line > o
    BY <1>3, FullBehind
  <2>2. c = Reads!Stop(r)
    BY <1>1, <1>3
  <2> HIDE DEF c
  <2> QED
    BY <1>2, <2>1, <2>2, StoppedFits
<1>4. MaxLineLength \in Nat /\ r.pending \in Nat
  BY DEF Reads!PagesFit
<1>5. CASE ~Reads!Full(r, limit) /\ r.long
  <2>1. c = r
    BY <1>1, <1>5
  <2>2. Length(p + 1, n) > MaxLineLength
    BY <1>2, <1>4, <1>5
  <2>3. Going(r, p + 1)
    BY <1>2, <1>5, <2>2 DEF Going
  <2> HIDE DEF c
  <2> QED
    BY <2>1, <2>3 DEF PageFits
<1>6. CASE ~Reads!Full(r, limit) /\ ~r.long /\ r.pending + length > MaxLineLength
  <2>1. c = b
    BY <1>1, <1>6
  <2>2. OnPage(b, o) /\ SameLine(b, r) /\ b.segment = 0 /\ b.pending = MaxLineLength /\ b.long = TRUE
    <3>1. \A cr : LET a == TooLong(r, cr) IN /\ OnPage(a, o) /\ SameLine(a, r) /\ a.segment = r.segment
                                             /\ a.pending = MaxLineLength /\ a.long = TRUE
      BY TooLongPut
    <3> QED
      BY <3>1
  <2>3. Length(p + 1, n) > MaxLineLength /\ MaxLineLength \in 0 .. MaxLineLength
    BY <1>2, <1>4, <1>6
  <2> HIDE DEF b, c
  <2>4. /\ b.long /\ b.long \in BOOLEAN /\ b.line = n /\ b.stop = FALSE /\ b.next = 0
        /\ OnLine(b.line, p + 1)
    BY <1>2, <2>2 DEF SameLine
  <2>5. Going(b, p + 1)
    BY <2>2, <2>3, <2>4 DEF Going
  <2> QED
    BY <2>1, <2>2, <2>5 DEF PageFits
<1>7. CASE ~Reads!Full(r, limit) /\ ~r.long /\ ~(r.pending + length > MaxLineLength)
  <2>1. c = d
    BY <1>1, <1>7
  <2>2. OnPage(d, o) /\ SameLine(d, r) /\ d.segment = 0 /\ d.pending = r.pending + length /\ d.long = r.long
    BY PendingAdd
  <2>3. r.pending + length = Length(p + 1, n) /\ r.pending + length \in 0 .. MaxLineLength
    BY <1>2, <1>4, <1>7
  <2>4. (r.pending + length) + 0 = Length(p + 1, n)
    BY <1>4, <2>3
  <2> HIDE DEF d, c
  <2>5. Going(d, p + 1)
    BY <1>2, <1>7, <2>2, <2>3, <2>4 DEF Going, SameLine
  <2> QED
    BY <2>1, <2>2, <2>5 DEF PageFits
<1> QED
  BY <1>3, <1>5, <1>6, <1>7

\* One symbol more.
LEMMA PlaceFits ==
    ASSUME Reads!PagesFit, NEW o \in Nat \ {0}, NEW limit \in Nat \ {0},
           NEW p \in Nat, Len(file) \in Nat, p + 1 <= Len(file), NEW r, PageFits(r, o, p)
    PROVE  PageFits(Reads!Take(r, p + 1, limit), o, p + 1)
<1> DEFINE whole == file[p + 1] = EOL
           length == IF whole THEN r.segment ELSE r.segment + 1
           border == whole \/ (p + 1) % ChunkSize = 0 \/ p + 1 = Len(file)
           b == SegmentIs(r, 0)
           d == SegmentIs(r, length)
           c == Reads!Take(r, p + 1, limit)
           n == r.line
<1> SUFFICES PageFits(c, o, p + 1)
  OBVIOUS
<1>1. OnPage(r, o) /\ (Stopped(r, o) \/ Going(r, p))
  BY DEF PageFits
<1>2. c = IF border THEN Reads!Consume(b, Reads!Segment(length, whole, p + 1), limit) ELSE d
  BY DEF Reads!Take, SegmentIs
<1>3. /\ OnPage(b, o) /\ SameLine(b, r) /\ b.segment = 0 /\ b.pending = r.pending /\ b.long = r.long
      /\ OnPage(d, o) /\ SameLine(d, r) /\ d.segment = length /\ d.pending = r.pending /\ d.long = r.long
  BY <1>1, SegmentPut
<1>4. whole => border
  OBVIOUS
<1>5. p + 1 = Len(file) => border
  OBVIOUS
<1> HIDE DEF b, d, c, border
<1>6. CASE Stopped(r, o)
  <2>1. Stopped(b, o) /\ Stopped(d, o)
    BY <1>3, <1>6 DEF Stopped, SameLine
  <2>2. PageFits(b, o, p + 1) /\ PageFits(d, o, p + 1)
    BY <1>3, <2>1 DEF PageFits
  <2>3. Reads!Consume(b, Reads!Segment(length, whole, p + 1), limit) = b
    BY <2>1 DEF Stopped, Reads!Consume
  <2> QED
    BY <1>2, <2>2, <2>3
<1>7. CASE Going(r, p)
  <2>1. /\ b.stop = FALSE /\ b.next = 0 /\ b.line = n /\ OnLine(n, p)
        /\ d.stop = FALSE /\ d.next = 0 /\ d.line = n
        /\ r.segment \in Nat /\ r.long \in BOOLEAN /\ r.pending \in 0 .. MaxLineLength /\ length \in Nat
    BY <1>3, <1>7 DEF Going, SameLine
  <2>2. /\ ~r.long => r.pending + r.segment = Length(p, n)
        /\ r.long => r.pending = MaxLineLength /\ Length(p, n) > MaxLineLength
    BY <1>7 DEF Going
  <2>3. CASE whole
    <3>1. length = r.segment /\ c = Reads!Consume(b, Reads!Segment(length, TRUE, p + 1), limit)
      BY <1>2, <1>4, <2>3
    <3>2. /\ ~b.long => b.pending + length = Length(p, b.line)
          /\ b.long => Length(p, b.line) > MaxLineLength
      BY <1>3, <2>1, <2>2, <3>1
    <3>3. b.long \in BOOLEAN /\ b.pending \in 0 .. MaxLineLength /\ OnLine(b.line, p)
      BY <1>3, <2>1
    <3> HIDE DEF length
    <3> QED
      BY <1>3, <2>1, <2>3, <3>1, <3>2, <3>3, WholeFits
  <2>4. CASE border /\ ~whole
    <3>1. length = r.segment + 1 /\ c = Reads!Consume(b, Reads!Segment(length, FALSE, p + 1), limit)
      BY <1>2, <2>4
    <3>2. r.pending \in Nat
      BY <2>1 DEF Reads!PagesFit
    <3>3. /\ ~b.long => b.pending + length = Length(p, b.line) + 1
          /\ b.long => b.pending = MaxLineLength /\ Length(p, b.line) > MaxLineLength
      BY <1>3, <2>1, <2>2, <3>1, <3>2, SMTT(20)
    <3>4. b.long \in BOOLEAN /\ b.pending \in 0 .. MaxLineLength /\ OnLine(b.line, p)
      BY <1>3, <2>1
    <3> HIDE DEF length
    <3> QED
      BY <1>3, <2>1, <2>4, <3>1, <3>3, <3>4, PartFits
  <2>5. CASE ~border
    <3>1. length = r.segment + 1 /\ c = d /\ p + 1 # Len(file) /\ file[p + 1] # EOL
      BY <1>2, <1>4, <1>5, <2>5
    <3>2. OnLine(n, p + 1) /\ Length(p + 1, n) = Length(p, n) + 1 /\ Length(p, n) \in Nat
      BY <2>1, <3>1, NextPlace
    <3>3. r.pending \in Nat /\ MaxLineLength \in Nat
      BY <2>1 DEF Reads!PagesFit
    <3>4. /\ ~d.long => d.pending + d.segment = Length(p + 1, n)
          /\ d.long => d.pending = MaxLineLength /\ Length(p + 1, n) > MaxLineLength
      BY <1>3, <2>1, <2>2, <3>1, <3>2, <3>3
    <3>5. d.long \in BOOLEAN /\ d.pending \in 0 .. MaxLineLength /\ d.segment \in Nat /\ OnLine(d.line, p + 1)
      BY <1>3, <2>1, <3>2
    <3>6. Going(d, p + 1)
      BY <2>1, <3>4, <3>5 DEF Going
    <3> QED
      BY <1>3, <3>1, <3>6 DEF PageFits
  <2> QED
    BY <2>3, <2>4, <2>5
<1> QED
  BY <1>1, <1>6, <1>7

ReadStep(f, s, limit, k) == IF k = 0 THEN s ELSE Reads!Take(f[k - 1], k, limit)

IsRead(f, s, limit, n) == f = [k \in 0 .. n |-> ReadStep(f, s, limit, k)]

LEMMA ReadExists ==
    ASSUME NEW s, NEW limit, NEW n \in Nat
    PROVE  \E f : IsRead(f, s, limit, n)
<1> DEFINE T == {m \in Nat : \E f : IsRead(f, s, limit, m)}
<1>1. 0 \in T
  <2> DEFINE f == [k \in 0 .. 0 |-> s]
  <2>1. f = [k \in 0 .. 0 |-> ReadStep(f, s, limit, k)]
    BY DEF ReadStep
  <2> QED
    BY <2>1 DEF IsRead
<1>2. ASSUME NEW m \in Nat, m \in T PROVE m + 1 \in T
  <2>1. PICK f : f = [k \in 0 .. m |-> ReadStep(f, s, limit, k)]
    BY <1>2 DEF IsRead
  <2> DEFINE next == Reads!Take(f[m], m + 1, limit)
             g == [k \in 0 .. m + 1 |-> IF k = m + 1 THEN next ELSE f[k]]
  <2> HIDE DEF next
  <2>2. \A k \in 0 .. m : f[k] = ReadStep(f, s, limit, k)
    BY <2>1
  <2>3. \A k \in 0 .. m : g[k] = f[k]
    OBVIOUS
  <2>4. ASSUME NEW k \in 0 .. m + 1 PROVE g[k] = ReadStep(g, s, limit, k)
    <3>1. CASE k = m + 1
      <4>1. g[k] = next /\ k # 0 /\ k - 1 = m /\ g[m] = f[m]
        BY <2>3, <3>1
      <4> HIDE DEF g
      <4> QED
        BY <3>1, <4>1 DEF ReadStep, next
    <3>2. CASE k # m + 1
      <4>1. k \in 0 .. m /\ (k # 0 => k - 1 \in 0 .. m)
        BY <3>2
      <4> HIDE DEF g
      <4> QED
        BY <2>2, <2>3, <4>1 DEF ReadStep
    <3> QED
      BY <3>1, <3>2
  <2>5. g = [k \in 0 .. m + 1 |-> g[k]]
    OBVIOUS
  <2> HIDE DEF g
  <2>6. g = [k \in 0 .. m + 1 |-> ReadStep(g, s, limit, k)]
    BY <2>4, <2>5
  <2> QED
    BY <2>6 DEF IsRead
<1> HIDE DEF T
<1>3. n \in T
  BY <1>1, <1>2, SetInduction
<1> QED
  BY <1>3 DEF T

FileFits == file \in Seq({"c", "entry", CR, EOL})

\* What follows the last line end.
LEMMA LastLine ==
    ASSUME Reads!PagesFit, FileFits, NEW n, OnLine(n, Len(file))
    PROVE  /\ n \in Nat \ {0} /\ n <= Ends(Len(file)) + 1 /\ Length(Len(file), n) \in Nat
           /\ Reads!NumberOfLines \in Nat
           /\ Reads!NumberOfLines + 1 = IF Length(Len(file), n) = 0 THEN n ELSE n + 1
           /\ IsLong(n) <=> Length(Len(file), n) > MaxLineLength
           /\ IsTooLong(n) => WithoutLast(Len(file), Length(Len(file), n)) > MaxLineLength
<1> DEFINE size == Len(file)
<1>1. size \in Nat /\ (file = <<>> <=> size = 0)
  BY DEF FileFits
<1>2. Reads!Last(file) = file[size]
  BY DEF Reads!Last
<1> HIDE DEF size
<1>3. n = Ends(size) + 1 /\ Ends(size) \in Nat
  BY <1>1, EndsGrow DEF OnLine, size
<1>4. n \in Nat \ {0} /\ n <= Ends(size) + 1
  BY <1>3
<1>5. Length(size, n) \in Nat
  BY <1>1, <1>4, LengthGrows
<1>6. Length(size, n) = 0 <=> (size = 0 \/ file[size] = EOL)
  <2>1. ASSUME size = 0 PROVE Length(size, n) = 0
    <3>1. Chars(0, n) = {}
      BY DEF Chars
    <3> QED
      BY <2>1, <3>1, FS_EmptySet DEF Length
  <2>2. ASSUME size # 0 PROVE Length(size, n) = 0 <=> file[size] = EOL
    <3> DEFINE p == size - 1
               m == Ends(p) + 1
    <3>1. p \in Nat /\ p + 1 = size
      BY <1>1, <2>2
    <3>2. p + 1 <= Len(file) /\ Len(file) \in Nat
      BY <1>1, <3>1 DEF size
    <3> HIDE DEF p
    <3>3. OnLine(m, p)
      BY DEF OnLine
    <3> HIDE DEF m
    <3>4. /\ Length(p, m) \in Nat
          /\ file[p + 1] # EOL => OnLine(m, p + 1) /\ Length(p + 1, m) = Length(p, m) + 1
          /\ file[p + 1] = EOL => OnLine(m + 1, p + 1) /\ Length(p + 1, m + 1) = 0
      BY <3>1, <3>2, <3>3, NextPlace
    <3>5. CASE file[size] = EOL
      <4>1. m + 1 = n
        BY <1>3, <3>1, <3>4, <3>5 DEF OnLine
      <4> QED
        BY <3>1, <3>4, <3>5, <4>1
    <3>6. CASE file[size] # EOL
      <4>1. m = n
        BY <1>3, <3>1, <3>4, <3>6 DEF OnLine
      <4>2. Length(size, n) = Length(p, m) + 1
        BY <3>1, <3>4, <3>6, <4>1
      <4> QED
        BY <3>4, <3>6, <4>2
    <3> QED
      BY <3>5, <3>6
  <2> QED
    BY <2>1, <2>2
<1>7. Reads!NumberOfLines = Ends(size) + (IF size = 0 \/ file[size] = EOL THEN 0 ELSE 1)
  BY <1>1, <1>2, SameSize DEF Reads!NumberOfLines, Ends, size
<1>8. Reads!NumberOfLines + 1 = IF Length(size, n) = 0 THEN n ELSE n + 1
  BY <1>3, <1>6, <1>7
<1>9. /\ IsLong(n) <=> Length(size, n) > MaxLineLength
      /\ IsTooLong(n) => WithoutLast(size, Length(size, n)) > MaxLineLength
  <2>1. Reads!LengthOf(n) = Length(size, n)
    BY SameLength DEF size
  <2>2. size = Len(file) /\ Len(file) \in Nat /\ size <= Len(file) /\ OnLine(n, size)
    BY <1>1 DEF size
  <2> QED
    BY <1>1, <1>5, <2>1, <2>2, LineLong
<1>10. Reads!NumberOfLines \in Nat
  BY <1>3, <1>7
<1> QED
  BY <1>4, <1>5, <1>8, <1>9, <1>10 DEF size

FirstPage == [lines |-> <<>>, bytes |-> 0, line |-> 1, offset |-> offset, next |-> 0,
              segment |-> 0, pending |-> 0, long |-> FALSE, cr |-> FALSE, stop |-> FALSE]

LEMMA PageStart ==
    ASSUME Reads!PagesFit, offset \in Nat \ {0}
    PROVE  PageFits(FirstPage, offset, 0)
<1> DEFINE r == FirstPage
<1>1. DOMAIN r = PageFields
  BY DEF FirstPage, PageFields
<1>2. /\ r.lines = <<>> /\ r.bytes = 0 /\ r.line = 1 /\ r.offset = offset /\ r.next = 0
      /\ r.segment = 0 /\ r.pending = 0 /\ r.long = FALSE /\ r.stop = FALSE
  BY DEF FirstPage
<1> HIDE DEF r
<1>3. <<>> \in Seq(LineOnPage) /\ Len(<<>>) = 0 /\ ~(1 > offset)
  OBVIOUS
<1>4. OnPage(r, offset)
  BY <1>1, <1>2, <1>3 DEF OnPage
<1>5. Length(0, 1) = 0
  <2>1. Chars(0, 1) = {}
    BY DEF Chars
  <2> QED
    BY <2>1, FS_EmptySet DEF Length
<1>6. OnLine(r.line, 0)
  BY <1>2, NoEnds DEF OnLine
<1>7. 0 \in 0 .. MaxLineLength /\ ~r.long /\ r.long \in BOOLEAN
  <2>1. 0 \in 0 .. MaxLineLength
    BY DEF Reads!PagesFit
  <2>2. ~r.long /\ r.long \in BOOLEAN
    BY <1>2
  <2> QED
    BY <2>1, <2>2
<1>8. r.pending + r.segment = Length(0, r.line)
  BY <1>2, <1>5
<1>9. Going(r, 0)
  BY <1>2, <1>6, <1>7, <1>8 DEF Going
<1> QED
  BY <1>2, <1>4, <1>9 DEF PageFits, r

\* A page of a file: it names the line behind its last one, or is the last page.
Served(e, o) ==
    /\ OnPage(e, o)
    /\ \/ e.next = e.line /\ e.line > o /\ e.line <= Ends(Len(file)) + 1
       \/ e.next = 0 /\ e.line = Reads!NumberOfLines + 1

TailLength(r) == Reads!WithoutCR(r, Reads!Segment(0, FALSE, Len(file)))

LEMMA TailFits ==
    ASSUME Reads!PagesFit, FileFits, NEW o \in Nat \ {0}, NEW limit \in Nat \ {0}, NEW r, PageFits(r, o, Len(file))
    PROVE  Served(IF ~r.stop /\ r.pending > 0 THEN Reads!AppendLine(r, TailLength(r), r.long, limit) ELSE r, o)
<1> DEFINE size == Len(file)
           n == r.line
           e == IF ~r.stop /\ r.pending > 0 THEN Reads!AppendLine(r, TailLength(r), r.long, limit) ELSE r
<1> SUFFICES Served(e, o)
  OBVIOUS
<1> HIDE DEF size
<1>1. OnPage(r, o) /\ (Stopped(r, o) \/ (Going(r, size) /\ r.segment = 0))
  BY DEF PageFits, size
<1>2. CASE Stopped(r, o)
  <2>1. e = r
    BY <1>2 DEF Stopped
  <2> HIDE DEF e
  <2> QED
    BY <1>1, <1>2, <2>1 DEF Served, Stopped
<1>3. CASE Going(r, size) /\ r.segment = 0
  <2>1. /\ r.stop = FALSE /\ r.next = 0 /\ OnLine(n, size) /\ r.long \in BOOLEAN
        /\ r.pending \in Nat /\ r.pending <= MaxLineLength /\ MaxLineLength \in Nat \ {0}
    BY <1>3 DEF Going, Reads!PagesFit
  <2>2. /\ ~r.long => r.pending = Length(size, n)
        /\ r.long => r.pending = MaxLineLength /\ Length(size, n) > MaxLineLength
    BY <1>3, <2>1 DEF Going
  <2>3. /\ n \in Nat \ {0} /\ n <= Ends(size) + 1 /\ Length(size, n) \in Nat
        /\ Reads!NumberOfLines + 1 = IF Length(size, n) = 0 THEN n ELSE n + 1
        /\ IsLong(n) <=> Length(size, n) > MaxLineLength
        /\ IsTooLong(n) => WithoutLast(size, Length(size, n)) > MaxLineLength
    BY <2>1, LastLine DEF size
  <2>4. CASE ~(r.pending > 0)
    <3>1. e = r
      BY <2>4
    <3>2. Length(size, n) = 0
      BY <2>1, <2>2, <2>4
    <3> HIDE DEF e
    <3> QED
      BY <1>1, <2>1, <2>3, <3>1, <3>2 DEF Served
  <2>5. CASE r.pending > 0
    <3>1. e = Reads!AppendLine(r, TailLength(r), r.long, limit)
      BY <2>1, <2>5
    <3>2. Length(size, n) # 0
      BY <2>1, <2>2, <2>3, <2>5
    <3> DEFINE length == TailLength(r)
    <3>7. length \in Nat /\ (~r.long => length = IF r.pending > 0 /\ Reads!CRAt(size) THEN r.pending - 1 ELSE r.pending)
      <4> DEFINE all == r.pending + 0
      <4>1. /\ length \in Nat
            /\ ~r.long => length = IF all > 0 /\ Reads!CRAt(Len(file)) THEN all - 1 ELSE all
        <5>1. r.pending \in Nat /\ 0 \in Nat /\ FALSE \in BOOLEAN
          BY <2>1
        <5> DEFINE t == Reads!WithoutCR(r, Reads!Segment(0, FALSE, Len(file)))
        <5>2. /\ t \in Nat
              /\ ~FALSE /\ ~r.long => t = IF all > 0 /\ Reads!CRAt(Len(file)) THEN all - 1 ELSE all
          BY <5>1, SegmentTextFits
        <5>3. length = t
          BY DEF TailLength
        <5> HIDE DEF length, t, all
        <5> QED
          BY <5>2, <5>3
      <4>2. all = r.pending
        BY <2>1
      <4>3. Reads!CRAt(size) <=> Reads!CRAt(Len(file))
        BY DEF size
      <4> HIDE DEF all, length
      <4> QED
        BY <2>1, <4>1, <4>2, <4>3
    <3>8. WithoutLast(size, Length(size, n)) = IF Reads!CRAt(size) THEN Length(size, n) - 1 ELSE Length(size, n)
      BY DEF WithoutLast
    <3> HIDE DEF length
    <3>3. /\ IsTooLong(n) => (length > MaxLineLength \/ r.long)
          /\ (length > MaxLineLength \/ r.long) => IsLong(n)
      <4>1. CASE r.long
        BY <2>2, <2>3, <4>1
      <4>2. CASE ~r.long
        <5>1. r.pending = Length(size, n)
          BY <2>2, <4>2
        <5> QED
          BY <2>1, <2>3, <2>5, <3>7, <3>8, <4>2, <5>1
      <4> QED
        BY <4>1, <4>2
    <3> HIDE DEF e
    <3>4. OnPage(e, o) /\ (OneLineMore(e, r) \/ IsStopped(e, r, o))
      BY <1>1, <2>1, <3>1, <3>3, <3>7, AppendFits DEF length
    <3>5. CASE OneLineMore(e, r)
      BY <2>1, <2>3, <3>2, <3>4, <3>5 DEF Served, OneLineMore
    <3>6. CASE IsStopped(e, r, o)
      BY <2>3, <3>4, <3>6 DEF Served, IsStopped, size
    <3> QED
      BY <3>4, <3>5, <3>6
  <2> QED
    BY <2>4, <2>5
<1> QED
  BY <1>1, <1>2, <1>3

LEMMA FilePageFits ==
    ASSUME Reads!PagesFit, FileFits, offset \in Nat \ {0}, NEW limit \in Nat \ {0}
    PROVE  Served(Reads!ReadFilePage(limit), offset)
<1> DEFINE size == Len(file)
           f == CHOOSE f : IsRead(f, FirstPage, limit, size)
           e == IF ~f[size].stop /\ f[size].pending > 0
                  THEN Reads!AppendLine(f[size], TailLength(f[size]), f[size].long, limit) ELSE f[size]
<1>1. size \in Nat
  BY DEF FileFits
<1>2. Reads!ReadFilePage(limit) = e
  BY DEF Reads!ReadFilePage, IsRead, ReadStep, FirstPage, TailLength
<1> HIDE DEF size
<1>3. IsRead(f, FirstPage, limit, size)
  BY <1>1, ReadExists
<1> HIDE DEF f
<1>4. \A k \in 0 .. size : f[k] = ReadStep(f, FirstPage, limit, k)
  BY <1>3 DEF IsRead
<1> DEFINE T == {k \in Nat : k <= size => PageFits(f[k], offset, k)}
<1>5. 0 \in T
  <2>1. f[0] = FirstPage
    BY <1>1, <1>4 DEF ReadStep
  <2> QED
    BY <2>1, PageStart
<1>6. ASSUME NEW k \in Nat, k \in T PROVE k + 1 \in T
  <2> SUFFICES ASSUME k + 1 <= size PROVE PageFits(f[k + 1], offset, k + 1)
    OBVIOUS
  <2>1. k + 1 \in 0 .. size /\ k + 1 # 0 /\ (k + 1) - 1 = k /\ k <= size
    BY <1>1
  <2>2. f[k + 1] = Reads!Take(f[k], k + 1, limit)
    BY <1>4, <2>1 DEF ReadStep
  <2>3. PageFits(f[k], offset, k)
    BY <1>6, <2>1
  <2> HIDE DEF T
  <2>4. PageFits(Reads!Take(f[k], k + 1, limit), offset, k + 1)
    BY <1>1, <2>3, PlaceFits DEF size
  <2> QED
    BY <2>2, <2>4
<1> HIDE DEF T
<1>7. size \in T
  BY <1>1, <1>5, <1>6, SetInduction
<1>8. PageFits(f[size], offset, Len(file))
  BY <1>1, <1>7 DEF T, size
<1>9. Served(e, offset)
  BY <1>8, TailFits
<1> QED
  BY <1>2, <1>9

-----------------------------------------------------------------------------
(* ReadPages: the pages so far *)

ReadsInv ==
    /\ kind \in {"none", "file", "directory"} /\ FileFits
    /\ got \in Seq(LineOnPage) /\ offset \in Nat
    /\ \A i \in 1 .. Len(got) : got[i].n = i /\ (kind = "file" => (IsTooLong(i) => got[i].cut) /\ (got[i].cut => IsLong(i)))
    /\ kind = "none" => offset = 1
    /\ offset # 0 => /\ offset = Len(got) + 1
                     /\ offset # 1 => offset <= IF kind = "file" THEN Ends(Len(file)) + 1 ELSE Len(file) + 1
    /\ offset = 0 => Len(got) = IF kind = "file" THEN Reads!NumberOfLines ELSE Len(file)

LEMMA ReadsStart == ASSUME Reads!Init PROVE ReadsInv
<1>1. got = <<>> /\ file = <<>> /\ offset = 1 /\ kind = "none"
  BY DEF Reads!Init
<1>2. Len(<<>>) = 0 /\ <<>> \in Seq(LineOnPage) /\ <<>> \in Seq({"c", "entry", CR, EOL})
  OBVIOUS
<1> QED
  BY <1>1, <1>2 DEF ReadsInv, FileFits

LEMMA ChooseFits == ASSUME Reads!PagesFit, ReadsInv, Reads!Choose PROVE ReadsInv'
<1>1. /\ kind = "none" /\ offset = 1 /\ offset' = 1 /\ got' = got /\ got \in Seq(LineOnPage)
      /\ Len(got) + 1 = 1 /\ \A i \in 1 .. Len(got) : got[i].n = i
  BY DEF Reads!Choose, ReadsInv
<1>2. Len(got) = 0
  BY <1>1
<1>3. kind' \in {"none", "file", "directory"}
  BY DEF Reads!Choose
<1>4. (\E n \in 0 .. MaxSymbols : file' \in [1 .. n -> {"c", CR, EOL}])
      \/ (\E n \in 0 .. MaxEntries : file' = [i \in 1 .. n |-> "entry"])
  BY DEF Reads!Choose
<1>5. FileFits'
  <2>1. CASE \E n \in 0 .. MaxSymbols : file' \in [1 .. n -> {"c", CR, EOL}]
    BY <2>1 DEF FileFits, Reads!PagesFit
  <2>2. CASE \E n \in 0 .. MaxEntries : file' = [i \in 1 .. n |-> "entry"]
    <3>1. PICK n \in 0 .. MaxEntries : file' = [i \in 1 .. n |-> "entry"]
      BY <2>2
    <3> QED
      BY <3>1 DEF FileFits, Reads!PagesFit
  <2> QED
    BY <1>4, <2>1, <2>2
<1>6. Len(got') = 0 /\ got' \in Seq(LineOnPage) /\ offset' \in Nat /\ offset' # 0 /\ offset' = Len(got') + 1
  BY <1>1, <1>2
<1>7. \A i \in 1 .. Len(got') : FALSE
  BY <1>6
<1> QED
  BY <1>1, <1>3, <1>5, <1>6, <1>7 DEF ReadsInv

LEMMA Joined ==
    ASSUME NEW S, NEW g \in Seq(S), NEW q \in Seq(S)
    PROVE  /\ g \o q \in Seq(S) /\ Len(g) \in Nat /\ Len(q) \in Nat /\ Len(g \o q) = Len(g) + Len(q)
           /\ \A i \in 1 .. Len(g) : (g \o q)[i] = g[i]
           /\ \A i \in 1 .. Len(q) : (g \o q)[Len(g) + i] = q[i]
OBVIOUS

\* The lines q of a page follow those so far.
LEMMA PageJoins ==
    ASSUME ReadsInv, offset # 0, NEW q \in Seq(LineOnPage), got' = got \o q, UNCHANGED <<file, kind>>,
           \A i \in 1 .. Len(q) : q[i].n = (offset + i) - 1,
           kind = "file" => \A i \in 1 .. Len(q) : (IsTooLong((offset + i) - 1) => q[i].cut) /\ (q[i].cut => IsLong((offset + i) - 1))
    PROVE  /\ got' \in Seq(LineOnPage) /\ Len(q) \in Nat /\ Len(got') + 1 = offset + Len(q)
           /\ \A i \in 1 .. Len(got') : got'[i].n = i /\ (kind' = "file" => (IsTooLong(i)' => got'[i].cut) /\ (got'[i].cut => IsLong(i)'))
<1> DEFINE k == Len(got)
           m == Len(q)
<1>1. /\ got' \in Seq(LineOnPage) /\ k \in Nat /\ m \in Nat /\ Len(got') = k + m
      /\ \A i \in 1 .. k : got'[i] = got[i]
      /\ \A i \in 1 .. m : got'[k + i] = q[i]
  BY Joined DEF ReadsInv
<1>2. \A i \in 1 .. k : got[i].n = i /\ (kind = "file" => (IsTooLong(i) => got[i].cut) /\ (got[i].cut => IsLong(i)))
  BY DEF ReadsInv
<1>3. offset = k + 1
  BY DEF ReadsInv
<1>4. \A i : (IsLong(i)' <=> IsLong(i)) /\ (IsTooLong(i)' <=> IsTooLong(i))
  BY DEF IsLong, IsTooLong, Reads!LengthOf, Reads!TextLengthOf, Reads!LineEnds
<1> HIDE DEF k, m
<1>5. ASSUME NEW i \in 1 .. k + m PROVE got'[i].n = i /\ (kind' = "file" => (IsTooLong(i) => got'[i].cut) /\ (got'[i].cut => IsLong(i)))
  <2>1. CASE i \in 1 .. k
    BY <1>1, <1>2, <2>1
  <2>2. CASE i \notin 1 .. k
    <3> DEFINE j == i - k
    <3>1. j \in 1 .. m /\ k + j = i /\ (offset + j) - 1 = i
      BY <1>1, <1>3, <2>2
    <3>2. got'[i] = q[j]
      BY <1>1, <3>1
    <3>3. q[j].n = i
      BY <3>1 DEF m
    <3>4. kind = "file" => (IsTooLong(i) => q[j].cut) /\ (q[j].cut => IsLong(i))
      BY <3>1 DEF m
    <3> QED
      BY <3>2, <3>3, <3>4
  <2> QED
    BY <2>1, <2>2
<1> QED
  BY <1>1, <1>3, <1>4, <1>5 DEF m

LEMMA SameFile ==
    ASSUME UNCHANGED <<file, kind>>
    PROVE  /\ Ends(Len(file))' = Ends(Len(file)) /\ Reads!NumberOfLines' = Reads!NumberOfLines
           /\ Len(file)' = Len(file)
BY DEF Ends, Reads!LineEnds, Reads!NumberOfLines

LEMMA FileRead ==
    ASSUME Reads!PagesFit, ReadsInv, kind = "file", offset # 0, NEW limit \in Limits,
           got' = got \o Reads!ReadFilePage(limit).lines, offset' = Reads!ReadFilePage(limit).next,
           UNCHANGED <<file, kind>>
    PROVE  ReadsInv'
<1> DEFINE e == Reads!ReadFilePage(limit)
           q == e.lines
           m == Ends(Len(file))
           all == Reads!NumberOfLines
<1>1. /\ offset \in Nat \ {0} /\ FileFits /\ limit \in Nat \ {0}
      /\ offset # 1 => offset <= m + 1
  BY DEF ReadsInv, Reads!PagesFit
<1>2. Served(e, offset)
  BY <1>1, FilePageFits
<1>3. m \in Nat /\ all \in Nat /\ (all + 1 = m + 1 \/ all + 1 = (m + 1) + 1)
  <2>1. Len(file) \in Nat
    BY <1>1 DEF FileFits
  <2>2. m \in Nat
    BY <2>1, EndsGrow
  <2>3. OnLine(m + 1, Len(file))
    BY DEF OnLine
  <2> HIDE DEF m
  <2> QED
    BY <1>1, <2>2, <2>3, LastLine
<1> HIDE DEF e, m, all
<1>4. /\ q \in Seq(LineOnPage) /\ e.line \in Nat
      /\ Len(q) = IF e.line > offset THEN e.line - offset ELSE 0
      /\ \A i \in 1 .. Len(q) : q[i].n = (offset + i) - 1 /\ ((IsTooLong((offset + i) - 1) => q[i].cut) /\ (q[i].cut => IsLong((offset + i) - 1)))
  BY <1>2 DEF Served, OnPage
<1>5. got' = got \o q /\ offset' = e.next
  BY DEF e
<1> HIDE DEF q
<1>6. /\ got' \in Seq(LineOnPage) /\ Len(q) \in Nat /\ Len(got') + 1 = offset + Len(q)
      /\ \A i \in 1 .. Len(got') : got'[i].n = i /\ (kind' = "file" => (IsTooLong(i)' => got'[i].cut) /\ (got'[i].cut => IsLong(i)'))
  BY <1>4, <1>5, PageJoins
<1>7. FileFits' /\ Len(got') \in Nat /\ m' = m /\ all' = all
  BY <1>1, <1>6, SameFile DEF FileFits, m, all
<1>8. CASE e.next = e.line /\ e.line > offset /\ e.line <= m + 1
  <2>1. /\ offset' \in Nat /\ offset' # 0 /\ offset' > offset /\ offset' <= m + 1
        /\ offset' = Len(got') + 1
    BY <1>1, <1>4, <1>5, <1>6, <1>8
  <2> QED
    BY <1>6, <1>7, <2>1 DEF ReadsInv, m
<1>9. CASE e.next = 0 /\ e.line = all + 1
  <2>1. e.line >= offset
    BY <1>1, <1>3, <1>9
  <2>2. Len(q) = e.line - offset
    BY <1>1, <1>4, <2>1
  <2> DEFINE l == e.line
  <2>3. l = all + 1 /\ l \in Nat /\ Len(q) = l - offset
    BY <1>4, <1>9, <2>2
  <2>4. all \in Nat
    BY <1>3
  <2> HIDE DEF l
  <2>5. Len(got') = all
    <3> DEFINE x == Len(got')
               y == Len(q)
    <3>1. x \in Nat /\ y \in Nat /\ x + 1 = offset + y /\ offset \in Nat
      BY <1>1, <1>6, <1>7
    <3>2. y = l - offset
      BY <2>3
    <3> HIDE DEF x, y
    <3>3. x = all
      BY <2>3, <2>4, <3>1, <3>2
    <3> QED
      BY <3>3 DEF x
  <2>6. offset' = 0
    BY <1>5, <1>9
  <2> QED
    BY <1>6, <1>7, <2>5, <2>6 DEF ReadsInv, all
<1> QED
  BY <1>2, <1>8, <1>9 DEF Served, m, all

LEMMA DirectoryRead ==
    ASSUME Reads!PagesFit, ReadsInv, kind = "directory", offset # 0, NEW limit \in Limits,
           got' = got \o Reads!ListDirectoryPage(limit).lines, offset' = Reads!ListDirectoryPage(limit).next,
           UNCHANGED <<file, kind>>
    PROVE  ReadsInv'
<1> DEFINE size == Len(file)
           last == IF offset + limit - 1 < size THEN offset + limit - 1 ELSE size
           m == IF last >= offset THEN last - offset + 1 ELSE 0
           q == [i \in 1 .. m |-> [n |-> offset + i - 1, cut |-> FALSE]]
           next == IF last >= offset /\ last < size THEN last + 1 ELSE 0
<1>1. /\ offset \in Nat \ {0} /\ FileFits /\ limit \in Nat \ {0} /\ size \in Nat
      /\ offset <= size + 1
  BY DEF ReadsInv, Reads!PagesFit, FileFits
<1>2. got' = got \o q /\ offset' = next
  BY DEF Reads!ListDirectoryPage
<1> HIDE DEF size
<1>3. last \in Nat /\ last <= size /\ (last < size => last >= offset) /\ (last >= offset \/ last = offset - 1) /\ m = (last + 1) - offset
  BY <1>1
<1>4. m \in Nat
  BY <1>1, <1>3
<1> HIDE DEF last, m
<1>5. q \in Seq(LineOnPage) /\ Len(q) = m /\ \A i \in 1 .. Len(q) : q[i].n = (offset + i) - 1
  <2>1. ASSUME NEW i \in 1 .. m
        PROVE  q[i] \in LineOnPage /\ q[i].n = (offset + i) - 1
    BY <1>1, <1>4 DEF LineOnPage
  <2>2. DOMAIN q = 1 .. m /\ q = [i \in 1 .. m |-> q[i]]
    OBVIOUS
  <2> HIDE DEF q
  <2>3. q \in Seq(LineOnPage) /\ Len(q) = m
    BY <1>4, <2>1, <2>2
  <2> QED
    BY <2>1, <2>3
<1> HIDE DEF q
<1>6. /\ got' \in Seq(LineOnPage) /\ Len(got') + 1 = offset + m
      /\ \A i \in 1 .. Len(got') : got'[i].n = i /\ (kind' = "file" => (IsTooLong(i)' => got'[i].cut) /\ (got'[i].cut => IsLong(i)'))
  BY <1>2, <1>5, PageJoins
<1>7. FileFits' /\ Len(got') \in Nat /\ size' = size
  BY <1>1, <1>6 DEF FileFits, size
<1>8. Len(got') = last
  <2> DEFINE g == Len(got')
  <2>1. g \in Nat /\ g + 1 = offset + m /\ offset + m = last + 1 /\ last \in Nat
    BY <1>1, <1>3, <1>4, <1>6, <1>7
  <2> HIDE DEF g
  <2>2. g + 1 = last + 1
    BY <2>1
  <2>3. g = last
    BY <2>1, <2>2
  <2> QED
    BY <2>3 DEF g
<1>9. CASE last >= offset /\ last < size
  <2>1. offset' = last + 1
    BY <1>2, <1>9
  <2>2. offset' \in Nat /\ offset' # 0 /\ offset' > offset /\ offset' <= size + 1 /\ offset' = Len(got') + 1
    BY <1>1, <1>3, <1>8, <1>9, <2>1
  <2> QED
    BY <1>6, <1>7, <2>2 DEF ReadsInv, size
<1>10. CASE ~(last >= offset /\ last < size)
  <2>1. offset' = 0 /\ last = size
    BY <1>1, <1>2, <1>3, <1>10
  <2>2. Len(got') = size
    BY <1>8, <2>1
  <2> HIDE DEF next
  <2> QED
    BY <1>6, <1>7, <2>1, <2>2, SMTT(20) DEF ReadsInv, size
<1> QED
  BY <1>9, <1>10

LEMMA ReadFits == ASSUME Reads!PagesFit, ReadsInv, Reads!ReadPage PROVE ReadsInv'
<1>1. offset # 0 /\ UNCHANGED <<file, kind>> /\ (kind = "file" \/ kind = "directory")
  BY DEF Reads!ReadPage, ReadsInv
<1>2. PICK limit \in Limits : got' = got \o Reads!Page(limit).lines /\ offset' = Reads!Page(limit).next
  BY DEF Reads!ReadPage
<1>3. CASE kind = "file"
  <2>1. Reads!Page(limit) = Reads!ReadFilePage(limit)
    BY <1>3 DEF Reads!Page
  <2> QED
    BY <1>1, <1>2, <1>3, <2>1, FileRead
<1>4. CASE kind = "directory"
  <2>1. Reads!Page(limit) = Reads!ListDirectoryPage(limit)
    BY <1>4 DEF Reads!Page
  <2> QED
    BY <1>1, <1>2, <1>4, <2>1, DirectoryRead
<1> QED
  BY <1>1, <1>3, <1>4

LEMMA ReadsInvariant == ASSUME Reads!PagesFit PROVE Reads!Spec => []ReadsInv
<1>1. ASSUME ReadsInv, [Reads!Next]_Reads!readVars PROVE ReadsInv'
  <2>1. ASSUME Reads!Choose PROVE ReadsInv'
    BY <1>1, <2>1, ChooseFits
  <2>2. ASSUME Reads!ReadPage PROVE ReadsInv'
    BY <1>1, <2>2, ReadFits
  <2>3. ASSUME UNCHANGED Reads!readVars PROVE ReadsInv'
    <3>1. UNCHANGED <<file, kind, offset, got>>
      BY <2>3 DEF Reads!readVars
    <3>2. \A i : (IsLong(i)' <=> IsLong(i)) /\ (IsTooLong(i)' <=> IsTooLong(i))
      BY <3>1 DEF IsLong, IsTooLong, Reads!LengthOf, Reads!TextLengthOf, Reads!LineEnds
    <3>3. FileFits' <=> FileFits
      BY <3>1 DEF FileFits
    <3> QED
      BY <1>1, <3>1, <3>2, <3>3, SameFile DEF ReadsInv
  <2> QED
    BY <1>1, <2>1, <2>2, <2>3 DEF Reads!Next
<1> QED
  BY <1>1, ReadsStart, PTL DEF Reads!Spec

LEMMA ReadsTypes == ASSUME ReadsInv PROVE Reads!TypeOK
<1>1. \A i \in DOMAIN got : got[i] \in LineOnPage
  BY DEF ReadsInv
<1> QED
  BY <1>1 DEF ReadsInv, Reads!TypeOK, LineOnPage

\* PagesCoverFile, for any file or directory, any limits, chunks and caps.
THEOREM PagesCover == ASSUME Reads!PagesFit PROVE Reads!Spec => []Reads!PagesCoverFile
<1>1. ASSUME ReadsInv PROVE Reads!PagesCoverFile
  <2>1. /\ got \in Seq(LineOnPage)
        /\ \A i \in 1 .. Len(got) : got[i].n = i /\ (kind = "file" => (IsTooLong(i) => got[i].cut) /\ (got[i].cut => IsLong(i)))
        /\ offset = 0 => Len(got) = IF kind = "file" THEN Reads!NumberOfLines ELSE Len(file)
    BY <1>1 DEF ReadsInv
  <2>2. DOMAIN got = 1 .. Len(got) /\ \A i \in 1 .. Len(got) : got[i] \in LineOnPage
    BY <2>1
  <2>3. ASSUME NEW i \in 1 .. Len(got) PROVE got[i].cut \in BOOLEAN
    BY <2>2 DEF LineOnPage
  <2>4. ASSUME kind = "file", NEW i \in 1 .. Len(got)
        PROVE  /\ Reads!TextLengthOf(i) > MaxLineLength => got[i].cut
               /\ got[i].cut => Reads!LengthOf(i) > MaxLineLength
    BY <2>1, <2>4 DEF IsLong, IsTooLong
  <2> QED
    BY <2>1, <2>2, <2>4 DEF Reads!PagesCoverFile
<1> QED
  BY <1>1, ReadsInvariant, PTL

\* PagesGoOn, if a cut line fits on a page of its own.
THEOREM PagesGetOn == ASSUME Reads!PagesFit PROVE Reads!Spec => []Reads!PagesGoOn
<1>1. ASSUME ReadsInv PROVE Reads!PagesGoOn
  <2> SUFFICES ASSUME kind # "none", offset # 0, NEW limit \in Limits
               PROVE  Reads!Page(limit).next = 0 \/ Reads!Page(limit).next > offset
    BY DEF Reads!PagesGoOn
  <2>1. offset \in Nat \ {0} /\ FileFits /\ limit \in Nat \ {0} /\ (kind = "file" \/ kind = "directory")
    BY <1>1 DEF ReadsInv, Reads!PagesFit
  <2>2. CASE kind = "file"
    <3>1. Served(Reads!Page(limit), offset)
      BY <2>1, <2>2, FilePageFits DEF Reads!Page
    <3> QED
      BY <3>1 DEF Served
  <2>3. CASE kind = "directory"
    <3> DEFINE last == IF offset + limit - 1 < Len(file) THEN offset + limit - 1 ELSE Len(file)
    <3>1. Reads!Page(limit).next = IF last >= offset /\ last < Len(file) THEN last + 1 ELSE 0
      BY <2>3 DEF Reads!Page, Reads!ListDirectoryPage
    <3>2. last \in Nat
      BY <2>1 DEF FileFits
    <3> HIDE DEF last
    <3> QED
      BY <2>1, <3>1, <3>2
  <2> QED
    BY <2>1, <2>2, <2>3
<1> QED
  BY <1>1, ReadsInvariant, PTL

-----------------------------------------------------------------------------
(* Messages: the theorems of SwarmMessagesProofs, whose copy of the module    *)
(* says the same as the one ServerParts takes.                                *)

Swarm == INSTANCE SwarmMessagesProofs

LEMMA SameTables == Messages!Ids = Swarm!Ids /\ (Messages!NamesFit <=> Swarm!NamesFit)
  BY DEF Messages!Ids, Swarm!Ids, Messages!NamesFit, Swarm!NamesFit

LEMMA SameInit == Messages!Init <=> Swarm!Init
  BY DEF Messages!Init, Swarm!Init, Messages!EmptyMap, Swarm!EmptyMap

LEMMA SameNext == Messages!Next <=> Swarm!Next
<1> USE DEF Messages!Ids, Swarm!Ids, Messages!Threads, Swarm!Threads,
            Messages!With, Swarm!With, Messages!Without, Swarm!Without,
            Messages!Only, Swarm!Only
<1>1. \A i : /\ Messages!HelloRegister(i) <=> Swarm!HelloRegister(i)
             /\ Messages!CreateAgentSlot(i) <=> Swarm!CreateAgentSlot(i)
             /\ Messages!RemoveClient(i) <=> Swarm!RemoveClient(i)
  BY DEF Messages!HelloRegister, Swarm!HelloRegister, Messages!CreateAgentSlot,
         Swarm!CreateAgentSlot, Messages!RemoveClient, Swarm!RemoveClient
<1>2. \A i : /\ Messages!StartTurn(i) <=> Swarm!StartTurn(i)
             /\ Messages!EndTurn(i) <=> Swarm!EndTurn(i)
  BY DEF Messages!StartTurn, Swarm!StartTurn, Messages!EndTurn, Swarm!EndTurn
<1>3. \A i, t : Messages!SendMessage(i, t) <=> Swarm!SendMessage(i, t)
  BY DEF Messages!SendMessage, Swarm!SendMessage, Messages!TargetsOf, Swarm!TargetsOf,
         Messages!InOrder, Swarm!InOrder
<1>4. \A s : /\ Messages!DeliverInbox(s) <=> Swarm!DeliverInbox(s)
             /\ Messages!RouteReturns(s) <=> Swarm!RouteReturns(s)
  BY DEF Messages!DeliverInbox, Swarm!DeliverInbox, Messages!Pushed, Swarm!Pushed,
         Messages!RouteReturns, Swarm!RouteReturns
<1> QED
  BY <1>1, <1>2, <1>3, <1>4 DEF Messages!Next, Swarm!Next

LEMMA SameSpec == Messages!Spec => Swarm!Spec
<1>1. Messages!Init => Swarm!Init
  BY SameInit
<1>2. [Messages!Next]_Messages!messageVars => [Swarm!Next]_Swarm!messageVars
  BY SameNext DEF Messages!messageVars, Swarm!messageVars
<1> QED
  BY <1>1, <1>2, PTL DEF Messages!Spec, Swarm!Spec

-----------------------------------------------------------------------------
(* Side by side.  The assumptions are those of ServerParts on its constants.  *)

\* A step of another part is a stutter of this one.
LEMMA PartsSpec == Spec => Context!Spec /\ Files!Spec /\ Reads!Spec /\ Sse!Spec /\ Messages!Spec
<1>1. Init => Context!Init /\ Files!Init /\ Reads!Init /\ Sse!Init /\ Messages!Init
  BY DEF Init
<1> USE DEF vars, contextVars, fileVars, readVars, sseVars, messageVars,
            Next, ContextNext, TrialsNext, FilesNext, ReadsNext, SseNext, MessagesNext
<1>2. [Next]_vars => [Context!Next]_Context!contextVars
  BY DEF Context!contextVars
<1>3. [Next]_vars => [Files!Next]_Files!fileVars
  BY DEF Files!fileVars
<1>4. [Next]_vars => [Sse!Next]_Sse!sseVars
  BY DEF Sse!sseVars
<1>5. [Next]_vars => [Reads!Next]_Reads!readVars
  BY DEF Reads!readVars
<1>6. [Next]_vars => [Messages!Next]_Messages!messageVars
  BY DEF Messages!messageVars
<1> QED
  BY <1>1, <1>2, <1>3, <1>4, <1>5, <1>6, PTL
     DEF Spec, Context!Spec, Files!Spec, Reads!Spec, Sse!Spec, Messages!Spec

\* The run's ContextInStep, for any sources.
THEOREM ContextAlwaysInStep == Spec => []ContextInStep
<1>1. Context!Spec => []Context!ContextInStep
  BY ContextAssumption, ContextStays
<1>2. Context!ContextInStep => ContextInStep
  BY DEF ContextInStep
<1> QED
  BY <1>1, <1>2, PartsSpec, PTL

\* The run's EditSeesNewest, for any Agents, files and calls.
THEOREM EditAlwaysSeesNewest == Spec => []EditSeesNewest
<1>1. Files!Spec => []Files!EditSeesNewest
  BY FilesAssumption, EditsSeeNewest
<1>2. Files!EditSeesNewest => EditSeesNewest
  BY DEF EditSeesNewest
<1> QED
  BY <1>1, <1>2, PartsSpec, PTL

\* The run's PatchIsItsSections, for any Agents, files and patches.
THEOREM PatchesAlwaysSections == Spec => []PatchIsItsSections
<1>1. Files!Spec => []Files!PatchIsItsSections
  BY FilesAssumption, PatchesAreSections
<1>2. Files!PatchIsItsSections => PatchIsItsSections
  BY DEF PatchIsItsSections
<1> QED
  BY <1>1, <1>2, PartsSpec, PTL

\* The run's PagesCoverFile, that each page but the last names a later line included,
\* for any file or directory, any limits, chunks and caps (read.h 161-330).
THEOREM PagesAlwaysCover == Spec => []PagesCoverFile
<1>1. Reads!Spec => []Reads!PagesCoverFile
  BY PagesAssumption, PagesCover
<1>2. Reads!Spec => []Reads!PagesGoOn
  BY PagesAssumption, PagesGetOn
<1>3. Reads!PagesCoverFile /\ Reads!PagesGoOn => PagesCoverFile
  BY DEF PagesCoverFile
<1> QED
  BY <1>1, <1>2, <1>3, PartsSpec, PTL

\* The run's CallsAsSent, for any chunks, any number of lines and any pieces they
\* come in (openrouter.cpp 78-134 and 236-250, agent.cpp 286-317).
THEOREM CallsAlwaysAsSent == Spec => []CallsAsSent
<1>1. Sse!Spec => []Sse!CallsAsSent
  BY ChunksAssumption, CallsAreAsSent
<1>2. Sse!CallsAsSent => CallsAsSent
  BY DEF CallsAsSent
<1> QED
  BY <1>1, <1>2, PartsSpec, PTL

\* The run's MembersAreClients: clients_ and repo_members_ agree on who is there,
\* for any number of clients (server.cpp 207-240).
THEOREM TablesAlwaysAgree == Spec => []MembersAreClients
<1>1. Swarm!Spec => []Swarm!MembersAreClients
  BY MessagesAssumption, SameTables, Swarm!TablesAgree
<1>2. Swarm!MembersAreClients => MembersAreClients
  BY DEF MembersAreClients, Messages!MembersAreClients, Swarm!MembersAreClients
<1> QED
  BY <1>1, <1>2, PartsSpec, SameSpec, PTL

\* The run's MessagesInOrder, for any number of clients, threads' messages and any
\* size of the inbox (server.cpp 388-424, agent.cpp 208-284).
THEOREM MessagesAlwaysInOrder == Spec => []MessagesInOrder
<1>1. Swarm!Spec => []Swarm!MessagesInOrder
  BY MessagesAssumption, SameTables, Swarm!DeliveredInOrder
<1>2. Swarm!MessagesInOrder => MessagesInOrder
  BY SameTables DEF MessagesInOrder, Messages!MessagesInOrder, Swarm!MessagesInOrder,
     Messages!Reached, Swarm!Reached
<1> QED
  BY <1>1, <1>2, PartsSpec, SameSpec, PTL

\* The run's TypeOK but for FileTools, whose part needs what TextEdits computes
\* (ServerTextsProofs): the tables and replies of the other parts keep their shape.
LEMMA PartsTypes ==
    Spec => [](Context!TypeOK /\ Reads!TypeOK /\ Sse!TypeOK /\ Messages!TypeOK)
<1>1. Context!Spec => []Context!TypeOK
  BY ContextAssumption, ContextTypes
<1>2. Reads!Spec => []ReadsInv
  BY PagesAssumption, ReadsInvariant
<1>3. Sse!Spec => []SseInv
  BY ChunksAssumption, SseInvariant
<1>4. Swarm!Spec => []Swarm!TypeOK
  BY MessagesAssumption, SameTables, Swarm!TypeCorrect
<1>5. Swarm!TypeOK => Messages!TypeOK
  BY SameTables DEF Messages!TypeOK, Swarm!TypeOK, Messages!Threads, Swarm!Threads
<1> QED
  BY <1>1, <1>2, <1>3, <1>4, <1>5, ReadsTypes, SseTypes, PartsSpec, SameSpec, PTL
=============================================================================
