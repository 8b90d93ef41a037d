------------------------------ MODULE FileTools ------------------------------
(***************************************************************************)
(* The calls of edit, write and apply_patch on a disk they share           *)
(* (src/tool/edit.h, write.h, apply_patch.h).  Each Agent of the server    *)
(* runs its turn on a thread of its own, nothing locks a file, and other   *)
(* processes write too: every access to the disk is a step.                *)
(*                                                                         *)
(* Opening for writing empties the file at once; what is written goes to   *)
(* the file that was opened, from its start, whatever others have made of  *)
(* it since.  Left out: byte order marks, files that cannot be read.       *)
(***************************************************************************)
EXTENDS TextEdits

CONSTANTS
    Agents,
    Patchers, \* the Agents that call apply_patch, a bound
    Paths,
    Symbols,  \* what a text is made of
    Texts,    \* what other processes write
    Edits,    \* edit calls: [old, new, all]
    Contents, \* what write calls write
    Patches,  \* apply_patch calls: sequences of lines as ParsePatch takes them
    Absent    \* no file

NamesFit == "nobody" \notin Agents /\ Absent \notin Seq(Symbols)

\* Texts are sequences of symbols, in files, in arguments and in the lines of patches.
Marks == {"", " ", "-", "+", "@@", "?"}
PatchLine == [is : {"frame", "unknown"}] \cup [is : {"add", "update", "delete"}, path : Paths]
                 \cup [is : {"line"}, mark : Marks, text : Seq(Symbols)]

InputsFit ==
    /\ {NL, CR} \subseteq Symbols
    /\ Texts # {} /\ Texts \cup Contents \subseteq Seq(Symbols)
    /\ Edits \subseteq [old : Seq(Symbols), new : Seq(Symbols), all : BOOLEAN]
    /\ Patches \subseteq Seq(PatchLine)

VARIABLES
    disk, \* [Paths -> text or Absent]
    call  \* the tool call of each Agent

fileVars == <<disk, call>>

NoReport == [tool |-> "none", alone |-> TRUE]
Interfered == [tool |-> "interfered", alone |-> FALSE]

\* The call has ended.  Nothing is noted of one that others have interfered with.
Idle(report) == [pc |-> "idle", report |-> IF report.alone THEN report ELSE Interfered]

Init ==
    /\ disk = [p \in Paths |-> IF p = CHOOSE q \in Paths : TRUE THEN CHOOSE t \in Texts : TRUE ELSE Absent]
    /\ call = [a \in Agents |-> Idle(NoReport)]

TypeOK ==
    /\ disk \in [Paths -> {Absent} \cup Seq(Symbols)]
    /\ \A a \in Agents : call[a].pc \in {"idle", "computed", "rechecked", "verify", "apply", "opened"}

\* Agent a puts text on p: the calls of the others that are at work on p learn by
\* the observation `touched' that they are not alone; p deleted leaves the files
\* they have open without a name.
Put(a, p, text, next) ==
    /\ disk' = [disk EXCEPT ![p] = text]
    /\ call' = [b \in Agents |->
          IF b = a THEN next
          ELSE IF call[b].pc = "idle" \/ p \notin call[b].paths THEN call[b]
          ELSE [call[b] EXCEPT !.touched = TRUE,
                               !.linked = IF text = Absent /\ call[b].pc = "opened" /\ call[b].path = p
                                            THEN FALSE ELSE @]]

\* The bound: an Agent whose call has been reported makes no other.
Free(a) == call[a].pc = "idle" /\ call[a].report = NoReport

Step(a, next) == call' = [call EXCEPT ![a] = next] /\ UNCHANGED disk

\* Another process, or a human.
Meddle(p) ==
    \E text \in (Texts \cup {Absent}) \ {disk[p]} : Put("nobody", p, text, <<>>)

-----------------------------------------------------------------------------
(* edit and write: one file *)

EditRead(a) ==
    /\ Free(a)
    /\ \E p \in Paths, e \in Edits :
          /\ disk[p] # Absent
          /\ EditText(disk[p], e.old, e.new, e.all).ok
          /\ Step(a, [pc |-> "computed", tool |-> "edit", path |-> p, paths |-> {p}, base |-> disk[p],
                      text |-> EditText(disk[p], e.old, e.new, e.all).text,
                      touched |-> FALSE, linked |-> TRUE, before |-> Absent, alone |-> FALSE])

\* A bug: no second look.
EditRecheckForgotten(a) ==
    /\ call[a].pc = "computed"
    /\ Step(a, [call[a] EXCEPT !.pc = "rechecked", !.touched = FALSE])

\* "File changed after permission approval": the second look, not a lock.
EditRecheck(a) ==
    /\ call[a].pc = "computed"
    /\ IF disk[call[a].path] = call[a].base
         THEN Step(a, [call[a] EXCEPT !.pc = "rechecked", !.touched = FALSE])
         ELSE Step(a, Idle(NoReport))

EditOpen(a) ==
    /\ call[a].pc = "rechecked"
    /\ \/ Put(a, call[a].path, <<>>, [call[a] EXCEPT !.pc = "opened", !.before = disk[call[a].path],
                                                    !.alone = ~call[a].touched])
       \/ Step(a, Idle(NoReport))

WriteOpen(a) ==
    /\ Free(a)
    /\ \E p \in Paths, t \in Contents :
          Put(a, p, <<>>, [pc |-> "opened", tool |-> "write", path |-> p, paths |-> {p}, text |-> t,
                           touched |-> FALSE, linked |-> TRUE])

-----------------------------------------------------------------------------
(* apply_patch *)

PathsOf(hunks) == {hunks[i].path : i \in DOMAIN hunks}

\* The patch is parsed; `start' and `hunks' are kept for the report.
PatchParse(a) ==
    /\ Free(a) /\ a \in Patchers
    /\ \E patch \in Patches :
          /\ ParsePatch(patch).ok
          /\ LET hunks == ParsePatch(patch).hunks
             IN  Step(a, [pc |-> "verify", tool |-> "apply_patch", path |-> hunks[1].path,
                          paths |-> PathsOf(hunks), start |-> disk, hunks |-> hunks, todo |-> hunks,
                          content |-> [p \in {} |-> <<>>], deleted |-> {}, prepared |-> <<>>,
                          text |-> <<>>, applied |-> 0, touched |-> FALSE, linked |-> TRUE])

PatchReport(c, how) ==
    [tool |-> "apply_patch", how |-> how, alone |-> ~c.touched, start |-> c.start,
     hunks |-> c.hunks, applied |-> c.applied, end |-> disk]

\* A bug: what the patch has deleted is looked up on the disk again.
ContentIgnoringDeleted(c, p) == IF p \in DOMAIN c.content THEN c.content[p] ELSE disk[p]

\* What the file will be when the sections before have been applied.
CurrentContent(c, p) ==
    IF p \in DOMAIN c.content THEN c.content[p]
    ELSE IF p \in c.deleted THEN Absent
    ELSE disk[p]

\* What a section makes of a file: [ok, text], with text Absent for a deletion.
Prepare(hunk, cur) ==
    CASE hunk.type = "add"    -> [ok |-> cur = Absent, text |-> AddContent(hunk.lines)]
      [] hunk.type = "delete" -> [ok |-> cur # Absent, text |-> Absent]
      [] hunk.type = "update" -> IF cur = Absent THEN Rejected ELSE ApplyUpdates(cur, hunk.lines)

\* One section is verified; the first that fails ends the call.
PatchVerify(a) ==
    LET c == call[a]
        hunk == Head(c.todo)
        made == Prepare(hunk, CurrentContent(c, hunk.path))
        rest == {p \in DOMAIN c.content : p # hunk.path}
    IN  /\ c.pc = "verify" /\ c.todo # <<>>
        /\ IF ~made.ok THEN Step(a, Idle(PatchReport(c, "rejected")))
           ELSE Step(a, [c EXCEPT
                    !.todo = Tail(@),
                    !.content = [p \in IF made.text = Absent THEN rest ELSE rest \cup {hunk.path} |->
                                    IF p = hunk.path THEN made.text ELSE c.content[p]],
                    !.deleted = IF made.text = Absent THEN @ \cup {hunk.path} ELSE @,
                    !.prepared = Append(@, [path |-> hunk.path, text |-> made.text])])

PatchVerified(a) ==
    /\ call[a].pc = "verify" /\ call[a].todo = <<>>
    /\ Step(a, [call[a] EXCEPT !.pc = "apply"])

\* The next prepared section: a removal, which fails when there is nothing to
\* remove, or a file opened for writing, which may fail.  What is applied stays.
PatchApply(a) ==
    LET c == call[a]
        op == Head(c.prepared)
        later == [c EXCEPT !.prepared = Tail(@), !.path = op.path]
    IN  /\ c.pc = "apply" /\ c.prepared # <<>>
        /\ \/ /\ op.text = Absent /\ disk[op.path] # Absent
              /\ Put(a, op.path, Absent, [later EXCEPT !.applied = @ + 1])
           \/ /\ op.text # Absent
              /\ Put(a, op.path, <<>>, [later EXCEPT !.pc = "opened", !.linked = TRUE, !.text = op.text])
           \/ /\ op.text # Absent \/ disk[op.path] = Absent
              /\ Step(a, Idle(PatchReport(c, "partial")))

PatchDone(a) ==
    /\ call[a].pc = "apply" /\ call[a].prepared = <<>>
    /\ Step(a, Idle(PatchReport(call[a], "applied")))

-----------------------------------------------------------------------------
\* The text goes to the file that was opened, over what is in it by now.
WriteText(a) ==
    LET c == call[a]
        under == disk[c.path]
        over == IF under = <<>> THEN c.text
                ELSE c.text \o SubSeq(under, Len(c.text) + 1, Len(under))
        next == CASE c.tool = "apply_patch" -> [c EXCEPT !.pc = "apply", !.applied = @ + 1, !.text = <<>>]
                  [] c.tool = "edit" -> Idle([tool |-> "edit", base |-> c.base, before |-> c.before, alone |-> c.alone])
                  [] c.tool = "write" -> Idle(NoReport)
    IN  /\ c.pc = "opened"
        /\ IF c.linked /\ under # Absent THEN Put(a, c.path, over, next) ELSE Step(a, next)

Next ==
    \/ \E p \in Paths : Meddle(p)
    \/ \E a \in Agents :
          \/ EditRead(a) \/ EditRecheck(a) \/ EditOpen(a) \/ WriteOpen(a) \/ WriteText(a)
          \/ PatchParse(a) \/ PatchVerify(a) \/ PatchVerified(a) \/ PatchApply(a) \/ PatchDone(a)

Spec == Init /\ [][Next]_fileVars

-----------------------------------------------------------------------------
(* Properties. *)

\* edit replaces the text it has read, or a text that came between its second look
\* and its write: what others do while it computes is never lost (edit.h 107-112).
EditSeesNewest ==
    \A a \in Agents : call[a].pc = "idle" /\ call[a].report.tool = "edit" =>
        call[a].report.before = call[a].report.base

\* The disk after the first n sections, one after the other as patches of their own.
AfterSections(start, hunks, n) ==
    LET after[k \in 0 .. n] ==
            IF k = 0 THEN start
            ELSE LET d == after[k - 1]
                     made == Prepare(hunks[k], d[hunks[k].path])
                 IN  IF made.ok THEN [d EXCEPT ![hunks[k].path] = made.text] ELSE d
    IN  after[n]

Applicable(start, hunks) ==
    \A k \in 1 .. Len(hunks) :
        Prepare(hunks[k], AfterSections(start, hunks, k - 1)[hunks[k].path]).ok

\* A patch nobody interferes with is its sections one after the other, though all
\* are verified before the first is applied: rejected without a trace unless each
\* would go through in its turn, and after a failure on the disk the sections it
\* names are there and no others (apply_patch.h 69-119).
PatchIsItsSections ==
    \A a \in Agents : call[a].pc = "idle" /\ call[a].report.tool = "apply_patch" =>
        LET r == call[a].report
        IN    /\ (r.how = "rejected") = ~Applicable(r.start, r.hunks)
              /\ \A p \in PathsOf(r.hunks) : r.end[p] = AfterSections(r.start, r.hunks, r.applied)[p]
              /\ r.how = "applied" => r.applied = Len(r.hunks)
=============================================================================
