------------------------------ MODULE ReadPages ------------------------------
(***************************************************************************)
(* The read tool on a file or directory that is larger than a page         *)
(* (src/tool/read.h).  A page ends with the offset to go on from; a model  *)
(* that follows these offsets has to see the whole file.                   *)
(*                                                                         *)
(* A file is a sequence of characters, CRs and line ends, read in chunks   *)
(* whose borders fall anywhere in a line.  Left out: what is refused       *)
(* (binary files, invalid UTF-8).                                          *)
(***************************************************************************)
EXTENDS Integers, Sequences, FiniteSets, SequencesExt

CONSTANTS
    CR, EOL,
    MaxSymbols,    \* bound: length of a file
    MaxEntries,    \* bound: entries of a directory
    Limits,        \* bound: the limits asked for
    ChunkSize,     \* 65536
    MaxLineLength, \* 2000
    Suffix,        \* the length of "... (line truncated to 2000 chars)"
    MaxReadBytes   \* 51200

\* Every line fits on a page of its own; otherwise the page would be an error.
PagesFit ==
    /\ Limits \subseteq Nat \ {0} /\ MaxSymbols \in Nat /\ MaxEntries \in Nat
    /\ ChunkSize \in Nat \ {0} /\ MaxLineLength \in Nat \ {0} /\ Suffix \in Nat
    /\ MaxReadBytes \in Nat /\ MaxLineLength + Suffix <= MaxReadBytes

VARIABLES
    file,   \* the symbols of the file, or the entries of the directory
    kind,   \* "none", "file" or "directory"
    offset, \* where the next page begins; 0 when the last page named no offset
    got     \* the pages so far: [n, cut] for each line or entry

readVars == <<file, kind, offset, got>>

TypeOK ==
    /\ kind \in {"none", "file", "directory"}
    /\ offset \in Nat
    /\ \A i \in DOMAIN got : got[i].n \in Nat \ {0} /\ got[i].cut \in BOOLEAN

Init == file = <<>> /\ kind = "none" /\ offset = 1 /\ got = <<>>

Choose ==
    /\ kind = "none"
    /\ \/ /\ kind' = "file"
          /\ \E n \in 0 .. MaxSymbols : file' \in [1 .. n -> {"c", CR, EOL}]
       \/ /\ kind' = "directory"
          /\ \E n \in 0 .. MaxEntries : file' = [i \in 1 .. n |-> "entry"]
    /\ UNCHANGED <<offset, got>>

-----------------------------------------------------------------------------
Full(r, limit) == Len(r.lines) >= limit \/ r.bytes >= MaxReadBytes

\* A bug: the line to go on from is counted from the beginning of the page.
StopCounted(r) == [r EXCEPT !.next = Len(r.lines) + 1, !.stop = TRUE]

Stop(r) == [r EXCEPT !.next = r.line, !.stop = TRUE]

CRAt(i) == i > 0 /\ file[i] = CR

\* What a line costs: of one that is cut the beginning and the suffix.
Kept(length, cut) ==
    IF cut THEN (IF length > MaxLineLength THEN MaxLineLength ELSE length) + Suffix ELSE length

\* A bug: the line that no longer fits counts as read.
AppendLineSkipping(r, length, long, limit) ==
    LET cut == length > MaxLineLength \/ long
        cost == Kept(length, cut) + (IF r.lines = <<>> THEN 0 ELSE 1)
    IN  IF r.line < r.offset THEN [r EXCEPT !.line = @ + 1]
        ELSE IF Full(r, limit) \/ r.bytes + cost > MaxReadBytes THEN Stop([r EXCEPT !.line = @ + 1])
        ELSE [r EXCEPT !.lines = Append(@, [n |-> r.line, cut |-> cut]), !.bytes = @ + cost, !.line = @ + 1]

AppendLine(r, length, long, limit) ==
    LET cut == length > MaxLineLength \/ long
        cost == Kept(length, cut) + (IF r.lines = <<>> THEN 0 ELSE 1)
    IN  IF r.line < r.offset THEN [r EXCEPT !.line = @ + 1]
        ELSE IF Full(r, limit) \/ r.bytes + cost > MaxReadBytes THEN Stop(r)
        ELSE [r EXCEPT !.lines = Append(@, [n |-> r.line, cut |-> cut]), !.bytes = @ + cost, !.line = @ + 1]

\* A CR at the end of what was kept of a line, and of its last segment, goes.
WithoutCR(r, seg) ==
    LET length == r.pending + seg.length
        cr == IF r.long /\ seg.length = 0 THEN r.cr ELSE seg.cr
    IN  IF length > 0 /\ cr THEN length - 1 ELSE length

\* consume_chunk and consume for one segment.  Of a line that is already too long
\* the rest is skipped; r.cr tells that the last symbol kept of it is a CR.
Consume(r, seg, limit) ==
    IF r.stop THEN r
    ELSE IF Full(r, limit) THEN Stop(r)
    ELSE IF seg.whole
      THEN AppendLine([r EXCEPT !.pending = 0, !.long = FALSE], WithoutCR(r, seg), r.long, limit)
    ELSE IF r.long THEN r
    ELSE IF r.pending + seg.length > MaxLineLength
      THEN [r EXCEPT !.pending = MaxLineLength, !.long = TRUE,
                     !.cr = CRAt(seg.end - (r.pending + seg.length - MaxLineLength))]
    ELSE [r EXCEPT !.pending = @ + seg.length]

\* A segment that ends at place end, the line end there not counted.
Segment(length, whole, end) ==
    [length |-> length, whole |-> whole, end |-> end, cr |-> CRAt(IF whole THEN end - 1 ELSE end)]

\* The symbol at place i: a segment ends at a line end, or where its chunk ends.
Take(r, i, limit) ==
    LET whole == file[i] = EOL
        length == IF whole THEN r.segment ELSE r.segment + 1
    IN  IF whole \/ i % ChunkSize = 0 \/ i = Len(file)
          THEN Consume([r EXCEPT !.segment = 0], Segment(length, whole, i), limit)
          ELSE [r EXCEPT !.segment = length]

\* What follows the last line end is a line too.
ReadFilePage(limit) ==
    LET after[i \in 0 .. Len(file)] ==
            IF i = 0 THEN [lines |-> <<>>, bytes |-> 0, line |-> 1, offset |-> offset, next |-> 0,
                           segment |-> 0, pending |-> 0, long |-> FALSE, cr |-> FALSE, stop |-> FALSE]
            ELSE Take(after[i - 1], i, limit)
        r == after[Len(file)]
    IN  IF ~r.stop /\ r.pending > 0
          THEN AppendLine(r, WithoutCR(r, Segment(0, FALSE, Len(file))), r.long, limit)
          ELSE r

\* list_directory on sorted entries.
ListDirectoryPage(limit) ==
    LET last == IF offset + limit - 1 < Len(file) THEN offset + limit - 1 ELSE Len(file)
    IN  [lines |-> [i \in 1 .. (IF last >= offset THEN last - offset + 1 ELSE 0) |->
                       [n |-> offset + i - 1, cut |-> FALSE]],
         next |-> IF last >= offset /\ last < Len(file) THEN last + 1 ELSE 0]

Page(limit) == IF kind = "file" THEN ReadFilePage(limit) ELSE ListDirectoryPage(limit)

\* execute, with the offset the page before has named.
ReadPage ==
    /\ kind # "none" /\ offset # 0
    /\ \E limit \in Limits : got' = got \o Page(limit).lines /\ offset' = Page(limit).next
    /\ UNCHANGED <<file, kind>>

Next == Choose \/ ReadPage

Spec == Init /\ [][Next]_readVars

-----------------------------------------------------------------------------
(* Properties. *)

\* The line ends up to place p, how many characters follow the first n - 1 of them
\* in the whole file, and what is a line.
LineEnds(p) == {i \in 1 .. p : file[i] = EOL}
LengthOf(n) == Cardinality({i \in 1 .. Len(file) : file[i] # EOL /\ Cardinality(LineEnds(i)) = n - 1})
\* The length without a CR before the line end.
TextLengthOf(n) ==
    IF \E i \in 1 .. Len(file) : /\ file[i] = CR /\ Cardinality(LineEnds(i)) = n - 1
                                /\ (i = Len(file) \/ file[i + 1] = EOL)
      THEN LengthOf(n) - 1 ELSE LengthOf(n)
NumberOfLines ==
    Cardinality(LineEnds(Len(file))) + (IF file = <<>> \/ Last(file) = EOL THEN 0 ELSE 1)

\* Pages join without a gap or an overlap, whatever limit each was asked with and
\* wherever lines, chunks and the byte cap meet; and when a page names no offset the
\* file is at its end.  A line that is too long is called truncated, and no line that
\* is not; one that is too long only by the CR before its end is or is not, as the
\* chunks fall: the cap is tested before the CR goes (read.h 161-330).
PagesCoverFile ==
    /\ \A i \in DOMAIN got : got[i].n = i
    /\ kind = "file" => \A i \in DOMAIN got :
                            /\ TextLengthOf(i) > MaxLineLength => got[i].cut
                            /\ got[i].cut => LengthOf(i) > MaxLineLength
    /\ offset = 0 => Len(got) = IF kind = "file" THEN NumberOfLines ELSE Len(file)

\* Who follows the offsets gets further with each page, however small its limit and
\* however long a line: a line that is cut fits on an empty page (read.h 211-223 and
\* 295-330).
PagesGoOn ==
    kind # "none" /\ offset # 0 =>
        \A limit \in Limits : Page(limit).next = 0 \/ Page(limit).next > offset
=============================================================================
