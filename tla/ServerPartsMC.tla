---------------------------- MODULE ServerPartsMC ----------------------------
(* ServerParts with small inputs for each part. *)
EXTENDS ServerParts, Sequences

CONSTANTS Env, AgentsMd, Skills \* context sources

MCKeys == {Env, AgentsMd, Skills}
MCValues == {"v1", "v2"}
MCFails == {AgentsMd}
MCMayBeEmpty == {Skills}

UpTo(S, n) == UNION {[1 .. k -> S] : k \in 0 .. n}

MCEditTexts == UpTo({"a", NL, CR}, 4)
MCEditOlds == UpTo({"a", NL, CR}, 2)
MCEditNews == UpTo({"a", NL}, 2)
MCPatchTexts == UpTo({"a", "b", NL, CR}, 3)
MCPatchLines == [mark : {" ", "-", "+"}, text : {<<"a">>, <<"b">>, <<"a", CR>>}] \cup [mark : {"@@", "", "-"}, text : {<<>>}]

\* A file that is there and changes hands; one that is not there at first.
MCPaths == {"p", "q"}
MCSymbols == {"a", "b", "c", NL, CR}
MCTexts == {<<"a", NL>>}
MCEdits == {[old |-> <<"a">>, new |-> <<"b">>, all |-> FALSE]}
MCContents == {<<"c">>}
Header(is, path) == [is |-> is, path |-> path]
Mark(mark, words) == [is |-> "line", mark |-> mark, text |-> words]
Frame == [is |-> "frame"]
MCPatches == {
    \* two files
    <<Header("update", "p"), Mark("-", <<"a">>), Mark("+", <<"b">>), Header("add", "q"), Mark("+", <<"a">>)>>,
    \* one file, three times
    <<Frame, Header("delete", "p"), Header("add", "p"), Mark("+", <<"b">>), Mark("", <<>>),
      Header("update", "p"), Mark(" ", <<"b">>), Mark("+", <<"a">>), Frame>>,
    \* a section that cannot be applied behind one that can
    <<Header("add", "q"), Mark("+", <<"a">>), Header("delete", "q"), Header("update", "q"), Mark("+", <<"a">>)>>,
    \* patches that do not parse
    <<Mark("", <<>>), Header("update", "p"), [is |-> "unknown"]>>,
    <<Header("add", "q"), Mark("-", <<"a">>), Frame>>,
    <<Mark("+", <<"a">>)>> }

Delta(index, id, args) == [index |-> index, id |-> id, args |-> args]
StreamChunk(finish, words, deltas) == [finish |-> finish, text |-> words, calls |-> deltas]
MCChunks == {
    StreamChunk(FALSE, <<"t">>, <<>>),
    StreamChunk(FALSE, <<>>, <<Delta(0, "x", "none")>>),
    StreamChunk(FALSE, <<>>, <<Delta(1, "y", "{")>>),
    StreamChunk(FALSE, <<>>, <<Delta(0, "none", "{"), Delta(1, "none", "}")>>),
    StreamChunk(FALSE, <<>>, <<Delta(0, "z", "{"), Delta(0, "none", "}")>>),
    StreamChunk(TRUE, <<>>, <<Delta(0, "none", "}")>>) }

MCRepos == {"r1", "r2"}
MCRepoOf == [i \in 1 .. Clients |-> IF i = 3 THEN "r2" ELSE "r1"]
=============================================================================
