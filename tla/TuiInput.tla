------------------------------ MODULE TuiInput -------------------------------
(***************************************************************************)
(* The prompt bar of the terminal UI (src/tui/tui.cpp): completion of the  *)
(* slash commands, the prompt history and submit.  A text is one of a few  *)
(* words; what the editor does to it byte by byte is module PromptEditor.  *)
(***************************************************************************)
EXTENDS Integers, Sequences, SequencesExt

CONSTANT HistoryCap \* 200 in the code

VARIABLES
    input,   \* input_
    key,     \* completion_key_
    index,   \* completion_index_, from 0
    prompts, \* prompt_history_
    pos,     \* history_pos_; 0 for kNone
    draft    \* history_pending_

inputVars == <<input, key, index, prompts, pos, draft>>

Commands == <<"/connect", "/model", "/tools", "/clear", "/agents", "/msg", "/help", "/exit", "/quit">>
Prompts == {"hi", "yo"}
Typed == Prompts \cup {"", "/", "/c", "/zz", "/clear", "/msg x"}
Inputs == Typed \cup Range(Commands)

TypeOK ==
    /\ {input, key, draft} \subseteq Inputs
    /\ index \in Nat /\ pos \in Nat
    /\ Range(prompts) \subseteq Prompts /\ Len(prompts) <= HistoryCap

Init == input = "" /\ key = "" /\ index = 0 /\ prompts = <<>> /\ pos = 0 /\ draft = ""

-----------------------------------------------------------------------------
(* Completion. *)

IsCommand(text) == text \notin Prompts \cup {""}

\* command_prefix: the first word.
Prefix(text) == IF text = "/msg x" THEN "/msg" ELSE IF IsCommand(text) THEN text ELSE ""

\* current_suggestions: by the name, or by a part of the name or the description.
Suggested(prefix) ==
    CASE prefix = "/"        -> Commands
      [] prefix = "/c"       -> <<"/connect", "/model", "/tools", "/clear", "/agents">>
      [] prefix = "/connect" -> <<"/connect", "/agents">>
      [] prefix \in {"", "/zz"} -> <<>>
      [] OTHER               -> <<prefix>>

Offered == Suggested(Prefix(input))

\* What of the command is typed, and not all of it.
IsPartOf(text, command) ==
    \/ text = "/"
    \/ text = "/c" /\ command \in {"/connect", "/clear"}

\* A bug: the index is not reset.
IndexKept == index

\* refresh_suggestions, which comes first wherever the index is used.
RefreshedIndex == IF Offered # <<>> /\ Prefix(input) # key THEN 0 ELSE index
RefreshedKey == IF Offered # <<>> THEN Prefix(input) ELSE key

Selected == Offered[RefreshedIndex + 1]

Accept == input' = Selected /\ key' = Selected /\ index' = 0

-----------------------------------------------------------------------------
(* History and submit. *)

\* A bug: the cap is forgotten.
RecordedAll(text) == IF prompts # <<>> /\ Last(prompts) = text THEN prompts ELSE Append(prompts, text)

\* record_history: not the same prompt twice in a row, and no more than the cap.
Recorded(text) ==
    LET longer == IF prompts # <<>> /\ Last(prompts) = text THEN prompts ELSE Append(prompts, text)
    IN  IF Len(longer) > HistoryCap THEN Tail(longer) ELSE longer

\* submit of a text: a busy TUI leaves it in the bar.
Submit(text) ==
    \/ input' = text /\ UNCHANGED <<prompts, pos, draft>>
    \/ /\ text # ""
       /\ input' = ""
       /\ IF IsCommand(text) THEN UNCHANGED <<prompts, pos, draft>>
          ELSE prompts' = Recorded(text) /\ pos' = 0 /\ draft' = ""

HistoryPrevious ==
    /\ prompts # <<>>
    /\ IF pos = 0 THEN draft' = input /\ pos' = Len(prompts)
       ELSE pos > 1 /\ pos' = pos - 1 /\ UNCHANGED draft
    /\ input' = prompts[pos']
    /\ UNCHANGED <<key, index, prompts>>

HistoryNext ==
    /\ pos # 0
    /\ pos' = IF pos < Len(prompts) THEN pos + 1 ELSE 0
    /\ input' = IF pos' = 0 THEN draft ELSE prompts[pos']
    /\ UNCHANGED <<key, index, prompts, draft>>

-----------------------------------------------------------------------------
(* Keys. *)

\* The editor is at work, and the next rendering may find what it did.
Edit(text) == input' = text /\ UNCHANGED <<key, index, prompts, pos, draft>>
OnRender == key' = RefreshedKey /\ index' = RefreshedIndex /\ UNCHANGED <<input, prompts, pos, draft>>

\* The keys of the completion, where it has something to offer.
Tab == Offered # <<>> /\ Accept /\ UNCHANGED <<prompts, pos, draft>>

Cycle(dir) ==
    /\ Offered # <<>>
    /\ key' = RefreshedKey
    /\ index' = (RefreshedIndex + Len(Offered) + dir) % Len(Offered)
    /\ UNCHANGED <<input, prompts, pos, draft>>

ArrowUp == Cycle(-1) \/ (Offered = <<>> /\ HistoryPrevious)
ArrowDown == Cycle(1) \/ (Offered = <<>> /\ HistoryNext)

\* A command that is all there runs; a part of the selected one is filled in; what
\* has arguments, or was found by its description, runs as it is typed.
Return ==
    \/ Offered = <<>> /\ Submit(input) /\ UNCHANGED <<key, index>>
    \/ Offered # <<>> /\ Selected = input /\ key' = Selected /\ index' = 0 /\ Submit(Selected)
    \/ Offered # <<>> /\ IsPartOf(input, Selected) /\ Accept /\ UNCHANGED <<prompts, pos, draft>>
    \/ /\ Offered # <<>> /\ Selected # input /\ ~IsPartOf(input, Selected)
       /\ key' = RefreshedKey /\ index' = RefreshedIndex
       /\ Submit(input)

Next == (\E text \in Typed : Edit(text)) \/ OnRender \/ Tab \/ ArrowUp \/ ArrowDown \/ Return

-----------------------------------------------------------------------------
(* Properties. *)

\* completion_choices_[completion_index_] and prompt_history_[history_pos_] are not
\* tested where they are used: whatever was typed, recalled, completed and submitted
\* in between, both indexes are on the lists as they are then (tui.cpp 1129-1168,
\* 1457-1503, 2061-2080).
IndexesInRange ==
    /\ Offered # <<>> => RefreshedIndex < Len(Offered)
    /\ pos <= Len(prompts)
=============================================================================
