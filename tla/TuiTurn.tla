------------------------------- MODULE TuiTurn -------------------------------
(***************************************************************************)
(* The terminal UI around a turn (src/tui/tui.cpp): the event loop, which  *)
(* reads keys and calls the Agent, and the detached thread of each turn,   *)
(* which shares busy_ and esc_armed_ with it.                              *)
(***************************************************************************)
EXTENDS Integers

CONSTANT MaxTurns \* bound: turns submitted

Turns == 1 .. MaxTurns
\* "/help" stands for the commands that only append lines.
Commands == {"/clear", "/model", "/connect", "/exit", "/help"}

VARIABLES
    busy,      \* busy_
    armed,     \* esc_armed_
    dialog,    \* connect_active_ and connect_step_
    loop,      \* "idle", "escape" between its test of busy_ and esc_armed_, or "left"
    turn,      \* the thread of each turn
    presses,   \* history: Escapes that found busy_ set, in this turn and since its last cancel
    disturbed  \* history: the Agent was called, or left by /exit, while run_turn ran

turnVars == <<busy, armed, dialog, loop, turn, presses, disturbed>>

TypeOK ==
    /\ busy \in BOOLEAN /\ armed \in BOOLEAN
    /\ dialog \in {"closed", "provider", "key"}
    /\ loop \in {"idle", "escape", "left"}
    /\ turn \in [Turns -> {"none", "running", "returned", "released", "over"}]
    /\ presses \in Nat /\ disturbed \in BOOLEAN

Init ==
    /\ busy = FALSE /\ armed = FALSE
    /\ dialog = "closed" /\ loop = "idle"
    /\ turn = [t \in Turns |-> "none"]
    /\ presses = 0 /\ disturbed = FALSE

Running == {t \in Turns : turn[t] = "running"}
CallsAgent == disturbed' = (disturbed \/ Running # {})

-----------------------------------------------------------------------------
(* The event loop. *)

\* The main layout has the keys.
Free == loop = "idle" /\ dialog = "closed"

\* submit of a prompt, and run_turn_async.  A busy TUI keeps the text.
SubmitPrompt ==
    /\ Free /\ ~busy
    /\ \E t \in Turns :
        /\ turn[t] = "none" /\ \A u \in 1 .. t - 1 : turn[u] # "none"
        /\ turn' = [turn EXCEPT ![t] = "running"]
    /\ busy' = TRUE /\ presses' = 0
    /\ UNCHANGED <<armed, dialog, loop, disturbed>>

\* A bug: busy_ is looked at behind the commands.
SubmitCommandBusy(command) ==
    /\ Free
    /\ dialog' = IF command = "/connect" THEN "provider" ELSE dialog
    /\ loop' = IF command = "/exit" THEN "left" ELSE loop
    /\ IF command \in {"/clear", "/model", "/exit"} THEN CallsAgent ELSE UNCHANGED disturbed
    /\ UNCHANGED <<busy, armed, turn, presses>>

\* submit of a command, and handle_command.
SubmitCommand(command) ==
    /\ Free /\ ~busy
    /\ dialog' = IF command = "/connect" THEN "provider" ELSE dialog
    /\ loop' = IF command = "/exit" THEN "left" ELSE loop
    /\ IF command \in {"/clear", "/model", "/exit"} THEN CallsAgent ELSE UNCHANGED disturbed
    /\ UNCHANGED <<busy, armed, turn, presses>>

\* Escape outside a turn.
EscapeIdle ==
    /\ Free /\ ~busy
    /\ armed' = FALSE
    /\ UNCHANGED <<busy, dialog, loop, turn, presses, disturbed>>

\* Escape in a turn: the turn may end before esc_armed_ is looked at.
EscapeSeesBusy ==
    /\ Free /\ busy
    /\ loop' = "escape"
    /\ presses' = presses + 1
    /\ UNCHANGED <<busy, armed, dialog, turn, disturbed>>

EscapeArms ==
    /\ loop = "escape" /\ ~armed
    /\ armed' = TRUE /\ loop' = "idle"
    /\ UNCHANGED <<busy, dialog, turn, presses, disturbed>>

\* cancel_turn, which may be called in a turn.
EscapeCancels ==
    /\ loop = "escape" /\ armed
    /\ armed' = FALSE /\ loop' = "idle"
    /\ presses' = 0
    /\ UNCHANGED <<busy, dialog, turn, disturbed>>

\* The /connect dialog: it takes every key.
Ask(next) == dialog' = next /\ UNCHANGED <<busy, armed, loop, turn, presses>>

DialogReturn ==
    /\ loop = "idle"
    /\ \/ dialog = "provider" /\ Ask("key") /\ UNCHANGED disturbed
       \/ dialog = "key" /\ Ask("key") /\ UNCHANGED disturbed \* no key, or it could not be saved
       \/ dialog = "key" /\ Ask("closed") /\ CallsAgent        \* set_credentials

DialogEscape ==
    /\ loop = "idle"
    /\ dialog # "closed"
    /\ Ask(IF dialog = "key" THEN "provider" ELSE "closed")
    /\ UNCHANGED disturbed

\* Ctrl+C, by the terminal library's default: no test of busy_ is in its way.
Interrupt ==
    /\ loop = "idle"
    /\ loop' = "left"
    /\ UNCHANGED <<busy, armed, dialog, turn, presses, disturbed>>

-----------------------------------------------------------------------------
(* The thread of a turn. *)

Step(t, from, to) == turn[t] = from /\ turn' = [turn EXCEPT ![t] = to]

TurnReturns(t) == \* run_turn is over; the live text is flushed
    /\ Step(t, "running", "returned")
    /\ UNCHANGED <<busy, armed, dialog, loop, presses, disturbed>>

TurnReleases(t) ==
    /\ Step(t, "returned", "released")
    /\ busy' = FALSE
    /\ UNCHANGED <<armed, dialog, loop, presses, disturbed>>

TurnDisarms(t) ==
    /\ Step(t, "released", "over")
    /\ armed' = FALSE
    /\ UNCHANGED <<busy, dialog, loop, presses, disturbed>>

Next ==
    \/ SubmitPrompt
    \/ \E command \in Commands : SubmitCommand(command)
    \/ EscapeIdle \/ EscapeSeesBusy \/ EscapeArms \/ EscapeCancels
    \/ DialogReturn \/ DialogEscape \/ Interrupt
    \/ \E t \in Turns : TurnReturns(t) \/ TurnReleases(t) \/ TurnDisarms(t)

Spec == Init /\ [][Next]_turnVars

-----------------------------------------------------------------------------
(* Properties. *)

\* The Agent has no lock of its own: whatever the keys and whenever turns end,
\* one thread at a time is in run_turn, no command reaches the Agent and no
\* /connect dialog is open meanwhile (tui.cpp 738-1038, 1275-1367, 1505-1535).
\* Ctrl+C ends the process in the middle of a turn, and is not counted.
TurnUndisturbed ==
    /\ \A t, u \in Running : t = u
    /\ ~disturbed
    /\ dialog # "closed" => Running = {}

\* tui.cpp 2001: "while a turn runs, the first Escape arms it, the second aborts".
\* What aborts a turn is its second Escape (tui.cpp 1430-1440, 1992-2024).
CancelAskedTwice == loop = "escape" /\ armed => presses >= 2
=============================================================================
