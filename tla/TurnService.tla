---------------------------- MODULE TurnService ----------------------------
(***************************************************************************)
(* What Agent promises to the code that calls run_turn (src/agent.h,       *)
(* src/remote/remote_agent.h): one call at a time, its output shown while  *)
(* it runs and nothing of it after a cancel, and one result at its end.    *)
(* Module RemoteTurn implements this across a socket.                      *)
(***************************************************************************)
EXTENDS Naturals

VARIABLES
    running,  \* a call of run_turn is being served
    muted,    \* it was cancelled: its output is no longer shown
    shown,    \* stream events the call has passed to its StreamSink
    result    \* the result of the last call, 1 while it is open

vars == <<running, muted, shown, result>>

OK == 0
Failed == 1
kCancelled == 2

Init == ~running /\ ~muted /\ shown = 0 /\ result = Failed

Begin ==
    /\ ~running
    /\ running' = TRUE
    /\ muted' = FALSE
    /\ shown' = 0
    /\ result' = Failed

Show ==
    /\ running /\ ~muted
    /\ shown' = shown + 1
    /\ UNCHANGED <<running, muted, result>>

Cancel ==
    /\ running
    /\ muted' = TRUE
    /\ UNCHANGED <<running, shown, result>>

\* Only a call that was cancelled ends as cancelled.
End ==
    /\ running
    /\ running' = FALSE
    /\ muted' = FALSE
    /\ result' \in {OK, Failed} \cup (IF muted THEN {kCancelled} ELSE {})
    /\ UNCHANGED shown

Next == Begin \/ Show \/ Cancel \/ End

Spec == Init /\ [][Next]_vars
=============================================================================
