---------------------------- MODULE SystemContext ----------------------------
(***************************************************************************)
(* The context sources of an Agent (src/system/) and the system prompt     *)
(* that build_system_prompt assembles from them before each turn.          *)
(*                                                                         *)
(* A source is observed when a prompt is built.  The world changes between *)
(* two observations: a date, a repository, a skill or an AGENTS.md that    *)
(* comes and goes.  The set of sources is fixed when the Agent is made: it *)
(* keeps its handles, so no built-in source is ever removed, and a stored  *)
(* string always decodes, so reconcile never asks for a replacement.       *)
(***************************************************************************)
EXTENDS Integers, FiniteSets

CONSTANTS
    Keys,        \* the registered sources
    Values,      \* what a source may say
    Unavailable, \* load() failed for the moment
    Empty,       \* load() worked and there is nothing to say
    Fails,       \* the sources whose load() may be Unavailable (core/agents-md)
    MayBeEmpty,  \* the sources whose text may be empty (skills/available)
    None         \* not in the snapshot, not in the prompt

SourcesFit ==
    /\ Fails \subseteq Keys /\ MayBeEmpty \subseteq Keys
    /\ Values # {} /\ {Unavailable, Empty, None} \cap Values = {}
    /\ Unavailable # Empty /\ Unavailable # None /\ Empty # None

VARIABLES
    source,      \* what load() of each source returns now
    snapshot,    \* sys_context_snapshot_
    text,        \* sys_context_text_, as what it says of each source
    initialized, \* sys_context_initialized_
    prompt,      \* the context in the last system prompt
    outcome,     \* how the last build_system_prompt ended
    observed,    \* observation: what the sources said when it ran
    told         \* observation: the last value each source had in any prompt

contextVars == <<source, snapshot, text, initialized, prompt, outcome, observed, told>>

Nothing == [k \in Keys |-> None]

Loads(k) ==
    Values \cup (IF k \in Fails THEN {Unavailable} ELSE {})
           \cup (IF k \in MayBeEmpty THEN {Empty} ELSE {})

TypeOK ==
    /\ \A k \in Keys : source[k] \in Loads(k)
    /\ snapshot \in [Keys -> Values \cup {None}]
    /\ text \in [Keys -> Values \cup {None}]
    /\ prompt \in [Keys -> Values \cup {None}]
    /\ told \in [Keys -> Values \cup {None}]
    /\ \A k \in Keys : observed[k] \in Loads(k)
    /\ initialized \in BOOLEAN
    /\ outcome \in {"none", "blocked", "baseline", "unchanged", "updated", "threw"}

\* A source is registered for what it has to say at that moment.
FirstValue(k) == CHOOSE v \in Values : TRUE

Init ==
    /\ source = [k \in Keys |-> FirstValue(k)]
    /\ snapshot = Nothing
    /\ text = Nothing
    /\ initialized = FALSE
    /\ prompt = Nothing
    /\ outcome = "none"
    /\ observed = source
    /\ told = Nothing

-----------------------------------------------------------------------------
\* The world moves on.
Change(k) ==
    /\ \E v \in Loads(k) \ {source[k]} : source' = [source EXCEPT ![k] = v]
    /\ UNCHANGED <<snapshot, text, initialized, prompt, outcome, observed, told>>

Available(k) == source[k] # Unavailable

\* The sources whose text reconcile renders: an update for those that differ
\* from the snapshot, a baseline for those that are not in it.
ToRender == {k \in Keys : Available(k) /\ snapshot[k] # source[k]}

\* A bug: what could not be observed is dropped from the snapshot.
ReconciledForgetting == [k \in Keys |-> IF Available(k) THEN source[k] ELSE None]

\* The snapshot after a reconciliation: what was observed, and the stored
\* value of what could not be.
Reconciled == [k \in Keys |-> IF Available(k) THEN source[k] ELSE snapshot[k]]

\* require_text throws on an empty rendering.
RendersEmpty(ks) == \E k \in ks : source[k] = Empty

Says(ks) == [k \in Keys |-> IF k \in ks THEN source[k] ELSE None]

\* A prompt goes out with the given context.
Send(context, how) ==
    /\ prompt' = context
    /\ told' = [k \in Keys |-> IF context[k] # None THEN context[k] ELSE told[k]]
    /\ outcome' = how
    /\ observed' = source

\* initialize: every source has to be available, or the prompt goes without.
BuildBlocked ==
    /\ ~initialized
    /\ \E k \in Keys : ~Available(k)
    /\ Send(Nothing, "blocked")
    /\ UNCHANGED <<source, snapshot, text, initialized>>

BuildBaseline ==
    /\ ~initialized
    /\ \A k \in Keys : Available(k)
    /\ ~RendersEmpty(Keys)
    /\ snapshot' = source
    /\ text' = source
    /\ initialized' = TRUE
    /\ Send(source, "baseline")
    /\ UNCHANGED source

\* The exception leaves build_system_prompt and fails the turn.
BuildThrows ==
    /\ IF initialized THEN RendersEmpty(ToRender)
                      ELSE (\A k \in Keys : Available(k)) /\ RendersEmpty(Keys)
    /\ outcome' = "threw"
    /\ observed' = source
    /\ UNCHANGED <<source, snapshot, text, initialized, prompt, told>>

\* reconcile found no difference: the stored text goes out again.
BuildUnchanged ==
    /\ initialized /\ ToRender = {}
    /\ Send(text, "unchanged")
    /\ UNCHANGED <<source, snapshot, text, initialized>>

\* reconcile rendered the differences: they are the text from now on.
BuildUpdated ==
    /\ initialized /\ ToRender # {} /\ ~RendersEmpty(ToRender)
    /\ snapshot' = Reconciled
    /\ text' = Says(ToRender)
    /\ Send(Says(ToRender), "updated")
    /\ UNCHANGED <<source, initialized>>

Next ==
    \/ \E k \in Keys : Change(k)
    \/ BuildBlocked \/ BuildBaseline \/ BuildThrows \/ BuildUnchanged \/ BuildUpdated

Spec == Init /\ [][Next]_contextVars

-----------------------------------------------------------------------------
(* Properties. *)

\* What the Agent believes its model was told is what it was last told: an
\* update is relative to a text that went out, whatever was unavailable or
\* threw in between (systemcontext.h 306-374, agent.cpp 158-201).
SnapshotWasTold == snapshot = told

\* A prompt leaves nobody behind: whatever the order in which sources changed,
\* failed and came back, what they said when it was built has been told by now.
PromptCatchesUp ==
    outcome \in {"baseline", "unchanged", "updated"} =>
        \A k \in Keys : observed[k] # Unavailable => told[k] = observed[k]

ContextInStep == SnapshotWasTold /\ PromptCatchesUp

\* systemcontext.h 20-21: "initialize() builds the immutable baseline + durable
\* snapshot".  The system prompt is sent anew with each request, so a source
\* that was told and is still in the snapshot has to be in every later prompt.
PromptTellsAll ==
    outcome \in {"baseline", "unchanged", "updated"} =>
        \A k \in Keys : snapshot[k] # None => prompt[k] = snapshot[k]
=============================================================================
