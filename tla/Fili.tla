--------------------------------- MODULE Fili ---------------------------------
(***************************************************************************)
(* Fili, the agent that names terminals and sums up their tasks (fili.rs): *)
(* its loop with wakes, sweeps and the spacing of runs, one run with its   *)
(* rounds of model and tools, the conversation it carries on, which is     *)
(* compacted when it grows, and the settings that a user changes at any    *)
(* time.  What the host makes of a label is modelled in AgentActivity;     *)
(* here a terminal needs one or not.                                       *)
(*                                                                         *)
(* A message is its role and, of an assistant's turn, how many tools it    *)
(* calls; its length counts as one.  Only the loop calls run_pass, so its  *)
(* `running' never refuses and `dirty_during_run' is never set.            *)
(***************************************************************************)
EXTENDS Naturals, Sequences, FiniteSetsExt

CONSTANTS
    Labelled,           \* terminals
    Threshold,          \* COMPACTION_THRESHOLD_CHARS, in messages
    KeepRecent,         \* COMPACTION_KEEP_RECENT
    MaxRounds,          \* MAX_TOOL_ROUNDS
    MaxCalls            \* bound: tools called in one turn

VARIABLES
    needy,          \* terminals that need a label: plan_attention's answer
    on,             \* titles or summaries are enabled
    permit,         \* the Notify holds a wake-up
    spaced,         \* MIN_RUN_SPACING_MILLIS have passed since the last run
    conversation,
    fili,           \* the loop
    torn            \* history: the conversation was reset between a call and
                    \* its last result

filiVars == <<needy, on, permit, spaced, conversation, fili, torn>>

System == [role |-> "system", calls |-> 0]
User == [role |-> "user", calls |-> 0]
Says(n) == [role |-> "assistant", calls |-> n]
Tool == [role |-> "tool", calls |-> 0]

FiliInit ==
    /\ needy = {} /\ on \in BOOLEAN /\ permit = FALSE /\ spaced = TRUE
    /\ conversation = <<System>>
    /\ fili = [at |-> "waiting", plan |-> {}, round |-> 0, split |-> 0,
               left |-> 0]
    /\ torn = FALSE

-----------------------------------------------------------------------------
(* The terminals, the clock and the user.                                  *)

\* Something happens to an agent: the monitor wakes fili, or the change is
\* left to the sweep.
AgentChanges ==
    /\ \E t \in Labelled : needy' = needy \cup {t}
    /\ permit' \in {permit, TRUE}
    /\ UNCHANGED <<on, spaced, conversation, fili, torn>>

AgentGoes ==
    /\ \E t \in needy : needy' = needy \ {t}
    /\ UNCHANGED <<on, permit, spaced, conversation, fili, torn>>

SpacingPasses ==
    /\ ~spaced /\ spaced' = TRUE
    /\ UNCHANGED <<needy, on, permit, conversation, fili, torn>>

\* update: another model starts a new conversation.
Update ==
    /\ on' \in BOOLEAN
    /\ \/ UNCHANGED <<conversation, torn>>
       \/ /\ conversation' = <<System>>
          /\ torn' = (fili.at = "tools")
    /\ UNCHANGED <<needy, permit, spaced, fili>>

-----------------------------------------------------------------------------
(* The loop.                                                               *)

\* A sweep, or a wake-up with the wait for more of them.
Tick ==
    /\ fili.at = "waiting" /\ fili' = [fili EXCEPT !.at = "pass"]
    /\ UNCHANGED <<needy, on, permit, spaced, conversation, torn>>

Wake ==
    /\ fili.at = "waiting" /\ permit
    /\ permit' = FALSE /\ fili' = [fili EXCEPT !.at = "settling"]
    /\ UNCHANGED <<needy, on, spaced, conversation, torn>>

Settle ==
    /\ fili.at = "settling" /\ fili' = [fili EXCEPT !.at = "pass"]
    /\ UNCHANGED <<needy, on, permit, spaced, conversation, torn>>

Rest(f) == [f EXCEPT !.at = "waiting", !.plan = {}, !.round = 0]

\* run_pass, and run_turn up to its first round.
RunPass ==
    /\ fili.at = "pass"
    /\ IF on /\ spaced
       THEN /\ spaced' = FALSE
            /\ fili' = IF needy = {} THEN Rest(fili)
                       ELSE [fili EXCEPT !.at = "round", !.plan = needy,
                                         !.round = 1]
            /\ conversation' = IF needy = {} THEN conversation
                               ELSE Append(conversation, User)
       ELSE fili' = Rest(fili) /\ UNCHANGED <<spaced, conversation>>
    /\ UNCHANGED <<needy, on, permit, torn>>

-----------------------------------------------------------------------------
(* A run.                                                                  *)

\* plan_compaction: the first message that is kept, or 0 where all are; a tool's
\* result is kept with the turn that called it.
\* Mutant: the cut falls where it falls.
FaultyCut(messages) == Len(messages) - KeepRecent + 1
Cut(messages) ==
    Max({k \in 1..(Len(messages) - KeepRecent + 1) :
            k = 1 \/ messages[k].role # "tool"})
FirstKept(messages) ==
    IF Len(messages) > Threshold /\ Cut(messages) > 2 THEN Cut(messages) ELSE 0

\* A round reads the conversation, and compacts it first if it is too long.
Round ==
    /\ fili.at = "round"
    /\ LET cut == FirstKept(conversation)
       IN fili' = IF cut = 0 THEN [fili EXCEPT !.at = "asked"]
                  ELSE [fili EXCEPT !.at = "cutting", !.split = cut]
    /\ UNCHANGED <<needy, on, permit, spaced, conversation, torn>>

\* compact takes the old messages out; the conversation may have been reset
\* since it was read, and a range beyond its end ends the task.
CutOut ==
    /\ fili.at = "cutting"
    /\ IF fili.split > Len(conversation) + 1
       THEN fili' = [fili EXCEPT !.at = "dead"] /\ UNCHANGED conversation
       ELSE /\ fili' = [fili EXCEPT !.at = "folding", !.split = 0]
            /\ conversation' = <<Head(conversation)>>
                  \o SubSeq(conversation, fili.split, Len(conversation))
    /\ UNCHANGED <<needy, on, permit, spaced, torn>>

\* ... and puts a digest, or a remark that there is none, in their place.
Fold ==
    /\ fili.at = "folding"
    /\ conversation' = <<Head(conversation), User>> \o Tail(conversation)
    /\ fili' = [fili EXCEPT !.at = "asked"]
    /\ UNCHANGED <<needy, on, permit, spaced, torn>>

ModelFails ==
    /\ fili.at = "asked" /\ fili' = Rest(fili)
    /\ UNCHANGED <<needy, on, permit, spaced, conversation, torn>>

ModelAnswers(calls) ==
    /\ fili.at = "asked"
    /\ conversation' = Append(conversation, Says(calls))
    /\ fili' = IF calls = 0 THEN Rest(fili)
               ELSE [fili EXCEPT !.at = "tools", !.left = calls]
    /\ UNCHANGED <<needy, on, permit, spaced, torn>>

\* One tool: a label for a terminal, or anything that changes nothing.
UseTool ==
    /\ fili.at = "tools"
    /\ \/ needy' = needy
       \/ on /\ \E t \in needy : needy' = needy \ {t}
    /\ conversation' = Append(conversation, Tool)
    /\ fili' = IF fili.left > 1 THEN [fili EXCEPT !.left = @ - 1]
               ELSE IF fili.round < MaxRounds
               THEN [fili EXCEPT !.at = "round", !.left = 0, !.round = @ + 1]
               ELSE [Rest(fili) EXCEPT !.left = 0]
    /\ UNCHANGED <<on, permit, spaced, torn>>

-----------------------------------------------------------------------------
Loop == \/ Tick \/ Wake \/ Settle \/ RunPass \/ Round \/ CutOut \/ Fold
        \/ ModelFails \/ (\E n \in 0..MaxCalls : ModelAnswers(n)) \/ UseTool
FiliNext == AgentChanges \/ AgentGoes \/ SpacingPasses \/ Update \/ Loop

\* The loop runs on, the model answers or its time-out does, time passes.
FiliFairness == WF_filiVars(Loop) /\ WF_filiVars(SpacingPasses)
FiliSpec == FiliInit /\ [][FiliNext]_filiVars /\ FiliFairness

-----------------------------------------------------------------------------
FiliTypeOK ==
    /\ needy \subseteq Labelled
    /\ fili.at \in {"waiting", "settling", "pass", "round", "cutting",
                    "folding", "asked", "tools", "dead"}
    /\ fili.round \in 0..MaxRounds /\ fili.left \in 0..MaxCalls
    /\ \A k \in DOMAIN conversation :
          conversation[k].role \in {"system", "user", "assistant", "tool"}

\* The results that follow message k.
ResultsAfter(k) ==
    CHOOSE n \in 0..Len(conversation) :
        /\ \A j \in 1..n : k + j \in DOMAIN conversation
                           /\ conversation[k + j].role = "tool"
        /\ k + n + 1 \in DOMAIN conversation =>
              conversation[k + n + 1].role # "tool"

\* What the model is sent opens with the system's message, every call in it is
\* followed by its results and no result stands without its call, however the
\* thread was folded; a change of the model between a call and its result is the
\* one way to tear them apart (fili.rs 1163).
ResultsFollowCalls ==
    fili.at = "asked" /\ ~torn =>
        /\ conversation[1] = System
        /\ \A k \in DOMAIN conversation :
              conversation[k].role # "tool" =>
                  ResultsAfter(k) = conversation[k].calls

\* Compaction keeps the conversation bounded (fili.rs 273).
ConversationBounded == Len(conversation) <= Threshold + MaxCalls + 2

\* A terminal that needs a label is looked at in the end, though wakes are
\* merged and dropped, unless fili is turned off or its task ended.
NeedyLookedAt ==
    \A t \in Labelled :
        (t \in needy) ~> \/ t \notin needy \/ t \in fili.plan
                         \/ ~on \/ fili.at = "dead"

\* The conversation is one the endpoint accepts (fili's run_turn and compact,
\* fili.rs 455-716).
ConversationSound == [][(ResultsFollowCalls /\ ConversationBounded)']_filiVars
===============================================================================
