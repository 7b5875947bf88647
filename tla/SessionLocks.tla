---------------------------- MODULE SessionLocks ----------------------------
(***************************************************************************)
(* The locks of a terminal session and of its manager (src/terminal.rs).   *)
(* Threads of three kinds use them: the read, input, exit and monitor      *)
(* threads of the terminals, and the runtime's workers on behalf of        *)
(* sockets and requests.  Each operation is modelled by the locks it takes *)
(* and gives back, in order; one that returns early gives back what it     *)
(* holds and takes no more, so it waits in no other state.  `sessions' and *)
(* `info' are read-write locks whose waiting writer holds up new readers.  *)
(*                                                                         *)
(* One session stands for all: no operation holds locks of two sessions.   *)
(***************************************************************************)
EXTENDS Naturals, Sequences, FiniteSets

CONSTANTS Threads, Idle

VARIABLES
    doing,      \* thread -> what it is doing, or Idle
    at          \* thread -> the step of it that comes next

lockVars == <<doing, at>>

\* The documented order; `sessions' comes before all, and the leaves, under
\* which nothing else is taken, after all.
Order == <<"sessions", "input", "flow", "viewports", "activity", "info",
           "output", "signals">>
Leaves == {"tracker", "transcript", "master", "killer"}
Rank(lock) == IF lock \in Leaves THEN Len(Order) + 1
              ELSE CHOOSE i \in DOMAIN Order : Order[i] = lock

Acquire(lock)  == [op |-> "take", lock |-> lock]
Share(lock) == [op |-> "share", lock |-> lock]
Give(lock)  == [op |-> "give", lock |-> lock]

\* Under one lock; a lock held for one expression.
Under(lock, steps)   == <<Acquire(lock)>> \o steps \o <<Give(lock)>>
Reading(lock, steps) == <<Share(lock)>> \o steps \o <<Give(lock)>>
Touch(lock) == Under(lock, <<>>)
Look(lock)  == Reading(lock, <<>>)
\* Agent state: `activity' before `info'.
Agent(steps) == Under("activity", Under("info", steps))

-----------------------------------------------------------------------------
(* TerminalSession.                                                        *)

WorkingDirectory == Look("info") \o Touch("info")
Info == WorkingDirectory \o Look("info") \o Touch("viewports")

FaultySubscribe == Under("flow", Under("output", Touch("viewports")))
Subscribe == Under("flow", Under("viewports", Touch("output")))

Inspect    == Touch("tracker")
Terminate  == Touch("tracker") \o Look("info")
Screen     == Touch("output")
Scrollback == Look("info") \o Touch("output")
Transcript == Look("info") \o Touch("transcript") \o Look("info")
Explain    == Look("info") \o Touch("output") \o Touch("signals")

\* attach, detach, resize, focus, activate and release.
UpdateViewports ==
    Under("viewports", Look("info") \o Under("output", Touch("master")))

\* What is accepted is accounted for before the writer can see it.
ObserveInput == Touch("activity") \o Look("info") \o Agent(<<>>)
WriteInput == Look("info") \o Under("input", ObserveInput)

Flow == Touch("flow")

\* The read loop: what it read, then the emulator's answers.
Publish == Touch("signals") \o Under("flow", Touch("output")) \o Touch("input")
ReadOutput == Flow \o Publish

Kill == Flow \o Look("info") \o Touch("killer")
Exited == Flow \o Flow \o Agent(<<>>) \o Touch("output")

Detect == Touch("output") \o Touch("signals")
Refresh ==
    WorkingDirectory \o Look("info") \o Touch("tracker") \o Look("info")
        \o Touch("output") \o Touch("signals") \o Detect
        \o Agent(Touch("signals"))
AgentEvent == Touch("transcript") \o Agent(<<>>)

-----------------------------------------------------------------------------
(* TerminalManager.                                                        *)

Prune == Under("sessions", Look("info"))
List  == Prune \o Reading("sessions", Info)
Get   == Prune \o Look("sessions")
RunningCount == Prune \o Reading("sessions", Look("info"))

FiliRoster  == Reading("sessions", Under("activity", Look("info")))
FiliName    == Reading("sessions", Look("info")) \o Get \o Agent(<<>>)
FiliSummary == Get \o Touch("info")

ApplyAgentEvent  == Get \o AgentEvent
RefreshProcesses == Prune \o Look("sessions") \o Look("info") \o Refresh

Create == Prune \o Get \o Info \o Under("sessions", Look("info")) \o Info
Rename == Reading("sessions", Look("info") \o Agent(<<>>) \o Info)
RemoveTerminal == Touch("sessions") \o Kill

Programs ==
    {Info, Subscribe, Inspect, Terminate, Screen, Scrollback, Transcript,
     Explain, UpdateViewports, WriteInput, Flow, ReadOutput, Exited, List, Get,
     RunningCount, FiliRoster, FiliName, FiliSummary, ApplyAgentEvent,
     RefreshProcesses, Create, Rename, RemoveTerminal}

-----------------------------------------------------------------------------
\* The locks a program holds before its i-th step.
HeldBefore(p, i) ==
    {p[j].lock : j \in {j \in 1..(i - 1) :
        /\ p[j].op # "give"
        /\ \A k \in (j + 1)..(i - 1) : p[k] # Give(p[j].lock)}}

Holds(t) == IF doing[t] = Idle THEN {} ELSE HeldBefore(doing[t], at[t])

\* It holds the lock for writing: it took it last, it did not share it.
HoldsAlone(t, lock) ==
    /\ lock \in Holds(t)
    /\ \E j \in 1..(at[t] - 1) :
           /\ doing[t][j] = Acquire(lock)
           /\ \A k \in (j + 1)..(at[t] - 1) : doing[t][k].lock # lock

Wants(t) == IF doing[t] = Idle THEN Give("nothing") ELSE doing[t][at[t]]

\* u keeps t from its next step.  A reader waits for a writer that waits, too.
Keeps(u, t) ==
    LET lock == Wants(t).lock IN
    \/ Wants(t).op = "take" /\ u # t /\ lock \in Holds(u)
    \/ Wants(t).op = "share" /\ u # t /\ HoldsAlone(u, lock)
    \/ Wants(t).op = "share" /\ u # t /\ Wants(u) = Acquire(lock)
       /\ \E v \in Threads \ {u} : lock \in Holds(v)
    \/ Wants(t).op # "give" /\ u = t /\ lock \in Holds(t)

LocksInit ==
    /\ doing = [t \in Threads |-> Idle]
    /\ at = [t \in Threads |-> 1]

Begin(t) ==
    /\ doing[t] = Idle
    /\ \E p \in Programs : doing' = [doing EXCEPT ![t] = p]
    /\ UNCHANGED at

Step(t) ==
    /\ doing[t] # Idle
    /\ \A u \in Threads : ~Keeps(u, t)
    /\ IF at[t] = Len(doing[t])
       THEN /\ doing' = [doing EXCEPT ![t] = Idle]
            /\ at' = [at EXCEPT ![t] = 1]
       ELSE /\ at' = [at EXCEPT ![t] = at[t] + 1]
            /\ UNCHANGED doing

LocksNext == \E t \in Threads : Begin(t) \/ Step(t)

LocksSpec == LocksInit /\ [][LocksNext]_lockVars

-----------------------------------------------------------------------------
(* Properties.                                                             *)

LocksTypeOK ==
    /\ doing \in [Threads -> Programs \cup {Idle}]
    /\ at \in [Threads -> Nat]
    /\ \A t \in Threads :
           at[t] \in 1..(IF doing[t] = Idle THEN 1 ELSE Len(doing[t]))

\* The rule of the code: what a thread takes comes after what it holds.
LocksInOrder ==
    \A t \in Threads :
        Wants(t).op # "give" =>
            \A lock \in Holds(t) : Rank(lock) < Rank(Wants(t).lock)

\* No threads wait for each other in a circle.
NoCircularWait ==
    \A S \in SUBSET Threads :
        S # {} => \E t \in S : \A u \in S : ~Keeps(u, t)

LockDiscipline == LocksInOrder /\ NoCircularWait
=============================================================================
