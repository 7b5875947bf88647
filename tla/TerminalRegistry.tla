-------------------------- MODULE TerminalRegistry --------------------------
(***************************************************************************)
(* The life of a terminal in its manager (src/terminal.rs: TerminalManager *)
(* create, list, remove, shutdown; TerminalSession kill, reclaim, exited;  *)
(* the exit thread and the read loop).  A terminal has a shell, and jobs   *)
(* the shell leaves behind; a job holds the pty open, may outlive the      *)
(* shell and may ignore a hangup.  Exited terminals are kept for a while,  *)
(* the oldest are pruned.                                                  *)
(*                                                                         *)
(* A pass over /proc is one step.  The identity of the shell can be read   *)
(* when it is started, as on every Linux, and the kernel gives its pid to  *)
(* nobody while a process of its session lives.  Names are modelled in     *)
(* AgentActivity.                                                          *)
(***************************************************************************)
EXTENDS Naturals, FiniteSets

CONSTANTS
    Terminals,          \* ids, as numbers: their order is arbitrary
    MaxRetained         \* MAX_RETAINED_EXITED_SESSIONS

VARIABLES
    registered,         \* the manager's map
    shell,              \* "none", "alive", "dead", "waited"
    job,                \* a background job runs
    gate,               \* the read loop and flow control: "open", "parked",
                        \* "released"
    drained,            \* OutputDrain: the read loop saw the end
    reaped, exited, order,
    nextOrder,
    exitThread,         \* "wait", "reaped", "draining", "ordered", "done"
    remover             \* "none", "kill", "killOnly", "reclaim", "grace", "done"

sessionVars == <<shell, job, gate, drained, reaped>>
registryVars == <<registered, sessionVars, exited, order, nextOrder,
                  exitThread, remover>>

Init ==
    /\ registered = {}
    /\ shell = [t \in Terminals |-> "none"]
    /\ job = [t \in Terminals |-> FALSE]
    /\ gate = [t \in Terminals |-> "open"]
    /\ drained = [t \in Terminals |-> FALSE]
    /\ reaped = [t \in Terminals |-> FALSE]
    /\ exited = [t \in Terminals |-> FALSE]
    /\ order = [t \in Terminals |-> 0]
    /\ nextOrder = 0
    /\ exitThread = [t \in Terminals |-> "wait"]
    /\ remover = [t \in Terminals |-> "none"]

-----------------------------------------------------------------------------
(* The manager's map.                                                      *)

FaultySooner(t, u) == t < u \/ (t = u /\ order[t] < order[u])
\* The order in which exited terminals are pruned.
Sooner(t, u) == order[t] < order[u] \/ (order[t] = order[u] /\ t < u)

\* prune_exited_sessions: all but the newest exited ones go.
Pruned ==
    LET ended == {t \in registered : exited[t]} IN
    {t \in ended :
        Cardinality({u \in ended : Sooner(t, u)}) >= MaxRetained}

\* list, get and running_count, and the sample of the processes.
List ==
    /\ registered' = registered \ Pruned
    /\ UNCHANGED <<sessionVars, exited, order, nextOrder, exitThread, remover>>

Create(t) ==
    /\ shell[t] = "none"
    /\ registered' = (registered \ Pruned) \cup {t}
    /\ shell' = [shell EXCEPT ![t] = "alive"]
    /\ UNCHANGED <<job, gate, drained, reaped, exited, order, nextOrder,
                   exitThread, remover>>

Remove(t) ==
    /\ t \in registered
    /\ registered' = registered \ {t}
    /\ remover' = [remover EXCEPT ![t] = "kill"]
    /\ UNCHANGED <<sessionVars, exited, order, nextOrder, exitThread>>

\* The broker stops: it kills every terminal, and reclaims none.
Shutdown ==
    /\ registered # {}
    /\ remover' = [t \in Terminals |->
                      IF t \in registered THEN "killOnly" ELSE remover[t]]
    /\ registered' = {}
    /\ UNCHANGED <<sessionVars, exited, order, nextOrder, exitThread>>

-----------------------------------------------------------------------------
(* The processes and the read loop.                                        *)

ShellExits(t) ==
    /\ shell[t] = "alive"
    /\ shell' = [shell EXCEPT ![t] = "dead"]
    /\ UNCHANGED <<registered, job, gate, drained, reaped, exited, order,
                   nextOrder, exitThread, remover>>

JobStarts(t) ==
    /\ shell[t] = "alive" /\ ~job[t]
    /\ job' = [job EXCEPT ![t] = TRUE]
    /\ UNCHANGED <<registered, shell, gate, drained, reaped, exited, order,
                   nextOrder, exitThread, remover>>

JobEnds(t) ==
    /\ job[t]
    /\ job' = [job EXCEPT ![t] = FALSE]
    /\ UNCHANGED <<registered, shell, gate, drained, reaped, exited, order,
                   nextOrder, exitThread, remover>>

\* The browsers fall behind, or catch up.
Park(t) ==
    /\ shell[t] # "none" /\ ~drained[t] /\ gate[t] # "released"
    /\ gate' = [gate EXCEPT ![t] = IF gate[t] = "open" THEN "parked" ELSE "open"]
    /\ UNCHANGED <<registered, shell, job, drained, reaped, exited, order,
                   nextOrder, exitThread, remover>>

\* The master reports the end once nobody holds the slave.
Drain(t) ==
    /\ shell[t] \in {"dead", "waited"} /\ ~job[t]
    /\ ~drained[t] /\ gate[t] # "parked"
    /\ drained' = [drained EXCEPT ![t] = TRUE]
    /\ UNCHANGED <<registered, shell, job, gate, reaped, exited, order,
                   nextOrder, exitThread, remover>>

-----------------------------------------------------------------------------
(* The exit thread.                                                        *)

Wait(t) ==
    /\ exitThread[t] = "wait" /\ shell[t] = "dead"
    /\ shell' = [shell EXCEPT ![t] = "waited"]
    /\ exitThread' = [exitThread EXCEPT ![t] = "reaped"]
    /\ UNCHANGED <<registered, job, gate, drained, reaped, exited, order,
                   nextOrder, remover>>

MarkReaped(t) ==
    /\ exitThread[t] = "reaped"
    /\ reaped' = [reaped EXCEPT ![t] = TRUE]
    /\ gate' = [gate EXCEPT ![t] = "released"]
    /\ exitThread' = [exitThread EXCEPT ![t] = "draining"]
    /\ UNCHANGED <<registered, shell, job, drained, exited, order, nextOrder,
                   remover>>

FaultyDrainTimesOut(t) == drained[t]
\* EXIT_DRAIN_TIMEOUT: the wait for the end of the output ends also without it.
DrainTimesOut(t) == TRUE

TakeOrder(t) ==
    /\ exitThread[t] = "draining" /\ (drained[t] \/ DrainTimesOut(t))
    /\ nextOrder' = nextOrder + 1
    /\ order' = [order EXCEPT ![t] = nextOrder]
    /\ exitThread' = [exitThread EXCEPT ![t] = "ordered"]
    /\ UNCHANGED <<registered, sessionVars, exited, remover>>

MarkExited(t) ==
    /\ exitThread[t] = "ordered"
    /\ exited' = [exited EXCEPT ![t] = TRUE]
    /\ exitThread' = [exitThread EXCEPT ![t] = "done"]
    /\ UNCHANGED <<registered, sessionVars, order, nextOrder, remover>>

-----------------------------------------------------------------------------
(* Removing a terminal.                                                    *)

\* kill: the gate opens first; the shell gets a hangup, unless it has ended,
\* and may ignore it.
Kill(t) ==
    /\ remover[t] \in {"kill", "killOnly"}
    /\ gate' = [gate EXCEPT ![t] = "released"]
    /\ \/ shell[t] = "alive" /\ ~exited[t] /\ ~reaped[t]
          /\ shell' = [shell EXCEPT ![t] = "dead"]
       \/ UNCHANGED shell
    /\ remover' = [remover EXCEPT ![t] =
                      IF remover[t] = "kill" THEN "reclaim" ELSE "done"]
    /\ UNCHANGED <<registered, job, drained, reaped, exited, order, nextOrder,
                   exitThread>>

\* reclaim: a hangup for every process of the terminal's session.
Reclaim(t) ==
    /\ remover[t] = "reclaim"
    /\ IF drained[t]
       THEN /\ remover' = [remover EXCEPT ![t] = "done"]
            /\ UNCHANGED <<shell, job>>
       ELSE /\ remover' = [remover EXCEPT ![t] = "grace"]
            /\ \E ends \in BOOLEAN :
                   job' = [job EXCEPT ![t] = job[t] /\ ~ends]
            /\ \/ shell[t] = "alive" /\ shell' = [shell EXCEPT ![t] = "dead"]
               \/ UNCHANGED shell
    /\ UNCHANGED <<registered, gate, drained, reaped, exited, order, nextOrder,
                   exitThread>>

\* RECLAIM_KILL_GRACE later, unless the output has ended by itself.
Insist(t) ==
    /\ remover[t] = "grace"
    /\ IF drained[t] THEN UNCHANGED <<shell, job>>
       ELSE /\ job' = [job EXCEPT ![t] = FALSE]
            /\ shell' = [shell EXCEPT ![t] =
                            IF shell[t] = "alive" THEN "dead" ELSE shell[t]]
    /\ remover' = [remover EXCEPT ![t] = "done"]
    /\ UNCHANGED <<registered, gate, drained, reaped, exited, order, nextOrder,
                   exitThread>>

-----------------------------------------------------------------------------
TerminalThreads(t) ==
    \/ Wait(t) \/ MarkReaped(t) \/ TakeOrder(t) \/ MarkExited(t)
    \/ Kill(t) \/ Reclaim(t) \/ Insist(t) \/ Drain(t)

Next ==
    \/ List \/ Shutdown
    \/ \E t \in Terminals :
           \/ Create(t) \/ Remove(t) \/ ShellExits(t) \/ JobStarts(t)
           \/ JobEnds(t) \/ Park(t) \/ TerminalThreads(t)

\* Threads that are not blocked run, and time-outs pass.  Neither the shell nor
\* its jobs need to end, and browsers need not catch up.
ExitThread(t) == Wait(t) \/ MarkReaped(t) \/ TakeOrder(t) \/ MarkExited(t)
Remover(t) == Kill(t) \/ Reclaim(t) \/ Insist(t)
Fairness ==
    \A t \in Terminals : /\ WF_registryVars(Drain(t))
                         /\ WF_registryVars(ExitThread(t))
                         /\ WF_registryVars(Remover(t))

Spec == Init /\ [][Next]_registryVars /\ Fairness

-----------------------------------------------------------------------------
(* Properties.                                                             *)

TypeOK ==
    /\ registered \subseteq Terminals
    /\ shell \in [Terminals -> {"none", "alive", "dead", "waited"}]
    /\ gate \in [Terminals -> {"open", "parked", "released"}]
    /\ \A f \in {job, drained, reaped, exited} : f \in [Terminals -> BOOLEAN]
    /\ order \in [Terminals -> Nat] /\ nextOrder \in Nat
    /\ exitThread \in [Terminals ->
           {"wait", "reaped", "draining", "ordered", "done"}]
    /\ remover \in [Terminals ->
           {"none", "kill", "killOnly", "reclaim", "grace", "done"}]

\* A terminal nobody asked to remove leaves the list only after it exited, only
\* when the list is full, and the one that exited first goes first, however
\* exits and listings interleave.
OldestGoFirst ==
    [][\A t \in registered \ registered' :
          \/ remover'[t] # "none"
          \/ /\ exited[t]
             /\ \A u \in registered' : exited[u] => order[t] < order[u]
             /\ Cardinality({u \in registered' : exited[u]}) = MaxRetained
      ]_registryVars

\* When its shell has ended a terminal is reported as exited, whatever its jobs
\* and its browsers do.  A terminal that is removed frees everything it held: its
\* processes end, also those that ignore a hangup and those left by a shell that is
\* gone, and its read loop ends.
TerminalEnds(t) ==
    /\ shell[t] \in {"dead", "waited"} ~> exited[t]
    /\ remover[t] = "kill" ~>
            shell[t] \in {"dead", "waited"} /\ ~job[t] /\ drained[t]

TerminalsEnd == \A t \in Terminals : TerminalEnds(t)
=============================================================================
