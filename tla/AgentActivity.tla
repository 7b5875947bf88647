----------------------------- MODULE AgentActivity -----------------------------
(***************************************************************************)
(* What a terminal shows of the coding agent that runs in it (terminal.rs):*)
(* the process sampler, the agent's own event reports, the input a user    *)
(* submits, a person's rename, the titles and summaries fili writes, and   *)
(* the end of the shell, all of which change the same record from their own*)
(* threads.  Times are kept as what the code compares them for: whether a  *)
(* submission is open, a task complete, a report fresh.  What the screen,  *)
(* the OSC reports and the CPU and output samples suggest is arbitrary.    *)
(* Each action is one section under the activity and info locks; a sample  *)
(* is taken, and the shell's pid checked, before them.                     *)
(***************************************************************************)
EXTENDS Naturals, FiniteSets

CONSTANTS Kinds,
          Steady,         \* kinds whose reports do not expire (codex, agy)
          Agy,            \* the kind whose dialog overrides its report
          Nobody,
          MaxRevision,    \* bound: no reports, submissions, screens beyond it
          MaxPid,         \* bound: agents started
          MaxSequence     \* bound: sequence numbers of reports

VARIABLES
    shell,        \* "running", or "exited" once exited() has said so
    process,      \* the agent in the terminal: its kind and identity, or Nobody
    pids,         \* agents started so far
    agent,        \* info.agent
    name,         \* who gave info.name: automatic, person, native, fili
    activity,     \* SessionActivity
    sample,       \* a sample of the monitor not applied yet
    roster        \* what fili has read, and what became of it since

vars == <<shell, process, pids, agent, name, activity, sample, roster>>

Statuses == {"working", "blocked", "idle", "closed"}
NoSubmission == "none"

\* A record whose status becomes s, and whether its task is complete by that.
Turned(a, s) == [a EXCEPT !.status = s, !.revision = @ + 1]
Done(a) == [a EXCEPT !.completed = TRUE, !.summary = FALSE]
Begun(a) == [Turned(a, "working") EXCEPT !.completed = FALSE, !.summary = FALSE]
NewAgent(k, s, r) == [kind |-> k, status |-> s, revision |-> r,
                      completed |-> FALSE, summary |-> FALSE]
\* A task completes: what fili has read is about an older one.
Completes(ends) == IF ends /\ roster # Nobody
                   THEN [roster EXCEPT !.moved = TRUE] ELSE roster
Drops == IF agent # Nobody /\ roster # Nobody
         THEN [roster EXCEPT !.dropped = TRUE] ELSE roster
\* Mutant: the first record is numbered zero.
FaultyNextRevision == IF agent = Nobody THEN 0 ELSE agent.revision + 1
NextRevision == IF agent = Nobody THEN 1 ELSE agent.revision + 1
Bounded == agent # Nobody => agent.revision < MaxRevision

NoNative(act) == [act EXCEPT !.native = "none", !.provider = Nobody]
NoSequence(act) == [act EXCEPT !.source = Nobody, !.last = 0]
\* Automatic names give way to a title of any kind.
Named(act, new) == IF act.automatic /\ act.title = "none" THEN new ELSE name

(***************************************************************************)
(* The world: agents start and end in the terminal, the shell exits.       *)
(***************************************************************************)
Starts == /\ process = Nobody /\ shell = "running" /\ pids < MaxPid
          /\ pids' = pids + 1
          /\ \E k \in Kinds : process' = [kind |-> k, pid |-> pids + 1]
          /\ UNCHANGED <<shell, agent, name, activity, sample, roster>>
Ends == /\ process # Nobody /\ process' = Nobody
        /\ UNCHANGED <<shell, pids, agent, name, activity, sample, roster>>

(***************************************************************************)
(* A submitted line (observe_accepted_input, begin_submission), with or    *)
(* without a prompt in it; before the monitor knows the agent, its prompt  *)
(* is held.                                                                *)
(***************************************************************************)
Submit ==
    /\ Bounded
    /\ IF agent # Nobody /\ agent.status # "closed"
       THEN \E prompt \in BOOLEAN :
            /\ prompt \/ activity.submitted
            /\ activity' = [NoNative(activity) EXCEPT !.submitted = TRUE]
            /\ agent' = IF agent.status = "working" THEN agent ELSE Begun(agent)
       ELSE /\ activity' = [activity EXCEPT !.pending = TRUE]
            /\ UNCHANGED agent
    /\ UNCHANGED <<shell, process, pids, name, sample, roster>>

Closed(act) == IF act.submitted THEN Done(Turned(agent, "closed"))
                                ELSE Turned(agent, "closed")

(***************************************************************************)
(* exited: the agent dies with the shell.                                  *)
(***************************************************************************)
Exit ==
    /\ shell = "running" /\ shell' = "exited"
    /\ process' = Nobody
    /\ IF agent # Nobody /\ agent.status # "closed"
       THEN /\ agent' = Closed(activity)
            /\ roster' = Completes(activity.submitted)
       ELSE UNCHANGED <<agent, roster>>
    /\ activity' = [activity EXCEPT !.submitted = FALSE]
    /\ UNCHANGED <<pids, name, sample>>

(***************************************************************************)
(* The monitor (refresh_process_metadata).                                 *)
(***************************************************************************)
Sample ==
    /\ sample = Nobody /\ shell = "running"
    /\ \E front \in IF process = Nobody THEN {"shell", "other"} ELSE {"other"} :
         sample' = [process |-> process, front |-> front]
    /\ UNCHANGED <<shell, process, pids, agent, name, activity, roster>>

\* expire_native_state: a blocked report never expires; a steady kind's only
\* when it is working and both the screen and a later report say it is idle.
Expired(act, outcome) ==
    IF act.native \in {"none", "blocked"} THEN {act}
    ELSE IF act.provider \in Steady /\ ~(act.native = "working" /\ outcome = "idle")
         THEN {act}
         ELSE {act, NoNative(act)}

Outcomes == {"keep", "undecided", "working", "blocked", "idle"}
\* resolve_agent_status and select_agent_status.
Resolved(act, kind, outcome, dialog) ==
    IF kind = Agy /\ act.native \notin {"idle", "closed"} /\ dialog
       /\ outcome = "blocked" THEN {"blocked"}
    ELSE IF act.native # "none" THEN {act.native}
    ELSE IF outcome = "keep" THEN {IF agent = Nobody THEN "idle" ELSE agent.status}
    ELSE IF outcome # "undecided" THEN {outcome}
    ELSE IF ~act.submitted /\ ~(agent # Nobody /\ agent.completed) THEN {"idle"}
    ELSE {"idle", "blocked", "working"}

IsNew(act, p) == \/ act.pid # p.pid
                 \/ agent = Nobody \/ agent.kind # p.kind
\* initial_agent_state: a prompt already submitted to this process makes it
\* working, or done if it has reported an idle state since.
Initial(act, p) ==
    LET r == NextRevision IN
    {[agent |-> NewAgent(p.kind, "idle", r), submitted |-> FALSE]}
    \cup IF ~act.pending THEN {}
         ELSE {[agent |-> NewAgent(p.kind, "working", r + 1), submitted |-> TRUE],
               [agent |-> Done(NewAgent(p.kind, "idle", r + 2)), submitted |-> FALSE]}

Discovers(act, p) ==    \* is_new_agent
    LET changed == act.pid # 0 /\ act.pid # p.pid
        other == agent # Nobody /\ agent.kind # p.kind
        cleared == IF changed \/ other THEN NoSequence(act) ELSE act
        fresh == [cleared EXCEPT !.pid = p.pid, !.pending = FALSE, !.title = "none"] IN
    IF act.provider = p.kind /\ ~changed /\ agent # Nobody /\ agent.kind = p.kind
    THEN /\ activity' = [fresh EXCEPT !.submitted = act.native = "working"]
         /\ name' = Named(activity', "automatic")
         /\ UNCHANGED <<agent, roster>>
    ELSE \E first \in Initial(act, p) :
         /\ agent' = first.agent
         /\ activity' = [NoNative(fresh) EXCEPT !.submitted = first.submitted]
         /\ roster' = Completes(first.agent.completed)
         /\ name' = Named(activity', "automatic")

Follows(act, p, outcome, dialog) ==
    \E next \in Resolved(act, p.kind, outcome, dialog) :
        LET resumed == act.submitted \/ next = "working"
            ends == agent.status = "working" /\ next = "idle" /\ resumed IN
        /\ agent' = IF agent.status = next THEN agent
                    ELSE IF ends THEN Done(Turned(agent, next))
                    ELSE Turned(agent, next)
        /\ roster' = Completes(ends)
        /\ activity' = [act EXCEPT !.submitted = resumed /\ ~ends]
        /\ name' = Named(activity', "automatic")

Misses(act, front) ==   \* no agent in the sample
    LET gone == IF agent = Nobody \/ agent.status = "closed" THEN agent
                ELSE Closed(act) IN
    /\ IF front = "shell"
       THEN agent' = gone /\ roster' = Completes(gone # agent /\ act.submitted)
       ELSE agent' = Nobody /\ roster' = Drops
    /\ activity' = [NoSequence(NoNative(act)) EXCEPT
                       !.pid = 0, !.submitted = FALSE,
                       !.title = IF front = "shell" THEN @ ELSE "none"]
    /\ name' = Named(activity', "automatic")

Refresh ==
    /\ sample # Nobody /\ sample' = Nobody
    /\ \E outcome \in IF Bounded THEN Outcomes ELSE {"keep"} :
       \E dialog \in IF outcome = "blocked" THEN BOOLEAN ELSE {FALSE},
          act \in Expired(activity, outcome) :
         IF sample.process = Nobody THEN Misses(act, sample.front)
         ELSE IF IsNew(act, sample.process) THEN Discovers(act, sample.process)
         ELSE Follows(act, sample.process, outcome, dialog)
    /\ UNCHANGED <<shell, process, pids>>

(***************************************************************************)
(* A report of an agent (apply_agent_event), in any order, also late.      *)
(***************************************************************************)
\* accept_native_sequence; 0 is a report without a number.
Accepts(k, n) == activity.source = k =>
                     \/ activity.last = 0
                     \/ n > activity.last
Sequenced(k, n) ==
    IF activity.source = k
    THEN [activity EXCEPT !.last = IF n = 0 THEN @ ELSE n]
    ELSE IF n = 0 THEN NoSequence(activity)
    ELSE [activity EXCEPT !.source = k, !.last = n]

Reported(k, s) ==       \* the record after a report of status s
    LET a == IF agent # Nobody /\ agent.kind = k THEN agent
             ELSE NewAgent(k, s, NextRevision) IN
    IF a.status = s THEN a
    ELSE IF s = "working" THEN Begun(a)
    ELSE IF a.status = "working" THEN Done(Turned(a, s))
    ELSE Turned(a, s)

\* Mutant: a native title does not look at who named the terminal.
FaultyTitled(act, titled) == titled
Titled(act, titled) == titled /\ act.automatic

Report(k) ==
    /\ Bounded /\ pids > 0
    /\ \E s \in Statuses, n \in 0..MaxSequence, titled \in BOOLEAN :
         LET act == Sequenced(k, n)
             a == Reported(k, s)
             took == Titled(act, titled) IN
         /\ Accepts(k, n)
         /\ agent' = a
         /\ roster' = Completes(/\ agent # Nobody /\ agent.kind = k
                                /\ agent.status = "working" /\ s # "working")
         /\ activity' = [act EXCEPT
               !.native = s, !.provider = k,
               !.submitted = CASE s = "working" -> TRUE
                               [] s = "blocked" -> @
                               [] OTHER -> FALSE,
               !.title = IF took THEN "native" ELSE @]
         /\ name' = IF took THEN "native" ELSE name
    /\ UNCHANGED <<shell, process, pids, sample>>

(***************************************************************************)
(* rename by a person, and fili: it reads the roster, and writes later.    *)
(***************************************************************************)
Rename ==
    /\ name' = "person"
    /\ activity' = [activity EXCEPT !.automatic = FALSE, !.title = "none"]
    /\ UNCHANGED <<shell, process, pids, agent, sample, roster>>
ReadRoster ==
    /\ roster = Nobody /\ agent # Nobody
    /\ roster' = [revision |-> agent.revision, moved |-> FALSE, dropped |-> FALSE]
    /\ UNCHANGED <<shell, process, pids, agent, name, activity, sample>>
FiliName ==
    /\ roster # Nobody /\ roster' = Nobody
    /\ IF activity.automatic /\ activity.title = "none" /\ agent # Nobody
       THEN name' = "fili" /\ activity' = [activity EXCEPT !.title = "fili"]
       ELSE UNCHANGED <<name, activity>>
    /\ UNCHANGED <<shell, process, pids, agent, sample>>

\* Mutant: the revision of the roster is not compared.
FaultyMovedOn == FALSE
MovedOn == agent.revision # roster.revision
FiliSummary ==
    /\ roster # Nobody /\ roster' = Nobody
    /\ agent' = IF agent # Nobody /\ ~MovedOn /\ ~agent.summary /\ agent.completed
                THEN [agent EXCEPT !.summary = TRUE] ELSE agent
    /\ UNCHANGED <<shell, process, pids, name, activity, sample>>

Init ==
    /\ shell = "running" /\ process = Nobody /\ pids = 0 /\ agent = Nobody
    /\ name \in {"automatic", "person"}
    /\ activity = [automatic |-> name = "automatic", title |-> "none", pid |-> 0,
                   submitted |-> FALSE, pending |-> FALSE, native |-> "none",
                   provider |-> Nobody, source |-> Nobody, last |-> 0]
    /\ sample = Nobody /\ roster = Nobody

Next == \/ Starts \/ Ends \/ Submit \/ Exit \/ Sample \/ Refresh
        \/ Rename \/ ReadRoster \/ FiliName \/ FiliSummary
        \/ \E k \in Kinds : Report(k)

Spec == Init /\ [][Next]_vars

Agents == [kind : Kinds, status : Statuses, revision : Nat \ {0},
           completed : BOOLEAN, summary : BOOLEAN]
TypeOK ==
    /\ agent \in Agents \cup {Nobody}
    /\ activity.native \in Statuses \cup {"none"}
    /\ activity.title \in {"none", "native", "fili"}
    /\ activity.last \in 0..MaxSequence

\* A name belongs to who gave it last, by rank: a person's is never replaced,
\* an agent's own title not by fili, a title not by the program's name, in
\* whatever order the sampler, the reports, fili and the person get the locks
\* (the comments of apply_fili_name, apply_agent_event and rename).
NamesOwned ==
    /\ ~activity.automatic <=> name = "person"
    /\ activity.automatic /\ activity.title # "none" => name = activity.title

\* A summary describes the last completed task of the record it is shown with:
\* fili's answer to an old roster is refused, however late it comes, while the
\* record lives (apply_fili_summary; a record dropped when another program ran
\* starts its revisions anew, see roster.dropped).
SummaryFresh ==
    [][roster # Nobody /\ roster' = Nobody /\ agent' # agent
          => ~roster.moved \/ roster.dropped]_vars

\* While a record lives every change of its kind, status or completion raises
\* its revision, which is all that fili and the browsers compare.
RevisionsTell ==
    [][agent # Nobody /\ agent' # Nobody =>
          /\ agent'.revision >= agent.revision
          /\ \/ agent'.kind # agent.kind \/ agent'.status # agent.status
             \/ agent'.completed # agent.completed
             => agent'.revision > agent.revision]_vars

AgentSound == []NamesOwned /\ SummaryFresh /\ RevisionsTell

\* The comment of exited: "This is the last chance to say so"; after it an agent
\* is closed, and not shown as at work for ever (terminal.rs:2238).
ClosedWithShell ==
    shell = "exited" /\ agent # Nobody => agent.status = "closed"
=============================================================================
