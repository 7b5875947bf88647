----------------------------- MODULE ProcessTree -----------------------------
(***************************************************************************)
(* Which processes a terminal's own are, read from /proc while they come   *)
(* and go, and the signals sent to them (terminal.rs: ProcessSnapshot,     *)
(* ProcessTracker, terminate_process, signal_process, reclaim,             *)
(* signal_pty_session).  A snapshot reads one process after another, so no *)
(* two of its lines need be of one moment; a pid may name another process  *)
(* by the time something is done to it.                                    *)
(*                                                                         *)
(* The kernel hands a freed pid on only after it has been through all      *)
(* others: not while one scan of /proc runs, and the shell's not while the *)
(* scan that follows its check runs.  It has pidfd_open, and keeps the pid *)
(* of a session that still has members.  `kin' and `strikes' are history:  *)
(* the processes that descend from the shell, and who was struck last.     *)
(***************************************************************************)
EXTENDS Naturals, FiniteSets, Sequences

CONSTANTS MaxPids,      \* pids are 1..MaxPids; the shell's is 1
          MaxStarts     \* bound: processes started after the shell

VARIABLES table,        \* pid -> its process, or Gone
          starts,       \* processes started so far: the clock of start times
          scan,         \* what a snapshot has read
          tracked,      \* identities of the processes shown to users
          shot,         \* terminate_process, once its snapshot is there
          reclaim,      \* signal_pty_session
          strikes       \* history
processVars == <<table, starts, scan, tracked, shot, reclaim, strikes>>

ProcessIds == 1..MaxPids
Gone == [start |-> 0]
\* session: pid and start of its leader; the code sees only the pid.
Process(start, parent, session, kin) ==
    [start |-> start, parent |-> parent, session |-> session, kin |-> kin]
ShellIdentity == [pid |-> 1, start |-> 1]
Running(p) == table[p] # Gone
Identity(p) == [pid |-> p, start |-> table[p].start]

NoScan == [at |-> 0, why |-> "none", read |-> [p \in ProcessIds |-> Gone], whole |-> {},
           freed |-> {}]
NoShot == [step |-> "idle"]

TreeInit ==
    /\ table = [p \in ProcessIds |-> IF p = 1 THEN Process(1, 0, ShellIdentity, TRUE) ELSE Gone]
    /\ starts = 1
    /\ scan = NoScan
    /\ tracked = {}
    /\ shot = NoShot
    /\ reclaim = "idle"
    /\ strikes = {}

-----------------------------------------------------------------------------
(* The processes themselves. *)

\* A pid may be used again when nothing refers to it.
FreePid(p) == /\ ~Running(p) /\ p \notin scan.freed
              /\ \A q \in ProcessIds : Running(q) => table[q].session.pid # p
Starts(p, process) ==
    /\ FreePid(p)
    /\ starts <= MaxStarts /\ starts' = starts + 1
    /\ table' = [table EXCEPT ![p] = process]
    /\ UNCHANGED <<scan, tracked, shot, reclaim, strikes>>

Forks(parent, p) ==
    /\ Running(parent)
    /\ Starts(p, [table[parent] EXCEPT !.start = starts + 1, !.parent = parent])
\* A process of somebody else, leader of its own session.
StartsElsewhere(p) ==
    Starts(p, Process(starts + 1, 0, [pid |-> p, start |-> starts + 1], FALSE))

\* Its children are handed to init.
ProcessExits(p) ==
    /\ Running(p)
    /\ table' = [q \in ProcessIds |-> IF q = p THEN Gone
                                      ELSE IF Running(q) /\ table[q].parent = p
                                      THEN [table[q] EXCEPT !.parent = 0] ELSE table[q]]
    /\ scan' = IF scan.at = 0 THEN scan
               ELSE [scan EXCEPT !.freed = @ \cup {p}]
    /\ UNCHANGED <<starts, tracked, shot, reclaim, strikes>>

-----------------------------------------------------------------------------
(* A snapshot. *)

\* collect_descendant_pids, ProcessSnapshot::descendants
DescendantsOf(read) ==
    LET f[k \in 0..MaxPids] ==
            IF k = 0 THEN {1}
            ELSE f[k - 1] \cup {p \in ProcessIds : read[p] # Gone /\ read[p].parent \in f[k - 1]}
    IN {p \in f[MaxPids] : read[p] # Gone}
\* Those that descend from the shell now.
Descendants == DescendantsOf(table)

\* One snapshot at a time; whole: those that descended from the shell at every
\* step so far.
StartScan(why) == /\ scan.at = 0
                  /\ scan' = [NoScan EXCEPT !.at = 1, !.why = why, !.whole = Descendants,
                                            !.freed = {1} \ {p \in {1} : Running(p)}]

\* ProcessSnapshot::read: the next pid.
ReadOne ==
    /\ scan.at \in ProcessIds
    /\ scan' = [scan EXCEPT !.read[scan.at] = table[scan.at], !.at = @ + 1,
                            !.whole = @ \cap Descendants]
    /\ UNCHANGED <<table, starts, tracked, shot, reclaim, strikes>>

Found == {[pid |-> p, start |-> scan.read[p].start] : p \in DescendantsOf(scan.read)}

\* refresh_processes: the monitor takes a snapshot for all terminals.
Refresh == StartScan("refresh") /\ UNCHANGED <<table, starts, tracked, shot, reclaim, strikes>>
Refreshed ==
    /\ scan.at > MaxPids /\ scan.why = "refresh"
    /\ tracked' = Found
    /\ scan' = NoScan
    /\ UNCHANGED <<table, starts, shot, reclaim, strikes>>

-----------------------------------------------------------------------------
(* terminate_process *)

Terminate(id) ==
    /\ shot = NoShot /\ id \in tracked
    /\ StartScan("terminate")
    /\ shot' = [step |-> "scanning", id |-> id]
    /\ UNCHANGED <<table, starts, tracked, reclaim, strikes>>

\* terminate_descendant_process: the process is still there, and the terminal's.
Find ==
    /\ scan.at > MaxPids /\ scan.why = "terminate"
    /\ scan' = NoScan
    /\ shot' = IF shot.id \in Found THEN [shot EXCEPT !.step = "found"] ELSE NoShot
    /\ UNCHANGED <<table, starts, tracked, reclaim, strikes>>

\* signal_process: pidfd_open refers to the process that has the pid now ...
Pin ==
    /\ shot.step = "found"
    /\ shot' = IF Running(shot.id.pid)
               THEN [step |-> "pinned", id |-> shot.id, pinned |-> Identity(shot.id.pid)]
               ELSE NoShot
    /\ UNCHANGED <<table, starts, scan, tracked, reclaim, strikes>>

\* ... which is checked to be the one that was meant ...
CheckPinned ==
    /\ shot.step = "pinned"
    /\ shot' = IF Running(shot.id.pid) /\ Identity(shot.id.pid) = shot.id
               THEN [shot EXCEPT !.step = "checked"] ELSE NoShot
    /\ UNCHANGED <<table, starts, scan, tracked, reclaim, strikes>>

\* ... and pidfd_send_signal strikes it if it still runs.
Strike ==
    /\ shot.step = "checked" /\ shot' = NoShot
    /\ strikes' = {[meant |-> shot.id,
                   struck |-> shot.pinned, fair |-> TRUE] :
                  p \in {p \in ProcessIds : Running(p) /\ Identity(p) = shot.pinned}}
    /\ UNCHANGED <<table, starts, scan, tracked, reclaim>>

-----------------------------------------------------------------------------
(* reclaim: everything in the terminal's session is struck, if its shell's pid *)
(* names no other process.                                                 *)

\* The shell's pid was handed on to another session, whose leader is gone.
HandedOn == ~Running(1) /\ \E p \in ProcessIds : /\ Running(p) /\ table[p].session.pid = 1
                                                 /\ table[p].session # ShellIdentity

BlindReclaim ==         \* takes the shell's pid for the shell
    /\ reclaim = "idle" /\ scan.at = 0
    /\ reclaim' = "striking" /\ StartScan("reclaim")
    /\ UNCHANGED <<table, starts, tracked, shot, strikes>>
StartReclaim ==
    /\ reclaim = "idle" /\ scan.at = 0
    /\ IF Running(1) /\ Identity(1) # ShellIdentity
       THEN reclaim' = "idle" /\ UNCHANGED scan
       ELSE /\ reclaim' = IF HandedOn THEN "mistaken" ELSE "striking"
            /\ StartScan("reclaim")
    /\ UNCHANGED <<table, starts, tracked, shot, strikes>>

StrikeNext ==
    /\ scan.at \in ProcessIds /\ scan.why = "reclaim"
    /\ LET p == scan.at
       IN strikes' = IF Running(p) /\ table[p].session.pid = 1
                     THEN {[meant |-> ShellIdentity, struck |-> table[p].session,
                            fair |-> reclaim = "striking"]}
                     ELSE {}
    /\ scan' = [scan EXCEPT !.at = @ + 1]
    /\ UNCHANGED <<table, starts, tracked, shot, reclaim>>

Reclaimed ==
    /\ scan.at > MaxPids /\ scan.why = "reclaim"
    /\ scan' = NoScan /\ reclaim' = "idle"
    /\ UNCHANGED <<table, starts, tracked, shot, strikes>>

TreeNext ==
    \/ \E p \in ProcessIds :
          \/ \E parent \in ProcessIds : Forks(parent, p)
          \/ StartsElsewhere(p)
          \/ ProcessExits(p)
    \/ Refresh \/ Refreshed
    \/ scan.why # "reclaim" /\ ReadOne
    \/ \E id \in tracked : Terminate(id)
    \/ Find \/ Pin \/ CheckPinned \/ Strike
    \/ StartReclaim \/ StrikeNext \/ Reclaimed

TreeSpec == TreeInit /\ [][TreeNext]_processVars

-----------------------------------------------------------------------------
\* A signal for one process strikes that process and no other; the signals that
\* end a terminal strike its session, unless the pid of its shell was handed on
\* to a session whose leader is gone too: terminal.rs:3744 cannot tell then.
StrikesAim == \A s \in strikes : s.fair => s.struck = s.meant

\* A snapshot taken while processes fork, exit and are handed on finds every
\* process that belongs to the terminal throughout, and none that never did.
SnapshotsTrue ==
    scan.at > MaxPids /\ scan.why # "reclaim" =>
        /\ \A p \in scan.whole : p \in DescendantsOf(scan.read)
        /\ \A p \in DescendantsOf(scan.read) : scan.read[p].kin \/ scan.read[1].start # 1

TreeSound == StrikesAim /\ SnapshotsTrue
TreeStaysSound == [][TreeSound']_processVars

-----------------------------------------------------------------------------
(***************************************************************************)
(* The long command a terminal shows as running, live or done (terminal.rs:*)
(* ForegroundCommandTracker).  Once a second the monitor looks which       *)
(* process group has the terminal; a command is worth showing once it has  *)
(* had it for a while, or has drawn a full screen.  Agents are shown by    *)
(* other means, and their reports end what was watched.                    *)
(*                                                                         *)
(* Time is the number of samples.  `watched' is history: the samples since *)
(* an agent was last there, newest first.                                  *)
(***************************************************************************)

CONSTANTS
    Groups, Names,    \* process groups and what they run
    LongRunning,      \* samples in LONG_RUNNING_COMMAND_MILLIS
    MaxSamples        \* bound

VARIABLES candidate, command, watched
foregroundVars == <<candidate, command, watched>>

NoCommand == [status |-> "none"]
Shell     == [status |-> "shell"]      \* the shell itself has the terminal

ForegroundInit == candidate = NoCommand /\ command = NoCommand /\ watched = <<>>

LeavesRunning(shown) == shown      \* a command that ended goes on
\* finish: a running command is completed, a live one is forgotten.
Finished(shown) ==
    IF candidate = NoCommand \/ shown = NoCommand THEN shown
    ELSE IF shown.name # candidate.name THEN shown
    ELSE CASE shown.status = "running" -> [shown EXCEPT !.status = "completed"]
           [] shown.status = "live"    -> NoCommand
           [] OTHER                    -> shown

\* refresh, once the candidate is known.
Shown(shown, c) ==
    LET status == IF c.live THEN "live"
                  ELSE IF c.age >= LongRunning THEN "running" ELSE "none"
    IN IF \/ status = "none"
          \/ shown # NoCommand /\ shown.name = c.name /\ shown.status = status
       THEN shown
       ELSE [status |-> status, name |-> c.name]

\* refresh: one sample, with the process group that has the terminal.
Sample(group, name, screen) ==
    LET same  == candidate # NoCommand /\ candidate.group = group
        next  == IF same THEN [candidate EXCEPT !.age = @ + 1, !.live = @ \/ screen]
                 ELSE [status |-> "candidate", group |-> group, name |-> name, age |-> 0,
                       live |-> screen]
        shown == IF same THEN command ELSE Finished(command)
    IN /\ Len(watched) < MaxSamples
       /\ candidate' = next
       /\ command' = Shown(shown, next)
       /\ watched' = <<[status |-> "job", group |-> group, name |-> name, live |-> screen]>>
                     \o watched

\* The shell has the terminal back.
AtPrompt ==
    /\ Len(watched) < MaxSamples
    /\ candidate' = NoCommand
    /\ command' = Finished(command)
    /\ watched' = <<Shell>> \o watched

\* A sample found an agent, or an agent reported (apply_agent_event).
AgentThere == candidate' = NoCommand /\ command' = NoCommand /\ watched' = <<>>

\* A group keeps its name while it has the terminal.
ForegroundNext ==
    \/ \E group \in Groups, name \in Names, screen \in BOOLEAN :
          /\ watched # <<>> /\ watched[1].status = "job" /\ watched[1].group = group =>
                watched[1].name = name
          /\ Sample(group, name, screen)
    \/ AtPrompt
    \/ AgentThere

ForegroundSpec == ForegroundInit /\ [][ForegroundNext]_foregroundVars

-----------------------------------------------------------------------------
\* Samples i (later) to j (earlier) saw one job throughout.
OneJob(i, j) == \A k \in i..j : /\ watched[k].status = "job"
                                /\ watched[k].group = watched[i].group
Drew(i, j)   == \E k \in i..j : watched[k].live
\* The job of sample i had the terminal that long, without drawing a screen.
RanLong(i)   == \E j \in i..Len(watched) : /\ j - i >= LongRunning /\ OneJob(i, j)
                                           /\ ~Drew(i, j)
WasLast(i)   == i = 1 \/ ~OneJob(i - 1, i)

\* What is shown is what was there: a running command has the terminal and has
\* had it for long, a live one has it and drew a screen, a completed one had it
\* for long and has not got it any more; and a command that qualifies is shown.
CommandTrue ==
    LET newest == watched # <<>> /\ watched[1].status = "job"
    IN /\ command.status = "running" =>
             newest /\ command.name = watched[1].name /\ RanLong(1)
       /\ command.status = "live" =>
             /\ newest /\ command.name = watched[1].name
             /\ \E j \in DOMAIN watched : OneJob(1, j) /\ Drew(1, j)
       /\ command.status = "completed" =>
             \E i \in 2..Len(watched) : /\ WasLast(i) /\ RanLong(i)
                                        /\ command.name = watched[i].name
       /\ newest /\ RanLong(1) /\ (\A j \in DOMAIN watched : OneJob(1, j) => ~Drew(1, j)) =>
             command.status = "running"
       /\ newest /\ watched[1].live => command.status = "live"
       /\ watched # <<>> /\ ~newest => command.status \in {"none", "completed"}

\* After every step.
CommandStaysTrue == [][CommandTrue']_foregroundVars
=============================================================================
