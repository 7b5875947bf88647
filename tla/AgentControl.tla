----------------------------- MODULE AgentControl -----------------------------
(***************************************************************************)
(* Agents in a controlling terminal act on other terminals through the     *)
(* control socket (terminal_control.rs: handle_connection, authorize,      *)
(* execute; access_cli's side of it: run_cli), while the user changes what *)
(* is shared and terminals come and go.  A call takes a listing, is checked*)
(* against it and the settings of the moment, lets the workspace act, and  *)
(* notes what was done; other calls and the user move between these steps. *)
(*                                                                         *)
(* The agents live in the terminal Home, but a call names the terminal it  *)
(* claims to come from; is_terminal_descendant knows better.  What a read  *)
(* returns is left out, and the settings' file is in TerminalControl.      *)
(* `during' is history: what held at some moment of a call.                *)
(***************************************************************************)
EXTENDS Naturals, Sequences, SequencesExt

CONSTANTS AgentCalls, ControlTerminals, Home,
          Newborn,              \* the id of the next terminal to be created
          MaxActivity,        \* MAX_ACTIVITY_PER_TERMINAL
          Beside,             \* calls that disturb the others, and are not
                              \* themselves told apart by what held during them
          MaxControlSteps     \* bound: steps of the user and of terminals' lives

VARIABLES open, exposure, creator, controller, default, told, activity,
          calls, during, done, controlSteps
controlVars == <<open, exposure, creator, controller, default, told, activity,
                 calls, during, done, controlSteps>>

Levels == {"off", "read", "write"}
Allows(level, need) == level = "write" \/ level = need
Absent == Home          \* a creator that is no call: nobody created it
Targeted == {"read", "write", "kill", "close"}
\* The commands by what they need and do: "read" stands for Screen, Scrollback,
\* Transcript and Processes, "write" for Send, Rename and Terminate; "tabs" and
\* "close" ask the browsers.  A listing names the terminal it is about.
Commands == Targeted \cup {"terminals", "tabs", "create"}
Needed(command) == IF command = "read" THEN "read" ELSE "write"

NoCommand == [at |-> "idle", command |-> "none", target |-> Home, claim |-> Home,
              listing |-> {}, shown |-> FALSE, exit |-> "none"]
NothingYet == [controller |-> {}, home |-> {}, level |-> {}]

ControlInit ==
    /\ open = ControlTerminals \ {Newborn}
    /\ \E e \in {"default", "read"} :
          exposure = [t \in ControlTerminals |-> IF t \in {Home, Newborn} THEN "default" ELSE e]
    /\ creator = [t \in ControlTerminals |-> Absent]
    /\ controller = TRUE
    /\ default \in {"off", "write"}
    /\ told = {}                 \* terminals of which reads are noted
    /\ activity = [t \in ControlTerminals |-> <<>>]
    /\ calls = [a \in AgentCalls |-> NoCommand]
    /\ during = [a \in AgentCalls |-> NothingYet]
    /\ done = [a \in AgentCalls |-> FALSE]
    /\ controlSteps = 0

\* exposure: in effect for a terminal.
Exposure(t) == IF exposure[t] = "default" THEN default ELSE exposure[t]

\* target: what a call that needs a level is told of a terminal.
UnlistedTarget(t, listing, need) ==      \* forgets the level that is needed
    IF t \notin listing \/ Exposure(t) = "off" THEN "not shared" ELSE "ok"
Target(t, listing, need) ==
    IF t \notin listing \/ Exposure(t) = "off" THEN "not shared"
    ELSE IF ~Allows(Exposure(t), need) THEN "read only"
    ELSE "ok"

\* authorize, after its listing has come.
Authorized(call) ==
    IF call.claim # Home \/ Home \notin call.listing THEN "unauthorized"
    ELSE IF ~controller THEN "disabled"
    ELSE "ok"

\* Whether a listing shows the terminal: shown says so of the call's target.
Visible(call) == Target(call.target, call.listing, "read") = "ok"

Denials == {"unauthorized", "disabled", "not shared", "read only"}
Set(a, call) == calls' = [calls EXCEPT ![a] = call]
\* run_cli exits with 0, 126 when refused, 125 otherwise: also when it stopped
\* waiting for the answer (CONTROL_RESPONSE_TIMEOUT).
Exits(a, call, answer) ==
    \E heard \in {answer} \cup (IF a \in Beside THEN {} ELSE {"failed"}) :
        Set(a, [call EXCEPT !.at = "answered", !.exit = heard])

Asks(a, command, target, claim) ==
    /\ calls[a].at = "idle"
    /\ Set(a, [NoCommand EXCEPT !.at = "asked", !.command = command,
                                !.target = target, !.claim = claim])
    /\ done' = [done EXCEPT ![a] = FALSE]
    /\ UNCHANGED <<open, exposure, creator, controller, default, told, activity>>

\* The workspace answers with a listing.
Lists(a) ==
    /\ calls[a].at = "asked"
    /\ Set(a, [calls[a] EXCEPT !.at = "listed", !.listing = open])
    /\ UNCHANGED <<open, exposure, creator, controller, default, told, activity, done>>

\* authorize and, for a command that names a terminal, target.
Verdict(call) ==
    IF Authorized(call) # "ok" THEN Authorized(call)
    ELSE IF call.command \in Targeted \ {"close"}
    THEN Target(call.target, call.listing, Needed(call.command))
    ELSE "ok"

\* execute: up to the first await of the command.
Checked(a) ==
    LET call == calls[a]
    IN /\ call.at = "listed"
       /\ IF Verdict(call) # "ok" THEN Exits(a, call, Verdict(call))
          ELSE IF call.command = "terminals"
          THEN Exits(a, [call EXCEPT !.shown = call.target = Home \/ Visible(call)], "ok")
          ELSE Set(a, [call EXCEPT !.at = "acting"])
       /\ UNCHANGED <<open, exposure, creator, controller, default, told, activity, done>>

\* The browsers have answered: which tabs may be seen, whether one may be closed.
LooksAtTabs(a) ==
    LET call == calls[a]
        verdict == Target(call.target, call.listing, "write")
    IN /\ call.at = "acting"
       /\ \/ /\ call.command = "tabs"
             /\ Exits(a, [call EXCEPT !.shown = Visible(call)], "ok")
          \/ /\ call.command = "close"
             /\ IF verdict = "ok" THEN Set(a, [call EXCEPT !.at = "closing"])
                ELSE Exits(a, call, verdict)
       /\ UNCHANGED <<open, exposure, creator, controller, default, told, activity, done>>

\* The workspace, or a browser, does what is asked, or cannot: its terminal is
\* gone, or it cannot be reached, in which case it may have acted all the same.
Acts(a) ==
    LET call == calls[a]
        able == call.target \in open
    IN /\ call.at = IF call.command = "close" THEN "closing" ELSE "acting"
       /\ call.command \in Targeted
       /\ \/ /\ able
             /\ done' = [done EXCEPT ![a] = TRUE]
             /\ open' = IF call.command = "kill" THEN open \ {call.target} ELSE open
             /\ \E reached \in BOOLEAN :
                   IF reached THEN Set(a, [call EXCEPT !.at = "done"])
                   ELSE Exits(a, call, "failed")
          \/ Exits(a, call, "failed") /\ UNCHANGED <<open, done>>
       /\ UNCHANGED <<exposure, creator, controller, default, told, activity>>

Kept(log, a) == IF Len(log) >= MaxActivity THEN Append(Tail(log), a) ELSE Append(log, a)
UnkeptNote(a, t) == activity' = activity
\* record_action
Note(a, t) == activity' = [activity EXCEPT ![t] = Kept(@, a)]

\* forget: of a terminal that was removed.
Forgets(t) == /\ exposure' = [exposure EXCEPT ![t] = "default"]
              /\ creator' = [creator EXCEPT ![t] = Absent]
              /\ activity' = [activity EXCEPT ![t] = <<>>]
              /\ told' = told \ {t}

\* record_read, record_action or forget, and the answer.
Records(a) ==
    LET call == calls[a]
        t    == call.target
    IN /\ call.at = "done"
       /\ Exits(a, call, "ok")
       /\ CASE call.command = "read" -> /\ told' = told \cup {t}
                                        /\ UNCHANGED <<exposure, creator, activity>>
            [] call.command = "kill" -> Forgets(t)
            [] OTHER -> Note(a, t) /\ UNCHANGED <<exposure, creator, told>>
       /\ UNCHANGED <<open, controller, default, done>>

\* Create: the workspace opens a terminal ...
Opens(a) ==
    LET call == calls[a]
    IN /\ call.at = "acting" /\ call.command = "create"
       /\ \/ /\ call.target \notin open
             /\ open' = open \cup {call.target}
             /\ Set(a, [call EXCEPT !.at = "opened"])
             /\ done' = [done EXCEPT ![a] = TRUE]
          \/ Exits(a, call, "failed") /\ UNCHANGED <<open, done>>
       /\ UNCHANGED <<exposure, creator, controller, default, told, activity>>

\* ... its settings are saved and it is noted, or, when they cannot be saved, it
\* is removed again; that the removal fails too, nobody is told.
Shares(a) ==
    LET call == calls[a]
        t    == call.target
    IN /\ call.at = "opened"
       /\ \/ /\ exposure' = [exposure EXCEPT ![t] = "write"]
             /\ creator' = [creator EXCEPT ![t] = a]
             /\ Note(a, t)
             /\ Exits(a, call, "ok")
             /\ UNCHANGED <<open, done>>
          \/ /\ \/ open' = open \ {t} /\ done' = [done EXCEPT ![a] = FALSE]
                \/ UNCHANGED <<open, done>>
             /\ Exits(a, call, "failed")
             /\ UNCHANGED <<exposure, creator, activity>>
       /\ UNCHANGED <<controller, default, told>>

\* The user, in the Access panel of a terminal that is there, and in the settings.
UserExposes ==
    /\ \/ /\ \E t \in open, e \in Levels \cup {"default"} :
                exposure' = [exposure EXCEPT ![t] = e]
          /\ UNCHANGED <<controller, default>>
       \/ /\ Home \in open /\ controller' = ~controller
          /\ UNCHANGED <<exposure, default>>
       \/ /\ \E e \in Levels : default' = e
          /\ UNCHANGED <<exposure, controller>>
    /\ UNCHANGED <<open, creator, told, activity, calls, done>>

\* The user removes a terminal, and what is kept of it goes (delete_terminal).
UserRemoves ==
    /\ \E t \in open : /\ open' = open \ {t}
                       /\ Forgets(t)
                       /\ controller' = (controller /\ t # Home)
    /\ UNCHANGED <<default, calls, done>>

Steps == \/ \E a \in AgentCalls :
              \/ Lists(a) \/ Checked(a) \/ LooksAtTabs(a) \/ Acts(a) \/ Records(a)
              \/ Opens(a) \/ Shares(a)

\* The level of a terminal after a step.
LevelOf(t) == IF t \notin open' THEN "missing"
              ELSE IF exposure'[t] = "default" THEN default' ELSE exposure'[t]

\* A call for creation names the terminal it will get.
ControlNext ==
    /\ \/ \E a \in AgentCalls, command \in Commands, t \in ControlTerminals,
             claim \in ControlTerminals :
             /\ command = "create" => t = Newborn /\ \A c \in AgentCalls : calls[c].command # "create"
             /\ t # Home
             /\ a \in Beside => command \in {"kill", "create"}
             /\ claim = Home \/ (command = "write" /\ t = claim)
             /\ Asks(a, command, t, claim)
             /\ controlSteps' = controlSteps
       \/ Steps /\ controlSteps' = controlSteps
       \/ /\ UserExposes \/ UserRemoves
          /\ controlSteps < MaxControlSteps /\ controlSteps' = controlSteps + 1
    /\ during' = [a \in AgentCalls |->
                    CASE calls'[a].at = "idle" \/ a \in Beside -> NothingYet
                      [] calls'[a].at = "answered" /\ calls[a].at = "answered" -> during[a]
                      [] OTHER -> [controller |-> during[a].controller \cup {controller'},
                                   home  |-> during[a].home \cup {Home \in open'},
                                   level |-> during[a].level \cup {LevelOf(calls'[a].target)}]]

ControlSpec == ControlInit /\ [][ControlNext]_controlVars

-----------------------------------------------------------------------------
\* What an agent did to a terminal, or read of it, its user's settings allowed at
\* some moment of the call; and it is told of a refusal only for a reason that
\* held then, so that a terminal hidden throughout cannot be told from a missing
\* one, and one shared throughout is never refused.
CallsExplained ==
    \A a \in AgentCalls \ Beside :
        LET call == calls[a]
            was  == during[a]
            of   == was.level
        IN /\ done[a] => /\ TRUE \in was.controller /\ call.claim = Home
                         /\ call.command \in Targeted =>
                               \E l \in of \cap Levels : Allows(l, Needed(call.command))
           /\ call.shown /\ call.target # Home => of \cap {"read", "write", "missing"} # {}
           /\ call.exit = "unauthorized" => call.claim # Home \/ FALSE \in was.home
           /\ call.exit = "disabled"     => FALSE \in was.controller
           /\ call.exit = "not shared"   => of \cap {"missing", "off"} # {}
           /\ call.exit = "read only"    => of \cap {"missing", "read"} # {}

\* The exit code tells the agent the truth: what was refused was not done, and
\* what it is told was done was done.
ExitsTrue ==
    \A a \in AgentCalls :
        calls[a].at = "answered" =>
            /\ calls[a].exit \in Denials => ~done[a]
            /\ calls[a].exit = "ok" /\ calls[a].command \in Targeted \cup {"create"} => done[a]

\* The user can see the last calls that changed a terminal, or that it was read,
\* for as long as it is there.
CallsNoted ==
    \A a \in AgentCalls \ Beside :
        LET call == calls[a]
            t    == call.target
        IN call.at = "answered" /\ call.exit = "ok" /\ t \in open =>
              /\ call.command = "read" => t \in told
              /\ call.command \in {"write", "close", "create"} =>
                    \/ \E i \in DOMAIN activity[t] : activity[t][i] = a
                    \/ Len(activity[t]) = MaxActivity
              /\ call.command = "create" => creator[t] = a

ControlSound == CallsExplained /\ ExitsTrue /\ CallsNoted
=============================================================================
