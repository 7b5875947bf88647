---------------------------- MODULE TerminalControl ----------------------------
(***************************************************************************)
(* What the user lets agents do with terminals and browser tabs            *)
(* (terminal_control.rs): the exposure settings, and the tabs that agents  *)
(* close.  The two share no state.                                         *)
(***************************************************************************)
EXTENDS Naturals, FiniteSets, Functions

-----------------------------------------------------------------------------
(***************************************************************************)
(* The exposure settings of terminals (terminal_control.rs): the user's    *)
(* and controlling agents' changes, their file, and the pruning of what is *)
(* kept about terminals that are no longer listed.  A setting equal to     *)
(* the default is not stored; its value (exposure, controller, creator) is *)
(* a member of Choices.  Every change holds the settings' write lock over  *)
(* the write of the file; retain takes its locks one after another and     *)
(* runs on several threads.  Ages count periods of PRUNE_GRACE / Grace; a  *)
(* call of retain reads the clock just before it locks the ages, and here  *)
(* with them.                                                              *)
(***************************************************************************)
CONSTANTS Terminals,
          Drained,    \* terminals of draining brokers: a listing may omit them
          Choices,    \* settings other than the default
          Default,    \* no setting of its own
          Shared,     \* what an agent's new terminal gets (read and write)
          Agents,     \* control connections creating terminals
          Threads,    \* concurrent calls of retain
          NoTarget,
          Grace       \* PRUNE_GRACE in periods

ASSUME SettingsAssumption ==
    /\ Grace \in Nat \ {0} /\ Shared \in Choices
    /\ NoTarget \notin Terminals

VARIABLES
    present,       \* terminals of the workspace
    born,          \* terminals created so far
    settings,      \* terminal -> its choice, where it has one
    observations,  \* terminals with recorded reads or activity
    missing,       \* missing_since: terminal -> its age, up to Grace
    disk, rogue,   \* the file, and a refused change that had reached it
    checked,       \* a call that found its terminal in a listing: that one
    agent,         \* agent -> the terminal it created and has not yet shared
    retain,        \* thread -> where its call is
    seen           \* history: terminal -> age of the last listing with it

settingsVars == <<present, born, settings, observations, missing, disk, rogue,
                  checked, agent, retain, seen>>

NotRetaining == [at |-> "idle", live |-> {}, known |-> {}, expired |-> {}]
Chosen(t, c, f) == [x \in IF c = Default THEN DOMAIN f \ {t}
                                         ELSE DOMAIN f \cup {t} |->
                       IF x = t THEN c ELSE f[x]]
Older(a) == IF a < Grace THEN a + 1 ELSE a

\* persist_settings, then the memory: a write that fails leaves the memory,
\* and the file too unless only the directory's last flush failed.
\* Mutant: the memory changes first.
FaultyStore(f) == /\ settings' = f
                  /\ \/ disk' = f /\ rogue' = rogue
                     \/ UNCHANGED <<disk, rogue>>
Store(f) == \/ settings' = f /\ disk' = f /\ rogue' = rogue
            \/ UNCHANGED <<settings, disk, rogue>>
            \/ UNCHANGED settings /\ disk' = f /\ rogue' = f

Saved(f) == settings' = f
Modify(f) == IF f = settings THEN UNCHANGED <<settings, disk, rogue>>
             ELSE Store(f)

(***************************************************************************)
(* The user changes a setting: the terminal is looked up first, and may be *)
(* gone when the change is made.                                           *)
(***************************************************************************)
RequireTerminal ==
    /\ checked = NoTarget
    /\ \E t \in present : checked' = t
    /\ UNCHANGED <<present, born, settings, observations, missing, disk, rogue,
                   agent, retain, seen>>
UpdateSettings ==
    /\ checked # NoTarget /\ checked' = NoTarget
    /\ \E c \in Choices \cup {Default} : Modify(Chosen(checked, c, settings))
    /\ UNCHANGED <<present, born, observations, missing, agent, retain, seen>>

\* A read or an action of an agent, on a terminal its listing showed (target),
\* is recorded once the workspace has answered.
Record ==
    /\ checked # NoTarget /\ checked' = NoTarget
    /\ observations' = observations \cup {checked}
    /\ UNCHANGED <<present, born, settings, missing, disk, rogue, agent, retain,
                   seen>>

\* ControlCommand::Create: the terminal first, then its settings; a change
\* that cannot be stored takes the terminal back, if the workspace can.
AgentCreates(a) ==
    /\ agent[a] = NoTarget
    /\ \E t \in Terminals \ born :
         /\ born' = born \cup {t} /\ present' = present \cup {t}
         /\ agent' = [agent EXCEPT ![a] = t]
    /\ UNCHANGED <<settings, observations, missing, disk, rogue, checked,
                   retain, seen>>
AgentShares(a) ==
    /\ agent[a] # NoTarget /\ agent' = [agent EXCEPT ![a] = NoTarget]
    /\ LET f == Chosen(agent[a], Shared, settings) IN
         /\ Modify(f)
         /\ IF Saved(f)
            THEN /\ observations' = observations \cup {agent[a]}
                 /\ UNCHANGED present
            ELSE /\ present' \in {present, present \ {agent[a]}}
                 /\ UNCHANGED observations
    /\ UNCHANGED <<born, missing, checked, retain, seen>>

\* A terminal is removed or killed through the server, and forgotten.
RemoveTerminal(t) ==
    /\ t \in present /\ present' = present \ {t}
    /\ observations' = observations \ {t}
    /\ Modify(Chosen(t, Default, settings))
    /\ UNCHANGED <<born, missing, checked, agent, retain, seen>>

\* The workspace changes by itself: a user's terminal, one lost or pruned.
TerminalOpens ==
    /\ \E t \in Terminals \ born : /\ born' = born \cup {t}
                                   /\ present' = present \cup {t}
    /\ UNCHANGED <<settings, observations, missing, disk, rogue, checked, agent,
                   retain, seen>>
Vanishes(t) ==
    /\ t \in present /\ present' = present \ {t}
    /\ UNCHANGED <<born, settings, observations, missing, disk, rogue, checked,
                   agent, retain, seen>>

(***************************************************************************)
(* retain, called with every listing a browser or an agent asks for.       *)
(***************************************************************************)
Retaining(k, r) == retain' = [retain EXCEPT ![k] = r]
Lists(k) ==
    /\ retain[k] = NotRetaining
    /\ \E S \in SUBSET (Drained \cap present) :
         Retaining(k, [NotRetaining EXCEPT !.at = "called",
                                           !.live = present \ S])
    /\ UNCHANGED <<present, born, settings, observations, missing, disk, rogue,
                   checked, agent, seen>>

ReadsSettings(k) ==
    /\ retain[k].at = "called"
    /\ Retaining(k, [retain[k] EXCEPT
                         !.at = "observing",
                         !.known = DOMAIN settings \ retain[k].live])
    /\ UNCHANGED <<present, born, settings, observations, missing, disk, rogue,
                   checked, agent, seen>>
\* Mutant: what was only observed is not looked for.
FaultyObserved(live) == {}
Observed(live) == observations \ live
ReadsObservations(k) ==
    /\ retain[k].at = "observing"
    /\ Retaining(k, [retain[k] EXCEPT
                         !.at = "ages",
                         !.known = @ \cup Observed(retain[k].live)])
    /\ UNCHANGED <<present, born, settings, observations, missing, disk, rogue,
                   checked, agent, seen>>

\* Mutant: a terminal that is listed again keeps its old age.
FaultyStillMissing(live) == DOMAIN missing
StillMissing(live) == DOMAIN missing \ live

Ages(k) ==
    LET r == retain[k]
        age == [t \in StillMissing(r.live) \cup r.known |->
                   IF t \in StillMissing(r.live) THEN missing[t] ELSE 0]
        expired == {t \in r.known : age[t] >= Grace} IN
    /\ r.at = "ages"
    /\ missing' = age
    /\ seen' = [t \in Terminals |-> IF t \in r.live THEN 0 ELSE seen[t]]
    /\ Retaining(k, IF expired = {} THEN NotRetaining
                    ELSE [r EXCEPT !.at = "observations", !.expired = expired])
    /\ UNCHANGED <<present, born, settings, observations, disk, rogue, checked,
                   agent>>

DropObservations(k) ==
    /\ retain[k].at = "observations"
    /\ observations' = observations \ retain[k].expired
    /\ Retaining(k, [retain[k] EXCEPT !.at = "settings"])
    /\ UNCHANGED <<present, born, settings, missing, disk, rogue, checked,
                   agent, seen>>

DropSettings(k) ==
    LET r == retain[k]
        f == Restrict(settings, DOMAIN settings \ r.expired) IN
    /\ r.at = "settings"
    /\ Modify(f)
    /\ Retaining(k, IF Saved(f) THEN [r EXCEPT !.at = "missing"]
                    ELSE NotRetaining)
    /\ UNCHANGED <<present, born, observations, missing, checked, agent, seen>>

DropMissing(k) ==
    /\ retain[k].at = "missing"
    /\ missing' = Restrict(missing, DOMAIN missing \ retain[k].expired)
    /\ Retaining(k, NotRetaining)
    /\ UNCHANGED <<present, born, settings, observations, disk, rogue, checked,
                   agent, seen>>

Retain(k) == Lists(k) \/ ReadsSettings(k) \/ ReadsObservations(k)
                 \/ Ages(k) \/ DropObservations(k) \/ DropSettings(k)
                 \/ DropMissing(k)

Passes ==
    /\ missing' = [t \in DOMAIN missing |-> Older(missing[t])]
    /\ seen' = [t \in Terminals |-> Older(seen[t])]
    /\ UNCHANGED <<present, born, settings, observations, disk, rogue, checked,
                   agent, retain>>

\* The server restarts: load_settings reads the file, the rest is gone.
Restarts ==
    /\ settings' = disk /\ rogue' = disk
    /\ observations' = {} /\ missing' = <<>> /\ checked' = NoTarget
    /\ agent' = [a \in Agents |-> NoTarget]
    /\ retain' = [k \in Threads |-> NotRetaining]
    /\ UNCHANGED <<present, born, disk, seen>>

SettingsInit ==
    /\ present = {} /\ born = {} /\ settings = <<>> /\ observations = {}
    /\ missing = <<>> /\ disk = <<>> /\ rogue = <<>> /\ checked = NoTarget
    /\ agent = [a \in Agents |-> NoTarget]
    /\ retain = [k \in Threads |-> NotRetaining]
    /\ seen = [t \in Terminals |-> 0]

SettingsNext ==
    \/ RequireTerminal \/ UpdateSettings \/ Record \/ TerminalOpens
    \/ Passes \/ Restarts
    \/ \E a \in Agents : AgentCreates(a) \/ AgentShares(a)
    \/ \E t \in Terminals : RemoveTerminal(t) \/ Vanishes(t)
    \/ \E k \in Threads : Retain(k)

\* The sidebar keeps asking for listings, and a call of retain runs to its end;
\* the file can be written now and then.
SettingsFairness ==
    /\ \A k \in Threads :
          /\ WF_settingsVars(Retain(k))
          /\ SF_settingsVars(DropSettings(k) /\ settings' # settings)
    /\ WF_settingsVars(Passes)
SettingsSpec == /\ SettingsInit /\ [][SettingsNext]_settingsVars
                /\ SettingsFairness

Settings == UNION {[D -> Choices] : D \in SUBSET Terminals}
SettingsTypeOK ==
    /\ present \subseteq born /\ born \subseteq Terminals
    /\ {settings, disk, rogue} \subseteq Settings
    /\ observations \subseteq born
    /\ missing \in UNION {[D -> 0..Grace] : D \in SUBSET Terminals}
    /\ \A k \in Threads : retain[k].expired \subseteq retain[k].known

\* The memory and the file never differ but by a change that was refused
\* although it had reached the file: a restart brings back what was answered,
\* or that (persist_settings before the assignment, in modify, forget, retain).
FileMatches == disk \in {settings, rogue}

\* retain gives up on a terminal only when every listing of the whole grace
\* period left it out, whichever calls, changes and restarts interleave: a
\* draining broker that is silent for less costs its terminals nothing.
GraceKept ==
    [][\A k \in Threads :
          retain[k].at = "ages" /\ retain'[k].at = "observations" =>
              \A t \in retain'[k].expired : seen[t] >= Grace]_settingsVars

SettingsSound == []FileMatches /\ GraceKept

\* What is kept about a terminal that is gone is dropped in the end, also when
\* writes of the file fail on the way, unless the server restarts for ever.
DeadAreForgotten ==
    \/ []<><<Restarts>>_settingsVars
    \/ \A t \in Terminals :
           t \in born \ present ~> t \notin DOMAIN settings \cup observations

-----------------------------------------------------------------------------
(***************************************************************************)
(* Browser tabs closed by agents (BrowserTabRegistry in terminal_control.rs*)
(* and the heartbeat of client/App.tsx).  A page tells the server once a   *)
(* second which surfaces it shows; an agent's close command waits in the   *)
(* record of that page's view until a heartbeat fetches it, the page       *)
(* decides, applies and acknowledges, or the agent's six seconds are over. *)
(* A tab's id is a hash of its view, kind and target, so it is the pair    *)
(* <<view, target>> here.  A close call is its own command id.  Every page *)
(* has a view of its own.  Requests and answers between page and server may*)
(* be lost or late; a page has at most one heartbeat or acknowledgement    *)
(* under way, and one from before a reload may still arrive.               *)
(***************************************************************************)
CONSTANTS Views, Targets,
          Dirtiable,    \* targets that are resources, which may have edits
          Calls,        \* close commands of agents
          MaxViews      \* MAX_BROWSER_VIEWS

ASSUME BrowserTabsAssumption == Dirtiable \subseteq Targets /\ MaxViews \in Nat

VARIABLES
    page,     \* view -> what its page shows, and where its heartbeat is
    late,     \* view -> snapshots sent by a page that was reloaded since
    views,    \* the registry: view -> its record
    call,     \* close call -> where it is
    decided   \* history: commands a page has applied

vars == <<page, late, views, call, decided>>

NewPage == [open |-> {}, dirty |-> {}, at |-> "idle", sent |-> {},
            commands |-> {}, ack |-> {}]
NoCall == [at |-> "none"]
Shown(p) == [open |-> p.open, dirty |-> p.dirty]
Snapshots == {[open |-> o, dirty |-> d] : o \in SUBSET Targets,
                                          d \in SUBSET Dirtiable}
\* Records whose page has been silent for BROWSER_VIEW_LEASE go, and with them
\* the senders of the calls that wait for an answer.
Pruned == Restrict(views, {v \in DOMAIN views : ~views[v].stale})

(***************************************************************************)
(* The page.                                                               *)
(***************************************************************************)
Opens(v, t) == /\ t \notin page[v].open
               /\ page' = [page EXCEPT ![v].open = @ \cup {t}]
               /\ UNCHANGED <<late, views, call, decided>>
Closes(v, t) == /\ t \in page[v].open
                /\ page' = [page EXCEPT ![v].open = @ \ {t}, ![v].dirty = @ \ {t}]
                /\ UNCHANGED <<late, views, call, decided>>
Edits(v, t) == /\ t \in page[v].open \cap Dirtiable
               /\ page' = [page EXCEPT ![v].dirty = IF t \in @ THEN @ \ {t}
                                                    ELSE @ \cup {t}]
               /\ UNCHANGED <<late, views, call, decided>>

SendHeartbeat(v) ==
    /\ page[v].at = "idle"
    /\ page' = [page EXCEPT ![v].at = "sent", ![v].sent = {Shown(page[v])}]
    /\ UNCHANGED <<late, views, call, decided>>

\* A request is lost.
Fails(v) ==
    /\ page[v].at \in {"sent", "acking"}
    /\ page' = [page EXCEPT ![v].at = IF @ = "acking" THEN "applying" ELSE "idle",
                            ![v].sent = {}, ![v].ack = {}]
    /\ UNCHANGED <<late, views, call, decided>>

\* applyBrowserTabCommand: what the page shows now decides, not what the
\* heartbeat showed; closing what is not open is a success.
Decision(p, t) == IF t \in p.dirty THEN "refused" ELSE "closed"
\* Mutant: the page trusts the check the server made on the last snapshot.
FaultyApply(v, c) ==
    /\ page[v].at = "applying" /\ c \in page[v].commands
    /\ page' = [page EXCEPT ![v].commands = @ \ {c}, ![v].at = "acking",
                            ![v].open = @ \ {call[c].target},
                            ![v].ack = {[command |-> c, verdict |-> "closed"]}]
    /\ decided' = decided
    /\ UNCHANGED <<late, views, call>>
Apply(v, c) ==
    LET t == call[c].target
        verdict == Decision(page[v], t) IN
    /\ page[v].at = "applying" /\ c \in page[v].commands
    /\ page' = [page EXCEPT ![v].commands = @ \ {c}, ![v].at = "acking",
                            ![v].open = IF verdict = "closed" THEN @ \ {t} ELSE @,
                            ![v].ack = {[command |-> c, verdict |-> verdict]}]
    /\ decided' = IF verdict = "closed" THEN decided \cup {c} ELSE decided
    /\ UNCHANGED <<late, views, call>>
HeartbeatDone(v) ==
    /\ page[v].at = "applying" /\ page[v].commands = {}
    /\ page' = [page EXCEPT ![v].at = "idle"]
    /\ UNCHANGED <<late, views, call, decided>>

\* The page is reloaded; its view id survives in the session's storage, and
\* what it had sent may still arrive.
Reload(v) ==
    /\ page[v] # NewPage
    /\ page' = [page EXCEPT ![v] = NewPage]
    /\ late' = [late EXCEPT ![v] = page[v].sent]
    /\ UNCHANGED <<views, call, decided>>

(***************************************************************************)
(* The server.                                                             *)
(***************************************************************************)
\* Time passes without a heartbeat of the view.
Lapses(v) == /\ v \in DOMAIN views /\ ~views[v].stale
             /\ views' = [views EXCEPT ![v].stale = TRUE]
             /\ UNCHANGED <<page, late, call, decided>>

\* heartbeat, once the lock is held: prune, the bound, the snapshot, and every
\* command still pending.
Beat(v, s) ==
    LET kept == Pruned
        pending == IF v \in DOMAIN kept THEN kept[v].pending ELSE {} IN
    /\ v \in DOMAIN kept \/ Cardinality(DOMAIN kept) < MaxViews
    /\ views' = [w \in DOMAIN kept \cup {v} |->
                    IF w = v THEN [shown |-> s, stale |-> FALSE, pending |-> pending]
                    ELSE kept[w]]
TooMany(v) == /\ v \notin DOMAIN Pruned /\ Cardinality(DOMAIN Pruned) >= MaxViews
              /\ views' = Pruned

\* The answer carries the commands, or is lost on its way.
Heartbeat(v) ==
    /\ page[v].at = "sent"
    /\ \/ /\ Beat(v, CHOOSE s \in page[v].sent : TRUE)
          /\ \/ page' = [page EXCEPT ![v].at = "applying", ![v].sent = {},
                                     ![v].commands = views'[v].pending]
             \/ page' = [page EXCEPT ![v].at = "idle", ![v].sent = {}]
       \/ /\ TooMany(v)
          /\ page' = [page EXCEPT ![v].at = "idle", ![v].sent = {}]
    /\ UNCHANGED <<late, call, decided>>
LateHeartbeat(v) ==
    /\ \E s \in late[v] : Beat(v, s) \/ TooMany(v)
    /\ late' = [late EXCEPT ![v] = {}]
    /\ UNCHANGED <<page, call, decided>>

\* acknowledge: only a command still pending is taken out and its call told.
Acknowledge(v) ==
    /\ page[v].at = "acking"
    /\ \E a \in page[v].ack :
         IF v \in DOMAIN views /\ a.command \in views[v].pending
         THEN /\ views' = [views EXCEPT ![v].pending = @ \ {a.command}]
              /\ call' = [call EXCEPT ![a.command].told = {a.verdict}]
         ELSE UNCHANGED <<views, call>>
    /\ page' = [page EXCEPT ![v].at = "applying", ![v].ack = {}]
    /\ UNCHANGED <<late, decided>>

\* list: the tabs an agent is shown, of views that still live.
Tabs == UNION {{<<v, t>> : t \in Pruned[v].shown.open} : v \in DOMAIN Pruned}
List == views' = Pruned /\ UNCHANGED <<page, late, call, decided>>

\* CloseTab: the id is looked up in the snapshots, dirty resources are refused,
\* the command is left in the view's record.
Close(c) ==
    /\ call[c] = NoCall
    /\ \E tab \in Tabs : LET v == tab[1] t == tab[2] IN
         IF t \in Pruned[v].shown.dirty
         THEN /\ views' = Pruned
              /\ call' = [call EXCEPT ![c] = [at |-> "done", answer |-> "dirty",
                                              view |-> v, target |-> t, told |-> {}]]
         ELSE /\ views' = [Pruned EXCEPT ![v].pending = @ \cup {c}]
              /\ call' = [call EXCEPT ![c] = [at |-> "waiting", answer |-> "none",
                                              view |-> v, target |-> t, told |-> {}]]
    /\ UNCHANGED <<page, late, decided>>

\* The call wakes up: an acknowledgement, or its sender was pruned away.
Pending(c) == call[c].view \in DOMAIN views /\ c \in views[call[c].view].pending
Wake(c) ==
    /\ call[c].at = "waiting"
    /\ \/ \E a \in call[c].told :
             call' = [call EXCEPT ![c].at = "done", ![c].answer = a]
       \/ /\ call[c].told = {} /\ ~Pending(c)
          /\ call' = [call EXCEPT ![c].at = "done", ![c].answer = "canceled"]
    /\ UNCHANGED <<page, late, views, decided>>
Timeout(c) ==
    /\ call[c].at = "waiting" /\ call[c].told = {} /\ Pending(c)
    /\ call' = [call EXCEPT ![c].at = "giving up"]
    /\ UNCHANGED <<page, late, views, decided>>

\* Mutant: the command of a call that gave up stays in the record.
FaultyWithdrawn(c) == views
Withdrawn(c) == IF Pending(c) THEN [views EXCEPT ![call[c].view].pending = @ \ {c}]
                ELSE views
GiveUp(c) ==
    /\ call[c].at = "giving up"
    /\ views' = Withdrawn(c)
    /\ call' = [call EXCEPT ![c].at = "done", ![c].answer = "no answer"]
    /\ UNCHANGED <<page, late, decided>>

Init ==
    /\ page = [v \in Views |-> NewPage] /\ late = [v \in Views |-> {}]
    /\ views = <<>> /\ call = [c \in Calls |-> NoCall] /\ decided = {}

Next ==
    \/ List
    \/ \E v \in Views :
          \/ SendHeartbeat(v) \/ Fails(v) \/ HeartbeatDone(v)
          \/ Reload(v) \/ Lapses(v) \/ Heartbeat(v) \/ LateHeartbeat(v)
          \/ Acknowledge(v)
          \/ \E t \in Targets : Opens(v, t) \/ Closes(v, t) \/ Edits(v, t)
          \/ \E c \in Calls : Apply(v, c)
    \/ \E c \in Calls : Close(c) \/ Wake(c) \/ Timeout(c) \/ GiveUp(c)

Spec == Init /\ [][Next]_vars

TypeOK ==
    /\ \A v \in Views :
         /\ page[v].open \subseteq Targets /\ page[v].dirty \subseteq Dirtiable
         /\ page[v].commands \subseteq Calls
    /\ DOMAIN views \subseteq Views /\ Cardinality(DOMAIN views) <= MaxViews
    /\ \A v \in DOMAIN views :
         /\ views[v].pending \subseteq Calls /\ views[v].stale \in BOOLEAN
         /\ views[v].shown \in Snapshots
    /\ decided \subseteq Calls

\* A command is offered to a page only while the agent that gave it still
\* waits, and only the page it was meant for: once the agent has been told that
\* nobody answered, no later heartbeat closes the tab (close and acknowledge).
CommandsHaveCallers ==
    \A v \in DOMAIN views : \A c \in views[v].pending :
        call[c].at \in {"waiting", "giving up"} /\ call[c].view = v

\* An agent is told that a tab is closed only when its page closed it, or did
\* not show it, on this very command.
ClosedIsTrue == \A c \in Calls :
                    call[c].at = "done" /\ call[c].answer = "closed" => c \in decided

\* Closing for an agent never costs the user edits made since the snapshot the
\* server checked: what is dirty on a page stays open until the user acts.
EditsAreKept ==
    \A v \in Views : page[v].dirty \subseteq page[v].open

TabsSound == CommandsHaveCallers /\ ClosedIsTrue /\ EditsAreKept
=============================================================================
