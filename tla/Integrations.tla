---------------------------- MODULE Integrations -----------------------------
(***************************************************************************)
(* Installing, repairing and removing the hooks of other programs          *)
(* (agent_integrations.rs: AgentIntegrationService).  Each program keeps   *)
(* its own plugins, and is told what to do by commands that may fail, that *)
(* may time out after they took effect, and between which the user or      *)
(* another call changes what was read.                                     *)
(*                                                                         *)
(* A behaviour exercises one program: "marketplace" (Codex, Claude Code),  *)
(* "path" (Pi), "owned" (Antigravity) or "omp", which alone has several    *)
(* profiles; the others have profile 1.  A plugin is "ours" when its files *)
(* came from our package; `current' when they are those of this version.   *)
(*                                                                         *)
(* Nothing keeps two calls apart.  An installation of OMP that a removal   *)
(* overlaps may leave our plugin without its marketplace and without a     *)
(* marker: it is then nobody's, and every further installation refuses.    *)
(***************************************************************************)
EXTENDS Naturals, Sequences, SequencesExt, FiniteSets, FiniteSetsExt

CONSTANTS Profiles,             \* the count of OMP's profiles
          Appliers,             \* calls of apply
          MaxMeddling, MaxMishaps, MaxUpgrades  \* bounds

VARIABLES provider, source, plugin, project, marker, package, appliers,
          meddled, mishaps, upgrades, overlapped
integrationVars == <<provider, source, plugin, project, marker, package, appliers,
                     meddled, mishaps, upgrades, overlapped>>
hostVars == <<source, plugin, project>>

Places == IF provider = "omp" THEN 1..Profiles ELSE {1}
NoPlugin == [by |-> "none", current |-> FALSE, enabled |-> FALSE, id |-> 0]
Unmarked == 0
NoApply == [at |-> "idle", action |-> "install", place |-> 1, unread |-> {}, todo |-> <<>>,
            source |-> "none", plugin |-> NoPlugin, project |-> "none",
            failed |-> FALSE, clean |-> TRUE]

IntegrationInit ==
    /\ provider \in {"marketplace", "path", "owned", "omp"}
    /\ source = [p \in 1..Profiles |-> "none"] /\ plugin = [p \in 1..Profiles |-> NoPlugin]
    /\ project = [p \in 1..Profiles |-> "none"] /\ marker = [p \in 1..Profiles |-> Unmarked]
    /\ package = "none"
    /\ appliers = [c \in Appliers |-> NoApply]
    /\ meddled = 0 /\ mishaps = 0 /\ upgrades = 0 /\ overlapped = FALSE

-----------------------------------------------------------------------------
(* What a listing shows *)

\* omp_plugin_entry: the user's entry goes before the project's.
Installed(plug, proj) == plug # NoPlugin \/ proj # "none"
Enabled(plug, proj)   == IF plug # NoPlugin THEN plug.enabled ELSE proj # "none"
Current(plug, proj)   == IF plug # NoPlugin THEN plug.current ELSE proj = "current"

MarkerCurrent(p, plug) == plug.current /\ marker[p] = plug.id
\* ensure_marketplace_available, marketplace_allows_plugin_removal: what holds the
\* name of our marketplace is ours, or must be left alone.
Foreign(src) == src = "foreign"
\* omp_profile_owns_plugin
Owns(p, src, plug) == src = "ours" \/ (src = "none" /\ MarkerCurrent(p, plug))
NeedsInstall(src, plug, proj) ==
    \/ ~Installed(plug, proj) \/ src = "none"
    \/ ~Enabled(plug, proj) \/ ~Current(plug, proj)

\* classify_status, classify_omp_profile_status
State(p) ==
    LET registered == IF provider = "owned" THEN plugin[p].by = "ours" ELSE source[p] = "ours"
        installed  == IF provider = "path" THEN registered ELSE Installed(plugin[p], project[p])
        good       == IF provider = "path" THEN registered
                      ELSE Enabled(plugin[p], project[p]) /\
                           (provider = "marketplace" \/ Current(plugin[p], project[p]))
    IN CASE Foreign(source[p]) -> "needs_repair"
         [] ~registered /\ ~installed -> "not_installed"
         [] registered /\ installed /\ good /\ package = "current" -> "installed"
         [] OTHER -> "needs_repair"

-----------------------------------------------------------------------------
(* apply *)

\* What a call changes, others may already have read.
Goes(c, apply)     == appliers' = [appliers EXCEPT ![c] = apply]
Disturbs(c, apply) == appliers' = [d \in Appliers |-> IF d = c THEN apply
                                                      ELSE [appliers[d] EXCEPT !.clean = FALSE]]
Bounds == UNCHANGED <<provider, meddled, upgrades, overlapped>>
Fails  == mishaps < MaxMishaps /\ mishaps' = mishaps + 1

\* What is listed first of a profile.
FirstReads(action) == CASE provider = "owned" -> {"plugins"}
                        [] provider = "path" -> {"source"}
                        [] provider = "marketplace" /\ action = "install" -> {"source"}
                        [] OTHER -> {"source", "plugins"}
Unread(apply) == [apply EXCEPT !.source = "none", !.plugin = NoPlugin, !.project = "none",
                               !.todo = <<>>]
Listing(apply, p) == [Unread(apply) EXCEPT !.at = "listing", !.place = p,
                                           !.unread = FirstReads(apply.action)]

\* A profile is done: the next one, or the package of a removal.  A profile of
\* OMP fails alone; elsewhere the call does.
NextPlace(apply) ==
    CASE apply.place + 1 \in Places -> Listing(apply, apply.place + 1)
      [] apply.action = "remove" /\ ~apply.failed -> [Unread(apply) EXCEPT !.at = "tidying"]
      [] OTHER -> [Unread(apply) EXCEPT !.at = "answering", !.unread = {}]
Failing(apply) == NextPlace([apply EXCEPT !.failed = TRUE])
Mishap(apply)  == [apply EXCEPT !.clean = FALSE]

Begin(c, action) ==
    /\ appliers[c].at = "idle"
    /\ LET apply == [NoApply EXCEPT !.action = action]
       IN Goes(c, IF action = "install" THEN [apply EXCEPT !.at = "preparing"]
                  ELSE Listing(apply, 1))
    /\ overlapped' = (overlapped \/ \E d \in Appliers : appliers[d].at # "idle")
    /\ UNCHANGED <<provider, hostVars, marker, package, meddled, mishaps, upgrades>>

\* prepare_package writes one file after the other.
Prepare(c) ==
    /\ appliers[c].at = "preparing"
    /\ \/ /\ package' = "current" /\ UNCHANGED mishaps
          /\ Disturbs(c, Listing(appliers[c], 1))
       \/ /\ package' = "torn" /\ Fails
          /\ Disturbs(c, [Mishap(appliers[c]) EXCEPT !.at = "answering", !.failed = TRUE])
    /\ UNCHANGED <<hostVars, marker>> /\ Bounds

\* inspect_omp_profile asks for both at once; others list one after the other.
List(c, what) ==
    LET apply == appliers[c] p == apply.place
    IN /\ apply.at \in {"listing", "verifying"} /\ what \in apply.unread
       /\ provider # "omp" /\ what = "plugins" => "source" \notin apply.unread
       /\ \/ /\ Goes(c, IF what = "source"
                        THEN [apply EXCEPT !.unread = @ \ {what}, !.source = source[p]]
                        ELSE [apply EXCEPT !.unread = @ \ {what}, !.plugin = plugin[p],
                                           !.project = project[p]])
             /\ UNCHANGED mishaps
          \/ Fails /\ Goes(c, Failing(Mishap(apply)))
       /\ UNCHANGED <<hostVars, marker, package>> /\ Bounds

Optional(condition, command) == IF condition THEN <<command>> ELSE <<>>

TrustingRefused(apply) ==       \* takes any plugin of that name for its own
    provider # "owned" /\ apply.action = "install" /\ apply.source = "foreign"
\* install, install_omp_profile: refused, or these commands.
Refused(apply) ==
    LET owns == Owns(apply.place, apply.source, apply.plugin)
    IN CASE provider = "owned" -> apply.plugin.by = "other"
         [] provider = "omp" /\ apply.action = "install" ->
               \/ Foreign(apply.source)
               \/ /\ NeedsInstall(apply.source, apply.plugin, apply.project)
                  /\ apply.plugin # NoPlugin /\ ~owns
         [] provider = "marketplace" /\ apply.action = "install" -> Foreign(apply.source)
         [] OTHER -> FALSE
InstallCommands(apply) ==
    LET needed == NeedsInstall(apply.source, apply.plugin, apply.project)
        unregistered == apply.source = "none"
    IN CASE provider = "marketplace" -> Optional(unregistered, "add") \o <<"list", "install">>
         [] provider = "path"  -> Optional(~unregistered, "drop") \o <<"add">>
         [] provider = "owned" -> <<"install", "enable">>
         [] provider = "omp"   -> Optional(unregistered, "add")
                                  \o Optional(needed /\ apply.plugin # NoPlugin, "uninstall")
                                  \o Optional(needed, "install")
RemoveCommands(apply) ==
    LET ours == apply.source = "ours"
        present == Installed(apply.plugin, apply.project)
    IN CASE provider = "marketplace" -> Optional(present /\ ~Foreign(apply.source), "uninstall")
                                        \o Optional(ours, "drop")
         [] provider = "path"  -> Optional(ours, "drop")
         [] provider = "owned" -> Optional(present, "uninstall")
         [] provider = "omp"   -> Optional(/\ apply.plugin # NoPlugin
                                           /\ Owns(apply.place, apply.source, apply.plugin),
                                           "uninstall")
                                  \o Optional(ours, "drop")

Decide(c) ==
    LET apply == appliers[c]
    IN /\ apply.at = "listing" /\ apply.unread = {}
       /\ Goes(c, IF Refused(apply) THEN Failing(apply)
                  ELSE [apply EXCEPT !.at = "running", !.plugin = NoPlugin, !.project = "none",
                          !.todo = IF apply.action = "install" THEN InstallCommands(apply)
                                   ELSE RemoveCommands(apply)])
       /\ UNCHANGED <<hostVars, marker, package, mishaps>> /\ Bounds

\* The programs: what a command needs, and what it does.
CanDo(command, p) ==
    CASE command = "add"       -> source[p] # "foreign"
      [] command = "drop"      -> source[p] # "none"
      [] command = "install"   -> \/ source[p] = "foreign"
                                  \/ source[p] = "ours" /\ package = "current"
                                  \/ provider = "owned" /\ package = "current"
      [] command \in {"uninstall", "enable"} -> plugin[p] # NoPlugin
Did(command, p) ==
    /\ source' = [source EXCEPT ![p] = CASE command = "add" -> "ours"
                                         [] command = "drop" -> "none"
                                         [] OTHER -> @]
    /\ plugin' = [plugin EXCEPT ![p] =
          CASE command = "uninstall" -> NoPlugin
            [] command = "enable" -> [@ EXCEPT !.enabled = TRUE]
            [] command = "install" -> [by |-> IF source[p] = "foreign" THEN "other" ELSE "ours",
                                       current |-> source[p] # "foreign",
                                       enabled |-> TRUE,
                                       id |-> IF marker[p] = 1 THEN 2 ELSE 1]
            [] OTHER -> @]

Run(c) ==
    LET apply == appliers[c] p == apply.place
        command == Head(apply.todo)
        further == [apply EXCEPT !.todo = Tail(@)]
    IN /\ apply.at = "running" /\ apply.todo # <<>> /\ command # "list"
       /\ \/ /\ CanDo(command, p) /\ Did(command, p)
             /\ \/ Disturbs(c, further) /\ UNCHANGED mishaps
                \/ Disturbs(c, Failing(Mishap(apply))) /\ Fails     \* too late
          \/ /\ UNCHANGED hostVars
             /\ \/ ~CanDo(command, p) /\ Goes(c, Failing(apply)) /\ UNCHANGED mishaps
                \/ Goes(c, Failing(Mishap(apply))) /\ Fails
       /\ UNCHANGED <<project, marker, package>> /\ Bounds

\* Codex and Claude Code list the plugins once the marketplace is there.
ListPlugins(c) ==
    LET apply == appliers[c]
        present == Installed(plugin[apply.place], project[apply.place])
    IN /\ apply.at = "running" /\ apply.todo # <<>> /\ Head(apply.todo) = "list"
       /\ \/ /\ Goes(c, [apply EXCEPT !.todo = Optional(present, "uninstall") \o Tail(@)])
             /\ UNCHANGED mishaps
          \/ Fails /\ Goes(c, Failing(Mishap(apply)))
       /\ UNCHANGED <<hostVars, marker, package>> /\ Bounds

Finish(c) ==
    LET apply == appliers[c]
    IN /\ apply.at = "running" /\ apply.todo = <<>>
       /\ Goes(c, IF provider = "omp" /\ apply.action = "install"
                  THEN [Unread(apply) EXCEPT !.at = "verifying", !.unread = {"source", "plugins"}]
                  ELSE NextPlace(apply))
       /\ UNCHANGED <<hostVars, marker, package, mishaps>> /\ Bounds

\* The end of install_omp_profile, and mark_omp_profile_owned.
Verify(c) ==
    LET apply == appliers[c] p == apply.place
        reached == /\ apply.source = "ours" /\ apply.plugin # NoPlugin
                   /\ apply.plugin.enabled /\ apply.plugin.current
    IN /\ apply.at = "verifying" /\ apply.unread = {}
       /\ \/ /\ reached /\ marker' = [marker EXCEPT ![p] = apply.plugin.id]
             /\ Goes(c, NextPlace(apply)) /\ UNCHANGED mishaps
          \/ /\ reached /\ Fails /\ Goes(c, Failing(Mishap(apply))) /\ UNCHANGED marker
          \/ /\ ~reached /\ Goes(c, Failing(apply)) /\ UNCHANGED <<marker, mishaps>>
       /\ UNCHANGED <<hostVars, package>> /\ Bounds

\* The end of remove: the package goes, the markers with it. When the removal
\* fails, it has got to any part of them, or to none.
Tidy(c) ==
    /\ appliers[c].at = "tidying"
    /\ \/ /\ package' = "none" /\ UNCHANGED mishaps
          /\ marker' = [p \in 1..Profiles |-> Unmarked]
          /\ Disturbs(c, [appliers[c] EXCEPT !.at = "answering"])
       \/ /\ package # "none" \/ \E p \in 1..Profiles : marker[p] # Unmarked
          /\ package' \in {package, "torn"} /\ Fails
          /\ \E gone \in SUBSET (1..Profiles) :
                marker' = [p \in 1..Profiles |-> IF p \in gone THEN Unmarked ELSE marker[p]]
          /\ Disturbs(c, [Mishap(appliers[c]) EXCEPT !.at = "answering", !.failed = TRUE])
    /\ UNCHANGED hostVars /\ Bounds

Answer(c) == /\ appliers[c].at = "answering" /\ Goes(c, NoApply)
             /\ UNCHANGED <<hostVars, marker, package, mishaps>> /\ Bounds

\* The browser leaves: the handler is dropped, and with it the command it runs.
Leave(c) == /\ appliers[c].at # "idle" /\ Goes(c, NoApply)
            /\ UNCHANGED <<hostVars, marker, package, mishaps>> /\ Bounds

\* The user uses the program's own commands.
Meddle(p) ==
    /\ meddled < MaxMeddling /\ meddled' = meddled + 1
    /\ p \in Places
    /\ \/ /\ provider \in {"marketplace", "omp"}
          /\ \E s \in {"none", "foreign"} : source' = [source EXCEPT ![p] = s]
          /\ UNCHANGED <<plugin, project>>
       \/ /\ provider # "path"
          /\ \E plug \in {NoPlugin, [plugin[p] EXCEPT !.enabled = FALSE],
                          [NoPlugin EXCEPT !.by = "other", !.enabled = TRUE, !.id = 3]} :
                plugin' = [plugin EXCEPT ![p] = plug]
          /\ UNCHANGED <<source, project>>
       \/ /\ provider = "omp"
          /\ \E scope \in {"none", "old"} : project' = [project EXCEPT ![p] = scope]
          /\ UNCHANGED <<source, plugin>>
    /\ appliers' = [c \in Appliers |-> Mishap(appliers[c])]
    /\ UNCHANGED <<provider, marker, package, mishaps, upgrades, overlapped>>

\* The server stops, and may come back as a later version.
Restart(upgraded) ==
    /\ IF upgraded
       THEN /\ upgrades < MaxUpgrades /\ upgrades' = upgrades + 1
            /\ plugin' = [p \in 1..Profiles |-> [plugin[p] EXCEPT !.current = FALSE]]
            /\ package' = IF package = "current" THEN "old" ELSE package
            /\ UNCHANGED mishaps
       ELSE Fails /\ UNCHANGED <<plugin, package, upgrades>>
    /\ appliers' = [c \in Appliers |-> NoApply]
    /\ UNCHANGED <<provider, source, project, marker, meddled, overlapped>>

IntegrationNext ==
    \/ \E c \in Appliers :
          \/ \E action \in {"install", "remove"} : Begin(c, action)
          \/ Prepare(c) \/ Decide(c) \/ Run(c) \/ ListPlugins(c) \/ Finish(c) \/ Verify(c)
          \/ Tidy(c) \/ Answer(c) \/ Leave(c)
          \/ \E what \in {"source", "plugins"} : List(c, what)
    \/ \E p \in 1..Profiles : Meddle(p)
    \/ \E upgraded \in BOOLEAN : Restart(upgraded)
IntegrationSpec == IntegrationInit /\ [][IntegrationNext]_integrationVars

-----------------------------------------------------------------------------
\* A call that nobody disturbed and no command failed does what it says; and
\* whatever was cut off, failed or came with an update before it, it succeeds as
\* long as the user left the program alone and no two calls overlapped.
AnswersTrue ==
    LET undisturbed == meddled = 0 /\ ~overlapped IN
    \A c \in Appliers :
        appliers[c].at = "answering" /\ appliers[c].clean =>
           /\ appliers[c].failed => ~undisturbed
           /\ ~appliers[c].failed =>
                 \A p \in Places :
                    IF appliers[c].action = "install" THEN State(p) = "installed"
                    ELSE /\ source[p] # "ours"
                         /\ plugin[p].by = "ours" => ~undisturbed

\* What the user put there under our names stays, unless it came after the call
\* had looked: a marketplace, a plugin of Antigravity, and one whose marketplace is
\* not ours.  Codex and Claude Code take one whose marketplace is gone for ours.
OthersKept ==
    \A c \in Appliers :
        LET p == appliers[c].place
            theirs == \/ provider = "owned"
                      \/ appliers[c].source = "foreign"
                      \/ provider = "omp" /\ appliers[c].source = "none"
        IN appliers[c].at = "running" /\ appliers[c].clean /\ appliers'[c].todo # appliers[c].todo =>
              /\ source[p] = "foreign" => source'[p] = "foreign"
              /\ plugin[p].by = "other" /\ theirs => plugin'[p] = plugin[p]

-----------------------------------------------------------------------------
(***************************************************************************)
(* The artifact skill (artifact_skill.rs): the bundled copy is brought up  *)
(* to date when the server starts, and linked into the directory of an     *)
(* agent when the user asks.  A behaviour has one agent; agents share only *)
(* the bundled copy.  Nothing keeps two requests, or the user, apart: every*)
(* look at the directory and every change of it is a step.                 *)
(***************************************************************************)

VARIABLES
    core,           \* whose files the bundled copy has: a version, Edited or Missing
    version,        \* the running executable's, whose assets are embedded in it
    starter,        \* discover: where it is, what it moved away
    destination,    \* what the agent's skill path holds
    askers,         \* request -> where its call of apply is
    late,           \* history: requests since whose last look the path changed
    trouble         \* how often the user meddled, a call failed, an update came
skillVars == <<core, version, starter, destination, askers, late, trouble>>

Missing == 0
Edited  == 100
NotStarted == [at |-> "stopped", previous |-> Missing, available |-> FALSE]
NoAsker == [at |-> "idle", action |-> "install", seen |-> "none", ok |-> FALSE, clean |-> TRUE]
Contents == {"none", "ours", "matching", "differing", "dangling", "file", "directory"}
IsLink(content) == content \in {"ours", "matching", "differing", "dangling"}
Serving == starter.at = "running" /\ starter.available

SkillInit ==
    /\ core = Missing /\ version = 1
    /\ starter = NotStarted
    /\ destination = "none"
    /\ askers = [c \in Appliers |-> NoAsker] /\ late = {}
    /\ trouble = [meddled |-> 0, mishaps |-> 0, upgrades |-> 0]

Counts(what, bound) == /\ trouble[what] < bound
                       /\ trouble' = [trouble EXCEPT ![what] = @ + 1]
SkillMishap == Counts("mishaps", MaxMishaps)

-----------------------------------------------------------------------------
(* discover_source, ensure_bundled_source *)

Starting(at, previous, available) ==
    starter' = [at |-> at, previous |-> previous, available |-> available]
Discovering == UNCHANGED <<version, destination, askers, late>>

PresentUpToDate == core # Missing       \* looks for the files, not into them
UpToDate == core = version
\* The copy is compared with the assets, files and modes.
StartsUp ==
    /\ starter.at = "stopped" /\ Discovering
    /\ IF UpToDate THEN Starting("running", Missing, TRUE) ELSE Starting("staging", Missing, FALSE)
    /\ UNCHANGED <<core, trouble>>
\* A directory beside it is filled; the copy is renamed away.
MovesOut ==
    /\ starter.at = "staging" /\ Discovering
    /\ \/ Starting("swapping", core, FALSE) /\ core' = Missing /\ UNCHANGED trouble
       \/ Starting("running", Missing, FALSE) /\ SkillMishap /\ UNCHANGED core
\* The new one is renamed in, or the old one back, unless that fails too.
MovesIn ==
    /\ starter.at = "swapping" /\ Discovering
    /\ \/ Starting("running", Missing, TRUE) /\ core' = version /\ UNCHANGED trouble
       \/ /\ Starting("running", Missing, FALSE) /\ SkillMishap
          /\ core' \in {starter.previous, Missing}
\* The process ends anywhere, with its requests; an update brings another
\* executable, and a copy with it or not.
Ends ==
    /\ starter.at # "stopped" /\ Starting("stopped", Missing, FALSE)
    /\ askers' = [c \in Appliers |-> NoAsker] /\ late' = {}
    /\ \/ UNCHANGED <<version, core>> /\ UNCHANGED trouble
       \/ /\ Counts("upgrades", MaxUpgrades) /\ version' = version + 1
          /\ core' \in {core, version'}
    /\ UNCHANGED destination

-----------------------------------------------------------------------------
(* apply *)

\* The state shown for what the path holds, and whether a repair is offered.
SkillState(content) ==
    CASE content = "none" -> "not_installed"
      [] content = "ours" /\ core # Missing -> "installed"
      [] OTHER -> "other"
Repairable(content) == IsLink(content) /\ SkillState(content) # "installed"

RefusesInstall(content) == content # "none"
RefusesRepair(content)  == content # "none" /\ ~IsLink(content)
RefusesRemoval(content) == content # "ours" \/ core = Missing

Asks(c, asker) == askers' = [askers EXCEPT ![c] = asker]
Answered(c, ok) == Asks(c, [askers[c] EXCEPT !.at = "answered", !.ok = ok])
FailsToAnswer(c) ==
    SkillMishap /\ Asks(c, [askers[c] EXCEPT !.at = "answered", !.ok = FALSE, !.clean = FALSE])
Applying == UNCHANGED <<core, version, starter>>

\* require_source comes first.
AsksFor(c, action) ==
    /\ Serving /\ askers[c].at = "idle"
    /\ Asks(c, [NoAsker EXCEPT !.at = "looking", !.action = action])
    /\ late' = late \ {c}
    /\ UNCHANGED <<destination, trouble>> /\ Applying

\* symlink_metadata; an installation goes on to the link it makes beside the path,
\* a removal to reading the link.
LooksAtPath(c) ==
    LET action == askers[c].action
        refused == CASE action = "install" -> RefusesInstall(destination)
                     [] action = "repair"  -> RefusesRepair(destination)
                     [] OTHER              -> ~IsLink(destination)
        seen == [askers[c] EXCEPT !.seen = destination]
    IN /\ askers[c].at = "looking"
       /\ \/ /\ Asks(c, CASE refused -> [seen EXCEPT !.at = "answered"]
                          [] ~refused /\ action = "remove" -> [seen EXCEPT !.at = "resolving"]
                          [] OTHER -> [seen EXCEPT !.at = "renaming"])
             /\ UNCHANGED trouble
          \/ FailsToAnswer(c)
       /\ late' = late \ {c}
       /\ UNCHANGED destination /\ Applying
\* resolved_link, same_path
ReadsLink(c) ==
    /\ askers[c].at = "resolving"
    /\ Asks(c, [askers[c] EXCEPT !.seen = destination,
                   !.at = IF RefusesRemoval(destination) THEN "answered" ELSE "removing"])
    /\ late' = late \ {c}
    /\ UNCHANGED <<destination, trouble>> /\ Applying

\* A rename replaces all but a directory, and so does remove_file.
Changes(c, content) == destination' = content /\ late' = late \cup (Appliers \ {c})
RenamesLink(c) ==
    /\ askers[c].at = "renaming" /\ Applying
    /\ \/ /\ destination # "directory" /\ Changes(c, "ours")
          /\ Answered(c, TRUE) /\ UNCHANGED trouble
       \/ /\ destination = "directory" /\ Answered(c, FALSE)
          /\ UNCHANGED <<destination, late, trouble>>
       \/ FailsToAnswer(c) /\ UNCHANGED <<destination, late>>
RemovesLink(c) ==
    /\ askers[c].at = "removing" /\ Applying
    /\ \/ /\ destination \notin {"directory", "none"} /\ Changes(c, "none")
          /\ Answered(c, TRUE) /\ UNCHANGED trouble
       \/ /\ destination \in {"directory", "none"} /\ Answered(c, FALSE)
          /\ UNCHANGED <<destination, late, trouble>>
       \/ FailsToAnswer(c) /\ UNCHANGED <<destination, late>>
LeavesSkill(c) ==
    /\ askers[c].at = "answered" /\ Asks(c, NoAsker)
    /\ UNCHANGED <<destination, late, trouble>> /\ Applying

\* The user arranges the agent's directory, or edits the bundled files.
Rearranges ==
    /\ Counts("meddled", MaxMeddling)
    /\ \/ \E content \in Contents \ {destination} : Changes(0, content) /\ UNCHANGED core
       \/ core \notin {Missing, Edited} /\ core' = Edited /\ UNCHANGED <<destination, late>>
    /\ UNCHANGED <<version, starter, askers>>

SkillNext ==
    \/ StartsUp \/ MovesOut \/ MovesIn \/ Ends \/ Rearranges
    \/ \E c \in Appliers :
          \/ \E action \in {"install", "repair", "remove"} : AsksFor(c, action)
          \/ LooksAtPath(c) \/ ReadsLink(c) \/ RenamesLink(c) \/ RemovesLink(c) \/ LeavesSkill(c)
SkillSpec == SkillInit /\ [][SkillNext]_skillVars

-----------------------------------------------------------------------------
\* A server that offers the skill has the copy of its own version, whatever was
\* interrupted or failed in earlier starts, unless the user edits it.
SkillFollows == Serving => core \in {version, Edited}

\* What is offered for what is shown is not refused, and what is not offered is.
OffersTrue ==
    Serving =>
       /\ Repairable(destination) => ~RefusesRepair(destination)
       /\ RefusesInstall(destination) = (SkillState(destination) # "not_installed")
       /\ RefusesRemoval(destination) = (SkillState(destination) # "installed")

\* A request that nobody disturbed after its last look did what it answers, and
\* fails only if it had to.
SkillAnswers ==
    \A c \in Appliers \ late :
        LET asker == askers[c] IN
        asker.at = "answered" /\ asker.clean =>
           IF asker.ok THEN SkillState(destination) =
                              IF asker.action = "remove" THEN "not_installed" ELSE "installed"
           ELSE CASE asker.action = "install" -> RefusesInstall(asker.seen)
                  [] asker.action = "repair"  -> RefusesRepair(asker.seen)
                  [] OTHER                    -> RefusesRemoval(asker.seen)

SkillSound == SkillFollows /\ OffersTrue /\ SkillAnswers

\* What the user put at the path stays: a directory always, anything else unless
\* it is a link the user asked to repair, or came after the request had looked.
SkillsKept ==
    \A c \in Appliers :
        askers[c].at \in {"renaming", "removing"} /\ destination' # destination
        /\ askers'[c].at = "answered" =>
           /\ destination # "directory"
           /\ \/ c \in late \/ destination \in {"none", "ours"}
              \/ askers[c].action = "repair" /\ IsLink(destination)

-----------------------------------------------------------------------------
(***************************************************************************)
(* Switching the plugin of Hermes on and off in the user's config.yaml,    *)
(* line by line (agent_integrations.rs: update_hermes_enabled_plugin,      *)
(* hermes_enabled_plugins_contain).  Every file of up to MaxLines lines    *)
(* that is well formed with two spaces to a level is built, and edited.    *)
(*                                                                         *)
(* A line is a key, with a flow sequence on its line or without, an item of*)
(* a list, or a comment.                                                   *)
(***************************************************************************)

CONSTANT MaxLines               \* bound

VARIABLE config
configVars == config

Ours == "ours"
NoFlow == <<"none">>
Key(indent, name, flow) == [kind |-> "key", indent |-> indent, name |-> name, flow |-> flow]
Item(indent, name) == [kind |-> "item", indent |-> indent, name |-> name, flow |-> NoFlow]
Comment == [kind |-> "comment", indent |-> 0, name |-> "", flow |-> NoFlow]

Flows == {<<>>, <<Ours>>, <<"x">>, <<"x", Ours>>}
Lines == {Comment}
         \cup {Key(0, name, NoFlow) : name \in {"plugins", "other"}}
         \cup {Key(0, "plugins", f) : f \in Flows}
         \cup {Key(2, name, NoFlow) : name \in {"enabled", "other"}}
         \cup {Key(2, "enabled", f) : f \in Flows}
         \cup {Item(indent, name) : indent \in {2, 4}, name \in {Ours, "x"}}

-----------------------------------------------------------------------------
(* The code's view of the lines *)

\* The lines that give a key, those that end what is nested under one, and the items.
KeyAt(lines, indent, name) ==
    {i \in DOMAIN lines : lines[i].kind = "key" /\ lines[i].indent = indent /\ lines[i].name = name}
OpensKey(lines, indent) == {i \in DOMAIN lines : lines[i].kind = "key" /\ lines[i].indent <= indent}
ItemsIn(lines) == {i \in DOMAIN lines : lines[i].kind = "item"}
OursIn(lines) == {i \in ItemsIn(lines) : lines[i].name = Ours}

\* The first of the lines from..upto that is one of these, or the one after.
First(from, upto, these) ==
    LET hits == these \cap from..upto
    IN IF hits = {} THEN upto + 1 ELSE Min(hits)

Without(lines, i) == RemoveAt(lines, i)
Items(indent, names) == [i \in 1..Len(names) |-> Item(indent, names[i])]
\* hermes_enabled_plugin_lines, hermes_flat_plugin_lines
Block(indent, name, names) ==
    IF names = <<>> THEN <<Key(indent, name, <<>>)>>
    ELSE <<Key(indent, name, NoFlow)>> \o Items(indent + 2, names)
Toggled(names, enabled) ==
    IF enabled THEN <<Ours>> \o names ELSE Remove(names, Ours)
Splice(lines, from, upto, new) ==
    SubSeq(lines, 1, from - 1) \o new \o SubSeq(lines, upto + 1, Len(lines))

BlindEdit(lines, from, upto, indent, enabled) ==    \* adds it again
    LET at == First(from, upto, OursIn(lines))
    IN CASE enabled -> InsertAt(lines, from, Item(indent, Ours))
         [] ~enabled /\ at <= upto -> Without(lines, at)
         [] OTHER -> lines
\* A list item is added at the head of a list, and the first of its name removed.
Edit(lines, from, upto, indent, enabled) ==
    LET at == First(from, upto, OursIn(lines))
    IN CASE enabled = (at <= upto) -> lines
         [] enabled -> InsertAt(lines, from, Item(indent, Ours))
         [] OTHER -> Without(lines, at)

\* update_hermes_enabled_plugin
Update(lines, enabled) ==
    LET n == Len(lines)
        plugins == First(1, n, KeyAt(lines, 0, "plugins"))
        end     == First(plugins + 1, n, OpensKey(lines, 0)) - 1
        key     == First(plugins + 1, end, KeyAt(lines, 2, "enabled"))
        flat    == First(plugins + 1, end, {i \in ItemsIn(lines) : lines[i].indent = 2})
        listEnd == First(key + 1, end, OpensKey(lines, 2)) - 1
    IN CASE plugins > n ->
              IF enabled THEN lines \o <<Key(0, "plugins", NoFlow)>> \o Block(2, "enabled", <<Ours>>)
              ELSE lines
         [] plugins <= n /\ key <= end ->
              LET names == lines[key].flow
              IN IF names = NoFlow THEN Edit(lines, key + 1, listEnd, 4, enabled)
                 ELSE IF enabled = (Ours \in ToSet(names)) THEN lines
                 ELSE Splice(lines, key, key, Block(2, "enabled", Toggled(names, enabled)))
         [] plugins <= n /\ key > end /\ lines[plugins].flow # NoFlow ->
              LET names == lines[plugins].flow
              IN IF enabled = (Ours \in ToSet(names)) THEN lines
                 ELSE Splice(lines, plugins, end, Block(0, "plugins", Toggled(names, enabled)))
         [] plugins <= n /\ key > end /\ lines[plugins].flow = NoFlow /\ flat <= end ->
              Edit(lines, flat, end, 2, enabled)
         [] OTHER -> IF enabled THEN Splice(lines, plugins + 1, plugins, Block(2, "enabled", <<Ours>>))
                     ELSE lines

\* hermes_enabled_plugins_contain
ListsOurs(lines) ==
    LET n == Len(lines)
        plugins == First(1, n, KeyAt(lines, 0, "plugins"))
        end     == First(plugins + 1, n, OpensKey(lines, 0)) - 1
        key     == First(plugins + 1, end, KeyAt(lines, 2, "enabled"))
        flat    == First(plugins + 1, end, {i \in ItemsIn(lines) : lines[i].indent = 2})
        listEnd == First(key + 1, end, OpensKey(lines, 2)) - 1
        Lists(from, upto) == OursIn(lines) \cap from..upto # {}
    IN /\ plugins <= n
       /\ CASE key <= end ->
                 IF lines[key].flow # NoFlow THEN Ours \in ToSet(lines[key].flow)
                 ELSE Lists(key + 1, listEnd)
            [] key > end /\ lines[plugins].flow # NoFlow -> Ours \in ToSet(lines[plugins].flow)
            [] OTHER -> Lists(flat, end)

-----------------------------------------------------------------------------
(* The file is written by anyone. *)

\* Lines that hold something; the one a line belongs to.
Held(lines) == {i \in DOMAIN lines : lines[i].kind # "comment"}
Parent(lines, i) ==
    LET above == {j \in Held(lines) : j < i /\ lines[j].indent < lines[i].indent}
    IN IF above = {} THEN 0 ELSE Max(above)
Siblings(lines, i) == {j \in Held(lines) : Parent(lines, j) = Parent(lines, i)}

\* What YAML accepts: two spaces to a level, a list or keys under a key that has
\* no value on its line, no key twice.
WellFormed(lines) ==
    \A i \in Held(lines) :
        LET line == lines[i] p == Parent(lines, i)
        IN /\ IF p = 0 THEN line.indent = 0 /\ line.kind = "key"
              ELSE /\ lines[p].kind = "key" /\ lines[p].flow = NoFlow
                   /\ line.indent = lines[p].indent + 2
           /\ \A j \in Siblings(lines, i) :
                 /\ lines[j].kind = line.kind
                 /\ line.kind = "key" /\ j # i => lines[j].name # line.name

ConfigInit == config = <<>>
\* No plugin is listed twice.
WriteLine ==
    /\ Len(config) < MaxLines
    /\ \E line \in Lines :
          LET lines == Append(config, line)
          IN /\ WellFormed(lines)
             /\ \A i, j \in DOMAIN lines :
                   lines[i] = lines[j] /\ lines[i].kind = "item" => i = j
             /\ config' = lines
ConfigSpec == ConfigInit /\ [][WriteLine]_configVars

-----------------------------------------------------------------------------
\* What YAML says: the names in the list at plugins, or at enabled in it, and
\* everything else but comments.
Path(lines, i) ==
    LET p == Parent(lines, i)
    IN IF p = 0 THEN <<lines[i].name>>
       ELSE IF Parent(lines, p) = 0 THEN <<lines[p].name, lines[i].name>>
       ELSE <<lines[Parent(lines, p)].name, lines[p].name, lines[i].name>>
Allow == {<<"plugins">>, <<"plugins", "enabled">>}
Allowed(lines) ==
    UNION {IF lines[i].kind = "item"
           THEN IF Path(lines, Parent(lines, i)) \in Allow THEN {lines[i].name} ELSE {}
           ELSE IF Path(lines, i) \in Allow /\ lines[i].flow # NoFlow
           THEN ToSet(lines[i].flow) ELSE {} : i \in Held(lines)}
Rest(lines) == {Path(lines, i) : i \in {j \in Held(lines) :
                   IF lines[j].kind = "key" THEN Path(lines, j) \notin Allow
                   ELSE Path(lines, Parent(lines, j)) \notin Allow}}

\* Switching the plugin on or off changes whether it is allowed and nothing else,
\* leaves a file that Hermes can read, is done once, and is what the status shows.
EditsTrue ==
    /\ ListsOurs(config) = (Ours \in Allowed(config))
    /\ \A enabled \in BOOLEAN :
          LET edited == Update(config, enabled)
          IN /\ WellFormed(edited)
             /\ Allowed(edited) = IF enabled THEN Allowed(config) \cup {Ours}
                                  ELSE Allowed(config) \ {Ours}
             /\ Rest(edited) = Rest(config)
             /\ Update(edited, enabled) = edited
=============================================================================
