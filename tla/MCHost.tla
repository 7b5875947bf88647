-------------------------------- MODULE MCHost --------------------------------
(***************************************************************************)
(* What the server and its broker do to the host they run on, checked in   *)
(* one run: commands that use secrets, starts, stops and updates of the    *)
(* server itself, the hooks it installs into other programs, the page's    *)
(* panes and files, and the audio devices.  The parts share no state; a    *)
(* behaviour exercises one, chosen when it starts.                         *)
(***************************************************************************)
EXTENDS SecretCommand

CONSTANTS
    Channels, Commits, Installers, Nobody, MaxFailures, MaxPublished,
    Cores, Identifiers, LongestPre,
    MaxMetadata, MaxArchive, MaxExtracted, MaxExcess,
    Profiles, MaxMeddling, MaxMishaps, MaxUpgrades,
    MaxLines,
    Servers, Brokers, OldBroker, MaxStarts, MaxEvents,
    Panes, NoPane, MaxPanes, CachedTerminals, MaxChanges,
    MaxEdits, MaxWrites, MaxSaves,
    Uploads, Names, NameAttempts, MaxFields, MaxChunks, MaxOthers, MaxVariant,
    SearchLimit, EntryBudget, MaxEntries,
    Artifacts, MaxListed,
    Recorders, MaxAudio,
    MaxConnections, MaxAudioSteps, WireCapacity,
    Sockets, MaxBytes, MaxUpload, MaxMessages, MaxControls

VARIABLES
    part,
    published, releases, updates, stored, running, installLock, install, at,
    undo, failures, before,
    compared,
    asked, body, manifest, unpacked, judged,
    provider, source, plugin, project, marker, package, appliers, meddled, mishaps,
    upgrades, overlapped,
    config,
    core, version, starter, destination, askers, late, trouble,
    control, token, sock, server, broker, open, speaks, overlap, lost, cause, starts, events,
    layout, active, mounted, listed, living, listing, creating, changes,
    disk, buffer, held, tab, rendered, reading, saving, polled, edits, saves, past,
    directory, temporary, request, others, removed, replaced,
    tree, walked, visited, matches, truncated, over, cancelled, walk,
    shelf, shown, removing,
    compressed, recorder, current, phase, onScreen,
    hub, routes, counts, conn, audioPage,
    captures, recording, exported, proxy, owed, controls

\* Patterns that overlap themselves and each other: one is a prefix of another, as a
\* base64 form is of its padded form.
MCPatterns == {<<"a", "b">>, <<"a", "b", "a">>, <<"b", "b", "a">>}
MCCores == {<<0, 9, 1>>, <<1, 0, 0>>}
MCIdentifiers == {<<0, 0>>, <<0, 1>>, <<1, 0>>}

U == INSTANCE UpdateInstall WITH lock <- installLock, channel <- updates,
                                Longest <- LongestPre
\* One call at a time: of more profiles, and over an update.
I == INSTANCE Integrations WITH Appliers <- {1}, MaxUpgrades <- 0
J == INSTANCE Integrations WITH Appliers <- {1}, Profiles <- 1
\* Two calls at once, of one profile.
O == INSTANCE Integrations WITH Profiles <- 1, Appliers <- {1, 2}, MaxMeddling <- 0,
                                MaxMishaps <- 0, MaxUpgrades <- 0
K == INSTANCE Integrations WITH Profiles <- 1, Appliers <- {1, 2}
L == INSTANCE ServerLife
\* More terminals than fit, and as many as do.
P == INSTANCE PaneLayout WITH MaxPanes <- MaxPanes - 1
Q == INSTANCE PaneLayout WITH Panes <- 1..MaxPanes
F == INSTANCE Files
N == INSTANCE VoiceNote WITH mounted <- onScreen
H == INSTANCE VirtualAudio WITH page <- audioPage
D == INSTANCE DebugRecording WITH buffer <- recording

updateVars == <<published, releases, updates, stored, running, installLock,
                install, at, undo, failures, before>>
releaseVars == <<asked, body, manifest, unpacked, judged>>
integrationVars == <<provider, source, plugin, project, marker, package, appliers,
                     meddled, mishaps, upgrades, overlapped>>
skillVars == <<core, version, starter, destination, askers, late, trouble>>
lifeVars == <<control, token, sock, server, broker, open, speaks, overlap, lost,
              cause, starts, events>>

paneVars == <<layout, active, mounted, listed, living, listing, creating, changes>>
editVars == <<disk, buffer, held, tab, rendered, reading, saving, polled, edits, saves, past>>
uploadVars == <<directory, temporary, request, others, removed, replaced>>
searchVars == <<tree, walked, visited, matches, truncated, over, cancelled, walk>>
artifactVars == <<shelf, shown, removing>>
noteVars == <<compressed, recorder, current, phase, onScreen>>
hubVars == <<hub, routes, counts, conn, audioPage>>
recordingVars == <<captures, recording, exported, proxy, owed, controls>>
pageVars == <<paneVars, editVars, uploadVars, searchVars, artifactVars, noteVars, hubVars, recordingVars>>

PageParts == {"panes", "tiles", "edits", "uploads", "search", "artifacts", "notes",
              "audio", "recording"}
PageInit ==
    /\ P!LayoutInit /\ F!EditInit /\ F!UploadInit /\ F!SearchInit /\ F!ArtifactInit
    /\ N!NoteInit /\ H!AudioInit /\ D!RecordingInit
    /\ part # "search" => tree = <<>>
    /\ part # "notes" => compressed
    /\ part # "audio" => hub.available
PageNext ==
    /\ CASE part = "panes" -> P!LayoutNext
         [] part = "tiles" -> Q!LayoutNext
         [] OTHER          -> UNCHANGED paneVars
    /\ IF part = "edits" THEN F!EditNext ELSE UNCHANGED editVars
    /\ IF part = "uploads" THEN F!UploadNext ELSE UNCHANGED uploadVars
    /\ IF part = "search" THEN F!SearchNext ELSE UNCHANGED searchVars
    /\ IF part = "artifacts" THEN F!ArtifactNext ELSE UNCHANGED artifactVars
    /\ IF part = "notes" THEN N!NoteNext ELSE UNCHANGED noteVars
    /\ IF part = "audio" THEN H!AudioNext ELSE UNCHANGED hubVars
    /\ IF part = "recording" THEN D!RecordingNext ELSE UNCHANGED recordingVars

IntegrationParts == {"integrations", "upgrade", "overlap"}
\* What varies at the start of one part is fixed in the others.
MCInit ==
    /\ part \in {"command", "updates", "versions", "release", "integrations", "upgrade",
                "overlap", "hermes", "skill", "life"} \cup PageParts
    /\ PageInit
    /\ Init /\ U!Init /\ U!ReleaseInit /\ I!ConfigInit /\ K!SkillInit /\ L!LifeInit
    /\ part # "updates" =>
          /\ running = CHOOSE c \in Commits : TRUE
          /\ updates = CHOOSE c \in Channels : TRUE
          /\ at[<<"place", "skills">>] = running
    /\ part # "release" => asked = updates
    /\ IF part = "versions" THEN U!VersionInit ELSE compared = <<>>
    /\ CASE part = "overlap" -> O!IntegrationInit
         [] part = "upgrade" -> J!IntegrationInit
         [] OTHER            -> I!IntegrationInit
    /\ part \notin IntegrationParts => provider = "path"
    /\ part # "life" => speaks

\* A bound: once two processes have taken over one file at a time, those that run
\* go on, and no other crash, start or request is followed.
FewAfterOverlap == overlap => UNCHANGED <<starts, events>>

MCNext ==
    /\ UNCHANGED <<part, compared>>
    /\ PageNext
    /\ IF part = "command" THEN Next ELSE UNCHANGED vars
    /\ IF part = "updates" THEN U!Next ELSE UNCHANGED updateVars
    /\ IF part = "release" THEN U!ReleaseNext ELSE UNCHANGED releaseVars
    /\ CASE part = "integrations" -> I!IntegrationNext
         [] part = "upgrade"      -> J!IntegrationNext
         [] part = "overlap"      -> O!IntegrationNext
         [] OTHER                 -> UNCHANGED integrationVars
    /\ IF part = "hermes" THEN I!WriteLine ELSE UNCHANGED config
    /\ IF part = "skill" THEN K!SkillNext ELSE UNCHANGED skillVars
    /\ IF part = "life" THEN L!LifeNext /\ FewAfterOverlap ELSE UNCHANGED lifeVars

\* The fairness of SecretCommand, in its part.
MCFairness == /\ WF_vars(part = "command" /\ TaskStep)
              /\ WF_vars(part = "command" /\ KillOnCancel)

MCSpec == MCInit
          /\ [][MCNext]_<<part, vars, updateVars, releaseVars, compared, integrationVars, config,
                        skillVars, lifeVars, pageVars>>
          /\ MCFairness

\* The types of the parts.
HostTypeOK == CASE part = "command" -> TypeOK
                [] part = "updates" -> U!TypeOK
                [] part = "audio" -> H!AudioTypeOK
                [] OTHER -> TRUE

\* An installation is whole, of the release shown, which the publisher signed, and
\* versions are ordered; a server is alone, finds its brokers and keeps their
\* terminals over an update; what is installed into other programs is what was
\* answered; see UpdateInstall, ServerLife and Integrations.
UpdatesSound == /\ part = "updates" => U!InstallSound
                /\ part = "versions" => U!VersionsOrdered
                /\ part = "release" => U!ReleaseChecked
                /\ part = "integrations" => I!AnswersTrue
                /\ part = "upgrade" => J!AnswersTrue
                /\ part = "overlap" => O!AnswersTrue
                /\ part = "hermes" => I!EditsTrue
                /\ part = "skill" => K!SkillSound
                /\ part = "life" => L!LifeSound

\* The panes tile the workspace and follow the terminals; an editor shows and
\* replaces what it read; uploads replace nothing; answers of searches and lists
\* of artifacts are complete; the microphone is released and notes are handed
\* over; a page and the audio hub agree on what is on; recordings have no gaps; see
\* PaneLayout, Files, VoiceNote, VirtualAudio and DebugRecording.
PagesSound == /\ part = "panes" => P!LayoutSound
              /\ part = "tiles" => Q!LayoutSound
              /\ part = "edits" => F!EditSound
              /\ part = "uploads" => F!UploadsSound
              /\ part = "search" => F!AnswerComplete
              /\ part = "artifacts" => F!ArtifactsTrue
              /\ part = "notes" => N!NotesSound
              /\ part = "audio" => H!AudioSound
              /\ part = "recording" => D!RecordingSound

\* A canceled command stops streaming, and what the user installed in other
\* programs is left alone; see SecretCommand and Integrations.
CommandsBehave == /\ part = "command" => CancelEndsStreaming
                  /\ [][(part \in IntegrationParts => I!OthersKept)]_integrationVars
                  /\ [][K!SkillsKept]_skillVars
=============================================================================
