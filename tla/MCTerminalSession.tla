-------------------------- MODULE MCTerminalSession --------------------------
(***************************************************************************)
(* The parts of a terminal that share no state, checked in one run: its    *)
(* input, its viewports, the locks of its manager, what it shows of its    *)
(* agent, its foreground command and its processes, checkpoints on their   *)
(* way, what is read from its output and its keys, its emulator, and what  *)
(* an agent in it may do to others.                                        *)
(* A behaviour exercises one part, chosen when it starts; the other parts  *)
(* keep their initial state, in which InputSound, ViewportsAgree and       *)
(* LockDiscipline hold as well.                                            *)
(***************************************************************************)
EXTENDS TerminalInput, ClientViewports, SessionLocks

CONSTANTS MaxPendingOsc, SignalTail, MaxChunk, MaxStream,
          Kinds, Steady, Agy, Nobody, MaxRevision, MaxPid, MaxSequence,
          Sources, NoSource, RecordKinds, MaximumBytes, PageLimits, Readers, MaxWritten,
          RingLimit, ChunkOverhead, FrameBytes, MaxSafeSkip, Limits, MaxOutput,
          MaxCapturedPrompt, MaxEscape,
          Groups, Names, LongRunning, MaxSamples,
          MaxPids, MaxStarts,
          ChunkSize, Maximum, MaxSends,
          AgentCalls, ControlTerminals, Home, MaxActivity, MaxControlSteps,
          Newborn, Beside,
          StackLimit, MaxAttributes, MaxReceived, MaxWidth, MaxRows,
          EngineVersion, MaxRules, MaxGateDepth, MaxTotalGates, MaxMatchersPerGate,
          MaxTotalMatchers, TailBytes, MaxLines, MaxShown, MaxTitles

VARIABLES
    part,
    pending, pendingOsc, scanned, observed, stream, abandoned,
    agentShell, process, pids, agent, name, activity, sample, roster,
    store, written, reader,
    ring, safe, grounded, grounds, resized, pager,
    tracker, cleaner, odd, last,
    line, cursor, escape, paste, sent,
    candidate, command, watched,
    table, starts, scan, tracked, shot, reclaim, strikes,
    ours, knows, linked, flag, upstream, chunked, binary, stored, read, taken, sends,
    open, exposure, creator, controller, default, noted, acted, calls, during,
    done, controlSteps,
    term, twin, received, grid,
    screen, loaded, found, signals, said, titles, event

MCViewports == {[cols |-> 1, rows |-> 2], [cols |-> 2, rows |-> 1]}
MCDefaultSize == [cols |-> 2, rows |-> 2]

O == INSTANCE OscScanner
\* Agents of two kinds, one whose reports are numbered, and one after another.
A == INSTANCE AgentActivity WITH shell <- agentShell, MaxPid <- 1, MaxSequence <- 0
N == INSTANCE AgentActivity WITH shell <- agentShell, MaxPid <- 1, Kinds <- {Agy}
B == INSTANCE AgentActivity WITH shell <- agentShell, MaxSequence <- 0, Kinds <- {Agy}
T == INSTANCE AgentTranscript
S == INSTANCE ScrollbackPages
P == INSTANCE PromptCapture
D == INSTANCE ProcessTree
U == INSTANCE CheckpointUpload WITH stream <- upstream
C == INSTANCE AgentControl WITH activity <- acted, told <- noted
E == INSTANCE EmulatorState
X == INSTANCE AgentDetection

oscVars  == <<pending, pendingOsc, scanned, observed, stream, abandoned>>
agentVars == <<agentShell, process, pids, agent, name, activity, sample, roster>>
transcriptVars == <<store, written, reader>>
pageVars   == <<ring, safe, grounded, grounds, resized, pager>>
escapeVars == <<tracker, cleaner, odd, last>>
promptVars == <<line, cursor, escape, paste, sent>>
commandVars == <<candidate, command, watched>>
processVars == <<table, starts, scan, tracked, shot, reclaim, strikes>>
uploadVars == <<ours, knows, linked, flag, upstream, chunked, binary, stored, read,
                taken, sends>>
controlVars == <<open, exposure, creator, controller, default, noted, acted,
                 calls, during, done, controlSteps>>
emulatorVars == <<term, twin, received>>
detectionVars == <<screen, loaded, found, signals, said, titles, event>>

MCInit ==
    /\ part \in {"input", "viewports", "titles", "locks", "agent", "numbered",
                 "agents", "transcript", "pages", "escapes", "prompt", "command", "processes",
                 "upload", "control", "keyboard", "screen", "reflow",
                 "regions", "rules", "signals", "hooks"}
    /\ Init /\ ViewportsInit /\ O!Init /\ LocksInit /\ A!Init
    /\ T!TranscriptInit /\ S!PagesInit /\ S!EscapesInit /\ P!PromptInit
    /\ D!ForegroundInit /\ D!TreeInit /\ U!UploadInit
    /\ C!ControlInit /\ E!EmulatorInit /\ E!GridInit
    /\ X!DetectionInit
    /\ part \notin {"agent", "numbered", "agents"} => name = "automatic"
    /\ part # "upload" => ours /\ knows
    /\ part # "reflow" => grid.from = 1 /\ grid.to = 1 /\ grid.height = 1
    /\ part # "rules" => signals = X!NoSignals
    /\ part # "control" => /\ default = "off"
                           /\ \A t \in ControlTerminals : exposure[t] = "default"

MCNext ==
    /\ UNCHANGED part
    /\ IF part = "input"     THEN Next   ELSE UNCHANGED inputVars
    /\ IF part = "viewports" THEN ViewportsNext ELSE UNCHANGED viewportVars
    /\ IF part = "titles"    THEN O!Next ELSE UNCHANGED oscVars
    /\ IF part = "locks"     THEN LocksNext ELSE UNCHANGED lockVars
    /\ CASE part = "agent"    -> A!Next
         [] part = "numbered" -> N!Next
         [] part = "agents"   -> B!Next
         [] OTHER             -> UNCHANGED agentVars
    /\ IF part = "transcript" THEN T!TranscriptNext ELSE UNCHANGED transcriptVars
    /\ IF part = "pages"     THEN S!PagesNext   ELSE UNCHANGED pageVars
    /\ IF part = "escapes"   THEN S!EscapesNext ELSE UNCHANGED escapeVars
    /\ IF part = "prompt"    THEN P!PromptNext  ELSE UNCHANGED promptVars
    /\ IF part = "command"   THEN D!ForegroundNext ELSE UNCHANGED commandVars
    /\ IF part = "processes" THEN D!TreeNext ELSE UNCHANGED processVars
    /\ IF part = "upload"    THEN U!UploadNext ELSE UNCHANGED uploadVars
    /\ IF part = "control"   THEN C!ControlNext ELSE UNCHANGED controlVars
    /\ CASE part = "keyboard" -> E!KeyboardNext
         [] part = "screen"   -> E!ScreenNext
         [] OTHER             -> UNCHANGED emulatorVars
    /\ IF part = "reflow"    THEN E!GridNext ELSE UNCHANGED grid
    /\ CASE part = "regions" -> X!ScreenNext
         [] part = "rules"   -> X!DetectNext
         [] part = "signals" -> X!SignalNext
         [] part = "hooks"   -> X!HookNext
         [] OTHER            -> UNCHANGED detectionVars

MCSpec == MCInit
          /\ [][MCNext]_<<part, inputVars, viewportVars, oscVars,
                          lockVars, agentVars, transcriptVars, pageVars,
                          escapeVars, promptVars, commandVars, processVars,
                          uploadVars, controlVars, emulatorVars, grid, detectionVars>>

\* The types of the parts.
SessionTypeOK == CASE part = "input" -> TypeOK
                   [] part = "viewports" -> ViewportsTypeOK
                   [] part = "locks" -> LocksTypeOK
                   [] part = "agent" -> A!TypeOK
                   [] part = "numbered" -> N!TypeOK
                   [] part = "agents" -> B!TypeOK
                   [] part = "prompt" -> P!PromptTypeOK
                   [] OTHER -> TRUE

\* A signal strikes what it was meant for, and a terminal's processes are its own;
\* see ProcessTree.
ProcessesSound == D!TreeStaysSound
\* Titles are found wherever the output is cut, pages of output go on where the
\* last one ended and cut no sequence, readers of a transcript miss nothing untold,
\* checkpoints are stored whole and never typed, an emulator that is restored or
\* resized goes on as it was, and an agent's state is read by the best rule about the
\* part of the screen it means; see OscScanner, ScrollbackPages, AgentTranscript,
\* CheckpointUpload, EmulatorState and AgentDetection.
OutputRead == CASE part = "titles"     -> O!TitlesFound
                [] part = "pages"      -> S!ScrollbackSound
                [] part = "escapes"    -> S!PagesCutBetween
                [] part = "transcript" -> T!TranscriptSound
                [] part = "upload"     -> U!UploadSound
                [] part \in {"keyboard", "screen"} -> E!EmulatorSound
                [] part = "reflow"     -> E!CursorFollows
                [] part = "regions"    -> X!RegionsPart
                [] part = "rules"      -> X!Detected
                [] part = "signals"    -> X!SignalsTrue
                [] part = "hooks"      -> X!EventsTrue
                [] OTHER -> TRUE
\* Names by rank, summaries of their task, revisions that tell; prompts are what
\* was typed; commands shown are those that ran; agents see and touch what was
\* opened to them; see AgentActivity, PromptCapture, ProcessTree and AgentControl.
AgentSound == /\ A!AgentSound /\ P!PromptSound /\ D!CommandStaysTrue
              /\ [](part = "control" => C!ControlSound)
=============================================================================
