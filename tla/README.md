# A TLA+ development of term-server

term-server keeps terminals alive on a server and shows them in a browser. A
web process authenticates browsers and proxies them to one or more *broker*
processes, which own the pseudo-terminals; agents running inside a terminal ask
the broker for secrets and for root commands that the user reviews in the
browser. The modules in this directory model the parts of it whose correctness
depends on the order in which several actors act, check them with TLC on small
instances, and prove what matters most about fifteen parts of it for every instance
with TLAPS: the access manager, the redactor of secret commands, the terminal stream,
flow control, typed input, viewports, locks, the pool of brokers, how servers and
brokers replace each other, updates, passwords, login attempts, activity views, the
settings of agents' terminals, and browser tabs.

Line numbers below are of the repository's files; Rust files without a
directory are in its `src/`, client files in its `src/client/`.

    tlc -config MCAccessSudo.cfg MCAccessManager      # one run
    tlc -config MCServerProcess.cfg MCServerProcess   # eleven parts in one run
    tlapm AccessManagerProofs.tla                     # some of the proofs

## 1. The system

| part | code | state | operations |
|---|---|---|---|
| access manager | `access.rs` | requests, grants, shares, running secret commands, one broadcast channel each | request, add, approve, reject, revoke, generate, share, reveal, dismiss, execute, clear |
| secret command, redactor | `access.rs` 2068-2263 | child, output channel, held-back bytes | spawn, deliver, forward, kill, reap |
| terminal session | `terminal.rs` | pty, viewports, input queue, flow control, output state, exit status | publish, resize, input, subscribe, attach, exit, kill |
| terminal output state | `terminal_state.rs` | sequence, delta ring, grid epoch, safe points, checkpoint | publish, resize, sync, store checkpoint |
| emulator state | `terminal_state.rs` | modes, keyboard flags, attributes, the normal screen's, a plan of rows | handle a control sequence, take a snapshot, resize |
| agent detection | `agent_detection.rs`, `terminal.rs`, `agent_events.rs` | a manifest of rules, title and progress signals, files of chat names | load, read a screen, observe a title, take a hook's input |
| terminal registry | `terminal.rs` | sessions, names, order | create, list, rename, remove, prune |
| agent record | `terminal.rs` | agent, activity, name of a terminal, and what made it change last | sample the processes, take a hook's event, submit input, rename, label, exit |
| session broker | `broker.rs` | manager + access manager, per process | the two families of access endpoints, the reaper, the attach proxy |
| broker pool | `broker.rs` | current and draining generations, owners cache | list, owner, create, retire, drain |
| workspace | `workspace.rs` | backend, client lease, socket loop per browser | attach, coalesce, resynchronize, checkpoint, acknowledge |
| terminal control | `terminal_control.rs` | exposure settings, browser tabs, pending tab commands | heartbeat, command, acknowledge, retain |
| authentication | `auth.rs` | credentials file, cookie secret, login windows | log in, verify, change password |
| server and brokers, life | `main.rs`, `broker.rs`, `terminal_control.rs` | control socket, token, socket files, generations | claim, probe, start, configure, take over, drain, stop, restart |
| updates | `update.rs` | installed binary, client, skills, backups | check, download, verify, replace, roll back |
| activity views | `activity_view.rs` | the completions a user has seen, by terminal, and their file | list, mark seen, remove |
| fili | `fili.rs` | settings, a conversation, a wake-up permit | wake, sweep, run rounds of model and tools, compact |
| virtual audio | `audio.rs`, `lib/virtual-audio.ts` | devices, the routes of microphone and speaker, connection counts | connect, select, start, fail, shut down |
| transcript history | `history.rs` | a bounded store of records with cursors | record, replace, trim, page |
| scrollback | `terminal_state.rs` | the ring of raw output, its safe ends | append, cut a page |
| files and artifacts | `files.rs`, `artifacts.rs`, `components/ResourceWorkspace.tsx` | the file system, an editor's content and version | read, save, upload, search, list, remove |
| agent integrations, artifact skill | `agent_integrations.rs`, `artifact_skill.rs` | other programs' plugins and configuration, links | install, repair, remove, edit, bring up to date |
| status | `status.rs` | a cache with deadlines, settings and their file | poll, refresh, back off, change |
| debug recording | `debug_recording.rs` | a flag, the recorded events | start, record, stop, clear, export |
| layout, voice notes | `lib/layout.ts`, `App.tsx`, `lib/voice-note.ts` | a tree of panes; a microphone and its note | open, close, drag, resize, prune; record, discard, hand over |
| browser pane | `components/TerminalPane.tsx`, `lib/terminal-stream.ts` | stream positions, xterm's write queue, unacknowledged bytes | connect, receive, parse, acknowledge, upload a checkpoint, close |

How they interact:

* The web process and a broker speak HTTP over a Unix socket. A call that takes
  longer than a time limit is dropped, and with it the future of its handler: a
  handler may stop at any `await`.
* In a broker every component is behind a lock of its own. Work under one lock
  is atomic; the broker's check that a terminal runs and the call of the access
  manager that follows are not.
* A session publishes output, sizes and its exit on one bounded broadcast
  channel. A socket loop per browser reads it, and answers a receiver that fell
  behind by subscribing again. The browser parses asynchronously, acknowledges
  what it parsed, and reconnects by itself.
* The reader thread of the pty stops while browsers owe too much, with a
  deadline.
* A reaper in the broker lists running terminals and clears the access state of
  all others.

What is hard about it: handlers that let go of a lock and come back (sudo's
password check), two ways to clear a terminal that race with calls which have
passed their check, receivers that lag, connections that break in the middle of
a synchronization while writes are still queued in xterm, a counter of debt that
several browsers share, output cut into chunks anywhere, and generations of
brokers that answer late or not at all. `PROJECT.json` lists each hazard at the
line where it bites, with the properties that would catch it.

What makes each part correct, whether modelled yet or not:

* **access manager**: a name is granted once and never asked for while it is
  granted; a share offers a value that is still the grant's, and hands it out
  once; a root command runs once and after a verified password; nobody waits on
  a channel nobody will send on; a dead terminal leaves nothing behind.
* **secret command**: the secret is never shown however output is cut, all output
  comes before Completed, and an abandoned command is stopped.
* **stream**: a pane shows a point of the terminal's history, catches up, and
  hears the exit after the last byte.
* **flow control**: the debt is owed by somebody, a pause can be paid, and the
  reader is never parked for ever.
* **session**: input is written in order, once, and answered once; the grid is
  the smallest of the viewports that count; one client answers queries.
* **broker pool**: a terminal that exists is found wherever it lives; a
  generation is retired only when it is empty; what did not answer is not taken
  for gone.
* **terminal control**: settings outlive a silent broker, a tab command is
  answered once.
* **authentication**: a password change ends every session; the limiter's windows
  bound attempts.
* **updates**: after a failure the installed parts are all old or all new.
* **locks**: whatever a session's threads do at once, no circle of them waits.
* **agent record**: a summary, a completion or a name belongs to the task and the
  person it is shown for, and an observer can tell two states apart.
* **activity views**: what was seen stays seen, after a restart too.
* **fili**: its conversation is one a model's interface accepts, it stays bounded,
  and no terminal that needs a label is passed over.
* **audio**: the page that believes it has the microphone has it, and the counters
  that turn devices off reach zero.
* **server life**: one server owns a data directory, every broker that holds
  terminals is found, and no update loses a terminal.
* **history and scrollback**: a reader who follows the cursors misses nothing and
  reads nothing twice; a page is cut where the next can be cleaned by itself.
* **emulator**: what a snapshot restores behaves like what it was taken of.
* **agent detection**: a state is one that the screen, a title or a hook said, and the
  latest of them; a manifest that is refused changes nothing.
* **files, artifacts, integrations**: nothing of another's is overwritten or
  removed, and what was answered is so.
* **control**: an agent reads, writes and creates what was shared with it at some
  moment of its call.
* **processes**: a signal strikes a process of the terminal, or none.

## 2. What is modelled

### AccessManager, AccessManagerProofs

One module for `AccessManager` together with what the broker does around it:
`terminal` is the registry as the access endpoints see it (a `removing` terminal
has left the registry and has not been cleared), `call` is the point between the
broker's check and the manager's lock, `sweep` the point between the reaper's
listing and its clearing. `requests`, `grants`, `shares`, `executions` are the
four maps of `AccessState`; `stream` is the subscription each agent reads, with
the broadcast queue and its lag; `approval` is the `approve_sudo` call a user is
in, by the `await` it has reached; `commands` and `roots` are the spawned tasks.
`verified`, `started` and `reveals` are history.

One action is one critical section. `approve_sudo` is split where the code lets
go of the lock: `ApproveSudo`, then `PasswordRejected` or `PasswordAccepted`,
then `RefuseChangedObjects` or `StartApproved`, with `AbandonApproval` for a
handler dropped at an await. The checks of the broker are `Authorize`, and every
error return before a change is `Refuse`. Uuids come from finite pools and may
be used again once nothing refers to them, as a fresh uuid would. A grant's
value is identified with the grant's id, so "the old value" can be told from
"the new one".

Time is a flag: `due` on a share says that its deadline, or the retention of a
resolved one, has passed.

### SecretCommand, SecretCommandProofs

The streaming redactor as operators on sequences of symbols: `MatchAt`, `Scan`,
`Limit` and `Push` are the loop of `push`, and `Redacted`, one scan of
everything, is the reference. It runs between two actors: the task
(`run_secret_command`, `stream_child`) and the process group, which writes,
closes its pipes, exits, or leaves a descendant that keeps them open.

### TerminalStream, TerminalStreamProofs

From the session to the screens. The screen is abstracted to the *history* of
what it was fed: a sequence of cells `<<k, epoch>>`, the k-th byte of the output
laid out in the grid of that epoch, so that "the same screen" is decided without
an emulator. `output` is `TerminalOutputState`, `receiver` a browser's broadcast
receiver with the loop's `sent_sequence`, `wire` the frames in flight, `pane` the
state of the pane and of `TerminalStreamState`, xterm's write queue included, and
`upload` a checkpoint on its way. `Synchronize` is subscription and the messages
that open it; `ForwardOutput` includes the coalescing of queued events; `Parse` is
xterm's callback; `SettleClose` is the close handler after the writes settled or
the wait for them timed out.

### FlowControl, FlowControlProofs

`FlowControlState` with the reader's wait on one side and the browsers'
`TerminalOutputAck` on the other. `missed`, `feed`, `batch` and `acks` are the
four places an unacknowledged byte can be: published before the browser
subscribed, on its way or unparsed, parsed and short of a batch, and
acknowledged on the way. The deadline is two steps, `Lapse` and the wake-up that
looks at it, so that an acknowledgement can come between.

FlowControl and TerminalStream share the session, but not their state: the
session's flow control decides only *when* the reader publishes, which
TerminalStream leaves open.

### TypedInput, TerminalInput

`TerminalInput` is the queue between callers and the pty: `write` and
`write_confirmed` with their limits on messages and bytes, the emulator's answers
in a queue that goes first, the one writer thread, the pty that blocks or fails,
confirmations with their time-out, and the end of the session. Messages are
numbered as they are accepted; `typed` (what the pty got) and `told` (what a
caller heard) are history. `TypedInput` is the abstract specification: a line of
accepted messages, typed from its front until the terminal ends. The refinement
mapping takes for the line the message in the writer's hand and then the queue
(`Contract`, `InputInOrder`).

### ClientViewports and SessionLocks

* `ClientViewports`: `attach`, `detach`, `resize`, `activate`, `release` and
  `focus` with the whole of `update_viewports` under the viewports lock: the
  negotiated grid, the responder, the pty resize that may fail half way and costs
  the client that caused it its connection.
* `SessionLocks`: every operation of `terminal.rs` that takes more than one lock,
  as the list of its takes and gives. `sessions` and `info` are read-write locks
  whose waiting writer holds up new readers. An operation that returns early gives
  back what it holds and takes no more, so it waits in no other state.

`SessionProofs` holds the proofs about `TerminalInput`, `ClientViewports` and
`SessionLocks`.

### The other parts of a session

* `TerminalRegistry`: create, remove, shutdown, the exit thread with its drain,
  the pruning of exited terminals, `kill` and `reclaim` of a session's processes.
  A pass over `/proc` is one step, and jobs come and go between two.
* `ProcessTree`: what that pass reads while processes fork, exit and change their
  group, a line at a time, and pids that name another process by the time they
  are signalled; and, in its second part, the command in the foreground as the
  sampler guesses it from the group that owns the pty.
* `OscScanner`: `TerminalSignals::observe` and `osc_end` on chunks cut anywhere,
  against a reference that sees the whole output at once.
* `ScrollbackPages`: the ring of raw output with its safe ends and the pages
  agents read, and, in its second part, the two automata that tell escape
  sequences from text: the tracker that decides where a page may end and the
  cleaner that reads one.
* `AgentTranscript`: the bounded store of transcript records, deduplicated by
  their authors' ids, and readers that follow its cursors.
* `AgentActivity`: the record of the agent in a terminal under the process
  sampler, the events of hooks, submitted input, a person's rename, fili's names
  and summaries, and the exit. A sample is taken before the locks and used under
  them. Times are kept as what they are compared for.
* `PromptCapture` with its abstract `LineEditor`: the prompt gathered from keys,
  escape sequences and bracketed pastes implements the editing of a line.
* `EmulatorState`: what the emulator keeps besides the cells (input modes, the stack
  of keyboard flags, attributes, the alternate screen and the mode that entered it),
  the control sequences of a snapshot, and a twin that replays them: from then on the
  two must handle every sequence alike. In its second part, the plan that lays rows
  out in another width and says where a cursor goes.
* `AgentDetection`: in three parts, manifests that are checked, loaded and evaluated
  on the regions of a screen; the titles and progress reports that signal work or
  rest; and the events made of a hook's input, with the name of its chat read from the
  end of a file.
* `CheckpointUpload`: a checkpoint in JSON chunks or as announced binary frames,
  between the input of the same connection, to brokers of two ages.

### The server process

* `BrokerPool`: current and draining generations, the owners cache, listings that
  some generations do not answer, creation and rename under the create lock,
  forwarded calls whose answer is lost though the broker carries them out, the
  reaper that retires empty generations, shutdown, and the pool found at start.
* `TerminalControl`: exposure settings and their file, changes by users and by
  agents, and `retain`, which takes its locks one after another on several
  threads; ages count in parts of the grace period. In its second part, the registry
  of browser tabs and a page of `App.tsx` together; heartbeats, commands and
  acknowledgements may be lost, late, or from before a reload.
* `AgentControl`: a call on the control socket from its listing through its check
  to what it does and notes, while the user changes what is shared and terminals
  come and go; callers that name a terminal that is not theirs.
* `Auth`: the credentials file, the secret in memory, two changes at once, sessions;
  and, in its second part, the windows of the login limiter with its table of limited
  size.
* `ActivityViews`: completions counted, shown, marked and removed, with the
  file and a restart.
* `Fili`: its loop with wakes, sweeps and the spacing of runs; a run's rounds, the
  conversation and its compaction; the settings that a user changes at any time.
* `StatusCache`: the status line's cache with its one refresher, its deadline and
  the backoff of each provider; its settings with their file; and, in a third part,
  one question to a provider: where its credential is found while agents log in and
  out, the account that goes with it, the windows of usage in the answer and the worst
  one, which the line shows.

### The host and the page

* `ServerLife`: servers that claim the control socket over a stale file, look for
  brokers, start one, configure it, restart, are updated and die at any point, and
  brokers that drain and stop. `ServerLifeProofs` has its proofs.
* `UpdateInstall`: channel and file, check, install under its lock, one rename a
  step with every rollback, the process that dies; in a second part, the order of
  versions on every triple of a small set; and in a third, one release on its way from
  the channel's host to the place from which it is installed: a body in chunks, the
  manifest with its signature, the archive entry by entry, each with its limit.
  `UpdateInstallProofs` has the proofs.
* `Integrations`: in three parts, the installation, repair and removal of hooks in
  five other programs by commands that fail or fail late; Hermes' `config.yaml`,
  edited line by line without a parser; and the bundled artifact skill, which
  each start brings up to date and requests link into an agent's directory.
* `Files`: in four parts, an editor in the browser that reads and saves a file that
  others write, uploads whose names are taken meanwhile, searches with their limits,
  and artifacts listed, edited and removed.
* `VirtualAudio`: the hub with its sockets on one side and the page that selects
  devices on the other, with a bounded wire between them that may break.
* `PaneLayout`: the tree of panes, under the user and under stale listings.
* `VoiceNote`: a microphone's note with its events in the browser's order.
* `DebugRecording`: connections that look at a flag without the lock that the
  recording is kept under.

`ServerProofs` holds the proofs about `BrokerPool`, both parts of `Auth`,
`ActivityViews`, and both parts of `TerminalControl`. To stand in one module with it,
and in one run, all but the tabs name their specifications after the part
(`PoolSpec`, `AuthSpec`, `LimiterSpec`, `ViewSpec`, `SettingsSpec`).

The MC modules compose these. `MCTerminalSession`, `MCServerProcess` and `MCHost`
extend the components whose properties a theorem names, and instantiate the others.
They have a variable `part`: a behaviour chooses one part when it starts and exercises
it, while the others keep their initial state. The parts share no state in the
code either (or meet in a component that is modelled on its own), so that the
composition is their sum and not their product. Fairness is guarded by the part.

## 3. The runs

| run | instance | shows |
|---|---|---|
| `access_secrets` | 2 agents, 1 user, 2 names, 2 ids, 2 grants, every cap 1, channel of 1; symmetric (about a million states) | grants, requests, shares, waiters and streams agree in every interleaving of the secret side, with every cap reached |
| `access_sudo` | 2 agents, 2 users, 1 id, fair | the sudo side: two approvals race, the terminal dies at every point, everything is forgotten and everyone told |
| `terminal_stream` | 1 browser, 2 bytes, 1 resize, a ring of 1, a channel of 1, one message on the wire; fair | the pane shows the past, no frame is refused, checkpoints are exact, it catches up |
| `flow_control` | 2 browsers, both watermarks and the batch 2, chunks to 2, 3 bytes in flight; fair | debt, pauses and the deadline |
| `terminal_session` | 22 parts (about 850 000 states) | input in order and answered truly; one size everywhere; no stranger struck; titles found, pages and transcripts read without gaps; checkpoints whole and snapshots faithful; no circle of locks; an agent's record, prompt, command and state belong to its task; agents do what was shared |
| `server_process` | eleven parts (about 350 000 states); fair | listings and names true while brokers retire; exits reported, terminals reclaimed; settings, logins and views survive failures and restarts; pages and server agree; fili's conversation well formed; the status line true, and asked for with the right credential |
| `host` | nineteen parts (about 850 000 states) | nothing leaks and a cancellation ends the output; one server, every broker found, no terminal lost; updates whole or taken back, of a release that was looked at; hooks, skill and configuration belong to who made them; panes, edits, uploads, searches, artifacts, notes and recordings true; a page and the audio hub agree |
| `access_cap`, `access_orphan`, `secret_command_cancel`, `terminal_stream_gap`, `agent_after_exit` | the smallest instance that shows it | the disagreements of section 6 |

Why these bounds are enough to meet the interesting cases. Caps and capacities
of one make every "full" branch reachable with two elements. Two agents are
needed to join and to leave a request; two users to approve it twice. The ring
and the channel of one make a receiver lag and a position leave the ring after
two bytes, with a resize on either side of them. In `flow_control`, two
watermarks equal to the batch are the tightest pair the assumption allows; a
looser one is easier to pay.

`terminal_session`: the queue holds 2 messages or 3 bytes, less in bytes than in
messages of the larger size, so that both limits are met by 2 callers; 3 browsers
with 2 viewports are needed for the focus to leave one and the smallest grid to be
made of two others; output of 6 symbols in chunks to 3 cuts a title in every
place; 2 threads run every pair of lock programs; agents come in three parts: of 2
kinds (one has no end of its turn), with numbered reports, and one after another;
a transcript of 2 bytes and 3 records trims; a ring of 6 with frames of 2 drops
chunks under a reader; 3 pids and 2 starts let a pid be used again; a checkpoint
of 3 in chunks of 2 has a last chunk that is smaller; 2 calls by agents on 3
terminals, one of them born meanwhile; a keyboard stack of 2 is overrun by the third
of 4 control sequences, which are also what it takes to enter the alternate screen,
change it, come back and enter again; rows to 3 wide in all widths from 1 to 3; 2
rules of which one may be nested beyond the limit, 5 gates and matchers, 4 lines, 3
titles, and a chat file of 3 names that is longer than the tail that is read.

`server_process`: 2 generations are a current and a draining one; a second
listing, creation or rename overtakes the first with 2 tasks; 2 terminals with 1
retained make one push out the other; 2 retain threads race on the ages; the
limiter's table of 2 is one smaller than the number of addresses; 2 password
changes and 1 login; 2 rounds of fili; 2 providers and 2 pollers;
1 row more than is read of an answer, and 1 login between question and answer.

`host`: patterns shorter than the output of 8 symbols, so that a match can
straddle any cut; an update that fails twice, so that a rollback fails too; 2
servers and 3 brokers with 2 starts and 2 events; 2 OMP profiles with one
interference and one failed command, and 1 profile over an update besides;
after two takeovers of one socket file at a time no other crash, start or request
(`FewAfterOverlap`; the theorem has no such bound);
configuration files of up to 5 lines; 4 panes of which 2 fit, then 3 that all do,
and ratios in quarters (the limits are 1 and 3); 1 save and 1 write by others; 2
uploads of 1 name with 2 attempts where the code has 32; searches over 3 entries
with a limit of 1 and a budget of 2; 2 artifacts of which 1 is listed; 2
recorders; 1 socket with 3 messages and 3 controls; a page connects twice to the
audio hub; limits of 2 and 3 units for a release's manifest, archive and files, and 1
unit more than each.

What the instances leave out: two terminals at once (all state is keyed by the
terminal, and the code never compares two), two browsers of one stream (they
share only the session; a checkpoint uploaded by one and restored by another is
the same state as one uploaded before a reconnect, which the run has), and three
of anything. For the theorems of section 4 these bounds do not matter.

Every bound of a model has a name that begins with `Max` or is marked `bound`
where it is declared (`Longest`, `EntryBudget`, `WireCapacity` for the socket's
buffers); the others (`ChannelCapacity`, `RingBytes`, `EventCapacity`,
`QueueSize`, `NameAttempts`, the caps) are constants of the code made small.
Deadlock is not checked in the composed runs, because a part that has used up its
bound stops.

The `Faulty...`, `Silent...`, `Lazy...`, `Blind...` and other definitions that
stand unused beside the real ones are plausible bugs: no action uses them, and
putting one in the place of the definition after it breaks the property
PROJECT.json pairs it with.

### Fairness

* `access_sudo`: the reaper's two steps, the second half of a removal (code that
  runs to its end once begun), a refused call's return, an agent that reads its
  stream to the end and drops it, the end of a finished task. Users, sudo and
  commands owe nothing; neither does an authorised caller. `DeadTerminalEnds` (forgotten,
  and its waiters told) holds all the same, because the reaper comes
  round again.
* `host`: in the command's part the task runs, and `select!` polls its two branches
  in random order, so an enabled cancellation is not passed over for ever. The
  command owes nothing. The other parts are safety only.
* `terminal_stream`: the socket loop, the pane's message handler, xterm's parser,
  the close handler, the reconnect timer, and the exit thread, which sends its event
  once it has marked the exit. Nothing makes the terminal write,
  a pane upload, or a connection break; catching up, in `Follows`, is conditional
  on the connection lasting.
* `flow_control`: the reader's own loop and its deadline only. Browsers owe
  nothing: that is the point of `ReaderResumes`.
* `server_process`: in the registry's part the drain, the exit thread and a
  removal that has begun run; the shell and its jobs owe nothing. The pool's reaper
  retires; each thread that calls `retain` runs, time passes for it, and the writing of
  the settings file, which may fail, succeeds once if it is tried for ever (strong
  fairness of `DropSettings`);
  fili's loop runs and its spacing passes. Nothing makes a broker, a browser, a
  user or a model answer.

## 4. What is proved

Eight modules hold theorems, and each extends the components it is about:
`SessionProofs` three of them, `ServerProofs` six parts in four modules, the others one.
A theorem listed in PROJECT.json with a property states a property
that a run checks too: the run on its instance, the theorem for every value of the
constants that the named assumptions allow.

### The access manager

For every set of terminals, callers, names and uuids, with `BoundsAssumption`
(caps are naturals, a channel holds at least one event) and `NoneAssumption`:

* `AccessManagerProofs`: `TypeCorrect`. The types are inductive as they stand,
  because the record sets say what the code keeps: a waiting stream names its
  target, an approval its request, and a request for a secret a secret's name.
  Going back to Pending is the step that needs it: `approve_sudo` must look
  whether the request is still there.
* The same module, on the sudo side: `OneActorPerRequest`, `RootHolds`
  (`RootOnce`: one actor per request, and a root command only after a verified
  password) and the action property `LifecycleHolds` (`RequestLifecycle`), from
  `SudoInvariance`. The strengthening is `ApprovalHolds`: the request of an
  approval in progress is authenticating or was cleared meanwhile, no task has it
  and nothing was started for it; and `NotYetStarted`. Most steps only forget
  requests; one lemma (`ForgettingIsSafe`) covers them, and one (`ApprovalEnds`)
  the four ways an approval ends.
* On the secret side: `GrantsAnswerOnce` (`GrantsAnswer`), `OffersHold`
  (`OffersSound`) and `RevealedOnceOnly` (`RevealedOnce`), from
  `SecretInvariance`. It rests on the sudo invariant: a refused password makes a
  request pending again, and only the fact that what is authenticated is a root
  command (`OnlySudoApproved`) keeps that from asking for a granted secret.
* Its second half: `StreamsHold` (`StreamsServed`: the waiter count of a
  request or share is the number of agents attached to it, and nobody reads a
  channel on which nothing will be sent), `AbandonedIsCanceled`
  (`AbandonedCommandCanceled`) and `CapsAlwaysHold` (`CapsHold`), from
  `StreamInvariance`.

The argument of the last. That nobody waits for nothing depends on the counts:
the last waiter of a request takes it away as it leaves, and strands somebody if
it was not the last. The counts in turn depend on a uuid naming one thing only,
a request, a share or a command (`UuidsUsedOnce`), and on an agent having one
stream at a time (`OneCallPerAgent`): otherwise a stream dropped for a command
would be counted down on a share. Each step does one of a few things to the
streams: it tells some of them (`TellingIsSafe`), leaves them alone
(`QuietIsSafe`), adds a waiter (`WaitingIsSafe`), answers one (`AnsweringIsSafe`),
starts a command (`ExecutingIsSafe`), reads (`ReadingIsSafe`) or drops one
(`DroppingIsSafe`), and the lemmas about the operations only say which. The
invariant says more than the property: every reader has been told (`Told`; a lag
stands for what it hides) or has a sender, and the root task is never needed as
one. `WantedCommandRead` says that a command that is not canceled has its
terminal and its reader. The caps are about cardinalities, so `CapInv` carries
that the grants and the live shares of a terminal are finite, and
`RoomMadeForGrant` and `RoomMadeForShare` are the code's evictions before an
insertion: what is evicted leaves one place. The per-terminal cap of pending
requests is not among them: section 6 says why it does not hold.

### Secret commands

`SecretCommandProofs`, for every set of patterns (`PatternsAssumption`: they are not
empty and, since `secret_redaction_variants` returns a `Vec`, finitely many), every
output and every way to cut it into chunks: `OutputHolds` (`OutputSound`), `TypeCorrect`
and the invariant (`Invariance`).

The argument. `Scan` is a recursive function, and the provers do no induction over
data. That the function exists is shown by a least counterexample (`ScanDefined`), for
which a lemma about least numbers is enough (`LeastNumber`), and that what it computes
has a *trace* (`ScanTraced`): the position in the text behind every symbol that goes
out, each a match that was replaced or a symbol that was passed on. The rest follows
from traces alone. What has one shows no pattern (`TraceShowsNothing`): a pattern in
what was sent would have been found where it began. A text has one trace to its end
(`TracesAgree`). And the traces of one push after another make up one trace of all that
was pushed (`TraceJoin`), because no decision is taken before the bytes it could need
have come: that is what holding back one byte less than the longest pattern is for.
`Invariance` says that what was sent, what is held back and the queued chunks make up
what was read, in order, whatever the task, the command and whoever cancels it do.

### The terminal stream

`TerminalStreamProofs`, for every number of browsers, every length of output and
every capacity of the ring, the channel, the wire and the write queue that
`StreamAssumption` allows (the queues hold at least one element):

* `TypeCorrect`, and `Invariance`: the inductive invariant `Inv`;
* `PaneHolds` (`PaneIsTrue`: a pane that takes input shows the terminal up to
  some point, every byte once, in order and in the grid it was written for, and
  what it says it committed is what it shows) and `CheckpointHolds`
  (`CheckpointExact`: a checkpoint the broker keeps, followed by the output since,
  is the terminal's screen), both under `SizeSyncTogether`;
* `FramesHold` (`FramesAccepted`: no frame that arrives is refused, and the exit
  comes after the last byte) and `BytesHold` (`BytesInOrder`: the numbers of the
  bytes on a screen are right), without it.

`SizeSyncTogether` is the hypothesis that a connection does not break between the
size and the sync message of a synchronization. The code does not guarantee it:
`terminal_stream_gap` is the run where it fails, and section 6 the disagreement.
The theorems say what depends on it: the grids do, the bytes and the protocol do
not.

The argument. What a pane is told is spread over the queue of its receiver, the
wire and xterm's own queue of writes, and each of them may be cut off. `Inv` says
that these are one way. A *stop* is what a pane has of its stream: a position, a
grid, and which part of a synchronization it is in. There is a route of stops
(`Way`) along which the messages on the wire take the pane from what it has
received to what was sent to it, each message legal where it arrives (`Leg`);
there is a route of positions (`QueueInv`) along which the queued events take it
from there to the terminal as it is now, unless the receiver has been lagged, which
makes the loop start over; and the writes that are its own take the screen from
what is committed to what is received (`Following`), or clear it and put a
snapshot on it (`Clearing`, `Restored`). Each stop but one *fits*: the grid is one
that the terminal had while it had that many bytes (`Had`); the one is between a
size and a sync message, which is where the hypothesis enters. What the terminal
does only appends to all routes at their end (the lemmas named `...Later` and
`QueueLater`); what the socket loop does moves stops from one route to the other
(`OutputSent` with `MergedHops` for the coalescing, `ControlSent`); what the pane
does takes them off at the front (`WayHead`, then one lemma for each kind of
message); a synchronization replaces all (`SyncWay`). Safe checkpoints rest on
`SafeInv`: since the points that a checkpoint may be taken at, the grid has not
changed.

### Viewports

`SessionProofs` proves `ViewportsAlwaysAgree` (`ViewportsAgree`) for every set of
browsers and viewports. The assumption is that ids are numbers, as they are, and
that dimensions are at least 1, as `TerminalViewport::new` makes them (`terminal.rs`
327-328). `GridAgrees`, `RolesHeld` and `FitsThoseShown` are inductive together
with the types: `UpdateKeeps` shows that `update_viewports` either announces what
it is handed or leaves it marked as refused, whatever it is handed as long as the
roles go to clients that are there (`Proper`), and one lemma for each group of
operations shows that they hand on the roles of the client they take away. The
smallest grid and the smallest id are a lemma about least numbers.

### Locks

`SessionProofs` proves `LocksAreDisciplined` (`LockDiscipline`): locks are taken in
order, and no set of threads waits in a circle, for any number of threads and
with no hypothesis. The run cannot show that: a circle of readers that wait behind
a waiting writer may need three threads. The proof has two halves. Every program
of the code is *orderly* (`Orderly`, `ProgramsRun`): it takes only locks above
those it holds and gives back all. Programs are composed by sequence and by
guarding, so that the lemmas `SequelRuns` and `UnderRuns` about these two prove all
of them. And in
orderly programs nobody waits in a circle (`OrderPreventsCircles`): among the
threads of a circle take one that wants the highest lock that is wanted. Whoever
keeps it from that lock holds it, or waits for it as a writer behind somebody who
holds it; the holder wants nothing, or something higher.

### Flow control

`FlowControlProofs` proves, for every set of browsers, watermarks, batch and
bounds with `0 < AckBatch <= Low <= High`. The code's constants are 5 000 bytes
(`TERMINAL_ACK_BYTES`, `lib/terminal-stream.ts` 28), 5 000 (`terminal.rs` 100) and
100 000 (`terminal.rs` 95): the first inequality is tight, as in the run.

* `TypeCorrect`: the types, and so that the debt never wraps below zero;
* `DebtHolds`: `[]DebtSound`, that is `DebtIsOwed` and `PauseIsPayable`;
* `WriteOffJustified`: the action property `WriteOffOnlyWedged`;
* `Invariance`: the inductive invariant they follow from.

The argument. `DebtIsOwed` says that a subscribed browser has, unparsed, batched
or on its way as an acknowledgement, at least what the session counts. It is
kept because every step that takes bytes away from a browser without
acknowledging them (a snapshot, a detach) clears the counter for all. It is not
enough for `PauseIsPayable`: a browser may hold the whole debt as a partial batch
it will not send. So `IInv` adds that a paused session owes at least `Low`
(`PausedOwesLow`: the latch goes only above `High`, and opens below `Low`) and
that a partial batch is smaller than `AckBatch` (`BatchIsPartial`); with
`AckBatch <= Low` something is left that will be acknowledged. That is where the
assumption on the constants is used: with a batch larger than the low watermark a
terminal could stay paused until the deadline. `WriteOffOnlyWedged` needs
`WaitRemembers`: while the reader waits the debt only shrinks below what the
reader remembered, strictly once an acknowledgement counted, because the reader
is the only publisher. The saturating subtraction has its lemma `MinusBounds`.

### Typed input

`SessionProofs` proves for every set of callers, every size of message and
every limit of the two queues (`InputAssumption`):

* `TypeCorrect`, and `InputSoundHolds`: `[]InputSound`, that is `AnswersTrue` (who
  was told that a message was typed was told the truth, and who was told it was
  not will not see it typed) and `WriterAwake` (the writer does not sleep beside a
  message);
* `InputInOrderHolds`: `Spec => Contract!Spec`, the refinement of `TypedInput`;
* `Invariance`: the inductive invariant they follow from.

The argument. `InputSound` is not inductive: an answer can be given long after a
message left the queue. `IInv` adds `Numbered` (what is typed, in the writer's hand
and queued is numbered in increasing order, below what was accepted), `Settled`
(once the writer has failed nothing is queued any more, and the message it failed
on was not typed), `SlotsTrue` (a caller waits exactly for its message, and what its
channel holds is so) and `ErrorsFinal` (an error is told only after a failure). The
refinement follows from
`Numbered` and the step lemmas: accepting appends to the line, writing takes its
front, and everything else leaves it alone.

### The pool of brokers

`ServerProofs` proves, for every set of generations, terminals, names and
concurrent requests (`PoolAssumption`: the current generation is one of them, and
the marks of a free lock and of a compared listing are not taken for a generation
or a terminal):

* `PoolTypesHold` (`PoolTypeOK`), and so that the create lock is held by exactly the
  request that creates or renames;
* `PoolStaysSound` (`[]PoolSound`): `ListingComplete`, a listing that every
  generation answered shows each terminal that was there when it began and still
  is, and `GivenNamesUnique`, two terminals never share a name that users gave them
  through this pool.

The argument. A listing goes from one generation to the next while other requests
create and remove terminals, and the reaper takes generations out of the pool: it
would miss a terminal whose generation left the pool, or which moved. The invariant
`PoolInv` says of each generation that the pool answers for it or nothing is in it
(`Pooled`), of each request that it knows of pooled generations only and has heard
of what it should show or will ask for it (`ListingOK`), and of the reaper that what
it forgets is empty (`ReaperOK`). The last holds because a draining generation
creates nothing, so that empty stays empty between the reaper's question and its
answer. For the names, a request under the create lock has on its list every
given name it has not yet to ask for (`NamesOK`, before it compares), and after
that nobody but the terminal it is about has the name it wants: no other request
can give one meanwhile, and one that was given up on and is still carried out
(`overdue`) gives none that counts, for nobody was told. `OwnersOK` says that the
cache sends a rename to a generation of the pool. One lemma covers the steps that
give no name and leave the requests alone (`BrokersMove`), one each the answers of
brokers (`RequestAnswered`), the reaper (`ReaperSteps`) and a restart of the server
(`ServerRestarts`). What makes a new terminal harmless to listings under way is that
its uuid is in none of them (`FreshIsFresh`).

### How servers and brokers replace each other

`ServerLifeProofs` proves `LifeStaysSound` (`ServerLife`'s `LifeSound`) for every set of
servers and brokers, if their names differ from each other and from what a file may say
instead (`Distinct`). The run has two servers and three brokers, which is too few for
the circle that the proof had to exclude: a broker that found a stale file may be
overtaken by two others, of which the first removes that file, and removes the file
that the second has bound meanwhile. `overlap` therefore also counts a broker that binds
where another is about to remove what it found (`Late`). Until then:

* who is past the control socket holds it (`Owner`), and so there is one;
* one server writes the token, and every ready server and every broker of this build
  has read that one (`Tokens`): a second finds the file empty and gives up;
* a listening broker has the file at its path, and nobody listens where another is
  about to remove it (`Sockets`), neither brokers that end nor servers that forget dead
  ones;
* a running server's broker was configured by nobody else since (`Configured`), because
  only the one that owns the directory configures.

That no update closes a terminal (`Causes`) needs no such hypothesis: who stops its
brokers was told to stop, or to restart them. The steps are first told by the few
kinds that matter (`ServerMoves`, `BrokerMoves`), and every part of the invariant is kept
by that alone.

### Updates

`UpdateInstallProofs`, for every set of channels, commits and browsers:

* `InstallsAreSound` (`InstallSound`) and `InstallTypeCorrect`, if "no release" and
  "nobody" are neither a release nor a browser (`Distinct`). The swap goes over the three
  parts of an installation in order, and each part is in one of three shapes: as it was,
  taken out, or swapped. While it runs, the parts before the one under way are swapped
  and the ones after it are as they were (`Swapping`, `Halfway`); a rollback takes them
  back in reverse (`Undoing`). With at most one failure what is left is whole.
  Of what a second failure leaves the theorem says only that each part is the old one,
  the new one or missing (`InstalledAsAsked`).
* `ReleasesAreChecked` (`ReleaseChecked`), if the limits are numbers (`Limits`): whatever
  the channel's host serves, nothing grows past its limit, no archive is downloaded but
  on the publisher's word for this channel, and a verified release is whole.
* `VersionsAreOrdered`: versions are in a strict total order, for prereleases of every
  length, where a core is three numbers and an identifier is numeric or not and has a
  number as its rank among its kind (`VersionParts`). The order of two prereleases is
  that of the first place in which they differ (`FirstDifference`, a least number),
  which makes transitivity a matter of three such places.

### Passwords, login attempts and activity views

Also in `ServerProofs`:

* `PasswordsSound` (`AuthSound`), for every number of changes and logins at once:
  a session that was refused stays refused (`RefusedForGood`), what a restart
  brings back is what the server accepts, unless the last change was never answered
  (`FileMatchesMemory`), and of two changes from one password one is refused
  (`ChangesChain`). `AuthInv` adds that the lock is held by the one change between
  reading the hash and replacing it (`OneChanges`), that neither file nor memory has
  a secret that was refused (`SecretsLive`), and that a written change is what the
  file holds, under a secret memory does not have yet (`ChangesFit`). It assumes
  that the mark for "no file" is neither a call, nor a password, nor credentials.
* `WhatWasSeen` (`ViewsSound`), for every number of browsers, with no assumption:
  what was seen is never ahead of what was completed, stays seen while its terminal
  is there, and the file is the memory or a change that was answered an error. That
  a restart does not take anything back needs `FileKeepsUp`, a part of `ViewInv`: the
  file is never behind the memory for a terminal that is still there.
* `LimiterAdmits` (`WaitIsEnough`): a client that waits as long as it was told is
  admitted, for every limit, window and size of the table (`LimiterAssumption`). What
  is left of its window is never more than what is left of its wait (`LimiterInv`),
  and the first attempt of a new window is admitted. That a window bounds the
  attempts (`AttemptsBounded`) is a statement about a sum over the window's ticks,
  an induction over data, and stays with TLC.

### Settings and browser tabs

Also in `ServerProofs`:

* `SettingsTypesHold` (`SettingsTypeOK`) and `SettingsStaySound` (`SettingsSound`),
  for every number of terminals, agents and overlapping calls of `retain`: memory
  and file never differ but by a change that was refused although it had reached
  the file (`FileMatches`), and a call of `retain` gives up only on terminals that
  every listing of the whole grace period missed (`GraceKept`). `SettingsAssumption`
  says that the grace period is not empty, that sharing is a choice, and that the
  mark for "no terminal" is not a terminal. The age
  that `retain` keeps is reset by one thread while another, with an older listing,
  counts it on, so that it is no measure of time by itself; `SettingsInv` has
  what is true of it (`AgesTrue`): it never exceeds the time since a listing had
  the terminal. What a thread is about to prune it found among the keys it read
  (a part of `SettingsTypes`).
* `TabsStaySound` (`TabsSound`), for every number of pages and close commands,
  whatever is lost, late or reloaded between page and server: a command is offered
  only while its agent waits (`CommandsHaveCallers`), an agent is told of a closed
  tab only when its page closed it on that command (`ClosedIsTrue`), and no page
  closes unsaved edits (`EditsAreKept`). The second is about the end of a chain: a
  page applies, its acknowledgement travels, the registry passes it on, the call
  wakes. `TabsInv` says of each link that "closed" stands for an applied command
  (`AckTrue`, `ToldTrue`), and that what is pending was not answered
  (`PendingUntold`), so that an answer is passed on once. That the table has at
  most `MAX_BROWSER_VIEWS` records (in `TypeOK`) stays with TLC: the theorems about
  cardinality do not combine with the rest of this module.

## 5. What is only model-checked, and what is not modelled

Only checked, and why:

* Liveness (`ReaderResumes`, `Follows`, `CancelEndsStreaming`, `DeadTerminalEnds`,
  `DeadAreGone`, and the labels in `ServicesSound`)
  rests on fairness, which this prover does not reason about.
* What `OscScanner` computes for every input is an induction over the input; so are the
  cleaner of a page, `PromptCapture`, the plan of rows of `EmulatorState`, the gates of
  `AgentDetection` and the lines of a configuration file. For the redactor the induction
  was replaced by sets of positions with a least one (section 4); each of these would
  need the like.
* Of `server_process` the registry, fili, the status line and providers, and how many
  attempts a window admits (in `DeadAreGone`, `ServicesSound` and `ServerTypeOK`); of
  `terminal_session` all but input, viewports and locks (`OutputRead`, `ProcessesSound`,
  `AgentSound`, and the other parts' types in `SessionTypeOK`); of `host` the
  integrations in `UpdatesSound` and all of `PagesSound` and of the action properties in
  `CommandsBehave`. These properties are conjunctions over the parts of a run: of
  `UpdatesSound` and `HostTypeOK` the parts about updates, releases, versions, server
  life and the command's types are the theorems above, stated of the parts' own
  specifications. Nothing but the first two points keeps the other safety properties
  from being proved; section 7 says in which order.

Abstractions, by module:

* AccessManager: the activity log, the revision counter and request hashes (a
  stale hash is one more early return); validation of names and values; the
  text of errors. Which objects `sudo_objects_match` compares is a free choice.
* EmulatorState: cells with their widths, positions of cursors but in the second part,
  titles; the workaround for wrapping in a grid of one row. The twin is given up
  at a sequence that enters or leaves the alternate screen twice, or restores a cursor
  that was not saved (`Unusual`), until the next snapshot is restored.
* AgentDetection: a line is a run of strokes and what follows; a regular expression is
  the words it finds; one agent's manifest, which is loaded before lines are shown; one
  hook for each behaviour; what only explains or previews a rule.
* SecretCommand: one source of chunks stands for both pipes. Which patterns a
  secret yields (`secret_redaction_variants`) is a constant. Delivery on standard
  input is two outcomes without a duration, so that a command that never reads
  its input is not distinguished from a slow one.
* TerminalStream: observers, messages that change only a client's role, framing
  of long payloads, the backlog estimate that triggers `RecoverBacklog` (it may
  happen at any time), input. `StoreCheckpoint` does not model the emulator's
  content.
* FlowControl: the 10-millisecond granularity of waits; after a release the
  counter only grows and nothing reads it, so that `MaxDebt` bounds it.
* TerminalInput: a message's length stands for its bytes.
* ClientViewports: pixels go as columns and rows do; the epoch of the grid is
  TerminalStream's.
* TerminalRegistry: the environment and directory of a new terminal; the kernel
  gives a pid to nobody while a process of its session lives. ProcessTree:
  `pidfd_open` is there; a freed pid is not handed on within one scan.
* AgentActivity: what the screen, the process table and the OSC reports suggest
  is arbitrary. AgentTranscript: a record is its number, kind, id and size.
* ScrollbackPages: bytes have no value but what the automata tell apart.
* BrokerPool: spawning a broker and claiming its socket are ServerLife's; what only
  passes through is one operation.
* AgentControl: what a read returns; the settings' file is TerminalControl's.
* TerminalControl: a tab's id is what it is a hash of; every page has a view of its own.
* Auth: a hash is its password; a session's own expiry is left out.
* UpdateInstall: in its first part the fetching of a release is one step that comes or
  fails; in its third a text is well formed or not, at most one field of a manifest is
  wrong, and the bytes of an archive are told apart by whether their hash is the signed
  one.
* VirtualAudio: frames, mixing, the jitter buffer; connections made while the hub
  shuts down.
* Fili: the activity stream with its cursor, the journal, the text of messages.
* StatusCache: what a provider answers is when it was observed and whether it warns; in
  its third part, failures are told apart by whether another try is worth it, and
  requests, reset times and labels are left out.
* Integrations: a listing shows what is there at the moment it is read; listings
  are read one at a time. The skill's part leaves out two servers that start at
  once, and that the links of a running server show a new copy before the restart.
* Files: types and sizes of entries; ties between creation times.
* DebugRecording: several looks at the flag for one message are one; the counter
  `events`, which nothing reads.

Behaviours met while modelling that no property excludes, so that a reader does
not take the properties for more than they say:

* the owner of a terminal may not be found while a racing listing replaces the
  cache (`broker.rs` 1046), and a live generation that does not answer at start is
  left out of the pool (824); automatic names are unique within a generation;
* an agent's revision starts again at 1 when the record is dropped (`terminal.rs`
  2537); work that is resumed keeps its old completion and summary; a turn that
  ends from Blocked is never recorded as completed;
* the emulator: after a full reset on the alternate screen an exit that follows restores
  the normal screen's state of before (`terminal_state.rs`); a cursor right behind
  content that exactly fills the columns is mapped to the next row; popping the last
  keyboard flags gives none;
* detection: a new agent's first plain title may read as the end of the previous one's
  spinner, because what was seen of titles is not cleared with the rest; a title with
  both a spinner and a word for rest marks the agent idle while its state is working;
  the tail of a chat file loses a whole line if the cut falls right at its start;
* a login verified before a password change signs with the new secret (`api.rs`
  628);
* an installation killed between two renames, or whose rollback fails, is mixed;
* two pages that share a view id (a duplicated tab) share its record; the view of
  a removed terminal is written again by a late report;
* fili: a change of the model between a tool call and its result leaves a result
  without its call; one between reading the conversation and compacting it drains
  past its end (about `fili.rs` 1160); `stream_after` (430-444) may hand out a
  cursor past an event that is numbered and not yet in the list;
* audio: turning one direction off while a selection of the other waits for its
  device closes the context under it; `ensure_started` looks at `shutting_down`
  before it takes the lock (`audio.rs` 216-221);
* scrollback: a page that ends at the latest byte may cut a sequence, although
  `terminal_state.rs` 302-307 says that pages never do; tracker and cleaner differ
  on CAN and SUB inside CSI, on C1 ST, and on BEL in strings that are not OSC; a
  CRLF cut between two pages gives an extra newline;
* transcripts: `fili_read_transcript` (`terminal.rs` 3289-3292) takes the oldest 500
  records though its comment says the newest; a page of an empty store hands out
  cursor 1 (`history.rs` 190-207);
* control: a terminal removed between listing and check can be listed by a stale
  listing if the default then exposes it; a write whose answer is lost is not noted; a
  new terminal whose settings cannot be saved stays, with no settings, when its removal
  fails too (`terminal_control.rs` 1202);
* processes: `signal_pty_session` goes on when `/proc/<shell>` cannot be read
  (`terminal.rs` 3744);
* status: overlapping updates of the settings lose one, and file and memory may
  then differ (`status.rs` 389; `pushover.rs` 185-201 has the same pattern); an
  abandoned refresh lets providers be asked again without backoff;
* integrations: nothing keeps two calls apart. A removal of OMP's plugin that
  overlaps an installation can leave our plugin without marketplace and marker, and
  every later installation refuses it as another's (`agent_integrations.rs` 1711);
  Codex and Claude Code take a plugin whose marketplace is gone for ours; a plugin
  of OMP in a project's scope only shows as installed while installing fails its
  last check; a command that timed out may have taken effect and is reported failed;
* Hermes: the editing is checked for files with two spaces a level. Lists at the
  key's own indentation, an indentation of four, and flow sequences or scalars over
  several lines would be made invalid (`agent_integrations.rs` 1247-1360); a comment
  after an inline `plugins: [...]` is dropped on rewriting; only the first of two
  equal items is removed; a removal ignores errors;
* the artifact skill: a crash between its two renames leaves no copy until the next
  start; staging and previous directories of interrupted starts stay; what a user
  puts at the link's path between the look and the rename is replaced;
* artifacts: an editor's second visible file hides the artifact meanwhile; while it
  is removed an artifact can be listed without its metadata; a removal may fail
  part way and leave the rest;
* server life: two servers started at once over a stale socket file can both claim
  it, although `main.rs` 103 says that claiming makes the process the only one (after
  that `overlap`, `LifeSound` claims `UpdateKeepsTerminals` only); a crash between creating and writing the
  token file leaves it empty, and every later start fails (`broker.rs` 1599-1637); a
  broker whose health came late is forgotten until the next start, and one that was
  too slow to start is not killed; a server whose web address is taken stops its
  brokers and closes all terminals (`main.rs` 189-194); SIGTERM during a requested
  restart still restarts; the confirmation of a broker's restart looks 750 ms before
  and does not count draining brokers that did not answer (`broker.rs` 1356-1365);
  a reap that times out lets a successor bind before the old one removes its file, and
  a broker that found a stale file may remove the one another has bound meanwhile;
* checkpoints: frames of a browser of another build may be mixed under one upload
  id; only the size is guaranteed for them;
* layout: a listing read before a creation finished takes the new pane away
  (`App.tsx` 957); a dragged divider is known by its path, so that another may move
  (486-494);
* the editor: what is typed during a save counts as saved (`ResourceWorkspace.tsx`
  356), a write between check and rename is lost (`files.rs` 550), the answer of a
  save may hold another's version; a read cancelled by typing leaves the loading
  overlay (340); the answer of a save of a closed tab marks the reopened tab clean;
* uploads: the name of a dangling link does not exist and cannot be linked, and
  fails after 32 attempts; earlier fields of a failed request stay stored;
* voice notes: recording samples loses those not yet in a buffer at the stop, and
  a note without samples is still handed over; after an error event the button shows
  recording until it is stopped;
* recordings: an event whose connection saw the flag before a clear may land in the
  next recording (`debug_recording.rs` 263).

Components that are not modelled, with the reason, are in PROJECT.json. In
short: thin I/O (push notifications, TLS, configuration, command line), pattern
matching over the outside world (the screen side of agent detection, the answers of
status providers and of plugin listings), what a screen looks like, frames of
audio, and the wire format between server and brokers.

## 6. Disagreements found

* **The cap of pending requests** (`access_cap`, `access.rs` 1442). A request
  whose password is being checked is not counted against the cap; when the
  password is refused it returns to Pending although its place is taken.
* **A request nobody waits for** (`access_orphan`, `access.rs` 1651). The last
  waiter that leaves while the password is checked does not withdraw the request,
  and a refused password puts it back in the panel.
* **A canceled command that goes on** (`secret_command_cancel`, `access.rs`
  2175). Once a command has closed its output the task waits for its status
  alone; canceling no longer kills it, contrary to SECURITY.md.
* **A missed resize that does not force a snapshot** (`terminal_stream_gap`,
  `TerminalPane.tsx` 1454). The pane adopts the epoch of a synchronization before
  the message that says whether its content goes with it; a connection that
  breaks in between resumes in the wrong grid. `terminal_stream` excludes exactly
  this case (`SizeSyncTogether`), so that everything else is still checked.
* **A report after the exit** (`agent_after_exit`, `terminal.rs` 2605). A hook's
  event that arrives after the shell exited reopens the agent the exit closed, and
  nothing closes it again.

## 7. Plan

The order so far: AccessManager (the most state, the most interleavings),
SecretCommand (what its commands do), TerminalStream (what users see), FlowControl;
the rest of a session, the server process, the host and the page; the proofs about
the access manager, flow control and typed input, then about streams and caps of
the access manager, the terminal stream, viewports and locks, and then about the
pool of brokers, passwords, logins, activity views, settings and tabs; then about the
redactor of secret commands, updates, and servers and brokers that replace each other.
Next:

1. **Proofs**: the safety of the registry and the agent record; the audio hub and
   the agents' control socket; how releases and the emulator's snapshots are read.
   They join `ServerProofs` and `SessionProofs`.
2. **Abstract specifications**: a reliable screen (one variable, the history a
   pane shows, which only advances or is restored to a later point) implemented by
   TerminalStream, for which `Inv` is the invariant needed; a one-shot approval
   implemented by AccessManager's sudo side.
3. **Models**: notifications (each event delivered once, the pending timer), fili's
   activity stream, the workspace's client lease.

Runs stay few: one passing run for each side of a component or for the parts of a
process, instances with caps and capacities of one or two, and one violation run
for each disagreement.
