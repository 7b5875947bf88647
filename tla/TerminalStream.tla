---------------------------- MODULE TerminalStream ----------------------------
(***************************************************************************)
(* The output of one terminal, from the pty to the screens of the browsers *)
(* attached to it: the sequenced state and the events of the session       *)
(* (src/terminal_state.rs, src/terminal.rs), the socket loop that serves a *)
(* browser (src/workspace.rs), and the pane that renders what it receives  *)
(* (src/client).  A pane that missed something resumes from its last       *)
(* parsed byte, or is given a snapshot: the server's own model of the      *)
(* screen, or a checkpoint some pane uploaded followed by later output.    *)
(*                                                                         *)
(* What a screen shows is determined by the bytes it parsed, the grid each *)
(* was parsed in, and the grid it has now.  A view is therefore a sequence *)
(* of cells <<k, e>>, the k-th byte of the terminal parsed in the grid of  *)
(* epoch e.  One byte stands for one chunk read from the pty.              *)
(*                                                                         *)
(* Left out: observers, role-only size messages (same grid, same epoch),   *)
(* the framing of long outputs and checkpoints, and input.  A definition   *)
(* named Faulty... or Silent... is a plausible bug in the one that follows *)
(* it; no action uses it.                                                  *)
(***************************************************************************)
EXTENDS Integers, Sequences

CONSTANTS
    Clients,
    MaxBytes, MaxResizes,  \* bounds of the model on what the terminal does
    RingBytes,             \* output the delta ring retains
    EventCapacity,         \* events a broadcast receiver may fall behind
    WireCapacity,          \* messages in flight before a send blocks
    WriteCapacity,         \* bound of the model on the writes xterm queues
    SizeSyncTogether       \* TRUE: no connection breaks between the size and
                           \* the sync message of one synchronization

ASSUME StreamAssumption ==
    /\ {MaxBytes, MaxResizes, RingBytes} \subseteq Nat
    /\ {EventCapacity, WireCapacity, WriteCapacity} \subseteq Nat \ {0}
    /\ SizeSyncTogether \in BOOLEAN

VARIABLES
    log,          \* history: the epoch of the grid each byte was written in
    output,       \* TerminalOutputState
    exitedAt,     \* Len(log) when exited() ran, or Unset
    announced,    \* whether exited() has sent the Exit event
    receiver,     \* per connection: the receiver and sent_sequence
    wire,         \* per connection: messages on their way to the pane
    pane,         \* per browser: TerminalPane and its TerminalStreamState
    upload        \* per browser: the checkpoint on its way to the server

vars == <<log, output, exitedAt, announced, receiver, wire, pane, upload>>

Unset == -1
NoUpload == [sequence |-> Unset, epoch |-> Unset, view |-> <<>>]
NoReceiver == [live |-> FALSE, queue |-> <<>>, lagged |-> FALSE, sent |-> 0]

\* What a screen in the grid of an epoch makes of the bytes after the first
\* `from', up to the first `to'.
Cells(from, to, epoch) == [k \in 1..(to - from) |-> <<from + k, epoch>>]

\* The server's own model of the screen.
Screen == [k \in DOMAIN log |-> <<k, log[k]>>]

-----------------------------------------------------------------------------
(* Messages to a pane, events to a receiver, and writes xterm has queued.  *)

\* Control messages; an output carries the bytes from `number' to `upto'.
Message(type, number) ==
    [type |-> type, number |-> number, upto |-> number, view |-> <<>>]
OutputMessage(from, to) == [Message("output", from) EXCEPT !.upto = to]
SnapshotMessage(sequence, view) == [Message("snapshot", sequence) EXCEPT !.view = view]

Event(type, number) == [type |-> type, number |-> number]

\* What a frame asks xterm to write.  `own': for the current connection, which
\* commits an output once it is parsed.
Write(frame) == [kind |-> frame.type, from |-> frame.number, upto |-> frame.upto,
                 view |-> frame.view, own |-> TRUE]
ResetWrite == [kind |-> "reset", from |-> 0, upto |-> 0, view |-> <<>>, own |-> FALSE]

Init ==
    /\ log = <<>>
    /\ output = [sequence |-> 0, epoch |-> 0, earliest |-> 0, ground |-> TRUE,
                 safe |-> {0}, checkpoint |-> NoUpload]
    /\ exitedAt = Unset /\ announced = FALSE
    /\ receiver = [c \in Clients |-> NoReceiver]
    /\ wire = [c \in Clients |-> <<>>]
    /\ pane = [c \in Clients |->
                [link |-> "down", view |-> <<>>, writes |-> <<>>,
                 committed |-> Unset, received |-> Unset, epoch |-> Unset,
                 mode |-> "none", target |-> Unset, accepting |-> FALSE,
                 hasSynced |-> FALSE, recovering |-> FALSE,
                 uploaded |-> <<Unset, Unset>>]]
    /\ upload = [c \in Clients |-> NoUpload]

-----------------------------------------------------------------------------
(* The session.  Every step below runs under the output lock.              *)

FaultyEnqueue(r, e) ==    \* an unbounded queue
    IF r.live THEN [r EXCEPT !.queue = Append(@, e)] ELSE r

SilentEnqueue(r, e) ==    \* a full queue loses the new event, unnoticed
    IF r.live /\ Len(r.queue) < EventCapacity
      THEN [r EXCEPT !.queue = Append(@, e)] ELSE r

Enqueue(r, e) ==
    IF ~r.live THEN r
    ELSE IF Len(r.queue) < EventCapacity THEN [r EXCEPT !.queue = Append(@, e)]
    ELSE [r EXCEPT !.queue = Append(Tail(@), e), !.lagged = TRUE]

Broadcast(e) == receiver' = [c \in Clients |-> Enqueue(receiver[c], e)]

\* TerminalOutputState::publish of one chunk, which leaves the escape parser
\* between sequences (ground) or inside one.
Publish(ground) ==
    LET sequence == output.sequence + 1
        earliest == IF sequence - output.earliest > RingBytes
                      THEN sequence - RingBytes ELSE output.earliest
        kept     == {s \in output.safe : s >= earliest}
    IN  /\ output.sequence < MaxBytes
        /\ output' = [output EXCEPT
             !.sequence = sequence, !.earliest = earliest, !.ground = ground,
             !.safe = IF ground THEN kept \cup {sequence} ELSE kept]
        /\ log' = Append(log, output.epoch)
        /\ Broadcast(Event("output", output.sequence))
        /\ UNCHANGED <<exitedAt, announced, wire, pane, upload>>

\* TerminalOutputState::resize to other rows or columns.  An unfinished escape
\* sequence survives in the rebuilt model of the screen.
Resized ==
    [output EXCEPT !.epoch = @ + 1,
                   !.safe = IF output.ground THEN {output.sequence} ELSE {},
                   !.checkpoint = NoUpload]

\* update_viewports, when the negotiated grid changes.
Resize ==
    /\ output.epoch < MaxResizes
    /\ output' = Resized
    /\ Broadcast(Event("size", output.epoch + 1))
    /\ UNCHANGED <<log, exitedAt, announced, wire, pane, upload>>

\* exited().  It follows the last output, unless something still holds the pty
\* when the wait for the drain times out.  mark_exited holds the output lock; the
\* event is sent without it.
Exited ==
    /\ exitedAt = Unset
    /\ exitedAt' = Len(log)
    /\ UNCHANGED <<log, output, announced, receiver, wire, pane, upload>>

AnnounceExit ==
    /\ exitedAt # Unset /\ ~announced
    /\ announced' = TRUE
    /\ Broadcast(Event("exit", 0))
    /\ UNCHANGED <<log, output, exitedAt, wire, pane, upload>>

FaultyStorable(u) ==    \* accepts whatever the ring can extend
    /\ u.epoch = output.epoch
    /\ u.sequence \in output.earliest..output.sequence
    /\ u.sequence >= output.checkpoint.sequence

\* The conditions of store_browser_checkpoint.
Storable(u) ==
    /\ u.epoch = output.epoch
    /\ u.sequence \in output.safe
    /\ u.sequence \in output.earliest..output.sequence
    /\ u.sequence >= output.checkpoint.sequence

StoreCheckpoint(c) ==
    /\ upload[c] # NoUpload
    /\ output' = IF Storable(upload[c])
                   THEN [output EXCEPT !.checkpoint = upload[c]] ELSE output
    /\ upload' = [upload EXCEPT ![c] = NoUpload]
    /\ UNCHANGED <<log, exitedAt, announced, receiver, wire, pane>>

-----------------------------------------------------------------------------
(* Synchronization: TerminalOutputState::sync and synchronize_terminal.    *)

FaultyCanResume(sequence, epoch) ==    \* does not compare the epochs
    sequence # Unset /\ sequence \in output.earliest..output.sequence

CanResume(sequence, epoch) ==
    /\ sequence # Unset /\ epoch = output.epoch
    /\ sequence \in output.earliest..output.sequence

\* browser_snapshot, or else the snapshot of the server's own model.
SnapshotView ==
    LET kept == output.checkpoint
    IN  IF kept # NoUpload /\ kept.epoch = output.epoch
           /\ kept.sequence >= output.earliest
          THEN kept.view \o Cells(kept.sequence, output.sequence, output.epoch)
          ELSE Screen

\* What synchronize_terminal sends.
Resuming(sequence) ==
    IF sequence = output.sequence
      THEN <<Message("size", output.epoch), Message("resume", output.sequence),
             Message("synced", output.sequence)>>
      ELSE <<Message("size", output.epoch), Message("resume", output.sequence),
             OutputMessage(sequence, output.sequence),
             Message("synced", output.sequence)>>

Restoring ==
    <<Message("size", output.epoch), Message("restore", output.sequence),
      SnapshotMessage(output.sequence, SnapshotView),
      Message("synced", output.sequence)>>

\* The exit is part of it once it happened.
SyncMessages(resumable, sequence) ==
    (IF resumable THEN Resuming(sequence) ELSE Restoring)
    \o (IF exitedAt = Unset THEN <<>> ELSE <<Message("exit", 0)>>)

\* A subscription made with the state it describes; none after the exit.
FreshReceiver ==
    IF exitedAt = Unset
      THEN [NoReceiver EXCEPT !.live = TRUE, !.sent = output.sequence]
      ELSE NoReceiver

Synchronize(c, sequence, epoch) ==
    /\ wire' = [wire EXCEPT ![c] =
                  @ \o SyncMessages(CanResume(sequence, epoch), sequence)]
    /\ receiver' = [receiver EXCEPT ![c] = FreshReceiver]

-----------------------------------------------------------------------------
(* The socket loop.                                                        *)

\* The outputs at the head of the queue that coalesce_terminal_output may merge.
Mergeable(queue) ==
    {n \in 1..Len(queue) : \A k \in 1..n :
        queue[k] = Event("output", queue[1].number + k - 1)}

Forwardable(c) == receiver[c].live /\ Len(wire[c]) < WireCapacity

\* The receiver lagged, or an output does not follow what was sent.
MustResynchronize(r) ==
    \/ r.lagged
    \/ /\ r.queue # <<>> /\ Head(r.queue).type = "output"
       /\ Head(r.queue).number > r.sent

Resynchronize(c) ==
    LET r == receiver[c] IN
    /\ Forwardable(c) /\ MustResynchronize(r)
    /\ Synchronize(c, Unset, Unset)
    /\ UNCHANGED <<log, output, exitedAt, announced, pane, upload>>

FaultyForwardOutput(c) ==    \* forwards past a lag
    LET r == receiver[c] IN
    /\ Forwardable(c)
    /\ r.queue # <<>> /\ Head(r.queue).type = "output"
    /\ \E n \in Mergeable(r.queue) :
         LET first == Head(r.queue).number
             last  == first + n
         IN  /\ receiver' = [receiver EXCEPT ![c].queue = SubSeq(@, n + 1, Len(@)),
                                             ![c].sent = last]
             /\ wire' = [wire EXCEPT ![c] =
                  Append(@, OutputMessage(first, last))]
    /\ UNCHANGED <<log, output, exitedAt, announced, pane, upload>>

\* One output, and any that follow it at once up to the frame budget, without
\* what was sent already.
ForwardOutput(c) ==
    LET r == receiver[c] IN
    /\ Forwardable(c) /\ ~r.lagged
    /\ r.queue # <<>> /\ Head(r.queue).type = "output"
    /\ Head(r.queue).number <= r.sent
    /\ \E n \in Mergeable(r.queue) :
         LET last == Head(r.queue).number + n
         IN  /\ receiver' = [receiver EXCEPT ![c].queue = SubSeq(@, n + 1, Len(@)),
                                             ![c].sent = IF last > @ THEN last ELSE @]
             /\ wire' = IF last <= r.sent THEN wire
                        ELSE [wire EXCEPT ![c] =
                               Append(@, OutputMessage(r.sent, last))]
    /\ UNCHANGED <<log, output, exitedAt, announced, pane, upload>>

FaultyForwardControl(c) ==    \* does not look for a lag first
    LET r == receiver[c] IN
    /\ Forwardable(c)
    /\ r.queue # <<>> /\ Head(r.queue).type \in {"size", "exit"}
    /\ wire' = [wire EXCEPT ![c] =
                  Append(@, Message(Head(r.queue).type, Head(r.queue).number))]
    /\ receiver' = [receiver EXCEPT ![c] =
                      IF Head(r.queue).type = "exit" THEN NoReceiver
                      ELSE [r EXCEPT !.queue = Tail(r.queue)]]
    /\ UNCHANGED <<log, output, exitedAt, announced, pane, upload>>

\* A size is passed on; the exit is passed on and ends the loop.
ForwardControl(c) ==
    LET r == receiver[c] IN
    /\ Forwardable(c) /\ ~r.lagged
    /\ r.queue # <<>> /\ Head(r.queue).type \in {"size", "exit"}
    /\ wire' = [wire EXCEPT ![c] =
                  Append(@, Message(Head(r.queue).type, Head(r.queue).number))]
    /\ receiver' = [receiver EXCEPT ![c] =
                      IF Head(r.queue).type = "exit" THEN NoReceiver
                      ELSE [r EXCEPT !.queue = Tail(r.queue)]]
    /\ UNCHANGED <<log, output, exitedAt, announced, pane, upload>>

-----------------------------------------------------------------------------
(* The pane.  A control message waits until xterm parsed what this         *)
(* connection wrote before it; a frame is written at once.                 *)

OwnWrites(p) == {k \in DOMAIN p.writes : p.writes[k].own}

Arrives(c, type) ==
    /\ pane[c].link = "up" /\ Len(pane[c].writes) < WriteCapacity
    /\ wire[c] # <<>> /\ Head(wire[c]).type = type

\* The pane has the size a synchronization opens with, and not its sync.
MidSynchronization(c) ==
    /\ pane[c].link = "up" /\ wire[c] # <<>>
    /\ Head(wire[c]).type \in {"resume", "restore"}

Consume(c) == /\ wire' = [wire EXCEPT ![c] = Tail(@)]
              /\ UNCHANGED <<log, output, exitedAt, announced, receiver, upload>>

\* xterm reflows what it shows at once.
ReceiveSize(c) ==
    /\ Arrives(c, "size") /\ OwnWrites(pane[c]) = {}
    /\ pane' = [pane EXCEPT ![c].epoch = Head(wire[c]).number]
    /\ Consume(c)

\* mode is syncMode, "restored" once snapshotReceived is set.
\* sync: TerminalStreamState::begin, and for a snapshot a reset through the
\* write queue.
Begun(p, sync) ==
    [p EXCEPT !.mode = sync.type, !.target = sync.number, !.accepting = FALSE,
              !.committed = IF sync.type = "restore" THEN Unset ELSE @,
              !.received = IF sync.type = "restore" THEN sync.number ELSE p.committed,
              !.writes = IF sync.type = "restore" THEN Append(@, ResetWrite) ELSE @,
              !.recovering = @ \/ p.hasSynced]

ReceiveSync(c) ==
    /\ Arrives(c, "resume") \/ Arrives(c, "restore")
    /\ OwnWrites(pane[c]) = {}
    /\ pane' = [pane EXCEPT ![c] = Begun(pane[c], Head(wire[c]))]
    /\ Consume(c)

\* A stream error closes the socket, as a break does.
Failed(p) == [p EXCEPT !.link = "closing", !.accepting = FALSE]

HangUp(c) == /\ wire' = [wire EXCEPT ![c] = <<>>]
             /\ receiver' = [receiver EXCEPT ![c] = NoReceiver]
             /\ UNCHANGED <<log, output, exitedAt, announced, upload>>

\* TerminalStreamState::accept takes the frame.
Accepts(p, frame) ==
    IF frame.type = "snapshot"
      THEN p.mode \in {"restore", "restored"} /\ frame.number = p.target
      ELSE p.received # Unset /\ frame.number = p.received

\* ... which is then written to xterm.
Accepted(p, frame) ==
    [p EXCEPT !.received = IF frame.type = "snapshot" THEN @ ELSE frame.upto,
              !.mode = IF frame.type = "snapshot" THEN "restored" ELSE @,
              !.writes = Append(@, Write(frame))]

ReceiveFrame(c) ==
    LET frame == Head(wire[c])
        accepts == Accepts(pane[c], frame)
    IN  /\ Arrives(c, "snapshot") \/ Arrives(c, "output")
        /\ pane' = [pane EXCEPT ![c] = IF accepts THEN Accepted(pane[c], frame)
                                                  ELSE Failed(pane[c])]
        /\ IF accepts THEN Consume(c) ELSE HangUp(c)

\* TerminalStreamState::finish accepts the end of the synchronization.
Finished(p, target) ==
    /\ target = p.target
    /\ p.received = target
    /\ \/ p.mode = "restored"
       \/ p.mode = "resume" /\ p.committed = target

\* ... and the pane takes input from then on.
Synced(p) == [p EXCEPT !.committed = p.target, !.mode = "none", !.target = Unset,
                       !.accepting = TRUE, !.hasSynced = TRUE, !.recovering = FALSE]

ReceiveSynced(c) ==
    LET p == pane[c]
        finished == Finished(p, Head(wire[c]).number)
    IN  /\ Arrives(c, "synced") /\ OwnWrites(p) = {}
        /\ pane' = [pane EXCEPT ![c] = IF finished THEN Synced(p) ELSE Failed(p)]
        /\ IF finished THEN Consume(c) ELSE HangUp(c)

ReceiveExit(c) ==
    /\ Arrives(c, "exit") /\ OwnWrites(pane[c]) = {}
    /\ pane' = [pane EXCEPT ![c].link = "exited", ![c].accepting = FALSE]
    /\ Consume(c)

\* TerminalStreamState::commit takes the end of an output that was parsed.
Committable(p, sequence) ==
    /\ p.received # Unset /\ sequence <= p.received
    /\ p.committed = Unset \/ sequence >= p.committed

\* What a screen shows once it parsed a write.
Parsed(p, w) ==
    CASE w.kind = "reset"    -> <<>>
      [] w.kind = "snapshot" -> p.view \o w.view
      [] w.kind = "output"   -> p.view \o Cells(w.from, w.upto, p.epoch)

\* xterm parses the next write, and an output of this connection is committed.
Parse(c) ==
    LET p == pane[c]
        w == Head(p.writes)
        commits == w.own /\ w.kind = "output"
        shown == [p EXCEPT !.writes = Tail(@), !.view = Parsed(p, w)]
    IN  /\ p.writes # <<>>
        /\ pane' = [pane EXCEPT ![c] =
             IF ~commits THEN shown
             ELSE IF Committable(p, w.upto) THEN [shown EXCEPT !.committed = w.upto]
             ELSE Failed(shown)]
        /\ IF commits /\ ~Committable(p, w.upto) THEN HangUp(c)
           ELSE UNCHANGED <<log, output, exitedAt, announced, receiver, wire, upload>>

\* writeCheckpoint: the screen, serialized, with the sequence and epoch the
\* pane believes it shows, unless it uploaded for these last.
WriteCheckpoint(c) ==
    LET p == pane[c] IN
    /\ p.link = "up" /\ p.accepting /\ p.mode = "none"
    /\ OwnWrites(p) = {} /\ p.committed # Unset
    /\ p.uploaded # <<p.committed, p.epoch>>
    /\ upload[c] = NoUpload
    /\ upload' = [upload EXCEPT ![c] =
         [sequence |-> p.committed, epoch |-> p.epoch, view |-> p.view]]
    /\ pane' = [pane EXCEPT ![c].uploaded = <<p.committed, p.epoch>>]
    /\ UNCHANGED <<log, output, exitedAt, announced, receiver, wire>>

\* The connection breaks, or the pane leaves the screen.  What is in flight to
\* the pane is lost; a checkpoint the server still reads may arrive later.
Break(c) ==
    /\ pane[c].link = "up"
    /\ ~(SizeSyncTogether /\ MidSynchronization(c))
    /\ pane' = [pane EXCEPT ![c] = Failed(pane[c])]
    /\ HangUp(c)

\* recoverBacklog: xterm parses slower than the stream arrives.  The pane drops
\* the connection for one that opens with a snapshot.
RecoverBacklog(c) ==
    /\ pane[c].link = "up" /\ OwnWrites(pane[c]) # {}
    /\ pane' = [pane EXCEPT ![c] = [Failed(pane[c]) EXCEPT !.recovering = TRUE]]
    /\ HangUp(c)

FaultyMustRestart(p) ==    \* resumes over writes xterm still holds
    p.recovering

\* Writes xterm still holds when the wait for it ends, or an unfinished
\* recovery, rule a resumption out: TerminalStreamState::restart.
MustRestart(p) == p.recovering \/ OwnWrites(p) # {}

\* The writes xterm still holds belong to no connection any more.
Disowned(writes) == [k \in DOMAIN writes |-> [writes[k] EXCEPT !.own = FALSE]]

\* TerminalStreamState::restart
Restarted(p) == [p EXCEPT !.committed = Unset, !.received = Unset,
                          !.mode = "none", !.target = Unset]

\* The close handler, once the writes settled or their deadline passed.
SettleClose(c) ==
    LET p == pane[c]
        settled == [p EXCEPT !.link = "down", !.recovering = MustRestart(p),
                             !.writes = Disowned(p.writes)]
    IN  /\ p.link = "closing"
        /\ pane' = [pane EXCEPT ![c] = IF MustRestart(p) THEN Restarted(settled)
                                                         ELSE settled]
        /\ UNCHANGED <<log, output, exitedAt, announced, receiver, wire, upload>>

\* The reconnect timer, or the pane back on screen.
Connect(c) ==
    /\ pane[c].link = "down"
    /\ Synchronize(c, pane[c].committed, pane[c].epoch)
    /\ pane' = [pane EXCEPT ![c].link = "up"]
    /\ UNCHANGED <<log, output, exitedAt, announced, upload>>

-----------------------------------------------------------------------------
SessionStep == \/ \E ground \in BOOLEAN : Publish(ground)
               \/ Resize
               \/ Exited \/ AnnounceExit

Forward(c) == Resynchronize(c) \/ ForwardOutput(c) \/ ForwardControl(c)

Receive(c) == \/ ReceiveSize(c) \/ ReceiveSync(c) \/ ReceiveFrame(c)
              \/ ReceiveSynced(c) \/ ReceiveExit(c)

Idle == /\ \A c \in Clients : pane[c].link = "exited"
        /\ UNCHANGED vars

Next == \/ SessionStep
        \/ \E c \in Clients :
             \/ Forward(c) \/ StoreCheckpoint(c)
             \/ Receive(c) \/ Parse(c) \/ WriteCheckpoint(c)
             \/ Break(c) \/ RecoverBacklog(c) \/ SettleClose(c) \/ Connect(c)
        \/ Idle

Spec == Init /\ [][Next]_vars

\* The exit thread goes on and the loops run, xterm parses, a closed pane
\* reconnects.  Nothing makes the terminal write, a pane upload, or a connection
\* break.
Fairness ==
    /\ WF_vars(AnnounceExit)
    /\ \A c \in Clients : /\ WF_vars(Forward(c)) /\ WF_vars(Receive(c))
                          /\ WF_vars(Parse(c)) /\ WF_vars(SettleClose(c))
                          /\ WF_vars(Connect(c))

FairSpec == Spec /\ Fairness

-----------------------------------------------------------------------------
(* Properties.                                                             *)

Epochs == {Unset} \cup Nat
Positions == {Unset} \cup Nat
Views == Seq(Nat \X Epochs)
Messages == [type : {"size", "resume", "restore", "snapshot", "output", "synced", "exit"},
             number : Nat, upto : Nat, view : Views]
Writes == [kind : {"snapshot", "output", "reset"}, from : Nat, upto : Nat,
           view : Views, own : BOOLEAN]
Occurrences == [type : {"output", "size", "exit"}, number : Nat]
Receivers == [live : BOOLEAN, queue : Seq(Occurrences), lagged : BOOLEAN, sent : Nat]
Panes == [link : {"down", "up", "closing", "exited"}, view : Views,
          writes : Seq(Writes), committed : Positions, received : Positions,
          epoch : Epochs, mode : {"none", "resume", "restore", "restored"},
          target : Positions, accepting : BOOLEAN, hasSynced : BOOLEAN,
          recovering : BOOLEAN, uploaded : Positions \X Epochs]
Uploads == [sequence : Positions, epoch : Epochs, view : Views]
States == [sequence : Nat, epoch : Nat, earliest : Nat, ground : BOOLEAN,
           safe : SUBSET Nat, checkpoint : Uploads]

TypeOK ==
    /\ log \in Seq(Nat)
    /\ output \in States
    /\ output.sequence = Len(log)
    /\ output.safe \subseteq 0..output.sequence
    /\ output.earliest \in 0..output.sequence
    /\ exitedAt \in {Unset} \cup 0..Len(log) /\ announced \in BOOLEAN
    /\ receiver \in [Clients -> Receivers]
    /\ \A c \in Clients : Len(receiver[c].queue) <= EventCapacity
    /\ wire \in [Clients -> Seq(Messages)]
    /\ pane \in [Clients -> Panes]
    /\ upload \in [Clients -> Uploads]

\* A view that is the terminal's own screen as it was after n bytes.
Shows(view, n) ==
    /\ Len(view) = n /\ n <= Len(log)
    /\ \A k \in 1..n : view[k] = <<k, log[k]>>

\* The grids the terminal had while it had n bytes.
HadGrid(epoch, n) ==
    /\ epoch <= output.epoch
    /\ n > 0 => log[n] <= epoch
    /\ n < Len(log) => epoch <= log[n + 1]

\* A pane that takes input, and is not about to be resynchronized, shows a point
\* in the history of the terminal: no byte is missing, doubled or out of order,
\* and each was parsed in the grid the terminal had when it was written.
ShowsThePast ==
    \A c \in Clients :
        pane[c].accepting /\ ~MidSynchronization(c) =>
            LET n == Len(pane[c].view)
            IN  Shows(pane[c].view, n) /\ HadGrid(pane[c].epoch, n)

\* The position a pane would resume from is the end of what it shows, unless
\* writes of an older connection will still reach its screen.
CommittedIsShown ==
    \A c \in Clients :
        pane[c].committed # Unset /\ OwnWrites(pane[c]) = {}
        => Shows(pane[c].view, pane[c].committed)

\* A pane shows what it claims to, and that is a point of the history.
PaneIsTrue == ShowsThePast /\ CommittedIsShown

\* The checkpoint the server keeps is what a screen shows at its sequence and
\* in the current grid, so that it followed by the bytes since is the terminal.
CheckpointExact ==
    output.checkpoint # NoUpload =>
        /\ output.checkpoint.epoch = output.epoch
        /\ output.checkpoint.view
             \o Cells(output.checkpoint.sequence, output.sequence, output.epoch)
           = Screen

\* The server never sends what TerminalStreamState rejects: a frame that does
\* not follow, or the end of a synchronization that is not complete; and what
\* xterm parsed can always be committed.
NoStreamError ==
    \A c \in Clients :
        LET p == pane[c]
            m == Head(wire[c])
            w == Head(p.writes)
        IN  /\ Arrives(c, "output") =>
                 p.received # Unset /\ m.number = p.received
            /\ Arrives(c, "snapshot") => p.mode = "restore" /\ m.number = p.target
            /\ Arrives(c, "resume") => p.committed # Unset
            /\ Arrives(c, "synced") /\ OwnWrites(p) = {} => Finished(p, m.number)
            /\ p.writes # <<>> /\ w.own /\ w.kind = "output" => Committable(p, w.upto)

\* A pane that was told of the exit shows everything the terminal wrote before.
ExitAfterLastByte ==
    \A c \in Clients :
        pane[c].link = "exited" => Len(pane[c].view) >= exitedAt

\* Every frame is accepted, the exit as the last one.
FramesAccepted == NoStreamError /\ ExitAfterLastByte

\* A connection that lasts ends up showing the whole terminal.
CatchesUp ==
    \A c \in Clients :
        <>[](pane[c].link = "up") => <>[](/\ pane[c].accepting /\ pane[c].view = Screen
                                           /\ pane[c].epoch = output.epoch)

\* Nobody attached, before or after it, waits for an exit for ever.
ExitHeard ==
    \A c \in Clients :
        [](exitedAt # Unset /\ pane[c].link = "up" => <>(pane[c].link # "up"))

\* A connection that lasts gets everything there is to get.
Follows == CatchesUp /\ ExitHeard

\* "An existing renderer resumes from its last parser-committed byte only when
\* its grid epoch still matches, so a resize missed while disconnected forces
\* a safe snapshot" (README.md): the same as ShowsThePast, where a connection
\* may also break between a size message and the sync message after it.
MissedResizeForcesSnapshot == ShowsThePast
=============================================================================
